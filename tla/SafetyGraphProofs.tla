------------------------- MODULE SafetyGraphProofs -------------------------
(***************************************************************************)
(* The edges of a payment safety graph are true of every execution of the  *)
(* route, for any project: what is shown of a function that is alone in    *)
(* ControlFlowProofs is shown of functions whose calls do what the called  *)
(* functions do, in the worlds that the edges speak of.                    *)
(***************************************************************************)
EXTENDS SafetyGraph, ControlFlowProofs, FiniteSetTheorems

(* The outcomes of a part of a statement, and of the statement.             *)
LEMMA PartRuns ==
  ASSUME NEW world, NEW text, NEW base, NEW run, Runs(world, text, base, run), NEW k \in DOMAIN text, k >= base,
         NEW j \in DOMAIN text[k].parts, NEW d \in SUBSET DOMAIN text, NEW o \in run[text[k].parts[j]][d]
  PROVE  /\ Stays(text, Reach(base, text[k].parts[j]), d, o) /\ Leaves(text, text[k].parts[j], o)
         /\ o.done \in SUBSET DOMAIN text /\ o.exit \in Exits
<1>1. TextValid(text) /\ base \in Nat
  BY DEF Runs
<1>2. /\ BlockValid(text, text[k].parts[j]) /\ text[k].parts[j] \in Blocks(text) /\ text[k].parts[j].first > k
      /\ k \in Nat
  BY <1>1, SpanIsBlock
<1>3. text[k].parts[j].first \in Nat
  BY <1>1, <1>2 DEF Blocks, TextValid
<1>4. text[k].parts[j].first >= base
  BY <1>1, <1>2, <1>3
<1>5. Stays(text, Reach(base, text[k].parts[j]), d, o) /\ Leaves(text, text[k].parts[j], o)
  BY <1>2, <1>4, ExecutionsStay, ExecutionsLeave
<1> QED
  BY <1>5 DEF Stays, Outcomes

LEMMA StatementRuns ==
  ASSUME NEW world, NEW text, NEW base, NEW run, Runs(world, text, base, run), NEW k \in DOMAIN text, k >= base,
         NEW d \in SUBSET DOMAIN text, NEW o \in One(world, text, k, run, d)
  PROVE  /\ Stays(text, Reach(base, Span(text, k)), d, o) /\ Leaves(text, Span(text, k), o)
         /\ o.done \in SUBSET DOMAIN text /\ o.exit \in Exits
<1>1. TextValid(text)
  BY DEF Runs
<1>2. PartsStay(text, run, k, Reach(base, Span(text, k)))
  <2>1. ASSUME NEW j \in DOMAIN text[k].parts, NEW e \in SUBSET DOMAIN text, NEW m \in run[text[k].parts[j]][e]
        PROVE  Stays(text, Reach(base, Span(text, k)), e, m)
    <3>1. Reach(base, text[k].parts[j]) \subseteq Reach(base, Span(text, k))
      BY <1>1, SpanIsBlock DEF Reach
    <3>2. Stays(text, Reach(base, text[k].parts[j]), e, m)
      BY <2>1, PartRuns
    <3> QED
      BY <3>1, <3>2, StaysWider
  <2> QED
    BY <2>1 DEF PartsStay
<1>3. PartsLeave(text, run, k)
  BY PartRuns DEF PartsLeave
<1>4. Stays(text, Reach(base, Span(text, k)), d, o) /\ Leaves(text, Span(text, k), o)
  BY <1>2, <1>3, StatementStays, StatementLeaves
<1> QED
  BY <1>4 DEF Stays, Outcomes

(* The outcomes of a block, by its first statement.                         *)
LEMMA BlockRuns ==
  ASSUME NEW world, NEW text, NEW base, NEW run, Runs(world, text, base, run),
         NEW b \in Blocks(text), BlockValid(text, b), b.first >= base, ~IsEmpty(b),
         NEW d \in SUBSET DOMAIN text, NEW o \in run[b][d]
  PROVE  LET k == b.first
             rest == Rest(text, b)
         IN  /\ k \in DOMAIN text /\ rest \in Blocks(text) /\ BlockValid(text, rest) /\ rest.first > k /\ rest.first >= base
             /\ \E a \in One(world, text, k, run, d) :
                  /\ Stays(text, Reach(base, Span(text, k)), d, a) /\ Leaves(text, Span(text, k), a)
                  /\ a.done \in SUBSET DOMAIN text
                  /\ \/ a.exit # "next" /\ o = a
                     \/ a.exit = "next" /\ \E n \in run[rest][a.done] :
                          o = Joined(a, n, n.exit) /\ Stays(text, Reach(base, rest), a.done, n) /\ Leaves(text, rest, n)
<1> DEFINE k == b.first
           rest == Rest(text, b)
<1>1. TextValid(text) /\ base \in Nat
  BY DEF Runs
<1>2. k \in DOMAIN text /\ k \in Nat /\ rest \in Blocks(text) /\ BlockValid(text, rest) /\ rest.first > k /\ rest.first \in Nat
  BY <1>1, BlockSplits
<1>3. rest.first >= base
  BY <1>1, <1>2
<1>4. PICK a \in One(world, text, k, run, d) :
        \/ a.exit # "next" /\ o = a
        \/ a.exit = "next" /\ \E n \in run[rest][a.done] : o = Joined(a, n, n.exit)
  BY SequenceOutcomes
<1> HIDE DEF rest, k
<1>5. Stays(text, Reach(base, Span(text, k)), d, a) /\ Leaves(text, Span(text, k), a) /\ a.done \in SUBSET DOMAIN text
  BY <1>2, StatementRuns DEF k
<1>6. ASSUME NEW n \in run[rest][a.done] PROVE Stays(text, Reach(base, rest), a.done, n) /\ Leaves(text, rest, n)
  BY <1>2, <1>3, <1>5, ExecutionsStay, ExecutionsLeave
<1>7. \/ a.exit # "next" /\ o = a
      \/ a.exit = "next" /\ \E n \in run[rest][a.done] :
           o = Joined(a, n, n.exit) /\ Stays(text, Reach(base, rest), a.done, n) /\ Leaves(text, rest, n)
  BY <1>4, <1>6
<1> QED
  BY <1>2, <1>3, <1>5, <1>7 DEF k, rest

-----------------------------------------------------------------------------
(* A statement that no execution of a block passes: what follows it is not  *)
(* executed, and, if no return is before it or around it, the block is not  *)
(* left by one.                                                             *)
Barred(text, b, i, exits) ==
  /\ Sure(text, b, i)
  /\ "return" \in exits =>
       /\ \A r \in Places(b) : r < i => text[r].kind # "return"
       /\ \A s \in DOMAIN text : \A p \in DOMAIN text[s].parts :
            s >= b.first /\ i \in Places(text[s].parts[p]) /\ text[s].kind = "try" =>
              /\ p = 1 /\ ~MayReturn(text, Final(text[s]))
              /\ \A h \in Handlers(text[s]) : ~MayReturn(text, text[s].parts[h])

NeverLeaves(text, outcomes, exits) == \A d \in SUBSET DOMAIN text : \A o \in outcomes[d] : o.exit \notin exits

LEMMA BarredInPart ==
  ASSUME NEW text, TextValid(text), NEW k \in DOMAIN text, NEW p \in DOMAIN text[k].parts, NEW i \in Places(text[k].parts[p]),
         NEW exits, Barred(text, Span(text, k), i, exits)
  PROVE  Barred(text, text[k].parts[p], i, exits) /\ SureIn(text, k, p)
<1>1. /\ Places(text[k].parts[p]) \subseteq Places(Span(text, k)) /\ text[k].parts[p].first > k /\ k \in Nat
      /\ text[k].parts[p] \in Blocks(text) /\ Span(text, k).first = k
  BY SpanIsBlock DEF Span, Block
<1>2. text[k].parts[p].first \in Nat /\ DOMAIN text \subseteq Nat
  BY <1>1 DEF Blocks, TextValid
<1>3. Sure(text, text[k].parts[p], i) /\ SureIn(text, k, p)
  BY SureOfPart DEF Barred
<1>4. \A s \in DOMAIN text : s >= text[k].parts[p].first => s >= Span(text, k).first
  BY <1>1, <1>2
<1> QED
  BY <1>1, <1>3, <1>4 DEF Barred

LEMMA BarredInRest ==
  ASSUME NEW text, TextValid(text), NEW b, BlockValid(text, b), ~IsEmpty(b), NEW i, NEW exits, Barred(text, b, i, exits)
  PROVE  /\ i \in Places(Span(text, b.first)) => Barred(text, Span(text, b.first), i, exits)
         /\ i \in Places(Rest(text, b)) => Barred(text, Rest(text, b), i, exits)
<1> DEFINE k == b.first
           rest == Rest(text, b)
<1>1. /\ k \in Nat /\ rest.first > k /\ rest.first \in Nat
      /\ Places(Span(text, k)) \subseteq Places(b) /\ Places(rest) \subseteq Places(b)
  BY BlockSplits
<1>2. Span(text, k).first = k /\ DOMAIN text \subseteq Nat
  BY DEF Span, Block, TextValid
<1>3. \A s \in DOMAIN text : s >= rest.first => s >= k
  BY <1>1, <1>2
<1> HIDE DEF rest
<1>4. i \in Places(Span(text, k)) => Barred(text, Span(text, k), i, exits)
  BY <1>1, <1>2 DEF Barred, Sure
<1>5. i \in Places(rest) => Barred(text, rest, i, exits)
  BY <1>1, <1>3 DEF Barred, Sure
<1> QED
  BY <1>4, <1>5 DEF rest

LEMMA InnerBarred ==
  ASSUME NEW world, NEW text, NEW base, NEW run, Runs(world, text, base, run), NEW k \in DOMAIN text, k >= base,
         text[k].kind \in {"if", "match", "loop", "with", "try"},
         NEW p \in DOMAIN text[k].parts, NEW i \in Places(text[k].parts[p]),
         NEW exits \in SUBSET {"next", "return"}, "next" \in exits, Barred(text, Span(text, k), i, exits),
         NeverLeaves(text, run[text[k].parts[p]], exits),
         NEW d \in SUBSET DOMAIN text, NEW m \in Inner(world, text[k], k, run, d)
  PROVE  m.exit \notin exits
<1>1. TextValid(text) /\ WorldValid(world, text)
  BY DEF Runs
<1>2. SureIn(text, k, p) /\ k \in Nat /\ i \in Nat /\ i > k /\ Span(text, k).first = k
  BY <1>1, BarredInPart, PartsAreApart, SpanIsBlock DEF Span, Block
<1>3. \A r \in Places(Span(text, k)) : "return" \in exits /\ r < i => text[r].kind # "return"
  BY DEF Barred
<1>4. CASE text[k].kind = "with"
  <2>1. m \in run[text[k].parts[1]][d] /\ p = 1
    BY <1>1, <1>4, ParametersInKinds DEF Inner
  <2> QED
    BY <2>1 DEF NeverLeaves
<1>5. CASE text[k].kind = "loop"
  <2>1. p = 2 /\ ~JumpsOut(text, text[k].parts[1], {"break"}) /\ 1 \in DOMAIN text[k].parts
    BY <1>1, <1>2, <1>5, ParametersInKinds DEF SureIn
  <2>2. ASSUME "return" \in exits PROVE ~MayReturn(text, text[k].parts[1])
    <3>1. \A r \in Places(text[k].parts[1]) : r < i /\ r \in Places(Span(text, k))
      BY <1>1, <2>1, SpanIsBlock
    <3> QED
      BY <1>3, <2>2, <3>1 DEF MayReturn
  <2>3. ASSUME NEW t \in run[text[k].parts[1]][d]
        PROVE  /\ t.exit # "break" /\ ("return" \in exits => t.exit # "return") /\ t.done \in SUBSET DOMAIN text
    <3>1. Leaves(text, text[k].parts[1], t) /\ t.done \in SUBSET DOMAIN text
      BY <2>1, PartRuns
    <3>2. t.exit = "break" => JumpsOut(text, text[k].parts[1], {"break"})
      BY <3>1 DEF Leaves
    <3> QED
      BY <2>1, <2>2, <3>1, <3>2 DEF Leaves
  <2>4. \/ m \in run[text[k].parts[2]][d]
        \/ \E t \in run[text[k].parts[1]][d] :
             \/ t.exit = "break" /\ m = [t EXCEPT !.exit = "next"]
             \/ t.exit \notin {"break", "next", "continue"} /\ m = t
             \/ /\ t.exit \in {"next", "continue"}
                /\ \E n \in run[text[k].parts[2]][t.done] : m = Joined(t, n, n.exit)
    BY <1>5, LoopOutcomes
  <2>5. ASSUME NEW t \in run[text[k].parts[1]][d], NEW n \in run[text[k].parts[2]][t.done], m = Joined(t, n, n.exit)
        PROVE  m.exit \notin exits
    BY <2>1, <2>3, <2>5, JoinedFields DEF NeverLeaves
  <2> QED
    BY <2>1, <2>3, <2>4, <2>5 DEF NeverLeaves
<1>6. CASE text[k].kind = "try"
  <2> DEFINE s == text[k]
             n == Len(s.parts)
  <2>1. /\ {1, n - 1, n} \subseteq DOMAIN s.parts /\ Handlers(s) \subseteq DOMAIN s.parts /\ n > 2 /\ n \in Nat
        /\ Else(s) = s.parts[n - 1] /\ Final(s) = s.parts[n]
    <3>1. n \in Nat
      BY <1>1, PartsAreBlocks DEF StatementAt
    <3> QED
      BY <1>1, <1>6, <3>1, ParametersInKinds DEF Else, Final
  <2>2. PICK t \in run[s.parts[1]][d] : \E x : \E f \in run[Final(s)][x.done] :
          /\ t.done \in SUBSET DOMAIN text /\ x.done \in SUBSET DOMAIN text
          /\ m = Joined(x, f, IF f.exit = "next" THEN x.exit ELSE f.exit)
          /\ \/ x = t /\ t.exit # "next"
             \/ t.exit = "next" /\ \E y \in run[Else(s)][t.done] : x = Joined(t, y, y.exit)
             \/ t.exit = "raise" /\ \E h \in Handlers(s) : \E y \in run[s.parts[h]][t.done] : x = Joined(t, y, y.exit)
    <3>1. PICK x : /\ LeftTry(text[k], run, d, x)
                   /\ \E f \in run[Final(text[k])][x.done] :
                        m = Joined(x, f, IF f.exit = "next" THEN x.exit ELSE f.exit)
      BY <1>6, TryOutcomes
    <3>2. PICK t \in run[s.parts[1]][d] :
             \/ x = t /\ t.exit # "next"
             \/ t.exit = "next" /\ \E y \in run[Else(s)][t.done] : x = Joined(t, y, y.exit)
             \/ t.exit = "raise" /\ \E h \in Handlers(s) : \E y \in run[s.parts[h]][t.done] : x = Joined(t, y, y.exit)
      BY <3>1 DEF LeftTry
    <3>3. t.done \in SUBSET DOMAIN text
      BY <2>1, <3>2, PartRuns
    <3>4. ASSUME NEW y, NEW j \in DOMAIN s.parts, y \in run[s.parts[j]][t.done], x = Joined(t, y, y.exit)
          PROVE  x.done \in SUBSET DOMAIN text
      <4>1. y.done \in SUBSET DOMAIN text
        BY <3>3, <3>4, PartRuns
      <4> QED
        BY <3>4, <4>1, JoinedFields
    <3>5. x.done \in SUBSET DOMAIN text
      BY <2>1, <3>2, <3>3, <3>4
    <3> QED
      BY <3>1, <3>2, <3>3, <3>5
  <2>3. PICK x : \E f \in run[Final(s)][x.done] :
          /\ x.done \in SUBSET DOMAIN text
          /\ m = Joined(x, f, IF f.exit = "next" THEN x.exit ELSE f.exit)
          /\ \/ x = t /\ t.exit # "next"
             \/ t.exit = "next" /\ \E y \in run[Else(s)][t.done] : x = Joined(t, y, y.exit)
             \/ t.exit = "raise" /\ \E h \in Handlers(s) : \E y \in run[s.parts[h]][t.done] : x = Joined(t, y, y.exit)
    BY <2>2
  <2>4. PICK f \in run[Final(s)][x.done] :
          /\ x.done \in SUBSET DOMAIN text
          /\ m = Joined(x, f, IF f.exit = "next" THEN x.exit ELSE f.exit)
    BY <2>3
  <2>5. t.done \in SUBSET DOMAIN text /\ Leaves(text, s.parts[1], t)
    BY <2>1, <2>2, PartRuns
  <2>6. Leaves(text, Final(s), f)
    <3>1. f \in run[s.parts[n]][x.done] /\ n \in DOMAIN s.parts
      BY <2>1, <2>4
    <3>2. Leaves(text, s.parts[n], f)
      BY <2>4, <3>1, PartRuns
    <3> QED
      BY <2>1, <3>2
  <2>7. m.exit = IF f.exit = "next" THEN x.exit ELSE f.exit
    BY <2>4, JoinedFields
  <2>8. "return" \in exits => /\ p = 1 /\ ~MayReturn(text, Final(s))
                              /\ \A h \in Handlers(s) : ~MayReturn(text, s.parts[h])
    BY <1>2, <1>6 DEF Barred
  <2> HIDE DEF n
  <2>9. CASE p = n
    <3>1. f.exit \notin exits
      BY <2>1, <2>4, <2>9 DEF NeverLeaves
    <3> QED
      BY <2>7, <3>1
  <2>10. CASE p # n
    <3>1. p \in {1, n - 1} /\ \A h \in Handlers(s) : Terminates(text, s.parts[h])
      BY <1>2, <1>6, <2>10 DEF SureIn, n
    <3>2. ASSUME NEW h \in Handlers(s), NEW y \in run[s.parts[h]][t.done], x = Joined(t, y, y.exit)
          PROVE  x.exit \notin exits
      <4>1. Leaves(text, s.parts[h], y) /\ x.exit = y.exit
        BY <2>1, <2>5, <3>2, PartRuns, JoinedFields
      <4> QED
        BY <2>8, <3>1, <4>1 DEF Leaves
    <3>3. x.exit \notin exits
      <4>1. CASE p = 1
        <5>1. t.exit \notin exits
          BY <2>2, <4>1 DEF NeverLeaves
        <5> QED
          BY <2>3, <3>2, <5>1
      <4>2. CASE p # 1
        <5>1. p = n - 1 /\ "return" \notin exits
          BY <2>8, <3>1, <4>2
        <5>2. ASSUME NEW y \in run[Else(s)][t.done], x = Joined(t, y, y.exit) PROVE x.exit \notin exits
          <6>1. y.exit \notin exits
            BY <2>1, <2>5, <5>1, <5>2 DEF NeverLeaves
          <6> QED
            BY <5>2, <6>1, JoinedFields
        <5> QED
          BY <2>3, <3>2, <5>1, <5>2
      <4> QED
        BY <4>1, <4>2
    <3>4. "return" \in exits => f.exit # "return"
      BY <2>6, <2>8 DEF Leaves
    <3> QED
      BY <2>7, <3>3, <3>4
  <2> QED
    BY <2>9, <2>10
<1>7. text[k].kind \notin {"if", "match"}
  BY <1>2 DEF SureIn
<1> QED
  BY <1>4, <1>5, <1>6, <1>7

LEMMA ExitsBarred ==
  ASSUME NEW world, NEW text, NEW base, NEW run, Runs(world, text, base, run), NEW i \in DOMAIN text,
         NEW exits \in SUBSET {"next", "return"}, "next" \in exits,
         \A d \in SUBSET DOMAIN text : \A o \in One(world, text, i, run, d) : o.exit \notin exits
  PROVE  \A b \in Blocks(text) : BlockValid(text, b) /\ b.first >= base /\ Barred(text, b, i, exits) =>
           \A d \in SUBSET DOMAIN text : \A o \in run[b][d] : o.exit \notin exits
<1> DEFINE G == {b \in Blocks(text) : b.first >= base /\ Barred(text, b, i, exits) =>
                   \A d \in SUBSET DOMAIN text : \A o \in run[b][d] : o.exit \notin exits}
<1>0. TextValid(text) /\ base \in Nat /\ DOMAIN text \subseteq Nat
  BY DEF Runs, TextValid
<1>1. ASSUME NEW b \in Blocks(text), BlockValid(text, b),
             \A c \in Blocks(text) : BlockValid(text, c) /\ c.first > b.first => c \in G
      PROVE  b \in G
  <2>1. SUFFICES ASSUME b.first >= base, Barred(text, b, i, exits), NEW d \in SUBSET DOMAIN text, NEW o \in run[b][d]
                 PROVE  o.exit \notin exits
    OBVIOUS
  <2>2. i \in Places(b) /\ ~IsEmpty(b)
    BY <1>0, <2>1 DEF Barred, Sure, Places, IsEmpty, Blocks, TextValid
  <2> DEFINE k == b.first
             rest == Rest(text, b)
  <2>3. k \in DOMAIN text /\ rest \in Blocks(text) /\ BlockValid(text, rest) /\ rest.first > k /\ rest.first >= base
    BY <1>1, <2>1, <2>2, BlockRuns
  <2>4. PICK a \in One(world, text, k, run, d) :
          /\ Leaves(text, Span(text, k), a) /\ a.done \in SUBSET DOMAIN text
          /\ \/ a.exit # "next" /\ o = a
             \/ a.exit = "next" /\ \E n \in run[rest][a.done] : o = Joined(a, n, n.exit)
    BY <1>1, <2>1, <2>2, BlockRuns
  <2>5. /\ i \in Places(Span(text, k)) \/ i \in Places(rest)
        /\ Places(Span(text, k)) \subseteq Places(b)
        /\ \A m \in Places(Span(text, k)) : \A n \in Places(rest) : m < n
    BY <1>0, <1>1, <2>2, BlockSplits
  <2>6. /\ i \in Places(Span(text, k)) => Barred(text, Span(text, k), i, exits)
        /\ i \in Places(rest) => Barred(text, rest, i, exits)
    BY <1>0, <1>1, <2>1, <2>2, BarredInRest
  <2> HIDE DEF rest
  <2>7. CASE i \in Places(Span(text, k))
    <3>1. a.exit \notin exits
      <4>1. CASE i = k
        BY <2>4, <4>1
      <4>2. CASE i # k
        <5>1. PICK p \in DOMAIN text[k].parts : i \in Places(text[k].parts[p])
          BY <1>0, <2>3, <2>7, <4>2, SpanIsBlock
        <5>2. text[k].kind \in {"if", "match", "loop", "with", "try"}
          <6>1. StatementAt(text, k)
            BY <1>0, <2>3, PartsAreBlocks
          <6>2. Places(Span(text, k)) # {k}
            BY <2>7, <4>2
          <6>3. text[k].kind \notin {"call", "return", "raise", "break", "continue"}
            BY <1>0, <2>3, <6>2, PlainSpan
          <6> QED
            BY <6>1, <6>3 DEF StatementAt, StatementKinds
        <5>3. Barred(text, Span(text, k), i, exits) /\ Barred(text, text[k].parts[p], i, exits)
          BY <1>0, <2>3, <2>6, <2>7, <5>1, BarredInPart
        <5>4. text[k].parts[p] \in Blocks(text) /\ BlockValid(text, text[k].parts[p]) /\ text[k].parts[p].first > k
          BY <1>0, <2>3, <5>1, SpanIsBlock
        <5>5. text[k].parts[p] \in G /\ text[k].parts[p].first >= base
          <6>1. text[k].parts[p].first \in Nat /\ k \in Nat
            BY <1>0, <2>3, <5>4 DEF Blocks, TextValid
          <6> QED
            BY <1>0, <1>1, <2>1, <5>4, <6>1
        <5>6. NeverLeaves(text, run[text[k].parts[p]], exits)
          BY <5>3, <5>5 DEF NeverLeaves
        <5>7. CASE a = Fails(k, d)
          BY <5>7, FailsFields
        <5>8. ASSUME NEW m \in Inner(world, text[k], k, run, d \cup {k}), a = Entering(k, d, m) PROVE a.exit \notin exits
          <6>1. d \cup {k} \in SUBSET DOMAIN text /\ k >= base
            BY <2>1, <2>3
          <6>2. m.exit \notin exits
            BY <2>3, <5>1, <5>2, <5>3, <5>6, <6>1, InnerBarred
          <6>3. Entering(k, d, m).exit = m.exit
            BY JoinedFields DEF Entering
          <6> QED
            BY <5>8, <6>2, <6>3
        <5> QED
          BY <1>0, <2>3, <2>4, <5>2, <5>7, <5>8, CompoundOutcomes
      <4> QED
        BY <4>1, <4>2
    <3> QED
      BY <2>4, <3>1
  <2>8. CASE i \in Places(rest)
    <3>1. ASSUME "return" \in exits PROVE a.exit # "return"
      <4>1. \A r \in Places(Span(text, k)) : text[r].kind # "return"
        BY <2>1, <2>5, <2>8, <3>1 DEF Barred
      <4> QED
        BY <2>4, <4>1 DEF Leaves, MayReturn
    <3>2. ASSUME NEW n \in run[rest][a.done], o = Joined(a, n, n.exit) PROVE o.exit \notin exits
      <4>1. rest \in G
        BY <1>1, <2>3
      <4>2. n.exit \notin exits
        BY <2>3, <2>4, <2>6, <2>8, <4>1
      <4> QED
        BY <3>2, <4>2, JoinedFields
    <3> QED
      BY <2>4, <3>1, <3>2
  <2> QED
    BY <2>5, <2>7, <2>8
<1> HIDE DEF G
<1>2. \A b \in Blocks(text) : BlockValid(text, b) => b \in G
  BY <1>0, <1>1, BlockInduction
<1> QED
  BY <1>2 DEF G

(* A statement is left as the block that it is.                             *)
LEMMA StatementIsBlock ==
  ASSUME NEW world, NEW text, NEW base, NEW run, Runs(world, text, base, run), NEW k \in DOMAIN text, k >= base,
         NEW d \in SUBSET DOMAIN text, NEW a \in One(world, text, k, run, d)
  PROVE  \E o \in run[Span(text, k)][d] : o.exit = a.exit
<1> DEFINE b == Span(text, k)
           rest == Block(End(text, k) + 1, b.last)
           nothing == Outcome(a.done, {}, {}, "next")
<1>1. TextValid(text)
  BY DEF Runs
<1>2. b \in Blocks(text) /\ BlockValid(text, b) /\ ~IsEmpty(b) /\ b.first = k /\ b.last = End(text, k)
  BY <1>1, SpanIsBlock DEF BlockValid, Span, Block
<1>3. rest \in Blocks(text) /\ IsEmpty(rest)
  <2>1. rest \in Blocks(text)
    BY <1>1, <1>2, RestIsBlock
  <2>2. End(text, k) \in Nat
    BY <1>1, EndOfStatement
  <2> QED
    BY <1>2, <2>1, <2>2 DEF IsEmpty, Block
<1>4. a.done \in SUBSET DOMAIN text
  BY StatementRuns
<1> HIDE DEF b, rest, nothing
<1>5. run[rest][a.done] = {nothing}
  <2>1. run[rest] = Ran(world, text, run, rest)
    BY <1>3 DEF Runs
  <2>2. Ran(world, text, run, rest)[a.done] = {Outcome(a.done, {}, {}, "next")}
    BY <1>3, <1>4 DEF Ran
  <2> QED
    BY <2>1, <2>2 DEF nothing
<1>6. run[b][d] = Continue(One(world, text, k, run, d), {"next"}, run[rest])
  <2>1. run[b] = Ran(world, text, run, b)
    BY <1>2 DEF Runs
  <2>2. Ran(world, text, run, b)[d] =
          Continue(One(world, text, b.first, run, d), {"next"}, run[Block(End(text, b.first) + 1, b.last)])
    BY <1>2 DEF Ran
  <2> QED
    BY <1>2, <2>1, <2>2 DEF rest
<1>7. CASE a.exit # "next"
  <2>1. a \in run[b][d]
    BY <1>6, <1>7 DEF Continue
  <2> QED
    BY <2>1 DEF b
<1>8. CASE a.exit = "next"
  <2>1. Joined(a, nothing, nothing.exit) \in run[b][d]
    BY <1>5, <1>6, <1>8 DEF Continue
  <2>2. Joined(a, nothing, nothing.exit).exit = "next"
    BY DEF Joined, Outcome, nothing
  <2> QED
    BY <1>8, <2>1, <2>2 DEF b
<1> QED
  BY <1>7, <1>8

LEMMA NextIsSure ==
  ASSUME NEW world, NEW text, NEW base, NEW run, Runs(world, text, base, run), NEW i \in DOMAIN text,
         \A d \in SUBSET DOMAIN text : \A o \in One(world, text, i, run, d) : o.exit # "next"
  PROVE  /\ \A b \in Blocks(text) : BlockValid(text, b) /\ b.first >= base /\ Sure(text, b, i) => NeverLeaves(text, run[b], {"next"})
         /\ \A k \in DOMAIN text : k >= base /\ Sure(text, Span(text, k), i) =>
              \A d \in SUBSET DOMAIN text : \A a \in One(world, text, k, run, d) : a.exit # "next"
<1>1. TextValid(text)
  BY DEF Runs
<1>2. \A b : Sure(text, b, i) => Barred(text, b, i, {"next"})
  BY DEF Barred
<1>3. \A d \in SUBSET DOMAIN text : \A o \in One(world, text, i, run, d) : o.exit \notin {"next"}
  OBVIOUS
<1>4. \A b \in Blocks(text) : BlockValid(text, b) /\ b.first >= base /\ Sure(text, b, i) => NeverLeaves(text, run[b], {"next"})
  <2>1. \A b \in Blocks(text) : BlockValid(text, b) /\ b.first >= base /\ Barred(text, b, i, {"next"}) =>
          \A d \in SUBSET DOMAIN text : \A o \in run[b][d] : o.exit \notin {"next"}
    BY <1>3, ExitsBarred
  <2> QED
    BY <1>2, <2>1 DEF NeverLeaves
<1>5. ASSUME NEW k \in DOMAIN text, k >= base, Sure(text, Span(text, k), i), NEW d \in SUBSET DOMAIN text,
             NEW a \in One(world, text, k, run, d)
      PROVE  a.exit # "next"
  <2>1. Span(text, k) \in Blocks(text) /\ BlockValid(text, Span(text, k)) /\ Span(text, k).first >= base
    BY <1>1, <1>5, SpanIsBlock DEF BlockValid, Span, Block
  <2>2. PICK o \in run[Span(text, k)][d] : o.exit = a.exit
    BY <1>5, StatementIsBlock
  <2> QED
    BY <1>4, <1>5, <2>1, <2>2 DEF NeverLeaves
<1> QED
  BY <1>4, <1>5

(* What happens inside a statement, if the else of a try is never reached.  *)
LEMMA InnerStaysBut ==
  ASSUME NEW world, NEW text, NEW base, NEW run, Runs(world, text, base, run), NEW k \in DOMAIN text, NEW T,
         text[k].kind = "try", NeverLeaves(text, run[text[k].parts[1]], {"next"}),
         \A j \in DOMAIN text[k].parts : j # Len(text[k].parts) - 1 =>
           \A e \in SUBSET DOMAIN text : \A o \in run[text[k].parts[j]][e] : Stays(text, T, e, o),
         NEW d \in SUBSET DOMAIN text, NEW m \in Inner(world, text[k], k, run, d)
  PROVE  Stays(text, T, d, m)
<1> DEFINE s == text[k]
           n == Len(s.parts)
<1>1. TextValid(text) /\ \A e, o : Stays(text, T, e, o) => o.done \in SUBSET DOMAIN text /\ o.exit \in Exits
  BY DEF Runs, Stays, Outcomes
<1>2. /\ {1, n} \subseteq DOMAIN s.parts /\ 1 # n - 1 /\ n # n - 1 /\ Final(s) = s.parts[n]
      /\ \A h \in Handlers(s) : h \in DOMAIN s.parts /\ h # n - 1
  <2>1. n \in Nat
    BY <1>1, PartsAreBlocks DEF StatementAt
  <2>2. {1, n} \subseteq DOMAIN s.parts /\ Handlers(s) \subseteq DOMAIN s.parts /\ n > 2
    BY <1>1, ParametersInKinds
  <2> QED
    BY <2>1, <2>2 DEF Final, Handlers
<1>3. /\ \A e \in SUBSET DOMAIN text : \A o \in run[s.parts[1]][e] \cup run[Final(s)][e] : Stays(text, T, e, o)
      /\ \A j \in Handlers(s) : \A e \in SUBSET DOMAIN text : \A o \in run[s.parts[j]][e] : Stays(text, T, e, o)
  BY <1>2
<1>4. PICK x, f : LeftTry(s, run, d, x) /\ f \in run[Final(s)][x.done] /\ m = Joined(x, f, IF f.exit = "next" THEN x.exit ELSE f.exit)
  BY TryOutcomes
<1> HIDE DEF n
<1>5. Stays(text, T, d, x)
  <2>1. PICK t \in run[s.parts[1]][d] :
          \/ x = t
          \/ t.exit = "next"
          \/ \E j \in Handlers(s) : \E y \in run[s.parts[j]][t.done] : x = Joined(t, y, y.exit)
    BY <1>4 DEF LeftTry
  <2>2. Stays(text, T, d, t) /\ t.exit # "next"
    BY <1>3 DEF NeverLeaves
  <2>3. ASSUME NEW y, Stays(text, T, t.done, y) PROVE Stays(text, T, d, Joined(t, y, y.exit))
    BY <1>1, <2>2, <2>3, StaysOneAfterOther
  <2> QED
    BY <1>1, <1>3, <2>1, <2>2, <2>3
<1>6. Stays(text, T, x.done, f) /\ (IF f.exit = "next" THEN x.exit ELSE f.exit) \in Exits
  BY <1>1, <1>3, <1>4, <1>5
<1> QED
  BY <1>4, <1>5, <1>6, StaysOneAfterOther

-----------------------------------------------------------------------------
(* What is only reached through one statement is not reached by a block, if *)
(* another statement of the block keeps it away: by not executing what the  *)
(* one is in, or by preceding it and never passing on.  No statement needs  *)
(* to if the one is before the function; a statement 0 keeps nothing away.  *)
Without(text, base, b, t) == Reach(base, b) \ {t}
Avoids(text, base, b, t, outcomes) ==
  \A d \in SUBSET DOMAIN text : \A o \in outcomes[d] : Stays(text, Without(text, base, b, t), d, o)

KeepsAway(world, text, base, run, i, u, t) ==
  /\ i \in DOMAIN text \cup {0} /\ u \in DOMAIN text /\ t \in Nat /\ (t = u \/ t < base)
  /\ \A k \in DOMAIN world.calls : k # u => \A d \in SUBSET DOMAIN text : \A o \in world.calls[k][d] :
       Stays(text, (1 .. base - 1) \ {t}, d, o)
  /\ i # 0 /\ u >= base =>
       /\ \A d \in SUBSET DOMAIN text : \A o \in One(world, text, i, run, d) : Stays(text, Without(text, base, Span(text, i), t), d, o)
       /\ \/ u \in Places(Span(text, i))
          \/ /\ Precedes(text, i, u)
             /\ \A d \in SUBSET DOMAIN text : \A o \in One(world, text, i, run, d) : o.exit # "next"

LEMMA WithoutWider ==
  ASSUME NEW text, NEW base, NEW b, NEW c, Places(b) \subseteq Places(c), NEW t, NEW d, NEW o, Stays(text, Without(text, base, b, t), d, o)
  PROVE  Stays(text, Without(text, base, c, t), d, o)
<1>1. Without(text, base, b, t) \subseteq Without(text, base, c, t)
  BY DEF Without, Reach
<1> QED
  BY <1>1, StaysWider

(* What follows the place of a statement or is in no part with it.          *)
LEMMA SpanInPart ==
  ASSUME NEW text, TextValid(text), NEW b, BlockValid(text, b), NEW i \in Places(b), i \in DOMAIN text
  PROVE  Places(Span(text, i)) \subseteq Places(b) /\ i \in Places(Span(text, i)) /\ \A u \in Places(Span(text, i)) : u \in Nat /\ i <= u
<1>1. i \in Nat /\ End(text, i) \in Nat /\ End(text, i) <= b.last /\ b.first \in Nat /\ b.last \in Nat /\ b.first <= i /\ i <= End(text, i)
  <2>1. i \in Nat /\ End(text, i) \in Nat /\ i <= End(text, i) /\ Len(text) \in Nat
    BY EndOfStatement
  <2>2. b.first \in Nat /\ b.last \in Nat /\ End(text, i) <= b.last
    BY <2>1 DEF BlockValid, Blocks
  <2> QED
    BY <2>1, <2>2 DEF Places
<1> QED
  BY <1>1 DEF Span, Block, Places

LEMMA StatementAvoids ==
  ASSUME NEW world, NEW text, NEW base, NEW run, Runs(world, text, base, run), NEW i, NEW u, NEW t,
         KeepsAway(world, text, base, run, i, u, t), NEW k \in DOMAIN text, k >= base,
         \A j \in DOMAIN text[k].parts : (u \in Places(text[k].parts[j]) => i \in Places(text[k].parts[j])) =>
           Avoids(text, base, text[k].parts[j], t, run[text[k].parts[j]]),
         u \in Places(Span(text, k)) => i \in Places(Span(text, k)),
         NEW d \in SUBSET DOMAIN text, NEW a \in One(world, text, k, run, d)
  PROVE  Stays(text, Without(text, base, Span(text, k), t), d, a)
<1> DEFINE T == Without(text, base, Span(text, k), t)
           s == text[k]
<1>1. /\ TextValid(text) /\ base \in Nat /\ k \in Nat /\ u \in DOMAIN text /\ i \in Nat /\ u \in Nat /\ t \in Nat
      /\ k # 0 /\ (i # 0 => i \in DOMAIN text)
  <2>1. TextValid(text) /\ base \in Nat
    BY DEF Runs
  <2>2. i \in DOMAIN text \cup {0} /\ u \in DOMAIN text /\ t \in Nat
    BY DEF KeepsAway
  <2>3. DOMAIN text \subseteq Nat /\ 0 \notin DOMAIN text
    BY <2>1 DEF TextValid
  <2> QED
    BY <2>1, <2>2, <2>3
<1>2. CASE i = k /\ u >= base
  BY <1>1, <1>2 DEF KeepsAway
<1>3. CASE ~(i = k /\ u >= base)
  <2>1. u # k
    <3>1. ASSUME u = k PROVE FALSE
      <4>0. u >= base /\ i # k
        BY <1>1, <1>3, <3>1
      <4>1. i \in Places(Span(text, k)) /\ i > k /\ i # 0
        <5>1. i \in Places(Span(text, k))
          BY <1>1, <3>1, SpanIsBlock
        <5>2. BlockValid(text, Span(text, k)) /\ k \in Places(Span(text, k)) /\ Span(text, k).first = k
          BY <1>1, SpanIsBlock DEF Span, Block
        <5> QED
          BY <1>1, <4>0, <5>1, <5>2 DEF Places
      <4>5. k < i
        BY <1>1, <4>1
      <4>2. k \notin Places(Span(text, i))
        BY <1>1, <4>5 DEF Span, Block, Places
      <4>3. ~Precedes(text, i, k)
        BY <1>1, <4>1 DEF Precedes
      <4>6. i # 0 /\ u >= base /\ u \notin Places(Span(text, i)) /\ ~Precedes(text, i, u)
        BY <3>1, <4>0, <4>1, <4>2, <4>3
      <4> QED
        BY <4>6 DEF KeepsAway
    <3> QED
      BY <3>1
  <2>2. t # k
    BY <1>1, <2>1 DEF KeepsAway
  <2>3. k \in DOMAIN text \cap T
    BY <1>1, <2>2, SpanIsBlock DEF Without, Reach
  <2>4. k \in DOMAIN world.calls => \A n \in world.calls[k][d] : Stays(text, T, d, n)
    <3>1. (1 .. base - 1) \ {t} \subseteq T
      BY DEF Without, Reach
    <3> HIDE DEF T
    <3> QED
      BY <2>1, <3>1, StaysWider DEF KeepsAway
  <2>5. ASSUME NEW j \in DOMAIN s.parts, u \in Places(s.parts[j]) => i \in Places(s.parts[j]),
               NEW e \in SUBSET DOMAIN text, NEW o \in run[s.parts[j]][e]
        PROVE  Stays(text, T, e, o)
    <3>1. Stays(text, Without(text, base, s.parts[j], t), e, o)
      BY <2>5 DEF Avoids
    <3>2. Places(s.parts[j]) \subseteq Places(Span(text, k))
      BY <1>1, SpanIsBlock
    <3> QED
      BY <3>1, <3>2, WithoutWider
  <2>6. CASE \A j \in DOMAIN s.parts : u \in Places(s.parts[j]) => i \in Places(s.parts[j])
    <3>1. PartsStay(text, run, k, T)
      BY <2>5, <2>6 DEF PartsStay
    <3> HIDE DEF T
    <3>2. Stays(text, T, d, a)
      BY <2>3, <2>4, <3>1, StatementStaysIn
    <3> QED
      BY <3>2 DEF T
  <2>7. CASE \E q \in DOMAIN s.parts : u \in Places(s.parts[q]) /\ i \notin Places(s.parts[q])
    <3>1. PICK q \in DOMAIN s.parts : u \in Places(s.parts[q]) /\ i \notin Places(s.parts[q])
      BY <2>7
    <3>2. u \in Places(Span(text, k)) /\ i \in Places(Span(text, k))
      BY <1>1, <3>1, SpanIsBlock
    <3>17. u >= base /\ i # k
      <4>1. Span(text, k).first = k
        BY DEF Span, Block
      <4>2. u >= k
        BY <1>1, <3>2, <4>1 DEF Places
      <4> QED
        BY <1>1, <1>3, <4>2
    <3>3. PICK p \in DOMAIN s.parts : i \in Places(s.parts[p])
      BY <1>1, <3>2, <3>17, SpanIsBlock
    <3>18. i \in DOMAIN text /\ i # 0
      BY <1>1, <3>3, PartsAreApart
    <3>4. p # q /\ u \notin Places(s.parts[p])
      BY <1>1, <3>1, <3>3, PartsAreApart
    <3>5. BlockValid(text, s.parts[p]) /\ s.parts[p] \in Blocks(text)
      BY <1>1, SpanIsBlock
    <3>6. u \notin Places(Span(text, i))
      BY <1>1, <3>3, <3>4, <3>5, <3>18, SpanInPart
    <3>7. /\ Precedes(text, i, u)
          /\ \A e \in SUBSET DOMAIN text : \A o \in One(world, text, i, run, e) : o.exit # "next"
      BY <3>17, <3>18, <3>6 DEF KeepsAway
    <3>8. s.kind = "try" /\ p = 1 /\ q = Len(s.parts) - 1
      BY <3>1, <3>3, <3>4, <3>7 DEF Precedes
    <3>9. Sure(text, s.parts[1], i)
      <4>1. u > s.parts[p].last
        <5>1. s.parts[p].first \in Nat /\ s.parts[p].last \in Nat /\ s.parts[p].first <= i
          BY <1>1, <3>3, <3>5 DEF Blocks, Places, TextValid
        <5>2. i < u
          BY <3>7 DEF Precedes
        <5> QED
          BY <1>1, <3>4, <5>1, <5>2 DEF Places
      <4> QED
        BY <1>1, <3>3, <3>5, <3>7, <3>8, <4>1, SureBefore
    <3>10. NeverLeaves(text, run[s.parts[1]], {"next"})
      <4>1. s.parts[1].first >= base /\ s.parts[1] \in Blocks(text) /\ BlockValid(text, s.parts[1])
        <5>1. s.parts[1].first > k /\ s.parts[1].first \in Nat
          BY <1>1, <3>3, <3>5, <3>8, SpanIsBlock DEF Blocks, TextValid
        <5> QED
          BY <1>1, <3>5, <3>8, <5>1
      <4> QED
        BY <1>1, <3>7, <3>9, <3>18, <4>1, NextIsSure
    <3>11. \A j \in DOMAIN s.parts : j # q => ~(u \in Places(s.parts[j]))
      BY <1>1, <3>1, PartsAreApart
    <3> HIDE DEF T
    <3>12. \A j \in DOMAIN s.parts : j # Len(s.parts) - 1 =>
             \A e \in SUBSET DOMAIN text : \A o \in run[s.parts[j]][e] : Stays(text, T, e, o)
      BY <2>5, <3>8, <3>11
    <3>13. s.kind \in {"if", "match", "loop", "with", "try"} /\ d \cup {k} \in SUBSET DOMAIN text
      BY <3>8
    <3>14. CASE a = Fails(k, d)
      <4>1. Stays(text, {k}, d, Fails(k, d))
        BY <1>1, EndsStay
      <4>2. Stays(text, T, d, Fails(k, d))
        BY <2>3, <4>1, StaysWider
      <4> QED
        BY <3>14, <4>2 DEF T
    <3>15. ASSUME NEW m \in Inner(world, text[k], k, run, d \cup {k}), a = Entering(k, d, m)
           PROVE  Stays(text, T, d, a)
      <4>1. Stays(text, T, d \cup {k}, m)
        BY <3>8, <3>10, <3>12, <3>13, InnerStaysBut
      <4> QED
        BY <1>1, <2>3, <3>15, <4>1, EnteringStays
    <3>16. a = Fails(k, d) \/ \E m \in Inner(world, text[k], k, run, d \cup {k}) : a = Entering(k, d, m)
      <4>1. TextValid(text) /\ d \in SUBSET DOMAIN text /\ k \in DOMAIN text /\ s.kind \in {"if", "match", "loop", "with", "try"}
        BY <1>1, <3>13
      <4>2. \A o \in One(world, text, k, run, d) :
              o = Fails(k, d) \/ \E m \in Inner(world, text[k], k, run, d \cup {k}) : o = Entering(k, d, m)
        BY ONLY <4>1, CompoundOutcomes
      <4> QED
        BY <4>2
    <3> QED
      BY <3>14, <3>15, <3>16 DEF T
  <2> QED
    BY <2>6, <2>7
<1> QED
  BY <1>2, <1>3

LEMMA BlocksAvoid ==
  ASSUME NEW world, NEW text, NEW base, NEW run, Runs(world, text, base, run), NEW i, NEW u, NEW t,
         KeepsAway(world, text, base, run, i, u, t)
  PROVE  \A b \in Blocks(text) : BlockValid(text, b) /\ b.first >= base /\ (u \in Places(b) => i \in Places(b)) =>
           Avoids(text, base, b, t, run[b])
<1> DEFINE G == {b \in Blocks(text) : b.first >= base /\ (u \in Places(b) => i \in Places(b)) => Avoids(text, base, b, t, run[b])}
<1>1. TextValid(text) /\ base \in Nat
  BY DEF Runs
<1>2. u \in DOMAIN text /\ i \in Nat /\ u \in Nat /\ (i # 0 => i \in DOMAIN text)
  <2>1. i \in DOMAIN text \cup {0} /\ u \in DOMAIN text
    BY DEF KeepsAway
  <2> QED
    BY <1>1, <2>1 DEF TextValid
<1>3. ASSUME NEW b \in Blocks(text), BlockValid(text, b),
             \A c \in Blocks(text) : BlockValid(text, c) /\ c.first > b.first => c \in G
      PROVE  b \in G
  <2>1. SUFFICES ASSUME b.first >= base, u \in Places(b) => i \in Places(b), NEW d \in SUBSET DOMAIN text, NEW o \in run[b][d]
                 PROVE  Stays(text, Without(text, base, b, t), d, o)
    BY DEF Avoids
  <2>2. CASE IsEmpty(b)
    BY <2>2, EmptyOutcomes, StaysOfNothing
  <2>3. CASE ~IsEmpty(b)
    <3> DEFINE k == b.first
               rest == Rest(text, b)
    <3>1. k \in DOMAIN text /\ rest \in Blocks(text) /\ BlockValid(text, rest) /\ rest.first > k /\ rest.first >= base
      BY <1>3, <2>1, <2>3, BlockRuns
    <3>2. PICK a \in One(world, text, k, run, d) :
            /\ a.done \in SUBSET DOMAIN text
            /\ \/ a.exit # "next" /\ o = a
               \/ a.exit = "next" /\ \E n \in run[rest][a.done] :
                    o = Joined(a, n, n.exit) /\ Stays(text, Reach(base, rest), a.done, n)
      BY <1>3, <2>1, <2>3, BlockRuns
    <3>3. /\ \A m \in Places(b) : m \in Places(Span(text, k)) \/ m \in Places(rest)
          /\ Places(Span(text, k)) \subseteq Places(b) /\ Places(rest) \subseteq Places(b)
          /\ \A m \in Places(Span(text, k)) : \A n \in Places(rest) : m < n
          /\ rest.first = End(text, k) + 1 /\ End(text, k) \in Nat /\ k \in Nat /\ b.last \in Nat
      <4>1. b.last \in Nat
        BY <1>1 DEF Blocks, TextValid
      <4> QED
        BY <1>1, <1>3, <2>3, <4>1, BlockSplits
    <3>4. rest.first \in Nat
      BY <3>3
    <3> HIDE DEF k, rest
    <3>5. k >= base
      BY <2>1 DEF k
    <3>6. ~(u \in Places(Span(text, k)) /\ i \notin Places(Span(text, k)))
      <4>1. ASSUME u \in Places(Span(text, k)), i \notin Places(Span(text, k)) PROVE FALSE
        <5>1. i \in Places(rest)
          BY <2>1, <3>3, <4>1
        <5>2. u < i
          BY <3>3, <4>1, <5>1
        <5>3. u \notin Places(Span(text, i))
          BY <1>2, <5>2 DEF Span, Block, Places
        <5>4. ~Precedes(text, i, u)
          BY <1>2, <5>2 DEF Precedes
        <5>5. u >= base
          BY <1>1, <1>2, <3>3, <3>5, <4>1 DEF Span, Block, Places
        <5> QED
          BY <1>2, <5>2, <5>3, <5>4, <5>5 DEF KeepsAway
      <4> QED
        BY <4>1
    <3>7. \A j \in DOMAIN text[k].parts : (u \in Places(text[k].parts[j]) => i \in Places(text[k].parts[j])) =>
            Avoids(text, base, text[k].parts[j], t, run[text[k].parts[j]])
      <4>1. ASSUME NEW j \in DOMAIN text[k].parts, u \in Places(text[k].parts[j]) => i \in Places(text[k].parts[j])
            PROVE  Avoids(text, base, text[k].parts[j], t, run[text[k].parts[j]])
        <5>1. BlockValid(text, text[k].parts[j]) /\ text[k].parts[j] \in Blocks(text) /\ text[k].parts[j].first > k
          BY <1>1, <3>1, SpanIsBlock
        <5>2. text[k].parts[j].first \in Nat
          BY <1>1, <5>1 DEF Blocks, TextValid
        <5>3. text[k].parts[j] \in G /\ text[k].parts[j].first >= base
          BY <1>1, <1>3, <3>3, <3>5, <5>1, <5>2 DEF k
        <5> QED
          BY <4>1, <5>3
      <4> QED
        BY <4>1
    <3> HIDE DEF G
    <3>8. Stays(text, Without(text, base, Span(text, k), t), d, a)
      BY <3>1, <3>5, <3>6, <3>7, StatementAvoids
    <3>9. Stays(text, Without(text, base, b, t), d, a)
      BY <3>3, <3>8, WithoutWider
    <3>10. ASSUME NEW n \in run[rest][a.done], a.exit = "next" PROVE Stays(text, Without(text, base, b, t), a.done, n)
      <4>1. CASE u \in Places(rest) => i \in Places(rest)
        <5>1. rest \in G
          BY <1>3, <3>1 DEF k
        <5>2. Avoids(text, base, rest, t, run[rest])
          BY <3>1, <4>1, <5>1 DEF G
        <5>3. Stays(text, Without(text, base, rest, t), a.done, n)
          BY <3>2, <3>10, <5>2 DEF Avoids
        <5> QED
          BY <3>3, <5>3, WithoutWider
      <4>2. CASE u \in Places(rest) /\ i \notin Places(rest)
        <5>1. i \in Places(Span(text, k))
          BY <2>1, <3>3, <4>2
        <5>2. BlockValid(text, Span(text, k)) /\ Span(text, k).last = End(text, k) /\ Span(text, k).first = k
          BY <1>1, <3>1, SpanIsBlock DEF Span, Block
        <5>8. i # 0 /\ i \in DOMAIN text
          <6>1. k # 0
            BY <1>1, <3>1 DEF TextValid
          <6> QED
            BY <1>2, <3>3, <5>1, <5>2, <6>1 DEF Places
        <5>3. u \notin Places(Span(text, k)) /\ u > End(text, k)
          <6>1. u > End(text, k)
            BY <1>2, <3>3, <3>4, <4>2 DEF Places
          <6> QED
            BY <1>2, <3>3, <5>2, <6>1 DEF Places
        <5>4. u \notin Places(Span(text, i))
          BY <1>1, <1>2, <5>1, <5>2, <5>3, <5>8, SpanInPart
        <5>5. /\ Precedes(text, i, u)
              /\ \A e \in SUBSET DOMAIN text : \A y \in One(world, text, i, run, e) : y.exit # "next"
          <6>1. u >= base
            BY <1>1, <1>2, <3>3, <3>5, <5>3, EndOfStatement, <3>1
          <6> QED
            BY <5>4, <5>8, <6>1 DEF KeepsAway
        <5>6. Sure(text, Span(text, k), i)
          BY <1>1, <1>2, <5>1, <5>2, <5>3, <5>5, SureBefore
        <5>7. a.exit # "next"
          BY <3>1, <3>5, <5>5, <5>6, <5>8, NextIsSure
        <5> QED
          BY <3>10, <5>7
      <4> QED
        BY <4>1, <4>2
    <3>11. ASSUME NEW n \in run[rest][a.done], a.exit = "next", o = Joined(a, n, n.exit)
           PROVE  Stays(text, Without(text, base, b, t), d, o)
      <4>1. Stays(text, Without(text, base, b, t), a.done, n)
        BY <3>10, <3>11
      <4>2. n.exit \in Exits
        BY <4>1 DEF Stays, Outcomes
      <4> QED
        BY <3>9, <3>11, <4>1, <4>2, StaysOneAfterOther
    <3> QED
      BY <3>2, <3>9, <3>11
  <2> QED
    BY <2>2, <2>3
<1> HIDE DEF G
<1>4. \A b \in Blocks(text) : BlockValid(text, b) => b \in G
  BY <1>1, <1>3, BlockInduction
<1> QED
  BY <1>4 DEF G

-----------------------------------------------------------------------------
(* The functions of a project are blocks of its text, one after the other.  *)
FunctionIs(p, f) ==
  LET block == p.functions[f]
  IN  /\ block \in Blocks(p.text) /\ BlockValid(p.text, block) /\ ~IsEmpty(block)
      /\ f \in Nat \ {0} /\ block.first \in Nat \ {0} /\ block.last \in Nat /\ block.first <= block.last
      /\ block.last <= Len(p.text) /\ Places(block) \subseteq DOMAIN p.text
      /\ ~JumpsOut(p.text, block, {"break", "continue"})
      /\ \A k \in Places(block) : RoleValid(p.text[k], f)

LEMMA FunctionsAreBlocks ==
  ASSUME NEW p, ProjectValid(p)
  PROVE  /\ TextValid(p.text) /\ Owner(p) \in Nat \ {0} /\ Owner(p) \in Functions(p) /\ Functions(p) \subseteq Nat
         /\ \A f \in Functions(p) : FunctionIs(p, f)
         /\ \A f \in Functions(p) : p.functions[f].first = IF f = 1 THEN 1 ELSE p.functions[f - 1].last + 1
         /\ p.functions[Owner(p)].last = Len(p.text)
<1>1. TextValid(p.text) /\ Owner(p) \in Nat \ {0} /\ DOMAIN p.functions = Functions(p) /\ p.functions[Owner(p)].last = Len(p.text)
  BY DEF ProjectValid, Owner, Functions
<1>2. Len(p.text) \in Nat /\ DOMAIN p.text = 1 .. Len(p.text)
  BY <1>1 DEF TextValid
<1>3. Owner(p) \in Functions(p) /\ Functions(p) \subseteq Nat
  BY <1>1 DEF Functions
<1>4. ASSUME NEW f \in Functions(p)
      PROVE  FunctionIs(p, f) /\ p.functions[f].first = IF f = 1 THEN 1 ELSE p.functions[f - 1].last + 1
  <2> DEFINE block == p.functions[f]
  <2>1. /\ block \in [first : 1 .. Len(p.text), last : 1 .. Len(p.text)] /\ ~IsEmpty(block)
        /\ block.first = IF f = 1 THEN 1 ELSE p.functions[f - 1].last + 1
        /\ ~JumpsOut(p.text, block, {"break", "continue"})
        /\ \A k \in Places(block) : End(p.text, k) <= block.last /\ RoleValid(p.text[k], f)
    BY <1>1, <1>4 DEF ProjectValid
  <2>2. block.first \in Nat \ {0} /\ block.last \in Nat /\ block.first <= block.last /\ block.last <= Len(p.text)
    BY <1>2, <2>1 DEF IsEmpty
  <2>3. block \in Blocks(p.text)
    BY <1>2, <2>1 DEF Blocks
  <2>4. Places(block) \subseteq DOMAIN p.text
    BY <1>2, <2>2 DEF Places
  <2>5. f \in Nat \ {0}
    BY <1>1, <1>4 DEF Functions
  <2> HIDE DEF block
  <2>6. BlockValid(p.text, block)
    BY <2>1, <2>2, <2>3 DEF BlockValid
  <2>7. FunctionIs(p, f)
    BY <2>1, <2>2, <2>3, <2>4, <2>5, <2>6 DEF FunctionIs, block
  <2> QED
    BY <2>1, <2>7 DEF block
<1> QED
  BY <1>1, <1>3, <1>4

LEMMA FunctionsInOrder ==
  ASSUME NEW p, ProjectValid(p), NEW f \in Functions(p)
  PROVE  /\ \A g \in Functions(p) : g < f => p.functions[g].last < p.functions[f].first
         /\ \A k \in DOMAIN p.text : k < p.functions[f].first => End(p.text, k) < p.functions[f].first
<1> DEFINE first(g) == p.functions[g].first
           last(g) == p.functions[g].last
           G == {n \in Nat : n + 1 \in Functions(p) =>
                   /\ \A g \in Functions(p) : g < n + 1 => last(g) < first(n + 1)
                   /\ \A k \in DOMAIN p.text : k < first(n + 1) => End(p.text, k) < first(n + 1)}
<1>1. TextValid(p.text) /\ Owner(p) \in Nat \ {0} /\ Functions(p) = 1 .. Owner(p)
  BY FunctionsAreBlocks DEF Functions
<1>2. \A g \in Functions(p) : first(g) \in Nat \ {0} /\ last(g) \in Nat /\ first(g) <= last(g)
  BY FunctionsAreBlocks DEF FunctionIs
<1>3. \A g \in Functions(p) : first(g) = IF g = 1 THEN 1 ELSE last(g - 1) + 1
  BY FunctionsAreBlocks
<1>4. \A g \in Functions(p) : \A k \in Places(p.functions[g]) : End(p.text, k) <= last(g)
  BY FunctionsAreBlocks DEF FunctionIs, BlockValid
<1>5. \A k \in DOMAIN p.text : k \in Nat \ {0} /\ End(p.text, k) \in Nat
  <2>1. \A k \in DOMAIN p.text : k \in Nat \ {0}
    BY <1>1 DEF TextValid
  <2> QED
    BY <1>1, <2>1, EndOfStatement
<1>6. 0 \in G
  <2>1. first(0 + 1) = 1
    BY <1>1, <1>3
  <2>2. \A k \in DOMAIN p.text : ~(k < 1)
    BY <1>5
  <2>3. \A g \in Functions(p) : ~(g < 0 + 1)
    BY <1>1
  <2> QED
    BY <2>1, <2>2, <2>3
<1>7. ASSUME NEW n \in 0 .. Owner(p) - 1, n \in G PROVE n + 1 \in G
  <2>1. SUFFICES ASSUME n + 1 + 1 \in Functions(p)
                 PROVE  /\ \A g \in Functions(p) : g < n + 1 + 1 => last(g) < first(n + 1 + 1)
                        /\ \A k \in DOMAIN p.text : k < first(n + 1 + 1) => End(p.text, k) < first(n + 1 + 1)
    OBVIOUS
  <2>2. n + 1 \in Functions(p) /\ n \in Nat
    BY <1>1, <2>1
  <2>3. /\ \A g \in Functions(p) : g < n + 1 => last(g) < first(n + 1)
        /\ \A k \in DOMAIN p.text : k < first(n + 1) => End(p.text, k) < first(n + 1)
    BY <1>7, <2>2
  <2>4. first(n + 1 + 1) = last(n + 1) + 1
    BY <1>3, <2>1, <2>2
  <2>5. first(n + 1) \in Nat /\ last(n + 1) \in Nat /\ first(n + 1) <= last(n + 1)
    BY <1>2, <2>2
  <2> HIDE DEF G
  <2>6. ASSUME NEW g \in Functions(p), g < n + 1 + 1 PROVE last(g) < first(n + 1 + 1)
    <3>1. g = n + 1 \/ g < n + 1
      BY <1>1, <2>2, <2>6
    <3>2. last(g) \in Nat
      BY <1>2
    <3> HIDE DEF first, last
    <3>3. CASE g < n + 1
      BY <2>3, <2>4, <2>5, <3>2, <3>3
    <3> QED
      BY <2>4, <2>5, <3>1, <3>3
  <2>7. ASSUME NEW k \in DOMAIN p.text, k < first(n + 1 + 1) PROVE End(p.text, k) < first(n + 1 + 1)
    <3>1. k \in Nat /\ End(p.text, k) \in Nat
      BY <1>5
    <3>2. k < first(n + 1) \/ k \in Places(p.functions[n + 1])
      BY <2>4, <2>5, <2>7, <3>1 DEF Places
    <3>3. k \in Places(p.functions[n + 1]) => End(p.text, k) <= last(n + 1)
      BY <1>4, <2>2
    <3> HIDE DEF first, last
    <3> QED
      BY <2>3, <2>4, <2>5, <3>1, <3>2, <3>3
  <2> QED
    BY <2>6, <2>7
<1> HIDE DEF G
<1>8. 0 .. Owner(p) \subseteq G
  BY <1>1, <1>6, <1>7, InductionUpTo
<1>9. f - 1 \in G /\ f - 1 + 1 = f /\ f - 1 \in Nat
  BY <1>1, <1>8
<1> QED
  BY <1>9 DEF G

(* A project whose statements are collected: a statement is told by its     *)
(* place, and its context is that of the function that it is in.            *)
IsCollected(p) == ProjectValid(p) /\ p.statements = [f \in Functions(p) |-> StatementContexts(p, f)]
ContextOf(p, f, k) == CollectStatements(f, p.text)[k]

LEMMA CollectedIsCollected ==
  ASSUME NEW p, ProjectValid(p)
  PROVE  IsCollected(Collected(p))
<1> DEFINE q == Collected(p)
<1>1. /\ q.text = p.text /\ q.functions = p.functions /\ q.customer = p.customer
      /\ q.statements = [f \in Functions(p) |-> StatementContexts(p, f)]
  BY DEF Collected
<1> HIDE DEF q
<1>2. Functions(q) = Functions(p) /\ \A f : StatementContexts(q, f) = StatementContexts(p, f)
  BY <1>1 DEF Functions, Owner, StatementContexts
<1>3. ProjectValid(q)
  BY <1>1 DEF ProjectValid
<1> QED
  BY <1>1, <1>2, <1>3 DEF IsCollected, q

LEMMA StatementsOfFunction ==
  ASSUME NEW p, IsCollected(p), NEW f \in Functions(p)
  PROVE  LET block == p.functions[f]
             s == p.statements[f]
         IN  /\ DOMAIN s = 1 .. block.last - block.first + 1
             /\ \A i \in DOMAIN s : /\ block.first + i - 1 \in Places(block) /\ s[i] = ContextOf(p, f, block.first + i - 1)
                                    /\ s[i].at = block.first + i - 1
             /\ \A k \in Places(block) : ContextOf(p, f, k) \in Statements(p, f) /\ ContextOf(p, f, k).at = k
             /\ \A c \in Statements(p, f) :
                  /\ c.at \in Places(block) /\ c.at \in DOMAIN p.text /\ c = ContextOf(p, f, c.at)
                  /\ ContextTold(p.text, c.at, c) /\ c.symbol = f /\ c.node = p.text[c.at]
                  /\ RoleValid(p.text[c.at], f)
<1> DEFINE block == p.functions[f]
           s == p.statements[f]
<1>1. TextValid(p.text) /\ ProjectValid(p) /\ FunctionIs(p, f)
  BY FunctionsAreBlocks DEF IsCollected
<1>2. block.first \in Nat \ {0} /\ block.last \in Nat /\ block.first <= block.last /\ Places(block) \subseteq DOMAIN p.text
  BY <1>1 DEF FunctionIs
<1>3. \A k \in DOMAIN p.text : ContextTold(p.text, k, ContextOf(p, f, k)) /\ ContextOf(p, f, k).symbol = f
  BY <1>1, ContextsAreTold DEF ContextOf
<1>4. s = [i \in 1 .. block.last - block.first + 1 |-> ContextOf(p, f, block.first + i - 1)]
  BY DEF IsCollected, StatementContexts, ContextOf
<1>5. \A k \in DOMAIN p.text : ContextOf(p, f, k).at = k /\ ContextOf(p, f, k).node = p.text[k]
  BY <1>3 DEF ContextTold
<1>6. \A i \in 1 .. block.last - block.first + 1 : block.first + i - 1 \in Places(block)
  BY <1>2 DEF Places
<1>7. \A k \in Places(block) : k - block.first + 1 \in 1 .. block.last - block.first + 1 /\ block.first + (k - block.first + 1) - 1 = k
  BY <1>2 DEF Places
<1> HIDE DEF s, block
<1>8. Statements(p, f) = {s[i] : i \in DOMAIN s}
  BY DEF Statements, Range, s
<1>9. DOMAIN s = 1 .. block.last - block.first + 1
  BY <1>4
<1>10. \A i \in DOMAIN s : s[i] = ContextOf(p, f, block.first + i - 1)
  BY <1>4
<1>11. ASSUME NEW k \in Places(block) PROVE ContextOf(p, f, k) \in Statements(p, f)
  <2>1. s[k - block.first + 1] = ContextOf(p, f, k)
    BY <1>7, <1>9, <1>10
  <2> QED
    BY <1>7, <1>8, <1>9, <2>1
<1>12. \A k \in Places(block) : RoleValid(p.text[k], f)
  BY <1>1 DEF FunctionIs, block
<1>13. ASSUME NEW c \in Statements(p, f)
       PROVE  /\ c.at \in Places(block) /\ c.at \in DOMAIN p.text /\ c = ContextOf(p, f, c.at)
              /\ ContextTold(p.text, c.at, c) /\ c.symbol = f /\ c.node = p.text[c.at] /\ RoleValid(p.text[c.at], f)
  <2>1. PICK k \in Places(block) : c = ContextOf(p, f, k)
    BY <1>6, <1>8, <1>9, <1>10
  <2>2. k \in DOMAIN p.text /\ c.at = k /\ c.node = p.text[k]
    BY <1>2, <1>5, <2>1
  <2> QED
    BY <1>3, <1>12, <2>1, <2>2
<1>14. \A i \in DOMAIN s : /\ block.first + i - 1 \in Places(block) /\ s[i].at = block.first + i - 1
  BY <1>2, <1>5, <1>6, <1>9, <1>10
<1> QED
  BY <1>2, <1>5, <1>9, <1>10, <1>11, <1>13, <1>14 DEF s, block

-----------------------------------------------------------------------------
(* The world of a function, as it is told by the statements.                *)
Made(p, f) == {c \in In(p, f, "invoke") : Role(c).how # "detached"}

LEMMA WorldSays ==
  ASSUME NEW p, IsCollected(p), NEW f \in Functions(p), NEW request, NEW runs
  PROVE  LET w == World(p, f, request, runs)
         IN  /\ DOMAIN w.calls = {c.at : c \in Made(p, f)}
             /\ \A c \in Made(p, f) : w.calls[c.at] = runs[Role(c).callee]
             /\ w.fails = {c.at : c \in {x \in In(p, f, "verify") : Detects(p, request, x)}}
             /\ DOMAIN w.takes = {c.at : c \in {x \in Statements(p, f) : Decided(p, request, x)}}
             /\ \A c \in Statements(p, f) : Decided(p, request, c) => w.takes[c.at] = {Taking(request, c)}
<1> DEFINE At(place) == CHOOSE c \in Statements(p, f) : c.at = place
           decided == {x \in Statements(p, f) : Decided(p, request, x)}
           w == World(p, f, request, runs)
<1>1. ASSUME NEW c \in Statements(p, f) PROVE At(c.at) = c
  <2>1. \A x \in Statements(p, f) : x.at = c.at => x = c
    BY StatementsOfFunction
  <2> QED
    BY <2>1
<1>2. /\ w.calls = [at \in {c.at : c \in Made(p, f)} |-> runs[Role(At(at)).callee]]
      /\ w.fails = {c.at : c \in {x \in In(p, f, "verify") : Detects(p, request, x)}}
      /\ w.takes = [at \in {c.at : c \in decided} |-> {Taking(request, At(at))}]
  BY DEF World, Made
<1> HIDE DEF w
<1>3. Made(p, f) \subseteq Statements(p, f)
  BY DEF Made, In
<1>4. ASSUME NEW c \in Made(p, f) PROVE w.calls[c.at] = runs[Role(c).callee]
  <2>1. At(c.at) = c
    BY <1>1, <1>3
  <2> HIDE DEF At
  <2> QED
    BY <1>2, <2>1
<1>5. ASSUME NEW c \in decided PROVE w.takes[c.at] = {Taking(request, c)}
  <2>1. At(c.at) = c
    BY <1>1
  <2> HIDE DEF At, decided
  <2> QED
    BY <1>2, <2>1
<1> QED
  BY <1>2, <1>4, <1>5 DEF w

(* What is decided of a test is one of its parts, or none of the cases.     *)
LEMMA TakingIsAPart ==
  ASSUME NEW p, IsCollected(p), NEW f \in Functions(p), NEW request, NEW c \in Statements(p, f), Decided(p, request, c)
  PROVE  LET s == p.text[c.at]
             j == Taking(request, c)
         IN  /\ s.kind \in {"if", "match"}
             /\ j \in DOMAIN s.parts \/ (j = 0 /\ s.kind = "match" /\ ~s.default)
<1> DEFINE s == p.text[c.at]
<1>1. /\ c.at \in DOMAIN p.text /\ c.node = s /\ RoleValid(s, f) /\ TextValid(p.text)
  BY StatementsOfFunction, FunctionsAreBlocks DEF IsCollected
<1>2. s.kind = "if" => DOMAIN s.parts = {1, 2}
  BY <1>1, ParametersInKinds
<1>3. CASE Role(c).role \in {"compare", "lookup"}
  <2>1. s.kind = "if"
    BY <1>1, <1>3 DEF RoleValid, Role
  <2>2. Taking(request, c) \in {1, 2}
    BY <1>3 DEF Taking, FailureBranch
  <2> QED
    BY <1>2, <2>1, <2>2
<1>4. CASE Role(c).role = "state" /\ Role(c).operator # "MATCH_CASE"
  <2>1. s.kind = "if"
    BY <1>1, <1>4 DEF RoleValid, Role
  <2>2. Taking(request, c) \in {1, 2}
    BY <1>1, <1>4, <2>1 DEF Taking
  <2> QED
    BY <1>2, <2>1, <2>2
<1>5. CASE Role(c).role = "state" /\ Role(c).operator = "MATCH_CASE"
  <2>1. s.kind = "match" /\ \A j \in DOMAIN Role(c).cases : j \in DOMAIN s.parts
    BY <1>1, <1>5 DEF RoleValid, Role
  <2>2. Taking(request, c) = CaseOf(c, request.event)
    BY <1>1, <1>5, <2>1 DEF Taking
  <2> DEFINE matching == {i \in DOMAIN Role(c).cases : request.event \in Role(c).cases[i]}
  <2>3. CASE matching # {}
    <3>1. DOMAIN s.parts \subseteq Nat
      BY <1>1, PartsAreBlocks DEF StatementAt
    <3>2. matching \in SUBSET Nat
      BY <2>1, <3>1
    <3>3. \E n \in matching : \A m \in matching : n <= m
      BY <2>3, <3>2, LeastNatural
    <3>4. Min(matching) \in matching
      BY <3>3 DEF Min
    <3>5. CaseOf(c, request.event) = Min(matching)
      BY <2>3 DEF CaseOf
    <3> QED
      BY <2>1, <2>2, <3>4, <3>5
  <2>4. CASE matching = {}
    <3>1. CaseOf(c, request.event) = IF s.default THEN Len(s.parts) ELSE 0
      BY <1>1, <2>4 DEF CaseOf
    <3>2. Len(s.parts) \in DOMAIN s.parts
      BY <1>1, <2>1, ParametersInKinds
    <3> QED
      BY <2>1, <2>2, <3>1, <3>2
  <2> QED
    BY <2>3, <2>4
<1>6. Role(c).role \in {"compare", "lookup", "state"}
  BY DEF Decided, Looks, Selects
<1> QED
  BY <1>3, <1>4, <1>5, <1>6

LEMMA WorldsAreValid ==
  ASSUME NEW p, IsCollected(p), NEW f \in Functions(p), NEW request, NEW runs
  PROVE  WorldValid(World(p, f, request, runs), p.text)
<1> DEFINE w == World(p, f, request, runs)
<1>1. SUFFICES ASSUME NEW k \in DOMAIN p.text, NEW j \in Taken(w, p.text[k], k)
               PROVE  j \in DOMAIN p.text[k].parts \/ (j = 0 /\ p.text[k].kind = "match" /\ ~p.text[k].default)
  BY DEF WorldValid
<1>2. CASE k \notin DOMAIN w.takes
  <2> HIDE DEF w
  <2> QED
    BY <1>1, <1>2 DEF Taken
<1>3. CASE k \in DOMAIN w.takes
  <2>1. PICK c \in Statements(p, f) : Decided(p, request, c) /\ k = c.at
    BY <1>3, WorldSays
  <2>2. w.takes[k] = {Taking(request, c)}
    BY <2>1, WorldSays
  <2>3. j = Taking(request, c)
    <3> HIDE DEF w
    <3> QED
      BY <1>1, <1>3, <2>2 DEF Taken
  <2> QED
    BY <2>1, <2>3, TakingIsAPart
<1> QED
  BY <1>2, <1>3

(* What a function does depends on those before it.                         *)
RunFrom(p, request, runs, f) == Execute(World(p, f, request, runs), p.text)
RunsFrom(p, request, runs, f) == RunFrom(p, request, runs, f)[p.functions[f]]

LEMMA CalleesAreBefore ==
  ASSUME NEW p, IsCollected(p), NEW f \in Functions(p), NEW c \in In(p, f, "invoke")
  PROVE  Role(c).callee \in Functions(p) /\ Role(c).callee < f /\ Role(c).callee \in Nat /\ c.symbol = f /\ c \in Statements(p, f)
<1>1. c \in Statements(p, f) /\ Role(c).role = "invoke"
  BY DEF In
<1>2. RoleValid(c.node, f) /\ c.symbol = f
  BY <1>1, StatementsOfFunction
<1>3. Role(c).callee \in 1 .. f - 1
  BY <1>1, <1>2 DEF RoleValid, Role
<1>4. Owner(p) \in Nat /\ f \in Nat
  BY FunctionsAreBlocks DEF IsCollected
<1> QED
  BY <1>1, <1>2, <1>3, <1>4 DEF Functions

LEMMA WorldIsLocal ==
  ASSUME NEW p, IsCollected(p), NEW request, NEW f \in Functions(p), NEW g, NEW h,
         \A m \in Functions(p) : m < f => g[m] = h[m]
  PROVE  World(p, f, request, g) = World(p, f, request, h)
<1> DEFINE At(place) == CHOOSE c \in Statements(p, f) : c.at = place
           places == {c.at : c \in {x \in In(p, f, "invoke") : Role(x).how # "detached"}}
<1>1. ASSUME NEW place \in places PROVE g[Role(At(place)).callee] = h[Role(At(place)).callee]
  <2>1. PICK c \in In(p, f, "invoke") : c.at = place
    OBVIOUS
  <2>2. c \in Statements(p, f) /\ \A x \in Statements(p, f) : x.at = c.at => x = c
    BY <2>1, StatementsOfFunction DEF In
  <2>3. At(place) = c
    BY <2>1, <2>2
  <2> HIDE DEF At
  <2> QED
    BY <2>1, <2>3, CalleesAreBefore
<1>2. [at \in places |-> g[Role(At(at)).callee]] = [at \in places |-> h[Role(At(at)).callee]]
  <2> HIDE DEF At, places
  <2> QED
    BY <1>1
<1> QED
  BY <1>2 DEF World

LEMMA FunctionRunsUnfold ==
  ASSUME NEW p, IsCollected(p), NEW request
  PROVE  LET c == FunctionRuns(p, request)
         IN  \A f \in Functions(p) : c[f] = RunsFrom(p, request, c, f)
<1> DEFINE N == Owner(p)
           Unfolded(g, n) == g = [f \in 1 .. n |-> RunsFrom(p, request, g, f)]
           G == {n \in Nat : \E g : Unfolded(g, n)}
<1>1. N \in Nat /\ Functions(p) = 1 .. N
  BY FunctionsAreBlocks DEF IsCollected, Functions
<1>2. FunctionRuns(p, request) = CHOOSE g : g = [f \in Functions(p) |-> RunsFrom(p, request, g, f)]
  BY DEF FunctionRuns, RunsFrom, RunFrom
<1> HIDE DEF N
<1>3. \A f \in Functions(p) : \A g, h : (\A m \in Functions(p) : m < f => g[m] = h[m]) =>
        RunsFrom(p, request, g, f) = RunsFrom(p, request, h, f)
  <2>1. ASSUME NEW f \in Functions(p), NEW g, NEW h, \A m \in Functions(p) : m < f => g[m] = h[m]
        PROVE  RunsFrom(p, request, g, f) = RunsFrom(p, request, h, f)
    <3>1. World(p, f, request, g) = World(p, f, request, h)
      BY <2>1, WorldIsLocal
    <3> QED
      BY <3>1 DEF RunsFrom, RunFrom
  <2> QED
    BY <2>1
<1>4. 0 \in G
  <2> DEFINE g == [k \in 1 .. 0 |-> RunsFrom(p, request, <<>>, k)]
  <2>1. \A k : k \notin 1 .. 0
    OBVIOUS
  <2>2. Unfolded(g, 0)
    BY <2>1
  <2> QED
    BY <2>2
<1>5. ASSUME NEW n \in 0 .. N - 1, n \in G PROVE n + 1 \in G
  <2>1. PICK g : Unfolded(g, n)
    BY <1>5
  <2> DEFINE h == [k \in 1 .. n + 1 |-> RunsFrom(p, request, g, k)]
  <2>2. \A k \in 1 .. n : g[k] = RunsFrom(p, request, g, k)
    BY <2>1
  <2>3. h = [k \in 1 .. n + 1 |-> h[k]] /\ \A k \in 1 .. n + 1 : h[k] = RunsFrom(p, request, g, k)
    OBVIOUS
  <2> HIDE DEF h
  <2>4. \A k \in 1 .. n : g[k] = h[k]
    <3>1. \A k \in 1 .. n : k \in 1 .. n + 1
      BY <1>1
    <3> QED
      BY <2>2, <2>3, <3>1
  <2>5. ASSUME NEW k \in 1 .. n + 1 PROVE h[k] = RunsFrom(p, request, h, k)
    <3>1. k \in Functions(p) /\ \A m \in Functions(p) : m < k => g[m] = h[m]
      <4>1. k \in Functions(p)
        BY <1>1
      <4>2. \A m \in Functions(p) : m < k => m \in 1 .. n
        BY <1>1
      <4> QED
        BY <2>4, <4>1, <4>2
    <3> QED
      BY <1>3, <2>3, <3>1
  <2>6. Unfolded(h, n + 1)
    BY <2>3, <2>5
  <2>7. (\E f : Unfolded(f, n + 1)) /\ n + 1 \in Nat
    BY ONLY <2>6, <1>1
  <2> QED
    BY ONLY <2>7
<1>6. N \in G
  <2> HIDE DEF G
  <2>1. 0 .. N \subseteq G
    BY ONLY <1>1, <1>4, <1>5, InductionUpTo
  <2> QED
    BY <1>1, <2>1
<1>7. \E g : g = [f \in Functions(p) |-> RunsFrom(p, request, g, f)]
  BY <1>1, <1>6
<1> DEFINE c == FunctionRuns(p, request)
<1>8. c = [f \in Functions(p) |-> RunsFrom(p, request, c, f)]
  BY <1>2, <1>7
<1> HIDE DEF c
<1>9. \A f \in Functions(p) : c[f] = RunsFrom(p, request, c, f)
  BY <1>8
<1> QED
  BY <1>9 DEF c

(* A strong induction over the functions.                                   *)
LEMMA FunctionInduction ==
  ASSUME NEW p, ProjectValid(p), NEW G,
         \A f \in Functions(p) : (\A g \in Functions(p) : g < f => g \in G) => f \in G
  PROVE  Functions(p) \subseteq G
<1>1. Owner(p) \in Nat /\ Functions(p) = 1 .. Owner(p)
  BY FunctionsAreBlocks DEF Functions
<1> DEFINE T == {f \in Functions(p) : f \notin G}
<1>2. SUFFICES ASSUME T # {} PROVE FALSE
  OBVIOUS
<1>3. PICK n \in T : \A m \in T : n <= m
  <2>1. T \in SUBSET Nat
    BY <1>1
  <2> HIDE DEF T
  <2> QED
    BY <1>2, <2>1, LeastNatural
<1>4. \A g \in Functions(p) : g < n => g \in G
  BY <1>1, <1>3
<1> QED
  BY <1>3, <1>4

(* The executions of a function, in the world of its calls.                 *)
OutcomesOf(p, request, f) == FunctionRuns(p, request)[f]
WorldOf(p, request, f) == World(p, f, request, FunctionRuns(p, request))
RunOf(p, request, f) == RunFrom(p, request, FunctionRuns(p, request), f)
Returns == {"next", "return", "raise"}

LEMMA CallsOfFunctionStay ==
  ASSUME NEW p, IsCollected(p), NEW request, NEW f \in Functions(p),
         \A g \in Functions(p) : g < f => \A d \in SUBSET DOMAIN p.text : \A o \in OutcomesOf(p, request, g)[d] :
           Stays(p.text, 1 .. p.functions[g].last, d, o) /\ o.exit \in Returns
  PROVE  CallsStay(WorldOf(p, request, f), p.text, p.functions[f].first)
<1>1. SUFFICES ASSUME NEW k \in DOMAIN WorldOf(p, request, f).calls, NEW d \in SUBSET DOMAIN p.text,
                      NEW o \in WorldOf(p, request, f).calls[k][d]
               PROVE  Stays(p.text, 1 .. p.functions[f].first - 1, d, o) /\ o.exit \in {"next", "return", "raise"}
  BY DEF CallsStay
<1>2. PICK c \in Made(p, f) : k = c.at
  BY WorldSays DEF WorldOf
<1> DEFINE g == Role(c).callee
<1>3. WorldOf(p, request, f).calls[k] = OutcomesOf(p, request, g)
  BY <1>2, WorldSays DEF WorldOf, OutcomesOf
<1>4. g \in Functions(p) /\ g < f
  BY CalleesAreBefore DEF Made
<1> HIDE DEF g
<1>5. Stays(p.text, 1 .. p.functions[g].last, d, o) /\ o.exit \in Returns
  BY <1>1, <1>3, <1>4
<1>6. p.functions[g].last < p.functions[f].first /\ p.functions[g].last \in Nat /\ p.functions[f].first \in Nat
  BY <1>4, FunctionsInOrder, FunctionsAreBlocks DEF IsCollected, FunctionIs
<1>7. 1 .. p.functions[g].last \subseteq 1 .. p.functions[f].first - 1
  BY <1>6
<1> QED
  BY <1>5, <1>7, StaysWider DEF Returns

LEMMA FunctionsRun ==
  ASSUME NEW p, IsCollected(p), NEW request
  PROVE  \A f \in Functions(p) :
           /\ Runs(WorldOf(p, request, f), p.text, p.functions[f].first, RunOf(p, request, f))
           /\ OutcomesOf(p, request, f) = RunOf(p, request, f)[p.functions[f]]
           /\ \A d \in SUBSET DOMAIN p.text : \A o \in OutcomesOf(p, request, f)[d] :
                /\ Known(p.text, p.functions[f].first, p.functions[f], d, o)
                /\ Stays(p.text, 1 .. p.functions[f].last, d, o) /\ o.exit \in Returns
<1> DEFINE Fine(f) ==
             /\ Runs(WorldOf(p, request, f), p.text, p.functions[f].first, RunOf(p, request, f))
             /\ OutcomesOf(p, request, f) = RunOf(p, request, f)[p.functions[f]]
             /\ \A d \in SUBSET DOMAIN p.text : \A o \in OutcomesOf(p, request, f)[d] :
                  /\ Known(p.text, p.functions[f].first, p.functions[f], d, o)
                  /\ Stays(p.text, 1 .. p.functions[f].last, d, o) /\ o.exit \in Returns
           G == {f \in Functions(p) : Fine(f)}
<1>1. ASSUME NEW f \in Functions(p), \A g \in Functions(p) : g < f => g \in G PROVE f \in G
  <2>1. TextValid(p.text) /\ FunctionIs(p, f) /\ ProjectValid(p)
    BY FunctionsAreBlocks DEF IsCollected
  <2>2. CallsStay(WorldOf(p, request, f), p.text, p.functions[f].first)
    BY <1>1, CallsOfFunctionStay
  <2>3. WorldValid(WorldOf(p, request, f), p.text)
    BY WorldsAreValid DEF WorldOf
  <2>4. \A b \in Blocks(p.text) : RunOf(p, request, f)[b] = Ran(WorldOf(p, request, f), p.text, RunOf(p, request, f), b)
    BY <2>1, <2>3, ExecuteUnfolds DEF RunOf, RunFrom, WorldOf
  <2>5. p.functions[f].first \in Nat \ {0} /\ p.functions[f].last \in Nat /\ p.functions[f] \in Blocks(p.text)
        /\ BlockValid(p.text, p.functions[f]) /\ p.functions[f].first <= p.functions[f].last
        /\ ~JumpsOut(p.text, p.functions[f], {"break", "continue"})
    BY <2>1 DEF FunctionIs
  <2>6. Runs(WorldOf(p, request, f), p.text, p.functions[f].first, RunOf(p, request, f))
    BY <2>1, <2>2, <2>3, <2>4, <2>5 DEF Runs
  <2>7. OutcomesOf(p, request, f) = RunOf(p, request, f)[p.functions[f]]
    BY FunctionRunsUnfold DEF OutcomesOf, RunOf, RunsFrom
  <2> HIDE DEF G
  <2>8. ASSUME NEW d \in SUBSET DOMAIN p.text, NEW o \in OutcomesOf(p, request, f)[d]
        PROVE  /\ Known(p.text, p.functions[f].first, p.functions[f], d, o)
               /\ Stays(p.text, 1 .. p.functions[f].last, d, o) /\ o.exit \in Returns
    <3>1. o \in RunOf(p, request, f)[p.functions[f]][d]
      BY <2>7, <2>8
    <3>2. p.functions[f].first >= p.functions[f].first
      BY <2>5
    <3>3. Known(p.text, p.functions[f].first, p.functions[f], d, o)
      BY <2>5, <2>6, <3>1, <3>2, ExecutionsKnown
    <3>4. Stays(p.text, Reach(p.functions[f].first, p.functions[f]), d, o) /\ Leaves(p.text, p.functions[f], o)
      BY <3>3 DEF Known
    <3>5. Reach(p.functions[f].first, p.functions[f]) \subseteq 1 .. p.functions[f].last
      BY <2>5 DEF Reach, Places
    <3>6. Stays(p.text, 1 .. p.functions[f].last, d, o)
      BY <3>4, <3>5, StaysWider
    <3>7. o.exit \in Exits
      BY <3>6 DEF Stays, Outcomes
    <3>8. o.exit \notin {"break", "continue"}
      <4>1. ASSUME o.exit \in {"break", "continue"} PROVE FALSE
        <5>1. JumpsOut(p.text, p.functions[f], {o.exit})
          BY <3>4, <4>1 DEF Leaves
        <5>2. JumpsOut(p.text, p.functions[f], {"break", "continue"})
          BY <4>1, <5>1 DEF JumpsOut
        <5> QED
          BY <2>5, <5>2
      <4> QED
        BY <4>1
    <3> QED
      BY <3>3, <3>6, <3>7, <3>8 DEF Exits, Returns
  <2> QED
    BY <2>6, <2>7, <2>8 DEF G
<1>2. Functions(p) \subseteq G
  <2> HIDE DEF G
  <2> QED
    BY <1>1, FunctionInduction DEF IsCollected
<1> QED
  BY <1>2

-----------------------------------------------------------------------------
(* A function that spares a statement: none of its executions begins it.    *)
Spares(p, request, f, t) ==
  \A d \in SUBSET DOMAIN p.text : \A o \in OutcomesOf(p, request, f)[d] :
    Stays(p.text, (1 .. p.functions[f].last) \ {t}, d, o)

LEMMA SparedIsNotBegun ==
  ASSUME NEW p, IsCollected(p), NEW request, NEW t, Spares(p, request, Owner(p), t)
  PROVE  ~Takes(p, request, t)
<1>1. \A o \in RouteExecutions(p, request) : Stays(p.text, (1 .. p.functions[Owner(p)].last) \ {t}, {}, o)
  <2>1. {} \in SUBSET DOMAIN p.text
    OBVIOUS
  <2> QED
    BY <2>1 DEF Spares, RouteExecutions, OutcomesOf
<1>2. \A o \in RouteExecutions(p, request) : t \notin BegunBy(o)
  BY <1>1 DEF Stays, Touched, BegunBy
<1> QED
  BY <1>2 DEF Takes

LEMMA KeptAway ==
  ASSUME NEW p, IsCollected(p), NEW request, NEW f \in Functions(p), NEW i, NEW u, NEW t,
         KeepsAway(WorldOf(p, request, f), p.text, p.functions[f].first, RunOf(p, request, f), i, u, t),
         u \in Places(p.functions[f]) => i \in Places(p.functions[f])
  PROVE  Spares(p, request, f, t)
<1> DEFINE block == p.functions[f]
<1>1. FunctionIs(p, f)
  BY FunctionsAreBlocks DEF IsCollected
<1>2. /\ block \in Blocks(p.text) /\ BlockValid(p.text, block) /\ block.first \in Nat \ {0} /\ block.last \in Nat
      /\ block.first <= block.last
  BY <1>1 DEF FunctionIs
<1>3. block.first >= block.first
  BY <1>2
<1>4. Runs(WorldOf(p, request, f), p.text, p.functions[f].first, RunOf(p, request, f))
      /\ OutcomesOf(p, request, f) = RunOf(p, request, f)[p.functions[f]]
  BY FunctionsRun
<1>5. Avoids(p.text, block.first, block, t, RunOf(p, request, f)[block])
  BY <1>2, <1>3, <1>4, BlocksAvoid
<1>6. Without(p.text, block.first, block, t) \subseteq (1 .. block.last) \ {t}
  BY <1>2 DEF Without, Reach, Places
<1> HIDE DEF block
<1>7. ASSUME NEW d \in SUBSET DOMAIN p.text, NEW o \in OutcomesOf(p, request, f)[d]
      PROVE  Stays(p.text, (1 .. block.last) \ {t}, d, o)
  <2>1. Stays(p.text, Without(p.text, block.first, block, t), d, o)
    BY <1>4, <1>5, <1>7 DEF Avoids, block
  <2> QED
    BY <1>6, <2>1, StaysWider
<1> QED
  BY <1>7 DEF Spares, block

LEMMA CallsSpare ==
  ASSUME NEW p, IsCollected(p), NEW request, NEW f \in Functions(p), NEW u, NEW t,
         \A c \in Made(p, f) : c.at # u => Spares(p, request, Role(c).callee, t)
  PROVE  \A k \in DOMAIN WorldOf(p, request, f).calls : k # u =>
           \A d \in SUBSET DOMAIN p.text : \A o \in WorldOf(p, request, f).calls[k][d] :
             Stays(p.text, (1 .. p.functions[f].first - 1) \ {t}, d, o)
<1>1. SUFFICES ASSUME NEW k \in DOMAIN WorldOf(p, request, f).calls, k # u, NEW d \in SUBSET DOMAIN p.text,
                      NEW o \in WorldOf(p, request, f).calls[k][d]
               PROVE  Stays(p.text, (1 .. p.functions[f].first - 1) \ {t}, d, o)
  OBVIOUS
<1>2. PICK c \in Made(p, f) : k = c.at
  BY WorldSays DEF WorldOf
<1> DEFINE g == Role(c).callee
<1>3. WorldOf(p, request, f).calls[k] = OutcomesOf(p, request, g)
  BY <1>2, WorldSays DEF WorldOf, OutcomesOf
<1>4. g \in Functions(p) /\ g < f
  BY CalleesAreBefore DEF Made
<1>5. Spares(p, request, g, t)
  BY <1>1, <1>2
<1> HIDE DEF g
<1>6. Stays(p.text, (1 .. p.functions[g].last) \ {t}, d, o)
  BY <1>1, <1>3, <1>5 DEF Spares
<1>7. p.functions[g].last < p.functions[f].first /\ p.functions[g].last \in Nat /\ p.functions[f].first \in Nat
  BY <1>4, FunctionsInOrder, FunctionsAreBlocks DEF IsCollected, FunctionIs
<1>8. (1 .. p.functions[g].last) \ {t} \subseteq (1 .. p.functions[f].first - 1) \ {t}
  BY <1>7
<1> QED
  BY <1>6, <1>8, StaysWider

(* A function without the statement spares it if the functions that it      *)
(* calls do.                                                                *)
LEMMA SparedByCallees ==
  ASSUME NEW p, IsCollected(p), NEW request, NEW f \in Functions(p), NEW t \in Nat, t \notin Places(p.functions[f]),
         \A c \in Made(p, f) : Spares(p, request, Role(c).callee, t)
  PROVE  Spares(p, request, f, t)
<1> DEFINE block == p.functions[f]
<1>1. /\ block.first \in Nat \ {0} /\ block.last \in Nat /\ block.last <= Len(p.text) /\ DOMAIN p.text = 1 .. Len(p.text)
      /\ Len(p.text) \in Nat /\ block.first <= block.last
  <2>1. TextValid(p.text) /\ FunctionIs(p, f)
    BY FunctionsAreBlocks DEF IsCollected
  <2>2. Len(p.text) \in Nat /\ DOMAIN p.text = 1 .. Len(p.text)
    BY <2>1 DEF TextValid
  <2> QED
    BY <2>1, <2>2 DEF FunctionIs
<1>2. CASE t \in 1 .. block.first - 1
  <2>1. t \in DOMAIN p.text /\ t < block.first /\ 0 \in DOMAIN p.text \cup {0}
    BY <1>1, <1>2
  <2>2. \A k \in DOMAIN WorldOf(p, request, f).calls : k # t =>
           \A d \in SUBSET DOMAIN p.text : \A o \in WorldOf(p, request, f).calls[k][d] :
             Stays(p.text, (1 .. p.functions[f].first - 1) \ {t}, d, o)
    BY CallsSpare
  <2>3. KeepsAway(WorldOf(p, request, f), p.text, p.functions[f].first, RunOf(p, request, f), 0, t, t)
    BY <2>1, <2>2 DEF KeepsAway
  <2> QED
    BY <2>3, KeptAway
<1>3. CASE t \notin 1 .. block.first - 1
  <2>1. (1 .. block.last) \ {t} = 1 .. block.last
    BY <1>1, <1>3 DEF Places
  <2>2. \A d \in SUBSET DOMAIN p.text : \A o \in OutcomesOf(p, request, f)[d] : Stays(p.text, 1 .. block.last, d, o)
    BY FunctionsRun
  <2> QED
    BY <2>1, <2>2 DEF Spares
<1> QED
  BY <1>2, <1>3

(* What is only reached by a set of functions is spared by the others.      *)
LEMMA SparedByOthers ==
  ASSUME NEW p, IsCollected(p), NEW request, NEW t \in Nat, NEW Q,
         \A f \in Functions(p) \ Q : (\A g \in Functions(p) \ Q : g < f => Spares(p, request, g, t)) =>
           \/ Spares(p, request, f, t)
           \/ t \notin Places(p.functions[f]) /\ \A c \in Made(p, f) : Role(c).callee \notin Q
  PROVE  \A f \in Functions(p) \ Q : Spares(p, request, f, t)
<1> DEFINE G == {f \in Functions(p) : f \notin Q => Spares(p, request, f, t)}
<1>1. ASSUME NEW f \in Functions(p), \A g \in Functions(p) : g < f => g \in G PROVE f \in G
  <2>1. SUFFICES ASSUME f \notin Q PROVE Spares(p, request, f, t)
    OBVIOUS
  <2>2. \A g \in Functions(p) \ Q : g < f => Spares(p, request, g, t)
    BY <1>1
  <2>3. ASSUME t \notin Places(p.functions[f]), \A c \in Made(p, f) : Role(c).callee \notin Q PROVE Spares(p, request, f, t)
    <3>1. \A c \in Made(p, f) : Role(c).callee \in Functions(p) \ Q /\ Role(c).callee < f
      BY <2>3, CalleesAreBefore DEF Made
    <3>2. \A c \in Made(p, f) : Spares(p, request, Role(c).callee, t)
      BY <2>2, <3>1
    <3> QED
      BY <2>3, <3>2, SparedByCallees
  <2> QED
    BY <2>1, <2>2, <2>3
<1>2. Functions(p) \subseteq G
  <2> HIDE DEF G
  <2> QED
    BY <1>1, FunctionInduction DEF IsCollected
<1> QED
  BY <1>2

-----------------------------------------------------------------------------
(* A statement of a function that another statement of it keeps away.       *)
LEMMA FunctionsAreApart ==
  ASSUME NEW p, ProjectValid(p), NEW f \in Functions(p), NEW g \in Functions(p), NEW k, k \in Places(p.functions[f]), k \in Places(p.functions[g])
  PROVE  f = g
<1>1. /\ p.functions[f].first \in Nat /\ p.functions[f].last \in Nat /\ p.functions[g].first \in Nat /\ p.functions[g].last \in Nat
      /\ f \in Nat /\ g \in Nat
  BY FunctionsAreBlocks DEF FunctionIs
<1>2. k \in Nat /\ p.functions[f].first <= k /\ k <= p.functions[f].last /\ p.functions[g].first <= k /\ k <= p.functions[g].last
  BY <1>1 DEF Places
<1>3. f < g => p.functions[f].last < p.functions[g].first
  BY FunctionsInOrder
<1>4. g < f => p.functions[g].last < p.functions[f].first
  BY FunctionsInOrder
<1> QED
  BY <1>1, <1>2, <1>3, <1>4

LEMMA GuardedInFunction ==
  ASSUME NEW p, IsCollected(p), NEW request, NEW f \in Functions(p),
         NEW i \in Places(p.functions[f]), NEW t \in Places(p.functions[f]),
         \A d \in SUBSET DOMAIN p.text : \A o \in One(WorldOf(p, request, f), p.text, i, RunOf(p, request, f), d) :
           Stays(p.text, Without(p.text, p.functions[f].first, Span(p.text, i), t), d, o),
         \/ t \in Places(Span(p.text, i))
         \/ /\ Precedes(p.text, i, t)
            /\ \A d \in SUBSET DOMAIN p.text : \A o \in One(WorldOf(p, request, f), p.text, i, RunOf(p, request, f), d) : o.exit # "next"
  PROVE  ~Takes(p, request, t)
<1> DEFINE base == p.functions[f].first
<1>1. /\ base \in Nat \ {0} /\ p.functions[f].last \in Nat /\ Places(p.functions[f]) \subseteq DOMAIN p.text /\ ProjectValid(p)
      /\ Owner(p) \in Functions(p)
  BY FunctionsAreBlocks DEF IsCollected, FunctionIs
<1>2. i \in DOMAIN p.text /\ t \in DOMAIN p.text /\ t \in Nat /\ t >= base
  BY <1>1 DEF Places
<1>3. CallsStay(WorldOf(p, request, f), p.text, base)
  BY FunctionsRun DEF Runs
<1> HIDE DEF base
<1>4. (1 .. base - 1) \ {t} = 1 .. base - 1
  BY <1>1, <1>2
<1>5. \A k \in DOMAIN WorldOf(p, request, f).calls : k # t =>
        \A d \in SUBSET DOMAIN p.text : \A o \in WorldOf(p, request, f).calls[k][d] : Stays(p.text, (1 .. base - 1) \ {t}, d, o)
  BY <1>3, <1>4 DEF CallsStay
<1>6. KeepsAway(WorldOf(p, request, f), p.text, base, RunOf(p, request, f), i, t, t)
  BY <1>2, <1>5 DEF KeepsAway, base
<1>7. Spares(p, request, f, t)
  BY <1>6, KeptAway DEF base
<1>8. \A g \in Functions(p) : g # f => t \notin Places(p.functions[g])
  BY <1>1, FunctionsAreApart
<1>9. \A g \in Functions(p) \ {} : Spares(p, request, g, t)
  BY <1>2, <1>7, <1>8, SparedByOthers
<1> QED
  BY <1>1, <1>9, SparedIsNotBegun

(* A test that is decided executes the part that it takes.                  *)
LEMMA DecidedOutcomes ==
  ASSUME NEW world, NEW text, NEW base, NEW run, Runs(world, text, base, run), NEW i \in DOMAIN text,
         text[i].kind \in {"if", "match"}, i \in DOMAIN world.takes, NEW j, world.takes[i] = {j},
         NEW d \in SUBSET DOMAIN text, NEW o \in One(world, text, i, run, d)
  PROVE  \/ o = Fails(i, d)
         \/ \E m : /\ o = Entering(i, d, m)
                   /\ \/ j \in DOMAIN text[i].parts /\ m \in run[text[i].parts[j]][d \cup {i}]
                      \/ j = 0 /\ m = Outcome(d \cup {i}, {}, {}, "next")
<1>1. TextValid(text) /\ WorldValid(world, text)
  BY DEF Runs
<1>2. text[i].kind \in {"if", "match", "loop", "with", "try"}
  OBVIOUS
<1>3. o = Fails(i, d) \/ \E m \in Inner(world, text[i], i, run, d \cup {i}) : o = Entering(i, d, m)
  BY <1>1, <1>2, CompoundOutcomes
<1>4. Taken(world, text[i], i) = {j}
  BY DEF Taken
<1>5. j \in DOMAIN text[i].parts \/ j = 0
  BY <1>1, <1>4 DEF WorldValid
<1>6. 0 \notin DOMAIN text[i].parts
  BY <1>1, PartsAreBlocks DEF StatementAt
<1>7. ASSUME NEW m \in Inner(world, text[i], i, run, d \cup {i})
      PROVE  \/ j \in DOMAIN text[i].parts /\ m \in run[text[i].parts[j]][d \cup {i}]
             \/ j = 0 /\ m = Outcome(d \cup {i}, {}, {}, "next")
  <2>1. m \in Branches(world, text[i], i, run, d \cup {i})
    BY <1>7 DEF Inner
  <2>2. m \in IF j = 0 THEN {Outcome(d \cup {i}, {}, {}, "next")} ELSE run[text[i].parts[j]][d \cup {i}]
    BY <1>4, <2>1 DEF Branches
  <2> QED
    BY <1>5, <2>2
<1> QED
  BY <1>3, <1>7

LEMMA DecidedAvoids ==
  ASSUME NEW world, NEW text, NEW base, NEW run, Runs(world, text, base, run), NEW i \in DOMAIN text, i >= base,
         text[i].kind \in {"if", "match"}, i \in DOMAIN world.takes, NEW j, world.takes[i] = {j}, NEW t, t # i,
         j \in DOMAIN text[i].parts => Avoids(text, base, text[i].parts[j], t, run[text[i].parts[j]])
  PROVE  \A d \in SUBSET DOMAIN text : \A o \in One(world, text, i, run, d) :
           /\ Stays(text, Without(text, base, Span(text, i), t), d, o)
           /\ j \in DOMAIN text[i].parts /\ Terminates(text, text[i].parts[j]) => o.exit # "next"
           /\ j \in DOMAIN text[i].parts /\ ~MayReturn(text, text[i].parts[j]) => o.exit # "return"
<1> DEFINE T == Without(text, base, Span(text, i), t)
<1>1. TextValid(text)
  BY DEF Runs
<1>2. SUFFICES ASSUME NEW d \in SUBSET DOMAIN text, NEW o \in One(world, text, i, run, d)
               PROVE  /\ Stays(text, T, d, o)
                      /\ j \in DOMAIN text[i].parts /\ Terminates(text, text[i].parts[j]) => o.exit # "next"
                      /\ j \in DOMAIN text[i].parts /\ ~MayReturn(text, text[i].parts[j]) => o.exit # "return"
  OBVIOUS
<1>3. i \in DOMAIN text \cap T
  BY <1>1, SpanIsBlock DEF Without, Reach
<1>4. \/ o = Fails(i, d)
      \/ \E m : /\ o = Entering(i, d, m)
                /\ \/ j \in DOMAIN text[i].parts /\ m \in run[text[i].parts[j]][d \cup {i}]
                   \/ j = 0 /\ m = Outcome(d \cup {i}, {}, {}, "next")
  BY DecidedOutcomes
<1>5. 0 \notin DOMAIN text[i].parts
  BY <1>1, PartsAreBlocks DEF StatementAt
<1>6. CASE o = Fails(i, d)
  <2>1. Stays(text, {i}, d, o) /\ o.exit = "raise"
    BY <1>1, <1>6, EndsStay, FailsFields
  <2> HIDE DEF T
  <2>2. Stays(text, T, d, o)
    BY <1>3, <2>1, StaysWider
  <2> QED
    BY <2>1, <2>2
<1>7. ASSUME NEW m, o = Entering(i, d, m), j \in DOMAIN text[i].parts, m \in run[text[i].parts[j]][d \cup {i}]
      PROVE  /\ Stays(text, T, d, o)
             /\ j \in DOMAIN text[i].parts /\ Terminates(text, text[i].parts[j]) => o.exit # "next"
             /\ j \in DOMAIN text[i].parts /\ ~MayReturn(text, text[i].parts[j]) => o.exit # "return"
  <2>1. d \cup {i} \in SUBSET DOMAIN text
    OBVIOUS
  <2>2. Leaves(text, text[i].parts[j], m) /\ o.exit = m.exit
    BY <1>7, <2>1, PartRuns, JoinedFields DEF Entering
  <2>3. Stays(text, Without(text, base, text[i].parts[j], t), d \cup {i}, m)
    BY <1>7, <2>1 DEF Avoids
  <2>4. Places(text[i].parts[j]) \subseteq Places(Span(text, i))
    BY <1>1, <1>7, SpanIsBlock
  <2>5. Stays(text, T, d \cup {i}, m)
    BY <2>3, <2>4, WithoutWider
  <2> HIDE DEF T
  <2>6. Stays(text, T, d, o)
    BY <1>1, <1>3, <1>7, <2>5, EnteringStays
  <2> QED
    BY <2>2, <2>6 DEF Leaves
<1>8. ASSUME j = 0, o = Entering(i, d, Outcome(d \cup {i}, {}, {}, "next")) PROVE Stays(text, T, d, o)
  <2>1. d \cup {i} \in SUBSET DOMAIN text
    OBVIOUS
  <2> HIDE DEF T
  <2>2. Stays(text, T, d \cup {i}, Outcome(d \cup {i}, {}, {}, "next"))
    BY <2>1, StaysOfNothing
  <2> QED
    BY <1>1, <1>3, <1>8, <2>2, EnteringStays
<1> QED
  BY <1>4, <1>5, <1>6, <1>7, <1>8

(* What is not in the part that is taken is avoided by it.                  *)
LEMMA PartAvoids ==
  ASSUME NEW world, NEW text, NEW base, NEW run, Runs(world, text, base, run), NEW i \in DOMAIN text, i >= base,
         NEW j \in DOMAIN text[i].parts, NEW t \in Nat, t >= base, t \notin Places(text[i].parts[j])
  PROVE  Avoids(text, base, text[i].parts[j], t, run[text[i].parts[j]])
<1>1. base \in Nat
  BY DEF Runs
<1>2. Reach(base, text[i].parts[j]) \subseteq Without(text, base, text[i].parts[j], t)
  BY <1>1 DEF Without, Reach
<1>3. \A d \in SUBSET DOMAIN text : \A o \in run[text[i].parts[j]][d] : Stays(text, Reach(base, text[i].parts[j]), d, o)
  BY PartRuns
<1> QED
  BY <1>2, <1>3, StaysWider DEF Avoids

-----------------------------------------------------------------------------
(* The paths of calls: each is one from the owner of the route, and a       *)
(* function that has a path calls none without.                             *)
AllStatements(p) == UNION {Statements(p, f) : f \in Functions(p)}

PathIs(p, path, f) ==
  /\ path \in Seq(Invocations(p)) /\ (path = <<>> <=> f = Owner(p))
  /\ path # <<>> => path[1].symbol = Owner(p) /\ Role(path[Len(path)]).callee = f
  /\ \A i \in 1 .. Len(path) - 1 : path[i + 1].symbol = Role(path[i]).callee

Explored(p, n, paths, queue) ==
  /\ DOMAIN paths \subseteq Functions(p) /\ Owner(p) \in DOMAIN paths
  /\ \A f \in DOMAIN paths : PathIs(p, paths[f], f)
  /\ queue \in Seq(AllStatements(p))
  /\ Listed(queue) = UNION {Statements(p, f) : f \in DOMAIN paths}
  /\ \A i, j \in DOMAIN queue : queue[i].at = queue[j].at => i = j
  /\ \A i \in DOMAIN queue : i <= n /\ Role(queue[i]).role = "invoke" => Role(queue[i]).callee \in DOMAIN paths

LEMMA InvocationsAreCalls ==
  ASSUME NEW p, IsCollected(p), NEW c \in Invocations(p)
  PROVE  /\ c.symbol \in Functions(p) /\ c \in In(p, c.symbol, "invoke") /\ c \in Statements(p, c.symbol)
         /\ Role(c).callee \in Functions(p) /\ Role(c).callee < c.symbol /\ Role(c).callee \in Nat /\ c.symbol \in Nat
<1>1. PICK f \in Functions(p) : c \in In(p, f, "invoke")
  BY DEF Invocations
<1>2. f \in Nat
  BY FunctionsAreBlocks DEF IsCollected
<1> QED
  BY <1>1, <1>2, CalleesAreBefore

LEMMA StatementsAreListed ==
  ASSUME NEW p, IsCollected(p), NEW f \in Functions(p)
  PROVE  /\ p.statements[f] \in Seq(AllStatements(p)) /\ Listed(p.statements[f]) = Statements(p, f)
         /\ \A i, j \in DOMAIN p.statements[f] : p.statements[f][i].at = p.statements[f][j].at => i = j
<1> DEFINE s == p.statements[f]
           n == p.functions[f].last - p.functions[f].first + 1
<1>1. DOMAIN s = 1 .. n /\ \A i \in DOMAIN s : s[i].at = p.functions[f].first + i - 1
  BY StatementsOfFunction
<1>2. p.functions[f].first \in Nat /\ n \in Nat
  BY FunctionsAreBlocks DEF IsCollected, FunctionIs
<1>3. s = [i \in DOMAIN s |-> s[i]]
  BY DEF IsCollected, StatementContexts
<1>4. Listed(s) = Statements(p, f)
  BY DEF Listed, Statements, Range
<1>5. Statements(p, f) \subseteq AllStatements(p)
  BY DEF AllStatements
<1> HIDE DEF s, n
<1>6. \A i \in 1 .. n : s[i] \in AllStatements(p)
  BY <1>1, <1>4, <1>5 DEF Listed
<1>7. s \in Seq(AllStatements(p))
  BY <1>1, <1>2, <1>3, <1>6
<1>8. \A i, j \in DOMAIN s : s[i].at = s[j].at => i = j
  BY <1>1, <1>2
<1> QED
  BY <1>4, <1>7, <1>8 DEF s

LEMMA PathIsExtended ==
  ASSUME NEW p, IsCollected(p), NEW path, NEW call \in Invocations(p), PathIs(p, path, call.symbol)
  PROVE  PathIs(p, Append(path, call), Role(call).callee)
<1> DEFINE longer == Append(path, call)
           n == Len(path)
<1>1. path \in Seq(Invocations(p))
  BY DEF PathIs
<1>2. /\ longer \in Seq(Invocations(p)) /\ longer # <<>> /\ Len(longer) = n + 1 /\ n \in Nat
      /\ \A i \in 1 .. n : longer[i] = path[i]
      /\ longer[n + 1] = call /\ (path = <<>> <=> n = 0)
  BY <1>1, AppendProperties, LenProperties, EmptySeq
<1> HIDE DEF longer, n
<1>3. Role(call).callee # Owner(p)
  <2>1. Owner(p) \in Nat /\ call.symbol \in 1 .. Owner(p) /\ Role(call).callee < call.symbol /\ Role(call).callee \in Nat
    BY InvocationsAreCalls, FunctionsAreBlocks DEF IsCollected, Functions
  <2> QED
    BY <2>1
<1>4. longer[1].symbol = Owner(p)
  <2>1. CASE path = <<>>
    BY <1>2, <2>1 DEF PathIs
  <2>2. CASE path # <<>>
    <3>1. 1 \in 1 .. n
      BY <1>2, <2>2
    <3> QED
      BY <1>2, <2>2, <3>1 DEF PathIs
  <2> QED
    BY <2>1, <2>2
<1>5. ASSUME NEW i \in 1 .. n PROVE longer[i + 1].symbol = Role(longer[i]).callee
  <2>1. CASE i = n
    <3>1. path # <<>>
      BY <1>2, <1>5
    <3>2. Role(path[n]).callee = call.symbol
      BY <3>1 DEF PathIs, n
    <3> QED
      BY <1>2, <1>5, <2>1, <3>2
  <2>2. CASE i # n
    <3>1. i \in 1 .. n - 1 /\ i + 1 \in 1 .. n
      BY <1>2, <1>5, <2>2
    <3>2. path[i + 1].symbol = Role(path[i]).callee
      BY <3>1 DEF PathIs, n
    <3> QED
      BY <1>2, <1>5, <3>1, <3>2
  <2> QED
    BY <2>1, <2>2
<1>6. 1 .. Len(longer) - 1 = 1 .. n
  BY <1>2
<1> QED
  BY <1>2, <1>3, <1>4, <1>5, <1>6 DEF PathIs, longer

ExploredFrom(p, g, n) ==
  IF n = 0 THEN [paths |-> [f \in {Owner(p)} |-> <<>>], queue |-> p.statements[Owner(p)]]
  ELSE LET paths == g[n - 1].paths
           queue == g[n - 1].queue
           call == queue[n]
       IN  IF n <= Len(queue) /\ Found(paths, call)
           THEN [paths |-> [f \in DOMAIN paths \cup {Role(call).callee} |->
                              IF f \in DOMAIN paths THEN paths[f] ELSE Append(paths[call.symbol], call)],
                 queue |-> queue \o p.statements[Role(call).callee]]
           ELSE g[n - 1]
Exploration(p) == CHOOSE g : g = [n \in 0 .. Len(p.text) |-> ExploredFrom(p, g, n)]

LEMMA ExplorationUnfolds ==
  ASSUME NEW p, Len(p.text) \in Nat
  PROVE  \A n \in 0 .. Len(p.text) : Exploration(p)[n] = ExploredFrom(p, Exploration(p), n)
<1> DEFINE N == Len(p.text)
           Unfolded(g, n) == g = [k \in 0 .. n |-> ExploredFrom(p, g, k)]
           G == {n \in Nat : \E g : Unfolded(g, n)}
<1>1. N \in Nat
  OBVIOUS
<1>2. Exploration(p) = CHOOSE g : g = [k \in 0 .. N |-> ExploredFrom(p, g, k)]
  BY DEF Exploration
<1> HIDE DEF N
<1>4. ASSUME NEW k \in 0 .. N, NEW f, NEW g, k # 0 => f[k - 1] = g[k - 1] PROVE ExploredFrom(p, f, k) = ExploredFrom(p, g, k)
  <2>1. CASE k = 0
    BY <2>1, Zenon DEF ExploredFrom
  <2>2. CASE k # 0
    <3>1. f[k - 1] = g[k - 1]
      BY <1>4, <2>2
    <3> QED
      BY ONLY <2>2, <3>1, Zenon DEF ExploredFrom
  <2> QED
    BY <2>1, <2>2
<1>5. 0 \in G
  <2> DEFINE g == [k \in 0 .. 0 |-> ExploredFrom(p, <<>>, k)]
  <2>1. \A k \in 0 .. 0 : k \in 0 .. N /\ k = 0
    BY <1>1
  <2>2. \A k \in 0 .. 0 : ExploredFrom(p, g, k) = ExploredFrom(p, <<>>, k)
    <3> HIDE DEF g
    <3> QED
      BY ONLY <2>1, <1>4
  <2>3. Unfolded(g, 0)
    BY <2>2
  <2>4. \E f : Unfolded(f, 0)
    BY ONLY <2>3
  <2> QED
    BY <2>4
<1>6. ASSUME NEW n \in 0 .. N - 1, n \in G PROVE n + 1 \in G
  <2>1. PICK g : Unfolded(g, n)
    BY <1>6
  <2> DEFINE h == [k \in 0 .. n + 1 |-> ExploredFrom(p, g, k)]
  <2>2. \A k \in 0 .. n : g[k] = ExploredFrom(p, g, k)
    BY <2>1
  <2>3. h = [k \in 0 .. n + 1 |-> h[k]] /\ \A k \in 0 .. n + 1 : h[k] = ExploredFrom(p, g, k)
    OBVIOUS
  <2> HIDE DEF h
  <2>4. \A k \in 0 .. n : g[k] = h[k]
    <3>1. \A k \in 0 .. n : k \in 0 .. n + 1
      BY <1>1
    <3> QED
      BY <2>2, <2>3, <3>1
  <2>5. ASSUME NEW k \in 0 .. n + 1 PROVE h[k] = ExploredFrom(p, h, k)
    <3>1. k \in 0 .. N /\ (k # 0 => k - 1 \in 0 .. n)
      BY <1>1
    <3>2. k # 0 => g[k - 1] = h[k - 1]
      BY ONLY <2>4, <3>1
    <3>3. ExploredFrom(p, g, k) = ExploredFrom(p, h, k)
      BY ONLY <1>4, <3>1, <3>2
    <3> QED
      BY <2>3, <3>3
  <2>6. Unfolded(h, n + 1)
    BY <2>3, <2>5
  <2>7. (\E f : Unfolded(f, n + 1)) /\ n + 1 \in Nat
    BY ONLY <2>6, <1>1
  <2> QED
    BY ONLY <2>7
<1>7. N \in G
  <2> HIDE DEF G
  <2>1. 0 .. N \subseteq G
    BY ONLY <1>1, <1>5, <1>6, InductionUpTo
  <2> QED
    BY <1>1, <2>1
<1>8. \E g : g = [k \in 0 .. N |-> ExploredFrom(p, g, k)]
  BY <1>7
<1> DEFINE c == Exploration(p)
<1>9. c = [k \in 0 .. N |-> ExploredFrom(p, c, k)]
  BY <1>2, <1>8
<1> HIDE DEF c
<1>10. \A k \in 0 .. N : c[k] = ExploredFrom(p, c, k)
  BY <1>9
<1> QED
  BY <1>10 DEF c, N

LEMMA ExploredAtFirst ==
  ASSUME NEW p, IsCollected(p)
  PROVE  Explored(p, 0, [f \in {Owner(p)} |-> <<>>], p.statements[Owner(p)])
<1> DEFINE paths == [f \in {Owner(p)} |-> <<>>]
           queue == p.statements[Owner(p)]
<1>1. Owner(p) \in Functions(p)
  BY FunctionsAreBlocks DEF IsCollected
<1>2. DOMAIN paths = {Owner(p)} /\ paths[Owner(p)] = <<>>
  OBVIOUS
<1>3. PathIs(p, <<>>, Owner(p))
  <2>1. <<>> \in Seq(Invocations(p)) /\ Len(<<>>) = 0
    BY EmptySeq
  <2> QED
    BY <2>1 DEF PathIs
<1>4. /\ queue \in Seq(AllStatements(p)) /\ Listed(queue) = Statements(p, Owner(p))
      /\ \A i, j \in DOMAIN queue : queue[i].at = queue[j].at => i = j
  BY <1>1, StatementsAreListed
<1>5. \A i \in DOMAIN queue : ~(i <= 0)
  <2>1. DOMAIN queue = 1 .. Len(queue) /\ Len(queue) \in Nat
    BY <1>4, LenProperties
  <2> QED
    BY <2>1
<1>6. UNION {Statements(p, f) : f \in DOMAIN paths} = Statements(p, Owner(p))
  BY <1>2
<1> HIDE DEF paths, queue
<1>7. Explored(p, 0, paths, queue)
  BY <1>1, <1>2, <1>3, <1>4, <1>5, <1>6 DEF Explored
<1> QED
  BY <1>7 DEF paths, queue

LEMMA ExploredNext ==
  ASSUME NEW p, IsCollected(p), NEW n \in Nat, NEW paths, NEW queue, Explored(p, n, paths, queue)
  PROVE  LET call == queue[n + 1]
             h == Role(call).callee
         IN  IF n + 1 <= Len(queue) /\ Found(paths, call)
             THEN Explored(p, n + 1, [f \in DOMAIN paths \cup {h} |-> IF f \in DOMAIN paths THEN paths[f] ELSE Append(paths[call.symbol], call)],
                           queue \o p.statements[h])
             ELSE Explored(p, n + 1, paths, queue)
<1> DEFINE call == queue[n + 1]
           h == Role(call).callee
           more == [f \in DOMAIN paths \cup {h} |-> IF f \in DOMAIN paths THEN paths[f] ELSE Append(paths[call.symbol], call)]
           longer == queue \o p.statements[h]
<1>1. /\ queue \in Seq(AllStatements(p)) /\ DOMAIN queue = 1 .. Len(queue) /\ Len(queue) \in Nat
      /\ Listed(queue) = UNION {Statements(p, f) : f \in DOMAIN paths}
  BY LenProperties DEF Explored
<1>2. CASE ~(n + 1 <= Len(queue) /\ Found(paths, call))
  <2>1. ASSUME NEW i \in DOMAIN queue, i <= n + 1, Role(queue[i]).role = "invoke" PROVE Role(queue[i]).callee \in DOMAIN paths
    <3>1. CASE i = n + 1
      BY <1>1, <1>2, <2>1, <3>1 DEF Found
    <3>2. CASE i # n + 1
      <4>1. i <= n
        BY <1>1, <2>1, <3>2
      <4> QED
        BY <2>1, <4>1 DEF Explored
    <3> QED
      BY <3>1, <3>2
  <2>2. Explored(p, n + 1, paths, queue)
    BY <2>1 DEF Explored
  <2> QED
    BY <1>2, <2>2
<1>3. CASE n + 1 <= Len(queue) /\ Found(paths, call)
  <2>1. n + 1 \in DOMAIN queue /\ h \notin DOMAIN paths /\ Role(call).role = "invoke"
    BY <1>1, <1>3 DEF Found
  <2>2. PICK g \in DOMAIN paths : call \in Statements(p, g)
    BY <1>1, <2>1 DEF Listed
  <2>3. g \in Functions(p) /\ DOMAIN paths \subseteq Functions(p) /\ Owner(p) \in DOMAIN paths
    BY DEF Explored
  <2>4. call \in In(p, g, "invoke") /\ call \in Invocations(p)
    BY <2>1, <2>2, <2>3 DEF In, Invocations
  <2>5. call.symbol = g /\ h \in Functions(p)
    BY <2>3, <2>4, CalleesAreBefore
  <2>6. DOMAIN more = DOMAIN paths \cup {h} /\ more[h] = Append(paths[g], call) /\ \A f \in DOMAIN paths : more[f] = paths[f]
    BY <2>1, <2>5
  <2> HIDE DEF more
  <2>7. ASSUME NEW f \in DOMAIN more PROVE PathIs(p, more[f], f)
    <3>1. CASE f \in DOMAIN paths
      BY <2>6, <3>1 DEF Explored
    <3>2. CASE f = h
      <4>1. PathIs(p, paths[g], call.symbol)
        BY <2>5 DEF Explored
      <4>2. PathIs(p, Append(paths[g], call), h)
        BY <2>4, <4>1, PathIsExtended
      <4> QED
        BY <2>6, <3>2, <4>2
    <3> QED
      BY <2>6, <2>7, <3>1, <3>2
  <2> DEFINE s == p.statements[h]
  <2>8. /\ s \in Seq(AllStatements(p)) /\ Listed(s) = Statements(p, h) /\ DOMAIN s = 1 .. Len(s) /\ Len(s) \in Nat
        /\ \A i, j \in DOMAIN s : s[i].at = s[j].at => i = j
    <3>1. /\ s \in Seq(AllStatements(p)) /\ Listed(s) = Statements(p, h)
          /\ \A i, j \in DOMAIN s : s[i].at = s[j].at => i = j
      BY <2>5, StatementsAreListed
    <3> QED
      BY <3>1, LenProperties
  <2>9. /\ longer \in Seq(AllStatements(p)) /\ Len(longer) = Len(queue) + Len(s) /\ DOMAIN longer = 1 .. Len(longer)
        /\ \A i \in 1 .. Len(queue) + Len(s) : longer[i] = IF i <= Len(queue) THEN queue[i] ELSE s[i - Len(queue)]
    <3>1. /\ longer \in Seq(AllStatements(p)) /\ Len(longer) = Len(queue) + Len(s)
          /\ \A i \in 1 .. Len(queue) + Len(s) : longer[i] = IF i <= Len(queue) THEN queue[i] ELSE s[i - Len(queue)]
      BY <1>1, <2>8, ConcatProperties
    <3> QED
      BY <3>1, LenProperties
  <2> HIDE DEF longer, s
  <2>10. \A i \in DOMAIN longer : \/ i \in DOMAIN queue /\ longer[i] = queue[i]
                                  \/ i \notin DOMAIN queue /\ i - Len(queue) \in DOMAIN s /\ longer[i] = s[i - Len(queue)]
    BY <1>1, <2>8, <2>9
  <2>11. Listed(longer) = UNION {Statements(p, f) : f \in DOMAIN more}
    <3>1. Listed(longer) \subseteq Listed(queue) \cup Listed(s)
      BY <2>10 DEF Listed
    <3>2. ASSUME NEW i \in DOMAIN queue PROVE queue[i] \in Listed(longer)
      <4>1. i \in 1 .. Len(queue) + Len(s) /\ i <= Len(queue)
        BY <1>1, <2>8
      <4> QED
        BY <2>9, <4>1 DEF Listed
    <3>3. ASSUME NEW i \in DOMAIN s PROVE s[i] \in Listed(longer)
      <4>1. i + Len(queue) \in 1 .. Len(queue) + Len(s) /\ ~(i + Len(queue) <= Len(queue)) /\ i + Len(queue) - Len(queue) = i
        BY <1>1, <2>8
      <4> QED
        BY <2>9, <4>1 DEF Listed
    <3>4. Listed(longer) = Listed(queue) \cup Listed(s)
      BY <3>1, <3>2, <3>3 DEF Listed
    <3>5. UNION {Statements(p, f) : f \in DOMAIN more} = (UNION {Statements(p, f) : f \in DOMAIN paths}) \cup Statements(p, h)
      <4>1. \A x : x \in UNION {Statements(p, f) : f \in DOMAIN more} <=> \E f \in DOMAIN more : x \in Statements(p, f)
        OBVIOUS
      <4>2. \A x : x \in UNION {Statements(p, f) : f \in DOMAIN paths} <=> \E f \in DOMAIN paths : x \in Statements(p, f)
        OBVIOUS
      <4>3. \A x : (\E f \in DOMAIN more : x \in Statements(p, f)) <=> ((\E f \in DOMAIN paths : x \in Statements(p, f)) \/ x \in Statements(p, h))
        <5>1. DOMAIN more = DOMAIN paths \cup {h}
          BY <2>6
        <5> QED
          BY ONLY <5>1, Zenon
      <4> QED
        BY ONLY <4>1, <4>2, <4>3
    <3>6. Listed(queue) = UNION {Statements(p, f) : f \in DOMAIN paths} /\ Listed(s) = Statements(p, h)
      BY <1>1, <2>8
    <3> QED
      BY ONLY <3>4, <3>5, <3>6
  <2>12. \A i \in DOMAIN queue : \A j \in DOMAIN s : queue[i].at # s[j].at
    <3>1. SUFFICES ASSUME NEW i \in DOMAIN queue, NEW j \in DOMAIN s, queue[i].at = s[j].at PROVE FALSE
      OBVIOUS
    <3>2. PICK f \in DOMAIN paths : queue[i] \in Statements(p, f)
      BY <1>1 DEF Listed
    <3>3. s[j] \in Statements(p, h) /\ f \in Functions(p)
      BY <2>3, <2>8 DEF Listed
    <3>4. queue[i].at \in Places(p.functions[f]) /\ s[j].at \in Places(p.functions[h])
      BY <2>5, <3>2, <3>3, StatementsOfFunction
    <3>5. f = h
      BY <2>5, <3>1, <3>3, <3>4, FunctionsAreApart DEF IsCollected
    <3> QED
      BY <2>1, <3>5
  <2>13. ASSUME NEW i \in DOMAIN longer, NEW j \in DOMAIN longer, longer[i].at = longer[j].at PROVE i = j
    <3>1. CASE i \in DOMAIN queue /\ j \in DOMAIN queue
      <4>1. queue[i].at = queue[j].at
        BY <2>10, <2>13, <3>1
      <4> QED
        BY <3>1, <4>1 DEF Explored
    <3>2. CASE i \notin DOMAIN queue /\ j \notin DOMAIN queue
      <4>1. i - Len(queue) = j - Len(queue)
        BY <2>8, <2>10, <2>13, <3>2
      <4> QED
        BY <1>1, <2>9, <4>1
    <3>3. CASE i \in DOMAIN queue /\ j \notin DOMAIN queue
      <4>1. longer[i] = queue[i] /\ j - Len(queue) \in DOMAIN s /\ longer[j] = s[j - Len(queue)]
        BY <2>10, <2>13, <3>3
      <4> QED
        BY <2>12, <2>13, <3>3, <4>1
    <3>4. CASE i \notin DOMAIN queue /\ j \in DOMAIN queue
      <4>1. longer[j] = queue[j] /\ i - Len(queue) \in DOMAIN s /\ longer[i] = s[i - Len(queue)]
        BY <2>10, <2>13, <3>4
      <4> QED
        BY <2>12, <2>13, <3>4, <4>1
    <3> QED
      BY <3>1, <3>2, <3>3, <3>4
  <2>14. ASSUME NEW i \in DOMAIN longer, i <= n + 1, Role(longer[i]).role = "invoke" PROVE Role(longer[i]).callee \in DOMAIN more
    <3>1. i \in DOMAIN queue /\ longer[i] = queue[i]
      BY <1>1, <1>3, <2>9, <2>10, <2>14
    <3>2. CASE i = n + 1
      BY <2>6, <3>1, <3>2
    <3>3. CASE i # n + 1
      <4>1. i <= n
        BY <1>1, <2>14, <3>1, <3>3
      <4>2. Role(queue[i]).callee \in DOMAIN paths
        BY <2>14, <3>1, <4>1 DEF Explored
      <4> QED
        BY <2>6, <3>1, <4>2
    <3> QED
      BY <3>2, <3>3
  <2>15. DOMAIN more \subseteq Functions(p) /\ Owner(p) \in DOMAIN more
    BY <2>3, <2>5, <2>6
  <2>16. Explored(p, n + 1, more, longer)
    BY <2>7, <2>9, <2>11, <2>13, <2>14, <2>15 DEF Explored
  <2> QED
    BY <1>3, <2>16 DEF more, longer, s
<1> QED
  BY <1>2, <1>3

(* There are no more statements in the queue than in the text.              *)
LEMMA QueueIsShort ==
  ASSUME NEW p, IsCollected(p), NEW n, NEW paths, NEW queue, Explored(p, n, paths, queue)
  PROVE  Len(queue) <= Len(p.text)
<1> DEFINE N == Len(p.text)
           q == Len(queue)
<1>1. TextValid(p.text)
  BY FunctionsAreBlocks DEF IsCollected
<1>2. N \in Nat /\ DOMAIN p.text = 1 .. N
  BY <1>1 DEF TextValid
<1>3. q \in Nat /\ DOMAIN queue = 1 .. q
  BY LenProperties DEF Explored
<1>4. ASSUME NEW i \in 1 .. q PROVE queue[i].at \in 1 .. N
  <2>1. PICK f \in DOMAIN paths : queue[i] \in Statements(p, f)
    BY <1>3 DEF Explored, Listed
  <2>2. f \in Functions(p)
    BY DEF Explored
  <2> QED
    BY <1>2, <2>1, <2>2, StatementsOfFunction
<1>5. SUFFICES ASSUME N < q PROVE FALSE
  BY <1>2, <1>3
<1> DEFINE place == [i \in 1 .. q |-> queue[i].at]
<1>6. place \in [1 .. q -> 1 .. N] /\ \A i \in 1 .. q : place[i] = queue[i].at
  BY <1>4
<1>7. IsFiniteSet(1 .. q) /\ IsFiniteSet(1 .. N) /\ Cardinality(1 .. q) = q /\ Cardinality(1 .. N) = N
  <2>1. 1 \in Int /\ q \in Int /\ N \in Int /\ (q = 0 \/ q >= 1) /\ (N = 0 \/ N >= 1)
    BY <1>2, <1>3
  <2> HIDE DEF q, N
  <2>2. IsFiniteSet(1 .. q) /\ Cardinality(1 .. q) = IF 1 > q THEN 0 ELSE q - 1 + 1
    BY ONLY <2>1, FS_Interval
  <2>3. IsFiniteSet(1 .. N) /\ Cardinality(1 .. N) = IF 1 > N THEN 0 ELSE N - 1 + 1
    BY ONLY <2>1, FS_Interval
  <2> QED
    BY <2>1, <2>2, <2>3
<1>8. Cardinality(1 .. N) < Cardinality(1 .. q)
  BY <1>5, <1>7
<1> HIDE DEF place, N, q
<1>9. \E x, y \in 1 .. q : x # y /\ place[x] = place[y]
  <2> DEFINE S == 1 .. q
             T == 1 .. N
  <2>1. place \in [S -> T] /\ IsFiniteSet(S) /\ IsFiniteSet(T) /\ Cardinality(T) < Cardinality(S)
    BY <1>6, <1>7, <1>8
  <2> HIDE DEF S, T
  <2>2. \E x, y \in S : x # y /\ place[x] = place[y]
    BY ONLY <2>1, FS_PigeonHole, Zenon
  <2> QED
    BY <2>2 DEF S
<1> QED
  BY <1>3, <1>6, <1>9 DEF Explored

(* One step of the search.                                                  *)
Extended(paths, call) ==
  [f \in DOMAIN paths \cup {Role(call).callee} |-> IF f \in DOMAIN paths THEN paths[f] ELSE Append(paths[call.symbol], call)]

Grown(p, paths, queue, call) ==
  [paths |-> Extended(paths, call), queue |-> queue \o p.statements[Role(call).callee]]

LEMMA ExploredFromSays ==
  ASSUME NEW p, NEW g, NEW n \in Nat, NEW paths, paths = g[n].paths, NEW queue, queue = g[n].queue, NEW call, call = queue[n + 1]
  PROVE  /\ n + 1 <= Len(queue) /\ Found(paths, call) =>
              ExploredFrom(p, g, n + 1) = Grown(p, paths, queue, call)
         /\ ~(n + 1 <= Len(queue) /\ Found(paths, call)) => ExploredFrom(p, g, n + 1) = g[n]
<1>1. n + 1 # 0 /\ n + 1 - 1 = n
  OBVIOUS
<1>2. ASSUME NEW m, m = n + 1, m # 0, m - 1 = n
      PROVE  /\ m <= Len(queue) /\ Found(paths, call) =>
                  ExploredFrom(p, g, m) = Grown(p, paths, queue, call)
             /\ ~(m <= Len(queue) /\ Found(paths, call)) => ExploredFrom(p, g, m) = g[n]
  <2>1. paths = g[m - 1].paths /\ queue = g[m - 1].queue /\ call = queue[m] /\ g[n] = g[m - 1]
    BY <1>2
  <2> QED
    BY ONLY <1>2, <2>1, Zenon DEF ExploredFrom, Extended, Grown
<1> QED
  BY <1>1, <1>2

LEMMA CallPathsAreCalls ==
  ASSUME NEW p, IsCollected(p)
  PROVE  LET paths == CallPaths(p)
         IN  /\ DOMAIN paths \subseteq Functions(p) /\ Owner(p) \in DOMAIN paths
             /\ \A f \in DOMAIN paths : /\ PathIs(p, paths[f], f)
                                        /\ \A c \in In(p, f, "invoke") : Role(c).callee \in DOMAIN paths
<1> DEFINE N == Len(p.text)
           e == Exploration(p)
           paths == CallPaths(p)
           G == {n \in Nat : n <= N => Explored(p, n, e[n].paths, e[n].queue)}
<1>1. TextValid(p.text)
  BY FunctionsAreBlocks DEF IsCollected
<1>2. N \in Nat
  BY <1>1 DEF TextValid
<1>3. paths = e[N].paths
  BY DEF CallPaths, Exploration, ExploredFrom
<1>4. \A n \in 0 .. N : e[n] = ExploredFrom(p, e, n)
  BY <1>2, ExplorationUnfolds
<1> HIDE DEF e, N, paths
<1>5. 0 \in G
  <2>1. e[0] = [paths |-> [f \in {Owner(p)} |-> <<>>], queue |-> p.statements[Owner(p)]]
    <3>1. 0 \in 0 .. N
      BY <1>2
    <3>2. e[0] = ExploredFrom(p, e, 0)
      BY <1>4, <3>1
    <3> QED
      BY <3>2, Zenon DEF ExploredFrom
  <2>2. Explored(p, 0, e[0].paths, e[0].queue)
    BY <2>1, ExploredAtFirst
  <2> QED
    BY <2>2
<1>6. ASSUME NEW n \in 0 .. N - 1, n \in G PROVE n + 1 \in G
  <2>1. n \in Nat /\ n + 1 \in 0 .. N /\ n + 1 # 0 /\ n + 1 - 1 = n /\ Explored(p, n, e[n].paths, e[n].queue)
    BY <1>2, <1>6
  <2>2. e[n + 1] = ExploredFrom(p, e, n + 1)
    BY <1>4, <2>1
  <2> DEFINE ps == e[n].paths
             queue == e[n].queue
             call == queue[n + 1]
             h == Role(call).callee
             more == Extended(ps, call)
             longer == queue \o p.statements[h]
  <2>3. e[n + 1] = IF n + 1 <= Len(queue) /\ Found(ps, call) THEN [paths |-> more, queue |-> longer] ELSE e[n]
    <3>1. ps = e[n].paths /\ queue = e[n].queue /\ call = queue[n + 1] /\ n \in Nat
      BY <2>1
    <3> HIDE DEF ps, queue, call
    <3>2. /\ n + 1 <= Len(queue) /\ Found(ps, call) => ExploredFrom(p, e, n + 1) = Grown(p, ps, queue, call)
          /\ ~(n + 1 <= Len(queue) /\ Found(ps, call)) => ExploredFrom(p, e, n + 1) = e[n]
      BY ONLY <3>1, ExploredFromSays
    <3>3. Grown(p, ps, queue, call) = [paths |-> more, queue |-> longer]
      BY DEF Grown
    <3> HIDE DEF more, longer
    <3> QED
      BY <2>2, <3>2, <3>3
  <2>4. IF n + 1 <= Len(queue) /\ Found(ps, call) THEN Explored(p, n + 1, more, longer) ELSE Explored(p, n + 1, ps, queue)
    BY <2>1, ExploredNext DEF Extended
  <2> HIDE DEF more, longer
  <2>5. Explored(p, n + 1, e[n + 1].paths, e[n + 1].queue)
    BY <2>3, <2>4
  <2> QED
    BY <2>1, <2>5
<1>7. Explored(p, N, paths, e[N].queue)
  <2> HIDE DEF G
  <2>1. 0 .. N \subseteq G
    BY ONLY <1>2, <1>5, <1>6, InductionUpTo
  <2> QED
    BY <1>2, <1>3, <2>1 DEF G
<1> DEFINE queue == e[N].queue
<1>8. Len(queue) <= N /\ DOMAIN queue = 1 .. Len(queue) /\ Len(queue) \in Nat
  <2>1. Len(queue) <= N
    BY <1>7, QueueIsShort DEF N
  <2> QED
    BY <1>7, <2>1, LenProperties DEF Explored
<1> HIDE DEF queue
<1>9. ASSUME NEW f \in DOMAIN paths, NEW c \in In(p, f, "invoke") PROVE Role(c).callee \in DOMAIN paths
  <2>1. c \in Statements(p, f) /\ Role(c).role = "invoke"
    BY DEF In
  <2>2. PICK i \in DOMAIN queue : queue[i] = c
    BY <1>7, <2>1 DEF Explored, Listed, queue
  <2>3. i <= N
    BY <1>2, <1>8
  <2> QED
    BY <1>7, <2>1, <2>2, <2>3 DEF Explored, queue
<1>10. /\ DOMAIN paths \subseteq Functions(p) /\ Owner(p) \in DOMAIN paths
       /\ \A f \in DOMAIN paths : PathIs(p, paths[f], f)
  BY <1>7 DEF Explored
<1> QED
  BY <1>9, <1>10 DEF paths

-----------------------------------------------------------------------------
(* A function that always executes what fails raises, and so does one that  *)
(* always calls a function that raises.                                     *)
MustRaise(p, request, f) == \A d \in SUBSET DOMAIN p.text : \A o \in OutcomesOf(p, request, f)[d] : o.exit = "raise"
OutcomesAt(p, request, c, d) == One(WorldOf(p, request, c.symbol), p.text, c.at, RunOf(p, request, c.symbol), d)

LEMMA AlwaysIsBarred ==
  ASSUME NEW p, IsCollected(p), NEW f \in Functions(p), NEW c \in Statements(p, f), Always(p, c), ExceptionPropagates(c)
  PROVE  Barred(p.text, p.functions[f], c.at, {"next", "return"})
<1> DEFINE text == p.text
           b == p.functions[f]
           k == c.at
<1>1. TextValid(text)
  BY FunctionsAreBlocks DEF IsCollected
<1>2. k \in Places(b) /\ k \in DOMAIN text /\ ContextTold(text, k, c) /\ c.symbol = f
  BY StatementsOfFunction
<1>3. /\ c.ancestors = <<>> /\ Told(text, c)
      /\ \A i \in DOMAIN c.regions : c.regions[i].kind = "TRY_BODY"
      /\ \A x \in Statements(p, f) : x.at < k => x.node.kind # "return"
  BY <1>2 DEF Always, ToldOf
<1> HIDE DEF text, b, k
<1>4. DOMAIN c.ancestors = {}
  <2>1. <<>> \in Seq(Nat) /\ Len(<<>>) = 0
    BY EmptySeq
  <2>2. DOMAIN <<>> = 1 .. 0
    BY <2>1, LenProperties
  <2> QED
    BY <1>3, <2>2
<1>5. ASSUME NEW s \in DOMAIN text, NEW j \in DOMAIN text[s].parts, k \in Places(text[s].parts[j])
      PROVE  /\ text[s].kind \in {"with", "loop", "try"}
             /\ text[s].kind = "loop" => j = 2 /\ ~JumpsOut(text, text[s].parts[1], {"break"})
             /\ text[s].kind = "try" =>
                  /\ j = 1 /\ ~MayReturn(text, Final(text[s]))
                  /\ \A h \in Handlers(text[s]) : Terminates(text, text[s].parts[h]) /\ ~MayReturn(text, text[s].parts[h])
  <2>1. text[s].kind \notin Tests
    BY <1>1, <1>2, <1>4, <1>5, ContextOfParts
  <2>2. StatementAt(text, s)
    BY <1>1, PartsAreBlocks
  <2>3. text[s].kind \in {"with", "loop", "try"}
    <3>1. text[s].kind \in StatementKinds /\ Arity(text[s].kind, Len(text[s].parts)) /\ Len(text[s].parts) # 0
      BY <1>5, <2>2 DEF StatementAt
    <3> QED
      BY <2>1, <3>1 DEF StatementKinds, Arity, Tests
  <2>4. ASSUME text[s].kind = "loop" PROVE j = 2 /\ ~JumpsOut(text, text[s].parts[1], {"break"})
    <3>1. DOMAIN text[s].parts = {1, 2}
      BY <1>1, <2>4, ParametersInKinds
    <3>2. ~c.in_loop
      BY <1>3 DEF Told
    <3>3. j # 1
      BY <1>1, <1>2, <1>5, <2>4, <3>2, ContextOfParts
    <3>4. s \in Enclosing(text, k)
      BY <1>1, <1>2, <1>5, EnclosureIsOfParts
    <3>5. s \in Enclosing(text, c.at)
      BY <3>4 DEF k
    <3> QED
      BY <1>3, <2>4, <3>1, <3>3, <3>5 DEF Told
  <2>5. ASSUME text[s].kind = "try"
        PROVE  /\ j = 1 /\ ~MayReturn(text, Final(text[s]))
               /\ \A h \in Handlers(text[s]) : Terminates(text, text[s].parts[h]) /\ ~MayReturn(text, text[s].parts[h])
    <3>1. PICK x \in DOMAIN c.regions : c.regions[x] = Region(text, s, j)
      BY <1>1, <1>2, <1>5, <2>5, ContextOfParts
    <3>2. /\ c.regions[x].kind = "TRY_BODY" /\ ~c.regions[x].handlers_allow_continuation
          /\ ~c.regions[x].handlers_may_return /\ ~c.regions[x].finally_may_return
      BY <1>3 DEF ExceptionPropagates
    <3> QED
      BY <1>1, <2>5, <3>1, <3>2, RegionSays
  <2> QED
    BY <2>3, <2>4, <2>5
<1>6. Sure(text, b, k)
  <2>1. ASSUME NEW s \in DOMAIN text, NEW j \in DOMAIN text[s].parts, k \in Places(text[s].parts[j]) PROVE SureIn(text, s, j)
    BY <1>5, <2>1 DEF SureIn
  <2> QED
    BY <1>2, <2>1 DEF Sure, b, k
<1>7. \A r \in Places(b) : r < k => text[r].kind # "return"
  <2>1. ASSUME NEW r \in Places(b), r < k PROVE text[r].kind # "return"
    <3>1. ContextOf(p, f, r) \in Statements(p, f) /\ ContextOf(p, f, r).at = r
      BY StatementsOfFunction DEF b
    <3>2. ContextOf(p, f, r).node = text[r]
      BY <3>1, StatementsOfFunction DEF text
    <3> QED
      BY <1>3, <2>1, <3>1, <3>2
  <2> QED
    BY <2>1
<1> QED
  BY <1>5, <1>6, <1>7 DEF Barred, text, b, k

LEMMA RaisesThere ==
  ASSUME NEW p, IsCollected(p), NEW request, NEW f \in Functions(p), NEW c \in Statements(p, f), Always(p, c), ExceptionPropagates(c),
         \A d \in SUBSET DOMAIN p.text : \A o \in OutcomesAt(p, request, c, d) : o.exit \notin {"next", "return"}
  PROVE  MustRaise(p, request, f)
<1> DEFINE world == WorldOf(p, request, f)
           run == RunOf(p, request, f)
           base == p.functions[f].first
<1>1. Barred(p.text, p.functions[f], c.at, {"next", "return"})
  BY AlwaysIsBarred
<1>2. Runs(world, p.text, base, run) /\ OutcomesOf(p, request, f) = run[p.functions[f]]
  BY FunctionsRun
<1>3. \A d \in SUBSET DOMAIN p.text : \A o \in OutcomesOf(p, request, f)[d] : o.exit \in Returns
  BY FunctionsRun
<1>4. c.at \in DOMAIN p.text /\ c.symbol = f
  BY StatementsOfFunction
<1>5. \A d \in SUBSET DOMAIN p.text : \A o \in One(world, p.text, c.at, run, d) : o.exit \notin {"next", "return"}
  BY <1>4 DEF OutcomesAt
<1>6. p.functions[f] \in Blocks(p.text) /\ BlockValid(p.text, p.functions[f]) /\ base >= base
  BY FunctionsAreBlocks DEF IsCollected, FunctionIs
<1> HIDE DEF world, run, base
<1>7. \A d \in SUBSET DOMAIN p.text : \A o \in run[p.functions[f]][d] : o.exit \notin {"next", "return"}
  <2>1. {"next", "return"} \in SUBSET {"next", "return"} /\ "next" \in {"next", "return"}
    OBVIOUS
  <2> DEFINE exits == {"next", "return"}
  <2>2. p.functions[f].first >= base
    BY <1>6 DEF base
  <2> HIDE DEF exits
  <2>3. exits \in SUBSET {"next", "return"} /\ "next" \in exits /\ Barred(p.text, p.functions[f], c.at, exits)
        /\ \A d \in SUBSET DOMAIN p.text : \A o \in One(world, p.text, c.at, run, d) : o.exit \notin exits
    BY <1>1, <1>5 DEF exits
  <2>4. \A b \in Blocks(p.text) : BlockValid(p.text, b) /\ b.first >= base /\ Barred(p.text, b, c.at, exits) =>
            \A d \in SUBSET DOMAIN p.text : \A o \in run[b][d] : o.exit \notin exits
    BY ONLY <1>2, <1>4, <2>3, ExitsBarred
  <2>5. \A d \in SUBSET DOMAIN p.text : \A o \in run[p.functions[f]][d] : o.exit \notin exits
    BY ONLY <1>6, <2>2, <2>3, <2>4
  <2> QED
    BY <2>5 DEF exits
<1> QED
  BY <1>2, <1>3, <1>7 DEF MustRaise, Returns

(* What a statement does whose failure is bound to happen, and a call.      *)
LEMMA DetectedOutcomes ==
  ASSUME NEW p, IsCollected(p), NEW request, NEW f \in Functions(p), NEW c \in Statements(p, f), Detects(p, request, c),
         Role(c).role = "verify", NEW d, NEW o \in OutcomesAt(p, request, c, d)
  PROVE  o = Fails(c.at, d)
<1> DEFINE w == WorldOf(p, request, f)
<1>1. /\ c.at \in DOMAIN p.text /\ c.symbol = f /\ c.node = p.text[c.at] /\ RoleValid(p.text[c.at], f)
      /\ c = ContextOf(p, f, c.at)
  BY StatementsOfFunction
<1>2. p.text[c.at].kind = "call"
  BY <1>1 DEF RoleValid, Role
<1>3. DOMAIN w.calls = {x.at : x \in Made(p, f)} /\ w.fails = {x.at : x \in {y \in In(p, f, "verify") : Detects(p, request, y)}}
  BY WorldSays DEF WorldOf
<1> HIDE DEF w
<1>4. c.at \notin DOMAIN w.calls
  <2>1. ASSUME NEW x \in Made(p, f), x.at = c.at PROVE FALSE
    <3>1. x \in Statements(p, f) /\ Role(x).role = "invoke"
      BY DEF Made, In
    <3>2. x = ContextOf(p, f, x.at)
      BY <3>1, StatementsOfFunction
    <3>3. x = c
      BY <1>1, <2>1, <3>2
    <3> QED
      BY <3>1, <3>3
  <2> QED
    BY <1>3, <2>1
<1>5. c.at \in w.fails
  BY <1>3 DEF In
<1> QED
  BY <1>1, <1>2, <1>4, <1>5 DEF OutcomesAt, One, Entered, w

LEMMA CallRaises ==
  ASSUME NEW p, IsCollected(p), NEW request, NEW f \in Functions(p), NEW c \in Made(p, f), MustRaise(p, request, Role(c).callee),
         NEW d \in SUBSET DOMAIN p.text, NEW o \in OutcomesAt(p, request, c, d)
  PROVE  o.exit = "raise"
<1> DEFINE w == WorldOf(p, request, f)
<1>1. c \in Statements(p, f) /\ Role(c).role = "invoke"
  BY DEF Made, In
<1>2. c.symbol = f /\ c.node = p.text[c.at] /\ RoleValid(p.text[c.at], f)
  BY <1>1, StatementsOfFunction
<1>3. p.text[c.at].kind = "call"
  BY <1>1, <1>2 DEF RoleValid, Role
<1>4. c.at \in DOMAIN w.calls /\ w.calls[c.at] = OutcomesOf(p, request, Role(c).callee)
  BY WorldSays DEF WorldOf, OutcomesOf
<1> HIDE DEF w
<1>5. o \in Called(w, c.at, d)
  BY <1>2, <1>3, <1>4 DEF OutcomesAt, One, w
<1>6. \A n \in w.calls[c.at][d] : n.exit = "raise"
  BY <1>4 DEF MustRaise
<1>7. o = Fails(c.at, d) \/ o \in w.calls[c.at][d]
  BY <1>5, <1>6 DEF Called
<1> QED
  BY <1>6, <1>7, FailsFields

(* What a statement dominates is kept away by it if it is not passed.       *)
LEMMA NeverPassedGuards ==
  ASSUME NEW p, IsCollected(p), NEW request, NEW f \in Functions(p), NEW c \in Statements(p, f), NEW t \in Statements(p, f),
         ContextDominates(c, t), ToldOf(p, c), p.text[c.at].kind = "call",
         \A d \in SUBSET DOMAIN p.text : \A o \in OutcomesAt(p, request, c, d) : o.exit # "next"
  PROVE  ~Takes(p, request, t.at)
<1> DEFINE text == p.text
           i == c.at
           u == t.at
           base == p.functions[f].first
           world == WorldOf(p, request, f)
           run == RunOf(p, request, f)
<1>1. /\ i \in Places(p.functions[f]) /\ i \in DOMAIN text /\ ContextTold(text, i, c) /\ c.symbol = f
      /\ u \in Places(p.functions[f]) /\ u \in DOMAIN text /\ ContextTold(text, u, t)
  BY StatementsOfFunction
<1>2. TextValid(text) /\ FunctionIs(p, f)
  BY FunctionsAreBlocks DEF IsCollected
<1>3. base \in Nat /\ i >= base /\ u >= base /\ i \in Nat /\ u \in Nat
  BY <1>1, <1>2 DEF FunctionIs, Places
<1>4. Runs(world, text, base, run)
  BY FunctionsRun
<1>5. Precedes(text, i, u)
  BY <1>1, <1>2, DominatesIsPrecedes DEF ToldOf
<1>6. Places(Span(text, i)) = {i}
  BY <1>1, <1>2, PlainSpan
<1>7. i < u
  BY <1>5 DEF Precedes
<1>8. Without(text, base, Span(text, i), u) = Reach(base, Span(text, i))
  BY <1>3, <1>6, <1>7 DEF Without, Reach
<1>9. \A d \in SUBSET DOMAIN text : \A o \in One(world, text, i, run, d) : o.exit # "next"
  BY <1>1 DEF OutcomesAt
<1> HIDE DEF world, run, base, i, u, text
<1>10. \A d \in SUBSET DOMAIN text : \A o \in One(world, text, i, run, d) : Stays(text, Without(text, base, Span(text, i), u), d, o)
  BY <1>1, <1>3, <1>4, <1>8, StatementRuns
<1> QED
  BY <1>1, <1>5, <1>9, <1>10, GuardedInFunction DEF world, run, base, i, u, text

(* A place is in no part that its context does not say it is in.            *)
LEMMA NotInPart ==
  ASSUME NEW text, TextValid(text), NEW i \in DOMAIN text, text[i].kind \in Tests, NEW j \in DOMAIN text[i].parts,
         NEW c, c.at = i, NEW k \in DOMAIN text, NEW t, ContextTold(text, k, t),
         Disposition(text[i], j) \notin BranchControls(c, t)
  PROVE  k \notin Places(text[i].parts[j])
<1> SUFFICES ASSUME k \in Places(text[i].parts[j]) PROVE FALSE
  OBVIOUS
<1>1. PICK x \in DOMAIN t.ancestors : t.ancestors[x] = BranchOf(text, i, j)
  BY ContextOfParts
<1>2. t.ancestors[x].gate = i /\ t.ancestors[x].disposition = Disposition(text[i], j)
  BY <1>1 DEF BranchOf, Branch
<1> QED
  BY <1>2 DEF BranchControls

(* A test that is decided keeps away what it dominates if it ends what it   *)
(* takes, and what is in its other parts in any case.                       *)
LEMMA DecidedGuards ==
  ASSUME NEW p, IsCollected(p), NEW request, NEW f \in Functions(p), NEW c \in Statements(p, f), NEW t \in Statements(p, f),
         Decided(p, request, c), NEW j, j = Taking(request, c),
         j \in DOMAIN p.text[c.at].parts => Disposition(p.text[c.at], j) \notin BranchControls(c, t) \/ t.at \notin Places(p.text[c.at].parts[j]),
         \/ t.at \in Places(Span(p.text, c.at)) \ {c.at}
         \/ /\ ContextDominates(c, t) /\ ToldOf(p, c)
            /\ j \in DOMAIN p.text[c.at].parts /\ Terminates(p.text, p.text[c.at].parts[j])
  PROVE  ~Takes(p, request, t.at)
<1> DEFINE text == p.text
           i == c.at
           u == t.at
           base == p.functions[f].first
           world == WorldOf(p, request, f)
           run == RunOf(p, request, f)
<1>1. /\ i \in Places(p.functions[f]) /\ i \in DOMAIN text /\ ContextTold(text, i, c) /\ c.symbol = f
      /\ u \in Places(p.functions[f]) /\ u \in DOMAIN text /\ ContextTold(text, u, t)
  BY StatementsOfFunction
<1>2. TextValid(text) /\ FunctionIs(p, f)
  BY FunctionsAreBlocks DEF IsCollected
<1>3. base \in Nat /\ i >= base /\ u >= base /\ i \in Nat /\ u \in Nat
  BY <1>1, <1>2 DEF FunctionIs, Places
<1>4. Runs(world, text, base, run)
  BY FunctionsRun
<1>5. text[i].kind \in {"if", "match"}
  BY TakingIsAPart
<1>6. i \in DOMAIN world.takes /\ world.takes[i] = {j}
  BY WorldSays DEF WorldOf
<1>7. j \in DOMAIN text[i].parts => u \notin Places(text[i].parts[j])
  BY <1>1, <1>2, <1>5, NotInPart DEF Tests
<1>8. u # i /\ (u \in Places(Span(text, i)) \/ (Precedes(text, i, u) /\ j \in DOMAIN text[i].parts /\ Terminates(text, text[i].parts[j])))
  <2>1. CASE t.at \in Places(Span(p.text, c.at)) \ {c.at}
    BY <2>1
  <2>2. CASE /\ ContextDominates(c, t) /\ ToldOf(p, c)
             /\ j \in DOMAIN p.text[c.at].parts /\ Terminates(p.text, p.text[c.at].parts[j])
    <3>1. Precedes(text, i, u)
      BY <1>1, <1>2, <2>2, DominatesIsPrecedes DEF ToldOf
    <3>2. i < u
      BY <3>1 DEF Precedes
    <3> QED
      BY <1>3, <2>2, <3>1, <3>2
  <2> QED
    BY <2>1, <2>2
<1> HIDE DEF world, run, base, i, u, text
<1>9. j \in DOMAIN text[i].parts => Avoids(text, base, text[i].parts[j], u, run[text[i].parts[j]])
  BY <1>1, <1>3, <1>4, <1>7, PartAvoids
<1>10. \A d \in SUBSET DOMAIN text : \A o \in One(world, text, i, run, d) :
         /\ Stays(text, Without(text, base, Span(text, i), u), d, o)
         /\ j \in DOMAIN text[i].parts /\ Terminates(text, text[i].parts[j]) => o.exit # "next"
  BY ONLY <1>1, <1>3, <1>4, <1>5, <1>6, <1>8, <1>9, DecidedAvoids
<1>11. \/ u \in Places(Span(text, i))
       \/ Precedes(text, i, u) /\ \A d \in SUBSET DOMAIN text : \A o \in One(world, text, i, run, d) : o.exit # "next"
  BY ONLY <1>8, <1>10
<1>12. \A d \in SUBSET DOMAIN text : \A o \in One(world, text, i, run, d) : Stays(text, Without(text, base, Span(text, i), u), d, o)
  BY ONLY <1>10
<1> QED
  BY <1>1, <1>11, <1>12, GuardedInFunction DEF world, run, base, i, u, text

-----------------------------------------------------------------------------
(* What is recognized is a statement of a function that has a path.         *)
LEMMA TrustSays ==
  ASSUME NEW p, NEW f, NEW path, NEW t \in RecognizeTrust(p, path, f)
  PROVE  LET c == t.context
         IN  /\ t.concept = "TRUST_GATE" /\ c \in Statements(p, f)
             /\ \/ Role(c).role = "compare" /\ Terminates(p.text, c.node.parts[FailureBranch(Role(c))])
                \/ Role(c).role = "verify"
             /\ Role(c).of = "webhook" => BodyOrigin(path, Role(c)) = "raw"
<1>1. PICK c \in Statements(p, f) : \E k :
        /\ t = Fact("TRUST_GATE", k, c)
        /\ DirectComparison(p, c) \/ (Role(c).role = "verify" /\ Role(c).client /\ ~Swallowed(c))
        /\ Role(c).of = "webhook" => BodyOrigin(path, Role(c)) = "raw"
  BY DEF RecognizeTrust
<1>2. t.context = c /\ t.concept = "TRUST_GATE"
  BY <1>1 DEF Fact
<1> QED
  BY <1>1, <1>2 DEF DirectComparison

(* What the only way to a function passes on is what the function is given. *)
LEMMA RawIsGiven ==
  ASSUME NEW p, IsCollected(p), NEW f \in Functions(p), NEW path, PathIs(p, path, f), OnlyWay(p, path),
         NEW c \in Statements(p, f), Role(c).of = "webhook" => BodyOrigin(path, Role(c)) = "raw"
  PROVE  GivenRaw(p, c)
<1>1. SUFFICES ASSUME Role(c).of = "webhook", Role(c).body = "parameter" PROVE c.symbol \notin Tainted(p)
  BY DEF GivenRaw, BodyOrigin
<1>2. ParameterOrigin(path) = "raw" /\ c.symbol = f
  BY <1>1, StatementsOfFunction DEF BodyOrigin
<1> DEFINE n == Len(path)
           hops == {i \in DOMAIN path : Role(path[i]).passes # "parameter"}
           h == Max(hops)
<1>3. n \in Nat /\ DOMAIN path = 1 .. n /\ \A i \in 1 .. n : path[i] \in Invocations(p)
  BY LenProperties, ElementOfSeq DEF PathIs
<1>4. hops # {} /\ hops \in SUBSET (1 .. n) /\ Role(path[h]).passes = "raw"
  BY <1>2, <1>3 DEF ParameterOrigin
<1> HIDE DEF n
<1>5. h \in hops /\ \A i \in hops : i <= h
  <2> HIDE DEF hops
  <2> QED
    BY <1>3, <1>4, GreatestNatural
<1> HIDE DEF h
<1>6. /\ h \in 1 .. n /\ \A i \in 1 .. n : i > h => Role(path[i]).passes = "parameter"
  <2>1. h \in 1 .. n
    BY <1>4, <1>5
  <2>2. ASSUME NEW i \in 1 .. n, i > h PROVE i \notin hops
    BY <1>5, <2>1, <2>2
  <2> QED
    BY <1>3, <2>1, <2>2
<1> HIDE DEF hops
<1> DEFINE passed == {Role(path[i]).callee : i \in h .. n}
           fs == Functions(p) \ passed
<1>7. Owner(p) \in fs
  <2>1. Owner(p) \in Functions(p) /\ Owner(p) \in Nat
    BY FunctionsAreBlocks DEF IsCollected
  <2>2. ASSUME NEW i \in h .. n PROVE Role(path[i]).callee # Owner(p)
    <3>1. path[i] \in Invocations(p)
      BY <1>3, <1>6
    <3>2. Role(path[i]).callee < path[i].symbol /\ path[i].symbol \in 1 .. Owner(p) /\ Role(path[i]).callee \in Nat
      BY <3>1, InvocationsAreCalls DEF Functions
    <3> QED
      BY <2>1, <3>2
  <2> QED
    BY <2>1, <2>2
<1>8. ASSUME NEW x \in Invocations(p)
      PROVE  \/ Role(x).passes = "raw" \/ (Role(x).passes = "parameter" /\ x.symbol \notin fs)
             \/ Role(x).callee \in fs
  <2>1. SUFFICES ASSUME Role(x).callee \notin fs
                 PROVE  Role(x).passes = "raw" \/ (Role(x).passes = "parameter" /\ x.symbol \notin fs)
    OBVIOUS
  <2>2. Role(x).callee \in Functions(p)
    BY InvocationsAreCalls
  <2>3. PICK i \in h .. n : Role(x).callee = Role(path[i]).callee
    BY <2>1, <2>2
  <2>4. i \in 1 .. n /\ i \in Nat /\ h \in Nat
    BY <1>3, <1>6
  <2>5. x = path[i]
    BY <1>3, <2>3, <2>4 DEF OnlyWay
  <2>6. CASE i = h
    BY <1>4, <2>5, <2>6 DEF h
  <2>7. CASE i # h
    <3>1. i > h /\ i - 1 \in h .. n /\ i - 1 \in 1 .. n - 1 /\ i - 1 + 1 = i
      BY <1>3, <1>6, <2>3, <2>4, <2>7
    <3>2. path[i - 1 + 1].symbol = Role(path[i - 1]).callee
      BY <3>1 DEF PathIs, n
    <3>3. x.symbol \in passed
      BY <2>5, <3>1, <3>2
    <3> QED
      BY <1>6, <2>4, <2>5, <3>1, <3>3
  <2> QED
    BY <2>6, <2>7
<1>9. f \notin fs
  <2>1. path # <<>> /\ n \in h .. n
    <3>1. n # 0 /\ n \in h .. n
      BY <1>3, <1>6
    <3>2. path # <<>>
      <4>1. Len(<<>>) = 0
        BY EmptySeq
      <4> QED
        BY <3>1, <4>1 DEF n
    <3> QED
      BY <3>1, <3>2
  <2>2. Role(path[n]).callee = f
    BY <2>1 DEF PathIs, n
  <2> QED
    BY <2>1, <2>2
<1>10. fs \in SUBSET Functions(p)
  OBVIOUS
<1> HIDE DEF fs
<1> QED
  BY <1>2, <1>7, <1>8, <1>9, <1>10 DEF Tainted

(* A verification in another function makes every call on the way raise.    *)
LEMMA WayRaises ==
  ASSUME NEW p, IsCollected(p), NEW request, NEW f \in Functions(p), NEW path, PathIs(p, path, f), path # <<>>,
         MustRaise(p, request, f),
         \A c \in Callers(path) : Always(p, c) /\ ExceptionPropagates(c),
         \A i \in DOMAIN path : Role(path[i]).how # "detached"
  PROVE  path[1] \in Made(p, Owner(p)) /\ MustRaise(p, request, Role(path[1]).callee)
<1> DEFINE n == Len(path)
           G == {k \in Nat : k < n => MustRaise(p, request, Role(path[n - k]).callee)}
<1>1. n \in Nat /\ n # 0 /\ DOMAIN path = 1 .. n /\ \A i \in 1 .. n : path[i] \in Invocations(p)
  BY LenProperties, ElementOfSeq, EmptySeq DEF PathIs
<1>2. \A i \in 1 .. n : /\ path[i].symbol \in Functions(p) /\ path[i] \in Made(p, path[i].symbol)
                         /\ path[i] \in Statements(p, path[i].symbol)
  BY <1>1, InvocationsAreCalls DEF Made
<1>3. Role(path[n]).callee = f
  BY DEF PathIs
<1>4. \A i \in 1 .. n - 1 : path[i + 1].symbol = Role(path[i]).callee
  BY DEF PathIs
<1> HIDE DEF n
<1>5. 0 \in G
  <2>1. n - 0 = n
    BY <1>1
  <2> QED
    BY <1>3, <2>1
<1>6. ASSUME NEW k \in 0 .. (n - 1) - 1, k \in G PROVE k + 1 \in G
  <2> DEFINE i == n - k
             x == path[i]
  <2>1. i \in 2 .. n /\ i \in 1 .. n /\ i - 1 \in 1 .. n - 1 /\ i - 1 + 1 = i /\ n - (k + 1) = i - 1 /\ k + 1 \in Nat /\ k < n
    BY <1>1, <1>6
  <2>2. MustRaise(p, request, Role(x).callee)
    BY <1>6, <2>1
  <2>3. x \in Callers(path)
    BY <1>1, <2>1 DEF Callers
  <2>4. x.symbol = Role(path[i - 1]).callee /\ x.symbol \in Functions(p) /\ x \in Made(p, x.symbol) /\ x \in Statements(p, x.symbol)
    BY <1>2, <1>4, <2>1
  <2> HIDE DEF x, i
  <2>5. \A d \in SUBSET DOMAIN p.text : \A o \in OutcomesAt(p, request, x, d) : o.exit = "raise"
    BY <2>2, <2>4, CallRaises
  <2>6. \A d \in SUBSET DOMAIN p.text : \A o \in OutcomesAt(p, request, x, d) : o.exit \notin {"next", "return"}
    BY <2>5
  <2>7. MustRaise(p, request, x.symbol)
    BY <2>3, <2>4, <2>6, RaisesThere
  <2> QED
    BY <2>1, <2>4, <2>7
<1>7. 0 .. n - 1 \subseteq G
  <2> HIDE DEF G
  <2>1. n - 1 \in Nat
    BY <1>1
  <2> QED
    BY ONLY <1>5, <1>6, <2>1, InductionUpTo
<1>8. n - 1 \in 0 .. n - 1 /\ n - 1 < n /\ n - (n - 1) = 1 /\ 1 \in 1 .. n
  BY <1>1
<1>9. MustRaise(p, request, Role(path[1]).callee)
  BY <1>7, <1>8
<1> QED
  BY <1>2, <1>8, <1>9 DEF PathIs

(* What a verification that detects a forgery does: it is not passed.       *)
LEMMA DetectionIsNotPassed ==
  ASSUME NEW p, IsCollected(p), NEW request, NEW f \in Functions(p), NEW c \in Statements(p, f), Detects(p, request, c),
         \/ Role(c).role = "compare" /\ Terminates(p.text, c.node.parts[FailureBranch(Role(c))])
         \/ Role(c).role = "verify",
         ~MayReturn(p.text, Block(c.at, End(p.text, c.at)))
  PROVE  \A d \in SUBSET DOMAIN p.text : \A o \in OutcomesAt(p, request, c, d) : o.exit \notin {"next", "return"}
<1>1. CASE Role(c).role = "verify"
  <2>1. ASSUME NEW d \in SUBSET DOMAIN p.text, NEW o \in OutcomesAt(p, request, c, d) PROVE o.exit = "raise"
    <3>1. o = Fails(c.at, d)
      BY <1>1, DetectedOutcomes
    <3> QED
      BY <3>1, FailsFields
  <2> QED
    BY <2>1
<1>2. CASE Role(c).role = "compare" /\ Terminates(p.text, c.node.parts[FailureBranch(Role(c))])
  <2> DEFINE text == p.text
             i == c.at
             base == p.functions[f].first
             world == WorldOf(p, request, f)
             run == RunOf(p, request, f)
             j == FailureBranch(Role(c))
             u == Len(p.text) + 1
  <2>1. /\ i \in Places(p.functions[f]) /\ i \in DOMAIN text /\ c.symbol = f /\ c.node = text[i] /\ RoleValid(text[i], f)
    BY StatementsOfFunction
  <2>2. TextValid(text) /\ FunctionIs(p, f)
    BY FunctionsAreBlocks DEF IsCollected
  <2>3. base \in Nat /\ i >= base /\ i \in Nat
    BY <2>1, <2>2 DEF FunctionIs, Places
  <2>4. Runs(world, text, base, run)
    BY FunctionsRun
  <2>5. text[i].kind = "if"
    BY <1>2, <2>1 DEF RoleValid, Role
  <2>6. j \in DOMAIN text[i].parts
    <3>1. DOMAIN text[i].parts = {1, 2}
      BY <2>1, <2>2, <2>5, ParametersInKinds
    <3> QED
      BY <3>1 DEF FailureBranch
  <2>7. Decided(p, request, c) /\ Taking(request, c) = j
    BY <1>2 DEF Decided, Taking
  <2>8. i \in DOMAIN world.takes /\ world.takes[i] = {j}
    BY <2>7, WorldSays DEF WorldOf
  <2>9. Terminates(text, text[i].parts[j])
    BY <1>2, <2>1
  <2>10. ~MayReturn(text, text[i].parts[j])
    <3>1. ~MayReturn(text, Span(text, i))
      BY DEF Span
    <3> QED
      BY <2>1, <2>2, <2>6, <3>1, MayReturnOfPart
  <2>11. u \in Nat /\ u # i /\ u >= base /\ u \notin Places(text[i].parts[j])
    <3>1. Len(p.text) \in Nat /\ i <= Len(p.text) /\ DOMAIN text = 1 .. Len(p.text)
      BY <2>1, <2>2 DEF TextValid
    <3>2. base <= Len(p.text)
      BY <2>2, <2>3, <3>1
    <3>3. Places(text[i].parts[j]) \subseteq DOMAIN text
      <4>1. Places(text[i].parts[j]) \subseteq Places(Span(text, i))
        BY <2>1, <2>2, <2>6, SpanIsBlock
      <4>2. Places(Span(text, i)) \subseteq 1 .. Len(p.text)
        <5>1. End(text, i) \in Nat /\ End(text, i) <= Len(text)
          BY <2>1, <2>2, EndOfStatement
        <5>2. Places(Span(text, i)) = i .. End(text, i) /\ i >= 1
          BY <2>1, <3>1 DEF Span, Places, Block
        <5> QED
          BY <2>3, <3>1, <5>1, <5>2
      <4> QED
        BY <3>1, <4>1, <4>2
    <3> QED
      BY <2>3, <3>1, <3>2, <3>3
  <2> HIDE DEF world, run, base, i, j, u, text
  <2>12. Avoids(text, base, text[i].parts[j], u, run[text[i].parts[j]])
    BY <2>1, <2>3, <2>4, <2>6, <2>11, PartAvoids
  <2>13. text[i].kind \in {"if", "match"}
    BY <2>5
  <2>14. \A d \in SUBSET DOMAIN text : \A o \in One(world, text, i, run, d) :
           /\ j \in DOMAIN text[i].parts /\ Terminates(text, text[i].parts[j]) => o.exit # "next"
           /\ j \in DOMAIN text[i].parts /\ ~MayReturn(text, text[i].parts[j]) => o.exit # "return"
    BY ONLY <2>1, <2>3, <2>4, <2>8, <2>11, <2>12, <2>13, DecidedAvoids
  <2>15. \A d \in SUBSET DOMAIN text : \A o \in One(world, text, i, run, d) : o.exit \notin {"next", "return"}
    BY ONLY <2>6, <2>9, <2>10, <2>14
  <2> QED
    BY <2>1, <2>15 DEF OutcomesAt, world, run, i, text
<1> QED
  BY <1>1, <1>2

(* An edge from a verification keeps a forged request away.                 *)
LEMMA TrustGuards ==
  ASSUME NEW p, IsCollected(p), NEW a, NEW f \in Functions(p), PathIs(p, a.paths[f], f),
         NEW e, e.from \in RecognizeTrust(p, a.paths[f], f), NEW h \in Functions(p), e.to.context \in Statements(p, h),
         ContextDominates(GuardContext(p, a, e.from, e.to), e.to.context), Claimed(p, a, e)
  PROVE  ~Takes(p, [Undecided EXCEPT !.forged = TRUE], e.to.context.at)
<1> DEFINE request == [Undecided EXCEPT !.forged = TRUE]
           c == e.from.context
           t == e.to.context
           path == a.paths[f]
           guard == GuardContext(p, a, e.from, e.to)
<1>1. /\ e.from.concept = "TRUST_GATE" /\ c \in Statements(p, f)
      /\ \/ Role(c).role = "compare" /\ Terminates(p.text, c.node.parts[FailureBranch(Role(c))])
         \/ Role(c).role = "verify"
      /\ Role(c).of = "webhook" => BodyOrigin(path, Role(c)) = "raw"
  BY TrustSays
<1>2. /\ c.symbol = f /\ t.symbol = h /\ c.at \in DOMAIN p.text /\ c.node = p.text[c.at] /\ RoleValid(p.text[c.at], f)
      /\ TextValid(p.text)
  BY <1>1, StatementsOfFunction, FunctionsAreBlocks DEF IsCollected
<1>3. /\ ToldOf(p, guard) /\ FailsInto(e.from, e.to) \notin BranchControls(c, t)
      /\ guard = c \/ Effective(p, a, e.from)
      /\ GivenRaw(p, c) \/ OnlyWay(p, path)
  BY <1>1, <1>2 DEF Claimed
<1>4. GivenRaw(p, c)
  BY <1>1, <1>3, RawIsGiven
<1>5. request.forged
  BY DEF Undecided
<1>6. Detects(p, request, c)
  BY <1>1, <1>4, <1>5 DEF Detects
<1>7. CASE guard = c
  <2>1. ContextDominates(c, t)
    BY <1>7
  <2>2. f = h
    BY <1>2, <2>1 DEF ContextDominates
  <2> HIDE DEF request, c, t
  <2>3. CASE Role(c).role = "verify"
    <3>1. p.text[c.at].kind = "call"
      BY <1>2, <2>3 DEF RoleValid, Role
    <3>2. \A d \in SUBSET DOMAIN p.text : \A o \in OutcomesAt(p, request, c, d) : o.exit # "next"
      <4>1. ASSUME NEW d \in SUBSET DOMAIN p.text, NEW o \in OutcomesAt(p, request, c, d) PROVE o.exit # "next"
        <5>1. o = Fails(c.at, d)
          BY <1>1, <1>6, <2>3, DetectedOutcomes
        <5> QED
          BY <5>1, FailsFields
      <4> QED
        BY <4>1
    <3>3. t \in Statements(p, f) /\ ToldOf(p, c)
      BY <1>3, <1>7, <2>2 DEF t
    <3>4. ~Takes(p, request, t.at)
      BY <1>1, <2>1, <3>1, <3>2, <3>3, NeverPassedGuards
    <3> QED
      BY <3>4 DEF request, t
  <2>4. CASE Role(c).role = "compare" /\ Terminates(p.text, c.node.parts[FailureBranch(Role(c))])
    <3> DEFINE j == FailureBranch(Role(c))
    <3>1. p.text[c.at].kind = "if"
      BY <1>2, <2>4 DEF RoleValid, Role
    <3>2. j \in DOMAIN p.text[c.at].parts
      <4>1. DOMAIN p.text[c.at].parts = {1, 2}
        BY <1>2, <3>1, ParametersInKinds
      <4> QED
        BY <4>1 DEF FailureBranch
    <3>3. Decided(p, request, c) /\ Taking(request, c) = j
      BY <1>6, <2>4 DEF Decided, Taking
    <3>4. FailsInto(e.from, e.to) = Disposition(p.text[c.at], j)
      BY <2>4, <3>1 DEF FailsInto, Disposition, FailureBranch, c
    <3>5. Terminates(p.text, p.text[c.at].parts[j])
      BY <1>2, <2>4
    <3>6. t \in Statements(p, f) /\ ToldOf(p, c)
      BY <1>3, <1>7, <2>2 DEF t
    <3>7. Disposition(p.text[c.at], j) \notin BranchControls(c, t)
      BY <1>3, <3>4
    <3> HIDE DEF j
    <3>8. ~Takes(p, request, t.at)
      BY <1>1, <2>1, <3>2, <3>3, <3>5, <3>6, <3>7, DecidedGuards
    <3> QED
      BY <3>8 DEF request, t
  <2> QED
    BY <1>1, <2>3, <2>4
<1>8. CASE guard # c
  <2>1. guard = RouteGuardContext(e.from, path) /\ guard # Nowhere /\ f # h /\ h = Owner(p)
    BY <1>2, <1>8 DEF GuardContext
  <2>2. path # <<>>
    BY <2>1 DEF PathIs
  <2>3. guard = path[1] /\ \A x \in {c} \cup Callers(path) : ExceptionPropagates(x)
    BY <2>1, <2>2 DEF RouteGuardContext
  <2>4. /\ \A x \in {c} \cup Callers(path) : Always(p, x)
        /\ \A i \in DOMAIN path : Role(path[i]).how # "detached"
        /\ ~MayReturn(p.text, Block(c.at, End(p.text, c.at)))
    BY <1>2, <1>3, <1>8 DEF Effective
  <2> HIDE DEF request, c, t, path, guard
  <2>5. \A d \in SUBSET DOMAIN p.text : \A o \in OutcomesAt(p, request, c, d) : o.exit \notin {"next", "return"}
    BY <1>1, <1>6, <2>4, DetectionIsNotPassed
  <2>6. Always(p, c) /\ ExceptionPropagates(c)
    BY <2>3, <2>4
  <2>7. MustRaise(p, request, f)
    BY <1>1, <2>5, <2>6, RaisesThere
  <2>8. PathIs(p, path, f)
    BY DEF path
  <2>9. \A x \in Callers(path) : Always(p, x) /\ ExceptionPropagates(x)
    BY <2>3, <2>4
  <2>10. path[1] \in Made(p, Owner(p)) /\ MustRaise(p, request, Role(path[1]).callee)
    BY <2>2, <2>4, <2>7, <2>8, <2>9, WayRaises
  <2> DEFINE x == path[1]
  <2>11. x \in Statements(p, Owner(p)) /\ Role(x).role = "invoke" /\ Owner(p) \in Functions(p)
    BY <2>10, FunctionsAreBlocks DEF Made, In, IsCollected
  <2>12. p.text[x.at].kind = "call"
    <3>1. RoleValid(p.text[x.at], Owner(p)) /\ x.node = p.text[x.at]
      BY <2>11, StatementsOfFunction
    <3> QED
      BY <2>11, <3>1 DEF RoleValid, Role
  <2>13. ContextDominates(x, t) /\ ToldOf(p, x)
    BY <1>3, <2>3 DEF guard, t
  <2>14. t \in Statements(p, Owner(p))
    BY <2>1 DEF t
  <2> HIDE DEF x
  <2>15. \A d \in SUBSET DOMAIN p.text : \A o \in OutcomesAt(p, request, x, d) : o.exit # "next"
    <3>1. ASSUME NEW d \in SUBSET DOMAIN p.text, NEW o \in OutcomesAt(p, request, x, d) PROVE o.exit = "raise"
      <4>1. x \in Made(p, Owner(p)) /\ MustRaise(p, request, Role(x).callee)
        BY <2>10 DEF x
      <4> QED
        BY <2>11, <3>1, <4>1, CallRaises
    <3> QED
      BY <3>1
  <2>16. ~Takes(p, request, t.at)
    BY <2>11, <2>12, <2>13, <2>14, <2>15, NeverPassedGuards
  <2> QED
    BY <2>16 DEF request, t
<1> QED
  BY <1>7, <1>8

(* An edge from the guard of an event's identity keeps an event away that   *)
(* was seen.                                                                *)
LEMMA IdentityGuards ==
  ASSUME NEW p, IsCollected(p), NEW a, NEW f \in Functions(p), NEW mutations,
         NEW e, e.from \in RecognizeEventIdentity(p, f, mutations), NEW h \in Functions(p), e.to.context \in Statements(p, h),
         ContextDominates(GuardContext(p, a, e.from, e.to), e.to.context), Claimed(p, a, e)
  PROVE  e.from.concept = "EVENT_IDENTITY_GUARD" /\ ~Takes(p, [Undecided EXCEPT !.seen = "yes"], e.to.context.at)
<1> DEFINE request == [Undecided EXCEPT !.seen = "yes"]
           c == e.from.context
           t == e.to.context
<1>1. /\ e.from.concept = "EVENT_IDENTITY_GUARD" /\ c \in Statements(p, f) /\ Role(c).role = "lookup"
      /\ Terminates(p.text, c.node.parts[1])
  <2>1. PICK x \in In(p, f, "lookup") : e.from = Fact("EVENT_IDENTITY_GUARD", "LOOKUP_AND_RECORD", x) /\ Terminates(p.text, x.node.parts[1])
    BY DEF RecognizeEventIdentity
  <2>2. c = x /\ e.from.concept = "EVENT_IDENTITY_GUARD"
    BY <2>1 DEF Fact
  <2> QED
    BY <2>1, <2>2 DEF In
<1>2. /\ c.symbol = f /\ t.symbol = h /\ c.at \in DOMAIN p.text /\ c.node = p.text[c.at] /\ RoleValid(p.text[c.at], f)
      /\ TextValid(p.text)
  BY <1>1, StatementsOfFunction, FunctionsAreBlocks DEF IsCollected
<1>3. GuardContext(p, a, e.from, e.to) = c
  BY <1>1 DEF GuardContext
<1>4. /\ ToldOf(p, c) /\ FailsInto(e.from, e.to) \notin BranchControls(c, t) /\ ~Role(c).negated
      /\ ContextDominates(c, t)
  BY <1>1, <1>3 DEF Claimed
<1>5. t \in Statements(p, f)
  BY <1>2, <1>4 DEF ContextDominates
<1>6. p.text[c.at].kind = "if"
  BY <1>1, <1>2 DEF RoleValid, Role
<1>7. 1 \in DOMAIN p.text[c.at].parts
  <2>1. DOMAIN p.text[c.at].parts = {1, 2}
    BY <1>2, <1>6, ParametersInKinds
  <2> QED
    BY <2>1
<1>8. request.seen = "yes" /\ request.event = "any" /\ ~request.forged
  BY DEF Undecided
<1>9. Decided(p, request, c) /\ Taking(request, c) = 1
  <2>1. Decided(p, request, c)
    BY <1>1, <1>8 DEF Decided, Looks
  <2>2. (request.seen = "yes") # Role(c).negated
    BY <1>4, <1>8
  <2> QED
    BY <1>1, <2>1, <2>2 DEF Taking
<1>10. FailsInto(e.from, e.to) = "MATCHED" /\ Disposition(p.text[c.at], 1) = "MATCHED"
  BY <1>1, <1>6 DEF FailsInto, Disposition
<1> HIDE DEF request, c, t
<1>11. Disposition(p.text[c.at], 1) \notin BranchControls(c, t)
  BY <1>4, <1>10
<1>12. Terminates(p.text, p.text[c.at].parts[1])
  BY <1>1, <1>2
<1>13. ~Takes(p, request, t.at)
  BY <1>1, <1>4, <1>5, <1>7, <1>9, <1>11, <1>12, DecidedGuards
<1> QED
  BY <1>1, <1>13 DEF request, t

-----------------------------------------------------------------------------
(* A test of the payment state does not take the part of a branch that is   *)
(* excluded.                                                                *)
Excludes(c, branch, event) ==
  /\ Role(c).operator # "COMPOUND"
  /\ CASE branch = "MATCHED" -> ~Holds(Role(c), event)
       [] branch = "NOT_MATCHED" -> Holds(Role(c), event)
       [] branch = "DEFAULT" -> event \in UNION Range(Role(c).cases)

LEMMA ExcludedIsNotTaken ==
  ASSUME NEW p, IsCollected(p), NEW f \in Functions(p), NEW c \in In(p, f, "state"), NEW k \in DOMAIN p.text[c.at].parts,
         NEW event \in {"captured", "failed"}, Excludes(c, Disposition(p.text[c.at], k), event)
  PROVE  LET request == [Undecided EXCEPT !.event = event]
         IN  Decided(p, request, c) /\ Taking(request, c) # k
<1> DEFINE request == [Undecided EXCEPT !.event = event]
           s == p.text[c.at]
           role == Role(c)
           branch == Disposition(s, k)
<1>1. request.event = event /\ request.event # "any"
  BY DEF Undecided
<1>2. c \in Statements(p, f) /\ role.role = "state"
  BY DEF In
<1>3. c.at \in DOMAIN p.text /\ c.node = s /\ RoleValid(s, f) /\ TextValid(p.text) /\ s.does = role
  BY <1>2, StatementsOfFunction, FunctionsAreBlocks DEF IsCollected, Role
<1>4. Decided(p, request, c)
  BY <1>1, <1>2 DEF Decided, Selects, Excludes
<1> HIDE DEF request
<1>5. CASE role.operator # "MATCH_CASE"
  <2>1. s.kind = "if" /\ role.operator \in {"EQUALS", "IN", "NOT_EQUALS", "NOT_IN", "COMPOUND"}
    BY <1>2, <1>3, <1>5 DEF RoleValid
  <2>2. DOMAIN s.parts = {1, 2}
    BY <1>3, <2>1, ParametersInKinds
  <2>3. branch = IF k = 1 THEN "MATCHED" ELSE "NOT_MATCHED"
    BY <2>1 DEF Disposition
  <2>4. Taking(request, c) = IF Holds(role, event) THEN 1 ELSE 2
    BY <1>1, <1>2, <1>3, <2>1 DEF Taking
  <2>5. k = 1 => ~Holds(role, event)
    BY <2>3 DEF Excludes
  <2>6. k # 1 => Holds(role, event)
    BY <2>3 DEF Excludes
  <2> HIDE DEF role, s
  <2>7. Taking(request, c) # k
    <3>1. CASE k = 1
      BY <2>4, <2>5, <3>1
    <3>2. CASE k # 1
      BY <2>4, <2>6, <3>2
    <3> QED
      BY <3>1, <3>2
  <2> QED
    BY <1>4, <2>7 DEF request
<1>6. CASE role.operator = "MATCH_CASE"
  <2>1. /\ s.kind = "match" /\ \A j \in DOMAIN role.cases : j \in DOMAIN s.parts /\ ~IsDefault(s, j)
        /\ UNION Range(role.cases) \subseteq role.states
    BY <1>2, <1>3, <1>6 DEF RoleValid
  <2>2. branch = IF IsDefault(s, k) THEN "DEFAULT" ELSE "MATCHED"
    BY <2>1 DEF Disposition
  <2>3. Taking(request, c) = CaseOf(c, event)
    BY <1>1, <1>2, <1>3, <2>1 DEF Taking
  <2>4. Holds(role, event) <=> event \in role.states
    BY <1>6 DEF Holds
  <2> DEFINE matching == {i \in DOMAIN role.cases : event \in role.cases[i]}
  <2>5. CASE matching = {}
    <3>1. CaseOf(c, event) = IF s.default THEN Len(s.parts) ELSE 0
      BY <1>3, <2>5 DEF CaseOf
    <3>2. event \notin UNION Range(role.cases)
      BY <2>5 DEF Range
    <3>3. ~IsDefault(s, k)
      BY <2>2, <3>2 DEF Excludes
    <3>4. k \in Nat /\ k # 0
      <4>1. DOMAIN s.parts = 1 .. Len(s.parts) /\ Len(s.parts) \in Nat
        BY <1>3, PartsAreBlocks DEF StatementAt
      <4> QED
        BY <4>1
    <3>5. CaseOf(c, event) # k
      BY <3>1, <3>3, <3>4 DEF IsDefault
    <3> QED
      BY <1>4, <2>3, <3>5 DEF request
  <2>6. CASE matching # {}
    <3>1. DOMAIN s.parts \subseteq Nat
      BY <1>3, PartsAreBlocks DEF StatementAt
    <3>2. matching \in SUBSET Nat
      BY <2>1, <3>1
    <3>3. \E n \in matching : \A m \in matching : n <= m
      BY <2>6, <3>2, LeastNatural
    <3>4. Min(matching) \in matching
      BY <3>3 DEF Min
    <3>5. CaseOf(c, event) = Min(matching)
      BY <2>6 DEF CaseOf
    <3>6. ~IsDefault(s, CaseOf(c, event)) /\ event \in role.cases[CaseOf(c, event)] /\ CaseOf(c, event) \in DOMAIN role.cases
      BY <2>1, <3>4, <3>5
    <3>7. event \in role.states
      BY <2>1, <3>6 DEF Range
    <3>8. IsDefault(s, k)
      BY <2>2, <2>4, <3>7 DEF Excludes
    <3>9. CaseOf(c, event) # k
      BY <3>6, <3>8
    <3> QED
      BY <1>4, <2>3, <3>9 DEF request
  <2> QED
    BY <2>5, <2>6
<1> QED
  BY <1>5, <1>6

(* The branch that controls a place is a part that it is in.                *)
LEMMA ControlledIsInPart ==
  ASSUME NEW p, IsCollected(p), NEW f \in Functions(p), NEW c \in Statements(p, f), NEW h \in Functions(p), NEW t \in Statements(p, h),
         NEW branch \in BranchControls(c, t)
  PROVE  h = f /\ \E k \in DOMAIN p.text[c.at].parts :
                    Disposition(p.text[c.at], k) = branch /\ t.at \in Places(p.text[c.at].parts[k]) /\ t.at \in Places(Span(p.text, c.at)) \ {c.at}
<1>1. /\ c.at \in Places(p.functions[f]) /\ c.at \in DOMAIN p.text /\ t.at \in Places(p.functions[h]) /\ t.at \in DOMAIN p.text
      /\ ContextTold(p.text, t.at, t)
  BY StatementsOfFunction
<1>2. TextValid(p.text) /\ FunctionIs(p, f) /\ ProjectValid(p)
  BY FunctionsAreBlocks DEF IsCollected
<1>3. PICK x \in DOMAIN t.ancestors : t.ancestors[x].gate = c.at /\ t.ancestors[x].disposition = branch
  BY DEF BranchControls
<1>4. PICK s \in DOMAIN p.text : \E k \in DOMAIN p.text[s].parts : t.at \in Places(p.text[s].parts[k]) /\ t.ancestors[x] = BranchOf(p.text, s, k)
  BY <1>1, <1>2, <1>3, ContextOfParts
<1>5. PICK k \in DOMAIN p.text[s].parts : t.at \in Places(p.text[s].parts[k]) /\ t.ancestors[x] = BranchOf(p.text, s, k)
  BY <1>4
<1>6. s = c.at /\ Disposition(p.text[s], k) = branch
  BY <1>3, <1>5 DEF BranchOf, Branch
<1>7. t.at \in Places(Span(p.text, c.at)) \ {c.at}
  BY <1>1, <1>2, <1>5, <1>6, SpanIsBlock
<1>8. t.at \in Places(p.functions[f])
  BY <1>1, <1>2, <1>7, SpanInPart DEF FunctionIs
<1> QED
  BY <1>1, <1>2, <1>5, <1>6, <1>7, <1>8, FunctionsAreApart

LEMMA GateBranches ==
  ASSUME NEW p, IsCollected(p), NEW f \in Functions(p), NEW c \in In(p, f, "state"), NEW h \in Functions(p), NEW t \in Statements(p, h),
         NEW branch \in BranchControls(c, t), NEW event \in {"captured", "failed"}, Excludes(c, branch, event)
  PROVE  ~Takes(p, [Undecided EXCEPT !.event = event], t.at)
<1> DEFINE request == [Undecided EXCEPT !.event = event]
           j == Taking(request, c)
<1>1. c \in Statements(p, f)
  BY DEF In
<1>2. /\ h = f
      /\ \E k \in DOMAIN p.text[c.at].parts :
           Disposition(p.text[c.at], k) = branch /\ t.at \in Places(p.text[c.at].parts[k]) /\ t.at \in Places(Span(p.text, c.at)) \ {c.at}
  BY <1>1, ControlledIsInPart
<1>3. PICK k \in DOMAIN p.text[c.at].parts :
        Disposition(p.text[c.at], k) = branch /\ t.at \in Places(p.text[c.at].parts[k]) /\ t.at \in Places(Span(p.text, c.at)) \ {c.at}
  BY <1>2
<1>4. Decided(p, request, c) /\ j # k
  BY <1>3, ExcludedIsNotTaken
<1>5. c.at \in DOMAIN p.text /\ TextValid(p.text)
  BY <1>1, StatementsOfFunction, FunctionsAreBlocks DEF IsCollected
<1>6. t \in Statements(p, f)
  BY <1>2
<1> HIDE DEF request
<1>7. j \in DOMAIN p.text[c.at].parts => t.at \notin Places(p.text[c.at].parts[j])
  BY <1>3, <1>4, <1>5, PartsAreApart
<1>8. ~Takes(p, request, t.at)
  <2> HIDE DEF j
  <2>1. j = Taking(request, c)
    BY DEF j
  <2> QED
    BY <1>1, <1>3, <1>4, <1>6, <1>7, <2>1, DecidedGuards
<1> QED
  BY <1>8 DEF request

(* The work that an acknowledgement follows has been executed.              *)
LEMMA WorkIsDone ==
  ASSUME NEW p, IsCollected(p), NEW request, NEW f \in Functions(p), NEW work \in Statements(p, f), NEW k,
         k.context.at = 0 \/ (k.context.at # 0 /\ k.context \in Statements(p, Owner(p))),
         WorkPrecedesAck(p, work, k), ToldOf(p, work), NEW o \in RouteExecutions(p, request)
  PROVE  IF k.context.at # 0 THEN <<work.at, k.context.at>> \notin o.early
         ELSE work.regions = <<>> /\ o.exit = "next" => work.at \in o.done
<1> DEFINE b == p.functions[Owner(p)]
<1>1. Owner(p) \in Functions(p) /\ TextValid(p.text) /\ FunctionIs(p, Owner(p))
  BY FunctionsAreBlocks DEF IsCollected
<1>2. Known(p.text, b.first, b, {}, o)
  <2>1. {} \in SUBSET DOMAIN p.text
    OBVIOUS
  <2> QED
    BY <1>1, <2>1, FunctionsRun DEF RouteExecutions, OutcomesOf
<1>3. InOrder(p.text, b, o) /\ Finished(p.text, b, o)
  BY <1>2 DEF Known
<1>4. work.symbol = f /\ work.at \in Places(p.functions[f]) /\ work.at \in DOMAIN p.text /\ ContextTold(p.text, work.at, work)
  BY StatementsOfFunction
<1>5. CASE k.context.at # 0
  <2>1. k.context \in Statements(p, Owner(p)) /\ ContextDominates(work, k.context)
    BY <1>5 DEF WorkPrecedesAck
  <2>2. k.context.symbol = Owner(p) /\ k.context.at \in DOMAIN p.text /\ ContextTold(p.text, k.context.at, k.context)
    BY <1>1, <2>1, StatementsOfFunction
  <2>3. f = Owner(p)
    BY <1>4, <2>1, <2>2 DEF ContextDominates
  <2>4. Precedes(p.text, work.at, k.context.at)
    BY <1>1, <1>4, <2>1, <2>2, DominatesIsPrecedes DEF ToldOf
  <2>5. k.context.at \in Nat
    BY <1>1, <2>2 DEF TextValid
  <2>6. <<work.at, k.context.at>> \notin o.early
    BY <1>3, <1>4, <2>3, <2>4, <2>5 DEF InOrder
  <2> QED
    BY <1>5, <2>6
<1>6. CASE k.context.at = 0
  <2>1. work.symbol = Owner(p) /\ PrecedesEnd(work)
    BY <1>6 DEF WorkPrecedesAck
  <2>2. ASSUME work.regions = <<>>, o.exit = "next" PROVE work.at \in o.done
    <3>1. Sure(p.text, Whole(p.text), work.at)
      BY <1>1, <1>4, <2>1, <2>2, PrecedesEndIsSure DEF ToldOf
    <3>2. work.at \in Places(b)
      BY <1>4, <2>1
    <3>3. \A s \in DOMAIN p.text : s >= 1
      BY <1>1 DEF TextValid
    <3>4. Sure(p.text, b, work.at)
      <4>1. Whole(p.text).first = 1
        BY DEF Whole, Block
      <4> HIDE DEF b
      <4> QED
        BY <3>1, <3>2, <3>3, <4>1 DEF Sure
    <3> QED
      BY <1>3, <2>2, <3>2, <3>4 DEF Finished
  <2> QED
    BY <1>6, <2>2
<1> QED
  BY <1>5, <1>6

-----------------------------------------------------------------------------
(* The delivery of the customer value: a path of calls goes down.           *)
LEMMA PathDescends ==
  ASSUME NEW p, IsCollected(p), NEW f, NEW path, PathIs(p, path, f)
  PROVE  /\ DOMAIN path = 1 .. Len(path) /\ Len(path) \in Nat
         /\ \A i \in DOMAIN path : /\ path[i] \in Invocations(p) /\ path[i].symbol \in Functions(p) /\ path[i].symbol \in Nat
                                   /\ Role(path[i]).callee \in Functions(p) /\ Role(path[i]).callee \in Nat
         /\ \A i, j \in DOMAIN path : i <= j => Role(path[j]).callee < path[i].symbol
         /\ \A i, j \in DOMAIN path : i < j => path[j].symbol < path[i].symbol
<1> DEFINE n == Len(path)
           G == {k \in Nat : \A i \in 1 .. n : i + k <= n => Role(path[i + k]).callee < path[i].symbol}
<1>1. n \in Nat /\ DOMAIN path = 1 .. n /\ \A i \in 1 .. n : path[i] \in Invocations(p)
  BY LenProperties, ElementOfSeq DEF PathIs
<1>2. \A i \in 1 .. n : /\ path[i].symbol \in Functions(p) /\ path[i].symbol \in Nat
                        /\ Role(path[i]).callee \in Functions(p) /\ Role(path[i]).callee \in Nat
                        /\ Role(path[i]).callee < path[i].symbol
  BY <1>1, InvocationsAreCalls
<1>3. \A i \in 1 .. n - 1 : path[i + 1].symbol = Role(path[i]).callee
  BY DEF PathIs
<1> HIDE DEF n
<1>4. 0 \in G
  <2>1. \A i \in 1 .. n : i + 0 = i
    BY <1>1
  <2> QED
    BY <1>2, <2>1
<1>5. ASSUME NEW k \in 0 .. n - 1, k \in G PROVE k + 1 \in G
  <2>1. ASSUME NEW i \in 1 .. n, i + (k + 1) <= n PROVE Role(path[i + (k + 1)]).callee < path[i].symbol
    <3>1. i + k \in 1 .. n - 1 /\ i + k <= n /\ i + (k + 1) = i + k + 1 /\ i + k + 1 \in 1 .. n /\ i + k \in 1 .. n
      BY <1>1, <1>5, <2>1
    <3>2. Role(path[i + k]).callee < path[i].symbol
      BY <1>5, <3>1
    <3>3. path[i + k + 1].symbol = Role(path[i + k]).callee
      BY <1>3, <3>1
    <3>4. Role(path[i + k + 1]).callee < path[i + k + 1].symbol /\ Role(path[i + k + 1]).callee \in Nat
          /\ path[i + k + 1].symbol \in Nat /\ path[i].symbol \in Nat
      BY <1>2, <3>1
    <3> HIDE DEF G
    <3>5. Role(path[i + k + 1]).callee < path[i].symbol
      BY <3>2, <3>3, <3>4
    <3> QED
      BY <3>1, <3>5
  <2>2. k + 1 \in Nat
    BY <1>1
  <2> QED
    BY <2>1, <2>2
<1>6. 0 .. n \subseteq G
  <2> HIDE DEF G
  <2> QED
    BY ONLY <1>1, <1>4, <1>5, InductionUpTo
<1>7. ASSUME NEW i \in 1 .. n, NEW j \in 1 .. n, i <= j PROVE Role(path[j]).callee < path[i].symbol
  <2>1. j - i \in 0 .. n /\ i + (j - i) = j /\ i + (j - i) <= n
    BY <1>1, <1>7
  <2>2. Role(path[i + (j - i)]).callee < path[i].symbol
    BY <1>6, <2>1
  <2> QED
    BY <2>1, <2>2
<1>8. ASSUME NEW i \in 1 .. n, NEW j \in 1 .. n, i < j PROVE path[j].symbol < path[i].symbol
  <2>1. j - 1 \in 1 .. n - 1 /\ j - 1 \in 1 .. n /\ j - 1 + 1 = j /\ i <= j - 1
    BY <1>1, <1>8
  <2>2. path[j - 1 + 1].symbol = Role(path[j - 1]).callee
    BY <1>3, <2>1
  <2>3. Role(path[j - 1]).callee < path[i].symbol
    BY <1>7, <2>1
  <2> QED
    BY <2>1, <2>2, <2>3
<1> QED
  BY <1>1, <1>2, <1>7, <1>8 DEF n

(* A test that does not take the part of a call keeps away what only that   *)
(* call leads to.                                                           *)
LEMMA GateSpares ==
  ASSUME NEW p, IsCollected(p), NEW request, NEW f \in Functions(p), NEW c \in Statements(p, f), Decided(p, request, c),
         NEW x \in Statements(p, f), NEW k \in DOMAIN p.text[c.at].parts, x.at \in Places(p.text[c.at].parts[k]), Taking(request, c) # k,
         NEW t \in Nat, t < p.functions[f].first,
         \A y \in Made(p, f) : y.at # x.at => Spares(p, request, Role(y).callee, t)
  PROVE  Spares(p, request, f, t)
<1> DEFINE text == p.text
           i == c.at
           u == x.at
           j == Taking(request, c)
           base == p.functions[f].first
           world == WorldOf(p, request, f)
           run == RunOf(p, request, f)
<1>1. /\ i \in Places(p.functions[f]) /\ i \in DOMAIN text /\ c.symbol = f
      /\ u \in Places(p.functions[f]) /\ u \in DOMAIN text
  BY StatementsOfFunction
<1>2. TextValid(text) /\ FunctionIs(p, f)
  BY FunctionsAreBlocks DEF IsCollected
<1>3. base \in Nat /\ i >= base /\ i \in Nat /\ u \in Nat
  BY <1>1, <1>2 DEF FunctionIs, Places
<1>4. Runs(world, text, base, run)
  BY FunctionsRun
<1>5. text[i].kind \in {"if", "match"}
  BY TakingIsAPart
<1>6. i \in DOMAIN world.takes /\ world.takes[i] = {j}
  BY WorldSays DEF WorldOf
<1>7. \A m \in DOMAIN world.calls : m # u => \A d \in SUBSET DOMAIN text : \A o \in world.calls[m][d] :
        Stays(text, (1 .. base - 1) \ {t}, d, o)
  BY CallsSpare
<1>8. t < base /\ k \in DOMAIN text[i].parts /\ u \in Places(text[i].parts[k]) /\ j # k /\ t \in Nat
  OBVIOUS
<1> HIDE DEF world, run, base, i, u, j, text
<1>9. KeepsAway(world, text, base, run, 0, u, t)
  BY <1>1, <1>7, <1>8 DEF KeepsAway
<1>10. ASSUME j \in DOMAIN text[i].parts PROVE Avoids(text, base, text[i].parts[j], t, run[text[i].parts[j]])
  <2>1. u \notin Places(text[i].parts[j])
    BY <1>1, <1>2, <1>8, <1>10, PartsAreApart
  <2>2. text[i].parts[j] \in Blocks(text) /\ BlockValid(text, text[i].parts[j]) /\ text[i].parts[j].first > i
    BY <1>1, <1>2, <1>10, SpanIsBlock
  <2>3. text[i].parts[j].first \in Nat
    BY <1>2, <2>2 DEF Blocks, TextValid
  <2>4. text[i].parts[j].first >= base
    BY <1>3, <2>2, <2>3
  <2> QED
    BY <1>4, <1>9, <2>1, <2>2, <2>4, BlocksAvoid
<1>11. t # i
  BY <1>3, <1>8
<1>12. \A d \in SUBSET DOMAIN text : \A o \in One(world, text, i, run, d) : Stays(text, Without(text, base, Span(text, i), t), d, o)
  BY ONLY <1>1, <1>3, <1>4, <1>5, <1>6, <1>10, <1>11, DecidedAvoids
<1>13. u \in Places(Span(text, i))
  BY <1>1, <1>2, <1>8, SpanIsBlock
<1>14. KeepsAway(world, text, base, run, i, u, t)
  BY <1>1, <1>7, <1>8, <1>12, <1>13 DEF KeepsAway
<1> QED
  BY <1>1, <1>14, KeptAway DEF world, run, base, i, text

LEMMA CustomerBranches ==
  ASSUME NEW p, IsCollected(p), NEW customer \in Functions(p), NEW path, PathIs(p, path, customer), OnlyWay(p, path),
         NEW f \in Functions(p), NEW c \in In(p, f, "state"), ControlledPath(Fact("PAYMENT_STATE_GATE", Role(c).operator, c), path),
         NEW event \in {"captured", "failed"}, Excludes(c, "MATCHED", event)
  PROVE  ~Takes(p, [Undecided EXCEPT !.event = event], p.functions[customer].first)
<1> DEFINE request == [Undecided EXCEPT !.event = event]
           t == p.functions[customer].first
           n == Len(path)
<1>1. PICK j \in DOMAIN path : path[j].symbol = c.symbol /\ "MATCHED" \in BranchControls(c, path[j])
  BY DEF ControlledPath, Fact
<1>2. c \in Statements(p, f) /\ c.symbol = f
  BY StatementsOfFunction DEF In
<1> DEFINE x == path[j]
           Q == {Role(path[k]).callee : k \in j .. n}
<1>3. /\ DOMAIN path = 1 .. n /\ n \in Nat
      /\ \A i \in DOMAIN path : /\ path[i] \in Invocations(p) /\ path[i].symbol \in Functions(p) /\ path[i].symbol \in Nat
                                /\ Role(path[i]).callee \in Functions(p) /\ Role(path[i]).callee \in Nat
      /\ \A i \in DOMAIN path : i >= j => Role(path[i]).callee < path[j].symbol
      /\ \A i \in DOMAIN path : i > j => path[i].symbol < path[j].symbol
  BY PathDescends
<1>4. /\ x \in Statements(p, f) /\ x.symbol = f
  BY <1>1, <1>2, <1>3, InvocationsAreCalls
<1>5. PICK k \in DOMAIN p.text[c.at].parts : Disposition(p.text[c.at], k) = "MATCHED" /\ x.at \in Places(p.text[c.at].parts[k])
  BY <1>1, <1>2, <1>4, ControlledIsInPart
<1>6. Decided(p, request, c) /\ Taking(request, c) # k
  BY <1>5, ExcludedIsNotTaken
<1>7. customer \in Q /\ customer < f
  <2>1. path # <<>> /\ n \in j .. n /\ n \in DOMAIN path /\ n >= j
    <3>1. n # 0 /\ n \in j .. n /\ n \in DOMAIN path /\ n >= j
      BY <1>1, <1>3
    <3>2. Len(<<>>) = 0
      BY EmptySeq
    <3> QED
      BY <3>1, <3>2
  <2>2. Role(path[n]).callee = customer
    BY <2>1 DEF PathIs
  <2> HIDE DEF n
  <2>3. customer < path[j].symbol
    BY <1>3, <2>1, <2>2
  <2> QED
    BY <1>1, <1>2, <2>1, <2>2, <2>3
<1> HIDE DEF request, n, x
<1>8. t \in Places(p.functions[customer]) /\ t \in Nat /\ t < p.functions[f].first /\ ProjectValid(p)
  <2>1. FunctionIs(p, customer) /\ FunctionIs(p, f) /\ ProjectValid(p)
    BY FunctionsAreBlocks DEF IsCollected
  <2>2. p.functions[customer].last < p.functions[f].first
    BY <1>7, <2>1, FunctionsInOrder
  <2> QED
    BY <2>1, <2>2 DEF FunctionIs, Places
<1>9. f \notin Q
  <2>1. f \in Nat
    BY FunctionsAreBlocks DEF IsCollected
  <2>2. ASSUME NEW m \in j .. n PROVE Role(path[m]).callee # f
    <3>1. m \in DOMAIN path /\ m >= j
      BY <1>1, <1>3
    <3>2. Role(path[m]).callee < f /\ Role(path[m]).callee \in Nat
      BY <1>1, <1>2, <1>3, <3>1
    <3> QED
      BY <2>1, <3>2
  <2> QED
    BY <2>2
<1>10. ASSUME NEW g \in Functions(p), NEW y \in Made(p, g), Role(y).callee \in Q, g \notin Q PROVE y = x /\ g = f
  <2>1. y \in Invocations(p) /\ y.symbol = g
    <3>1. y \in In(p, g, "invoke")
      BY DEF Made
    <3> QED
      BY <3>1, CalleesAreBefore DEF Invocations
  <2>2. PICK m \in j .. n : Role(y).callee = Role(path[m]).callee
    BY <1>10
  <2>3. m \in DOMAIN path /\ m \in Nat /\ m >= j /\ j \in Nat /\ j >= 1
    BY <1>1, <1>3
  <2>4. y = path[m]
    BY <2>1, <2>2, <2>3 DEF OnlyWay
  <2>5. m = j
    <3>1. SUFFICES ASSUME m # j PROVE FALSE
      OBVIOUS
    <3>2. m - 1 \in j .. n /\ m - 1 \in 1 .. n - 1 /\ m - 1 + 1 = m
      BY <1>3, <2>2, <2>3, <3>1
    <3>3. path[m - 1 + 1].symbol = Role(path[m - 1]).callee
      BY <3>2 DEF PathIs, n
    <3>4. g \in Q
      BY <2>1, <2>4, <3>2, <3>3
    <3> QED
      BY <1>10, <3>4
  <2> QED
    BY <1>1, <1>2, <2>1, <2>4, <2>5 DEF x
<1>11. Owner(p) \in Functions(p) \ Q
  <2>1. Owner(p) \in Functions(p) /\ Owner(p) \in Nat
    BY FunctionsAreBlocks DEF IsCollected
  <2>2. ASSUME NEW m \in j .. n PROVE Role(path[m]).callee # Owner(p)
    <3>1. m \in DOMAIN path /\ m >= j
      BY <1>1, <1>3
    <3>2. Role(path[m]).callee < path[j].symbol /\ path[j].symbol \in 1 .. Owner(p) /\ Role(path[m]).callee \in Nat
      BY <1>1, <1>3, <3>1 DEF Functions
    <3> QED
      BY <2>1, <3>2
  <2> QED
    BY <2>1, <2>2
<1> HIDE DEF Q, t
<1>12. ASSUME NEW g \in Functions(p) \ Q, \A h \in Functions(p) \ Q : h < g => Spares(p, request, h, t)
       PROVE  \/ Spares(p, request, g, t)
              \/ t \notin Places(p.functions[g]) /\ \A y \in Made(p, g) : Role(y).callee \notin Q
  <2>1. CASE g = f
    <3>1. ASSUME NEW y \in Made(p, f), y.at # x.at PROVE Spares(p, request, Role(y).callee, t)
      <4>1. y \in In(p, f, "invoke")
        BY DEF Made
      <4>2. Role(y).callee \in Functions(p) /\ Role(y).callee < f
        BY <4>1, CalleesAreBefore
      <4>3. Role(y).callee \notin Q
        BY <1>9, <1>10, <3>1
      <4> QED
        BY <1>12, <2>1, <4>2, <4>3
    <3>2. Spares(p, request, f, t)
      BY <1>2, <1>4, <1>5, <1>6, <1>8, <3>1, GateSpares
    <3> QED
      BY <2>1, <3>2
  <2>2. CASE g # f
    <3>1. t \notin Places(p.functions[g])
      BY <1>7, <1>8, <1>12, FunctionsAreApart
    <3>2. \A y \in Made(p, g) : Role(y).callee \notin Q
      BY <1>10, <2>2
    <3> QED
      BY <3>1, <3>2
  <2> QED
    BY <2>1, <2>2
<1>13. \A g \in Functions(p) \ Q : Spares(p, request, g, t)
  BY ONLY IsCollected(p), <1>8, <1>12, SparedByOthers
<1>14. ~Takes(p, request, t)
  BY <1>11, <1>13, SparedIsNotBegun
<1> QED
  BY <1>14 DEF request, t

(* What no path leads to is not executed.                                   *)
LEMMA UnreachedIsNotBegun ==
  ASSUME NEW p, IsCollected(p), NEW request, NEW customer \in Functions(p), customer \notin DOMAIN CallPaths(p)
  PROVE  ~Takes(p, request, p.functions[customer].first)
<1> DEFINE fs == DOMAIN CallPaths(p)
           Q == Functions(p) \ fs
           t == p.functions[customer].first
<1>1. /\ fs \subseteq Functions(p) /\ Owner(p) \in fs
      /\ \A f \in fs : \A c \in In(p, f, "invoke") : Role(c).callee \in fs
  BY CallPathsAreCalls
<1>2. ProjectValid(p) /\ t \in Nat /\ t \in Places(p.functions[customer])
  <2>1. ProjectValid(p)
    BY DEF IsCollected
  <2>2. FunctionIs(p, customer)
    BY <2>1, FunctionsAreBlocks
  <2> QED
    BY <2>1, <2>2 DEF FunctionIs, Places
<1> HIDE DEF fs, t
<1>3. ASSUME NEW f \in Functions(p) \ Q
      PROVE  t \notin Places(p.functions[f]) /\ \A c \in Made(p, f) : Role(c).callee \notin Q
  <2>1. f \in fs /\ f # customer
    BY <1>3 DEF fs
  <2>2. t \notin Places(p.functions[f])
    BY <1>2, <2>1, FunctionsAreApart
  <2> QED
    BY <1>1, <2>1, <2>2 DEF Made
<1> HIDE DEF Q
<1>4. \A f \in Functions(p) \ Q : (\A g \in Functions(p) \ Q : g < f => Spares(p, request, g, t)) =>
        \/ Spares(p, request, f, t)
        \/ t \notin Places(p.functions[f]) /\ \A c \in Made(p, f) : Role(c).callee \notin Q
  BY <1>3
<1>5. \A f \in Functions(p) \ Q : Spares(p, request, f, t)
  BY ONLY IsCollected(p), <1>2, <1>4, SparedByOthers
<1>6. Spares(p, request, Owner(p), t)
  BY <1>1, <1>5 DEF Q
<1> QED
  BY <1>6, SparedIsNotBegun DEF t

-----------------------------------------------------------------------------
(* If the statement u has been executed, so has the statement v.            *)
Bound(u, v, d) == u \in d => v \in d
Binds(u, v, d, o) == Bound(u, v, d) => Bound(u, v, o.done)
PartsBind(text, run, k, u, v) ==
  \A j \in DOMAIN text[k].parts : \A d \in SUBSET DOMAIN text : \A o \in run[text[k].parts[j]][d] : Binds(u, v, d, o)

LEMMA InnerBinds ==
  ASSUME NEW world, NEW text, NEW base, NEW run, Runs(world, text, base, run), NEW k \in DOMAIN text, k >= base,
         NEW u, NEW v, PartsBind(text, run, k, u, v),
         text[k].kind \in {"if", "match", "loop", "with", "try"},
         NEW d \in SUBSET DOMAIN text, NEW m \in Inner(world, text[k], k, run, d)
  PROVE  Binds(u, v, d, m)
<1> DEFINE s == text[k]
<1>1. /\ s.kind = "with" => 1 \in DOMAIN s.parts
      /\ s.kind = "loop" => {1, 2} \subseteq DOMAIN s.parts
      /\ s.kind = "try" => {1, Len(s.parts) - 1, Len(s.parts)} \subseteq DOMAIN s.parts /\ Handlers(s) \subseteq DOMAIN s.parts
  BY ParametersInKinds DEF Runs
<1>2. TextValid(text) /\ WorldValid(world, text)
  BY DEF Runs
<1>3. \A j \in DOMAIN s.parts : \A e \in SUBSET DOMAIN text : \A o \in run[s.parts[j]][e] :
        Binds(u, v, e, o) /\ o.done \in SUBSET DOMAIN text
  BY PartRuns DEF PartsBind
<1>4. \A e, t, n, exit : Binds(u, v, e, t) /\ Binds(u, v, t.done, n) => Binds(u, v, e, Joined(t, n, exit))
  BY JoinedFields DEF Binds
<1>5. CASE s.kind \in {"if", "match"}
  <2>1. m = Outcome(d, {}, {}, "next") \/ \E j \in DOMAIN s.parts : m \in run[s.parts[j]][d]
    BY <1>2, <1>5, BranchOutcomes
  <2>2. Outcome(d, {}, {}, "next").done = d
    BY DEF Outcome
  <2> QED
    BY <1>3, <2>1, <2>2 DEF Binds
<1>6. CASE s.kind = "with"
  <2>1. m \in run[s.parts[1]][d]
    BY <1>6 DEF Inner
  <2> QED
    BY <1>1, <1>3, <1>6, <2>1
<1>7. CASE s.kind = "loop"
  <2>1. \/ m \in run[s.parts[2]][d]
        \/ \E t \in run[s.parts[1]][d] :
             \/ m = [t EXCEPT !.exit = "next"]
             \/ m = t
             \/ \E n \in run[s.parts[2]][t.done] : m = Joined(t, n, n.exit)
    BY <1>7, LoopOutcomes
  <2>2. ASSUME NEW t \in run[s.parts[1]][d] PROVE [t EXCEPT !.exit = "next"].done = t.done
    <3>1. Stays(text, Reach(base, s.parts[1]), d, t)
      BY <1>1, <1>7, PartRuns
    <3> QED
      BY <3>1, StaysCaught
  <2>3. ASSUME NEW t \in run[s.parts[1]][d] PROVE Binds(u, v, d, t) /\ t.done \in SUBSET DOMAIN text
    BY <1>1, <1>3, <1>7
  <2>4. ASSUME NEW t \in run[s.parts[1]][d], NEW n \in run[s.parts[2]][t.done] PROVE Binds(u, v, d, Joined(t, n, n.exit))
    <3>1. Binds(u, v, d, t) /\ Binds(u, v, t.done, n)
      BY <1>1, <1>3, <1>7, <2>3
    <3> QED
      BY <1>4, <3>1
  <2>5. CASE m \in run[s.parts[2]][d]
    BY <1>1, <1>3, <1>7, <2>5
  <2>6. ASSUME NEW t \in run[s.parts[1]][d], m = t \/ m = [t EXCEPT !.exit = "next"] PROVE Binds(u, v, d, m)
    BY <2>2, <2>3, <2>6 DEF Binds
  <2> QED
    BY <2>1, <2>4, <2>5, <2>6
<1>8. CASE s.kind = "try"
  <2>1. /\ \A e \in SUBSET DOMAIN text : \A o \in run[s.parts[1]][e] \cup run[Else(s)][e] \cup run[Final(s)][e] :
             Binds(u, v, e, o) /\ o.done \in SUBSET DOMAIN text
        /\ \A j \in Handlers(s) : \A e \in SUBSET DOMAIN text : \A o \in run[s.parts[j]][e] :
             Binds(u, v, e, o) /\ o.done \in SUBSET DOMAIN text
    BY <1>1, <1>3, <1>8 DEF Else, Final
  <2>2. PICK x, f : LeftTry(s, run, d, x) /\ f \in run[Final(s)][x.done] /\ m = Joined(x, f, IF f.exit = "next" THEN x.exit ELSE f.exit)
    BY <1>8, TryOutcomes
  <2>3. Binds(u, v, d, x) /\ x.done \in SUBSET DOMAIN text
    <3>1. PICK t \in run[s.parts[1]][d] :
            \/ x = t
            \/ \E n \in run[Else(s)][t.done] : x = Joined(t, n, n.exit)
            \/ \E j \in Handlers(s) : \E n \in run[s.parts[j]][t.done] : x = Joined(t, n, n.exit)
      BY <2>2 DEF LeftTry
    <3>2. Binds(u, v, d, t) /\ t.done \in SUBSET DOMAIN text
      BY <2>1
    <3>3. ASSUME NEW n, Binds(u, v, t.done, n), n.done \in SUBSET DOMAIN text
          PROVE  Binds(u, v, d, Joined(t, n, n.exit)) /\ Joined(t, n, n.exit).done \in SUBSET DOMAIN text
      BY <1>4, <3>2, <3>3, JoinedFields
    <3> QED
      BY <2>1, <3>1, <3>2, <3>3
  <2>4. Binds(u, v, x.done, f)
    BY <2>1, <2>2, <2>3
  <2> QED
    BY <1>4, <2>2, <2>3, <2>4
<1> QED
  BY <1>5, <1>6, <1>7, <1>8

(* The statement u is a call of a function that begins with v.              *)
Delivers(world, text, base, u, v) ==
  /\ \A k \in DOMAIN world.calls : \A d \in SUBSET DOMAIN text : \A n \in world.calls[k][d] : Binds(u, v, d, n)
  /\ u \in DOMAIN text /\ text[u].kind = "call"
  /\ u >= base =>
       /\ u \in DOMAIN world.calls
       /\ \A d \in SUBSET DOMAIN text : \A n \in world.calls[u][d] : n.exit \in {"next", "return"} => v \in n.done

LEMMA StatementBinds ==
  ASSUME NEW world, NEW text, NEW base, NEW run, Runs(world, text, base, run), NEW u, NEW v,
         Delivers(world, text, base, u, v), NEW k \in DOMAIN text, k >= base, PartsBind(text, run, k, u, v),
         NEW d \in SUBSET DOMAIN text, NEW a \in One(world, text, k, run, d)
  PROVE  Binds(u, v, d, a)
<1>1. TextValid(text)
  BY DEF Runs
<1>2. /\ Fails(k, d).done = d
      /\ \A exit : Ends(k, d, exit).done = d \cup {k}
      /\ \A m : Entering(k, d, m).done = m.done
  BY FailsFields, EndsFields, JoinedFields DEF Entering
<1>3. CASE text[k].kind \in {"if", "match", "loop", "with", "try"}
  <2>1. a = Fails(k, d) \/ \E m \in Inner(world, text[k], k, run, d \cup {k}) : a = Entering(k, d, m)
    BY <1>1, <1>3, CompoundOutcomes
  <2>2. \A m \in Inner(world, text[k], k, run, d \cup {k}) : Binds(u, v, d \cup {k}, m)
    BY <1>3, InnerBinds
  <2>3. u # k
    BY <1>3 DEF Delivers
  <2> QED
    BY <1>2, <2>1, <2>2, <2>3 DEF Binds, Bound
<1>4. CASE text[k].kind \notin {"if", "match", "loop", "with", "try"}
  <2>1. text[k].kind \in {"call", "return", "raise", "break", "continue"}
    <3>1. StatementAt(text, k)
      BY <1>1, PartsAreBlocks
    <3> QED
      BY <3>1, <1>4 DEF StatementAt, StatementKinds
  <2>2. \/ a = Fails(k, d)
        \/ \E exit : a = Ends(k, d, exit)
        \/ CallOutcome(world, k, d, a)
    BY <1>1, <2>1, PlainOutcomes
  <2>3. CASE k # u
    <3>1. ASSUME CallOutcome(world, k, d, a) PROVE Binds(u, v, d, a)
      <4>1. PICK n \in world.calls[k][d] : k \in DOMAIN world.calls /\ (a = n \/ a = Outcome(n.done \cup {k}, n.early \cup Begun(k, d), n.failed, "next"))
        BY <3>1 DEF CallOutcome
      <4>2. Binds(u, v, d, n)
        BY <4>1 DEF Delivers
      <4>3. a.done = n.done \/ a.done = n.done \cup {k}
        BY <4>1 DEF Outcome
      <4> QED
        BY <2>3, <4>2, <4>3 DEF Binds, Bound
    <3> QED
      BY <1>2, <2>2, <2>3, <3>1 DEF Binds, Bound
  <2>4. CASE k = u
    <3>1. text[k].kind = "call" /\ k \in DOMAIN world.calls
      BY <2>4 DEF Delivers
    <3>2. a \in Called(world, k, d)
      BY <3>1 DEF One
    <3>3. \/ a = Fails(k, d)
          \/ \E n \in world.calls[k][d] :
               \/ a = n
               \/ n.exit \in {"next", "return"} /\ a = Outcome(n.done \cup {k}, n.early \cup Begun(k, d), n.failed, "next")
      BY <3>2 DEF Called
    <3>4. ASSUME NEW n \in world.calls[k][d], a = n PROVE Binds(u, v, d, a)
      BY <3>1, <3>4 DEF Delivers
    <3>5. ASSUME NEW n \in world.calls[k][d], n.exit \in {"next", "return"},
                 a = Outcome(n.done \cup {k}, n.early \cup Begun(k, d), n.failed, "next")
          PROVE  Binds(u, v, d, a)
      <4>1. v \in n.done
        BY <2>4, <3>5 DEF Delivers
      <4>2. a.done = n.done \cup {k}
        BY <3>5 DEF Outcome
      <4> QED
        BY <4>1, <4>2 DEF Binds, Bound
    <3> QED
      BY <1>2, <3>3, <3>4, <3>5 DEF Binds
  <2> QED
    BY <2>3, <2>4
<1> QED
  BY <1>3, <1>4

LEMMA BlocksBind ==
  ASSUME NEW world, NEW text, NEW base, NEW run, Runs(world, text, base, run), NEW u, NEW v, Delivers(world, text, base, u, v)
  PROVE  \A b \in Blocks(text) : BlockValid(text, b) /\ b.first >= base =>
           \A d \in SUBSET DOMAIN text : \A o \in run[b][d] : Binds(u, v, d, o)
<1> DEFINE G == {b \in Blocks(text) : b.first >= base => \A d \in SUBSET DOMAIN text : \A o \in run[b][d] : Binds(u, v, d, o)}
<1>1. TextValid(text) /\ base \in Nat
  BY DEF Runs
<1>2. ASSUME NEW b \in Blocks(text), BlockValid(text, b),
             \A c \in Blocks(text) : BlockValid(text, c) /\ c.first > b.first => c \in G
      PROVE  b \in G
  <2>1. SUFFICES ASSUME b.first >= base, NEW d \in SUBSET DOMAIN text, NEW o \in run[b][d] PROVE Binds(u, v, d, o)
    OBVIOUS
  <2>2. CASE IsEmpty(b)
    <3>1. o = Outcome(d, {}, {}, "next")
      BY <2>2, EmptyOutcomes
    <3> QED
      BY <3>1 DEF Binds, Outcome
  <2>3. CASE ~IsEmpty(b)
    <3> DEFINE k == b.first
               rest == Rest(text, b)
    <3>1. k \in DOMAIN text /\ rest \in Blocks(text) /\ BlockValid(text, rest) /\ rest.first > k /\ rest.first >= base
      BY <1>2, <2>1, <2>3, BlockRuns
    <3>2. PICK a \in One(world, text, k, run, d) :
            /\ a.done \in SUBSET DOMAIN text
            /\ \/ a.exit # "next" /\ o = a
               \/ a.exit = "next" /\ \E n \in run[rest][a.done] : o = Joined(a, n, n.exit)
      BY <1>2, <2>1, <2>3, BlockRuns
    <3>3. rest \in G
      BY <1>2, <3>1
    <3> HIDE DEF k, rest
    <3>4. k >= base /\ k \in Nat
      BY <1>1, <2>1, <3>1 DEF k, TextValid
    <3>5. PartsBind(text, run, k, u, v)
      <4>1. ASSUME NEW j \in DOMAIN text[k].parts, NEW e \in SUBSET DOMAIN text, NEW m \in run[text[k].parts[j]][e]
            PROVE  Binds(u, v, e, m)
        <5>1. BlockValid(text, text[k].parts[j]) /\ text[k].parts[j] \in Blocks(text) /\ text[k].parts[j].first > k
          BY <1>1, <3>1, SpanIsBlock
        <5>2. text[k].parts[j].first \in Nat
          BY <1>1, <5>1 DEF Blocks, TextValid
        <5>3. text[k].parts[j] \in G /\ text[k].parts[j].first >= base
          BY <1>1, <1>2, <3>4, <5>1, <5>2 DEF k
        <5> QED
          BY <4>1, <5>3
      <4> QED
        BY <4>1 DEF PartsBind
    <3>6. Binds(u, v, d, a)
      BY <3>1, <3>2, <3>4, <3>5, StatementBinds
    <3>7. \A n \in run[rest][a.done] : Binds(u, v, a.done, n)
      BY <3>1, <3>2, <3>3
    <3> QED
      BY <3>2, <3>6, <3>7, JoinedFields DEF Binds
  <2> QED
    BY <2>2, <2>3
<1> HIDE DEF G
<1>3. \A b \in Blocks(text) : BlockValid(text, b) => b \in G
  BY <1>1, <1>2, BlockInduction
<1> QED
  BY <1>3 DEF G

(* A block that is left, but not by an exception, has begun.                *)
LEMMA FirstIsExecuted ==
  ASSUME NEW world, NEW text, NEW base, NEW run, Runs(world, text, base, run),
         NEW b \in Blocks(text), BlockValid(text, b), b.first >= base, ~IsEmpty(b),
         NEW d \in SUBSET DOMAIN text, NEW o \in run[b][d], o.exit # "raise"
  PROVE  b.first \in o.done
<1> DEFINE k == b.first
           rest == Rest(text, b)
<1>1. TextValid(text)
  BY DEF Runs
<1>2. k \in DOMAIN text
  BY BlockRuns
<1>3. PICK a \in One(world, text, k, run, d) :
        \/ a.exit # "next" /\ o = a
        \/ a.exit = "next" /\ \E n \in run[rest][a.done] : o = Joined(a, n, n.exit) /\ Stays(text, Reach(base, rest), a.done, n)
  BY BlockRuns
<1> HIDE DEF k, rest
<1>4. a.exit # "raise"
  BY <1>3
<1>5. k \in a.done
  <2>1. /\ Fails(k, d).exit = "raise"
        /\ \A exit : Ends(k, d, exit).done = d \cup {k}
        /\ \A m : Entering(k, d, m).done = m.done
    BY FailsFields, EndsFields, JoinedFields DEF Entering
  <2>2. CASE text[k].kind \in {"if", "match", "loop", "with", "try"}
    <3>1. PICK m \in Inner(world, text[k], k, run, d \cup {k}) : a = Entering(k, d, m)
      BY <1>1, <1>2, <1>4, <2>1, <2>2, CompoundOutcomes
    <3>2. PartsStay(text, run, k, Reach(base, Span(text, k)))
      <4>1. ASSUME NEW j \in DOMAIN text[k].parts, NEW e \in SUBSET DOMAIN text, NEW x \in run[text[k].parts[j]][e]
            PROVE  Stays(text, Reach(base, Span(text, k)), e, x)
        <5>1. Reach(base, text[k].parts[j]) \subseteq Reach(base, Span(text, k))
          BY <1>1, <1>2, SpanIsBlock DEF Reach
        <5>2. Stays(text, Reach(base, text[k].parts[j]), e, x)
          BY <1>2, <4>1, PartRuns DEF k
        <5> QED
          BY <5>1, <5>2, StaysWider
      <4> QED
        BY <4>1 DEF PartsStay
    <3>3. Stays(text, Reach(base, Span(text, k)), d \cup {k}, m)
      BY <1>2, <2>2, <3>1, <3>2, InnerStays
    <3> QED
      BY <2>1, <3>1, <3>3 DEF Stays
  <2>3. CASE text[k].kind \notin {"if", "match", "loop", "with", "try"}
    <3>1. text[k].kind \in {"call", "return", "raise", "break", "continue"}
      <4>1. StatementAt(text, k)
        BY <1>1, <1>2, PartsAreBlocks
      <4> QED
        BY <2>3, <4>1 DEF StatementAt, StatementKinds
    <3>2. \/ a = Fails(k, d)
          \/ \E exit : a = Ends(k, d, exit)
          \/ CallOutcome(world, k, d, a)
      BY <1>1, <1>2, <3>1, PlainOutcomes
    <3>3. ASSUME CallOutcome(world, k, d, a) PROVE k \in a.done
      <4>1. PICK n \in world.calls[k][d] : /\ k \in DOMAIN world.calls
                                          /\ \/ n.exit \notin {"next", "return"} /\ a = n
                                             \/ a = Outcome(n.done \cup {k}, n.early \cup Begun(k, d), n.failed, "next")
        BY <3>3 DEF CallOutcome
      <4>2. n.exit \in {"next", "return", "raise"}
        BY <4>1 DEF Runs, CallsStay
      <4> QED
        BY <1>4, <4>1, <4>2 DEF Outcome
    <3> QED
      BY <1>4, <2>1, <3>2, <3>3
  <2> QED
    BY <2>2, <2>3
<1> QED
  BY <1>3, <1>5, JoinedFields DEF Stays, k

(* When the last call of the path has been executed, so has what the        *)
(* customer value begins with.                                              *)
LEMMA CustomerIsDelivered ==
  ASSUME NEW p, IsCollected(p), NEW request, NEW customer \in Functions(p), NEW c \in Invocations(p),
         Role(c).callee = customer, Role(c).how # "detached",
         NEW o \in RouteExecutions(p, request), c.at \in o.done
  PROVE  p.functions[customer].first \in o.done
<1> DEFINE u == c.at
           v == p.functions[customer].first
           G == {f \in Functions(p) : \A d \in SUBSET DOMAIN p.text : \A e \in OutcomesOf(p, request, f)[d] : Binds(u, v, d, e)}
<1>1. ProjectValid(p)
  BY DEF IsCollected
<1>2. /\ c.symbol \in Functions(p) /\ c \in Statements(p, c.symbol) /\ c \in Made(p, c.symbol) /\ Role(c).role = "invoke"
  BY InvocationsAreCalls DEF Made, In
<1>3. u \in Places(p.functions[c.symbol]) /\ u \in DOMAIN p.text /\ c.node = p.text[u] /\ RoleValid(p.text[u], c.symbol)
  BY <1>2, StatementsOfFunction
<1>4. p.text[u].kind = "call"
  BY <1>2, <1>3 DEF RoleValid, Role
<1>5. u \in Nat /\ \A f \in Functions(p) : /\ f \in Nat /\ p.functions[f].first \in Nat /\ p.functions[f].last \in Nat
                                           /\ p.functions[f] \in Blocks(p.text) /\ BlockValid(p.text, p.functions[f])
                                           /\ ~IsEmpty(p.functions[f])
  <2>1. \A f \in Functions(p) : FunctionIs(p, f)
    BY <1>1, FunctionsAreBlocks
  <2>2. TextValid(p.text)
    BY <1>1, FunctionsAreBlocks
  <2> QED
    BY <1>3, <2>1, <2>2 DEF FunctionIs, TextValid
<1> HIDE DEF u, v
<1>6. ASSUME NEW f \in Functions(p), \A g \in Functions(p) : g < f => g \in G PROVE f \in G
  <2>1. SUFFICES ASSUME NEW d \in SUBSET DOMAIN p.text, NEW e \in OutcomesOf(p, request, f)[d] PROVE Binds(u, v, d, e)
    OBVIOUS
  <2> DEFINE w == WorldOf(p, request, f)
             base == p.functions[f].first
  <2>2. /\ Runs(w, p.text, base, RunOf(p, request, f))
        /\ OutcomesOf(p, request, f) = RunOf(p, request, f)[p.functions[f]]
        /\ Stays(p.text, 1 .. p.functions[f].last, d, e)
    BY <2>1, FunctionsRun
  <2>3. CASE f < c.symbol
    <3>1. p.functions[f].last < u
      <4>1. p.functions[f].last < p.functions[c.symbol].first
        BY <1>1, <1>2, <2>3, FunctionsInOrder
      <4> QED
        BY <1>2, <1>3, <1>5, <4>1 DEF Places
    <3>2. u \notin 1 .. p.functions[f].last
      BY <1>5, <3>1
    <3> QED
      BY <2>2, <3>2 DEF Binds, Bound, Stays, Touched
  <2>4. CASE ~(f < c.symbol)
    <3>1. /\ DOMAIN w.calls = {x.at : x \in Made(p, f)}
          /\ \A x \in Made(p, f) : w.calls[x.at] = OutcomesOf(p, request, Role(x).callee)
      BY WorldSays DEF WorldOf, OutcomesOf
    <3> HIDE DEF w, base
    <3>2. ASSUME NEW k \in DOMAIN w.calls, NEW h \in SUBSET DOMAIN p.text, NEW n \in w.calls[k][h] PROVE Binds(u, v, h, n)
      <4>1. PICK x \in Made(p, f) : k = x.at
        BY <3>1
      <4>2. Role(x).callee \in Functions(p) /\ Role(x).callee < f
        BY <4>1, CalleesAreBefore DEF Made
      <4> QED
        BY <1>6, <3>1, <3>2, <4>1, <4>2
    <3>3. ASSUME u >= base
          PROVE  /\ u \in DOMAIN w.calls
                 /\ \A h \in SUBSET DOMAIN p.text : \A n \in w.calls[u][h] : n.exit \in {"next", "return"} => v \in n.done
      <4>1. f = c.symbol
        <5>1. ASSUME c.symbol < f PROVE FALSE
          <6>1. p.functions[c.symbol].last < p.functions[f].first
            BY <1>1, <1>2, <5>1, FunctionsInOrder
          <6> QED
            BY <1>2, <1>3, <1>5, <3>3, <6>1 DEF Places, base
        <5> QED
          BY <1>2, <1>5, <2>4, <5>1
      <4>2. u \in DOMAIN w.calls /\ w.calls[u] = OutcomesOf(p, request, customer)
        BY <1>2, <3>1, <4>1 DEF u
      <4>3. ASSUME NEW h \in SUBSET DOMAIN p.text, NEW n \in OutcomesOf(p, request, customer)[h], n.exit \in {"next", "return"}
            PROVE  v \in n.done
        <5>1. /\ Runs(WorldOf(p, request, customer), p.text, v, RunOf(p, request, customer))
              /\ n \in RunOf(p, request, customer)[p.functions[customer]][h]
          BY <4>3, FunctionsRun DEF v
        <5>2. p.functions[customer].first >= v
          BY <1>5 DEF v
        <5>3. p.functions[customer].first \in n.done
          BY <1>5, <4>3, <5>1, <5>2, FirstIsExecuted
        <5> QED
          BY <5>3 DEF v
      <4> QED
        BY <4>2, <4>3
    <3>4. Delivers(w, p.text, base, u, v)
      BY <1>3, <1>4, <3>2, <3>3 DEF Delivers, u
    <3>5. p.functions[f].first >= base
      BY <1>5 DEF base
    <3> HIDE DEF G
    <3> QED
      BY <1>5, <2>1, <2>2, <3>4, <3>5, BlocksBind DEF w, base
  <2> QED
    BY <2>3, <2>4
<1>7. Owner(p) \in Functions(p)
  BY <1>1, FunctionsAreBlocks
<1> HIDE DEF G
<1>8. Functions(p) \subseteq G
  BY <1>1, <1>6, FunctionInduction
<1>9. Binds(u, v, {}, o)
  BY <1>7, <1>8 DEF G, RouteExecutions, OutcomesOf
<1> QED
  BY <1>9 DEF Binds, Bound, u, v

-----------------------------------------------------------------------------
(* What the analysis of a project recognizes.                               *)
LEMMA AnalysisSays ==
  ASSUME NEW p
  PROVE  LET a == Analysis(p)
             fs == DOMAIN CallPaths(p)
         IN  /\ a.paths = CallPaths(p)
             /\ \A t \in a.trust : \E f \in fs : t \in RecognizeTrust(p, a.paths[f], f)
             /\ \A t \in a.gates : \E f \in fs : t \in RecognizeStateGates(p, f)
             /\ \A t \in a.mutations : \E f \in fs : \E gates, trust : t \in RecognizeMutations(p, f, gates, trust)
             /\ \A t \in a.identities : \E f \in fs : \E mutations : t \in RecognizeEventIdentity(p, f, mutations)
             /\ a.acknowledgements \subseteq RecognizeAcknowledgements(p)
<1> DEFINE a == Analysis(p)
           fs == DOMAIN CallPaths(p)
           trustOf == [f \in fs |-> RecognizeTrust(p, CallPaths(p)[f], f)]
           gatesOf == [f \in fs |-> RecognizeStateGates(p, f)]
           mutationsOf == [f \in fs |-> RecognizeMutations(p, f, gatesOf[f], trustOf[f])]
<1>1. /\ a.paths = CallPaths(p)
      /\ a.trust = UNION {trustOf[f] : f \in fs}
      /\ a.gates = UNION {gatesOf[f] : f \in fs}
      /\ a.mutations = UNION {mutationsOf[f] : f \in fs}
      /\ a.identities = UNION {RecognizeEventIdentity(p, f, mutationsOf[f]) : f \in fs}
      /\ a.acknowledgements \in {RecognizeAcknowledgements(p), {}}
  BY DEF Analysis
<1> HIDE DEF a
<1>2. \A t \in a.trust : \E f \in fs : t \in RecognizeTrust(p, a.paths[f], f)
  BY <1>1
<1>3. \A t \in a.gates : \E f \in fs : t \in RecognizeStateGates(p, f)
  BY <1>1
<1>4. \A t \in a.mutations : \E f \in fs : \E gates, trust : t \in RecognizeMutations(p, f, gates, trust)
  BY <1>1
<1>5. \A t \in a.identities : \E f \in fs : \E mutations : t \in RecognizeEventIdentity(p, f, mutations)
  BY <1>1
<1> QED
  BY <1>1, <1>2, <1>3, <1>4, <1>5 DEF a

FactConcepts ==
  {"TRUST_GATE", "EVENT_IDENTITY_GUARD", "PAYMENT_STATE_GATE", "MERCHANT_STATE_MUTATION", "ACKNOWLEDGEMENT_BOUNDARY"}

(* The facts of an analysis are of statements of the functions; a gate is   *)
(* known by its statement.                                                  *)
LEMMA FactsSay ==
  ASSUME NEW p, IsCollected(p)
  PROVE  LET a == Analysis(p)
         IN  /\ \A t \in Guarded(a) : t.concept \in FactConcepts /\ \E f \in Functions(p) : t.context \in Statements(p, f)
             /\ \A t \in a.gates : \E f \in Functions(p) : \E c \in In(p, f, "state") :
                  t = Fact("PAYMENT_STATE_GATE", Role(c).operator, c)
             /\ \A t \in a.acknowledgements :
                  /\ t.concept \in FactConcepts
                  /\ t.context.at = 0 \/ (t.context.at # 0 /\ t.context \in Statements(p, Owner(p)))
<1> DEFINE a == Analysis(p)
           fs == DOMAIN CallPaths(p)
<1>1. /\ a.paths = CallPaths(p)
      /\ \A t \in a.trust : \E f \in fs : t \in RecognizeTrust(p, a.paths[f], f)
      /\ \A t \in a.gates : \E f \in fs : t \in RecognizeStateGates(p, f)
      /\ \A t \in a.mutations : \E f \in fs : \E gates, trust : t \in RecognizeMutations(p, f, gates, trust)
      /\ \A t \in a.identities : \E f \in fs : \E mutations : t \in RecognizeEventIdentity(p, f, mutations)
      /\ a.acknowledgements \subseteq RecognizeAcknowledgements(p)
  BY AnalysisSays
<1>2. fs \subseteq Functions(p)
  BY CallPathsAreCalls
<1> HIDE DEF a, fs
<1>3. ASSUME NEW t \in a.trust PROVE t.concept \in FactConcepts /\ \E f \in Functions(p) : t.context \in Statements(p, f)
  BY <1>1, <1>2, TrustSays DEF FactConcepts
<1>4. ASSUME NEW t \in a.gates PROVE \E f \in Functions(p) : \E c \in In(p, f, "state") : t = Fact("PAYMENT_STATE_GATE", Role(c).operator, c)
  BY <1>1, <1>2 DEF RecognizeStateGates
<1>5. ASSUME NEW t \in a.gates PROVE t.concept \in FactConcepts /\ \E f \in Functions(p) : t.context \in Statements(p, f)
  <2>1. PICK f \in Functions(p) : \E c \in In(p, f, "state") : t = Fact("PAYMENT_STATE_GATE", Role(c).operator, c)
    BY <1>4
  <2>3. PICK c \in In(p, f, "state") : t = Fact("PAYMENT_STATE_GATE", Role(c).operator, c)
    BY <2>1
  <2>2. t.concept = "PAYMENT_STATE_GATE" /\ t.context = c /\ c \in Statements(p, f)
    BY <2>3 DEF Fact, In
  <2> QED
    BY <2>2 DEF FactConcepts
<1>6. ASSUME NEW t \in a.mutations PROVE t.concept \in FactConcepts /\ \E f \in Functions(p) : t.context \in Statements(p, f)
  <2>1. PICK f \in Functions(p) : \E c \in In(p, f, "write") : t = Fact("MERCHANT_STATE_MUTATION", "write", c)
    BY <1>1, <1>2 DEF RecognizeMutations
  <2>3. PICK c \in In(p, f, "write") : t = Fact("MERCHANT_STATE_MUTATION", "write", c)
    BY <2>1
  <2>2. t.concept = "MERCHANT_STATE_MUTATION" /\ t.context = c /\ c \in Statements(p, f)
    BY <2>3 DEF Fact, In
  <2> QED
    BY <2>2 DEF FactConcepts
<1>7. ASSUME NEW t \in a.identities PROVE t.concept \in FactConcepts /\ \E f \in Functions(p) : t.context \in Statements(p, f)
  <2>1. PICK f \in Functions(p) : \E c \in In(p, f, "lookup") : t = Fact("EVENT_IDENTITY_GUARD", "LOOKUP_AND_RECORD", c)
    BY <1>1, <1>2 DEF RecognizeEventIdentity
  <2>3. PICK c \in In(p, f, "lookup") : t = Fact("EVENT_IDENTITY_GUARD", "LOOKUP_AND_RECORD", c)
    BY <2>1
  <2>2. t.concept = "EVENT_IDENTITY_GUARD" /\ t.context = c /\ c \in Statements(p, f)
    BY <2>3 DEF Fact, In
  <2> QED
    BY <2>2 DEF FactConcepts
<1>8. ASSUME NEW t \in a.acknowledgements
      PROVE  /\ t.concept \in FactConcepts
             /\ t.context.at = 0 \/ (t.context.at # 0 /\ t.context \in Statements(p, Owner(p)))
  <2>1. t \in RecognizeAcknowledgements(p)
    BY <1>1
  <2>2. \/ \E c \in Statements(p, Owner(p)) : \E of : t = Fact("ACKNOWLEDGEMENT_BOUNDARY", of, c)
        \/ t = Fact("ACKNOWLEDGEMENT_BOUNDARY", "SUCCESS_2XX", [at |-> 0, symbol |-> Owner(p)])
    BY <2>1 DEF RecognizeAcknowledgements
  <2> QED
    BY <2>2 DEF Fact, FactConcepts
<1> QED
  BY <1>3, <1>4, <1>5, <1>6, <1>7, <1>8 DEF a, Guarded, Guards

-----------------------------------------------------------------------------
(* What the edges of a graph were drawn from.                               *)
EdgeOfRoute(p, a, e) ==
  \/ e.kind = "CALLS"
  \/ /\ e.kind = "GUARDS" /\ e.from \in Guards(a) /\ e.to \in Guarded(a)
     /\ ContextDominates(GuardContext(p, a, e.from, e.to), e.to.context)
  \/ /\ e.kind = "BRANCHES_TO" /\ e.from \in a.gates /\ e.to \in Recognized(a)
     /\ e.to.context.at # 0 /\ e.branch \in BranchControls(e.from.context, e.to.context)
  \/ /\ e.kind = "ACKNOWLEDGES_AFTER" /\ e.from \in a.acknowledgements /\ e.to \in Guarded(a)
     /\ WorkPrecedesAck(p, e.to.context, e.from)

EdgeToCustomer(p, a, e) ==
  LET path == a.paths[p.customer]
  IN  /\ e.to = Fact("CUSTOMER_VALUE_ACTION", "NONE", [at |-> 0, symbol |-> p.customer])
      /\ p.customer # 0 /\ p.customer \in DOMAIN a.paths
      /\ e.kind # "CALLS" => path # <<>> /\ \A i \in DOMAIN path : DirectExecutionProven(path[i])
      /\ \/ e.kind = "CALLS"
         \/ e.kind = "BRANCHES_TO" /\ e.branch = "MATCHED" /\ e.from \in a.gates /\ ControlledPath(e.from, path)
         \/ e.kind = "ACKNOWLEDGES_AFTER" /\ e.from \in a.acknowledgements /\ WorkPrecedesAck(p, path[1], e.from)

LEMMA EdgeFields ==
  ASSUME NEW kind, NEW from, NEW to, NEW branch
  PROVE  LET e == Edge(kind, from, to, branch) IN e.kind = kind /\ e.from = from /\ e.to = to /\ e.branch = branch
BY DEF Edge

LEMMA RouteEdgesSay ==
  ASSUME NEW p, NEW a, NEW drawn \in RouteEdges(p, a)
  PROVE  EdgeOfRoute(p, a, drawn) /\ (drawn.kind # "CALLS" => drawn.to \in Recognized(a))
<1> DEFINE called == {Edge("CALLS", Ingress(p, a), f, "NONE") : f \in {x \in Recognized(a) : x.context.symbol # Owner(p)}}
           guarding == {Edge("GUARDS", e[1], e[2], "NONE") :
                        e \in {x \in Guards(a) \X Guarded(a) : /\ x[1] # x[2]
                                                               /\ ContextDominates(GuardContext(p, a, x[1], x[2]), x[2].context)}}
           branching == UNION {{Edge("BRANCHES_TO", e[1], e[2], d) : d \in BranchControls(e[1].context, e[2].context)} :
                               e \in a.gates \X {f \in Recognized(a) : f.context.at # 0}}
           acknowledging == {Edge("ACKNOWLEDGES_AFTER", e[1], e[2], "NONE") :
                             e \in {x \in a.acknowledgements \X Guarded(a) : WorkPrecedesAck(p, x[2].context, x[1])}}
<1>7. RouteEdges(p, a) = called \cup guarding \cup branching \cup acknowledging
  BY DEF RouteEdges
<1>1. drawn \in called \/ drawn \in guarding \/ drawn \in branching \/ drawn \in acknowledging
  <2> HIDE DEF called, guarding, branching, acknowledging
  <2> QED
    BY <1>7
<1>2. Guarded(a) \subseteq Recognized(a)
  BY DEF Recognized
<1>3. ASSUME drawn \in called PROVE drawn.kind = "CALLS"
  BY <1>3, EdgeFields
<1>4. ASSUME drawn \in guarding
      PROVE  /\ drawn.kind = "GUARDS" /\ drawn.from \in Guards(a) /\ drawn.to \in Guarded(a)
             /\ ContextDominates(GuardContext(p, a, drawn.from, drawn.to), drawn.to.context)
  <2>1. PICK from \in Guards(a), to \in Guarded(a) : /\ drawn = Edge("GUARDS", from, to, "NONE")
                                                     /\ ContextDominates(GuardContext(p, a, from, to), to.context)
    BY <1>4
  <2> QED
    BY <2>1, EdgeFields
<1>5. ASSUME drawn \in branching
      PROVE  /\ drawn.kind = "BRANCHES_TO" /\ drawn.from \in a.gates /\ drawn.to \in Recognized(a)
             /\ drawn.to.context.at # 0 /\ drawn.branch \in BranchControls(drawn.from.context, drawn.to.context)
  <2>1. PICK from \in a.gates, to \in Recognized(a) :
          /\ to.context.at # 0
          /\ \E d \in BranchControls(from.context, to.context) : drawn = Edge("BRANCHES_TO", from, to, d)
    BY <1>5
  <2> QED
    BY <2>1, EdgeFields
<1>6. ASSUME drawn \in acknowledging
      PROVE  /\ drawn.kind = "ACKNOWLEDGES_AFTER" /\ drawn.from \in a.acknowledgements /\ drawn.to \in Guarded(a)
             /\ WorkPrecedesAck(p, drawn.to.context, drawn.from)
  <2>1. PICK from \in a.acknowledgements, to \in Guarded(a) : /\ drawn = Edge("ACKNOWLEDGES_AFTER", from, to, "NONE")
                                                             /\ WorkPrecedesAck(p, to.context, from)
    BY <1>6
  <2> QED
    BY <2>1, EdgeFields
<1> HIDE DEF called, guarding, branching, acknowledging
<1> QED
  BY <1>1, <1>2, <1>3, <1>4, <1>5, <1>6 DEF EdgeOfRoute

LEMMA RouteEdgesOfGraph ==
  ASSUME NEW p, NEW a
  PROVE  /\ RouteGraph(p, a).edges = IF a.ingress = "NONE" THEN {} ELSE RouteEdges(p, a)
         /\ a.ingress # "NONE" => Ingress(p, a) \in RouteGraph(p, a).nodes
BY DEF RouteGraph

LEMMA ProjectedEdges ==
  ASSUME NEW p, NEW a, NEW e \in ProjectCustomerValue(p, a).edges
  PROVE  e \in RouteGraph(p, a).edges \/ EdgeToCustomer(p, a, e)
<1> DEFINE g == RouteGraph(p, a)
           customer == Fact("CUSTOMER_VALUE_ACTION", "NONE", [at |-> 0, symbol |-> p.customer])
           ingress == {n \in g.nodes : n.concept = "PAYMENT_INGRESS"}
           path == a.paths[p.customer]
           gaps == {i \in DOMAIN path : ~DirectExecutionProven(path[i])}
           calls == {Edge("CALLS", n, customer, "NONE") : n \in ingress}
           control == {Edge("BRANCHES_TO", s, customer, "MATCHED") : s \in {x \in a.gates : ControlledPath(x, path)}}
                        \cup {Edge("ACKNOWLEDGES_AFTER", k, customer, "NONE") :
                              k \in {x \in a.acknowledgements : WorkPrecedesAck(p, path[1], x)}}
<1>1. \/ e \in g.edges
      \/ /\ p.customer # 0 /\ p.customer \in DOMAIN a.paths
         /\ e \in calls \/ (path # <<>> /\ gaps = {} /\ e \in control)
  <2>1. CASE p.customer = 0
    BY <2>1 DEF ProjectCustomerValue
  <2>2. CASE p.customer # 0 /\ (p.customer \notin DOMAIN a.paths \/ ingress = {})
    <3>1. ProjectCustomerValue(p, a) = [g EXCEPT !.nodes = @ \cup {customer}]
      BY <2>2 DEF ProjectCustomerValue
    <3>2. [g EXCEPT !.nodes = @ \cup {customer}].edges = g.edges
      BY DEF RouteGraph
    <3> QED
      BY <3>1, <3>2
  <2>3. CASE ~(p.customer = 0) /\ ~(p.customer # 0 /\ (p.customer \notin DOMAIN a.paths \/ ingress = {}))
    <3>1. ProjectCustomerValue(p, a).edges = g.edges \cup calls \cup (IF path # <<>> /\ gaps = {} THEN control ELSE {})
      BY <2>3 DEF ProjectCustomerValue
    <3> QED
      BY <2>3, <3>1
  <2> QED
    BY <2>1, <2>2, <2>3
<1>2. ASSUME p.customer # 0, p.customer \in DOMAIN a.paths, e \in calls PROVE EdgeToCustomer(p, a, e)
  BY <1>2, EdgeFields DEF EdgeToCustomer
<1>3. ASSUME p.customer # 0, p.customer \in DOMAIN a.paths, path # <<>>, gaps = {}, e \in control PROVE EdgeToCustomer(p, a, e)
  <2>1. \A i \in DOMAIN path : DirectExecutionProven(path[i])
    BY <1>3
  <2>2. \/ \E s \in a.gates : ControlledPath(s, path) /\ e = Edge("BRANCHES_TO", s, customer, "MATCHED")
        \/ \E k \in a.acknowledgements : WorkPrecedesAck(p, path[1], k) /\ e = Edge("ACKNOWLEDGES_AFTER", k, customer, "NONE")
    BY <1>3
  <2> QED
    BY <1>3, <2>1, <2>2, EdgeFields DEF EdgeToCustomer
<1> QED
  BY <1>1, <1>2, <1>3

(* An edge to a fact is one of the route, and one to the customer value is  *)
(* not.                                                                     *)
LEMMA EdgesApart ==
  ASSUME NEW p, IsCollected(p), NEW e \in ProjectCustomerValue(p, Analysis(p)).edges, e.kind # "CALLS"
  PROVE  /\ e.to.concept \in FactConcepts => EdgeOfRoute(p, Analysis(p), e)
         /\ e.to.concept = "CUSTOMER_VALUE_ACTION" => EdgeToCustomer(p, Analysis(p), e)
<1> DEFINE a == Analysis(p)
<1>1. \A t \in Recognized(a) : t.concept \in FactConcepts
  BY FactsSay DEF Recognized
<1>2. ASSUME e \in RouteGraph(p, a).edges PROVE EdgeOfRoute(p, a, e) /\ e.to.concept \in FactConcepts
  <2>1. e \in RouteEdges(p, a)
    BY <1>2, RouteEdgesOfGraph
  <2> QED
    BY <1>1, <2>1, RouteEdgesSay
<1>3. ASSUME EdgeToCustomer(p, a, e) PROVE e.to.concept = "CUSTOMER_VALUE_ACTION"
  BY <1>3 DEF EdgeToCustomer, Fact
<1>4. e \in RouteGraph(p, a).edges \/ EdgeToCustomer(p, a, e)
  BY ProjectedEdges
<1> QED
  BY <1>2, <1>3, <1>4 DEF FactConcepts

LEMMA PathsOfAnalysis ==
  ASSUME NEW p, IsCollected(p)
  PROVE  LET paths == Analysis(p).paths
         IN  /\ DOMAIN paths = DOMAIN CallPaths(p) /\ DOMAIN paths \subseteq Functions(p)
             /\ \A f \in DOMAIN paths : f \in Functions(p) /\ PathIs(p, paths[f], f)
<1>1. Analysis(p).paths = CallPaths(p)
  BY AnalysisSays
<1> QED
  BY <1>1, CallPathsAreCalls

LEMMA GuardingEdges ==
  ASSUME NEW p, IsCollected(p), NEW e, e.kind = "GUARDS", EdgeOfRoute(p, Analysis(p), e), Claimed(p, Analysis(p), e)
  PROVE  ~Takes(p, IF e.from.concept = "TRUST_GATE" THEN [Undecided EXCEPT !.forged = TRUE]
                   ELSE [Undecided EXCEPT !.seen = "yes"], e.to.context.at)
<1> DEFINE a == Analysis(p)
           fs == DOMAIN CallPaths(p)
<1>1. /\ \A t \in a.trust : \E f \in fs : t \in RecognizeTrust(p, a.paths[f], f)
      /\ \A t \in a.identities : \E f \in fs : \E mutations : t \in RecognizeEventIdentity(p, f, mutations)
  BY AnalysisSays
<1>2. fs \subseteq Functions(p) /\ \A f \in fs : PathIs(p, a.paths[f], f)
  BY PathsOfAnalysis
<1> HIDE DEF a, fs
<1>3. /\ e.from \in Guards(a) /\ e.to \in Guarded(a)
      /\ ContextDominates(GuardContext(p, a, e.from, e.to), e.to.context) /\ Claimed(p, a, e)
  BY DEF EdgeOfRoute, a
<1>4. PICK h \in Functions(p) : e.to.context \in Statements(p, h)
  BY <1>3, FactsSay DEF a
<1>5. CASE e.from \in a.trust
  <2>1. PICK f \in fs : e.from \in RecognizeTrust(p, a.paths[f], f)
    BY <1>1, <1>5
  <2>2. f \in Functions(p) /\ PathIs(p, a.paths[f], f)
    BY <1>2, <2>1
  <2>3. e.from.concept = "TRUST_GATE"
    BY <2>1, TrustSays
  <2>4. ~Takes(p, [Undecided EXCEPT !.forged = TRUE], e.to.context.at)
    BY ONLY IsCollected(p), <1>3, <1>4, <2>1, <2>2, TrustGuards
  <2> QED
    BY <2>3, <2>4
<1>6. CASE e.from \in a.identities
  <2>1. PICK f \in fs : \E mutations : e.from \in RecognizeEventIdentity(p, f, mutations)
    BY <1>1, <1>6
  <2>2. PICK mutations : e.from \in RecognizeEventIdentity(p, f, mutations)
    BY <2>1
  <2>3. f \in Functions(p) /\ PathIs(p, a.paths[f], f)
    BY <1>2, <2>1
  <2>4. e.from.concept = "EVENT_IDENTITY_GUARD" /\ ~Takes(p, [Undecided EXCEPT !.seen = "yes"], e.to.context.at)
    BY ONLY IsCollected(p), <1>3, <1>4, <2>2, <2>3, IdentityGuards
  <2> QED
    BY <2>4
<1> QED
  BY <1>3, <1>5, <1>6 DEF Guards

LEMMA BranchingEdges ==
  ASSUME NEW p, IsCollected(p), NEW e, e.kind = "BRANCHES_TO", EdgeOfRoute(p, Analysis(p), e),
         NEW event \in {"captured", "failed"}, Excludes(e.from.context, e.branch, event)
  PROVE  ~Takes(p, [Undecided EXCEPT !.event = event], e.to.context.at)
<1> DEFINE a == Analysis(p)
<1>1. /\ e.from \in a.gates /\ e.to \in Recognized(a) /\ e.to.context.at # 0
      /\ e.branch \in BranchControls(e.from.context, e.to.context)
  BY DEF EdgeOfRoute
<1>2. PICK f \in Functions(p) : \E c \in In(p, f, "state") : e.from = Fact("PAYMENT_STATE_GATE", Role(c).operator, c)
  BY <1>1, FactsSay
<1>3. PICK c \in In(p, f, "state") : e.from = Fact("PAYMENT_STATE_GATE", Role(c).operator, c)
  BY <1>2
<1>4. e.from.context = c
  BY <1>3 DEF Fact
<1>5. \E h \in Functions(p) : e.to.context \in Statements(p, h)
  <2>1. Owner(p) \in Functions(p)
    BY FunctionsAreBlocks DEF IsCollected
  <2> QED
    BY <1>1, <2>1, FactsSay DEF Recognized
<1>6. PICK h \in Functions(p) : e.to.context \in Statements(p, h)
  BY <1>5
<1>7. e.branch \in BranchControls(c, e.to.context) /\ Excludes(c, e.branch, event)
  BY <1>1, <1>4
<1> QED
  BY ONLY IsCollected(p), f \in Functions(p), <1>3, <1>6, <1>7, event \in {"captured", "failed"}, GateBranches

(* The work has been executed when the acknowledgement begins.              *)
ExecutedBefore(p, work, k) ==
  ToldOf(p, work) =>
    \A o \in RouteExecutions(p, Undecided) :
      IF k.context.at # 0 THEN <<work.at, k.context.at>> \notin o.early
      ELSE work.regions = <<>> /\ o.exit = "next" => work.at \in o.done

LEMMA AcknowledgedWork ==
  ASSUME NEW p, IsCollected(p), NEW k \in Analysis(p).acknowledgements, NEW f \in Functions(p), NEW work \in Statements(p, f),
         WorkPrecedesAck(p, work, k)
  PROVE  ExecutedBefore(p, work, k)
<1>1. k.context.at = 0 \/ (k.context.at # 0 /\ k.context \in Statements(p, Owner(p)))
  BY FactsSay
<1>2. ASSUME ToldOf(p, work), NEW o \in RouteExecutions(p, Undecided)
      PROVE  IF k.context.at # 0 THEN <<work.at, k.context.at>> \notin o.early
             ELSE work.regions = <<>> /\ o.exit = "next" => work.at \in o.done
  BY ONLY IsCollected(p), f \in Functions(p), work \in Statements(p, f), <1>1, WorkPrecedesAck(p, work, k), <1>2, WorkIsDone
<1> QED
  BY <1>2 DEF ExecutedBefore

LEMMA AcknowledgingEdges ==
  ASSUME NEW p, IsCollected(p), NEW e, e.kind = "ACKNOWLEDGES_AFTER", EdgeOfRoute(p, Analysis(p), e)
  PROVE  ExecutedBefore(p, e.to.context, e.from)
<1> DEFINE a == Analysis(p)
<1>1. e.from \in a.acknowledgements /\ e.to \in Guarded(a) /\ WorkPrecedesAck(p, e.to.context, e.from)
  BY DEF EdgeOfRoute
<1>2. PICK f \in Functions(p) : e.to.context \in Statements(p, f)
  BY <1>1, FactsSay
<1> QED
  BY <1>1, <1>2, AcknowledgedWork

LEMMA CustomerBranchingEdges ==
  ASSUME NEW p, IsCollected(p), NEW e, e.kind = "BRANCHES_TO", EdgeToCustomer(p, Analysis(p), e),
         NEW event \in {"captured", "failed"}, Excludes(e.from.context, e.branch, event),
         OnlyWay(p, Analysis(p).paths[p.customer])
  PROVE  ~Takes(p, [Undecided EXCEPT !.event = event], p.functions[p.customer].first)
<1> DEFINE a == Analysis(p)
           path == a.paths[p.customer]
<1>1. /\ e.from \in a.gates /\ e.branch = "MATCHED" /\ ControlledPath(e.from, path) /\ p.customer \in DOMAIN a.paths
  BY DEF EdgeToCustomer
<1>2. p.customer \in Functions(p) /\ PathIs(p, path, p.customer)
  BY <1>1, PathsOfAnalysis
<1>3. PICK f \in Functions(p) : \E c \in In(p, f, "state") : e.from = Fact("PAYMENT_STATE_GATE", Role(c).operator, c)
  BY <1>1, FactsSay
<1>4. PICK c \in In(p, f, "state") : e.from = Fact("PAYMENT_STATE_GATE", Role(c).operator, c)
  BY <1>3
<1>5. e.from.context = c
  BY <1>4 DEF Fact
<1> HIDE DEF a, path
<1>6. ControlledPath(Fact("PAYMENT_STATE_GATE", Role(c).operator, c), path) /\ Excludes(c, "MATCHED", event)
  BY <1>1, <1>4, <1>5
<1>7. OnlyWay(p, path)
  BY DEF path, a
<1> QED
  BY ONLY IsCollected(p), <1>2, <1>4, <1>6, <1>7, event \in {"captured", "failed"}, CustomerBranches

LEMMA CustomerAcknowledgingEdges ==
  ASSUME NEW p, IsCollected(p), NEW e, e.kind = "ACKNOWLEDGES_AFTER", EdgeToCustomer(p, Analysis(p), e)
  PROVE  LET path == Analysis(p).paths[p.customer]
         IN  /\ ExecutedBefore(p, path[1], e.from)
             /\ \A o \in RouteExecutions(p, Undecided) :
                  path[Len(path)].at \in o.done => p.functions[p.customer].first \in BegunBy(o)
<1> DEFINE a == Analysis(p)
           path == a.paths[p.customer]
<1>1. /\ e.from \in a.acknowledgements /\ WorkPrecedesAck(p, path[1], e.from) /\ p.customer \in DOMAIN a.paths
      /\ path # <<>> /\ \A i \in DOMAIN path : DirectExecutionProven(path[i])
  BY DEF EdgeToCustomer
<1>2. p.customer \in Functions(p) /\ PathIs(p, path, p.customer)
  BY <1>1, PathsOfAnalysis
<1> HIDE DEF a, path
<1>3. path \in Seq(Invocations(p)) /\ Role(path[Len(path)]).callee = p.customer
  BY <1>1, <1>2 DEF PathIs
<1>4. 1 \in DOMAIN path /\ Len(path) \in DOMAIN path /\ path[1] \in Invocations(p) /\ path[Len(path)] \in Invocations(p)
  BY <1>1, <1>3
<1>5. ExecutedBefore(p, path[1], e.from)
  <2>1. path[1].symbol \in Functions(p) /\ path[1] \in Statements(p, path[1].symbol)
    BY <1>4, InvocationsAreCalls
  <2> QED
    BY <1>1, <2>1, AcknowledgedWork DEF a
<1>6. Role(path[Len(path)]).how # "detached"
  BY <1>1, <1>4 DEF DirectExecutionProven
<1>7. ASSUME NEW o \in RouteExecutions(p, Undecided), path[Len(path)].at \in o.done
      PROVE  p.functions[p.customer].first \in BegunBy(o)
  <2>1. p.functions[p.customer].first \in o.done
    BY ONLY IsCollected(p), <1>2, <1>3, <1>4, <1>6, <1>7, CustomerIsDelivered
  <2> QED
    BY <2>1 DEF BegunBy
<1> QED
  BY <1>5, <1>7 DEF a, path

LEMMA DeliveredIsEligible ==
  ASSUME NEW p, IsCollected(p), p.customer # 0, Analysis(p).ingress # "NONE",
         Takes(p, Undecided, p.functions[p.customer].first)
  PROVE  FulfilmentEligible(ProjectCustomerValue(p, Analysis(p)), p.customer)
<1> DEFINE a == Analysis(p)
           g == ProjectCustomerValue(p, a)
           customer == Fact("CUSTOMER_VALUE_ACTION", "NONE", [at |-> 0, symbol |-> p.customer])
           ingress == {n \in RouteGraph(p, a).nodes : n.concept = "PAYMENT_INGRESS"}
           call == Edge("CALLS", Ingress(p, a), customer, "NONE")
<1>1. p.customer \in Functions(p)
  <2>1. p.customer \in 0 .. Len(p.functions)
    BY DEF IsCollected, ProjectValid
  <2>2. Len(p.functions) \in Nat
    BY DEF IsCollected, ProjectValid
  <2> QED
    BY <2>1, <2>2 DEF Functions, Owner
<1>2. p.customer \in DOMAIN a.paths
  BY <1>1, UnreachedIsNotBegun, PathsOfAnalysis
<1>3. Ingress(p, a) \in ingress
  BY RouteEdgesOfGraph DEF Ingress, Fact
<1>4. {Edge("CALLS", n, customer, "NONE") : n \in ingress} \subseteq g.edges
  BY <1>2, <1>3 DEF ProjectCustomerValue
<1>5. call \in g.edges
  BY <1>3, <1>4
<1> HIDE DEF a, g
<1>6. /\ call.kind = "CALLS" /\ call.from.concept = "PAYMENT_INGRESS" /\ call.to.concept = "CUSTOMER_VALUE_ACTION"
      /\ call.to.context.symbol = p.customer
  BY DEF Edge, Ingress, Fact
<1> HIDE DEF call
<1> QED
  BY <1>5, <1>6 DEF FulfilmentEligible, g, a

(* The six claims about the edges, clause by clause.                        *)
LEMMA EdgesHoldOfAnalysis ==
  ASSUME NEW p, IsCollected(p)
  PROVE  EdgesHold(p, Analysis(p), ProjectCustomerValue(p, Analysis(p)))
<1> DEFINE a == Analysis(p)
           g == ProjectCustomerValue(p, a)
           path == a.paths[p.customer]
           delivered == p.functions[p.customer].first
           RouteKind(kind) == {e \in g.edges : e.kind = kind /\ e.to.concept \in FactConcepts}
           CustomerKind(kind) == {e \in g.edges : e.kind = kind /\ e.to.concept \in {"CUSTOMER_VALUE_ACTION"}}
<1> HIDE DEF a, g
<1>1. ASSUME NEW e \in RouteKind("GUARDS"), Claimed(p, a, e)
      PROVE  ~Takes(p, IF e.from.concept = "TRUST_GATE" THEN [Undecided EXCEPT !.forged = TRUE]
                       ELSE [Undecided EXCEPT !.seen = "yes"], e.to.context.at)
  <2>1. EdgeOfRoute(p, Analysis(p), e)
    BY <1>1, EdgesApart DEF a, g
  <2> QED
    BY <1>1, <2>1, GuardingEdges DEF a
<1>2. ASSUME NEW e \in RouteKind("BRANCHES_TO"), NEW event \in {"captured", "failed"}, Excludes(e.from.context, e.branch, event)
      PROVE  ~Takes(p, [Undecided EXCEPT !.event = event], e.to.context.at)
  <2>1. EdgeOfRoute(p, Analysis(p), e)
    BY <1>2, EdgesApart DEF a, g
  <2> QED
    BY <1>2, <2>1, BranchingEdges
<1>3. ASSUME NEW e \in RouteKind("ACKNOWLEDGES_AFTER")
      PROVE  ExecutedBefore(p, e.to.context, e.from)
  <2>1. EdgeOfRoute(p, Analysis(p), e)
    BY <1>3, EdgesApart DEF a, g
  <2> QED
    BY <1>3, <2>1, AcknowledgingEdges
<1>4. ASSUME NEW e \in CustomerKind("BRANCHES_TO"), NEW event \in {"captured", "failed"},
             Excludes(e.from.context, e.branch, event), OnlyWay(p, path)
      PROVE  ~Takes(p, [Undecided EXCEPT !.event = event], delivered)
  <2>1. EdgeToCustomer(p, Analysis(p), e)
    BY <1>4, EdgesApart DEF a, g
  <2> QED
    BY <1>4, <2>1, CustomerBranchingEdges DEF a
<1>5. ASSUME NEW e \in CustomerKind("ACKNOWLEDGES_AFTER")
      PROVE  /\ ExecutedBefore(p, path[1], e.from)
             /\ \A o \in RouteExecutions(p, Undecided) : path[Len(path)].at \in o.done => delivered \in BegunBy(o)
  <2>1. EdgeToCustomer(p, Analysis(p), e)
    BY <1>5, EdgesApart DEF a, g
  <2> QED
    BY <1>5, <2>1, CustomerAcknowledgingEdges DEF a
<1>6. p.customer # 0 /\ a.ingress # "NONE" /\ Takes(p, Undecided, delivered) => FulfilmentEligible(g, p.customer)
  BY DeliveredIsEligible DEF a, g
<1>7. /\ \A e \in RouteKind("GUARDS") :
           Claimed(p, a, e) =>
             ~Takes(p, IF e.from.concept = "TRUST_GATE" THEN [Undecided EXCEPT !.forged = TRUE]
                       ELSE [Undecided EXCEPT !.seen = "yes"], e.to.context.at)
      /\ \A e \in RouteKind("BRANCHES_TO"), event \in {"captured", "failed"} :
           Excludes(e.from.context, e.branch, event) => ~Takes(p, [Undecided EXCEPT !.event = event], e.to.context.at)
      /\ \A e \in RouteKind("ACKNOWLEDGES_AFTER") : ExecutedBefore(p, e.to.context, e.from)
      /\ \A e \in CustomerKind("BRANCHES_TO"), event \in {"captured", "failed"} :
           Excludes(e.from.context, e.branch, event) /\ OnlyWay(p, path) => ~Takes(p, [Undecided EXCEPT !.event = event], delivered)
      /\ \A e \in CustomerKind("ACKNOWLEDGES_AFTER") :
           /\ ExecutedBefore(p, path[1], e.from)
           /\ \A o \in RouteExecutions(p, Undecided) : path[Len(path)].at \in o.done => delivered \in BegunBy(o)
  <2> HIDE DEF RouteKind, CustomerKind, path, delivered
  <2> QED
    BY <1>1, <1>2, <1>3, <1>4, <1>5
<1> QED
  BY <1>6, <1>7, Zenon DEF EdgesHold, Excludes, ExecutedBefore, FactConcepts, a, g

-----------------------------------------------------------------------------
(* The edges of the graph are true of every execution of the route, for     *)
(* every project and every request: what a verification guards is not begun *)
(* on a forged request, nor what an event's identity guards on one that was *)
(* seen; what a payment state branches to is not begun in another state;    *)
(* and what is acknowledged after the work is answered when the work has    *)
(* been executed to its end (_construct_route_graph of service.py,          *)
(* project_customer_value of semantic_projection.py).                       *)
THEOREM EdgesOfGraphs == GraphInit /\ [][UNCHANGED project]_project => []EdgesAreTrue
<1> DEFINE Analysed == \E p \in Projects : project = <<Collected(p)>>
<1>1. GraphInit => Analysed
  BY DEF GraphInit
<1>2. Analysed /\ [UNCHANGED project]_project => Analysed'
  OBVIOUS
<1>3. Analysed => EdgesAreTrue
  <2>1. SUFFICES ASSUME NEW p \in Projects, project = <<Collected(p)>> PROVE EdgesAreTrue
    OBVIOUS
  <2> DEFINE q == Collected(p)
  <2>2. IsCollected(q)
    BY ProjectsAssumption, CollectedIsCollected
  <2> HIDE DEF q
  <2>3. project[1] = q
    BY <2>1 DEF q
  <2>4. EdgesHold(q, Analysis(q), ProjectCustomerValue(q, Analysis(q)))
    BY <2>2, EdgesHoldOfAnalysis
  <2> QED
    BY <2>3, <2>4 DEF EdgesAreTrue
<1> HIDE DEF Analysed
<1> QED
  BY <1>1, <1>2, <1>3, PTL
=============================================================================
