---------------------------- MODULE TextTheorems -----------------------------
(***************************************************************************)
(* What is so of the texts of PromptRendering, JsonExtraction and          *)
(* BackendAdapters, whatever the texts: the folds over their symbols take  *)
(* one step after the other, what is rendered, sent, stripped and decoded  *)
(* is what it is meant to be, and what the adapters say agrees.            *)
(***************************************************************************)
EXTENDS BackendAdapters, PromptRendering, SumTheorems, SequenceTheorems, TLAPS

-----------------------------------------------------------------------------
(***************************************************************************)
(* Folds.  A step is a function, for the provers do not instantiate        *)
(* theorems about operators.                                               *)
(***************************************************************************)

\* The greatest of a set of places.
LEMMA GreatestFacts ==
    ASSUME NEW n \in Nat, NEW s \in SUBSET (1..n), s # {}
    PROVE  Max(s) \in s /\ \A i \in s : i <= Max(s)
<1> DEFINE T == {k \in Nat : \A R \in SUBSET (1..k) : R # {} => \E x \in R : \A y \in R : x >= y}
<1>1. 0 \in T
  BY 1..0 = {}
<1>2. ASSUME NEW k \in T PROVE k + 1 \in T
  <2> SUFFICES ASSUME NEW R \in SUBSET (1..(k + 1)), R # {}
               PROVE  \E x \in R : \A y \in R : x >= y
    OBVIOUS
  <2>1. CASE k + 1 \in R
    BY <2>1
  <2>2. CASE k + 1 \notin R
    <3>1. R \in SUBSET (1..k)
      BY <2>2
    <3> QED
      BY <3>1
  <2> QED
    BY <2>1, <2>2
<1> HIDE DEF T
<1>3. T \in SUBSET Nat
  BY DEF T
<1>4. T = Nat
  BY <1>1, <1>2, <1>3, NatSetInduction
<1>5. \E x \in s : \A y \in s : x >= y
  BY <1>4 DEF T
<1>6. Max(s) \in s /\ \A y \in s : Max(s) >= y
  BY <1>5 DEF Max
<1> QED
  BY <1>6

\* The least of a set of places.
LEMMA MinFacts ==
    ASSUME NEW S \in SUBSET Nat, S # {}
    PROVE  Min(S) \in S /\ \A i \in S : Min(S) <= i
<1>1. PICK x \in S : \A y \in S : ~(<<y, x>> \in OpToRel(<, Nat))
  BY NatLessThanWellFounded, WFMin
<1>2. ASSUME NEW y \in S, y < x PROVE FALSE
  <2>1. x \in Nat /\ y \in Nat
    OBVIOUS
  <2>2. <<y, x>> \in OpToRel(<, Nat)
    BY <1>2, <2>1 DEF OpToRel
  <2> QED
    BY <1>1, <2>2
<1>3. \A y \in S : x <= y
  BY <1>2
<1> QED
  BY <1>3 DEF Min

\* The states from base on, step by step.
Steps(g, S, base, n, step) ==
    g \in [0..n -> S] /\ g[0] = base /\ \A i \in 1..n : g[i] = step[i][g[i - 1]]

\* From any base on, the steps can be taken one after the other.
LEMMA StepsExist ==
    ASSUME NEW S, NEW base \in S, NEW n \in Nat, NEW step \in [1..n -> [S -> S]]
    PROVE  \E g : Steps(g, S, base, n, step)
<1> DEFINE Good(g, k) == g[0] = base /\ \A i \in 1..k : g[i] = step[i][g[i - 1]]
           Exists(k) == \E g \in [0..k -> S] : Good(g, k)
           T == {k \in Nat : k <= n => Exists(k)}
<1>1. Exists(0)
  <2> DEFINE g == [i \in 0..0 |-> base]
  <2>1. g \in [0..0 -> S] /\ Good(g, 0)
    OBVIOUS
  <2> QED
    BY <2>1
<1>2. ASSUME NEW k \in Nat, k + 1 <= n, Exists(k) PROVE Exists(k + 1)
  <2>1. PICK h \in [0..k -> S] : Good(h, k)
    BY <1>2
  <2> DEFINE g == [i \in 0..(k + 1) |-> IF i = k + 1 THEN step[k + 1][h[k]] ELSE h[i]]
  <2>2. step[k + 1][h[k]] \in S
    <3>1. k + 1 \in 1..n /\ k \in 0..k
      BY <1>2
    <3> QED
      BY <3>1
  <2>3. g \in [0..(k + 1) -> S]
    BY <2>2
  <2>4. \A i \in 0..k : g[i] = h[i]
    OBVIOUS
  <2>5. g[k + 1] = step[k + 1][h[k]]
    OBVIOUS
  <2> HIDE DEF g
  <2>6. \A i \in 1..(k + 1) : g[i] = step[i][g[i - 1]]
    <3> SUFFICES ASSUME NEW i \in 1..(k + 1) PROVE g[i] = step[i][g[i - 1]]
      OBVIOUS
    <3>1. CASE i = k + 1
      BY <2>4, <2>5, <3>1
    <3>2. CASE i # k + 1
      BY <2>1, <2>4, <3>2
    <3> QED
      BY <3>1, <3>2
  <2> QED
    BY <2>1, <2>3, <2>4, <2>6
<1> HIDE DEF Exists
<1>3. 0 \in T /\ \A k \in T : k + 1 \in T
  BY <1>1, <1>2
<1> HIDE DEF T
<1>4. T \in SUBSET Nat
  BY DEF T
<1>5. T = Nat
  BY <1>3, <1>4, NatSetInduction
<1>6. Exists(n)
  BY <1>5 DEF T
<1> QED
  BY <1>6 DEF Exists, Steps

\* The function by which a fold over the places 1 to n is defined.
Folds(f, S, base, n, step) ==
    /\ f \in [SUBSET (1..n) -> S]
    /\ \A s \in SUBSET (1..n) :
          f[s] = IF s = {} THEN base ELSE step[Max(s)][f[s \ {Max(s)}]]

\* The function that a fold is defined by exists, and gives what the last step does.
LEMMA FoldExists ==
    ASSUME NEW S, NEW base \in S, NEW n \in Nat, NEW step \in [1..n -> [S -> S]]
    PROVE  \E f : Folds(f, S, base, n, step)
<1> DEFINE Good(f, k) == \A s \in SUBSET (1..k) :
               f[s] = IF s = {} THEN base ELSE step[Max(s)][f[s \ {Max(s)}]]
           Exists(k) == \E f \in [SUBSET (1..k) -> S] : Good(f, k)
           T == {k \in Nat : k <= n => Exists(k)}
<1>1. Exists(0)
  <2> DEFINE f == [s \in SUBSET (1..0) |-> base]
  <2>1. f \in [SUBSET (1..0) -> S]
    OBVIOUS
  <2>2. \A s \in SUBSET (1..0) : s = {} /\ f[s] = base
    OBVIOUS
  <2> QED
    BY <2>1, <2>2
<1>2. ASSUME NEW k \in Nat, k + 1 <= n, Exists(k) PROVE Exists(k + 1)
  <2>1. PICK h \in [SUBSET (1..k) -> S] : Good(h, k)
    BY <1>2
  <2> DEFINE f == [s \in SUBSET (1..(k + 1)) |->
                      IF k + 1 \in s THEN step[k + 1][h[s \ {k + 1}]] ELSE h[s]]
  <2>2. \A s \in SUBSET (1..(k + 1)) : s \ {k + 1} \in SUBSET (1..k)
    OBVIOUS
  <2>3. ASSUME NEW s \in SUBSET (1..(k + 1)), k + 1 \in s
        PROVE  step[k + 1][h[s \ {k + 1}]] \in S
    <3>1. k + 1 \in 1..n /\ s \ {k + 1} \in SUBSET (1..k)
      BY <1>2, <2>2
    <3>2. h[s \ {k + 1}] \in S /\ step[k + 1] \in [S -> S]
      BY <3>1
    <3> QED
      BY <3>2
  <2>4. f \in [SUBSET (1..(k + 1)) -> S]
    <3> SUFFICES ASSUME NEW s \in SUBSET (1..(k + 1))
                 PROVE  (IF k + 1 \in s THEN step[k + 1][h[s \ {k + 1}]] ELSE h[s]) \in S
      OBVIOUS
    <3>1. CASE k + 1 \in s
      BY <2>3, <3>1
    <3>2. CASE k + 1 \notin s
      <4>1. s \in SUBSET (1..k)
        BY <3>2
      <4> QED
        BY <3>2, <4>1
    <3> QED
      BY <3>1, <3>2
  <2>5. \A s \in SUBSET (1..(k + 1)) :
            f[s] = IF k + 1 \in s THEN step[k + 1][h[s \ {k + 1}]] ELSE h[s]
    OBVIOUS
  <2> HIDE DEF f
  <2>6. \A s \in SUBSET (1..k) : s \in SUBSET (1..(k + 1)) /\ k + 1 \notin s
    OBVIOUS
  <2>7. \A s \in SUBSET (1..k) : f[s] = h[s]
    BY <2>5, <2>6
  <2>8. ASSUME NEW s \in SUBSET (1..(k + 1))
        PROVE  f[s] = IF s = {} THEN base ELSE step[Max(s)][f[s \ {Max(s)}]]
    <3>1. CASE k + 1 \in s
      <4>1. Max(s) = k + 1
        <5>1. k + 1 \in Nat /\ s # {}
          BY <3>1
        <5>2. Max(s) \in s /\ \A i \in s : i <= Max(s)
          BY <5>1, GreatestFacts
        <5>3. Max(s) \in 1..(k + 1)
          BY <5>2
        <5> QED
          BY <3>1, <5>2, <5>3
      <4>2. f[s] = step[k + 1][h[s \ {k + 1}]] /\ f[s \ {k + 1}] = h[s \ {k + 1}] /\ s # {}
        BY <2>2, <2>5, <2>7, <3>1
      <4> QED
        BY <4>1, <4>2
    <3>2. CASE k + 1 \notin s
      <4>1. s \in SUBSET (1..k)
        BY <3>2
      <4>2. s \ {Max(s)} \in SUBSET (1..k)
        BY <4>1
      <4>3. h[s] = IF s = {} THEN base ELSE step[Max(s)][h[s \ {Max(s)}]]
        BY <2>1, <4>1
      <4> QED
        BY <2>7, <4>1, <4>2, <4>3
    <3> QED
      BY <3>1, <3>2
  <2> QED
    BY <2>4, <2>8
<1> HIDE DEF Exists
<1>3. 0 \in T /\ \A k \in T : k + 1 \in T
  BY <1>1, <1>2
<1> HIDE DEF T
<1>4. T \in SUBSET Nat
  BY DEF T
<1>5. T = Nat
  BY <1>3, <1>4, NatSetInduction
<1>6. Exists(n)
  BY <1>5 DEF T
<1> QED
  BY <1>6 DEF Exists, Folds

\* The greatest place of a sequence is its length.
LEMMA GreatestPlace ==
    ASSUME NEW k \in Nat
    PROVE  /\ 1..(k + 1) # {} /\ Max(1..(k + 1)) = k + 1
           /\ (1..(k + 1)) \ {k + 1} = 1..k
<1>1. k + 1 \in Nat /\ k + 1 \in 1..(k + 1)
  OBVIOUS
<1>2. /\ Max(1..(k + 1)) \in 1..(k + 1)
      /\ \A i \in 1..(k + 1) : i <= Max(1..(k + 1))
  BY <1>1, GreatestFacts
<1> QED
  BY <1>1, <1>2

\* A fold takes the steps in order.
LEMMA FoldAgrees ==
    ASSUME NEW n \in Nat, NEW g, NEW h, h[{}] = g[0],
           \A k \in Nat : k + 1 <= n /\ h[1..k] = g[k] => h[1..(k + 1)] = g[k + 1]
    PROVE  h[1..n] = g[n]
<1> DEFINE T == {k \in Nat : k <= n => h[1..k] = g[k]}
<1>1. 0 \in T
  <2>1. 1..0 = {}
    OBVIOUS
  <2> QED
    BY <2>1
<1>2. \A k \in T : k + 1 \in T
  OBVIOUS
<1> HIDE DEF T
<1>3. T \in SUBSET Nat
  BY DEF T
<1>4. T = Nat
  BY <1>1, <1>2, <1>3, NatSetInduction
<1> QED
  BY <1>4 DEF T

-----------------------------------------------------------------------------
(***************************************************************************)
(* json.loads: what its reader may come to.                                *)
(***************************************************************************)

Frames == {"{", "[", ":"}
Kinds == {"object", "array", "string"}

\* The states of json.loads.
Readers ==
    {r \in [state   : {"value", "string", "escape", "end", "bad"},
            open    : Seq(Frames),
            says    : Seq(Symbols),
            key     : Seq(Symbols),
            kind    : Kinds \union {"none"},
            members : SUBSET (Seq(Symbols) \X Kinds)] :
        /\ r.state = "end" => r.kind # "none" /\ r.open = << >>
        /\ r.state \in {"value", "string", "escape"} => r.kind = "none"}

\* The part of a sequence from one place to another.
LEMMA PartFacts ==
    ASSUME NEW S, NEW s \in Seq(S), NEW from \in Nat, NEW to \in Nat,
           1 <= from, from <= to + 1, to <= Len(s)
    PROVE  /\ SubSeq(s, from, to) \in Seq(S)
           /\ Len(SubSeq(s, from, to)) = to - from + 1
           /\ \A i \in 1..(to - from + 1) : SubSeq(s, from, to)[i] = s[from + i - 1]
<1>1. Len(s) \in Nat /\ \A i \in 1..Len(s) : s[i] \in S
  BY LenProperties, ElementOfSeq
<1>2. from \in Int /\ to \in Int /\ \A i \in from..to : s[i] \in S
  BY <1>1
<1>3. /\ SubSeq(s, from, to) \in Seq(S)
      /\ Len(SubSeq(s, from, to)) = IF from <= to THEN to - from + 1 ELSE 0
      /\ \A i \in 1..(to - from + 1) : SubSeq(s, from, to)[i] = s[from + i - 1]
  BY <1>2, SubSeqProperties
<1> QED
  BY <1>3

\* A stack but for its top is a stack.
LEMMA StackFacts ==
    ASSUME NEW S, NEW s \in Seq(S), s # << >>
    PROVE  /\ Last(s) \in S /\ Last(s) = s[Len(s)]
           /\ Front(s) \in Seq(S) /\ Len(Front(s)) = Len(s) - 1
           /\ \A i \in 1..(Len(s) - 1) : Front(s)[i] = s[i]
<1>1. Len(s) \in Nat /\ Len(s) # 0
  BY EmptySeq, LenProperties
<1>2. \A i \in 1..Len(s) : s[i] \in S
  BY ElementOfSeq
<1>3. 1 \in Nat /\ Len(s) - 1 \in Nat /\ 1 <= 1 /\ 1 <= (Len(s) - 1) + 1 /\ Len(s) - 1 <= Len(s)
  BY <1>1
<1>4. /\ SubSeq(s, 1, Len(s) - 1) \in Seq(S)
      /\ Len(SubSeq(s, 1, Len(s) - 1)) = (Len(s) - 1) - 1 + 1
      /\ \A i \in 1..((Len(s) - 1) - 1 + 1) : SubSeq(s, 1, Len(s) - 1)[i] = s[1 + i - 1]
  BY <1>3, PartFacts
<1> QED
  BY <1>1, <1>2, <1>4 DEF Last, Front

LEMMA ReaderIsReader == Reader \in Readers
BY EmptySeq DEF Reader, Readers

\* After a value the reader is in one of its states again.
LEMMA CompletedIsReader ==
    ASSUME NEW r \in Readers, r.state # "end", r.state # "bad", NEW kind \in Kinds
    PROVE  Completed(r, kind) \in Readers
<1>1. /\ r.open \in Seq(Frames) /\ r.says \in Seq(Symbols) /\ r.key \in Seq(Symbols)
      /\ r.members \in SUBSET (Seq(Symbols) \X Kinds)
      /\ r.kind = "none"
  BY DEF Readers
<1>2. CASE r.open = << >>
  <2>1. Completed(r, kind) = [r EXCEPT !.state = "end", !.kind = kind]
    BY <1>2 DEF Completed
  <2> QED
    BY <1>2, <2>1 DEF Readers, Kinds
<1>3. CASE r.open # << >>
  <2>1. Last(r.open) \in Frames /\ Front(r.open) \in Seq(Frames)
    BY <1>1, <1>3, StackFacts
  <2>2. \A f \in Frames : Append(Front(r.open), f) \in Seq(Frames)
    BY <2>1, AppendProperties
  <2>3. CASE Last(r.open) = "["
    <3>1. Completed(r, kind) = [r EXCEPT !.state = "value"]
      BY <1>3, <2>3 DEF Completed
    <3> QED
      BY <1>1, <3>1 DEF Readers
  <2>4. CASE Last(r.open) = "{"
    <3> DEFINE open == Append(Front(r.open), ":")
               key  == IF Len(r.open) = 1 THEN r.says ELSE r.key
    <3>1. Completed(r, kind) = [r EXCEPT !.state = "value", !.open = open, !.key = key]
      BY <1>3, <2>4 DEF Completed
    <3>2. open \in Seq(Frames) /\ key \in Seq(Symbols)
      BY <1>1, <2>2 DEF Frames
    <3> HIDE DEF open, key
    <3> QED
      BY <1>1, <3>1, <3>2 DEF Readers
  <2>5. CASE Last(r.open) = ":"
    <3> DEFINE open == Append(Front(r.open), "{")
               put  == {member \in r.members : member[1] # r.key} \union {<<r.key, kind>>}
               members == IF Len(r.open) = 1 THEN put ELSE r.members
    <3>1. Completed(r, kind) = [r EXCEPT !.state = "value", !.open = open, !.members = members]
      BY <1>3, <2>5 DEF Completed
    <3>2. open \in Seq(Frames)
      BY <2>2 DEF Frames
    <3>3. members \in SUBSET (Seq(Symbols) \X Kinds)
      BY <1>1
    <3> HIDE DEF open, members
    <3> QED
      BY <1>1, <3>1, <3>2, <3>3 DEF Readers
  <2> QED
    BY <2>1, <2>3, <2>4, <2>5 DEF Frames
<1> QED
  BY <1>2, <1>3

\* A symbol takes the reader from one of its states to another.
LEMMA ReadSymbolIsReader ==
    ASSUME NEW r \in Readers, NEW c \in Symbols
    PROVE  ReadSymbol(r, c) \in Readers
<1>1. /\ r.open \in Seq(Frames) /\ r.says \in Seq(Symbols) /\ r.key \in Seq(Symbols)
      /\ r.state \in {"value", "string", "escape", "end", "bad"}
  BY DEF Readers
<1>2. Bad(r) \in Readers
  BY DEF Readers, Bad
<1>3. [r EXCEPT !.says = Append(@, c)] \in Readers
  <2>1. Append(r.says, c) \in Seq(Symbols)
    BY <1>1, AppendProperties
  <2> QED
    BY <2>1 DEF Readers
<1>4. CASE r.state = "bad"
  BY <1>4 DEF ReadSymbol
<1>5. CASE r.state = "end"
  BY <1>2, <1>5 DEF ReadSymbol
<1>6. CASE r.state = "escape"
  <2>1. Append(r.says, c) \in Seq(Symbols)
    BY <1>1, AppendProperties
  <2>2. [r EXCEPT !.state = "string", !.says = Append(@, c)] \in Readers
    BY <1>6, <2>1 DEF Readers
  <2> QED
    BY <1>2, <1>6, <2>2 DEF ReadSymbol
<1>7. CASE r.state = "string"
  <2>1. ReadSymbol(r, c) = InString(r, c)
    BY <1>7 DEF ReadSymbol
  <2>2. Completed(r, "string") \in Readers
    BY <1>7, CompletedIsReader DEF Kinds
  <2>3. [r EXCEPT !.state = "escape"] \in Readers
    BY <1>7 DEF Readers
  <2> QED
    BY <1>2, <1>3, <2>1, <2>2, <2>3 DEF InString
<1>8. CASE r.state = "value"
  <2>1. ReadSymbol(r, c) = IF c = "newline" THEN r ELSE OutsideString(r, c)
    BY <1>8 DEF ReadSymbol
  <2>2. [r EXCEPT !.state = "string", !.says = << >>] \in Readers
    BY <1>8, EmptySeq DEF Readers
  <2>3. ASSUME c \in {"{", "["} PROVE [r EXCEPT !.open = Append(@, c)] \in Readers
    <3>1. Append(r.open, c) \in Seq(Frames)
      BY <1>1, <2>3, AppendProperties DEF Frames
    <3> QED
      BY <1>8, <3>1 DEF Readers
  <2> DEFINE pop == [r EXCEPT !.open = Front(@)]
  <2>4. ASSUME r.open # << >>, NEW kind \in Kinds PROVE Completed(pop, kind) \in Readers
    <3>1. Front(r.open) \in Seq(Frames)
      BY <1>1, <2>4, StackFacts
    <3>2. pop \in Readers /\ pop.state = "value"
      BY <1>8, <3>1 DEF Readers
    <3> HIDE DEF pop
    <3> QED
      BY <3>2, CompletedIsReader
  <2>5. "object" \in Kinds /\ "array" \in Kinds
    BY DEF Kinds
  <2>6. OutsideString(r, c) \in Readers
    <3> HIDE DEF pop
    <3>1. CASE r.open # << >>
      BY <1>2, <2>2, <2>3, <2>4, <2>5, <3>1 DEF OutsideString, pop
    <3>2. CASE r.open = << >>
      BY <1>2, <2>2, <2>3, <3>2 DEF OutsideString
    <3> QED
      BY <3>1, <3>2
  <2> QED
    BY <2>1, <2>6
<1> QED
  BY <1>1, <1>4, <1>5, <1>6, <1>7, <1>8

-----------------------------------------------------------------------------
(***************************************************************************)
(* json.loads: its states, symbol by symbol.                               *)
(***************************************************************************)

\* What json.loads has come to after each of the symbols.
Reads(g, text) ==
    /\ g \in [0..Len(text) -> Readers]
    /\ g[0] = Reader
    /\ \A i \in 1..Len(text) : g[i] = ReadSymbol(g[i - 1], text[i])

\* The states of the reader exist, and the last one is what the fold gives.
LEMMA ReadsOver ==
    ASSUME NEW n \in Nat, NEW text, DOMAIN text = 1..n, \A i \in 1..n : text[i] \in Symbols
    PROVE  \E g \in [0..n -> Readers] :
               /\ g[0] = Reader /\ \A i \in 1..n : g[i] = ReadSymbol(g[i - 1], text[i])
               /\ FoldLeft(ReadSymbol, Reader, text) = g[n]
<1>2. Reader \in Readers
  BY ReaderIsReader
<1>3. PICK step \in [1..n -> [Readers -> Readers]] :
          \A i \in 1..n : \A r \in Readers : step[i][r] = ReadSymbol(r, text[i])
  <2> DEFINE made == [i \in 1..n |-> [r \in Readers |-> ReadSymbol(r, text[i])]]
  <2>1. made \in [1..n -> [Readers -> Readers]]
    BY ReadSymbolIsReader
  <2>2. \A i \in 1..n : \A r \in Readers : made[i][r] = ReadSymbol(r, text[i])
    OBVIOUS
  <2> QED
    BY <2>1, <2>2
<1>4. PICK g : Steps(g, Readers, Reader, n, step)
  BY <1>2, StepsExist
<1>5. /\ g \in [0..n -> Readers] /\ g[0] = Reader
      /\ \A i \in 1..n : g[i] = ReadSymbol(g[i - 1], text[i])
  BY <1>3, <1>4 DEF Steps
<1>6. PICK f : Folds(f, Readers, Reader, n, step)
  BY <1>2, FoldExists
<1>7. \A s \in SUBSET (1..n) : s # {} => Max(s) \in 1..n /\ s \ {Max(s)} \in SUBSET (1..n)
  BY GreatestFacts
<1>8. f = [s \in SUBSET (1..n) |->
              IF s = {} THEN Reader ELSE ReadSymbol(f[s \ {Max(s)}], text[Max(s)])]
  <2>1. ASSUME NEW s \in SUBSET (1..n)
        PROVE  f[s] = IF s = {} THEN Reader ELSE ReadSymbol(f[s \ {Max(s)}], text[Max(s)])
    BY <1>3, <1>6, <1>7 DEF Folds
  <2> QED
    BY <1>6, <2>1 DEF Folds
<1>9. \E h : /\ h = [s \in SUBSET (1..n) |->
                       IF s = {} THEN Reader ELSE ReadSymbol(h[s \ {Max(s)}], text[Max(s)])]
             /\ FoldLeft(ReadSymbol, Reader, text) = h[1..n]
  BY <1>8, Zenon DEF FoldLeft, MapThenFoldSet
<1>10. PICK h : /\ h = [s \in SUBSET (1..n) |->
                         IF s = {} THEN Reader ELSE ReadSymbol(h[s \ {Max(s)}], text[Max(s)])]
                /\ FoldLeft(ReadSymbol, Reader, text) = h[1..n]
  BY <1>9
<1>11. h[{}] = g[0]
  <2>1. {} \in SUBSET (1..n)
    OBVIOUS
  <2> QED
    BY <1>5, <1>10, <2>1
<1>12. ASSUME NEW k \in Nat, k + 1 <= n, h[1..k] = g[k] PROVE h[1..(k + 1)] = g[k + 1]
  <2>1. k + 1 \in 1..n /\ 1..(k + 1) \in SUBSET (1..n)
    BY <1>12
  <2>2. /\ 1..(k + 1) # {} /\ Max(1..(k + 1)) = k + 1
        /\ (1..(k + 1)) \ {k + 1} = 1..k
    BY GreatestPlace
  <2>4. h[1..(k + 1)] = ReadSymbol(h[1..k], text[k + 1])
    BY <1>10, <2>1, <2>2
  <2>3. g[k + 1] = ReadSymbol(g[k], text[k + 1])
    BY <1>5, <2>1
  <2> QED
    BY <1>12, <2>3, <2>4
<1>14. h[1..n] = g[n]
  BY <1>11, <1>12, FoldAgrees
<1> QED
  BY <1>5, <1>10, <1>14

\* Every text can be read.
LEMMA ReadsExist ==
    ASSUME NEW text \in Seq(Symbols)
    PROVE  \E g : Reads(g, text) /\ FoldLeft(ReadSymbol, Reader, text) = g[Len(text)]
<1>1. /\ Len(text) \in Nat /\ DOMAIN text = 1..Len(text)
      /\ \A i \in 1..Len(text) : text[i] \in Symbols
  BY LenProperties, ElementOfSeq
<1> QED
  BY <1>1, ReadsOver DEF Reads

\* There is but one way to read a text.
LEMMA ReadsAgree ==
    ASSUME NEW text \in Seq(Symbols), NEW g, Reads(g, text)
    PROVE  FoldLeft(ReadSymbol, Reader, text) = g[Len(text)]
<1>1. PICK f : Reads(f, text) /\ FoldLeft(ReadSymbol, Reader, text) = f[Len(text)]
  BY ReadsExist
<1>2. PICK n \in Nat : n = Len(text)
  BY LenProperties
<1>3. /\ f[0] = g[0]
      /\ \A i \in 1..n : f[i] = ReadSymbol(f[i - 1], text[i]) /\ g[i] = ReadSymbol(g[i - 1], text[i])
  BY <1>1, <1>2 DEF Reads
<1> DEFINE T == {k \in Nat : k <= n => f[k] = g[k]}
<1>4. 0 \in T
  BY <1>3
<1>5. \A k \in T : k + 1 \in T
  <2> SUFFICES ASSUME NEW k \in Nat, k + 1 <= n, f[k] = g[k] PROVE f[k + 1] = g[k + 1]
    OBVIOUS
  <2>1. k + 1 \in 1..n /\ (k + 1) - 1 = k
    OBVIOUS
  <2> QED
    BY <1>3, <2>1
<1> HIDE DEF T
<1>6. T = Nat
  <2>1. T \in SUBSET Nat
    BY DEF T
  <2> QED
    BY <1>4, <1>5, <2>1, NatSetInduction
<1> QED
  BY <1>1, <1>2, <1>6 DEF T

-----------------------------------------------------------------------------
(***************************************************************************)
(* Texts put together of pieces.                                           *)
(***************************************************************************)

LEMMA FunctionIsSeq ==
    ASSUME NEW S, NEW n \in Nat, NEW f \in [1..n -> S]
    PROVE  f \in Seq(S) /\ Len(f) = n
<1>1. f \in Seq(S)
  OBVIOUS
<1>2. DOMAIN f = 1..n /\ DOMAIN f = 1..Len(f) /\ Len(f) \in Nat
  BY <1>1, LenProperties
<1> QED
  BY <1>1, <1>2

\* What the pieces before each are joined to.
Joins(g, pieces, S) ==
    /\ g \in [0..Len(pieces) -> Seq(S)]
    /\ g[0] = << >>
    /\ \A i \in 1..Len(pieces) : g[i] = g[i - 1] \o pieces[i]

\* Pieces can be joined one after the other.
LEMMA JoinsExist ==
    ASSUME NEW S, NEW pieces \in Seq(Seq(S))
    PROVE  \E g : Joins(g, pieces, S)
<1>1. PICK n \in Nat : n = Len(pieces)
  BY LenProperties
<1>2. \A i \in 1..n : pieces[i] \in Seq(S)
  BY <1>1, ElementOfSeq
<1>3. PICK step \in [1..n -> [Seq(S) -> Seq(S)]] :
          \A i \in 1..n : \A s \in Seq(S) : step[i][s] = s \o pieces[i]
  <2> DEFINE made == [i \in 1..n |-> [s \in Seq(S) |-> s \o pieces[i]]]
  <2>1. made \in [1..n -> [Seq(S) -> Seq(S)]]
    BY <1>2, ConcatProperties
  <2>2. \A i \in 1..n : \A s \in Seq(S) : made[i][s] = s \o pieces[i]
    OBVIOUS
  <2> QED
    BY <2>1, <2>2
<1>4. << >> \in Seq(S)
  BY EmptySeq
<1>5. PICK g : Steps(g, Seq(S), << >>, n, step)
  BY <1>4, StepsExist
<1>6. /\ g \in [0..n -> Seq(S)] /\ g[0] = << >>
      /\ \A i \in 1..n : g[i] = step[i][g[i - 1]]
  BY <1>5 DEF Steps
<1>7. ASSUME NEW i \in 1..n PROVE g[i] = g[i - 1] \o pieces[i]
  <2>1. i - 1 \in 0..n
    OBVIOUS
  <2>2. g[i - 1] \in Seq(S)
    BY <1>6, <2>1
  <2> QED
    BY <1>3, <1>6, <2>2
<1> QED
  BY <1>1, <1>6, <1>7 DEF Joins

\* FlattenSeq joins all pieces.
LEMMA FlattenIsJoin ==
    ASSUME NEW S, NEW pieces \in Seq(Seq(S)), NEW g, Joins(g, pieces, S)
    PROVE  FlattenSeq(pieces) = g[Len(pieces)] /\ FlattenSeq(pieces) \in Seq(S)
<1>1. PICK n \in Nat : n = Len(pieces)
  BY LenProperties
<1>2. \A i \in 1..n : pieces[i] \in Seq(S)
  BY <1>1, ElementOfSeq
<1>3. g \in [0..n -> Seq(S)] /\ g[0] = << >> /\ \A i \in 1..n : g[i] = g[i - 1] \o pieces[i]
  BY <1>1 DEF Joins
<1>4. CASE n = 0
  BY <1>1, <1>3, <1>4, EmptySeq DEF FlattenSeq
<1>5. CASE n # 0
  <2> DEFINE f == [i \in 1..n |-> g[i]]
  <2>1. g[1] = pieces[1]
    <3>1. 1 \in 1..n /\ pieces[1] \in Seq(S)
      BY <1>2, <1>5
    <3>2. g[1] = g[1 - 1] \o pieces[1]
      BY <1>3, <3>1, Zenon
    <3>3. 1 - 1 = 0
      OBVIOUS
    <3>4. g[1] = << >> \o pieces[1]
      BY <1>3, <3>2, <3>3, Zenon
    <3> QED
      BY <3>1, <3>4, ConcatEmptySeq
  <2>2. f = [i \in 1..n |-> IF i = 1 THEN pieces[i] ELSE f[i - 1] \o pieces[i]]
    <3>1. ASSUME NEW i \in 1..n PROVE g[i] = IF i = 1 THEN pieces[i] ELSE f[i - 1] \o pieces[i]
      <4>1. CASE i = 1
        BY <2>1, <4>1
      <4>2. CASE i # 1
        <5>1. i - 1 \in 1..n
          BY <4>2
        <5>2. f[i - 1] = g[i - 1]
          BY <5>1
        <5>3. g[i] = g[i - 1] \o pieces[i]
          BY <1>3
        <5> HIDE DEF f
        <5> QED
          BY <4>2, <5>2, <5>3
      <4> QED
        BY <4>1, <4>2
    <3> QED
      BY <3>1
  <2>3. \E h : /\ h = [i \in 1..n |-> IF i = 1 THEN pieces[i] ELSE h[i - 1] \o pieces[i]]
               /\ FlattenSeq(pieces) = h[n]
    <3> HIDE DEF f
    <3> QED
      BY <1>1, <1>5, <2>2, Zenon DEF FlattenSeq
  <2>4. PICK h : /\ h = [i \in 1..n |-> IF i = 1 THEN pieces[i] ELSE h[i - 1] \o pieces[i]]
                 /\ FlattenSeq(pieces) = h[n]
    BY <2>3
  <2> DEFINE T == {k \in Nat : k + 1 <= n => h[k + 1] = g[k + 1]}
  <2>5. 0 \in T
    BY <1>5, <2>1, <2>4
  <2>6. ASSUME NEW k \in Nat, k + 2 <= n, h[k + 1] = g[k + 1] PROVE h[k + 2] = g[k + 2]
    <3>1. k + 2 \in 1..n /\ k + 2 # 1 /\ (k + 2) - 1 = k + 1
      BY <2>6
    <3>2. h[k + 2] = h[k + 1] \o pieces[k + 2]
      BY <2>4, <3>1
    <3>3. g[k + 2] = g[k + 1] \o pieces[k + 2]
      BY <1>3, <3>1
    <3> QED
      BY <2>6, <3>2, <3>3
  <2>7. \A k \in T : k + 1 \in T
    <3>1. \A k \in Nat : (k + 1) + 1 = k + 2
      OBVIOUS
    <3> QED
      BY <2>6, <3>1
  <2> HIDE DEF T
  <2>8. T = Nat
    <3>1. T \in SUBSET Nat
      BY DEF T
    <3> QED
      BY <2>5, <2>7, <3>1, NatSetInduction
  <2>9. n - 1 \in T /\ (n - 1) + 1 = n
    BY <1>5, <2>8
  <2>10. h[n] = g[n]
    BY <2>9 DEF T
  <2>11. n \in 0..n
    OBVIOUS
  <2>12. g[n] \in Seq(S)
    BY <1>3, <2>11
  <2> QED
    BY <1>1, <2>4, <2>10, <2>12
<1> QED
  BY <1>4, <1>5

LEMMA FlattenType ==
    ASSUME NEW S, NEW pieces \in Seq(Seq(S))
    PROVE  FlattenSeq(pieces) \in Seq(S)
<1>1. PICK g : Joins(g, pieces, S)
  BY JoinsExist
<1> QED
  BY <1>1, FlattenIsJoin

LEMMA FlattenNothing == FlattenSeq(<< >>) = << >>
BY DEF FlattenSeq

\* Two runs of pieces are joined each for itself, and then with each other.
LEMMA FlattenConcat ==
    ASSUME NEW S, NEW p \in Seq(Seq(S)), NEW q \in Seq(Seq(S))
    PROVE  FlattenSeq(p \o q) = FlattenSeq(p) \o FlattenSeq(q)
<1>1. PICK g : Joins(g, p, S)
  BY JoinsExist
<1>2. PICK h : Joins(h, q, S)
  BY JoinsExist
<1>3. PICK k \in Nat : k = Len(p)
  BY LenProperties
<1>4. PICK n \in Nat : n = Len(q)
  BY LenProperties
<1>5. /\ g \in [0..k -> Seq(S)] /\ g[0] = << >>
      /\ \A i \in 1..k : g[i] = g[i - 1] \o p[i]
  BY <1>1, <1>3 DEF Joins
<1>6. /\ h \in [0..n -> Seq(S)] /\ h[0] = << >>
      /\ \A i \in 1..n : h[i] = h[i - 1] \o q[i]
  BY <1>2, <1>4 DEF Joins
<1>7. FlattenSeq(p) = g[k] /\ FlattenSeq(q) = h[n] /\ g[k] \in Seq(S)
  BY <1>1, <1>2, <1>3, <1>4, FlattenIsJoin
<1>8. /\ p \o q \in Seq(Seq(S)) /\ Len(p \o q) = k + n
      /\ \A i \in 1..(k + n) : (p \o q)[i] = IF i <= k THEN p[i] ELSE q[i - k]
  BY <1>3, <1>4, ConcatProperties
<1>9. \A i \in 1..n : q[i] \in Seq(S)
  BY <1>4, ElementOfSeq
<1> DEFINE f == [i \in 0..(k + n) |-> IF i <= k THEN g[i] ELSE g[k] \o h[i - k]]
<1>10. f \in [0..(k + n) -> Seq(S)]
  <2> SUFFICES ASSUME NEW i \in 0..(k + n)
               PROVE  (IF i <= k THEN g[i] ELSE g[k] \o h[i - k]) \in Seq(S)
    OBVIOUS
  <2>1. CASE i <= k
    BY <1>5, <2>1
  <2>2. CASE ~(i <= k)
    <3>1. i - k \in 0..n
      BY <2>2
    <3>2. h[i - k] \in Seq(S)
      BY <1>6, <3>1
    <3>3. g[k] \o h[i - k] \in Seq(S)
      BY <1>7, <3>2, ConcatProperties
    <3> QED
      BY <2>2, <3>3
  <2> QED
    BY <2>1, <2>2
<1>11. f[0] = << >>
  BY <1>5
<1>12. \A i \in 0..(k + n) : f[i] = IF i <= k THEN g[i] ELSE g[k] \o h[i - k]
  OBVIOUS
<1> HIDE DEF f
<1>13. ASSUME NEW i \in 1..(k + n) PROVE f[i] = f[i - 1] \o (p \o q)[i]
  <2>1. i - 1 \in 0..(k + n)
    OBVIOUS
  <2>2. CASE i <= k
    <3>1. i \in 1..k /\ i - 1 <= k
      BY <2>2
    <3>2. f[i] = g[i] /\ f[i - 1] = g[i - 1] /\ (p \o q)[i] = p[i]
      BY <1>8, <1>12, <2>1, <3>1
    <3> QED
      BY <1>5, <3>1, <3>2, Zenon
  <2>3. CASE ~(i <= k)
    <3>1. i - k \in 1..n /\ ~(i <= k) /\ (i - k) - 1 \in 0..n /\ i \in 0..(k + n)
      BY <2>3
    <3>2. f[i] = g[k] \o h[i - k] /\ (p \o q)[i] = q[i - k]
      BY <1>8, <1>12, <3>1
    <3>3. h[i - k] = h[(i - k) - 1] \o q[i - k]
      BY <1>6, <3>1, Zenon
    <3>4. f[i - 1] = g[k] \o h[(i - k) - 1]
      <4>1. CASE i - 1 = k
        <5>1. f[i - 1] = g[k] /\ (i - k) - 1 = 0
          BY <1>12, <2>1, <4>1
        <5>2. g[k] \o << >> = g[k]
          BY <1>7, ConcatEmptySeq
        <5> QED
          BY <1>6, <5>1, <5>2, Zenon
      <4>2. CASE i - 1 # k
        <5>1. ~(i - 1 <= k) /\ (i - 1) - k = (i - k) - 1
          BY <2>3, <4>2
        <5> QED
          BY <1>12, <2>1, <5>1
      <4> QED
        BY <4>1, <4>2
    <3>5. h[(i - k) - 1] \in Seq(S) /\ q[i - k] \in Seq(S)
      BY <1>6, <1>9, <3>1
    <3>6. (g[k] \o h[(i - k) - 1]) \o q[i - k] = g[k] \o (h[(i - k) - 1] \o q[i - k])
      <4>1. PICK a \in Seq(S) : a = g[k]
        BY <1>7
      <4>2. PICK b \in Seq(S) : b = h[(i - k) - 1]
        BY <3>5
      <4>3. PICK c \in Seq(S) : c = q[i - k]
        BY <3>5
      <4>4. (a \o b) \o c = a \o (b \o c)
        BY ConcatAssociative
      <4> QED
        BY <4>1, <4>2, <4>3, <4>4, Zenon
    <3> QED
      BY <3>2, <3>3, <3>4, <3>6, Zenon
  <2> QED
    BY <2>2, <2>3
<1>14. Joins(f, p \o q, S)
  BY <1>8, <1>10, <1>11, <1>13 DEF Joins
<1>15. FlattenSeq(p \o q) = f[k + n]
  BY <1>8, <1>14, FlattenIsJoin
<1>16. f[k + n] = g[k] \o h[n]
  <2>1. k + n \in 0..(k + n)
    OBVIOUS
  <2>2. CASE n = 0
    <3>1. g[k] \o << >> = g[k] /\ h[n] = << >> /\ f[k + n] = g[k]
      BY <1>6, <1>7, <1>12, <2>1, <2>2, ConcatEmptySeq
    <3> QED
      BY <3>1, Zenon
  <2>3. CASE n # 0
    <3>1. ~(k + n <= k) /\ (k + n) - k = n
      BY <2>3
    <3> QED
      BY <1>12, <2>1, <3>1
  <2> QED
    BY <2>2, <2>3
<1> QED
  BY <1>7, <1>15, <1>16

-----------------------------------------------------------------------------
(***************************************************************************)
(* Selections: what a test passes is a set here.                           *)
(***************************************************************************)

Only(s, T) == FlattenSeq([i \in DOMAIN s |-> IF s[i] \in T THEN <<s[i]>> ELSE << >>])

OnlyPieces(s, T) == [i \in DOMAIN s |-> IF s[i] \in T THEN <<s[i]>> ELSE << >>]

\* A selection is put together of pieces of one element or none.
LEMMA OnlyPiecesFacts ==
    ASSUME NEW S, NEW s \in Seq(S), NEW T
    PROVE  /\ OnlyPieces(s, T) \in Seq(Seq(S))
           /\ Len(OnlyPieces(s, T)) = Len(s)
           /\ \A i \in 1..Len(s) :
                OnlyPieces(s, T)[i] = IF s[i] \in T THEN <<s[i]>> ELSE << >>
           /\ Only(s, T) = FlattenSeq(OnlyPieces(s, T))
<1>1. PICK n \in Nat : n = Len(s) /\ DOMAIN s = 1..n
  BY LenProperties
<1>2. \A i \in 1..n : s[i] \in S
  BY <1>1, ElementOfSeq
<1>3. \A x \in S : <<x>> \in Seq(S)
  OBVIOUS
<1>4. << >> \in Seq(S)
  OBVIOUS
<1> DEFINE p == [i \in 1..n |-> IF s[i] \in T THEN <<s[i]>> ELSE << >>]
<1>5. p \in [1..n -> Seq(S)]
  BY <1>2, <1>3, <1>4
<1>6. \A i \in 1..n : p[i] = IF s[i] \in T THEN <<s[i]>> ELSE << >>
  OBVIOUS
<1>7. OnlyPieces(s, T) = p
  BY <1>1 DEF OnlyPieces
<1> HIDE DEF p
<1>8. p \in Seq(Seq(S)) /\ Len(p) = n
  BY <1>5, FunctionIsSeq
<1> QED
  BY <1>1, <1>6, <1>7, <1>8 DEF Only, OnlyPieces

LEMMA OnlyType ==
    ASSUME NEW S, NEW s \in Seq(S), NEW T
    PROVE  Only(s, T) \in Seq(S)
BY OnlyPiecesFacts, FlattenType

\* A selection of two sequences is a selection of each.
LEMMA OnlyConcat ==
    ASSUME NEW S, NEW s \in Seq(S), NEW t \in Seq(S), NEW T
    PROVE  Only(s \o t, T) = Only(s, T) \o Only(t, T)
<1> DEFINE p == OnlyPieces(s, T)
           q == OnlyPieces(t, T)
           r == OnlyPieces(s \o t, T)
<1>1. PICK k \in Nat : k = Len(s)
  BY LenProperties
<1>2. PICK n \in Nat : n = Len(t)
  BY LenProperties
<1>3. /\ s \o t \in Seq(S) /\ Len(s \o t) = k + n
      /\ \A i \in 1..(k + n) : (s \o t)[i] = IF i <= k THEN s[i] ELSE t[i - k]
  BY <1>1, <1>2, ConcatProperties
<1>4. /\ p \in Seq(Seq(S)) /\ Len(p) = k /\ Only(s, T) = FlattenSeq(p)
      /\ \A i \in 1..k : p[i] = IF s[i] \in T THEN <<s[i]>> ELSE << >>
  BY <1>1, OnlyPiecesFacts
<1>5. /\ q \in Seq(Seq(S)) /\ Len(q) = n /\ Only(t, T) = FlattenSeq(q)
      /\ \A i \in 1..n : q[i] = IF t[i] \in T THEN <<t[i]>> ELSE << >>
  BY <1>2, OnlyPiecesFacts
<1>0. PICK st \in Seq(S) : st = s \o t
  BY <1>3
<1>10. /\ OnlyPieces(st, T) \in Seq(Seq(S)) /\ Len(OnlyPieces(st, T)) = Len(st)
       /\ Only(st, T) = FlattenSeq(OnlyPieces(st, T))
       /\ \A i \in 1..Len(st) :
             OnlyPieces(st, T)[i] = IF st[i] \in T THEN <<st[i]>> ELSE << >>
  BY OnlyPiecesFacts
<1> HIDE DEF p, q
<1>6. /\ r \in Seq(Seq(S)) /\ Len(r) = k + n /\ Only(s \o t, T) = FlattenSeq(r)
      /\ \A i \in 1..(k + n) : r[i] = IF (s \o t)[i] \in T THEN <<(s \o t)[i]>> ELSE << >>
  BY <1>0, <1>3, <1>10, Zenon
<1> HIDE DEF r
<1>7. /\ p \o q \in Seq(Seq(S)) /\ Len(p \o q) = k + n
      /\ \A i \in 1..(k + n) : (p \o q)[i] = IF i <= k THEN p[i] ELSE q[i - k]
  BY <1>4, <1>5, ConcatProperties
<1>8. ASSUME NEW i \in 1..(k + n) PROVE r[i] = (p \o q)[i]
  <2>1. CASE i <= k
    <3>1. i \in 1..k
      BY <2>1
    <3> QED
      BY <1>3, <1>4, <1>6, <1>7, <2>1, <3>1, Zenon
  <2>2. CASE ~(i <= k)
    <3>1. i - k \in 1..n
      BY <2>2
    <3> QED
      BY <1>3, <1>5, <1>6, <1>7, <2>2, <3>1, Zenon
  <2> QED
    BY <2>1, <2>2
<1>9. r = p \o q
  <2>1. Len(r) = Len(p \o q) /\ \A i \in 1..Len(r) : r[i] = (p \o q)[i]
    BY <1>6, <1>7, <1>8
  <2> QED
    BY <1>6, <1>7, <2>1, SeqEqual
<1> QED
  BY <1>4, <1>5, <1>6, <1>9, FlattenConcat

\* If all elements pass, the selection is the sequence.
LEMMA OnlyAll ==
    ASSUME NEW S, NEW s \in Seq(S), NEW T, \A i \in 1..Len(s) : s[i] \in T
    PROVE  Only(s, T) = s
<1> DEFINE p == OnlyPieces(s, T)
<1>1. PICK n \in Nat : n = Len(s)
  BY LenProperties
<1>2. /\ p \in Seq(Seq(S)) /\ Len(p) = n /\ Only(s, T) = FlattenSeq(p)
      /\ \A i \in 1..n : p[i] = <<s[i]>>
  BY <1>1, OnlyPiecesFacts
<1> HIDE DEF p
<1> DEFINE g == [i \in 0..n |-> SubSeq(s, 1, i)]
<1>3. ASSUME NEW i \in 0..n PROVE SubSeq(s, 1, i) \in Seq(S)
  <2>1. 1 \in Nat /\ i \in Nat /\ 1 <= 1 /\ 1 <= i + 1 /\ i <= Len(s)
    BY <1>1
  <2> QED
    BY <2>1, PartFacts
<1>4. g \in [0..n -> Seq(S)]
  BY <1>3
<1>5. \A i \in 0..n : g[i] = SubSeq(s, 1, i)
  OBVIOUS
<1>6. g[0] = << >>
  <2>1. 0 \in 0..n /\ 0 < 1 /\ 0 \in Int /\ 1 \in Int
    OBVIOUS
  <2>2. SubSeq(s, 1, 0) = << >>
    BY <2>1, SubSeqEmpty
  <2> QED
    BY <2>1, <2>2
<1> HIDE DEF g
<1>7. ASSUME NEW i \in 1..n PROVE g[i] = g[i - 1] \o p[i]
  <2>1. i \in 1..Len(s) /\ 1 \in 1..Len(s) /\ i - 1 \in 0..n /\ i \in 0..n /\ 1 <= i
    BY <1>1
  <2>2. SubSeq(s, 1, i) = SubSeq(s, 1, i - 1) \o <<s[i]>>
    BY <2>1, SubSeqRecursiveSecond
  <2> QED
    BY <1>2, <1>5, <2>1, <2>2, Zenon
<1>8. Joins(g, p, S)
  BY <1>2, <1>4, <1>6, <1>7 DEF Joins
<1>9. FlattenSeq(p) = g[n]
  BY <1>2, <1>8, FlattenIsJoin
<1>10. g[n] = SubSeq(s, 1, Len(s)) /\ SubSeq(s, 1, Len(s)) = s
  <2>1. n \in 0..n
    OBVIOUS
  <2> QED
    BY <1>1, <1>5, <2>1, SubSeqFull
<1> QED
  BY <1>2, <1>9, <1>10

\* If none does, it is empty.
LEMMA OnlyNone ==
    ASSUME NEW S, NEW s \in Seq(S), NEW T, \A i \in 1..Len(s) : s[i] \notin T
    PROVE  Only(s, T) = << >>
<1> DEFINE p == OnlyPieces(s, T)
<1>1. PICK n \in Nat : n = Len(s)
  BY LenProperties
<1>0. /\ p \in Seq(Seq(S)) /\ Len(p) = Len(s) /\ Only(s, T) = FlattenSeq(p)
      /\ \A i \in 1..Len(s) : p[i] = IF s[i] \in T THEN <<s[i]>> ELSE << >>
  BY OnlyPiecesFacts
<1> HIDE DEF p
<1>2. /\ p \in Seq(Seq(S)) /\ Len(p) = n /\ Only(s, T) = FlattenSeq(p)
      /\ \A i \in 1..n : p[i] = << >>
  BY <1>0, <1>1
<1> HIDE DEF p
<1>3. << >> \in Seq(S) /\ << >> \o << >> = << >>
  BY EmptySeq, ConcatEmptySeq
<1> DEFINE g == [i \in 0..n |-> << >>]
<1>4. g \in [0..n -> Seq(S)] /\ \A i \in 0..n : g[i] = << >>
  BY <1>3
<1> HIDE DEF g
<1>5. ASSUME NEW i \in 1..n PROVE g[i] = g[i - 1] \o p[i]
  <2>1. i - 1 \in 0..n /\ i \in 0..n
    OBVIOUS
  <2> QED
    BY <1>2, <1>3, <1>4, <2>1, Zenon
<1>6. g[0] = << >> /\ g[n] = << >>
  BY <1>4
<1>7. Joins(g, p, S)
  BY <1>2, <1>4, <1>5, <1>6 DEF Joins
<1> QED
  BY <1>2, <1>6, <1>7, FlattenIsJoin

-----------------------------------------------------------------------------
(***************************************************************************)
(* Requests.                                                               *)
(***************************************************************************)

MessageType == [role : Roles, content : Seq(Tokens) \union {Raises}]

Saying   == {message \in MessageType : message.content # << >>}
OfSystem == {message \in MessageType : message.role = "system"}
Turns    == {message \in MessageType : message.role # "system"}

\* The selections that requests and messages are made with, as sets.
LEMMA SelectedOnly ==
    ASSUME NEW s \in Seq(MessageType)
    PROVE  /\ Selected(s, LAMBDA message : message.content # << >>) = Only(s, Saying)
           /\ Selected(s, LAMBDA message : message.role = "system" /\ message.content # << >>)
                = Only(s, OfSystem \cap Saying)
           /\ Selected(s, LAMBDA message : message.role # "system") = Only(s, Turns)
<1>1. \A i \in DOMAIN s : s[i] \in MessageType
  OBVIOUS
<1>2. \A i \in DOMAIN s :
          /\ s[i].content # << >> <=> s[i] \in Saying
          /\ s[i].role = "system" /\ s[i].content # << >> <=> s[i] \in OfSystem \cap Saying
          /\ s[i].role # "system" <=> s[i] \in Turns
  BY <1>1 DEF Saying, OfSystem, Turns
<1>3. [i \in DOMAIN s |-> IF s[i].content # << >> THEN <<s[i]>> ELSE << >>]
        = [i \in DOMAIN s |-> IF s[i] \in Saying THEN <<s[i]>> ELSE << >>]
  BY <1>2, Zenon
<1>4. [i \in DOMAIN s |->
          IF s[i].role = "system" /\ s[i].content # << >> THEN <<s[i]>> ELSE << >>]
        = [i \in DOMAIN s |-> IF s[i] \in OfSystem \cap Saying THEN <<s[i]>> ELSE << >>]
  BY <1>2, Zenon
<1>5. [i \in DOMAIN s |-> IF s[i].role # "system" THEN <<s[i]>> ELSE << >>]
        = [i \in DOMAIN s |-> IF s[i] \in Turns THEN <<s[i]>> ELSE << >>]
  BY <1>2, Zenon
<1> QED
  BY <1>3, <1>4, <1>5, Zenon DEF Selected, Only

\* The request for messages that the system's is the first of.
KeptWhole(messages, rest) ==
    /\ messages \in Seq(MessageType)
    /\ AnthropicRequest(messages).system \in Seq(MessageType)
    /\ AnthropicRequest(messages).turns = rest
    /\ Only(AnthropicRequest(messages).system \o rest, Saying) = Only(messages, Saying)

\* What of the messages is sent apart, and what as turns.
LEMMA RequestParts ==
    ASSUME NEW head \in OfSystem, NEW rest \in Seq(Turns)
    PROVE  KeptWhole(<<head>> \o rest, rest)
<1>0. PICK messages : messages = <<head>> \o rest
  OBVIOUS
<1> DEFINE request == AnthropicRequest(messages)
<1>1. <<head>> \in Seq(MessageType) /\ Len(<<head>>) = 1 /\ <<head>>[1] = head
  BY DEF OfSystem
<1>2. rest \in Seq(MessageType)
  <2>1. Turns \subseteq MessageType
    BY DEF Turns
  <2> QED
    BY <2>1, SeqMonotonic
<1>3. \A i \in 1..Len(rest) : rest[i] \in Turns
  BY ElementOfSeq
<1>4. messages \in Seq(MessageType)
  <2>1. <<head>> \o rest \in Seq(MessageType)
    BY <1>1, <1>2, ConcatProperties
  <2> QED
    BY <1>0, <2>1
<1>5. request.turns = Only(messages, Turns) /\ request.system = Only(messages, OfSystem \cap Saying)
  BY <1>4, SelectedOnly DEF AnthropicRequest
<1>6. \A T : Only(messages, T) = Only(<<head>>, T) \o Only(rest, T)
  <2>1. PICK a \in Seq(MessageType) : a = <<head>>
    BY <1>1
  <2>2. \A T : Only(a \o rest, T) = Only(a, T) \o Only(rest, T)
    BY <1>2, OnlyConcat
  <2> QED
    BY <1>0, <2>1, <2>2, Zenon
<1>7. Only(<<head>>, Turns) = << >>
  <2>1. \A i \in 1..Len(<<head>>) : <<head>>[i] \notin Turns
    BY <1>1 DEF OfSystem, Turns
  <2> QED
    BY <1>1, <2>1, OnlyNone
<1>8. Only(rest, Turns) = rest
  BY <1>2, <1>3, OnlyAll
<1>9. request.turns = rest
  <2>1. << >> \o rest = rest
    BY <1>2, ConcatEmptySeq
  <2> QED
    BY <1>5, <1>6, <1>7, <1>8, <2>1, Zenon
<1>10. Only(rest, OfSystem \cap Saying) = << >>
  <2>1. \A i \in 1..Len(rest) : rest[i] \notin OfSystem \cap Saying
    BY <1>3 DEF OfSystem, Turns
  <2> QED
    BY <1>2, <2>1, OnlyNone
<1>11. Only(<<head>>, OfSystem \cap Saying) = Only(<<head>>, Saying)
  BY <1>1 DEF Only
<1>12. Only(<<head>>, Saying) \in Seq(MessageType)
  BY <1>1, OnlyType
<1>13. request.system = Only(<<head>>, Saying)
  <2>1. Only(<<head>>, Saying) \o << >> = Only(<<head>>, Saying)
    BY <1>12, ConcatEmptySeq
  <2> QED
    BY <1>5, <1>6, <1>10, <1>11, <2>1, Zenon
<1>14. Only(Only(<<head>>, Saying), Saying) = Only(<<head>>, Saying)
  <2>1. CASE head \in Saying
    <3>1. \A i \in 1..Len(<<head>>) : <<head>>[i] \in Saying
      BY <1>1, <2>1
    <3>2. Only(<<head>>, Saying) = <<head>>
      BY <1>1, <3>1, OnlyAll
    <3> QED
      BY <3>2, Zenon
  <2>2. CASE head \notin Saying
    <3>1. \A i \in 1..Len(<<head>>) : <<head>>[i] \notin Saying
      BY <1>1, <2>2
    <3>2. Only(<<head>>, Saying) = << >>
      BY <1>1, <3>1, OnlyNone
    <3>3. Only(<< >>, Saying) = << >>
      BY FlattenNothing DEF Only
    <3> QED
      BY <3>2, <3>3, Zenon
  <2> QED
    BY <2>1, <2>2
<1>15. Only(request.system \o rest, Saying) = Only(request.system, Saying) \o Only(rest, Saying)
  <2>1. PICK a \in Seq(MessageType) : a = request.system
    BY <1>12, <1>13, Zenon
  <2>2. Only(a \o rest, Saying) = Only(a, Saying) \o Only(rest, Saying)
    BY <1>2, OnlyConcat
  <2> QED
    BY <2>1, <2>2, Zenon
<1> QED
  BY <1>0, <1>4, <1>6, <1>9, <1>12, <1>13, <1>14, <1>15, Zenon DEF KeptWhole

-----------------------------------------------------------------------------
(***************************************************************************)
(* Prompts.                                                                *)
(***************************************************************************)

\* The states of str.format_map.
Formatters ==
    [out : Seq(Tokens), at : {"text", "open", "close", "field", "failed"}, field : Seq(Tokens)]

LEMMA TupleFacts ==
    ASSUME NEW S
    PROVE  /\ \A a \in S : <<a>> \in Seq(S)
           /\ \A a \in S, b \in S : <<a, b>> \in Seq(S)
           /\ \A a \in S, b \in S, c \in S : <<a, b, c>> \in Seq(S)
OBVIOUS

\* Where the placeholders of a template are, and what they name.
LEMMA PlaceholderFacts ==
    ASSUME NEW template \in Seq(Tokens), NEW n \in Nat, n = Len(template),
           NEW p \in Placeholders(template)
    PROVE  /\ p \in 1..n /\ p + 1 \in 1..n /\ p + 2 \in 1..n
           /\ template[p] = "{" /\ template[p + 1] \in Names /\ template[p + 2] = "}"
<1>1. /\ p \in 1..(n - 2)
      /\ template[p] = "{" /\ template[p + 1] \in Names /\ template[p + 2] = "}"
  BY Zenon DEF Placeholders
<1>2. p \in 1..n /\ p + 1 \in 1..n /\ p + 2 \in 1..n
  <2>1. \A q \in 1..(n - 2) : q \in 1..n /\ q + 1 \in 1..n /\ q + 2 \in 1..n
    OBVIOUS
  <2> QED
    BY <1>1, <2>1
<1> QED
  BY <1>1, <1>2

LEMMA FormatterIsFormatter == Formatter \in Formatters
BY EmptySeq DEF Formatter, Formatters

\* A symbol takes the formatter from one of its states to another.
LEMMA FormatSymbolIsFormatter ==
    ASSUME NEW s \in Formatters, NEW c \in Tokens, NEW map, IsValues(map)
    PROVE  FormatSymbol(s, c, map) \in Formatters
<1>1. s.out \in Seq(Tokens) /\ s.field \in Seq(Tokens)
  BY DEF Formatters
<1>2. ASSUME NEW t \in Seq(Tokens)
      PROVE  [s EXCEPT !.out = @ \o t, !.at = "text"] \in Formatters
  <2>1. s.out \o t \in Seq(Tokens)
    BY <1>1, ConcatProperties
  <2> QED
    BY <2>1 DEF Formatters
<1>3. [s EXCEPT !.at = "failed"] \in Formatters /\ [s EXCEPT !.at = "close"] \in Formatters
  BY DEF Formatters
<1>4. [s EXCEPT !.at = "open", !.field = << >>] \in Formatters
  BY EmptySeq DEF Formatters
<1>5. [s EXCEPT !.at = "field", !.field = Append(@, c)] \in Formatters
  <2>1. Append(s.field, c) \in Seq(Tokens)
    BY <1>1, AppendProperties
  <2> QED
    BY <2>1 DEF Formatters
<1>6. [s EXCEPT !.out = @ \o <<c>>, !.at = "text"] \in Formatters
  <2>1. <<c>> \in Seq(Tokens)
    BY TupleFacts
  <2> QED
    BY <1>2, <2>1
<1>7. \A name \in DOMAIN map : [s EXCEPT !.out = @ \o map[name], !.at = "text"] \in Formatters
  BY <1>2 DEF IsValues
<1>8. s.at \in {"text", "open", "close", "field", "failed"}
  BY DEF Formatters
<1>9. CASE s.at = "text"
  BY <1>3, <1>4, <1>6, <1>9 DEF FormatSymbol
<1>10. CASE s.at = "close"
  BY <1>3, <1>6, <1>10 DEF FormatSymbol
<1>11. CASE s.at = "open"
  BY <1>3, <1>5, <1>6, <1>7, <1>11 DEF FormatSymbol
<1>12. CASE s.at = "field"
  BY <1>3, <1>5, <1>7, <1>12 DEF FormatSymbol
<1>13. CASE s.at = "failed"
  BY <1>13 DEF FormatSymbol
<1> QED
  BY <1>8, <1>9, <1>10, <1>11, <1>12, <1>13

\* What str.format_map has come to after each of the symbols.
Formats(g, text, map) ==
    /\ g \in [0..Len(text) -> Formatters]
    /\ g[0] = Formatter
    /\ \A i \in 1..Len(text) : g[i] = FormatSymbol(g[i - 1], text[i], map)

\* The states of the formatter exist, and the last one is what the fold gives.
LEMMA FormatOver ==
    ASSUME NEW n \in Nat, NEW text, DOMAIN text = 1..n, \A i \in 1..n : text[i] \in Tokens,
           NEW map, IsValues(map)
    PROVE  \E g \in [0..n -> Formatters] :
               /\ g[0] = Formatter /\ \A i \in 1..n : g[i] = FormatSymbol(g[i - 1], text[i], map)
               /\ Format(text, map) = IF g[n].at = "text" THEN g[n].out ELSE Raises
<1>2. Formatter \in Formatters
  BY FormatterIsFormatter
<1>3. PICK step \in [1..n -> [Formatters -> Formatters]] :
          \A i \in 1..n : \A s \in Formatters : step[i][s] = FormatSymbol(s, text[i], map)
  <2> DEFINE made == [i \in 1..n |-> [s \in Formatters |-> FormatSymbol(s, text[i], map)]]
  <2>1. made \in [1..n -> [Formatters -> Formatters]]
    BY FormatSymbolIsFormatter
  <2>2. \A i \in 1..n : \A s \in Formatters : made[i][s] = FormatSymbol(s, text[i], map)
    OBVIOUS
  <2> QED
    BY <2>1, <2>2
<1>4. PICK g : Steps(g, Formatters, Formatter, n, step)
  BY <1>2, StepsExist
<1>5. /\ g \in [0..n -> Formatters] /\ g[0] = Formatter
      /\ \A i \in 1..n : g[i] = FormatSymbol(g[i - 1], text[i], map)
  BY <1>3, <1>4 DEF Steps
<1>6. PICK f : Folds(f, Formatters, Formatter, n, step)
  BY <1>2, FoldExists
<1>7. \A s \in SUBSET (1..n) : s # {} => Max(s) \in 1..n /\ s \ {Max(s)} \in SUBSET (1..n)
  BY GreatestFacts
<1>8. f = [s \in SUBSET (1..n) |->
              IF s = {} THEN Formatter ELSE FormatSymbol(f[s \ {Max(s)}], text[Max(s)], map)]
  <2>1. ASSUME NEW s \in SUBSET (1..n)
        PROVE  f[s] = IF s = {} THEN Formatter
                      ELSE FormatSymbol(f[s \ {Max(s)}], text[Max(s)], map)
    BY <1>3, <1>6, <1>7 DEF Folds
  <2> QED
    BY <1>6, <2>1 DEF Folds
<1>9. \E h : /\ h = [s \in SUBSET (1..n) |->
                       IF s = {} THEN Formatter
                       ELSE FormatSymbol(h[s \ {Max(s)}], text[Max(s)], map)]
             /\ Format(text, map) = IF h[1..n].at = "text" THEN h[1..n].out ELSE Raises
  <2> DEFINE end == FoldLeft(LAMBDA s, c : FormatSymbol(s, c, map), Formatter, text)
  <2>1. Format(text, map) = IF end.at = "text" THEN end.out ELSE Raises
    BY DEF Format
  <2>2. \E h : /\ h = [s \in SUBSET (1..n) |->
                        IF s = {} THEN Formatter
                        ELSE FormatSymbol(h[s \ {Max(s)}], text[Max(s)], map)]
              /\ end = h[1..n]
    BY <1>8, Zenon DEF FoldLeft, MapThenFoldSet
  <2> HIDE DEF end
  <2> QED
    BY <2>1, <2>2, Zenon
<1>10. PICK h : /\ h = [s \in SUBSET (1..n) |->
                         IF s = {} THEN Formatter
                         ELSE FormatSymbol(h[s \ {Max(s)}], text[Max(s)], map)]
                /\ Format(text, map) = IF h[1..n].at = "text" THEN h[1..n].out ELSE Raises
  BY <1>9
<1>11. h[{}] = g[0]
  <2>1. {} \in SUBSET (1..n)
    OBVIOUS
  <2> QED
    BY <1>5, <1>10, <2>1
<1>12. ASSUME NEW k \in Nat, k + 1 <= n, h[1..k] = g[k] PROVE h[1..(k + 1)] = g[k + 1]
  <2>1. k + 1 \in 1..n /\ 1..(k + 1) \in SUBSET (1..n) /\ (k + 1) - 1 = k
    BY <1>12
  <2>2. /\ 1..(k + 1) # {} /\ Max(1..(k + 1)) = k + 1
        /\ (1..(k + 1)) \ {k + 1} = 1..k
    BY GreatestPlace
  <2>4. h[1..(k + 1)] = FormatSymbol(h[1..k], text[k + 1], map)
    BY <1>10, <2>1, <2>2
  <2>3. g[k + 1] = FormatSymbol(g[k], text[k + 1], map)
    BY <1>5, <2>1
  <2> QED
    BY <1>12, <2>3, <2>4
<1>14. h[1..n] = g[n]
  BY <1>11, <1>12, FoldAgrees
<1> QED
  BY <1>5, <1>10, <1>14

\* Every text can be formatted, if only to an exception.
LEMMA FormatsExist ==
    ASSUME NEW text \in Seq(Tokens), NEW map, IsValues(map)
    PROVE  \E g : /\ Formats(g, text, map)
                  /\ Format(text, map) = IF g[Len(text)].at = "text" THEN g[Len(text)].out
                                         ELSE Raises
<1>1. /\ Len(text) \in Nat /\ DOMAIN text = 1..Len(text)
      /\ \A i \in 1..Len(text) : text[i] \in Tokens
  BY LenProperties, ElementOfSeq
<1> QED
  BY <1>1, FormatOver DEF Formats

\* What is formatted is text, or an exception.
LEMMA FormatType ==
    ASSUME NEW text \in Seq(Tokens), NEW map, IsValues(map)
    PROVE  Format(text, map) \in Seq(Tokens) \union {Raises}
<1>1. PICK g : /\ Formats(g, text, map)
               /\ Format(text, map) = IF g[Len(text)].at = "text" THEN g[Len(text)].out
                                      ELSE Raises
  BY FormatsExist
<1>2. Len(text) \in 0..Len(text)
  BY LenProperties
<1>3. g[Len(text)].out \in Seq(Tokens)
  BY <1>1, <1>2 DEF Formats, Formatters
<1> QED
  BY <1>1, <1>3

\* The pieces that a template is put together of.
Piece(template, context, i) ==
    IF i \in Placeholders(template)
    THEN IF template[i + 1] \in DOMAIN context THEN context[template[i + 1]]
         ELSE <<"{", template[i + 1], "}">>
    ELSE IF Inside(i, template) THEN << >> ELSE Doubled(template[i])

\* A template is put together of pieces of text.
LEMMA PieceType ==
    ASSUME NEW template \in Seq(Tokens), NEW context, IsValues(context)
    PROVE  /\ [i \in DOMAIN template |-> Piece(template, context, i)] \in Seq(Seq(Tokens))
           /\ Substituted(template, context)
                = FlattenSeq([i \in DOMAIN template |-> Piece(template, context, i)])
<1>1. PICK n \in Nat : n = Len(template) /\ DOMAIN template = 1..n
  BY LenProperties
<1>2. \A i \in 1..n : template[i] \in Tokens
  BY <1>1, ElementOfSeq
<1>3. ASSUME NEW i \in 1..n PROVE Piece(template, context, i) \in Seq(Tokens)
  <2>1. CASE i \in Placeholders(template)
    <3>1. template[i + 1] \in Tokens /\ "{" \in Tokens /\ "}" \in Tokens
      BY <1>1, <2>1, PlaceholderFacts DEF Tokens, Braces
    <3>2. <<"{", template[i + 1], "}">> \in Seq(Tokens)
      BY <3>1, TupleFacts
    <3> QED
      BY <2>1, <3>2 DEF Piece, IsValues
  <2>2. CASE i \notin Placeholders(template)
    <3>1. Doubled(template[i]) \in Seq(Tokens)
      BY <1>2, TupleFacts DEF Doubled
    <3> QED
      BY <2>2, <3>1, EmptySeq DEF Piece
  <2> QED
    BY <2>1, <2>2
<1> DEFINE p == [i \in 1..n |-> Piece(template, context, i)]
<1>4. p \in [1..n -> Seq(Tokens)]
  BY <1>3
<1>5. p = [i \in DOMAIN template |-> Piece(template, context, i)]
  BY <1>1
<1>6. Substituted(template, context)
        = FlattenSeq([i \in DOMAIN template |-> Piece(template, context, i)])
  BY Zenon DEF Substituted, Piece
<1> HIDE DEF p
<1>7. p \in Seq(Seq(Tokens))
  BY <1>4, FunctionIsSeq
<1> QED
  BY <1>5, <1>6, <1>7

\* What the second pass is given: the placeholders that nothing is known for too.
Safe(template, context) ==
    LET unknown == {template[p + 1] : p \in Placeholders(template)} \ DOMAIN context IN
    [name \in unknown \union DOMAIN context |->
        IF name \in unknown THEN <<"{", name, "}">> ELSE context[name]]

\* What the second pass is given is text too.
LEMMA SafeType ==
    ASSUME NEW template \in Seq(Tokens), NEW context, IsValues(context)
    PROVE  /\ IsValues(Safe(template, context))
           /\ SafeFormat(template, context)
                = Format(Substituted(template, context), Safe(template, context))
<1> DEFINE unknown == {template[p + 1] : p \in Placeholders(template)} \ DOMAIN context
<1>1. PICK n \in Nat : n = Len(template)
  BY LenProperties
<1>0. IsFiniteSet(unknown)
  <2>1. IsFiniteSet(1..n)
    BY FS_Interval
  <2>2. Placeholders(template) \in SUBSET (1..n)
    BY <1>1, PlaceholderFacts
  <2>3. IsFiniteSet(Placeholders(template))
    BY <2>1, <2>2, FS_Subset
  <2> DEFINE f == [p \in Placeholders(template) |-> template[p + 1]]
             T == {template[p + 1] : p \in Placeholders(template)}
  <2>4. f \in Surjection(Placeholders(template), T)
    BY DEF Surjection
  <2>5. IsFiniteSet(T)
    BY <2>3, <2>4, FS_Surjection
  <2>6. unknown \in SUBSET T
    OBVIOUS
  <2> QED
    BY <2>5, <2>6, FS_Subset
<1>2. unknown \subseteq Names
  <2>1. \A p \in Placeholders(template) : template[p + 1] \in Names
    BY <1>1, PlaceholderFacts
  <2> QED
    BY <2>1
<1>3. SafeFormat(template, context)
        = Format(Substituted(template, context), Safe(template, context))
  BY Zenon DEF SafeFormat, Safe
<1>4. Safe(template, context) = [name \in unknown \union DOMAIN context |->
                                    IF name \in unknown THEN <<"{", name, "}">> ELSE context[name]]
  BY DEF Safe
<1> HIDE DEF unknown
<1>5. \A name \in Names : <<"{", name, "}">> \in Seq(Tokens)
  <2>1. \A name \in Names : name \in Tokens /\ "{" \in Tokens /\ "}" \in Tokens
    BY DEF Tokens, Braces
  <2> QED
    BY <2>1, TupleFacts
<1>6. IsFiniteSet(unknown \union DOMAIN context)
  BY <1>0, FS_Union DEF IsValues
<1> QED
  BY <1>2, <1>3, <1>4, <1>5, <1>6 DEF IsValues

\* What a template is rendered to is text, or an exception.
LEMMA SafeFormatType ==
    ASSUME NEW template \in Seq(Tokens), NEW context, IsValues(context)
    PROVE  SafeFormat(template, context) \in Seq(Tokens) \union {Raises}
<1>1. Substituted(template, context) \in Seq(Tokens)
  BY PieceType, FlattenType
<1> QED
  BY <1>1, SafeType, FormatType

-----------------------------------------------------------------------------
(***************************************************************************)
(* Messages.                                                               *)
(***************************************************************************)

LEMMA PairIsConcat ==
    ASSUME NEW S, NEW a \in S, NEW b \in S
    PROVE  <<a, b>> = <<a>> \o <<b>>
<1>1. <<a>> \in Seq(S) /\ <<b>> \in Seq(S) /\ <<a, b>> \in Seq(S)
  BY TupleFacts
<1>2. Len(<<a>>) = 1 /\ Len(<<b>>) = 1 /\ Len(<<a, b>>) = 2
  OBVIOUS
<1>3. /\ <<a>> \o <<b>> \in Seq(S) /\ Len(<<a>> \o <<b>>) = 1 + 1
      /\ \A i \in 1..(1 + 1) : (<<a>> \o <<b>>)[i] = IF i <= 1 THEN <<a>>[i] ELSE <<b>>[i - 1]
  BY <1>1, <1>2, ConcatProperties
<1>4. \A i \in 1..2 : <<a, b>>[i] = (<<a>> \o <<b>>)[i]
  <2>1. (<<a>> \o <<b>>)[1] = <<a>>[1] /\ (<<a>> \o <<b>>)[2] = <<b>>[1]
    BY <1>3
  <2>2. <<a>>[1] = a /\ <<b>>[1] = b /\ <<a, b>>[1] = a /\ <<a, b>>[2] = b
    OBVIOUS
  <2>3. \A i \in 1..2 : i = 1 \/ i = 2
    OBVIOUS
  <2> QED
    BY <2>1, <2>2, <2>3, Zenon
<1>5. Len(<<a, b>>) = Len(<<a>> \o <<b>>) /\ \A i \in 1..Len(<<a, b>>) : <<a, b>>[i] = (<<a>> \o <<b>>)[i]
  BY <1>2, <1>3, <1>4
<1> QED
  BY <1>1, <1>3, <1>5, SeqEqual

\* What is bound are values, with the extra context too.
LEMMA UpdatedIsValues ==
    ASSUME NEW values, IsValues(values), NEW others, IsValues(others)
    PROVE  IsValues(Updated(values, others))
<1>1. IsFiniteSet(DOMAIN values \union DOMAIN others)
  BY FS_Union DEF IsValues
<1> QED
  BY <1>1 DEF IsValues, Updated

\* The lines of the arguments are text.
LEMMA LinesType ==
    ASSUME NEW values, IsValues(values)
    PROVE  Lines(values) \in Seq(Tokens)
<1> DEFINE D == DOMAIN values
           names == SetToSeq(D)
<1>1. IsFiniteSet(D) /\ D \subseteq Names /\ \A name \in D : values[name] \in Seq(Tokens)
  BY DEF IsValues
<1>2. Cardinality(D) \in Nat /\ ExistsBijection(1..Cardinality(D), D)
  BY <1>1, FS_CardinalityType
<1>3. \E f \in [1..Cardinality(D) -> D] : IsInjective(f)
  BY <1>2 DEF ExistsBijection, Bijection, Injection
<1>4. names \in [1..Cardinality(D) -> D]
  BY <1>3, Zenon DEF SetToSeq
<1> DEFINE line(i) == <<names[i]>> \o values[names[i]]
<1> HIDE DEF D, names
<1>5. PICK n \in Nat : n = Cardinality(D)
  BY <1>2
<1>6. ASSUME NEW i \in 1..n PROVE line(i) \in Seq(Tokens)
  <2>1. names[i] \in D
    BY <1>4, <1>5
  <2>2. names[i] \in Tokens
    BY <1>1, <2>1 DEF Tokens
  <2>3. <<names[i]>> \in Seq(Tokens)
    BY <2>2, TupleFacts
  <2>4. values[names[i]] \in Seq(Tokens)
    BY <1>1, <2>1
  <2> QED
    BY <2>3, <2>4, ConcatProperties
<1> DEFINE lines == [i \in DOMAIN names |-> line(i)]
<1>7. lines \in [1..n -> Seq(Tokens)]
  <2>1. DOMAIN names = 1..n
    BY <1>4, <1>5
  <2> HIDE DEF line
  <2> QED
    BY <1>6, <2>1
<1>8. Lines(values) = FlattenSeq(lines)
  BY Zenon DEF Lines, names, D
<1> HIDE DEF lines
<1>9. lines \in Seq(Seq(Tokens))
  BY <1>7, FunctionIsSeq
<1> QED
  BY <1>8, <1>9, FlattenType

\* The system's content and the user's are text, or an exception.
LEMMA ContentTypes ==
    ASSUME NEW fn, IsFunction(fn), NEW args, IsValues(args), NEW extra, IsValues(extra)
    PROVE  /\ SystemContent(fn, Context(args, extra)) \in Seq(Tokens) \union {Raises}
           /\ UserContent(fn, args, extra) \in Seq(Tokens) \union {Raises}
<1>1. IsValues(Context(args, extra))
  BY UpdatedIsValues DEF Context
<1> DEFINE context == Context(args, extra)
<1>2. /\ fn.system_template \in Seq(Tokens) /\ fn.docstring \in Seq(Tokens)
      /\ fn.prompt_template \in Seq(Tokens)
  BY DEF IsFunction
<1> HIDE DEF context
<1>3. /\ SafeFormat(fn.system_template, context) \in Seq(Tokens) \union {Raises}
      /\ SafeFormat(fn.prompt_template, context) \in Seq(Tokens) \union {Raises}
  BY <1>1, <1>2, SafeFormatType DEF context
<1>4. Lines(args) \in Seq(Tokens)
  BY LinesType
<1> QED
  BY <1>2, <1>3, <1>4 DEF SystemContent, UserContent, context

\* The messages of an exemplar.
LEMMA ExemplarFacts ==
    ASSUME NEW fn, IsFunction(fn), NEW context, IsValues(context), NEW shot, IsValues(shot)
    PROVE  /\ Exemplar(fn, context, shot) \in Seq(Turns)
           /\ Len(Exemplar(fn, context, shot)) = 2
           /\ Exemplar(fn, context, shot)[1].role = "user"
           /\ Exemplar(fn, context, shot)[2].role = "assistant"
<1> DEFINE text == IF fn.prompt_template # << >>
                   THEN SafeFormat(fn.prompt_template, Updated(context, shot)) ELSE Lines(shot)
           asked == [role |-> "user", content |-> text]
           answered == [role |-> "assistant", content |-> <<"word">>]
<1>1. text \in Seq(Tokens) \union {Raises}
  <2>1. IsValues(Updated(context, shot))
    BY UpdatedIsValues
  <2>2. fn.prompt_template \in Seq(Tokens)
    BY DEF IsFunction
  <2>3. SafeFormat(fn.prompt_template, Updated(context, shot)) \in Seq(Tokens) \union {Raises}
    BY <2>1, <2>2, SafeFormatType
  <2>4. Lines(shot) \in Seq(Tokens)
    BY LinesType
  <2> QED
    BY <2>3, <2>4
<1>2. Exemplar(fn, context, shot) = <<asked, answered>>
  BY DEF Exemplar
<1> HIDE DEF text
<1>3. asked \in Turns /\ asked.role = "user"
  BY <1>1 DEF Turns, MessageType, Roles
<1>4. answered \in Turns /\ answered.role = "assistant"
  <2>1. "word" \in Tokens
    BY DEF Tokens
  <2>2. <<"word">> \in Seq(Tokens)
    BY <2>1, TupleFacts
  <2> QED
    BY <2>2 DEF Turns, MessageType, Roles
<1> HIDE DEF asked, answered
<1>5. <<asked, answered>> \in Seq(Turns)
  BY <1>3, <1>4, TupleFacts
<1>6. /\ Len(<<asked, answered>>) = 2
      /\ <<asked, answered>>[1] = asked /\ <<asked, answered>>[2] = answered
  OBVIOUS
<1> QED
  BY <1>2, <1>3, <1>4, <1>5, <1>6

\* The messages of all exemplars of a function.
Shots(fn, context) ==
    FlattenSeq([i \in DOMAIN fn.few_shots |-> Exemplar(fn, context, fn.few_shots[i])])

\* Turns of the user, each with the assistant's after it.
Paired(s) ==
    \A i \in 1..Len(s) :
        /\ s[i].role = "assistant" => i > 1 /\ s[i - 1].role = "user"
        /\ s[i].role = "user" => i < Len(s) /\ s[i + 1].role = "assistant"

LEMMA PairedAppend ==
    ASSUME NEW a \in Seq(Turns), Paired(a), NEW b \in Seq(Turns),
           Len(b) = 2, b[1].role = "user", b[2].role = "assistant"
    PROVE  Paired(a \o b)
<1>1. PICK k \in Nat : k = Len(a)
  BY LenProperties
<1>2. PICK s \in Seq(Turns) : s = a \o b
  BY ConcatProperties
<1>3. /\ Len(s) = k + 2
      /\ \A i \in 1..(k + 2) : s[i] = IF i <= k THEN a[i] ELSE b[i - k]
  <2>1. /\ Len(a \o b) = Len(a) + Len(b)
        /\ \A i \in 1..(Len(a) + Len(b)) :
             (a \o b)[i] = IF i <= Len(a) THEN a[i] ELSE b[i - Len(a)]
    BY ConcatProperties
  <2> QED
    BY <1>1, <1>2, <2>1
<1>4. \A i \in 1..k : s[i] = a[i]
  BY <1>3
<1>5. s[k + 1] = b[1] /\ s[k + 2] = b[2]
  <2>1. /\ k + 1 \in 1..(k + 2) /\ ~(k + 1 <= k) /\ (k + 1) - k = 1
        /\ k + 2 \in 1..(k + 2) /\ ~(k + 2 <= k) /\ (k + 2) - k = 2
    OBVIOUS
  <2> QED
    BY <1>3, <2>1
<1>6. ASSUME NEW i \in 1..(k + 2)
      PROVE  /\ s[i].role = "assistant" => i > 1 /\ s[i - 1].role = "user"
             /\ s[i].role = "user" => i < k + 2 /\ s[i + 1].role = "assistant"
  <2>1. CASE i <= k
    <3>1. /\ i \in 1..k /\ i < k + 2
          /\ i > 1 => i - 1 \in 1..k
          /\ i < k => i + 1 \in 1..k
      BY <2>1
    <3>2. /\ a[i].role = "assistant" => i > 1 /\ a[i - 1].role = "user"
          /\ a[i].role = "user" => i < k /\ a[i + 1].role = "assistant"
      BY <1>1, <3>1 DEF Paired
    <3> QED
      BY <1>4, <3>1, <3>2
  <2>2. CASE i = k + 1
    <3>1. i < k + 2 /\ i + 1 = k + 2
      BY <2>2
    <3> QED
      BY <1>5, <2>2, <3>1
  <2>3. CASE i = k + 2
    <3>1. i > 1 /\ i - 1 = k + 1
      BY <2>3
    <3> QED
      BY <1>5, <2>3, <3>1
  <2> QED
    BY <2>1, <2>2, <2>3
<1> QED
  BY <1>2, <1>3, <1>6 DEF Paired

\* The exemplars' messages are such pairs.
LEMMA ShotsFacts ==
    ASSUME NEW fn, IsFunction(fn), NEW context, IsValues(context)
    PROVE  Shots(fn, context) \in Seq(Turns) /\ Paired(Shots(fn, context))
<1>1. PICK n \in Nat : n = Len(fn.few_shots) /\ DOMAIN fn.few_shots = 1..n
  BY LenProperties DEF IsFunction
<1> DEFINE pair(i) == Exemplar(fn, context, fn.few_shots[i])
           pairs == [i \in 1..n |-> pair(i)]
<1>2. \A i \in 1..n : /\ pair(i) \in Seq(Turns) /\ Len(pair(i)) = 2
                      /\ pair(i)[1].role = "user" /\ pair(i)[2].role = "assistant"
  BY <1>1, ExemplarFacts DEF IsFunction
<1>3. Shots(fn, context) = FlattenSeq(pairs)
  BY <1>1 DEF Shots
<1> HIDE DEF pair
<1>4. pairs \in [1..n -> Seq(Turns)] /\ \A i \in 1..n : pairs[i] = pair(i)
  BY <1>2
<1> HIDE DEF pairs
<1>5. pairs \in Seq(Seq(Turns)) /\ Len(pairs) = n
  BY <1>4, FunctionIsSeq
<1>6. PICK g : Joins(g, pairs, Turns)
  BY <1>5, JoinsExist
<1>7. /\ g \in [0..n -> Seq(Turns)] /\ g[0] = << >>
      /\ \A i \in 1..n : g[i] = g[i - 1] \o pairs[i]
  BY <1>5, <1>6 DEF Joins
<1>8. Shots(fn, context) = g[n] /\ g[n] \in Seq(Turns)
  BY <1>3, <1>5, <1>6, FlattenIsJoin
<1> DEFINE T == {k \in Nat : k <= n => Paired(g[k])}
<1>9. 0 \in T
  BY <1>7, EmptySeq DEF Paired
<1>10. ASSUME NEW k \in T PROVE k + 1 \in T
  <2> SUFFICES ASSUME k + 1 <= n PROVE Paired(g[k + 1])
    OBVIOUS
  <2>1. k + 1 \in 1..n /\ k \in 0..n /\ (k + 1) - 1 = k /\ k <= n
    OBVIOUS
  <2>2. Paired(g[k])
    BY <2>1
  <2>3. PICK a \in Seq(Turns) : a = g[k]
    BY <1>7, <2>1
  <2>4. PICK b \in Seq(Turns) : b = pair(k + 1)
    BY <1>2, <2>1
  <2>5. g[k + 1] = a \o b /\ Len(b) = 2 /\ b[1].role = "user" /\ b[2].role = "assistant"
    BY <1>2, <1>4, <1>7, <2>1, <2>3, <2>4
  <2> QED
    BY <2>2, <2>3, <2>5, PairedAppend
<1> HIDE DEF T
<1>11. T \in SUBSET Nat
  BY DEF T
<1>12. T = Nat
  BY <1>9, <1>10, <1>11, NatSetInduction
<1>13. Paired(g[n])
  BY <1>12 DEF T
<1> QED
  BY <1>8, <1>13

\* A question before such pairs makes a conversation of them.
LEMMA QuestionAndPairs ==
    ASSUME NEW rest \in Seq(Turns), NEW shots \in Seq(Turns), Paired(shots),
           NEW k \in Nat, Len(shots) = k, Len(rest) = 1 + k, rest[1].role = "user",
           \A i \in 1..k : rest[i + 1] = shots[i]
    PROVE  Conversation(rest)
<1>1. DOMAIN rest = 1..(1 + k)
  BY LenProperties
<1>2. ASSUME NEW i \in 1..(1 + k), i # 1
      PROVE  /\ i - 1 \in 1..k /\ rest[i] = shots[i - 1]
             /\ i < 1 + k => rest[i + 1] = shots[i]
  <2>1. i - 1 \in 1..k /\ (i - 1) + 1 = i
    BY <1>2
  <2>2. i < 1 + k => i \in 1..k
    OBVIOUS
  <2> QED
    BY <2>1, <2>2
<1>3. ASSUME NEW i \in 1..(1 + k), rest[i].role = "assistant"
      PROVE  i > 1 /\ rest[i - 1].role = "user"
  <2>1. i # 1 /\ i > 1
    BY <1>3
  <2>2. i - 1 > 1 /\ shots[(i - 1) - 1].role = "user"
    BY <1>2, <1>3, <2>1 DEF Paired
  <2>3. i - 1 \in 1..(1 + k) /\ i - 1 # 1
    BY <2>1, <2>2
  <2> QED
    BY <1>2, <2>1, <2>2, <2>3
<1>4. ASSUME NEW i \in 1..(1 + k), rest[i].role = "user", i # 1
      PROVE  i < 1 + k /\ rest[i + 1].role = "assistant"
  <2>1. i - 1 < k /\ shots[(i - 1) + 1].role = "assistant"
    BY <1>2, <1>4 DEF Paired
  <2>2. i < 1 + k /\ (i - 1) + 1 = i
    BY <2>1
  <2> QED
    BY <1>2, <1>4, <2>1, <2>2
<1>5. ~(1 < 1 + k /\ rest[1 + 1].role = "assistant")
  <2> SUFFICES ASSUME 1 < 1 + k, rest[1 + 1].role = "assistant" PROVE FALSE
    OBVIOUS
  <2>1. 1 \in 1..k
    OBVIOUS
  <2>2. shots[1].role = "assistant"
    BY <2>1
  <2> QED
    BY <2>1, <2>2 DEF Paired
<1>6. 1 \in 1..(1 + k)
  OBVIOUS
<1>7. \A i \in 1..(1 + k) : rest[i].role = "user" =>
        ((i < 1 + k /\ rest[i + 1].role = "assistant") <=> i # 1)
  BY <1>4, <1>5
<1>8. \A i \in DOMAIN rest : rest[i].role = "assistant" => i > 1 /\ rest[i - 1].role = "user"
  BY <1>1, <1>3
<1>9. \E q \in DOMAIN rest :
        /\ rest[q].role = "user"
        /\ \A i \in DOMAIN rest : rest[i].role = "user" =>
             ((i < Len(rest) /\ rest[i + 1].role = "assistant") <=> i # q)
  BY <1>1, <1>6, <1>7
<1> QED
  BY <1>8, <1>9, Zenon DEF Conversation

\* And a system's message before it leaves it one.
LEMMA SystemFirst ==
    ASSUME NEW head \in OfSystem, NEW rest \in Seq(Turns), Conversation(rest)
    PROVE  Conversation(<<head>> \o rest)
<1>1. PICK k \in Nat : k = Len(rest)
  BY LenProperties
<1>2. head \in MessageType /\ head.role = "system" /\ Turns \subseteq MessageType
  BY DEF OfSystem, Turns
<1>3. PICK h \in Seq(MessageType) : h = <<head>>
  BY <1>2, TupleFacts
<1>4. rest \in Seq(MessageType) /\ Len(h) = 1 /\ h[1] = head
  BY <1>2, <1>3, SeqMonotonic, TupleFacts
<1>5. PICK s \in Seq(MessageType) : s = h \o rest
  BY <1>4, ConcatProperties
<1>6. /\ Len(s) = 1 + k
      /\ \A i \in 1..(1 + k) : s[i] = IF i <= 1 THEN h[i] ELSE rest[i - 1]
  <2>1. /\ Len(h \o rest) = Len(h) + Len(rest)
        /\ \A i \in 1..(Len(h) + Len(rest)) :
             (h \o rest)[i] = IF i <= Len(h) THEN h[i] ELSE rest[i - Len(h)]
    BY <1>4, ConcatProperties
  <2> QED
    BY <1>1, <1>4, <1>5, <2>1
<1>7. DOMAIN s = 1..(1 + k) /\ DOMAIN rest = 1..k
  BY <1>1, <1>6, LenProperties
<1>8. s[1].role = "system"
  <2>1. 1 \in 1..(1 + k)
    OBVIOUS
  <2> QED
    BY <1>2, <1>4, <1>6, <2>1
<1>9. \A i \in 1..k : s[i + 1] = rest[i]
  <2>1. \A i \in 1..k : i + 1 \in 1..(1 + k) /\ ~(i + 1 <= 1) /\ (i + 1) - 1 = i
    OBVIOUS
  <2> QED
    BY <1>6, <2>1
<1>10. PICK q \in 1..k :
         /\ rest[q].role = "user"
         /\ \A i \in 1..k : rest[i].role = "user" =>
              ((i < k /\ rest[i + 1].role = "assistant") <=> i # q)
  <2>1. PICK q \in DOMAIN rest :
          /\ rest[q].role = "user"
          /\ \A i \in DOMAIN rest : rest[i].role = "user" =>
               ((i < Len(rest) /\ rest[i + 1].role = "assistant") <=> i # q)
    BY Zenon DEF Conversation
  <2>2. q \in 1..k /\ rest[q].role = "user"
    BY <1>7, <2>1
  <2>3. \A i \in 1..k : i \in DOMAIN rest /\ (i < Len(rest) <=> i < k)
    BY <1>1, <1>7
  <2>4. ASSUME NEW i \in 1..k, rest[i].role = "user"
        PROVE  (i < k /\ rest[i + 1].role = "assistant") <=> i # q
    BY <2>1, <2>3, <2>4, Zenon
  <2> QED
    BY <2>2, <2>4, Zenon
<1>11. \A i \in 1..k : rest[i].role = "assistant" => i > 1 /\ rest[i - 1].role = "user"
  BY <1>7 DEF Conversation
<1>12. ASSUME NEW i \in 1..(1 + k), i # 1
       PROVE  i - 1 \in 1..k /\ (i - 1) + 1 = i /\ s[i] = rest[i - 1]
  <2>1. i - 1 \in 1..k /\ (i - 1) + 1 = i
    BY <1>12
  <2> QED
    BY <1>9, <2>1
<1>13. ASSUME NEW i \in 1..(1 + k), s[i].role = "assistant"
       PROVE  i > 1 /\ s[i - 1].role = "user"
  <2>1. i # 1 /\ i > 1
    BY <1>8, <1>13
  <2>2. PICK j \in 1..k : j = i - 1 /\ s[i] = rest[j]
    BY <1>12, <2>1
  <2>3. j > 1 /\ rest[j - 1].role = "user"
    BY <1>11, <1>13, <2>2
  <2>4. j \in 1..(1 + k) /\ j # 1
    BY <2>2, <2>3
  <2> QED
    BY <1>12, <2>1, <2>2, <2>3, <2>4
<1>14. ASSUME NEW i \in 1..(1 + k), s[i].role = "user"
       PROVE  (i < 1 + k /\ s[i + 1].role = "assistant") <=> i # q + 1
  <2>1. i # 1
    BY <1>8, <1>14
  <2>2. rest[i - 1].role = "user" /\ i - 1 \in 1..k
    BY <1>12, <1>14, <2>1
  <2>3. (i - 1 < k /\ rest[(i - 1) + 1].role = "assistant") <=> i - 1 # q
    BY <1>10, <2>2
  <2>4. (i - 1) + 1 = i /\ (i - 1 < k <=> i < 1 + k) /\ (i - 1 # q <=> i # q + 1)
    OBVIOUS
  <2>5. i < 1 + k => s[i + 1] = rest[i]
    <3>1. i < 1 + k => i \in 1..k
      OBVIOUS
    <3> QED
      BY <1>9, <3>1
  <2> QED
    BY <2>3, <2>4, <2>5
<1>15. q + 1 \in 1..(1 + k) /\ s[q + 1].role = "user"
  BY <1>9, <1>10
<1>16. Conversation(s)
  <2>1. \A i \in DOMAIN s : s[i].role = "assistant" => i > 1 /\ s[i - 1].role = "user"
    BY <1>7, <1>13
  <2>2. \E x \in DOMAIN s :
          /\ s[x].role = "user"
          /\ \A i \in DOMAIN s : s[i].role = "user" =>
               ((i < Len(s) /\ s[i + 1].role = "assistant") <=> i # x)
    <3>1. PICK x \in DOMAIN s : x = q + 1 /\ s[x].role = "user"
      BY <1>7, <1>15
    <3>2. \A i \in DOMAIN s : i \in 1..(1 + k) /\ (i < Len(s) <=> i < 1 + k)
      BY <1>6, <1>7
    <3>3. ASSUME NEW i \in DOMAIN s, s[i].role = "user"
          PROVE  (i < Len(s) /\ s[i + 1].role = "assistant") <=> i # x
      BY <1>14, <3>1, <3>2, <3>3, Zenon
    <3> QED
      BY <3>1, <3>3, Zenon
  <2> QED
    BY <2>1, <2>2, Zenon DEF Conversation
<1> QED
  BY <1>3, <1>5, <1>16
\* A rendered prompt: the system's message, then the user's and the exemplars'.
IsPrompt(messages) ==
    \E head \in OfSystem : \E rest \in Seq(Turns) :
        messages = <<head>> \o rest /\ Conversation(rest)

\* Whatever a function and its arguments are, what is rendered is a prompt.
LEMMA RenderedIsPrompt ==
    ASSUME NEW fn, IsFunction(fn), NEW args, IsValues(args), NEW extra, IsValues(extra)
    PROVE  IsPrompt(RenderPrompt(fn, args, extra))
<1> DEFINE context == Context(args, extra)
           head == [role |-> "system", content |-> SystemContent(fn, context)]
           user == [role |-> "user", content |-> UserContent(fn, args, extra)]
           shots == Shots(fn, context)
<1>1. IsValues(context)
  BY UpdatedIsValues DEF Context
<1>2. head \in OfSystem /\ user \in Turns /\ user.role = "user"
  BY ContentTypes DEF OfSystem, Turns, MessageType, Roles
<1>3. RenderPrompt(fn, args, extra) = <<head, user>> \o shots
  BY Zenon DEF RenderPrompt, Shots
<1> HIDE DEF context, head, user
<1>4. shots \in Seq(Turns) /\ Paired(shots)
  BY <1>1, ShotsFacts
<1> HIDE DEF shots
<1>5. <<user>> \in Seq(Turns) /\ Len(<<user>>) = 1 /\ <<user>>[1] = user
  BY <1>2, TupleFacts
<1>6. PICK k \in Nat : k = Len(shots)
  BY <1>4, LenProperties
<1>7. /\ <<user>> \o shots \in Seq(Turns) /\ Len(<<user>> \o shots) = 1 + k
      /\ \A i \in 1..(1 + k) :
           (<<user>> \o shots)[i] = IF i <= 1 THEN <<user>>[i] ELSE shots[i - 1]
  BY <1>4, <1>5, <1>6, ConcatProperties
<1> DEFINE rest == <<user>> \o shots
<1> HIDE DEF rest
<1>8. RenderPrompt(fn, args, extra) = <<head>> \o rest
  <2> DEFINE S == {head, user} \union Turns
  <2>1. <<head>> \in Seq(S) /\ <<user>> \in Seq(S) /\ shots \in Seq(S)
    <3>1. head \in S /\ user \in S /\ Turns \subseteq S
      OBVIOUS
    <3> HIDE DEF S
    <3> QED
      BY <1>4, <3>1, TupleFacts, SeqMonotonic
  <2> HIDE DEF S
  <2>2. PICK a \in Seq(S) : a = <<head>>
    BY <2>1
  <2>3. PICK b \in Seq(S) : b = <<user>>
    BY <2>1
  <2>4. PICK t \in Seq(S) : t = shots
    BY <2>1
  <2>5. (a \o b) \o t = a \o (b \o t)
    BY ConcatAssociative
  <2>6. <<head, user>> = <<head>> \o <<user>>
    <3>1. head \in S /\ user \in S
      BY DEF S
    <3> QED
      BY <3>1, PairIsConcat
  <2> QED
    BY <1>3, <2>2, <2>3, <2>4, <2>5, <2>6, Zenon DEF rest
<1>9. Conversation(rest)
  <2>1. rest \in Seq(Turns) /\ Len(rest) = 1 + k /\ rest[1] = user
    BY <1>5, <1>7 DEF rest
  <2>2. \A i \in 1..k : rest[i + 1] = shots[i]
    <3>1. \A i \in 1..k : i + 1 \in 1..(1 + k) /\ ~(i + 1 <= 1) /\ (i + 1) - 1 = i
      OBVIOUS
    <3> QED
      BY <1>7, <3>1 DEF rest
  <2> QED
    BY <1>2, <1>4, <1>6, <2>1, <2>2, QuestionAndPairs
<1> QED
  BY <1>2, <1>7, <1>8, <1>9 DEF IsPrompt, rest

\* What of the messages says something.
SaidOf(s) == Selected(s, LAMBDA message : message.content # << >>)

\* No message of a prompt gets lost, whatever the backend.
LEMMA RequestKeepsPrompt ==
    ASSUME NEW messages, IsPrompt(messages), NEW backend
    PROVE  /\ messages \in Seq(MessageType)
           /\ SaidOf(RequestTo(backend, messages).system \o RequestTo(backend, messages).turns)
                = SaidOf(messages)
           /\ Conversation(RequestTo(backend, messages).turns)
<1>1. PICK head \in OfSystem, rest \in Seq(Turns) :
          messages = <<head>> \o rest /\ Conversation(rest)
  BY DEF IsPrompt
<1>2. /\ messages \in Seq(MessageType)
      /\ AnthropicRequest(messages).system \in Seq(MessageType)
      /\ AnthropicRequest(messages).turns = rest
      /\ Only(AnthropicRequest(messages).system \o rest, Saying) = Only(messages, Saying)
  <2>1. KeptWhole(<<head>> \o rest, rest)
    BY RequestParts
  <2> QED
    BY <1>1, <2>1, Zenon DEF KeptWhole
<1>3. \A s \in Seq(MessageType) : SaidOf(s) = Only(s, Saying)
  BY SelectedOnly DEF SaidOf
<1>4. CASE backend = "anthropic"
  <2>1. RequestTo(backend, messages) = AnthropicRequest(messages)
    BY <1>4 DEF RequestTo
  <2>2. rest \in Seq(MessageType)
    <3>1. Turns \subseteq MessageType
      BY DEF Turns
    <3> QED
      BY <3>1, SeqMonotonic
  <2>3. AnthropicRequest(messages).system \o rest \in Seq(MessageType)
    <3>1. PICK a \in Seq(MessageType) : a = AnthropicRequest(messages).system
      BY <1>2
    <3>2. a \o rest \in Seq(MessageType)
      BY <2>2, ConcatProperties
    <3> QED
      BY <3>1, <3>2, Zenon
  <2>4. SaidOf(AnthropicRequest(messages).system \o rest) = SaidOf(messages)
    BY <1>2, <1>3, <2>3, Zenon
  <2> QED
    BY <1>1, <1>2, <2>1, <2>4, Zenon
<1>5. CASE backend # "anthropic"
  <2>1. /\ RequestTo(backend, messages).system = << >>
        /\ RequestTo(backend, messages).turns = messages
    BY <1>5 DEF RequestTo, OpenAIRequest
  <2>2. << >> \o messages = messages
    BY <1>2, ConcatEmptySeq
  <2>3. Conversation(messages)
    BY <1>1, SystemFirst
  <2> QED
    BY <1>1, <1>2, <2>1, <2>2, <2>3, Zenon
<1> QED
  BY <1>4, <1>5

-----------------------------------------------------------------------------
(***************************************************************************)
(* The scan for a bracket's end.                                           *)
(***************************************************************************)

\* The states of the scan for the end of a bracket.
Scanners(opens) ==
    {s \in [read : Nat, length : Nat, depth : Int, quoted : BOOLEAN, escaped : BOOLEAN,
            opens : {opens}, closes : {"}", "]"}] :
        s.length <= s.read /\ s.closes = IF opens = "{" THEN "}" ELSE "]"}

LEMMA ScanIsScanner == ASSUME NEW opens PROVE Scan(opens) \in Scanners(opens)
<1>1. ASSUME NEW S, NEW closes \in S, NEW s,
             s = [read |-> 0, length |-> 0, depth |-> 0, quoted |-> FALSE, escaped |-> FALSE,
                  opens |-> opens, closes |-> closes]
      PROVE  /\ s \in [read : Nat, length : Nat, depth : Int, quoted : BOOLEAN, escaped : BOOLEAN,
                       opens : {opens}, closes : S]
             /\ s.length <= s.read
             /\ s.closes = closes
  BY <1>1
<1>2. PICK closes \in {"}", "]"} : closes = IF opens = "{" THEN "}" ELSE "]"
  OBVIOUS
<1>3. Scan(opens) = [read |-> 0, length |-> 0, depth |-> 0, quoted |-> FALSE, escaped |-> FALSE,
                     opens |-> opens, closes |-> closes]
  BY <1>2, Zenon DEF Scan
<1> QED
  BY <1>1, <1>2, <1>3, Zenon DEF Scanners

\* A symbol takes the scan from one of its states to another.
LEMMA ScanSymbolIsScanner ==
    ASSUME NEW opens, NEW s \in Scanners(opens), NEW c
    PROVE  /\ ScanSymbol(s, c) \in Scanners(opens)
           /\ ScanSymbol(s, c).read <= s.read + 1
<1> DEFINE t == [s EXCEPT !.read = @ + 1]
<1>1. /\ s.read \in Nat /\ s.length \in Nat /\ s.depth \in Int /\ s.length <= s.read
      /\ s.quoted \in BOOLEAN /\ s.escaped \in BOOLEAN
  BY DEF Scanners
<1>2. /\ t \in Scanners(opens) /\ t.read = s.read + 1
  <2>1. s.read + 1 \in Nat /\ s.length <= s.read + 1
    BY <1>1
  <2> QED
    BY <2>1 DEF Scanners
<1>3. CASE s.length > 0
  <2>1. ScanSymbol(s, c) = s /\ s.read <= s.read + 1
    BY <1>1, <1>3 DEF ScanSymbol
  <2> QED
    BY <2>1
<1>4. CASE s.length = 0
  <2>1. t.length = 0 /\ t.read <= s.read + 1 /\ t.read >= 1
    BY <1>1, <1>2, <1>4
  <2>2. ScanSymbol(s, c) \in
          {t, [t EXCEPT !.escaped = FALSE], [t EXCEPT !.escaped = TRUE],
           [t EXCEPT !.quoted = ~@], [t EXCEPT !.depth = @ + 1],
           [t EXCEPT !.depth = @ - 1, !.length = IF s.depth = 1 THEN t.read ELSE 0]}
    <3> HIDE DEF t
    <3>1. CASE s.escaped
      BY <1>4, <3>1 DEF ScanSymbol, t
    <3>2. CASE ~s.escaped
      BY <1>4, <3>2 DEF ScanSymbol, t
    <3> QED
      BY <3>1, <3>2
  <2> HIDE DEF t
  <2>3. /\ [t EXCEPT !.escaped = FALSE] \in Scanners(opens)
        /\ [t EXCEPT !.escaped = FALSE].read = t.read
        /\ [t EXCEPT !.escaped = TRUE] \in Scanners(opens)
        /\ [t EXCEPT !.escaped = TRUE].read = t.read
    BY <1>2 DEF Scanners
  <2>4. /\ [t EXCEPT !.quoted = ~@] \in Scanners(opens)
        /\ [t EXCEPT !.quoted = ~@].read = t.read
    BY <1>2 DEF Scanners
  <2>8. t.depth + 1 \in Int /\ t.depth - 1 \in Int
    <3>1. t.depth \in Int
      BY <1>2 DEF Scanners
    <3> QED
      BY <3>1
  <2>9. \A d \in Int : /\ [t EXCEPT !.depth = d] \in Scanners(opens)
                      /\ [t EXCEPT !.depth = d].read = t.read
    BY <1>2 DEF Scanners
  <2>10. \A d \in Int : \A n \in {0, t.read} :
           /\ [t EXCEPT !.depth = d, !.length = n] \in Scanners(opens)
           /\ [t EXCEPT !.depth = d, !.length = n].read = t.read
    <3> SUFFICES ASSUME NEW d \in Int, NEW n \in {0, t.read}
                 PROVE  /\ [t EXCEPT !.depth = d, !.length = n] \in Scanners(opens)
                        /\ [t EXCEPT !.depth = d, !.length = n].read = t.read
      OBVIOUS
    <3>1. t.read \in Nat
      BY <1>2 DEF Scanners
    <3>2. n \in Nat /\ n <= t.read
      BY <3>1
    <3> QED
      BY <1>2, <3>2 DEF Scanners
  <2>5. /\ [t EXCEPT !.depth = @ + 1] \in Scanners(opens)
        /\ [t EXCEPT !.depth = @ + 1].read = t.read
    BY <2>8, <2>9
  <2>6. \A n \in {0, t.read} :
          /\ [t EXCEPT !.depth = @ - 1, !.length = n] \in Scanners(opens)
          /\ [t EXCEPT !.depth = @ - 1, !.length = n].read = t.read
    BY <2>8, <2>10
  <2>7. t.read <= s.read + 1
    BY <2>1
  <2> QED
    BY <1>2, <2>2, <2>3, <2>4, <2>5, <2>6, <2>7
<1> QED
  BY <1>1, <1>3, <1>4

\* What the scan has come to after each of the symbols.
Scans(g, text) ==
    /\ g \in [0..Len(text) -> Scanners(text[1])]
    /\ g[0] = Scan(text[1])
    /\ \A i \in 1..Len(text) : g[i] = ScanSymbol(g[i - 1], text[i])

\* The states of the scan exist, and the last one is what the fold gives.
LEMMA ScanOver ==
    ASSUME NEW n \in Nat, NEW text, DOMAIN text = 1..n
    PROVE  \E g \in [0..n -> Scanners(text[1])] :
               /\ g[0] = Scan(text[1])
               /\ \A i \in 1..n : g[i] = ScanSymbol(g[i - 1], text[i])
               /\ Balanced(text) = g[n].length
<1> DEFINE S == Scanners(text[1])
           base == Scan(text[1])
<1>2. base \in S
  BY ScanIsScanner
<1>0. \A s \in S : \A c : ScanSymbol(s, c) \in S
  BY ScanSymbolIsScanner
<1> HIDE DEF S
<1>3. PICK step \in [1..n -> [S -> S]] :
          \A i \in 1..n : \A s \in S : step[i][s] = ScanSymbol(s, text[i])
  <2> DEFINE made == [i \in 1..n |-> [s \in S |-> ScanSymbol(s, text[i])]]
  <2>1. made \in [1..n -> [S -> S]]
    BY <1>0
  <2>2. \A i \in 1..n : \A s \in S : made[i][s] = ScanSymbol(s, text[i])
    OBVIOUS
  <2> QED
    BY <2>1, <2>2
<1>31. PICK b \in S : b = base
  BY <1>2
<1>4. PICK g : Steps(g, S, b, n, step)
  BY StepsExist
<1>5. /\ g \in [0..n -> S] /\ g[0] = base
      /\ \A i \in 1..n : g[i] = ScanSymbol(g[i - 1], text[i])
  BY <1>3, <1>31, <1>4 DEF Steps
<1>6. PICK f : Folds(f, S, b, n, step)
  BY FoldExists
<1>7. \A s \in SUBSET (1..n) : s # {} => Max(s) \in 1..n /\ s \ {Max(s)} \in SUBSET (1..n)
  BY GreatestFacts
<1>8. f = [s \in SUBSET (1..n) |->
              IF s = {} THEN base ELSE ScanSymbol(f[s \ {Max(s)}], text[Max(s)])]
  <2> HIDE DEF base
  <2>1. ASSUME NEW s \in SUBSET (1..n)
        PROVE  f[s] = IF s = {} THEN base ELSE ScanSymbol(f[s \ {Max(s)}], text[Max(s)])
    BY <1>3, <1>31, <1>6, <1>7 DEF Folds
  <2> QED
    BY <1>6, <2>1 DEF Folds
<1>10. PICK h : /\ h = [s \in SUBSET (1..n) |->
                         IF s = {} THEN base ELSE ScanSymbol(h[s \ {Max(s)}], text[Max(s)])]
                /\ Balanced(text) = h[1..n].length
  <2> DEFINE end == FoldLeft(ScanSymbol, base, text)
  <2>1. Balanced(text) = end.length
    BY DEF Balanced
  <2> HIDE DEF base
  <2>2. \E h : /\ h = [s \in SUBSET (1..n) |->
                        IF s = {} THEN base ELSE ScanSymbol(h[s \ {Max(s)}], text[Max(s)])]
              /\ end = h[1..n]
    BY <1>8, Zenon DEF FoldLeft, MapThenFoldSet
  <2> HIDE DEF end
  <2> QED
    BY <2>1, <2>2, Zenon
<1> HIDE DEF base
<1>11. h[{}] = g[0]
  <2>1. {} \in SUBSET (1..n)
    OBVIOUS
  <2> QED
    BY <1>5, <1>10, <2>1
<1>12. ASSUME NEW k \in Nat, k + 1 <= n, h[1..k] = g[k] PROVE h[1..(k + 1)] = g[k + 1]
  <2>1. k + 1 \in 1..n /\ 1..(k + 1) \in SUBSET (1..n) /\ (k + 1) - 1 = k
    BY <1>12
  <2>2. /\ 1..(k + 1) # {} /\ Max(1..(k + 1)) = k + 1
        /\ (1..(k + 1)) \ {k + 1} = 1..k
    BY GreatestPlace
  <2>4. h[1..(k + 1)] = ScanSymbol(h[1..k], text[k + 1])
    BY <1>10, <2>1, <2>2
  <2>3. g[k + 1] = ScanSymbol(g[k], text[k + 1])
    BY <1>5, <2>1
  <2> QED
    BY <1>12, <2>3, <2>4
<1>14. h[1..n] = g[n]
  BY <1>11, <1>12, FoldAgrees
<1> QED
  BY <1>5, <1>10, <1>14 DEF S, base

\* Every text can be scanned.
LEMMA ScansExist ==
    ASSUME NEW text \in Seq(Symbols)
    PROVE  \E g : Scans(g, text) /\ Balanced(text) = g[Len(text)].length
<1>1. Len(text) \in Nat /\ DOMAIN text = 1..Len(text)
  BY LenProperties
<1> QED
  BY <1>1, ScanOver DEF Scans

\* A balanced part is no longer than the text.
LEMMA BalancedType ==
    ASSUME NEW text \in Seq(Symbols)
    PROVE  Balanced(text) \in 0..Len(text)
<1>1. PICK g : Scans(g, text) /\ Balanced(text) = g[Len(text)].length
  BY ScansExist
<1>2. PICK n \in Nat : n = Len(text)
  BY LenProperties
<1>3. /\ g \in [0..n -> Scanners(text[1])] /\ g[0] = Scan(text[1])
      /\ \A i \in 1..n : g[i] = ScanSymbol(g[i - 1], text[i])
  BY <1>1, <1>2 DEF Scans
<1> DEFINE T == {k \in Nat : k <= n => g[k].read <= k}
<1>4. 0 \in T
  <2>1. Scan(text[1]).read = 0
    BY DEF Scan
  <2> QED
    BY <1>3, <2>1
<1>5. ASSUME NEW k \in Nat, k + 1 <= n, g[k].read <= k PROVE g[k + 1].read <= k + 1
  <2>1. k + 1 \in 1..n /\ (k + 1) - 1 = k /\ k \in 0..n
    BY <1>5
  <2>2. g[k + 1] = ScanSymbol(g[k], text[k + 1])
    BY <1>3, <2>1
  <2>3. PICK s \in Scanners(text[1]) : s = g[k]
    BY <1>3, <2>1
  <2>4. ScanSymbol(s, text[k + 1]).read <= s.read + 1 /\ ScanSymbol(s, text[k + 1]) \in Scanners(text[1])
    BY ScanSymbolIsScanner
  <2>5. \A r \in Scanners(text[1]) : r.read \in Nat
    BY DEF Scanners
  <2> QED
    BY <1>5, <2>2, <2>3, <2>4, <2>5
<1>6. \A k \in T : k + 1 \in T
  BY <1>5
<1> HIDE DEF T
<1>7. T = Nat
  <2>1. T \in SUBSET Nat
    BY DEF T
  <2> QED
    BY <1>4, <1>6, <2>1, NatSetInduction
<1>8. g[n].read <= n
  BY <1>7 DEF T
<1>9. g[n].length \in Nat /\ g[n].read \in Nat /\ g[n].length <= g[n].read
  <2>1. n \in 0..n
    OBVIOUS
  <2>2. g[n] \in Scanners(text[1])
    BY <1>3, <2>1
  <2> QED
    BY <2>2 DEF Scanners
<1> QED
  BY <1>1, <1>2, <1>8, <1>9

-----------------------------------------------------------------------------
\* Texts and what is found in them.

\* What is stripped is text.
LEMMA StripType ==
    ASSUME NEW text \in Seq(Symbols)
    PROVE  Strip(text) \in Seq(Symbols)
<1> DEFINE kept == {i \in DOMAIN text : text[i] # "newline"}
<1>1. PICK n \in Nat : n = Len(text) /\ DOMAIN text = 1..n
  BY LenProperties
<1>2. CASE kept = {}
  BY <1>2, EmptySeq DEF Strip
<1>3. CASE kept # {}
  <2>1. kept \in SUBSET (1..n)
    BY <1>1
  <2>2. Strip(text) = SubSeq(text, Min(kept), Max(kept))
    BY <1>3 DEF Strip
  <2> HIDE DEF kept
  <2>3. Max(kept) \in kept /\ \A i \in kept : i <= Max(kept)
    BY <1>3, <2>1, GreatestFacts
  <2>4. Min(kept) \in kept /\ \A i \in kept : Min(kept) <= i
    <3>1. kept \in SUBSET Nat
      BY <2>1
    <3> QED
      BY <1>3, <3>1, MinFacts
  <2>51. PICK a \in 1..n : a = Min(kept)
    BY <2>1, <2>4
  <2>52. PICK b \in 1..n : b = Max(kept)
    BY <2>1, <2>3
  <2>53. a <= b
    BY <2>3, <2>4, <2>51, <2>52
  <2>5. a \in Nat /\ b \in Nat /\ 1 <= a /\ a <= b + 1 /\ b <= n
    BY <2>53
  <2>6. SubSeq(text, a, b) \in Seq(Symbols)
    BY <1>1, <2>5, PartFacts
  <2> QED
    BY <2>2, <2>51, <2>52, <2>6
<1> QED
  BY <1>2, <1>3

-----------------------------------------------------------------------------
(***************************************************************************)
(* What is decoded.                                                        *)
(***************************************************************************)

\* What is decoded.
Decoded ==
    [kind : Kinds, text : Seq(Symbols), says : Seq(Symbols), members : SUBSET (Seq(Symbols) \X Kinds)]

NotNewlines == {c \in Symbols : c # "newline"}

LEMMA ElidedIsOnly ==
    ASSUME NEW text \in Seq(Symbols)
    PROVE  Selected(text, LAMBDA c : c # "newline") = Only(text, NotNewlines)
<1>1. \A i \in DOMAIN text : text[i] \in Symbols
  OBVIOUS
<1>2. \A i \in DOMAIN text : text[i] # "newline" <=> text[i] \in NotNewlines
  BY <1>1 DEF NotNewlines
<1>3. [i \in DOMAIN text |-> IF text[i] # "newline" THEN <<text[i]>> ELSE << >>]
        = [i \in DOMAIN text |-> IF text[i] \in NotNewlines THEN <<text[i]>> ELSE << >>]
  BY <1>2, Zenon
<1> QED
  BY <1>3, Zenon DEF Selected, Only

\* The exception, or what the reader has come to.
LEMMA LoadsFacts ==
    ASSUME NEW text \in Seq(Symbols), NEW g, Reads(g, text)
    PROVE  LET r == g[Len(text)] IN
           /\ r \in Readers
           /\ r.state # "end" => Loads(text) = NoValue
           /\ r.state = "end" =>
                /\ Loads(text) \in Decoded
                /\ Loads(text) = [kind |-> r.kind, text |-> Only(text, NotNewlines),
                                  says |-> IF r.kind = "string" THEN r.says ELSE << >>,
                                  members |-> IF r.kind = "object" THEN r.members ELSE {}]
<1> DEFINE r == g[Len(text)]
<1>1. Len(text) \in 0..Len(text)
  BY LenProperties
<1>2. r \in Readers
  BY <1>1 DEF Reads
<1>3. FoldLeft(ReadSymbol, Reader, text) = r
  BY ReadsAgree
<1> DEFINE v == [kind |-> r.kind, text |-> Only(text, NotNewlines),
                 says |-> IF r.kind = "string" THEN r.says ELSE << >>,
                 members |-> IF r.kind = "object" THEN r.members ELSE {}]
<1>4. Loads(text) = IF r.state # "end" THEN NoValue ELSE v
  BY <1>3, ElidedIsOnly, Zenon DEF Loads
<1> HIDE DEF r
<1>5. ASSUME r.state = "end" PROVE v \in Decoded
  <2>1. Only(text, NotNewlines) \in Seq(Symbols)
    BY OnlyType
  <2>2. r.kind \in Kinds /\ r.says \in Seq(Symbols)
        /\ r.members \in SUBSET (Seq(Symbols) \X Kinds)
    BY <1>2, <1>5 DEF Readers
  <2>3. (IF r.kind = "string" THEN r.says ELSE << >>) \in Seq(Symbols)
    BY <2>2, EmptySeq
  <2>4. (IF r.kind = "object" THEN r.members ELSE {}) \in SUBSET (Seq(Symbols) \X Kinds)
    BY <2>2
  <2> QED
    BY <2>1, <2>2, <2>3, <2>4 DEF Decoded
<1> QED
  BY <1>2, <1>4, <1>5 DEF r

\* What is decoded is a value of one of the kinds, or there is the exception.
LEMMA LoadsType ==
    ASSUME NEW text \in Seq(Symbols)
    PROVE  Loads(text) \in Decoded \union {NoValue}
<1>1. PICK g : Reads(g, text)
  BY ReadsExist
<1> QED
  BY <1>1, LoadsFacts

LEMMA DecodedFacts ==
    ASSUME NEW v \in Decoded
    PROVE  v # NoValue /\ v.kind \in Kinds
BY DEF Decoded, NoValue, Kinds

\* The places of a text that a test selects.
FirstOf(text, symbol) == SelectInSeq(text, LAMBDA c : c = symbol)
LastOf(text, symbol)  == SelectLastInSeq(text, LAMBDA c : c = symbol)

\* The first and the last place of a symbol.
LEMMA PlaceFacts ==
    ASSUME NEW text \in Seq(Symbols), NEW symbol
    PROVE  /\ FirstOf(text, symbol) \in 0..Len(text)
           /\ LastOf(text, symbol) \in 0..Len(text)
           /\ FirstOf(text, symbol) # 0 =>
                /\ text[FirstOf(text, symbol)] = symbol
                /\ \A i \in 1..(FirstOf(text, symbol) - 1) : text[i] # symbol
           /\ FirstOf(text, symbol) = 0 => \A i \in 1..Len(text) : text[i] # symbol
           /\ LastOf(text, symbol) # 0 =>
                /\ text[LastOf(text, symbol)] = symbol
                /\ \A i \in (LastOf(text, symbol) + 1)..Len(text) : text[i] # symbol
           /\ LastOf(text, symbol) = 0 => \A i \in 1..Len(text) : text[i] # symbol
<1>1. PICK n \in Nat : n = Len(text)
  BY LenProperties
<1> DEFINE I == {i \in 1..Len(text) : text[i] = symbol}
           first == FirstOf(text, symbol)
           last  == LastOf(text, symbol)
<1>2. first = IF I # {} THEN Min(I) ELSE 0
  BY DEF SelectInSeq, FirstOf
<1>3. last = IF I # {} THEN Max(I) ELSE 0
  BY DEF SelectLastInSeq, LastOf
<1> HIDE DEF first, last
<1>4. I \in SUBSET (1..n) /\ \A i \in 1..n : i \in I <=> text[i] = symbol
  BY <1>1
<1> HIDE DEF I
<1>5. CASE I = {}
  <2>1. first = 0 /\ last = 0 /\ \A i \in 1..n : text[i] # symbol
    BY <1>2, <1>3, <1>4, <1>5
  <2> QED
    BY <1>1, <2>1 DEF first, last
<1>6. CASE I # {}
  <2>1. first \in I /\ \A i \in I : first <= i
    <3>1. I \in SUBSET Nat
      BY <1>4
    <3> QED
      BY <1>2, <1>6, <3>1, MinFacts
  <2>2. last \in I /\ \A i \in I : i <= last
    BY <1>3, <1>4, <1>6, GreatestFacts
  <2>3. first \in 1..n /\ last \in 1..n /\ text[first] = symbol /\ text[last] = symbol
    BY <1>4, <2>1, <2>2
  <2>4. \A i \in 1..(first - 1) : text[i] # symbol
    <3> SUFFICES ASSUME NEW i \in 1..(first - 1), i \in I PROVE FALSE
      BY <1>4, <2>3
    <3> QED
      BY <2>1, <2>3
  <2>5. \A i \in (last + 1)..n : text[i] # symbol
    <3> SUFFICES ASSUME NEW i \in (last + 1)..n, i \in I PROVE FALSE
      BY <1>4, <2>3
    <3> QED
      BY <2>2, <2>3
  <2>6. first \in 0..n /\ last \in 0..n /\ first # 0 /\ last # 0
    BY <2>3
  <2> QED
    BY <1>1, <2>3, <2>4, <2>5, <2>6 DEF first, last
<1> QED
  BY <1>5, <1>6

-----------------------------------------------------------------------------
(***************************************************************************)
(* Extraction.                                                             *)
(***************************************************************************)

\* What is found in a text is text.
LEMMA FoundType ==
    ASSUME NEW text \in Seq(Symbols)
    PROVE  FindTopLevelJson(text) \in Seq(Symbols)
<1> DEFINE from(i) == SubSeq(text, i, Len(text))
           starts  == {i \in DOMAIN text : text[i] \in {"{", "["} /\ Balanced(from(i)) > 0}
<1>1. PICK n \in Nat : n = Len(text) /\ DOMAIN text = 1..n
  BY LenProperties
<1>2. CASE starts = {}
  BY <1>2, EmptySeq DEF FindTopLevelJson
<1>3. CASE starts # {}
  <2>1. starts \in SUBSET (1..n)
    BY <1>1
  <2>2. FindTopLevelJson(text) = SubSeq(from(Min(starts)), 1, Balanced(from(Min(starts))))
    BY <1>3 DEF FindTopLevelJson
  <2> HIDE DEF starts
  <2>3. Min(starts) \in 1..n
    <3>1. starts \in SUBSET Nat
      BY <2>1
    <3> QED
      BY <1>3, <2>1, <3>1, MinFacts
  <2>4. PICK a \in 1..n : a = Min(starts)
    BY <2>3
  <2>5. from(a) \in Seq(Symbols)
    <3>1. a \in Nat /\ n \in Nat /\ 1 <= a /\ a <= n + 1 /\ n <= n
      OBVIOUS
    <3>2. SubSeq(text, a, n) \in Seq(Symbols)
      BY <1>1, <3>1, PartFacts
    <3> QED
      BY <1>1, <3>2
  <2> HIDE DEF from
  <2>6. PICK rest \in Seq(Symbols) : rest = from(a)
    BY <2>5
  <2>7. PICK k \in Nat : k = Len(rest)
    BY LenProperties
  <2>8. Balanced(rest) \in 0..k
    BY <2>7, BalancedType
  <2>9. PICK b \in 0..k : b = Balanced(rest)
    BY <2>8
  <2>10. b \in Nat /\ 1 \in Nat /\ 1 <= 1 /\ 1 <= b + 1 /\ b <= k
    BY <2>9
  <2>11. SubSeq(rest, 1, b) \in Seq(Symbols)
    BY <2>7, <2>10, PartFacts
  <2> QED
    BY <2>2, <2>4, <2>6, <2>9, <2>11
<1> QED
  BY <1>2, <1>3

\* What is between the fences.
LEMMA InnerType ==
    ASSUME NEW text \in Seq(Symbols), NEW newline \in 1..Len(text), NEW fence \in 1..Len(text),
           fence > newline
    PROVE  SubSeq(text, newline + 1, fence - 1) \in Seq(Symbols)
<1>1. PICK n \in Nat : n = Len(text)
  BY LenProperties
<1>2. newline \in 1..n /\ fence \in 1..n
  BY <1>1
<1>3. PICK a \in Nat, b \in Nat : a = newline + 1 /\ b = fence - 1 /\ 1 <= a /\ a <= b + 1 /\ b <= n
  <2>1. /\ newline + 1 \in Nat /\ fence - 1 \in Nat /\ 1 <= newline + 1
        /\ newline + 1 <= (fence - 1) + 1 /\ fence - 1 <= n
    BY <1>2
  <2> QED
    BY <2>1
<1>4. SubSeq(text, a, b) \in Seq(Symbols)
  BY <1>1, <1>3, PartFacts
<1> QED
  BY <1>3, <1>4

\* The pieces that extraction looks at, by their places.
NewlineOf(text) == FirstOf(text, "newline")
FenceOf(text)   == LastOf(text, "fence")
InnerOf(text)   == Strip(SubSeq(text, NewlineOf(text) + 1, FenceOf(text) - 1))

IsFenced(text) ==
    text # << >> /\ Head(text) = "fence" /\ NewlineOf(text) # 0 /\ FenceOf(text) > NewlineOf(text)

\* Extraction, by the places of the first newline and the last fence.
LEMMA ExtractionParts ==
    ASSUME NEW content
    PROVE  ExtractFromText(content) =
             OrElse(Loads(Strip(content)),
                    IF IsFenced(Strip(content))
                    THEN OrElse(Loads(InnerOf(Strip(content))),
                                Loads(FindTopLevelJson(InnerOf(Strip(content)))))
                    ELSE Loads(FindTopLevelJson(Strip(content))))
BY Zenon DEF ExtractFromText, IsFenced, InnerOf, NewlineOf, FenceOf, FirstOf, LastOf

\* Where the first newline is.
LEMMA NewlineFacts ==
    ASSUME NEW text \in Seq(Symbols)
    PROVE  /\ NewlineOf(text) \in 0..Len(text)
           /\ NewlineOf(text) # 0 =>
                /\ text[NewlineOf(text)] = "newline"
                /\ \A i \in 1..(NewlineOf(text) - 1) : text[i] # "newline"
           /\ NewlineOf(text) = 0 => \A i \in 1..Len(text) : text[i] # "newline"
BY PlaceFacts DEF NewlineOf

\* Where the last fence is.
LEMMA FenceFacts ==
    ASSUME NEW text \in Seq(Symbols)
    PROVE  /\ FenceOf(text) \in 0..Len(text)
           /\ FenceOf(text) # 0 =>
                /\ text[FenceOf(text)] = "fence"
                /\ \A i \in (FenceOf(text) + 1)..Len(text) : text[i] # "fence"
           /\ FenceOf(text) = 0 => \A i \in 1..Len(text) : text[i] # "fence"
BY PlaceFacts DEF FenceOf

LEMMA InnerOfType ==
    ASSUME NEW text \in Seq(Symbols), IsFenced(text)
    PROVE  InnerOf(text) \in Seq(Symbols)
<1>1. PICK n \in Nat : n = Len(text)
  BY LenProperties
<1>2. PICK newline \in 0..n : newline = NewlineOf(text)
  BY <1>1, NewlineFacts
<1>3. PICK fence \in 0..n : fence = FenceOf(text)
  BY <1>1, FenceFacts
<1>4. newline # 0 /\ fence > newline
  BY <1>2, <1>3 DEF IsFenced
<1>5. newline \in 1..n /\ fence \in 1..n
  BY <1>4
<1>6. SubSeq(text, newline + 1, fence - 1) \in Seq(Symbols)
  BY <1>1, <1>4, <1>5, InnerType
<1> QED
  BY <1>2, <1>3, <1>6, StripType DEF InnerOf

\* What is extracted from a text is a value of one of the kinds, or there is none.
LEMMA ExtractedType ==
    ASSUME NEW content \in Seq(Symbols)
    PROVE  ExtractFromText(content) \in Decoded \union {NoValue}
<1>1. PICK text \in Seq(Symbols) : text = Strip(content)
  BY StripType
<1>2. Loads(text) \in Decoded \union {NoValue}
      /\ Loads(FindTopLevelJson(text)) \in Decoded \union {NoValue}
  BY FoundType, LoadsType
<1>3. ASSUME IsFenced(text)
      PROVE  /\ Loads(InnerOf(text)) \in Decoded \union {NoValue}
             /\ Loads(FindTopLevelJson(InnerOf(text))) \in Decoded \union {NoValue}
  <2>1. InnerOf(text) \in Seq(Symbols)
    BY <1>3, InnerOfType
  <2> QED
    BY <2>1, FoundType, LoadsType
<1>4. ExtractFromText(content) =
             OrElse(Loads(text),
                    IF IsFenced(text)
                    THEN OrElse(Loads(InnerOf(text)), Loads(FindTopLevelJson(InnerOf(text))))
                    ELSE Loads(FindTopLevelJson(text)))
  BY <1>1, ExtractionParts, Zenon
<1> QED
  BY <1>2, <1>3, <1>4 DEF OrElse

\* What a response has: text, or a value whose text decodes to it.
IsContent(content) ==
    \/ content.type = "other" /\ content.text = << >>
    \/ content.type \in {"str", "list"} /\ content.text \in Seq(Symbols)
    \/ /\ content.type = "dict"
       /\ content.text = << >>
       /\ content.value \in Decoded
       /\ content.value.kind = "object"

\* And so of any content.
LEMMA ContentIsExtracted ==
    ASSUME NEW content, IsContent(content)
    PROVE  ExtractJson(content) \in Decoded \union {NoValue}
<1>1. CASE content.type = "other"
  BY <1>1 DEF ExtractJson
<1>2. CASE content.type \in {"str", "list"}
  <2>1. content.text \in Seq(Symbols)
    BY <1>2 DEF IsContent
  <2>2. ExtractFromText(content.text) \in Decoded \union {NoValue}
    BY <2>1, ExtractedType
  <2> QED
    BY <1>2, <2>2 DEF ExtractJson
<1>3. CASE content.type = "dict"
  BY <1>3 DEF ExtractJson, IsContent
<1> QED
  BY <1>1, <1>2, <1>3 DEF IsContent

-----------------------------------------------------------------------------
(***************************************************************************)
(* Contents: what the backends return.                                     *)
(***************************************************************************)

LEMMA DictFacts ==
    ASSUME NEW value, IsDict(value)
    PROVE  value \in Decoded /\ value.kind = "object" /\ IsContent(Dict(value))
<1>1. value.text \in Seq(Symbols) /\ value.kind = "object" /\ Loads(value.text) = value
  BY DEF IsDict
<1>2. value \in Decoded \union {NoValue}
  BY <1>1, LoadsType
<1>3. value \in Decoded
  BY <1>1, <1>2 DEF NoValue
<1> QED
  BY <1>1, <1>3 DEF IsContent, Dict

LEMMA TextIsContent ==
    ASSUME NEW text \in Seq(Symbols)
    PROVE  IsContent(Text(text))
BY DEF IsContent, Text

LEMMA EmptyObjectIsContent == IsContent(Dict(EmptyObject))
<1>1. "{" \in Symbols /\ "}" \in Symbols
  BY DEF Symbols
<1>2. <<"{", "}">> \in Seq(Symbols)
  BY <1>1, TupleFacts
<1>3. PICK text \in Seq(Symbols) : text = <<"{", "}">>
  BY <1>2
<1>4. EmptyObject \in Decoded /\ EmptyObject.kind = "object"
  <2>1. EmptyObject = [NoValue EXCEPT !.kind = "object", !.text = text]
    BY <1>3, Zenon DEF EmptyObject
  <2>2. NoValue \in [kind : {"none"}, text : Seq(Symbols), says : Seq(Symbols),
                     members : SUBSET (Seq(Symbols) \X Kinds)]
    BY EmptySeq DEF NoValue
  <2> QED
    BY <2>1, <2>2 DEF Decoded, Kinds
<1> QED
  BY <1>4 DEF IsContent, Dict

LEMMA AsContentIsContent ==
    ASSUME NEW value \in Decoded
    PROVE  IsContent(AsContent(value))
<1>1. value.says \in Seq(Symbols) /\ value.kind \in {"object", "array", "string"}
  BY DEF Decoded, Kinds
<1>2. CASE value.kind = "object"
  BY <1>2 DEF AsContent, IsContent, Dict
<1>3. CASE value.kind = "string"
  BY <1>1, <1>3, TextIsContent DEF AsContent
<1>4. CASE value.kind = "array"
  <2>1. AsContent(value) = List
    BY <1>4 DEF AsContent
  <2> QED
    BY <2>1, EmptySeq DEF List, IsContent
<1> QED
  BY <1>1, <1>2, <1>3, <1>4

\* What is between the fences for the Anthropic adapter is text.
LEMMA StrippedFencesType ==
    ASSUME NEW text \in Seq(Symbols)
    PROVE  StripFences(text) \in Seq(Symbols)
<1> DEFINE newline == NewlineOf(text)
           rest    == IF newline = 0 THEN << >> ELSE SubSeq(text, newline + 1, Len(text))
           last    == LastOf(rest, "newline")
           closed  == last < Len(rest) /\ rest[last + 1] = "fence"
<1>1. PICK n \in Nat : n = Len(text)
  BY LenProperties
<1>2. StripFences(text) = Strip(IF closed THEN SubSeq(rest, 1, last) ELSE rest)
  BY Zenon DEF StripFences, NewlineOf, FirstOf, LastOf
<1>3. rest \in Seq(Symbols)
  <2>1. CASE newline = 0
    BY <2>1, EmptySeq
  <2>2. CASE newline # 0
    <3>1. newline \in 1..n
      BY <1>1, <2>2, NewlineFacts
    <3>2. PICK a \in Nat : a = newline + 1 /\ 1 <= a /\ a <= n + 1
      BY <3>1
    <3>3. SubSeq(text, a, n) \in Seq(Symbols)
      BY <1>1, <3>2, PartFacts
    <3> QED
      BY <1>1, <2>2, <3>2, <3>3
  <2> QED
    BY <2>1, <2>2
<1> HIDE DEF rest
<1>4. SubSeq(rest, 1, last) \in Seq(Symbols)
  <2>1. PICK k \in Nat : k = Len(rest)
    BY <1>3, LenProperties
  <2>2. PICK b \in Nat : b = last /\ b <= k
    BY <1>3, <2>1, PlaceFacts
  <2>3. 1 \in Nat /\ 1 <= 1 /\ 1 <= b + 1
    OBVIOUS
  <2>4. SubSeq(rest, 1, b) \in Seq(Symbols)
    BY <1>3, <2>1, <2>2, <2>3, PartFacts
  <2> QED
    BY <2>2, <2>4
<1>5. (IF closed THEN SubSeq(rest, 1, last) ELSE rest) \in Seq(Symbols)
  BY <1>3, <1>4
<1> QED
  BY <1>2, <1>5, StripType

LEMMA UndressedType ==
    ASSUME NEW text \in Seq(Symbols)
    PROVE  Undressed(text) \in Seq(Symbols)
<1>1. PICK stripped \in Seq(Symbols) : stripped = Strip(text)
  BY StripType
<1>2. StripFences(stripped) \in Seq(Symbols)
  BY StrippedFencesType
<1> QED
  BY <1>1, <1>2 DEF Undressed

\* What the Anthropic adapter makes of a text is a content.
LEMMA AnthropicTextIsContent ==
    ASSUME NEW text \in Seq(Symbols)
    PROVE  IsContent(AnthropicText(text))
<1>1. Loads(Undressed(text)) \in Decoded \union {NoValue}
  BY UndressedType, LoadsType
<1>2. Loads(Undressed(text)) # NoValue => IsContent(AsContent(Loads(Undressed(text))))
  BY <1>1, AsContentIsContent
<1> QED
  BY <1>2, EmptyObjectIsContent, TextIsContent DEF AnthropicText

\* What a provider's reply is made.
LEMMA ReplyIsContent ==
    ASSUME NEW backend, NEW reply, reply.text \in Seq(Symbols),
           reply.input = NoValue \/ IsDict(reply.input)
    PROVE  IsContent(ContentOf(backend, reply))
<1>1. IsContent(AnthropicText(reply.text)) /\ IsContent(Text(reply.text))
  BY AnthropicTextIsContent, TextIsContent
<1>2. reply.input # NoValue => IsContent(Dict(reply.input))
  BY DictFacts
<1> QED
  BY <1>1, <1>2 DEF ContentOf, OpenAIContent, AnthropicContent

\* A row of a table, or a value like one, is made a response.
LEMMA RowIsContent ==
    ASSUME NEW row, IsContent(row), row.type \in {"dict", "str"}, NEW force
    PROVE  IsContent(Materialise(row, force))
<1>1. CASE row.type = "dict"
  <2>1. row.value.text \in Seq(Symbols)
    BY <1>1 DEF IsContent, Decoded
  <2> QED
    BY <2>1, TextIsContent DEF Materialise
<1>2. CASE row.type = "str"
  BY <1>2 DEF Materialise
<1> QED
  BY <1>1, <1>2

-----------------------------------------------------------------------------
(***************************************************************************)
(* Texts without newlines.                                                 *)
(***************************************************************************)

\* What passes a test passes it again.
LEMMA OnlyPasses ==
    ASSUME NEW S, NEW s \in Seq(S), NEW T
    PROVE  Only(s, T) \in Seq(S \intersect T)
<1> DEFINE p == OnlyPieces(s, T)
<1>1. /\ p \in Seq(Seq(S)) /\ Len(p) = Len(s) /\ Only(s, T) = FlattenSeq(p)
      /\ \A i \in 1..Len(s) : p[i] = IF s[i] \in T THEN <<s[i]>> ELSE << >>
  BY OnlyPiecesFacts
<1>2. PICK n \in Nat : n = Len(s)
  BY LenProperties
<1>3. \A i \in 1..n : s[i] \in S
  BY <1>2, ElementOfSeq
<1> HIDE DEF p
<1>4. ASSUME NEW i \in 1..n PROVE p[i] \in Seq(S \intersect T)
  <2>1. CASE s[i] \in T
    <3>1. s[i] \in S \intersect T
      BY <1>3, <2>1
    <3>2. <<s[i]>> \in Seq(S \intersect T)
      BY <3>1, TupleFacts
    <3> QED
      BY <1>1, <1>2, <2>1, <3>2
  <2>2. CASE s[i] \notin T
    BY <1>1, <1>2, <2>2, EmptySeq
  <2> QED
    BY <2>1, <2>2
<1>5. p \in [1..n -> Seq(S)]
  BY <1>1, <1>2, LenProperties
<1>6. p \in [1..n -> Seq(S \intersect T)]
  BY <1>4, <1>5
<1>7. p \in Seq(Seq(S \intersect T))
  BY <1>6, FunctionIsSeq
<1> QED
  BY <1>1, <1>7, FlattenType

\* A text that neither begins nor ends with a newline is left as it is.
LEMMA StripNothing ==
    ASSUME NEW text \in Seq(Symbols), text # << >>,
           text[1] # "newline", text[Len(text)] # "newline"
    PROVE  Strip(text) = text
<1>1. PICK n \in Nat : n = Len(text) /\ DOMAIN text = 1..n
  BY LenProperties
<1>2. n # 0
  BY <1>1, EmptySeq
<1> DEFINE kept == {i \in DOMAIN text : text[i] # "newline"}
<1>3. kept \in SUBSET (1..n) /\ 1 \in kept /\ n \in kept
  BY <1>1, <1>2
<1>4. Strip(text) = SubSeq(text, Min(kept), Max(kept))
  BY <1>3 DEF Strip
<1> HIDE DEF kept
<1>5. Min(kept) = 1
  <2>1. kept \in SUBSET Nat
    BY <1>3
  <2>2. Min(kept) \in kept /\ \A i \in kept : Min(kept) <= i
    BY <1>3, <2>1, MinFacts
  <2>3. Min(kept) \in 1..n /\ Min(kept) <= 1
    BY <1>3, <2>2
  <2> QED
    BY <2>3
<1>6. Max(kept) = n
  <2>1. Max(kept) \in kept /\ \A i \in kept : i <= Max(kept)
    BY <1>3, GreatestFacts
  <2>2. Max(kept) \in 1..n /\ n <= Max(kept)
    BY <1>3, <2>1
  <2> QED
    BY <2>2
<1> QED
  BY <1>1, <1>4, <1>5, <1>6, SubSeqFull

\* A dict is understood the same as its text.
LEMMA DictTextIsUnderstood ==
    ASSUME NEW value, IsDict(value)
    PROVE  ExtractJson(Text(value.text)) = value
<1>1. value.text \in Seq(Symbols) /\ value.kind = "object" /\ Loads(value.text) = value
  BY DEF IsDict
<1>2. PICK text \in Seq(Symbols) : text = value.text
  BY <1>1
<1>3. PICK g : Reads(g, text)
  BY ReadsExist
<1>4. value # NoValue
  BY <1>1 DEF NoValue
<1>5. value.text = Only(text, NotNewlines) /\ g[Len(text)].state = "end"
  BY <1>1, <1>2, <1>3, <1>4, LoadsFacts
<1>6. text \in Seq(Symbols \intersect NotNewlines)
  BY <1>2, <1>5, OnlyPasses
<1>7. \A i \in 1..Len(text) : text[i] # "newline"
  BY <1>6, ElementOfSeq DEF NotNewlines
<1>8. text # << >>
  BY <1>3, <1>5, EmptySeq DEF Reads, Reader
<1>9. Strip(text) = text
  <2>1. Len(text) \in Nat \ {0}
    BY <1>8, EmptySeq
  <2>2. text[1] # "newline" /\ text[Len(text)] # "newline"
    BY <1>7, <2>1
  <2> QED
    BY <1>8, <2>2, StripNothing
<1>10. ExtractFromText(text) = OrElse(Loads(text),
             IF IsFenced(text)
             THEN OrElse(Loads(InnerOf(text)), Loads(FindTopLevelJson(InnerOf(text))))
             ELSE Loads(FindTopLevelJson(text)))
  BY <1>9, ExtractionParts, Zenon
<1>11. ExtractFromText(text) = value
  BY <1>1, <1>2, <1>4, <1>10 DEF OrElse
<1> QED
  BY <1>2, <1>11 DEF ExtractJson, Text

-----------------------------------------------------------------------------
(***************************************************************************)
(* The adapters.                                                           *)
(***************************************************************************)

\* Stripping what is stripped changes nothing.
LEMMA StripAgain ==
    ASSUME NEW text \in Seq(Symbols)
    PROVE  Strip(Strip(text)) = Strip(text)
<1> DEFINE kept == {i \in DOMAIN text : text[i] # "newline"}
<1>1. PICK n \in Nat : n = Len(text) /\ DOMAIN text = 1..n
  BY LenProperties
<1>2. CASE kept = {}
  <2>1. Strip(text) = << >>
    BY <1>2 DEF Strip
  <2>2. {i \in DOMAIN << >> : << >>[i] # "newline"} = {}
    OBVIOUS
  <2>3. Strip(<< >>) = << >>
    BY <2>2 DEF Strip
  <2> QED
    BY <2>1, <2>3, Zenon
<1>3. CASE kept # {}
  <2>1. kept \in SUBSET (1..n) /\ \A i \in kept : text[i] # "newline"
    BY <1>1
  <2>2. Strip(text) = SubSeq(text, Min(kept), Max(kept))
    BY <1>3 DEF Strip
  <2> HIDE DEF kept
  <2>3. Max(kept) \in kept /\ \A i \in kept : i <= Max(kept)
    BY <1>3, <2>1, GreatestFacts
  <2>4. Min(kept) \in kept /\ \A i \in kept : Min(kept) <= i
    <3>1. kept \in SUBSET Nat
      BY <2>1
    <3> QED
      BY <1>3, <3>1, MinFacts
  <2>5. PICK a \in 1..n : a = Min(kept)
    BY <2>1, <2>4
  <2>6. PICK b \in 1..n : b = Max(kept)
    BY <2>1, <2>3
  <2>7. a <= b /\ text[a] # "newline" /\ text[b] # "newline"
    BY <2>1, <2>3, <2>4, <2>5, <2>6
  <2>8. a \in Nat /\ b \in Nat /\ 1 <= a /\ a <= b + 1 /\ b <= n
    BY <2>7
  <2>9. PICK t \in Seq(Symbols) : t = SubSeq(text, a, b)
    BY <1>1, <2>8, PartFacts
  <2>10. Len(t) = b - a + 1 /\ \A i \in 1..(b - a + 1) : t[i] = text[a + i - 1]
    BY <1>1, <2>8, <2>9, PartFacts
  <2>11. 1 \in 1..(b - a + 1) /\ b - a + 1 \in 1..(b - a + 1)
         /\ a + 1 - 1 = a /\ a + (b - a + 1) - 1 = b
    BY <2>7
  <2>12. t # << >> /\ t[1] # "newline" /\ t[Len(t)] # "newline"
    BY <2>7, <2>10, <2>11, EmptySeq
  <2>13. Strip(t) = t
    BY <2>12, StripNothing
  <2> QED
    BY <2>2, <2>5, <2>6, <2>9, <2>13, Zenon
<1> QED
  BY <1>2, <1>3

\* What JSON may begin with, if it is no newline.
Beginnings == {"{", "[", "quote"}

\* Nothing else is JSON.
LEMMA OtherIsNoJson ==
    ASSUME NEW text \in Seq(Symbols), text # << >>, text[1] \notin Beginnings, text[1] # "newline"
    PROVE  Loads(text) = NoValue
<1>1. PICK g : Reads(g, text)
  BY ReadsExist
<1>2. PICK n \in Nat : n = Len(text)
  BY LenProperties
<1>3. n # 0
  BY <1>2, EmptySeq
<1>4. /\ g \in [0..n -> Readers] /\ g[0] = Reader
      /\ \A i \in 1..n : g[i] = ReadSymbol(g[i - 1], text[i])
  BY <1>1, <1>2 DEF Reads
<1>5. g[1].state = "bad"
  <2>1. g[1] = ReadSymbol(Reader, text[1])
    <3>1. 1 \in 1..n /\ 1 - 1 = 0
      BY <1>3
    <3> QED
      BY <1>3, <1>4, <3>1
  <2>2. Reader.state = "value" /\ Reader.open = << >>
    BY DEF Reader
  <2>3. ReadSymbol(Reader, text[1]) = Bad(Reader)
    <3>1. text[1] \notin {"{", "[", "quote"} /\ text[1] # "newline"
      BY DEF Beginnings
    <3> QED
      BY <2>2, <3>1 DEF ReadSymbol, OutsideString
  <2>4. Bad(Reader).state = "bad"
    BY DEF Bad, Reader
  <2> QED
    BY <2>1, <2>3, <2>4
<1> DEFINE T == {k \in Nat : k + 1 <= n => g[k + 1].state = "bad"}
<1>6. 0 \in T
  BY <1>5
<1>7. ASSUME NEW k \in Nat, (k + 1) + 1 <= n, g[k + 1].state = "bad"
      PROVE  g[(k + 1) + 1].state = "bad"
  <2>1. (k + 1) + 1 \in 1..n /\ ((k + 1) + 1) - 1 = k + 1
    BY <1>7
  <2>2. g[(k + 1) + 1] = ReadSymbol(g[k + 1], text[(k + 1) + 1])
    BY <1>4, <2>1
  <2>3. ReadSymbol(g[k + 1], text[(k + 1) + 1]) = g[k + 1]
    BY <1>7 DEF ReadSymbol
  <2> QED
    BY <1>7, <2>2, <2>3
<1>8. \A k \in T : k + 1 \in T
  BY <1>7
<1> HIDE DEF T
<1>9. T = Nat
  <2>1. T \in SUBSET Nat
    BY DEF T
  <2> QED
    BY <1>6, <1>8, <2>1, NatSetInduction
<1>10. n - 1 \in T /\ (n - 1) + 1 = n
  BY <1>3, <1>9
<1>11. g[n].state = "bad"
  BY <1>10 DEF T
<1> QED
  BY <1>1, <1>2, <1>11, LoadsFacts

\* A fence is such a symbol.
LEMMA FenceIsNoJson ==
    ASSUME NEW text \in Seq(Symbols), text # << >>, Head(text) = "fence"
    PROVE  Loads(text) = NoValue
<1>1. text[1] = "fence"
  OBVIOUS
<1>2. text[1] \notin Beginnings /\ text[1] # "newline"
  BY <1>1 DEF Beginnings
<1> QED
  BY <1>2, OtherIsNoJson

\* What the Anthropic adapter takes the fences from, if the last one opens the last line.
LEMMA FencesAgree ==
    ASSUME NEW text \in Seq(Symbols), text # << >>, Head(text) = "fence",
           LastOf(text, "newline") # 0, FenceOf(text) = LastOf(text, "newline") + 1
    PROVE  IsFenced(text) /\ InnerOf(text) = StripFences(text)
<1>1. PICK n \in Nat : n = Len(text)
  BY LenProperties
<1>2. PICK last \in 1..n : /\ last = LastOf(text, "newline") /\ text[last] = "newline"
                           /\ \A i \in (last + 1)..n : text[i] # "newline"
  <2>1. LastOf(text, "newline") \in 0..n
    BY <1>1, PlaceFacts
  <2>2. LastOf(text, "newline") \in 1..n
    BY <2>1
  <2>3. /\ text[LastOf(text, "newline")] = "newline"
        /\ \A i \in (LastOf(text, "newline") + 1)..n : text[i] # "newline"
    BY <1>1, PlaceFacts
  <2> QED
    BY <2>2, <2>3
<1>3. PICK newline \in 0..n : newline = NewlineOf(text)
  BY <1>1, NewlineFacts
<1>4. newline # 0 /\ newline <= last
  <2>1. newline # 0
    BY <1>1, <1>2, <1>3, NewlineFacts
  <2>2. ASSUME newline > last PROVE FALSE
    <3>1. last \in 1..(newline - 1)
      BY <2>2
    <3>2. \A i \in 1..(newline - 1) : text[i] # "newline"
      BY <1>3, <2>1, NewlineFacts
    <3> QED
      BY <1>2, <3>1, <3>2
  <2> QED
    BY <2>1, <2>2
<1>5. FenceOf(text) = last + 1 /\ FenceOf(text) \in 0..n
  BY <1>1, <1>2, FenceFacts
<1>6. last + 1 \in 1..n /\ text[last + 1] = "fence" /\ last + 1 > newline
  <2>1. FenceOf(text) # 0
    BY <1>5
  <2> QED
    BY <1>4, <1>5, <2>1, FenceFacts
<1>7. IsFenced(text)
  BY <1>3, <1>4, <1>5, <1>6 DEF IsFenced
<1>8. InnerOf(text) = Strip(SubSeq(text, newline + 1, last))
  <2>1. (last + 1) - 1 = last
    OBVIOUS
  <2> QED
    BY <1>3, <1>5, <2>1 DEF InnerOf
<1>9. PICK k \in Nat : k = n - newline /\ k >= 1 /\ last - newline <= k
  <2>1. n - newline \in Nat /\ n - newline >= 1 /\ last - newline <= n - newline
    BY <1>4, <1>6
  <2> QED
    BY <2>1
<1>10. PICK from \in Nat : from = newline + 1 /\ 1 <= from /\ from <= n + 1 /\ n - from + 1 = k
  <2>1. newline + 1 \in Nat /\ 1 <= newline + 1 /\ newline + 1 <= n + 1 /\ n - (newline + 1) + 1 = k
    BY <1>9
  <2> QED
    BY <2>1
<1>11. SubSeq(text, from, n) \in Seq(Symbols) /\ Len(SubSeq(text, from, n)) = k
       /\ \A i \in 1..k : SubSeq(text, from, n)[i] = text[from + i - 1]
  <2>1. 1 <= from /\ from <= n + 1
    BY <1>10
  <2>2. n <= Len(text)
    BY <1>1
  <2>3. /\ SubSeq(text, from, n) \in Seq(Symbols)
        /\ Len(SubSeq(text, from, n)) = n - from + 1
        /\ \A i \in 1..(n - from + 1) : SubSeq(text, from, n)[i] = text[from + i - 1]
    BY <2>1, <2>2, PartFacts
  <2> QED
    BY <1>10, <2>3, Zenon
<1>12. PICK rest \in Seq(Symbols) : rest = SubSeq(text, from, n) /\ Len(rest) = k
                                   /\ \A i \in 1..k : rest[i] = text[from + i - 1]
  BY <1>11, Zenon
<1>13. \A i \in 1..k : rest[i] = text[newline + i]
  <2>1. \A i \in 1..k : from + i - 1 = newline + i
    BY <1>10
  <2> QED
    BY <1>12, <2>1
<1> DEFINE d == last - newline
<1>14. d \in 0..k /\ newline + d = last /\ d < k /\ d + 1 \in 1..k /\ newline + (d + 1) = last + 1
  <2>1. last < n
    BY <1>6
  <2> QED
    BY <1>4, <1>9, <2>1
<1> HIDE DEF d
<1>15. LastOf(rest, "newline") = d
  <2>1. PICK b \in 0..k : b = LastOf(rest, "newline")
    BY <1>12, PlaceFacts
  <2>2. b # 0 => rest[b] = "newline"
    BY <2>1, PlaceFacts
  <2>3. \A i \in (b + 1)..k : rest[i] # "newline"
    <3>1. CASE b = 0
      <4>0. LastOf(rest, "newline") = 0
        BY <2>1, <3>1
      <4>1. \A i \in 1..Len(rest) : rest[i] # "newline"
        BY <4>0, PlaceFacts
      <4>2. b + 1 = 1
        BY <3>1
      <4> QED
        BY <1>12, <4>1, <4>2, Zenon
    <3>2. CASE b # 0
      BY <1>12, <2>1, <3>2, PlaceFacts
    <3> QED
      BY <3>1, <3>2
  <2>4. ASSUME b > d PROVE FALSE
    <3>1. b \in 1..k /\ newline + b \in (last + 1)..n
      BY <1>9, <1>14, <2>4
    <3>2. text[newline + b] = "newline"
      BY <1>13, <2>2, <3>1
    <3> QED
      BY <1>2, <3>1, <3>2
  <2>5. ASSUME b < d PROVE FALSE
    <3>1. d \in (b + 1)..k /\ d \in 1..k
      BY <1>14, <2>5
    <3>2. rest[d] = "newline"
      BY <1>2, <1>13, <1>14, <3>1
    <3> QED
      BY <2>3, <3>1, <3>2
  <2> QED
    BY <1>14, <2>1, <2>4, <2>5
<1>16. rest[d + 1] = "fence"
  BY <1>6, <1>13, <1>14
<1>17. StripFences(text) = Strip(SubSeq(rest, 1, d))
  <2>1. NewlineOf(text) # 0 /\ SubSeq(text, NewlineOf(text) + 1, Len(text)) = rest
    BY <1>1, <1>3, <1>4, <1>10, <1>12
  <2>2. StripFences(text) =
          Strip(IF LastOf(rest, "newline") < Len(rest) /\ rest[LastOf(rest, "newline") + 1] = "fence"
                THEN SubSeq(rest, 1, LastOf(rest, "newline")) ELSE rest)
    BY <2>1, Zenon DEF StripFences, NewlineOf, FirstOf, LastOf
  <2>3. d < Len(rest)
    BY <1>12, <1>14
  <2> QED
    BY <1>15, <1>16, <2>2, <2>3, Zenon
<1>18. SubSeq(rest, 1, d) = SubSeq(text, newline + 1, last)
  <2>1. 1 \in Nat /\ d \in Nat /\ 1 <= 1 /\ 1 <= d + 1 /\ d <= k
    BY <1>14
  <2>2. from \in Nat /\ last \in Nat /\ from <= last + 1 /\ last <= n /\ last - from + 1 = d
    BY <1>4, <1>10, <1>14
  <2>3. PICK a \in Seq(Symbols) : a = SubSeq(rest, 1, d)
    BY <1>12, <2>1, PartFacts
  <2>4. Len(a) = d - 1 + 1 /\ \A i \in 1..(d - 1 + 1) : a[i] = rest[1 + i - 1]
    BY <1>12, <2>1, <2>3, PartFacts
  <2>5. PICK b \in Seq(Symbols) : b = SubSeq(text, from, last)
    BY <1>1, <1>10, <2>2, PartFacts
  <2>6. Len(b) = last - from + 1 /\ \A i \in 1..(last - from + 1) : b[i] = text[from + i - 1]
    BY <1>1, <1>10, <2>2, <2>5, PartFacts
  <2>7. d - 1 + 1 = d /\ \A i \in 1..d : 1 + i - 1 = i /\ from + i - 1 = newline + i /\ i \in 1..k
    BY <1>10, <1>14
  <2>8. Len(a) = Len(b) /\ \A i \in 1..Len(a) : a[i] = b[i]
    <3>1. Len(a) = d /\ \A i \in 1..d : a[i] = rest[1 + i - 1]
      BY <2>4, <2>7, Zenon
    <3>2. Len(b) = d /\ \A i \in 1..d : b[i] = text[from + i - 1]
      BY <2>2, <2>6, Zenon
    <3>3. \A i \in 1..d : a[i] = rest[i] /\ b[i] = text[newline + i] /\ rest[i] = text[newline + i]
      BY <1>13, <2>7, <3>1, <3>2, Zenon
    <3> QED
      BY <3>1, <3>2, <3>3, Zenon
  <2>9. a = b
    BY <2>8, SeqEqual
  <2> QED
    BY <1>10, <2>3, <2>5, <2>9
<1> QED
  BY <1>7, <1>8, <1>17, <1>18

\* What the Anthropic adapter decodes, the executor would have found.
LEMMA AdaptersAgreeOn ==
    ASSUME NEW content \in Seq(Symbols), NEW text, text = Strip(content),
           Undressed(text) # << >>,
           text # << >> /\ Head(text) = "fence" =>
              LastOf(text, "newline") # 0 /\ FenceOf(text) = LastOf(text, "newline") + 1,
           Loads(Undressed(text)).kind \notin {"string", "array"}
    PROVE  ExtractJson(AnthropicText(text)) = ExtractJson(Text(text))
<1>1. text \in Seq(Symbols) /\ Strip(text) = text
  BY StripType, StripAgain
<1> DEFINE value == Loads(Undressed(text))
<1>2. CASE value = NoValue
  BY <1>2 DEF AnthropicText
<1>3. CASE value # NoValue
  <2>1. value \in Decoded
    BY <1>1, <1>3, UndressedType, LoadsType
  <2>2. value.kind = "object"
    BY <2>1, DecodedFacts DEF Kinds
  <2>3. AnthropicText(text) = Dict(value)
    BY <1>3, <2>2 DEF AnthropicText, AsContent
  <2>4. ExtractJson(Dict(value)) = value
    <3> HIDE DEF value
    <3> QED
      BY DEF ExtractJson, Dict
  <2>5. ExtractJson(Text(text)) = ExtractFromText(text)
    BY DEF ExtractJson, Text
  <2>6. ExtractFromText(text) = OrElse(Loads(text),
             IF IsFenced(text)
             THEN OrElse(Loads(InnerOf(text)), Loads(FindTopLevelJson(InnerOf(text))))
             ELSE Loads(FindTopLevelJson(text)))
    BY <1>1, ExtractionParts, Zenon
  <2>7. ExtractFromText(text) = value
    <3>1. CASE text # << >> /\ Head(text) = "fence"
      <4>1. Loads(text) = NoValue
        BY <1>1, <3>1, FenceIsNoJson
      <4>2. IsFenced(text) /\ InnerOf(text) = StripFences(text)
        BY <1>1, <3>1, FencesAgree
      <4>3. Undressed(text) = StripFences(text)
        BY <1>1, <3>1 DEF Undressed
      <4> QED
        BY <1>3, <2>6, <4>1, <4>2, <4>3 DEF OrElse
    <3>2. CASE ~(text # << >> /\ Head(text) = "fence")
      <4>1. Undressed(text) = text
        BY <1>1, <3>2 DEF Undressed
      <4> QED
        BY <1>3, <2>6, <4>1 DEF OrElse
    <3> QED
      BY <3>1, <3>2
  <2> QED
    BY <2>3, <2>4, <2>5, <2>7
<1> QED
  BY <1>2, <1>3

-----------------------------------------------------------------------------
(***************************************************************************)
(* An object.                                                              *)
(***************************************************************************)

\* A stack of one frame, and what there is below it.
LEMMA OneFrame ==
    ASSUME NEW a \in Frames
    PROVE  /\ Append(<< >>, a) = <<a>> /\ <<a>> \in Seq(Frames) /\ <<a>> # << >>
           /\ Last(<<a>>) = a /\ Front(<<a>>) = << >>
<1>1. <<a>> \in Seq(Frames) /\ Len(<<a>>) = 1 /\ <<a>>[1] = a /\ Append(<< >>, a) = <<a>>
  OBVIOUS
<1>2. Front(<<a>>) = << >>
  <2>1. SubSeq(<<a>>, 1, 0) = << >>
    BY <1>1, SubSeqProperties, EmptySeq
  <2> QED
    BY <1>1, <2>1 DEF Front
<1> QED
  BY <1>1, <1>2 DEF Last

\* A key and a string, in braces, are an object.
LEMMA SmallObject ==
    ASSUME NEW text
    PROVE  text = <<"{", "quote">> \o <<"word">> \o <<"quote", "quote", "word", "quote", "}">> =>
             text \in Seq(Symbols) /\ Loads(text) \in Decoded /\ Loads(text).kind = "object"
<1>1. PICK a \in Symbols, b \in Symbols, q \in Symbols, w \in Symbols :
        a = "{" /\ b = "}" /\ q = "quote" /\ w = "word"
  BY DEF Symbols
<1>2. SUFFICES ASSUME text = <<a, q>> \o <<w>> \o <<q, q, w, q, b>>
               PROVE  text \in Seq(Symbols) /\ Loads(text) \in Decoded /\ Loads(text).kind = "object"
  BY <1>1
<1>3. /\ text \in Seq(Symbols) /\ Len(text) = 8
      /\ text[1] = a /\ text[2] = q /\ text[3] = w /\ text[4] = q
      /\ text[5] = q /\ text[6] = w /\ text[7] = q /\ text[8] = b
  <2>1. PICK x \in Seq(Symbols) : x = <<a, q>>
    <3>1. <<a, q>> \in Seq(Symbols)
      OBVIOUS
    <3> QED
      BY <3>1, Zenon
  <2>2. PICK y \in Seq(Symbols) : y = <<w>>
    <3>1. <<w>> \in Seq(Symbols)
      OBVIOUS
    <3> QED
      BY <3>1, Zenon
  <2>3. PICK z \in Seq(Symbols) : z = <<q, q, w, q, b>>
    <3>1. <<q, q, w, q, b>> \in Seq(Symbols)
      OBVIOUS
    <3> QED
      BY <3>1, Zenon
  <2>4. Len(x) = 2 /\ x[1] = a /\ x[2] = q /\ Len(y) = 1 /\ y[1] = w
    BY <2>1, <2>2
  <2>5. Len(z) = 5 /\ z[1] = q /\ z[2] = q /\ z[3] = w /\ z[4] = q /\ z[5] = b
    BY <2>3
  <2>6. /\ x \o y \in Seq(Symbols) /\ Len(x \o y) = Len(x) + Len(y)
        /\ \A i \in 1..(Len(x) + Len(y)) : (x \o y)[i] = IF i <= Len(x) THEN x[i] ELSE y[i - Len(x)]
    BY ConcatProperties
  <2>7. PICK t \in Seq(Symbols) : t = x \o y
    BY <2>6
  <2>8. Len(t) = 3 /\ t[1] = a /\ t[2] = q /\ t[3] = w
    BY <2>4, <2>6, <2>7
  <2>9. /\ t \o z \in Seq(Symbols) /\ Len(t \o z) = Len(t) + Len(z)
        /\ \A i \in 1..(Len(t) + Len(z)) : (t \o z)[i] = IF i <= Len(t) THEN t[i] ELSE z[i - Len(t)]
    BY ConcatProperties
  <2>10. text = t \o z
    BY <1>2, <2>1, <2>2, <2>3, <2>7, Zenon
  <2>11. PICK u \in Seq(Symbols) : u = t \o z
    BY <2>9
  <2>12. /\ Len(u) = 8 /\ u[1] = a /\ u[2] = q /\ u[3] = w /\ u[4] = q
         /\ u[5] = q /\ u[6] = w /\ u[7] = q /\ u[8] = b
    <3>1. Len(u) = 8 /\ \A i \in 1..8 : u[i] = IF i <= 3 THEN t[i] ELSE z[i - 3]
      <4>1. Len(t) = 3 /\ Len(z) = 5
        BY <2>5, <2>8, Zenon
      <4>2. Len(u) = 3 + 5 /\ \A i \in 1..(3 + 5) : u[i] = IF i <= 3 THEN t[i] ELSE z[i - 3]
        BY <2>9, <2>11, <4>1, Zenon
      <4>3. 3 + 5 = 8
        OBVIOUS
      <4> QED
        BY <4>2, <4>3, Zenon
    <3>2. /\ u[1] = t[1] /\ u[2] = t[2] /\ u[3] = t[3]
      BY <3>1
    <3>3. /\ u[4] = z[1] /\ u[5] = z[2] /\ u[6] = z[3] /\ u[7] = z[4] /\ u[8] = z[5]
      BY <3>1
    <3> QED
      BY <2>5, <2>8, <3>1, <3>2, <3>3, Zenon
  <2> QED
    BY <2>10, <2>11, <2>12, Zenon
<1>4. PICK g : Reads(g, text)
  BY <1>3, ReadsExist
<1>5. /\ g \in [0..8 -> Readers]
      /\ g[0] = Reader
      /\ \A i \in 1..8 : g[i] = ReadSymbol(g[i - 1], text[i])
  BY <1>3, <1>4 DEF Reads
<1>6. /\ g[1] = ReadSymbol(g[0], "{")
      /\ g[2] = ReadSymbol(g[1], "quote")
      /\ g[3] = ReadSymbol(g[2], "word")
      /\ g[4] = ReadSymbol(g[3], "quote")
      /\ g[5] = ReadSymbol(g[4], "quote")
      /\ g[6] = ReadSymbol(g[5], "word")
      /\ g[7] = ReadSymbol(g[6], "quote")
      /\ g[8] = ReadSymbol(g[7], "}")
  <2>1. g[1] = ReadSymbol(g[0], a)
    <3>1. 1 \in 1..8 /\ 1 - 1 = 0 /\ text[1] = a
      BY <1>3
    <3> QED
      BY <1>5, <3>1
  <2>2. g[2] = ReadSymbol(g[1], q)
    <3>1. 2 \in 1..8 /\ 2 - 1 = 1 /\ text[2] = q
      BY <1>3
    <3> QED
      BY <1>5, <3>1
  <2>3. g[3] = ReadSymbol(g[2], w)
    <3>1. 3 \in 1..8 /\ 3 - 1 = 2 /\ text[3] = w
      BY <1>3
    <3> QED
      BY <1>5, <3>1
  <2>4. g[4] = ReadSymbol(g[3], q)
    <3>1. 4 \in 1..8 /\ 4 - 1 = 3 /\ text[4] = q
      BY <1>3
    <3> QED
      BY <1>5, <3>1
  <2>5. g[5] = ReadSymbol(g[4], q)
    <3>1. 5 \in 1..8 /\ 5 - 1 = 4 /\ text[5] = q
      BY <1>3
    <3> QED
      BY <1>5, <3>1
  <2>6. g[6] = ReadSymbol(g[5], w)
    <3>1. 6 \in 1..8 /\ 6 - 1 = 5 /\ text[6] = w
      BY <1>3
    <3> QED
      BY <1>5, <3>1
  <2>7. g[7] = ReadSymbol(g[6], q)
    <3>1. 7 \in 1..8 /\ 7 - 1 = 6 /\ text[7] = q
      BY <1>3
    <3> QED
      BY <1>5, <3>1
  <2>8. g[8] = ReadSymbol(g[7], b)
    <3>1. 8 \in 1..8 /\ 8 - 1 = 7 /\ text[8] = b
      BY <1>3
    <3> QED
      BY <1>5, <3>1
  <2> QED
    BY <1>1, <2>1, <2>2, <2>3, <2>4, <2>5, <2>6, <2>7, <2>8, Zenon
<1>7. /\ g[0] \in Readers /\ g[1] \in Readers /\ g[2] \in Readers /\ g[3] \in Readers
      /\ g[4] \in Readers /\ g[5] \in Readers /\ g[6] \in Readers /\ g[7] \in Readers
  <2>1. {0, 1, 2, 3, 4, 5, 6, 7} \subseteq 0..8
    OBVIOUS
  <2>2. \A i \in 0..8 : g[i] \in Readers
    BY <1>5
  <2> QED
    BY <2>1, <2>2, Zenon
<1>8. g[0].state = "value" /\ g[0].open = << >>
  <2>1. Reader.state = "value" /\ Reader.open = << >>
    BY DEF Reader
  <2> QED
    BY <1>5, <2>1, Zenon
<1> DEFINE Fields == [state   : {"value", "string", "escape", "end", "bad"},
                      open    : Seq(Frames),
                      says    : Seq(Symbols),
                      key     : Seq(Symbols),
                      kind    : Kinds \union {"none"},
                      members : SUBSET (Seq(Symbols) \X Kinds)]
           At(r, state, open) == r.state = state /\ r.open = open
<1>9. \A r \in Readers : r \in Fields
  BY DEF Readers
<1>10. /\ Append(<< >>, "{") = <<"{">> /\ <<"{">> # << >> /\ Last(<<"{">>) = "{"
      /\ Front(<<"{">>) = << >> /\ Append(<< >>, ":") = <<":">> /\ <<":">> # << >>
      /\ Last(<<":">>) = ":" /\ Front(<<":">>) = << >>
  <2>1. "{" \in Frames /\ ":" \in Frames
    BY DEF Frames
  <2> QED
    BY <2>1, OneFrame
<1>11. ASSUME NEW r \in Readers, NEW open, At(r, "value", open)
      PROVE  At(ReadSymbol(r, "quote"), "string", open)
  BY <1>9, <1>11 DEF ReadSymbol, OutsideString
<1>12. ASSUME NEW r \in Readers, NEW open, At(r, "string", open)
       PROVE  At(ReadSymbol(r, "word"), "string", open)
  BY <1>9, <1>12 DEF ReadSymbol, InString
<1>13. ASSUME NEW r \in Readers, At(r, "value", << >>)
       PROVE  At(ReadSymbol(r, "{"), "value", <<"{">>)
  <2>1. ReadSymbol(r, "{") = [r EXCEPT !.open = Append(@, "{")]
    BY <1>13 DEF ReadSymbol, OutsideString
  <2> QED
    BY <1>9, <1>10, <1>13, <2>1
<1>14. ASSUME NEW r \in Readers, At(r, "string", <<"{">>)
       PROVE  At(ReadSymbol(r, "quote"), "value", <<":">>)
  <2> DEFINE k == IF Len(r.open) = 1 THEN r.says ELSE r.key
             t == [r EXCEPT !.state = "value", !.open = Append(Front(@), ":"), !.key = k]
  <2>1. ReadSymbol(r, "quote") = Completed(r, "string")
    BY <1>14 DEF ReadSymbol, InString
  <2>2. Completed(r, "string") = t
    BY <1>10, <1>14 DEF Completed
  <2> HIDE DEF k
  <2>3. t.state = "value" /\ t.open = Append(Front(r.open), ":")
    BY <1>9
  <2> HIDE DEF t
  <2> QED
    BY <1>10, <1>14, <2>1, <2>2, <2>3
<1>15. ASSUME NEW r \in Readers, At(r, "string", <<":">>)
       PROVE  At(ReadSymbol(r, "quote"), "value", <<"{">>)
  <2> DEFINE put == {member \in r.members : member[1] # r.key} \union {<<r.key, "string">>}
             k == IF Len(r.open) = 1 THEN put ELSE r.members
             t == [r EXCEPT !.state = "value", !.open = Append(Front(@), "{"), !.members = k]
  <2>1. ReadSymbol(r, "quote") = Completed(r, "string")
    BY <1>15 DEF ReadSymbol, InString
  <2>2. Completed(r, "string") = t
    BY <1>10, <1>15 DEF Completed
  <2> HIDE DEF k
  <2>3. t.state = "value" /\ t.open = Append(Front(r.open), "{")
    BY <1>9
  <2> HIDE DEF t
  <2> QED
    BY <1>10, <1>15, <2>1, <2>2, <2>3
<1>16. ASSUME NEW r \in Readers, At(r, "value", <<"{">>)
       PROVE  ReadSymbol(r, "}").state = "end" /\ ReadSymbol(r, "}").kind = "object"
  <2> DEFINE pop == [r EXCEPT !.open = Front(@)]
  <2>1. ReadSymbol(r, "}") = Completed(pop, "object")
    BY <1>10, <1>16 DEF ReadSymbol, OutsideString
  <2>2. pop \in Fields /\ pop.open = << >>
    <3>1. pop = [r EXCEPT !.open = << >>]
      BY <1>10, <1>16
    <3>2. << >> \in Seq(Frames)
      BY EmptySeq
    <3> HIDE DEF pop
    <3> QED
      BY <1>9, <3>1, <3>2
  <2> HIDE DEF pop
  <2>3. Completed(pop, "object") = [pop EXCEPT !.state = "end", !.kind = "object"]
    BY <2>2 DEF Completed
  <2> QED
    BY <2>1, <2>2, <2>3
<1>17. At(g[0], "value", << >>)
  BY <1>8
<1>18. g[8].state = "end" /\ g[8].kind = "object"
  <2> HIDE DEF At
  <2>1. At(g[1], "value", <<"{">>)
    BY <1>6, <1>7, <1>13, <1>17
  <2>2. At(g[2], "string", <<"{">>)
    BY <1>6, <1>7, <1>11, <2>1
  <2>3. At(g[3], "string", <<"{">>)
    BY <1>6, <1>7, <1>12, <2>2
  <2>4. At(g[4], "value", <<":">>)
    BY <1>6, <1>7, <1>14, <2>3
  <2>5. At(g[5], "string", <<":">>)
    BY <1>6, <1>7, <1>11, <2>4
  <2>6. At(g[6], "string", <<":">>)
    BY <1>6, <1>7, <1>12, <2>5
  <2>7. At(g[7], "value", <<"{">>)
    BY <1>6, <1>7, <1>15, <2>6
  <2> QED
    BY <1>6, <1>7, <1>16, <2>7
<1>19. Loads(text) \in Decoded /\ Loads(text).kind = g[8].kind
  <2>1. Reads(g, text) /\ g[Len(text)] = g[8] /\ g[8].state = "end"
    BY <1>3, <1>4, <1>18
  <2> DEFINE v == [kind |-> g[8].kind, text |-> Only(text, NotNewlines),
                   says |-> IF g[8].kind = "string" THEN g[8].says ELSE << >>,
                   members |-> IF g[8].kind = "object" THEN g[8].members ELSE {}]
  <2>2. Loads(text) \in Decoded /\ Loads(text) = v
    BY <1>3, <2>1, LoadsFacts, Zenon
  <2>3. v.kind = g[8].kind
    OBVIOUS
  <2> HIDE DEF v
  <2> QED
    BY <2>2, <2>3, Zenon
<1> QED
  BY <1>3, <1>18, <1>19

-----------------------------------------------------------------------------
(***************************************************************************)
(* Plain values.                                                           *)
(***************************************************************************)

\* There is but one way to format a text.
LEMMA FormatsAgree ==
    ASSUME NEW text \in Seq(Tokens), NEW map, IsValues(map), NEW g, Formats(g, text, map)
    PROVE  Format(text, map) = IF g[Len(text)].at = "text" THEN g[Len(text)].out ELSE Raises
<1>1. PICK f : /\ Formats(f, text, map)
               /\ Format(text, map) = IF f[Len(text)].at = "text" THEN f[Len(text)].out ELSE Raises
  BY FormatsExist
<1>2. PICK n \in Nat : n = Len(text)
  BY LenProperties
<1>3. /\ f[0] = g[0]
      /\ \A i \in 1..n : /\ f[i] = FormatSymbol(f[i - 1], text[i], map)
                         /\ g[i] = FormatSymbol(g[i - 1], text[i], map)
  BY <1>1, <1>2 DEF Formats
<1> DEFINE T == {k \in Nat : k <= n => f[k] = g[k]}
<1>4. 0 \in T
  BY <1>3
<1>5. \A k \in T : k + 1 \in T
  <2> SUFFICES ASSUME NEW k \in Nat, k + 1 <= n, f[k] = g[k] PROVE f[k + 1] = g[k + 1]
    OBVIOUS
  <2>1. k + 1 \in 1..n /\ (k + 1) - 1 = k
    OBVIOUS
  <2> QED
    BY <1>3, <2>1
<1> HIDE DEF T
<1>6. T = Nat
  <2>1. T \in SUBSET Nat
    BY DEF T
  <2> QED
    BY <1>4, <1>5, <2>1, NatSetInduction
<1>7. f[n] = g[n]
  BY <1>2, <1>6 DEF T
<1> QED
  BY <1>1, <1>2, <1>7, Zenon

\* The text takes the formatter to this state.
Takes(text, map, s) == \E g : Formats(g, text, map) /\ g[Len(text)] = s

\* The formatter has written this, and is between the fields.
Writes(text, map, out) ==
    \E s \in Formatters : Takes(text, map, s) /\ s.at = "text" /\ s.out = out

\* What is written is what a text is formatted to.
LEMMA WritesWhat ==
    ASSUME NEW text \in Seq(Tokens), NEW map, IsValues(map), NEW out, Writes(text, map, out)
    PROVE  Format(text, map) = out
<1>1. PICK g : Formats(g, text, map) /\ g[Len(text)].at = "text" /\ g[Len(text)].out = out
  BY DEF Writes, Takes
<1> QED
  BY <1>1, FormatsAgree

\* No text writes nothing.
LEMMA WritesNothing == ASSUME NEW map PROVE Writes(<< >>, map, << >>)
<1> DEFINE g == [i \in 0..0 |-> Formatter]
<1>1. Formatter \in Formatters /\ Len(<< >>) = 0
  BY FormatterIsFormatter
<1>2. g \in [0..Len(<< >>) -> Formatters] /\ g[0] = Formatter /\ 1..Len(<< >>) = {}
  BY <1>1
<1> HIDE DEF g
<1>3. Formats(g, << >>, map) /\ g[Len(<< >>)] = Formatter
  BY <1>1, <1>2 DEF Formats
<1>4. Formatter.at = "text" /\ Formatter.out = << >>
  BY DEF Formatter
<1> QED
  BY <1>1, <1>3, <1>4, Zenon DEF Writes, Takes

\* One symbol more.
LEMMA TakesOneMore ==
    ASSUME NEW text \in Seq(Tokens), NEW map, IsValues(map), NEW s \in Formatters,
           Takes(text, map, s), NEW c \in Tokens
    PROVE  /\ text \o <<c>> \in Seq(Tokens) /\ FormatSymbol(s, c, map) \in Formatters
           /\ Takes(text \o <<c>>, map, FormatSymbol(s, c, map))
<1>1. PICK n \in Nat : n = Len(text)
  BY LenProperties
<1>2. PICK g : Formats(g, text, map) /\ g[n] = s
  BY <1>1 DEF Takes
<1>3. /\ g \in [0..n -> Formatters] /\ g[0] = Formatter
      /\ \A i \in 1..n : g[i] = FormatSymbol(g[i - 1], text[i], map)
  BY <1>1, <1>2 DEF Formats
<1>4. PICK t \in Formatters : t = FormatSymbol(s, c, map)
  BY FormatSymbolIsFormatter
<1>5. /\ text \o <<c>> \in Seq(Tokens) /\ Len(text \o <<c>>) = n + 1
      /\ \A i \in 1..n : (text \o <<c>>)[i] = text[i]
      /\ (text \o <<c>>)[n + 1] = c
  <2>1. text \o <<c>> = Append(text, c)
    BY AppendIsConcat
  <2> QED
    BY <1>1, <2>1, AppendProperties
<1>6. PICK b \in Seq(Tokens) : b = text \o <<c>>
  BY <1>5
<1> DEFINE h == [i \in 0..(n + 1) |-> IF i = n + 1 THEN t ELSE g[i]]
<1>7. h \in [0..(n + 1) -> Formatters]
  BY <1>3
<1>8. h[n + 1] = t /\ \A i \in 0..n : h[i] = g[i]
  OBVIOUS
<1> HIDE DEF h
<1>9. ASSUME NEW i \in 1..(n + 1) PROVE h[i] = FormatSymbol(h[i - 1], b[i], map)
  <2>1. CASE i \in 1..n
    <3>1. i - 1 \in 0..n /\ i \in 0..n
      BY <2>1
    <3>2. h[i] = g[i] /\ h[i - 1] = g[i - 1] /\ b[i] = text[i]
      BY <1>5, <1>6, <1>8, <2>1, <3>1
    <3> QED
      BY <1>3, <2>1, <3>2, Zenon
  <2>2. CASE i \notin 1..n
    <3>1. i = n + 1 /\ i - 1 = n /\ n \in 0..n
      BY <2>2
    <3>2. h[i] = t /\ h[i - 1] = s /\ b[i] = c
      BY <1>2, <1>5, <1>6, <1>8, <3>1
    <3> QED
      BY <1>4, <3>2, Zenon
  <2> QED
    BY <2>1, <2>2
<1>10. h[0] = Formatter
  <2>1. 0 \in 0..n
    OBVIOUS
  <2> QED
    BY <1>3, <1>8, <2>1
<1>11. Len(b) = n + 1
  BY <1>5, <1>6
<1>12. Formats(h, b, map) /\ h[Len(b)] = t
  BY <1>7, <1>8, <1>9, <1>10, <1>11, Zenon DEF Formats
<1> QED
  BY <1>4, <1>5, <1>6, <1>12, Zenon DEF Takes

\* A symbol that is no brace is written as it is.
LEMMA WritesPlain ==
    ASSUME NEW text \in Seq(Tokens), NEW map, IsValues(map), NEW out \in Seq(Tokens),
           Writes(text, map, out), NEW c \in Tokens, c \notin Braces
    PROVE  text \o <<c>> \in Seq(Tokens) /\ Writes(text \o <<c>>, map, out \o <<c>>)
<1>1. PICK s \in Formatters : Takes(text, map, s) /\ s.at = "text" /\ s.out = out
  BY DEF Writes
<1>2. FormatSymbol(s, c, map) = [s EXCEPT !.out = @ \o <<c>>, !.at = "text"]
  BY <1>1 DEF FormatSymbol, Braces
<1>3. FormatSymbol(s, c, map).at = "text" /\ FormatSymbol(s, c, map).out = out \o <<c>>
  BY <1>1, <1>2 DEF Formatters
<1> QED
  BY <1>1, <1>3, TakesOneMore, Zenon DEF Writes

\* It does not matter which two of three texts are joined first.
Associate(a, b, c) == (a \o b) \o c = a \o (b \o c)

LEMMA TextsAssociate ==
    \A a \in Seq(Tokens), b \in Seq(Tokens), c \in Seq(Tokens) : Associate(a, b, c)
BY ConcatAssociative DEF Associate

\* A brace that is doubled is written once.
LEMMA WritesDoubled ==
    ASSUME NEW text \in Seq(Tokens), NEW map, IsValues(map), NEW out \in Seq(Tokens),
           Writes(text, map, out), NEW c \in Braces
    PROVE  text \o <<c, c>> \in Seq(Tokens) /\ Writes(text \o <<c, c>>, map, out \o <<c>>)
<1>1. c \in Tokens
  BY DEF Tokens
<1>2. PICK s \in Formatters : Takes(text, map, s) /\ s.at = "text" /\ s.out = out
  BY DEF Writes
<1>3. PICK t \in Formatters : t = FormatSymbol(s, c, map)
  BY <1>1, FormatSymbolIsFormatter
<1>4. t.out = out /\ (IF c = "{" THEN t.at = "open" ELSE t.at = "close")
  <2>1. CASE c = "{"
    <3>1. t = [s EXCEPT !.at = "open", !.field = << >>]
      BY <1>2, <1>3, <2>1 DEF FormatSymbol
    <3> QED
      BY <1>2, <2>1, <3>1 DEF Formatters
  <2>2. CASE c = "}"
    <3>1. t = [s EXCEPT !.at = "close"]
      BY <1>2, <1>3, <2>2 DEF FormatSymbol
    <3> QED
      BY <1>2, <2>2, <3>1 DEF Formatters
  <2> QED
    BY <2>1, <2>2 DEF Braces
<1>5. FormatSymbol(t, c, map) = [t EXCEPT !.out = @ \o <<c>>, !.at = "text"]
  BY <1>4 DEF FormatSymbol, Braces
<1>6. FormatSymbol(t, c, map).at = "text" /\ FormatSymbol(t, c, map).out = out \o <<c>>
  BY <1>4, <1>5 DEF Formatters
<1>7. PICK a \in Seq(Tokens) : a = text \o <<c>> /\ Takes(a, map, t)
  BY <1>1, <1>2, <1>3, TakesOneMore, Zenon
<1>8. /\ a \o <<c>> \in Seq(Tokens) /\ FormatSymbol(t, c, map) \in Formatters
      /\ Takes(a \o <<c>>, map, FormatSymbol(t, c, map))
  BY <1>1, <1>7, TakesOneMore
<1>9. a \o <<c>> = text \o <<c, c>>
  <2>1. <<c>> \in Seq(Tokens)
    BY <1>1, TupleFacts
  <2>2. <<c, c>> = <<c>> \o <<c>>
    BY PairIsConcat
  <2>3. Associate(text, <<c>>, <<c>>)
    BY <2>1, TextsAssociate
  <2> QED
    BY <1>7, <2>2, <2>3, Zenon DEF Associate
<1> QED
  BY <1>6, <1>8, <1>9, Zenon DEF Writes

LEMMA FieldIsConcat ==
    ASSUME NEW a \in Tokens, NEW b \in Tokens, NEW c \in Tokens
    PROVE  <<a, b, c>> = (<<a>> \o <<b>>) \o <<c>>
<1>1. <<a, b>> \in Seq(Tokens) /\ <<c>> \in Seq(Tokens) /\ <<a, b, c>> \in Seq(Tokens)
  BY TupleFacts
<1>2. Append(<<a, b>>, c) = <<a, b, c>>
  <2>1. Len(<<a, b>>) = 2 /\ <<a, b>>[1] = a /\ <<a, b>>[2] = b
    OBVIOUS
  <2>2. /\ Append(<<a, b>>, c) \in Seq(Tokens) /\ Len(Append(<<a, b>>, c)) = 2 + 1
        /\ \A i \in 1..2 : Append(<<a, b>>, c)[i] = <<a, b>>[i]
        /\ Append(<<a, b>>, c)[2 + 1] = c
    BY <1>1, <2>1, AppendProperties
  <2>3. /\ Len(<<a, b, c>>) = 3
        /\ <<a, b, c>>[1] = a /\ <<a, b, c>>[2] = b /\ <<a, b, c>>[3] = c
    OBVIOUS
  <2>4. PICK d \in Seq(Tokens) : d = Append(<<a, b>>, c)
    BY <2>2
  <2>5. Len(d) = 3 /\ d[1] = a /\ d[2] = b /\ d[3] = c
    BY <2>1, <2>2, <2>4
  <2>6. \A i \in 1..3 : i = 1 \/ i = 2 \/ i = 3
    OBVIOUS
  <2>7. Len(<<a, b, c>>) = Len(d) /\ \A i \in 1..Len(<<a, b, c>>) : <<a, b, c>>[i] = d[i]
    BY <2>3, <2>5, <2>6
  <2>8. <<a, b, c>> = d
    BY <1>1, <2>7, SeqEqual
  <2> QED
    BY <2>4, <2>8
<1>3. Append(<<a, b>>, c) = <<a, b>> \o <<c>>
  BY <1>1, AppendIsConcat
<1>4. <<a, b>> = <<a>> \o <<b>>
  BY PairIsConcat
<1> QED
  BY <1>2, <1>3, <1>4, Zenon

\* A field is replaced by what it names.
LEMMA WritesField ==
    ASSUME NEW text \in Seq(Tokens), NEW map, IsValues(map), NEW out \in Seq(Tokens),
           Writes(text, map, out), NEW name \in DOMAIN map
    PROVE  /\ text \o <<"{", name, "}">> \in Seq(Tokens)
           /\ Writes(text \o <<"{", name, "}">>, map, out \o map[name])
<1>1. PICK lb \in Tokens, rb \in Tokens : lb = "{" /\ rb = "}"
  BY DEF Tokens, Braces
<1>2. name \in Tokens /\ name # lb /\ name # rb
  BY <1>1, NamesAssumption DEF IsValues, Tokens, Braces
<1>3. PICK s \in Formatters : Takes(text, map, s) /\ s.at = "text" /\ s.out = out
  BY DEF Writes
<1>4. PICK t \in Formatters : t = FormatSymbol(s, lb, map)
  BY FormatSymbolIsFormatter
<1>5. t.at = "open" /\ t.field = << >> /\ t.out = out
  <2>1. t = [s EXCEPT !.at = "open", !.field = << >>]
    BY <1>1, <1>3, <1>4 DEF FormatSymbol
  <2> QED
    BY <1>3, <2>1 DEF Formatters
<1>6. PICK u \in Formatters : u = FormatSymbol(t, name, map)
  BY <1>2, FormatSymbolIsFormatter
<1>7. u.at = "field" /\ u.field = <<name>> /\ u.out = out
  <2>1. u = [t EXCEPT !.at = "field", !.field = Append(@, name)]
    BY <1>1, <1>2, <1>5, <1>6 DEF FormatSymbol
  <2>2. Append(<< >>, name) = <<name>>
    OBVIOUS
  <2> QED
    BY <1>5, <2>1, <2>2 DEF Formatters
<1>8. PICK v \in Formatters : v = FormatSymbol(u, rb, map)
  BY FormatSymbolIsFormatter
<1>9. v.at = "text" /\ v.out = out \o map[name]
  <2>1. Len(u.field) = 1 /\ u.field[1] = name
    BY <1>7
  <2>2. v = [u EXCEPT !.out = @ \o map[name], !.at = "text"]
    BY <1>1, <1>7, <1>8, <2>1 DEF FormatSymbol
  <2> QED
    BY <1>7, <2>2 DEF Formatters
<1>10. PICK a \in Seq(Tokens) : a = text \o <<lb>> /\ Takes(a, map, t)
  BY <1>3, <1>4, TakesOneMore, Zenon
<1>11. PICK b \in Seq(Tokens) : b = a \o <<name>> /\ Takes(b, map, u)
  BY <1>2, <1>6, <1>10, TakesOneMore, Zenon
<1>12. b \o <<rb>> \in Seq(Tokens) /\ Takes(b \o <<rb>>, map, v)
  BY <1>8, <1>11, TakesOneMore
<1>13. b \o <<rb>> = text \o <<lb, name, rb>>
  <2>1. <<lb>> \in Seq(Tokens) /\ <<name>> \in Seq(Tokens) /\ <<rb>> \in Seq(Tokens)
    BY <1>2, TupleFacts
  <2>2. PICK m \in Seq(Tokens) : m = <<lb>> \o <<name>>
    BY <2>1, ConcatProperties
  <2>3. Associate(text, <<lb>>, <<name>>) /\ Associate(text, m, <<rb>>)
    BY <2>1, TextsAssociate
  <2>4. <<lb, name, rb>> = m \o <<rb>>
    <3>1. <<lb, name, rb>> = (<<lb>> \o <<name>>) \o <<rb>>
      BY <1>2, FieldIsConcat, Zenon
    <3> QED
      BY <2>2, <3>1, Zenon
  <2> QED
    BY <1>10, <1>11, <2>2, <2>3, <2>4, Zenon DEF Associate
<1>14. <<lb, name, rb>> = <<"{", name, "}">>
  BY <1>1
<1> QED
  BY <1>9, <1>12, <1>13, <1>14, Zenon DEF Writes

\* After more text, too.
LEMMA WritesNext ==
    ASSUME NEW text \in Seq(Tokens), NEW a \in Seq(Tokens), NEW map, IsValues(map),
           NEW out \in Seq(Tokens), Writes(text \o a, map, out \o a),
           NEW c \in Tokens, c \notin Braces
    PROVE  /\ text \o (a \o <<c>>) \in Seq(Tokens)
           /\ Writes(text \o (a \o <<c>>), map, out \o (a \o <<c>>))
<1>1. PICK x \in Seq(Tokens) : x = text \o a
  BY ConcatProperties
<1>2. PICK y \in Seq(Tokens) : y = out \o a
  BY ConcatProperties
<1>3. PICK w \in Seq(Tokens) : w = <<c>>
  BY TupleFacts
<1>4. Writes(x, map, y)
  BY <1>1, <1>2, Zenon
<1>5. x \o <<c>> \in Seq(Tokens) /\ Writes(x \o <<c>>, map, y \o <<c>>)
  BY <1>4, WritesPlain
<1>6. Associate(text, a, w) /\ Associate(out, a, w)
  BY TextsAssociate
<1> QED
  BY <1>1, <1>2, <1>3, <1>5, <1>6, Zenon DEF Associate

\* A text without braces is written as it is.
LEMMA WritesText ==
    ASSUME NEW text \in Seq(Tokens), NEW map, IsValues(map), NEW out \in Seq(Tokens),
           Writes(text, map, out), NEW v \in Seq(Tokens), Braces \intersect ToSet(v) = {}
    PROVE  text \o v \in Seq(Tokens) /\ Writes(text \o v, map, out \o v)
<1>1. PICK n \in Nat : n = Len(v) /\ DOMAIN v = 1..n
  BY LenProperties
<1>2. \A i \in 1..n : v[i] \in Tokens /\ v[i] \notin Braces
  BY <1>1, ElementOfSeq DEF ToSet
<1> DEFINE part(k) == SubSeq(v, 1, k)
<1>3. \A k \in 0..n : part(k) \in Seq(Tokens) /\ Len(part(k)) = k
  BY <1>1, <1>2, SubSeqProperties
<1>4. ASSUME NEW k \in Nat, k + 1 <= n PROVE part(k + 1) = part(k) \o <<v[k + 1]>>
  <2>1. k \in 0..n /\ k + 1 \in 0..n /\ k + 1 \in 1..n
    BY <1>4
  <2>2. PICK a \in Seq(Tokens) : a = part(k) /\ Len(a) = k
    BY <1>3, <2>1
  <2>3. PICK b \in Seq(Tokens) : b = part(k + 1) /\ Len(b) = k + 1
    BY <1>3, <2>1
  <2>4. PICK e \in Tokens : e = v[k + 1]
    BY <1>2, <2>1
  <2>5. \A i \in 1..k : a[i] = v[i]
    BY <1>1, <1>2, <2>1, <2>2, SubSeqProperties
  <2>6. \A i \in 1..(k + 1) : b[i] = v[i]
    BY <1>1, <1>2, <2>1, <2>3, SubSeqProperties
  <2>7. /\ Append(a, e) \in Seq(Tokens) /\ Len(Append(a, e)) = k + 1
        /\ \A i \in 1..k : Append(a, e)[i] = a[i]
        /\ Append(a, e)[k + 1] = e
    BY <2>2, AppendProperties
  <2>8. \A i \in 1..(k + 1) : b[i] = Append(a, e)[i]
    <3>1. \A i \in 1..(k + 1) : i \in 1..k \/ i = k + 1
      OBVIOUS
    <3> QED
      BY <2>4, <2>5, <2>6, <2>7, <3>1
  <2>9. b = Append(a, e)
    BY <2>3, <2>7, <2>8, SeqEqual
  <2>10. Append(a, e) = a \o <<e>>
    BY AppendIsConcat
  <2> QED
    BY <2>2, <2>3, <2>4, <2>9, <2>10, Zenon
<1>5. part(0) = << >>
  <2>1. 0 \in 0..n
    OBVIOUS
  <2> QED
    BY <1>3, <2>1, EmptySeq
<1>6. part(n) = v
  <2>1. n \in 0..n
    OBVIOUS
  <2>2. PICK b \in Seq(Tokens) : b = part(n) /\ Len(b) = n
    BY <1>3, <2>1
  <2>3. \A i \in 1..n : b[i] = v[i]
    BY <1>1, <1>2, <2>2, SubSeqProperties
  <2>4. b = v
    BY <1>1, <2>2, <2>3, SeqEqual
  <2> QED
    BY <2>2, <2>4
<1> HIDE DEF part
<1>7. ASSUME NEW k \in Nat, k + 1 <= n, k <= n,
             text \o part(k) \in Seq(Tokens), Writes(text \o part(k), map, out \o part(k))
      PROVE  /\ text \o part(k + 1) \in Seq(Tokens)
             /\ Writes(text \o part(k + 1), map, out \o part(k + 1))
  <2>1. k \in 0..n /\ k + 1 \in 1..n
    BY <1>7
  <2>2. PICK a \in Seq(Tokens) : a = part(k)
    BY <1>3, <2>1
  <2>3. PICK e \in Tokens : e = v[k + 1] /\ e \notin Braces /\ <<e>> \in Seq(Tokens)
    BY <1>2, <2>1, TupleFacts
  <2>4. Writes(text \o a, map, out \o a)
    BY <1>7, <2>2, Zenon
  <2>5. /\ text \o (a \o <<e>>) \in Seq(Tokens)
        /\ Writes(text \o (a \o <<e>>), map, out \o (a \o <<e>>))
    BY <2>3, <2>4, WritesNext
  <2>6. part(k + 1) = a \o <<e>>
    BY <1>4, <1>7, <2>2, <2>3, Zenon
  <2> QED
    BY <2>5, <2>6, Zenon
<1> DEFINE T == {k \in Nat : k <= n =>
                    text \o part(k) \in Seq(Tokens) /\ Writes(text \o part(k), map, out \o part(k))}
<1>8. 0 \in T
  <2>1. text \o << >> = text /\ out \o << >> = out
    BY ConcatEmptySeq
  <2>2. text \o part(0) = text /\ out \o part(0) = out
    BY <1>5, <2>1, Zenon
  <2> QED
    BY <2>2
<1>9. \A k \in T : k + 1 \in T
  <2> SUFFICES ASSUME NEW k \in T, k + 1 <= n
               PROVE  /\ text \o part(k + 1) \in Seq(Tokens)
                      /\ Writes(text \o part(k + 1), map, out \o part(k + 1))
    OBVIOUS
  <2>1. k \in Nat /\ k <= n
    OBVIOUS
  <2>2. text \o part(k) \in Seq(Tokens) /\ Writes(text \o part(k), map, out \o part(k))
    BY <2>1
  <2> HIDE DEF T
  <2> QED
    BY <1>7, <2>1, <2>2, Zenon
<1> HIDE DEF T
<1>10. T = Nat
  <2>1. T \in SUBSET Nat
    BY DEF T
  <2> QED
    BY <1>8, <1>9, <2>1, NatSetInduction
<1>11. text \o part(n) \in Seq(Tokens) /\ Writes(text \o part(n), map, out \o part(n))
  BY <1>10 DEF T
<1> QED
  BY <1>6, <1>11, Zenon

\* Placeholders do not overlap.
LEMMA PlaceholdersApart ==
    ASSUME NEW template \in Seq(Tokens),
           NEW p \in Placeholders(template), NEW q \in Placeholders(template)
    PROVE  q # p + 1 /\ q # p + 2
<1>1. PICK n \in Nat : n = Len(template)
  BY LenProperties
<1>2. template[p + 1] \in Names /\ template[p + 2] = "}" /\ template[q] = "{"
  BY <1>1, PlaceholderFacts
<1>3. "{" \notin Names /\ "{" # "}"
  BY NamesAssumption DEF Braces
<1>4. template[q] # template[p + 1] /\ template[q] # template[p + 2]
  BY <1>2, <1>3, Zenon
<1> QED
  BY <1>4, Zenon

\* No place is inside of two of them.
LEMMA PlaceholderOfPlace ==
    ASSUME NEW template \in Seq(Tokens),
           NEW p \in Placeholders(template), NEW q \in Placeholders(template),
           NEW i \in p..(p + 2), i \in q..(q + 2)
    PROVE  p = q
<1>1. PICK n \in Nat : n = Len(template)
  BY LenProperties
<1>2. p \in 1..n /\ q \in 1..n
  BY <1>1, PlaceholderFacts
<1>3. q # p + 1 /\ q # p + 2 /\ p # q + 1 /\ p # q + 2
  BY PlaceholdersApart
<1> QED
  BY <1>2, <1>3

\* What a template says at a place: a value for a placeholder that is known, else itself.
Verbatim(template, context, i) ==
    LET named == {template[p + 1] : p \in Placeholders(template)} \intersect DOMAIN context IN
    IF Inside(i, template) /\ ~(\E p \in Placeholders(template) :
                                    i \in p..(p + 2) /\ template[p + 1] \notin named)
    THEN IF i \in Placeholders(template) THEN context[template[i + 1]] ELSE << >>
    ELSE <<template[i]>>

\* Outside of the placeholders.
LEMMA VerbatimOutside ==
    ASSUME NEW template, NEW context, NEW i, ~Inside(i, template), i \notin Placeholders(template)
    PROVE  /\ Verbatim(template, context, i) = <<template[i]>>
           /\ Piece(template, context, i) = Doubled(template[i])
BY Zenon DEF Verbatim, Piece

\* At the places of a placeholder.
LEMMA VerbatimInside ==
    ASSUME NEW template \in Seq(Tokens), NEW context, NEW p \in Placeholders(template)
    PROVE  /\ Piece(template, context, p + 1) = << >> /\ Piece(template, context, p + 2) = << >>
           /\ template[p + 1] \in DOMAIN context =>
                 /\ Piece(template, context, p) = context[template[p + 1]]
                 /\ Verbatim(template, context, p) = context[template[p + 1]]
                 /\ Verbatim(template, context, p + 1) = << >>
                 /\ Verbatim(template, context, p + 2) = << >>
           /\ template[p + 1] \notin DOMAIN context =>
                 /\ Piece(template, context, p) = <<template[p], template[p + 1], template[p + 2]>>
                 /\ Verbatim(template, context, p) = <<template[p]>>
                 /\ Verbatim(template, context, p + 1) = <<template[p + 1]>>
                 /\ Verbatim(template, context, p + 2) = <<template[p + 2]>>
<1>1. PICK n \in Nat : n = Len(template)
  BY LenProperties
<1>2. template[p] = "{" /\ template[p + 2] = "}"
  BY <1>1, PlaceholderFacts
<1>3. p \in p..(p + 2) /\ p + 1 \in p..(p + 2) /\ p + 2 \in p..(p + 2)
  <2>1. p \in 1..n
    BY <1>1, PlaceholderFacts
  <2> QED
    BY <2>1
<1>4. Inside(p, template) /\ Inside(p + 1, template) /\ Inside(p + 2, template)
  BY <1>3, Zenon DEF Inside
<1>5. p + 1 \notin Placeholders(template) /\ p + 2 \notin Placeholders(template)
  BY PlaceholdersApart
<1>6. \A i \in p..(p + 2) : \A q \in Placeholders(template) : i \in q..(q + 2) => q = p
  BY PlaceholderOfPlace
<1> DEFINE named == {template[q + 1] : q \in Placeholders(template)} \intersect DOMAIN context
           odd(i) == \E q \in Placeholders(template) : i \in q..(q + 2) /\ template[q + 1] \notin named
<1>7. template[p + 1] \in named <=> template[p + 1] \in DOMAIN context
  OBVIOUS
<1>8. \A i : Verbatim(template, context, i)
               = IF Inside(i, template) /\ ~odd(i)
                 THEN IF i \in Placeholders(template) THEN context[template[i + 1]] ELSE << >>
                 ELSE <<template[i]>>
  BY Zenon DEF Verbatim
<1>9. \A i \in p..(p + 2) : odd(i) <=> template[p + 1] \notin named
  BY <1>6, Zenon
<1> HIDE DEF named, odd
<1>10. Piece(template, context, p + 1) = << >> /\ Piece(template, context, p + 2) = << >>
  BY <1>4, <1>5, Zenon DEF Piece
<1>11. ASSUME template[p + 1] \in DOMAIN context
       PROVE  /\ Piece(template, context, p) = context[template[p + 1]]
              /\ Verbatim(template, context, p) = context[template[p + 1]]
              /\ Verbatim(template, context, p + 1) = << >>
              /\ Verbatim(template, context, p + 2) = << >>
  <2>1. ~odd(p) /\ ~odd(p + 1) /\ ~odd(p + 2)
    BY <1>3, <1>7, <1>9, <1>11, Zenon
  <2>2. Piece(template, context, p) = context[template[p + 1]]
    BY <1>11, Zenon DEF Piece
  <2> QED
    BY <1>4, <1>5, <1>8, <2>1, <2>2, Zenon
<1>12. ASSUME template[p + 1] \notin DOMAIN context
       PROVE  /\ Piece(template, context, p) = <<template[p], template[p + 1], template[p + 2]>>
              /\ Verbatim(template, context, p) = <<template[p]>>
              /\ Verbatim(template, context, p + 1) = <<template[p + 1]>>
              /\ Verbatim(template, context, p + 2) = <<template[p + 2]>>
  <2>1. odd(p) /\ odd(p + 1) /\ odd(p + 2)
    BY <1>3, <1>7, <1>9, <1>12, Zenon
  <2>2. Piece(template, context, p) = <<"{", template[p + 1], "}">>
    BY <1>12, Zenon DEF Piece
  <2>3. Piece(template, context, p) = <<template[p], template[p + 1], template[p + 2]>>
    BY <1>2, <2>2, Zenon
  <2>4. /\ Verbatim(template, context, p) = <<template[p]>>
        /\ Verbatim(template, context, p + 1) = <<template[p + 1]>>
        /\ Verbatim(template, context, p + 2) = <<template[p + 2]>>
    BY <1>8, <2>1, Zenon
  <2> QED
    BY <2>3, <2>4
<1> QED
  BY <1>10, <1>11, <1>12, Zenon

LEMMA VerbatimType ==
    ASSUME NEW template \in Seq(Tokens), NEW context, IsValues(context)
    PROVE  [i \in DOMAIN template |-> Verbatim(template, context, i)] \in Seq(Seq(Tokens))
<1>1. PICK n \in Nat : n = Len(template) /\ DOMAIN template = 1..n
  BY LenProperties
<1>2. \A i \in 1..n : template[i] \in Tokens
  BY <1>1, ElementOfSeq
<1>3. ASSUME NEW i \in 1..n PROVE Verbatim(template, context, i) \in Seq(Tokens)
  <2>1. <<template[i]>> \in Seq(Tokens) /\ << >> \in Seq(Tokens)
    BY <1>2, TupleFacts, EmptySeq
  <2>2. CASE i \in Placeholders(template)
    <3>1. template[i + 1] \in DOMAIN context => context[template[i + 1]] \in Seq(Tokens)
      BY DEF IsValues
    <3>2. \/ template[i + 1] \in DOMAIN context
             /\ Verbatim(template, context, i) = context[template[i + 1]]
          \/ Verbatim(template, context, i) = <<template[i]>>
      BY <2>2, VerbatimInside
    <3> QED
      BY <2>1, <3>1, <3>2, Zenon
  <2>3. CASE i \notin Placeholders(template)
    <3>1. \/ Verbatim(template, context, i) = << >>
          \/ Verbatim(template, context, i) = <<template[i]>>
      BY <2>3, Zenon DEF Verbatim
    <3> QED
      BY <2>1, <3>1, Zenon
  <2> QED
    BY <2>2, <2>3
<1> DEFINE v == [i \in 1..n |-> Verbatim(template, context, i)]
<1>4. v \in [1..n -> Seq(Tokens)]
  BY <1>3
<1>5. v = [i \in DOMAIN template |-> Verbatim(template, context, i)]
  BY <1>1
<1> HIDE DEF v
<1>6. v \in Seq(Seq(Tokens))
  BY <1>4, FunctionIsSeq
<1> QED
  BY <1>5, <1>6

\* What is known to the second pass.
LEMMA SafeFacts ==
    ASSUME NEW template, NEW context, NEW p \in Placeholders(template)
    PROVE  /\ template[p + 1] \in DOMAIN Safe(template, context)
           /\ template[p + 1] \notin DOMAIN context =>
                 Safe(template, context)[template[p + 1]] = <<"{", template[p + 1], "}">>
<1> DEFINE unknown == {template[q + 1] : q \in Placeholders(template)} \ DOMAIN context
<1>1. Safe(template, context) = [name \in unknown \union DOMAIN context |->
                                    IF name \in unknown THEN <<"{", name, "}">> ELSE context[name]]
  BY DEF Safe
<1>2. template[p + 1] \in unknown <=> template[p + 1] \notin DOMAIN context
  OBVIOUS
<1> HIDE DEF unknown
<1> QED
  BY <1>1, <1>2

\* Past a symbol outside of the placeholders.
LEMMA PastSymbol ==
    ASSUME NEW a \in Seq(Tokens), NEW map, IsValues(map), NEW out \in Seq(Tokens),
           Writes(a, map, out), NEW c \in Tokens
    PROVE  Writes(a \o Doubled(c), map, out \o <<c>>)
<1>1. CASE c \in Braces
  <2>1. Doubled(c) = <<c, c>>
    BY <1>1 DEF Doubled
  <2>2. Writes(a \o <<c, c>>, map, out \o <<c>>)
    BY <1>1, WritesDoubled
  <2> QED
    BY <2>1, <2>2, Zenon
<1>2. CASE c \notin Braces
  <2>1. Doubled(c) = <<c>>
    BY <1>2 DEF Doubled
  <2>2. Writes(a \o <<c>>, map, out \o <<c>>)
    BY <1>2, WritesPlain
  <2> QED
    BY <2>1, <2>2, Zenon
<1> QED
  BY <1>1, <1>2

\* Past a placeholder that nothing is known for.
LEMMA PastUnknown ==
    ASSUME NEW a \in Seq(Tokens), NEW map, IsValues(map), NEW out \in Seq(Tokens),
           Writes(a, map, out), NEW name \in DOMAIN map, map[name] = <<"{", name, "}">>,
           NEW lb, NEW rb, lb = "{", rb = "}"
    PROVE  Writes(a \o <<lb, name, rb>>, map, ((out \o <<lb>>) \o <<name>>) \o <<rb>>)
<1>1. lb \in Tokens /\ rb \in Tokens /\ name \in Tokens
  BY DEF Tokens, Braces, IsValues
<1>2. Writes(a \o <<"{", name, "}">>, map, out \o map[name])
  BY WritesField
<1>3. map[name] = <<lb, name, rb>> /\ <<"{", name, "}">> = <<lb, name, rb>>
  BY Zenon
<1>4. Writes(a \o <<lb, name, rb>>, map, out \o <<lb, name, rb>>)
  BY <1>2, <1>3, Zenon
<1>5. out \o <<lb, name, rb>> = ((out \o <<lb>>) \o <<name>>) \o <<rb>>
  <2>1. <<lb>> \in Seq(Tokens) /\ <<name>> \in Seq(Tokens) /\ <<rb>> \in Seq(Tokens)
    BY <1>1, TupleFacts
  <2>2. PICK m \in Seq(Tokens) : m = <<lb>> \o <<name>>
    BY <2>1, ConcatProperties
  <2>3. Associate(out, <<lb>>, <<name>>) /\ Associate(out, m, <<rb>>)
    BY <2>1, TextsAssociate
  <2>4. <<lb, name, rb>> = m \o <<rb>>
    BY <1>1, <2>2, FieldIsConcat, Zenon
  <2> QED
    BY <2>2, <2>3, <2>4, Zenon DEF Associate
<1> QED
  BY <1>4, <1>5, Zenon

\* Places that are not within a placeholder.
Cuts(template) == {k \in Nat : \A p \in Placeholders(template) : k # p /\ k # p + 1}

\* A place that is cut at is outside, or the end of a placeholder.
LEMMA CutFacts ==
    ASSUME NEW template \in Seq(Tokens), NEW k \in Nat, k + 1 \in Cuts(template)
    PROVE  \/ ~Inside(k + 1, template) /\ k + 1 \notin Placeholders(template) /\ k \in Cuts(template)
           \/ \E p \in Placeholders(template) : k + 1 = p + 2 /\ p - 1 \in 0..k /\ p - 1 \in Cuts(template)
<1>1. PICK n \in Nat : n = Len(template)
  BY LenProperties
<1>2. \A p \in Placeholders(template) : p \in 1..n
  BY <1>1, PlaceholderFacts
<1>3. \A p \in Placeholders(template) : k + 1 # p /\ k + 1 # p + 1
  BY DEF Cuts
<1>4. CASE \E p \in Placeholders(template) : k + 1 = p + 2
  <2>1. PICK p \in Placeholders(template) : k + 1 = p + 2
    BY <1>4
  <2>2. p \in 1..n /\ p - 1 \in 0..k
    BY <1>2, <2>1
  <2>3. ASSUME NEW q \in Placeholders(template) PROVE p - 1 # q /\ p - 1 # q + 1
    <3>1. p # q + 1 /\ p # q + 2
      BY PlaceholdersApart
    <3>2. q \in 1..n
      BY <1>2
    <3> QED
      BY <2>2, <3>1, <3>2
  <2>4. p - 1 \in Cuts(template)
    BY <2>2, <2>3 DEF Cuts
  <2> QED
    BY <2>1, <2>2, <2>4
<1>5. CASE ~\E p \in Placeholders(template) : k + 1 = p + 2
  <2>1. ASSUME NEW p \in Placeholders(template) PROVE k + 1 \notin p..(p + 2) /\ k # p /\ k # p + 1
    <3>1. k + 1 # p /\ k + 1 # p + 1 /\ k + 1 # p + 2
      BY <1>3, <1>5
    <3>2. p \in 1..n
      BY <1>2
    <3> QED
      BY <3>1, <3>2
  <2>2. k \in Cuts(template)
    BY <2>1 DEF Cuts
  <2>3. ~Inside(k + 1, template)
    BY <2>1, Zenon DEF Inside
  <2>4. k + 1 \notin Placeholders(template)
    BY <1>3, Zenon
  <2> QED
    BY <2>2, <2>3, <2>4
<1> QED
  BY <1>4, <1>5

LEMMA EndIsCut ==
    ASSUME NEW template \in Seq(Tokens)
    PROVE  Len(template) \in Cuts(template) /\ 0 \in Cuts(template)
<1>1. PICK n \in Nat : n = Len(template)
  BY LenProperties
<1>2. \A p \in Placeholders(template) : p \in 1..n /\ p + 2 \in 1..n
  BY <1>1, PlaceholderFacts
<1>3. \A p \in 1..n : p + 2 \in 1..n => n # p /\ n # p + 1 /\ 0 # p /\ 0 # p + 1
  OBVIOUS
<1> QED
  BY <1>1, <1>2, <1>3 DEF Cuts

\* If no value that is put in has braces, a template is rendered to what it says.
LEMMA RenderedVerbatim ==
    ASSUME NEW template \in Seq(Tokens), NEW context, IsValues(context),
           \A p \in Placeholders(template) : template[p + 1] \in DOMAIN context =>
               Braces \intersect ToSet(context[template[p + 1]]) = {}
    PROVE  SafeFormat(template, context)
             = FlattenSeq([i \in DOMAIN template |-> Verbatim(template, context, i)])
<1>1. PICK n \in Nat : n = Len(template) /\ DOMAIN template = 1..n
  BY LenProperties
<1>2. PICK pieces \in Seq(Seq(Tokens)) : pieces = [i \in DOMAIN template |-> Piece(template, context, i)]
  BY PieceType
<1>3. PICK says \in Seq(Seq(Tokens)) : says = [i \in DOMAIN template |-> Verbatim(template, context, i)]
  BY VerbatimType
<1>4. Len(pieces) = n /\ Len(says) = n
  BY <1>1, <1>2, <1>3, LenProperties
<1>5. PICK j : Joins(j, pieces, Tokens)
  BY JoinsExist
<1>6. PICK h : Joins(h, says, Tokens)
  BY JoinsExist
<1>7. FlattenSeq(pieces) = j[n] /\ FlattenSeq(says) = h[n]
  BY <1>4, <1>5, <1>6, FlattenIsJoin
<1>8. PICK map : map = Safe(template, context) /\ IsValues(map)
  BY SafeType
<1>9. /\ j \in [0..n -> Seq(Tokens)] /\ j[0] = << >>
      /\ h \in [0..n -> Seq(Tokens)] /\ h[0] = << >>
  BY <1>4, <1>5, <1>6 DEF Joins
<1>10. ASSUME NEW i \in 1..n
       PROVE  /\ j[i] = j[i - 1] \o Piece(template, context, i)
              /\ h[i] = h[i - 1] \o Verbatim(template, context, i)
  <2>1. pieces[i] = Piece(template, context, i) /\ says[i] = Verbatim(template, context, i)
    BY <1>1, <1>2, <1>3
  <2>2. j[i] = j[i - 1] \o pieces[i] /\ h[i] = h[i - 1] \o says[i]
    BY <1>4, <1>5, <1>6 DEF Joins
  <2> QED
    BY <2>1, <2>2, Zenon
<1>11. ASSUME NEW k \in Nat, k + 1 \in 1..n, k \in 0..n, Writes(j[k], map, h[k]),
              ~Inside(k + 1, template), k + 1 \notin Placeholders(template)
       PROVE  Writes(j[k + 1], map, h[k + 1])
  <2>1. PICK a \in Seq(Tokens), o \in Seq(Tokens) : a = j[k] /\ o = h[k]
    BY <1>9, <1>11
  <2>2. PICK c \in Tokens : c = template[k + 1]
    BY <1>1, <1>11, ElementOfSeq
  <2>3. (k + 1) - 1 = k
    OBVIOUS
  <2>4. /\ j[k + 1] = j[k] \o Piece(template, context, k + 1)
        /\ h[k + 1] = h[k] \o Verbatim(template, context, k + 1)
    BY <1>10, <1>11, <2>3
  <2>5. /\ Verbatim(template, context, k + 1) = <<c>>
        /\ Piece(template, context, k + 1) = Doubled(c)
    BY <1>11, <2>2, VerbatimOutside, Zenon
  <2>6. Writes(a, map, o)
    BY <1>11, <2>1, Zenon
  <2>7. Writes(a \o Doubled(c), map, o \o <<c>>)
    BY <1>8, <2>6, PastSymbol
  <2> QED
    BY <2>1, <2>4, <2>5, <2>7, Zenon
<1>12. ASSUME NEW p \in Placeholders(template), NEW k \in 0..n, k = p - 1, Writes(j[k], map, h[k])
       PROVE  Writes(j[p + 2], map, h[p + 2])
  <2>1. PICK a \in Seq(Tokens), o \in Seq(Tokens) : a = j[p - 1] /\ o = h[p - 1]
    BY <1>9, <1>12
  <2>2. p \in 1..n /\ p + 1 \in 1..n /\ p + 2 \in 1..n
    BY <1>1, PlaceholderFacts
  <2>3. (p + 1) - 1 = p /\ (p + 2) - 1 = p + 1
    BY <2>2
  <2>4. /\ j[p] = a \o Piece(template, context, p)
        /\ h[p] = o \o Verbatim(template, context, p)
    BY <1>10, <2>1, <2>2
  <2>5. /\ j[p + 1] = j[p] \o Piece(template, context, p + 1)
        /\ h[p + 1] = h[p] \o Verbatim(template, context, p + 1)
    BY <1>10, <2>2, <2>3
  <2>6. /\ j[p + 2] = j[p + 1] \o Piece(template, context, p + 2)
        /\ h[p + 2] = h[p + 1] \o Verbatim(template, context, p + 2)
    BY <1>10, <2>2, <2>3
  <2>7. j[p] \in Seq(Tokens) /\ h[p] \in Seq(Tokens)
    <3>1. p \in 0..n
      BY <2>2
    <3> QED
      BY <1>9, <3>1
  <2>8. j[p] \o << >> = j[p] /\ h[p] \o << >> = h[p]
    BY <2>7, ConcatEmptySeq
  <2>9. Piece(template, context, p + 1) = << >> /\ Piece(template, context, p + 2) = << >>
    BY VerbatimInside
  <2>10. j[p + 2] = j[p]
    BY <2>5, <2>6, <2>8, <2>9, Zenon
  <2>11. Writes(a, map, o)
    BY <1>12, <2>1, Zenon
  <2>12. template[p + 1] \in DOMAIN map
    BY <1>8, SafeFacts, Zenon
  <2>13. CASE template[p + 1] \in DOMAIN context
    <3>1. /\ Piece(template, context, p) = context[template[p + 1]]
          /\ Verbatim(template, context, p) = context[template[p + 1]]
          /\ Verbatim(template, context, p + 1) = << >>
          /\ Verbatim(template, context, p + 2) = << >>
      BY <2>13, VerbatimInside
    <3>2. h[p + 2] = h[p]
      BY <2>5, <2>6, <2>8, <3>1, Zenon
    <3>3. PICK v \in Seq(Tokens) : v = context[template[p + 1]]
      BY <2>13 DEF IsValues
    <3>4. Braces \intersect ToSet(v) = {}
      BY <2>13, <3>3, Zenon
    <3>5. Writes(a \o v, map, o \o v)
      BY <1>8, <2>11, <3>4, WritesText
    <3>6. Piece(template, context, p) = v /\ Verbatim(template, context, p) = v
      BY <3>3, <3>1, Zenon
    <3> QED
      BY <2>4, <2>10, <3>2, <3>5, <3>6, Zenon
  <2>14. CASE template[p + 1] \notin DOMAIN context
    <3>1. PICK lb, rb, name : lb = template[p] /\ name = template[p + 1] /\ rb = template[p + 2]
      OBVIOUS
    <3>2. /\ Piece(template, context, p) = <<template[p], template[p + 1], template[p + 2]>>
          /\ Verbatim(template, context, p) = <<template[p]>>
          /\ Verbatim(template, context, p + 1) = <<template[p + 1]>>
          /\ Verbatim(template, context, p + 2) = <<template[p + 2]>>
      BY <2>14, VerbatimInside
    <3>3. h[p + 2] = ((o \o <<lb>>) \o <<name>>) \o <<rb>>
      BY <2>4, <2>5, <2>6, <3>1, <3>2, Zenon
    <3>4. j[p + 2] = a \o <<lb, name, rb>>
      BY <2>4, <2>10, <3>1, <3>2, Zenon
    <3>5. lb = "{" /\ rb = "}"
      BY <1>1, <3>1, PlaceholderFacts
    <3>6. name \in DOMAIN map /\ map[name] = <<"{", name, "}">>
      BY <1>8, <2>12, <2>14, <3>1, SafeFacts, Zenon
    <3>7. Writes(a \o <<lb, name, rb>>, map, ((o \o <<lb>>) \o <<name>>) \o <<rb>>)
      BY <1>8, <2>11, <3>5, <3>6, PastUnknown
    <3> QED
      BY <3>3, <3>4, <3>7, Zenon
  <2> QED
    BY <2>13, <2>14
<1> DEFINE Done(k) == \A m \in 0..k : m \in Cuts(template) => Writes(j[m], map, h[m])
           T == {k \in Nat : k <= n => Done(k)}
<1>13. 0 \in T
  <2>1. Writes(<< >>, map, << >>)
    BY WritesNothing
  <2>2. Writes(j[0], map, h[0])
    BY <1>9, <2>1, Zenon
  <2>3. \A m \in 0..0 : m = 0
    OBVIOUS
  <2> QED
    BY <2>2, <2>3
<1>14. ASSUME NEW k \in Nat, k + 1 <= n,
              \A m \in 0..k : m \in Cuts(template) => Writes(j[m], map, h[m]),
              k + 1 \in Cuts(template)
       PROVE  Writes(j[k + 1], map, h[k + 1])
  <2>1. k \in 0..k /\ k + 1 \in 1..n /\ \A m \in 0..k : m \in 0..n
    BY <1>14
  <2>2. CASE /\ ~Inside(k + 1, template) /\ k + 1 \notin Placeholders(template)
             /\ k \in Cuts(template)
    <3>1. Writes(j[k], map, h[k])
      BY <1>14, <2>1, <2>2, Zenon
    <3>2. k \in 0..n
      BY <2>1, Zenon
    <3> QED
      BY <1>11, <2>1, <2>2, <3>1, <3>2, Zenon
  <2>3. CASE \E p \in Placeholders(template) :
                 k + 1 = p + 2 /\ p - 1 \in 0..k /\ p - 1 \in Cuts(template)
    <3>1. PICK p \in Placeholders(template) :
              k + 1 = p + 2 /\ p - 1 \in 0..k /\ p - 1 \in Cuts(template)
      BY <2>3
    <3>2. Writes(j[p - 1], map, h[p - 1]) /\ p - 1 \in 0..n
      BY <1>14, <2>1, <3>1, Zenon
    <3>3. Writes(j[p + 2], map, h[p + 2])
      BY <1>12, <3>2, Zenon
    <3> QED
      BY <3>1, <3>3, Zenon
  <2> QED
    BY <1>14, <2>2, <2>3, CutFacts
<1>15. ASSUME NEW k \in Nat, k + 1 <= n, Done(k) PROVE Done(k + 1)
  <2> SUFFICES ASSUME NEW m \in 0..(k + 1), m \in Cuts(template) PROVE Writes(j[m], map, h[m])
    OBVIOUS
  <2>1. m \in 0..k \/ m = k + 1
    OBVIOUS
  <2> QED
    BY <1>14, <1>15, <2>1, Zenon
<1> HIDE DEF Done
<1>16. n \in T
  <2>1. \A k \in T : k + 1 \in T
    BY <1>15
  <2>2. T \in SUBSET Nat
    OBVIOUS
  <2> HIDE DEF T
  <2>3. T = Nat
    BY <1>13, <2>1, <2>2, NatSetInduction
  <2> QED
    BY <2>3
<1>17. Writes(j[n], map, h[n])
  <2>1. n \in Cuts(template)
    BY <1>1, EndIsCut
  <2>2. n \in 0..n
    OBVIOUS
  <2>3. Done(n)
    BY <1>16
  <2> QED
    BY <2>1, <2>2, <2>3, Zenon DEF Done
<1>18. PICK a \in Seq(Tokens), o \in Seq(Tokens) : a = j[n] /\ o = h[n]
  <2>1. n \in 0..n
    OBVIOUS
  <2> QED
    BY <1>9, <2>1
<1>19. Writes(a, map, o)
  BY <1>17, <1>18, Zenon
<1>20. Format(a, map) = o
  BY <1>8, <1>19, WritesWhat
<1>21. Substituted(template, context) = a
  BY <1>2, <1>7, <1>18, PieceType, Zenon
<1>22. SafeFormat(template, context) = Format(Substituted(template, context), Safe(template, context))
  BY SafeType
<1> QED
  BY <1>3, <1>7, <1>8, <1>18, <1>20, <1>21, <1>22, Zenon

\* The question is the second message.
LEMMA QuestionIsSecond ==
    ASSUME NEW fn, IsFunction(fn), NEW args, IsValues(args), NEW extra, IsValues(extra)
    PROVE  RenderPrompt(fn, args, extra)[2].content = UserContent(fn, args, extra)
<1> DEFINE context == Context(args, extra)
           head == [role |-> "system", content |-> SystemContent(fn, context)]
           user == [role |-> "user", content |-> UserContent(fn, args, extra)]
           shots == Shots(fn, context)
           S == {head, user} \union Turns
<1>1. IsValues(context)
  BY UpdatedIsValues DEF Context
<1>2. RenderPrompt(fn, args, extra) = <<head, user>> \o shots
  BY Zenon DEF RenderPrompt, Shots
<1>3. user.content = UserContent(fn, args, extra)
  OBVIOUS
<1> HIDE DEF context, head, user
<1>4. shots \in Seq(Turns)
  BY <1>1, ShotsFacts
<1> HIDE DEF shots
<1>5. head \in S /\ user \in S /\ Turns \subseteq S
  OBVIOUS
<1> HIDE DEF S
<1>6. PICK a \in Seq(S) : a = <<head, user>> /\ Len(a) = 2 /\ a[2] = user
  <2>1. <<head, user>> \in Seq(S)
    BY <1>5, TupleFacts
  <2>2. Len(<<head, user>>) = 2 /\ <<head, user>>[2] = user
    OBVIOUS
  <2> QED
    BY <2>1, <2>2, Zenon
<1>7. PICK t \in Seq(S) : t = shots
  BY <1>4, <1>5, SeqMonotonic
<1>8. (a \o t)[2] = a[2]
  <2>1. PICK k \in Nat : k = Len(t)
    BY LenProperties
  <2>2. \A i \in 1..(2 + k) : (a \o t)[i] = IF i <= 2 THEN a[i] ELSE t[i - 2]
    BY <1>6, <2>1, ConcatProperties
  <2>3. 2 \in 1..(2 + k) /\ 2 <= 2
    OBVIOUS
  <2> QED
    BY <2>2, <2>3, Zenon
<1> QED
  BY <1>2, <1>3, <1>6, <1>7, <1>8, Zenon

\* Of a question with a template.
LEMMA QuestionIsVerbatim ==
    ASSUME NEW fn, IsFunction(fn), NEW args, IsValues(args), NEW extra, IsValues(extra),
           NEW template, template = fn.prompt_template, template # << >>,
           NEW context, context = Context(args, extra),
           \A p \in Placeholders(template) : template[p + 1] \in DOMAIN context =>
               Braces \intersect ToSet(context[template[p + 1]]) = {}
    PROVE  RenderPrompt(fn, args, extra)[2].content
             = FlattenSeq([i \in DOMAIN template |-> Verbatim(template, context, i)])
<1>1. IsValues(context)
  BY UpdatedIsValues, Zenon DEF Context
<1>2. template \in Seq(Tokens)
  BY DEF IsFunction
<1>3. RenderPrompt(fn, args, extra)[2].content = SafeFormat(template, context)
  BY QuestionIsSecond, Zenon DEF UserContent
<1> QED
  BY <1>1, <1>2, <1>3, RenderedVerbatim

-----------------------------------------------------------------------------
(***************************************************************************)
(* Objects in answers.                                                     *)
(***************************************************************************)

\* How many frames of a sort there are up to each place of a stack.
Levels(d, open, own) ==
    /\ d \in [0..Len(open) -> Nat]
    /\ d[0] = 0
    /\ \A i \in 1..Len(open) : d[i] = IF open[i] \in own THEN d[i - 1] + 1 ELSE d[i - 1]

HasDepth(open, own, n) == \E d : Levels(d, open, own) /\ d[Len(open)] = n

\* On an empty stack there are none.
LEMMA DepthNothing ==
    ASSUME NEW own
    PROVE  HasDepth(<< >>, own, 0) /\ \A n : HasDepth(<< >>, own, n) => n = 0
<1>1. Len(<< >>) = 0 /\ 1..0 = {}
  OBVIOUS
<1> DEFINE d == [i \in 0..0 |-> 0]
<1>2. d \in [0..0 -> Nat] /\ d[0] = 0
  OBVIOUS
<1> HIDE DEF d
<1>3. Levels(d, << >>, own) /\ d[Len(<< >>)] = 0
  BY <1>1, <1>2 DEF Levels
<1> QED
  BY <1>1, <1>3 DEF HasDepth, Levels

\* A frame is put on top.
LEMMA DepthPush ==
    ASSUME NEW open \in Seq(Frames), NEW own, NEW n, HasDepth(open, own, n), NEW f \in Frames
    PROVE  /\ n \in Nat
           /\ HasDepth(Append(open, f), own, IF f \in own THEN n + 1 ELSE n)
<1>1. PICK k \in Nat : k = Len(open)
  BY LenProperties
<1>2. PICK d : Levels(d, open, own) /\ d[k] = n
  BY <1>1 DEF HasDepth
<1>3. /\ d \in [0..k -> Nat] /\ d[0] = 0
      /\ \A i \in 1..k : d[i] = IF open[i] \in own THEN d[i - 1] + 1 ELSE d[i - 1]
  BY <1>1, <1>2 DEF Levels
<1>4. n \in Nat
  <2>1. k \in 0..k
    OBVIOUS
  <2> QED
    BY <1>2, <1>3, <2>1
<1>5. PICK m \in Nat : m = IF f \in own THEN n + 1 ELSE n
  BY <1>4
<1>6. PICK more \in Seq(Frames) : more = Append(open, f)
  BY AppendProperties
<1>7. Len(more) = k + 1 /\ (\A i \in 1..k : more[i] = open[i]) /\ more[k + 1] = f
  BY <1>1, <1>6, AppendProperties
<1> DEFINE e == [i \in 0..(k + 1) |-> IF i = k + 1 THEN m ELSE d[i]]
<1>8. e \in [0..(k + 1) -> Nat]
  BY <1>3
<1>9. e[k + 1] = m /\ \A i \in 0..k : e[i] = d[i]
  OBVIOUS
<1> HIDE DEF e
<1>10. ASSUME NEW i \in 1..(k + 1)
       PROVE  e[i] = IF more[i] \in own THEN e[i - 1] + 1 ELSE e[i - 1]
  <2>1. CASE i \in 1..k
    <3>1. i - 1 \in 0..k /\ i \in 0..k
      BY <2>1
    <3>2. e[i] = d[i] /\ e[i - 1] = d[i - 1] /\ more[i] = open[i]
      BY <1>7, <1>9, <2>1, <3>1
    <3> QED
      BY <1>3, <2>1, <3>2, Zenon
  <2>2. CASE i \notin 1..k
    <3>1. i = k + 1 /\ i - 1 = k /\ k \in 0..k
      BY <2>2
    <3>2. e[i] = m /\ e[i - 1] = n /\ more[i] = f
      BY <1>2, <1>7, <1>9, <3>1
    <3> QED
      BY <1>5, <3>2, Zenon
  <2> QED
    BY <2>1, <2>2
<1>11. e[0] = 0
  <2>1. 0 \in 0..k
    OBVIOUS
  <2> QED
    BY <1>3, <1>9, <2>1
<1>12. Levels(e, more, own) /\ e[Len(more)] = m
  BY <1>7, <1>8, <1>9, <1>10, <1>11, Zenon DEF Levels
<1> QED
  BY <1>4, <1>5, <1>6, <1>12, Zenon DEF HasDepth

\* And taken from it.
LEMMA DepthPop ==
    ASSUME NEW open \in Seq(Frames), open # << >>, NEW own, NEW n, HasDepth(open, own, n)
    PROVE  /\ n \in Nat
           /\ Last(open) \in own => n - 1 \in Nat /\ HasDepth(Front(open), own, n - 1)
           /\ Last(open) \notin own => HasDepth(Front(open), own, n)
<1>1. PICK k \in Nat : k + 1 = Len(open)
  <2>1. Len(open) \in Nat /\ Len(open) # 0
    BY EmptySeq, LenProperties
  <2>2. Len(open) - 1 \in Nat /\ (Len(open) - 1) + 1 = Len(open)
    BY <2>1
  <2> QED
    BY <2>2
<1>2. PICK d : Levels(d, open, own) /\ d[k + 1] = n
  BY <1>1 DEF HasDepth
<1>3. /\ d \in [0..(k + 1) -> Nat] /\ d[0] = 0
      /\ \A i \in 1..(k + 1) : d[i] = IF open[i] \in own THEN d[i - 1] + 1 ELSE d[i - 1]
  BY <1>1, <1>2 DEF Levels
<1>4. PICK less \in Seq(Frames) : less = Front(open) /\ Len(less) = k /\ \A i \in 1..k : less[i] = open[i]
  <2>1. (k + 1) - 1 = k
    OBVIOUS
  <2> QED
    BY <1>1, <2>1, StackFacts
<1>5. Last(open) = open[k + 1]
  BY <1>1, StackFacts
<1> DEFINE e == [i \in 0..k |-> d[i]]
<1>6. e \in [0..k -> Nat] /\ \A i \in 0..k : e[i] = d[i]
  <2>1. \A i \in 0..k : i \in 0..(k + 1)
    OBVIOUS
  <2> QED
    BY <1>3, <2>1
<1> HIDE DEF e
<1>7. ASSUME NEW i \in 1..k
      PROVE  e[i] = IF less[i] \in own THEN e[i - 1] + 1 ELSE e[i - 1]
  <2>1. i - 1 \in 0..k /\ i \in 0..k /\ i \in 1..(k + 1)
    OBVIOUS
  <2>2. e[i] = d[i] /\ e[i - 1] = d[i - 1] /\ less[i] = open[i]
    BY <1>4, <1>6, <2>1
  <2> QED
    BY <1>3, <2>1, <2>2, Zenon
<1>8. e[0] = 0 /\ e[k] = d[k] /\ d[k] \in Nat
  <2>1. 0 \in 0..k /\ k \in 0..k
    OBVIOUS
  <2> QED
    BY <1>3, <1>6, <2>1
<1>9. HasDepth(less, own, d[k])
  BY <1>4, <1>6, <1>7, <1>8, Zenon DEF HasDepth, Levels
<1>10. n = IF Last(open) \in own THEN d[k] + 1 ELSE d[k]
  <2>1. k + 1 \in 1..(k + 1) /\ (k + 1) - 1 = k
    OBVIOUS
  <2> QED
    BY <1>2, <1>3, <1>5, <2>1
<1>11. CASE Last(open) \in own
  <2>1. n = d[k] + 1 /\ n \in Nat /\ n - 1 = d[k]
    BY <1>8, <1>10, <1>11
  <2> QED
    BY <1>4, <1>8, <1>9, <1>11, <2>1
<1>12. CASE Last(open) \notin own
  <2>1. n = d[k]
    BY <1>10, <1>12
  <2> QED
    BY <1>4, <1>8, <1>9, <1>12, <2>1
<1> QED
  BY <1>11, <1>12

\* With such a frame at the bottom there is at least one.
LEMMA DepthBottom ==
    ASSUME NEW open \in Seq(Frames), open # << >>, NEW own, open[1] \in own,
           NEW n, HasDepth(open, own, n)
    PROVE  n \in Nat /\ n >= 1
<1>1. PICK k \in Nat : k = Len(open) /\ k >= 1
  <2>1. Len(open) \in Nat /\ Len(open) # 0
    BY EmptySeq, LenProperties
  <2> QED
    BY <2>1
<1>2. PICK d : Levels(d, open, own) /\ d[k] = n
  BY <1>1 DEF HasDepth
<1>3. /\ d \in [0..k -> Nat] /\ d[0] = 0
      /\ \A i \in 1..k : d[i] = IF open[i] \in own THEN d[i - 1] + 1 ELSE d[i - 1]
  BY <1>1, <1>2 DEF Levels
<1>4. d[1] = 1
  <2>1. 1 \in 1..k /\ 1 - 1 = 0
    BY <1>1
  <2> QED
    BY <1>3, <2>1
<1> DEFINE T == {i \in Nat : i + 1 <= k => d[i + 1] >= 1}
<1>5. 0 \in T
  BY <1>4
<1>6. ASSUME NEW i \in Nat, i + 2 <= k, d[i + 1] >= 1 PROVE d[i + 2] >= 1
  <2>1. i + 2 \in 1..k /\ (i + 2) - 1 = i + 1 /\ i + 1 \in 0..k
    BY <1>6
  <2>2. d[i + 2] = d[i + 1] + 1 \/ d[i + 2] = d[i + 1]
    BY <1>3, <2>1
  <2>3. d[i + 1] \in Nat
    BY <1>3, <2>1
  <2> QED
    BY <1>6, <2>2, <2>3
<1>7. \A i \in T : i + 1 \in T
  <2>1. \A i \in Nat : (i + 1) + 1 = i + 2
    OBVIOUS
  <2> QED
    BY <1>6, <2>1
<1> HIDE DEF T
<1>8. T = Nat
  <2>1. T \in SUBSET Nat
    BY DEF T
  <2> QED
    BY <1>5, <1>7, <2>1, NatSetInduction
<1>9. k - 1 \in T /\ (k - 1) + 1 = k
  BY <1>1, <1>8
<1>10. d[k] >= 1
  BY <1>9 DEF T
<1>11. d[k] \in Nat
  <2>1. k \in 0..k
    OBVIOUS
  <2> QED
    BY <1>3, <2>1
<1> QED
  BY <1>2, <1>10, <1>11

\* The top of a stack is replaced by a frame of its sort.
LEMMA DepthReplace ==
    ASSUME NEW open \in Seq(Frames), open # << >>, NEW own, NEW n, HasDepth(open, own, n),
           NEW f \in Frames, f \in own <=> Last(open) \in own
    PROVE  /\ Append(Front(open), f) \in Seq(Frames) /\ Append(Front(open), f) # << >>
           /\ HasDepth(Append(Front(open), f), own, n)
           /\ open[1] \in own => Append(Front(open), f)[1] \in own
<1>1. PICK less \in Seq(Frames) : less = Front(open)
  BY StackFacts
<1>2. Append(less, f) \in Seq(Frames) /\ Append(less, f) # << >>
  BY AppendProperties
<1>3. HasDepth(Append(less, f), own, n)
  <2>1. CASE f \in own
    <3>1. n \in Nat /\ n - 1 \in Nat /\ HasDepth(less, own, n - 1)
      BY <1>1, <2>1, DepthPop
    <3>2. PICK m \in Nat : m = n - 1 /\ m + 1 = n
      BY <3>1
    <3>3. HasDepth(Append(less, f), own, IF f \in own THEN m + 1 ELSE m)
      BY <3>1, <3>2, DepthPush
    <3> QED
      BY <2>1, <3>2, <3>3, Zenon
  <2>2. CASE f \notin own
    <3>1. HasDepth(less, own, n)
      BY <1>1, <2>2, DepthPop
    <3>2. HasDepth(Append(less, f), own, IF f \in own THEN n + 1 ELSE n)
      BY <3>1, DepthPush
    <3> QED
      BY <2>2, <3>2, Zenon
  <2> QED
    BY <2>1, <2>2
<1>4. ASSUME open[1] \in own PROVE Append(less, f)[1] \in own
  <2>1. PICK k \in Nat : k + 1 = Len(open) /\ Len(less) = k
    <3>1. Len(open) \in Nat /\ Len(open) # 0 /\ Len(less) = Len(open) - 1
      BY <1>1, EmptySeq, LenProperties, StackFacts
    <3>2. Len(open) - 1 \in Nat /\ (Len(open) - 1) + 1 = Len(open)
      BY <3>1
    <3> QED
      BY <3>1, <3>2
  <2>2. CASE k = 0
    <3>1. Last(open) = open[1]
      <4>1. Last(open) = open[Len(open)]
        BY StackFacts
      <4>2. Len(open) = 1
        BY <2>1, <2>2
      <4> QED
        BY <4>1, <4>2, Zenon
    <3>2. Append(less, f)[1] = f
      BY <2>1, <2>2, AppendProperties
    <3> QED
      BY <1>4, <3>1, <3>2
  <2>3. CASE k # 0
    <3>1. 1 \in 1..k /\ 1 \in 1..(Len(open) - 1)
      BY <2>1, <2>3
    <3>2. less[1] = open[1]
      BY <1>1, <3>1, StackFacts
    <3>3. Append(less, f)[1] = less[1]
      BY <2>1, <3>1, AppendProperties
    <3> QED
      BY <1>4, <3>2, <3>3
  <2> QED
    BY <2>2, <2>3
<1> QED
  BY <1>1, <1>2, <1>3, <1>4, Zenon

Openers == {"{", "["}

\* The frames that an object, or an array, has on the stack.
Own(b) == IF b = "{" THEN {"{", ":"} ELSE {"["}

\* A bracket is one of its own frames, and the other bracket is none.
LEMMA OwnFacts ==
    ASSUME NEW b
    PROVE  /\ ":" \in Own(b) <=> "{" \in Own(b)
           /\ b \in {"{", "["} => b \in Own(b)
           /\ \A c \in {"{", "["} : b \in {"{", "["} => (c \in Own(b) <=> c = b)
BY DEF Own

\* Inside of brackets the reader goes on after a value.
LEMMA CompletedInside ==
    ASSUME NEW r \in Readers, r.state \notin {"end", "bad"}, r.open # << >>,
           NEW kind \in Kinds, NEW b, NEW n, HasDepth(r.open, Own(b), n), r.open[1] \in Own(b)
    PROVE  LET s == Completed(r, kind) IN
           /\ s \in Readers /\ s.state = "value" /\ s.open # << >>
           /\ HasDepth(s.open, Own(b), n) /\ s.open[1] \in Own(b)
<1>1. Completed(r, kind) \in Readers
  BY CompletedIsReader
<1>2. PICK open \in Seq(Frames) : open = r.open /\ open # << >>
  BY DEF Readers
<1>3. /\ Last(open) \in Frames
      /\ HasDepth(open, Own(b), n) /\ open[1] \in Own(b)
  BY <1>2, StackFacts
<1>4. CASE Last(open) = "["
  <2>1. Completed(r, kind) = [r EXCEPT !.state = "value"]
    BY <1>2, <1>4 DEF Completed
  <2>2. Completed(r, kind).state = "value" /\ Completed(r, kind).open = open
    BY <1>2, <2>1 DEF Readers
  <2> QED
    BY <1>1, <1>2, <1>3, <2>2, Zenon
<1>5. CASE Last(open) = "{"
  <2>1. PICK f \in Frames : f = ":"
    BY DEF Frames
  <2>2. f \in Own(b) <=> Last(open) \in Own(b)
    BY <1>5, <2>1, OwnFacts
  <2>3. PICK next : next = Append(Front(open), f)
    OBVIOUS
  <2>4. next # << >> /\ HasDepth(next, Own(b), n) /\ next[1] \in Own(b)
    BY <1>2, <1>3, <2>2, <2>3, DepthReplace
  <2>5. PICK key : key = IF Len(r.open) = 1 THEN r.says ELSE r.key
    OBVIOUS
  <2>6. Completed(r, kind) = [r EXCEPT !.state = "value", !.open = next, !.key = key]
    BY <1>2, <1>5, <2>1, <2>3, <2>5 DEF Completed
  <2>7. Completed(r, kind).state = "value" /\ Completed(r, kind).open = next
    BY <2>6 DEF Readers
  <2> QED
    BY <1>1, <2>4, <2>7, Zenon
<1>6. CASE Last(open) = ":"
  <2>1. PICK f \in Frames : f = "{"
    BY DEF Frames
  <2>2. f \in Own(b) <=> Last(open) \in Own(b)
    BY <1>6, <2>1, OwnFacts
  <2>3. PICK next : next = Append(Front(open), f)
    OBVIOUS
  <2>4. next # << >> /\ HasDepth(next, Own(b), n) /\ next[1] \in Own(b)
    BY <1>2, <1>3, <2>2, <2>3, DepthReplace
  <2>5. PICK members : Completed(r, kind) = [r EXCEPT !.state = "value", !.open = next, !.members = members]
    BY <1>2, <1>6, <2>1, <2>3 DEF Completed
  <2>6. Completed(r, kind).state = "value" /\ Completed(r, kind).open = next
    BY <2>5 DEF Readers
  <2> QED
    BY <1>1, <2>4, <2>6, Zenon
<1> QED
  BY <1>3, <1>4, <1>5, <1>6 DEF Frames

\* Outside of brackets it is at the end.
LEMMA CompletedOutside ==
    ASSUME NEW r \in Readers, r.open = << >>, NEW kind
    PROVE  Completed(r, kind).state = "end"
<1>1. Completed(r, kind) = [r EXCEPT !.state = "end", !.kind = kind]
  BY DEF Completed
<1> QED
  BY <1>1 DEF Readers

\* One symbol more has been read.
ReadOne(s) == [s EXCEPT !.read = @ + 1]

\* All but the place stays.
LEMMA ReadOneFacts ==
    ASSUME NEW b, NEW s \in Scanners(b)
    PROVE  /\ ReadOne(s) \in Scanners(b) /\ ReadOne(s).read = s.read + 1
           /\ ReadOne(s).length = s.length /\ ReadOne(s).depth = s.depth
           /\ ReadOne(s).quoted = s.quoted /\ ReadOne(s).escaped = s.escaped
<1>1. s.read \in Nat /\ s.length \in Nat /\ s.length <= s.read
  BY DEF Scanners
<1>2. PICK n \in Nat : n = s.read + 1 /\ s.length <= n
  BY <1>1
<1>3. ReadOne(s) = [s EXCEPT !.read = n]
  BY <1>2 DEF ReadOne
<1> QED
  BY <1>2, <1>3 DEF Scanners

\* What a symbol does to the scan.
LEMMA ScanCases ==
    ASSUME NEW b \in Openers, NEW s \in Scanners(b), s.length = 0, NEW c
    PROVE  /\ s.escaped => ScanSymbol(s, c) = [ReadOne(s) EXCEPT !.escaped = FALSE]
           /\ ~s.escaped =>
                /\ c = "backslash" => ScanSymbol(s, c) = [ReadOne(s) EXCEPT !.escaped = TRUE]
                /\ c = "quote" => ScanSymbol(s, c) = [ReadOne(s) EXCEPT !.quoted = ~@]
                /\ c \notin {"backslash", "quote"} =>
                     /\ c = s.opens /\ ~s.quoted =>
                          ScanSymbol(s, c) = [ReadOne(s) EXCEPT !.depth = @ + 1]
                     /\ c # s.opens /\ c = s.closes /\ ~s.quoted =>
                          ScanSymbol(s, c)
                            = [ReadOne(s) EXCEPT !.depth = @ - 1,
                                                 !.length = IF s.depth = 1 THEN ReadOne(s).read ELSE 0]
                     /\ s.quoted => ScanSymbol(s, c) = ReadOne(s)
                     /\ c # s.opens /\ c # s.closes => ScanSymbol(s, c) = ReadOne(s)
<1>1. ~(s.length > 0)
  OBVIOUS
<1> DEFINE t == [s EXCEPT !.read = @ + 1]
<1>2. ScanSymbol(s, c) =
        CASE s.length > 0 -> s
          [] s.length = 0 /\ s.escaped    -> [t EXCEPT !.escaped = FALSE]
          [] s.length = 0 /\ ~s.escaped ->
             CASE c = "backslash" -> [t EXCEPT !.escaped = TRUE]
               [] c = "quote"     -> [t EXCEPT !.quoted = ~@]
               [] c = s.opens /\ ~s.quoted  -> [t EXCEPT !.depth = @ + 1]
               [] c = s.closes /\ ~s.quoted ->
                    [t EXCEPT !.depth = @ - 1, !.length = IF s.depth = 1 THEN t.read ELSE 0]
               [] OTHER -> t
  BY Zenon DEF ScanSymbol
<1>3. ReadOne(s) = t
  BY DEF ReadOne
<1> DEFINE a == [t EXCEPT !.escaped = FALSE]
           e == [t EXCEPT !.escaped = TRUE]
           q == [t EXCEPT !.quoted = ~@]
           o == [t EXCEPT !.depth = @ + 1]
           l == [t EXCEPT !.depth = @ - 1, !.length = IF s.depth = 1 THEN t.read ELSE 0]
           long == s.length > 0
           none == s.length = 0
<1>4. ~long /\ none
  BY <1>1
<1> HIDE DEF t, a, e, q, o, l, long, none
<1> DEFINE v == CASE c = "backslash" -> e
                  [] c = "quote"     -> q
                  [] c = s.opens /\ ~s.quoted  -> o
                  [] c = s.closes /\ ~s.quoted -> l
                  [] OTHER -> t
<1>5. ScanSymbol(s, c) = CASE long -> s
                           [] none /\ s.escaped  -> a
                           [] none /\ ~s.escaped -> v
  BY <1>2, Zenon DEF a, e, q, o, l, long, none
<1>6. s.opens \in {"{", "["} /\ s.closes \in {"}", "]"}
  BY DEF Scanners, Openers
<1>7. /\ c = "backslash" => v = e
      /\ c = "quote" => v = q
      /\ c \notin {"backslash", "quote"} =>
           /\ c = s.opens /\ ~s.quoted => v = o
           /\ c # s.opens /\ c = s.closes /\ ~s.quoted => v = l
           /\ s.quoted => v = t
           /\ c # s.opens /\ c # s.closes => v = t
  BY <1>6
<1> HIDE DEF v
<1>8. s.escaped => ScanSymbol(s, c) = a
  BY <1>4, <1>5
<1>9. ~s.escaped => ScanSymbol(s, c) = v
  BY <1>4, <1>5
<1> QED
  BY <1>3, <1>7, <1>8, <1>9, Zenon DEF a, e, q, o, l

\* The reader and the scan for the end of the bracket b, inside of it.
Parallel(r, s, b) ==
    /\ r \in Readers /\ r.state \in {"value", "string", "escape"}
    /\ s \in Scanners(b) /\ s.length = 0
    /\ r.open # << >> /\ r.open[1] \in Own(b) /\ HasDepth(r.open, Own(b), s.depth)
    /\ s.escaped = (r.state = "escape")
    /\ s.quoted = (r.state \in {"string", "escape"})

\* What has become of them after n symbols, the last of which is c.
Abreast(r, s, b, n, c) ==
    \/ r.state = "bad"
    \/ Parallel(r, s, b) /\ s.read = n
    \/ r.state = "end" /\ s.length = n /\ c # "newline"

\* Abreast one symbol on, if both take it for nothing.
LEMMA ParallelRead ==
    ASSUME NEW r \in Readers, NEW state \in {"value", "string", "escape"}, r.state = state,
           NEW b, NEW s \in Scanners(b), s.length = 0,
           r.open # << >>, r.open[1] \in Own(b), HasDepth(r.open, Own(b), s.depth),
           s.escaped = (state = "escape"), s.quoted = (state \in {"string", "escape"})
    PROVE  Parallel(r, s, b)
BY DEF Parallel

\* A symbol that is escaped.
LEMMA ParallelEscape ==
    ASSUME NEW b \in Openers, NEW r, NEW s, Parallel(r, s, b), r.state = "escape", NEW c \in Symbols
    PROVE  Abreast(ReadSymbol(r, c), ScanSymbol(s, c), b, s.read + 1, c)
<1>1. /\ r \in Readers /\ s \in Scanners(b) /\ s.length = 0 /\ s.escaped = TRUE /\ s.quoted = TRUE
      /\ r.open # << >> /\ r.open[1] \in Own(b) /\ HasDepth(r.open, Own(b), s.depth)
  BY DEF Parallel
<1>2. CASE c \notin Escapable
  <2>1. ReadSymbol(r, c) = Bad(r)
    BY <1>2 DEF ReadSymbol
  <2>2. Bad(r).state = "bad"
    BY <1>1 DEF Bad, Readers
  <2> QED
    BY <2>1, <2>2 DEF Abreast
<1>3. CASE c \in Escapable
  <2>1. ReadSymbol(r, c) = [r EXCEPT !.state = "string", !.says = Append(@, c)]
    BY <1>3 DEF ReadSymbol
  <2>2. PICK q \in Readers : q = ReadSymbol(r, c)
    BY <1>1, ReadSymbolIsReader
  <2>3. q.state = "string" /\ q.open = r.open
    BY <1>1, <2>1, <2>2 DEF Readers
  <2>4. PICK t : t = ReadOne(s)
    OBVIOUS
  <2>5. /\ t \in Scanners(b) /\ t.read = s.read + 1 /\ t.length = s.length /\ t.depth = s.depth
        /\ t.quoted = s.quoted
    BY <1>1, <2>4, ReadOneFacts
  <2>6. PICK u : u = [t EXCEPT !.escaped = FALSE]
    OBVIOUS
  <2>7. /\ u \in Scanners(b) /\ u.escaped = FALSE /\ u.quoted = t.quoted
        /\ u.depth = t.depth /\ u.length = t.length /\ u.read = t.read
    <3>1. t \in Scanners(b)
      BY <2>5
    <3> QED
      BY <2>6, <3>1 DEF Scanners
  <2>8. ScanSymbol(s, c) = u
    BY <1>1, <2>4, <2>6, ScanCases
  <2>9. Parallel(q, u, b)
    BY <1>1, <2>2, <2>3, <2>5, <2>7, ParallelRead
  <2> QED
    BY <2>2, <2>5, <2>7, <2>8, <2>9 DEF Abreast
<1> QED
  BY <1>2, <1>3

\* A symbol of a string.
LEMMA ParallelString ==
    ASSUME NEW b \in Openers, NEW r, NEW s, Parallel(r, s, b), r.state = "string", NEW c \in Symbols
    PROVE  Abreast(ReadSymbol(r, c), ScanSymbol(s, c), b, s.read + 1, c)
<1>1. /\ r \in Readers /\ s \in Scanners(b) /\ s.length = 0 /\ s.escaped = FALSE /\ s.quoted = TRUE
      /\ r.open # << >> /\ r.open[1] \in Own(b) /\ HasDepth(r.open, Own(b), s.depth)
  BY DEF Parallel
<1>2. PICK t : t = ReadOne(s)
  OBVIOUS
<1>3. /\ t \in Scanners(b) /\ t.read = s.read + 1 /\ t.length = s.length /\ t.depth = s.depth
      /\ t.quoted = s.quoted /\ t.escaped = s.escaped
  BY <1>1, <1>2, ReadOneFacts
<1>4. ReadSymbol(r, c) = InString(r, c)
  BY DEF ReadSymbol
<1>5. PICK q \in Readers : q = ReadSymbol(r, c)
  BY <1>1, ReadSymbolIsReader
<1>6. CASE c = "quote"
  <2>1. q = Completed(r, "string")
    BY <1>4, <1>5, <1>6 DEF InString
  <2>2. PICK kind \in Kinds : kind = "string"
    BY DEF Kinds
  <2>3. q.state = "value" /\ q.open # << >> /\ HasDepth(q.open, Own(b), s.depth) /\ q.open[1] \in Own(b)
    BY <1>1, <2>1, <2>2, CompletedInside
  <2>4. PICK u : u = [t EXCEPT !.quoted = FALSE]
    OBVIOUS
  <2>5. /\ u \in Scanners(b) /\ u.quoted = FALSE /\ u.escaped = t.escaped
        /\ u.depth = t.depth /\ u.length = t.length /\ u.read = t.read
    <3>1. t \in Scanners(b)
      BY <1>3
    <3> QED
      BY <2>4, <3>1 DEF Scanners
  <2>6. ScanSymbol(s, c) = u
    <3>1. ScanSymbol(s, c) = [t EXCEPT !.quoted = ~@]
      BY <1>1, <1>2, <1>6, ScanCases
    <3>2. [t EXCEPT !.quoted = ~@] = u
      BY <1>1, <1>3, <2>4 DEF Scanners
    <3> QED
      BY <3>1, <3>2
  <2>7. Parallel(q, u, b)
    <3>1. u.length = 0 /\ u.depth = s.depth /\ u.escaped = FALSE /\ u.quoted = FALSE
      BY <1>1, <1>3, <2>5, Zenon
    <3>2. FALSE = (q.state = "escape") /\ FALSE = (q.state \in {"string", "escape"})
      BY <2>3
    <3>3. q.state \in {"value", "string", "escape"}
      BY <2>3
    <3> QED
      BY <2>3, <2>5, <3>1, <3>2, <3>3, Zenon DEF Parallel
  <2> QED
    BY <1>3, <1>5, <2>5, <2>6, <2>7 DEF Abreast
<1>7. CASE c = "backslash"
  <2>1. q = [r EXCEPT !.state = "escape"]
    BY <1>4, <1>5, <1>7 DEF InString
  <2>2. q.state = "escape" /\ q.open = r.open
    BY <1>1, <2>1 DEF Readers
  <2>3. PICK u : u = [t EXCEPT !.escaped = TRUE]
    OBVIOUS
  <2>4. /\ u \in Scanners(b) /\ u.quoted = t.quoted /\ u.escaped = TRUE
        /\ u.depth = t.depth /\ u.length = t.length /\ u.read = t.read
    <3>1. t \in Scanners(b)
      BY <1>3
    <3> QED
      BY <2>3, <3>1 DEF Scanners
  <2>5. ScanSymbol(s, c) = u
    BY <1>1, <1>2, <1>7, <2>3, ScanCases
  <2>6. Parallel(q, u, b)
    BY <1>1, <1>3, <2>2, <2>4, ParallelRead
  <2> QED
    BY <1>3, <1>5, <2>4, <2>5, <2>6 DEF Abreast
<1>8. CASE c = "newline"
  <2>1. q = Bad(r)
    BY <1>4, <1>5, <1>8 DEF InString
  <2>2. Bad(r).state = "bad"
    BY <1>1 DEF Bad, Readers
  <2> QED
    BY <1>5, <2>1, <2>2 DEF Abreast
<1>9. CASE c \notin {"quote", "backslash", "newline"}
  <2>1. q = [r EXCEPT !.says = Append(@, c)]
    BY <1>4, <1>5, <1>9 DEF InString
  <2>2. q.state = "string" /\ q.open = r.open
    BY <1>1, <2>1 DEF Readers
  <2>3. ScanSymbol(s, c) = t
    BY <1>1, <1>2, <1>9, ScanCases
  <2>4. Parallel(q, t, b)
    BY <1>1, <1>3, <2>2, ParallelRead
  <2> QED
    BY <1>3, <1>5, <2>3, <2>4 DEF Abreast
<1> QED
  BY <1>6, <1>7, <1>8, <1>9

\* A bracket is closed: the outermost one, if it is the only one open.
LEMMA ParallelClosing ==
    ASSUME NEW b \in Openers, NEW r, NEW s, Parallel(r, s, b), r.state = "value",
           NEW c, c \notin {"backslash", "quote", "newline"}, c # s.opens,
           c = s.closes <=> Last(r.open) \in Own(b),
           NEW kind \in Kinds, NEW pop, pop = [r EXCEPT !.open = Front(@)]
    PROVE  Abreast(Completed(pop, kind), ScanSymbol(s, c), b, s.read + 1, c)
<1>1. /\ r \in Readers /\ s \in Scanners(b) /\ s.length = 0 /\ s.escaped = FALSE /\ s.quoted = FALSE
      /\ r.open # << >> /\ r.open[1] \in Own(b) /\ HasDepth(r.open, Own(b), s.depth)
  <2>1. /\ r \in Readers /\ s \in Scanners(b) /\ s.length = 0
        /\ s.escaped = (r.state = "escape") /\ s.quoted = (r.state \in {"string", "escape"})
        /\ r.open # << >> /\ r.open[1] \in Own(b) /\ HasDepth(r.open, Own(b), s.depth)
    BY Zenon DEF Parallel
  <2>2. (r.state = "escape") = FALSE /\ (r.state \in {"string", "escape"}) = FALSE
    OBVIOUS
  <2> QED
    BY <2>1, <2>2, Zenon
<1>2. PICK t : t = ReadOne(s)
  OBVIOUS
<1>3. /\ t \in Scanners(b) /\ t.read = s.read + 1 /\ t.length = s.length /\ t.depth = s.depth
      /\ t.quoted = s.quoted /\ t.escaped = s.escaped
  BY <1>1, <1>2, ReadOneFacts
<1>4. PICK open \in Seq(Frames) : open = r.open /\ open # << >> /\ open[1] \in Own(b)
                                  /\ HasDepth(open, Own(b), s.depth)
  BY <1>1 DEF Readers
<1>5. PICK less \in Seq(Frames) : less = Front(open)
  BY <1>4, StackFacts
<1>6. pop \in Readers /\ pop.state = "value" /\ pop.open = less
  <2>1. pop = [r EXCEPT !.open = less]
    BY <1>1, <1>4, <1>5 DEF Readers
  <2> QED
    BY <1>1, <2>1 DEF Readers
<1>7. PICK n \in Nat : n = s.depth
  <2>1. s.depth \in Nat
    BY <1>4, DepthPop
  <2> QED
    BY <2>1
<1>8. /\ Last(open) \in Own(b) => n - 1 \in Nat /\ HasDepth(less, Own(b), n - 1)
      /\ Last(open) \notin Own(b) => HasDepth(less, Own(b), n)
  BY <1>4, <1>5, <1>7, DepthPop
<1>9. less # << >> => less[1] = open[1]
  <2>1. ASSUME less # << >> PROVE 1 \in 1..(Len(open) - 1)
    <3>1. Len(less) \in Nat /\ Len(less) # 0
      BY <2>1, EmptySeq, LenProperties
    <3>2. Len(less) = Len(open) - 1
      BY <1>4, <1>5, StackFacts
    <3> QED
      BY <3>1, <3>2
  <2> QED
    BY <1>4, <1>5, <2>1, StackFacts
<1>10. PICK q : q = Completed(pop, kind)
  OBVIOUS
<1>11. ASSUME less # << >>, NEW m, HasDepth(less, Own(b), m)
       PROVE  /\ q \in Readers /\ q.state = "value" /\ q.open # << >>
              /\ HasDepth(q.open, Own(b), m) /\ q.open[1] \in Own(b)
  BY <1>4, <1>6, <1>9, <1>10, <1>11, CompletedInside
<1>12. FALSE = ("value" = "escape") /\ FALSE = ("value" \in {"string", "escape"})
  OBVIOUS
<1>13. CASE Last(open) \notin Own(b)
  <2>1. less # << >>
    <3>1. ASSUME less = << >> PROVE FALSE
      <4>1. Len(open) = 1
        <5>1. Len(less) = Len(open) - 1 /\ Len(less) = 0 /\ Len(open) \in Nat
          BY <1>4, <1>5, <3>1, EmptySeq, LenProperties, StackFacts
        <5> QED
          BY <5>1
      <4>2. Last(open) = open[Len(open)]
        BY <1>4, StackFacts
      <4> QED
        BY <1>4, <1>13, <4>1, <4>2
    <3> QED
      BY <3>1
  <2>2. HasDepth(less, Own(b), s.depth)
    BY <1>7, <1>8, <1>13
  <2>3. c # s.closes
    BY <1>4, <1>13
  <2>4. ScanSymbol(s, c) = t
    BY <1>1, <1>2, <2>3, ScanCases
  <2>5. Parallel(q, t, b)
    <3>1. /\ q \in Readers /\ q.state = "value" /\ q.open # << >>
          /\ HasDepth(q.open, Own(b), s.depth) /\ q.open[1] \in Own(b)
      BY <1>11, <2>1, <2>2
    <3> QED
      BY <1>1, <1>3, <1>12, <3>1, ParallelRead
  <2> QED
    BY <1>3, <1>10, <2>4, <2>5 DEF Abreast
<1>14. CASE Last(open) \in Own(b)
  <2>1. PICK m \in Nat : m = n - 1 /\ n = m + 1 /\ HasDepth(less, Own(b), m)
    <3>1. n - 1 \in Nat /\ n = (n - 1) + 1 /\ HasDepth(less, Own(b), n - 1)
      BY <1>8, <1>14
    <3> QED
      BY <3>1
  <2>2. c = s.closes
    BY <1>4, <1>14
  <2>3. PICK length : length = IF s.depth = 1 THEN t.read ELSE 0
    OBVIOUS
  <2>4. ScanSymbol(s, c) = [t EXCEPT !.depth = m, !.length = length]
    <3>1. ScanSymbol(s, c) = [t EXCEPT !.depth = @ - 1, !.length = length]
      <4>1. ScanSymbol(s, c) = [ReadOne(s) EXCEPT !.depth = @ - 1,
                                                  !.length = IF s.depth = 1 THEN ReadOne(s).read ELSE 0]
        BY <1>1, <2>2, ScanCases
      <4> QED
        BY <1>2, <2>3, <4>1, Zenon
    <3>2. t.depth - 1 = m
      BY <1>3, <1>7, <2>1
    <3>3. [t EXCEPT !.depth = @ - 1, !.length = length] = [t EXCEPT !.depth = t.depth - 1, !.length = length]
      BY <1>3 DEF Scanners
    <3> QED
      BY <3>1, <3>2, <3>3, Zenon
  <2>5. CASE less = << >>
    <3>1. m = 0
      BY <2>1, <2>5, DepthNothing
    <3>2. s.depth = 1
      BY <1>7, <2>1, <3>1
    <3>3. length = t.read
      BY <2>3, <3>2
    <3>4. ScanSymbol(s, c).length = t.read
      <4>1. t \in Scanners(b)
        BY <1>3
      <4> QED
        BY <2>4, <3>3, <4>1 DEF Scanners
    <3>5. q.state = "end"
      BY <1>6, <1>10, <2>5, CompletedOutside
    <3> QED
      BY <1>3, <1>10, <3>4, <3>5 DEF Abreast
  <2>6. CASE less # << >>
    <3>1. m >= 1
      BY <1>4, <1>9, <2>1, <2>6, DepthBottom
    <3>2. s.depth # 1
      BY <1>7, <2>1, <3>1
    <3>3. length = 0
      BY <2>3, <3>2
    <3>4. PICK u : u = [t EXCEPT !.depth = m, !.length = length]
      OBVIOUS
    <3>5. /\ u \in Scanners(b) /\ u.depth = m /\ u.length = 0
          /\ u.quoted = t.quoted /\ u.escaped = t.escaped /\ u.read = t.read
      <4>1. t \in Scanners(b) /\ t.length = 0
        BY <1>1, <1>3
      <4>2. u = [t EXCEPT !.depth = m]
        BY <3>3, <3>4, <4>1 DEF Scanners
      <4>3. m \in Int
        OBVIOUS
      <4> QED
        BY <4>1, <4>2, <4>3 DEF Scanners
    <3>6. Parallel(q, u, b)
      <4>1. /\ q \in Readers /\ q.state = "value" /\ q.open # << >>
            /\ HasDepth(q.open, Own(b), m) /\ q.open[1] \in Own(b)
        BY <1>11, <2>1, <2>6
      <4>2. u.quoted = FALSE /\ u.escaped = FALSE
        BY <1>1, <1>3, <3>5, Zenon
      <4>3. "value" \in {"value", "string", "escape"}
        OBVIOUS
      <4> QED
        BY <1>12, <3>5, <4>1, <4>2, <4>3, Zenon DEF Parallel
    <3> QED
      BY <1>3, <1>10, <2>4, <3>4, <3>5, <3>6 DEF Abreast
  <2> QED
    BY <2>5, <2>6
<1> QED
  BY <1>13, <1>14

\* The two brackets that an object or an array has.
LEMMA BracketFacts ==
    ASSUME NEW b \in Openers, NEW s \in Scanners(b)
    PROVE  /\ s.opens = b /\ s.opens \notin {"quote", "backslash", "newline", "}", "]"}
           /\ s.closes \notin {"quote", "backslash", "newline", "{", "["}
           /\ s.closes = "}" <=> "{" \in Own(b)
           /\ s.closes = "]" <=> "[" \in Own(b)
<1>1. s.opens = b /\ s.closes = (IF b = "{" THEN "}" ELSE "]")
  BY DEF Scanners
<1>2. b = "{" \/ b = "["
  BY DEF Openers
<1> QED
  BY <1>1, <1>2 DEF Own

\* A symbol outside of strings.
LEMMA ParallelValue ==
    ASSUME NEW b \in Openers, NEW r, NEW s, Parallel(r, s, b), r.state = "value", NEW c \in Symbols
    PROVE  Abreast(ReadSymbol(r, c), ScanSymbol(s, c), b, s.read + 1, c)
<1>1. /\ r \in Readers /\ s \in Scanners(b) /\ s.length = 0 /\ s.escaped = FALSE /\ s.quoted = FALSE
      /\ r.open # << >> /\ r.open[1] \in Own(b) /\ HasDepth(r.open, Own(b), s.depth)
  <2>1. /\ r \in Readers /\ s \in Scanners(b) /\ s.length = 0
        /\ s.escaped = (r.state = "escape") /\ s.quoted = (r.state \in {"string", "escape"})
        /\ r.open # << >> /\ r.open[1] \in Own(b) /\ HasDepth(r.open, Own(b), s.depth)
    BY Zenon DEF Parallel
  <2>2. (r.state = "escape") = FALSE /\ (r.state \in {"string", "escape"}) = FALSE
    OBVIOUS
  <2> QED
    BY <2>1, <2>2, Zenon
<1>2. PICK t : t = ReadOne(s)
  OBVIOUS
<1>3. /\ t \in Scanners(b) /\ t.read = s.read + 1 /\ t.length = s.length /\ t.depth = s.depth
      /\ t.quoted = s.quoted /\ t.escaped = s.escaped
  BY <1>1, <1>2, ReadOneFacts
<1>4. /\ s.opens = b /\ s.opens \notin {"quote", "backslash", "newline", "}", "]"}
      /\ s.closes \notin {"quote", "backslash", "newline", "{", "["}
      /\ s.closes = "}" <=> "{" \in Own(b)
      /\ s.closes = "]" <=> "[" \in Own(b)
  BY <1>1, BracketFacts
<1>5. PICK q \in Readers : q = ReadSymbol(r, c)
  BY <1>1, ReadSymbolIsReader
<1>6. q = IF c = "newline" THEN r ELSE OutsideString(r, c)
  BY <1>5 DEF ReadSymbol
<1>7. Bad(r).state = "bad"
  BY <1>1 DEF Bad, Readers
<1>8. PICK open \in Seq(Frames) : open = r.open /\ open # << >> /\ open[1] \in Own(b)
                                  /\ HasDepth(open, Own(b), s.depth)
  BY <1>1 DEF Readers
<1>9. FALSE = ("value" = "escape") /\ FALSE = ("value" \in {"string", "escape"})
  OBVIOUS
<1>10. CASE c = "newline"
  <2>1. q = r
    BY <1>6, <1>10
  <2>2. c # s.opens /\ c # s.closes
    BY <1>4, <1>10
  <2>3. ScanSymbol(s, c) = t
    BY <1>1, <1>2, <1>10, <2>2, ScanCases
  <2>4. Parallel(q, t, b)
    BY <1>1, <1>3, <1>9, <2>1, ParallelRead
  <2> QED
    BY <1>3, <1>5, <2>3, <2>4 DEF Abreast
<1>11. CASE c = "quote"
  <2>1. q = [r EXCEPT !.state = "string", !.says = << >>]
    BY <1>6, <1>11 DEF OutsideString
  <2>2. q.state = "string" /\ q.open = r.open
    BY <1>1, <2>1 DEF Readers
  <2>3. PICK u : u = [t EXCEPT !.quoted = TRUE]
    OBVIOUS
  <2>4. /\ u \in Scanners(b) /\ u.quoted = TRUE /\ u.escaped = t.escaped
        /\ u.depth = t.depth /\ u.length = t.length /\ u.read = t.read
    <3>1. t \in Scanners(b)
      BY <1>3
    <3> QED
      BY <2>3, <3>1 DEF Scanners
  <2>5. ScanSymbol(s, c) = u
    <3>1. ScanSymbol(s, c) = [t EXCEPT !.quoted = ~@]
      BY <1>1, <1>2, <1>11, ScanCases
    <3>2. [t EXCEPT !.quoted = ~@] = u
      BY <1>1, <1>3, <2>3 DEF Scanners
    <3> QED
      BY <3>1, <3>2
  <2>6. Parallel(q, u, b)
    <3>1. u.length = 0 /\ u.depth = s.depth /\ u.escaped = FALSE /\ u.quoted = TRUE
      BY <1>1, <1>3, <2>4, Zenon
    <3>2. /\ FALSE = (q.state = "escape") /\ TRUE = (q.state \in {"string", "escape"})
          /\ q.state \in {"value", "string", "escape"}
      BY <2>2
    <3> QED
      BY <1>1, <2>2, <2>4, <3>1, <3>2, Zenon DEF Parallel
  <2> QED
    BY <1>3, <1>5, <2>4, <2>5, <2>6 DEF Abreast
<1>12. CASE c \in Openers
  <2>1. c \notin {"newline", "quote", "backslash", "}", "]"} /\ c \in {"{", "["} /\ c \in Frames
    BY <1>12 DEF Openers, Frames
  <2>2. CASE Last(open) = "{"
    <3>1. q = Bad(r)
      BY <1>1, <1>6, <1>8, <2>1, <2>2 DEF OutsideString
    <3> QED
      BY <1>5, <1>7, <3>1 DEF Abreast
  <2>3. CASE Last(open) # "{"
    <3>1. PICK more \in Seq(Frames) : more = Append(open, c)
      BY <2>1, AppendProperties
    <3>2. q = [r EXCEPT !.open = more]
      <4>1. q = [r EXCEPT !.open = Append(@, c)]
        BY <1>6, <1>8, <2>1, <2>3 DEF OutsideString
      <4>2. [r EXCEPT !.open = Append(@, c)] = [r EXCEPT !.open = Append(open, c)]
        BY <1>1, <1>8 DEF Readers
      <4> QED
        BY <3>1, <4>1, <4>2, Zenon
    <3>3. q.state = "value" /\ q.open = more
      BY <1>1, <3>1, <3>2 DEF Readers
    <3>4. more # << >> /\ more[1] \in Own(b)
      <4>1. Len(open) \in Nat /\ Len(open) # 0
        BY <1>8, EmptySeq, LenProperties
      <4>2. 1 \in 1..Len(open)
        BY <4>1
      <4>3. more # << >> /\ more[1] = open[1]
        <5>1. PICK f \in Frames : f = c
          BY <2>1
        <5>2. /\ Append(open, f) # << >>
              /\ \A i \in 1..Len(open) : Append(open, f)[i] = open[i]
          BY AppendProperties
        <5> QED
          BY <3>1, <4>2, <5>1, <5>2, Zenon
      <4> QED
        BY <1>8, <4>3
    <3>5. c # s.closes
      BY <1>4, <2>1
    <3>6. CASE c = b
      <4>1. c \in Own(b)
        BY <2>1, <3>6, OwnFacts
      <4>2. s.depth \in Nat /\ HasDepth(more, Own(b), IF c \in Own(b) THEN s.depth + 1 ELSE s.depth)
        BY <1>8, <2>1, <3>1, DepthPush
      <4>3. PICK n \in Nat : n = s.depth + 1 /\ HasDepth(more, Own(b), n)
        BY <4>1, <4>2
      <4>4. PICK u : u = [t EXCEPT !.depth = n]
        OBVIOUS
      <4>5. /\ u \in Scanners(b) /\ u.quoted = t.quoted /\ u.escaped = t.escaped
            /\ u.depth = n /\ u.length = t.length /\ u.read = t.read
        <5>1. t \in Scanners(b) /\ n \in Int
          BY <1>3
        <5> QED
          BY <4>4, <5>1 DEF Scanners
      <4>6. ScanSymbol(s, c) = u
        <5>1. ScanSymbol(s, c) = [t EXCEPT !.depth = @ + 1]
          BY <1>1, <1>2, <1>4, <2>1, <3>6, ScanCases
        <5>2. t.depth + 1 = n
          BY <1>3, <4>3
        <5>3. [t EXCEPT !.depth = @ + 1] = [t EXCEPT !.depth = t.depth + 1]
          BY <1>3 DEF Scanners
        <5> QED
          BY <4>4, <5>1, <5>2, <5>3, Zenon
      <4>7. Parallel(q, u, b)
        <5>1. u.length = 0 /\ u.escaped = FALSE /\ u.quoted = FALSE
          BY <1>1, <1>3, <4>5, Zenon
        <5>2. q.state \in {"value", "string", "escape"}
          BY <3>3
        <5> QED
          BY <1>9, <3>3, <3>4, <4>3, <4>5, <5>1, <5>2, Zenon DEF Parallel
      <4> QED
        BY <1>3, <1>5, <4>5, <4>6, <4>7 DEF Abreast
    <3>7. CASE c # b
      <4>1. c \notin Own(b)
        <5>1. b \in {"{", "["}
          BY DEF Openers
        <5> QED
          BY <2>1, <3>7, <5>1, OwnFacts
      <4>2. HasDepth(more, Own(b), IF c \in Own(b) THEN s.depth + 1 ELSE s.depth)
        BY <1>8, <2>1, <3>1, DepthPush
      <4>3. HasDepth(more, Own(b), s.depth)
        BY <4>1, <4>2
      <4>4. ScanSymbol(s, c) = t
        BY <1>1, <1>2, <1>4, <2>1, <3>5, <3>7, ScanCases
      <4>5. Parallel(q, t, b)
        BY <1>1, <1>3, <1>9, <3>3, <3>4, <4>3, ParallelRead
      <4> QED
        BY <1>3, <1>5, <4>4, <4>5 DEF Abreast
    <3> QED
      BY <3>6, <3>7
  <2> QED
    BY <2>2, <2>3
<1>13. CASE (c = "}" /\ Last(open) = "{") \/ (c = "]" /\ Last(open) = "[")
  <2>1. PICK pop : pop = [r EXCEPT !.open = Front(@)]
    OBVIOUS
  <2>2. PICK kind \in Kinds : q = Completed(pop, kind)
    <3>1. "object" \in Kinds /\ "array" \in Kinds
      BY DEF Kinds
    <3>2. c = "}" /\ Last(open) = "{" => q = Completed(pop, "object")
      BY <1>6, <1>8, <2>1 DEF OutsideString
    <3>3. c = "]" /\ Last(open) = "[" => q = Completed(pop, "array")
      BY <1>6, <1>8, <2>1 DEF OutsideString
    <3> QED
      BY <1>13, <3>1, <3>2, <3>3
  <2>3. /\ c \notin {"backslash", "quote", "newline"} /\ c # s.opens
        /\ c = s.closes <=> Last(r.open) \in Own(b)
    BY <1>4, <1>8, <1>13
  <2>4. Abreast(Completed(pop, kind), ScanSymbol(s, c), b, s.read + 1, c)
    BY <2>1, <2>3, ParallelClosing
  <2> QED
    BY <1>5, <2>2, <2>4
<1>14. CASE /\ c \notin {"newline", "quote"} /\ c \notin Openers
            /\ ~((c = "}" /\ Last(open) = "{") \/ (c = "]" /\ Last(open) = "["))
  <2>1. q = OutsideString(r, c)
    BY <1>6, <1>14
  <2>2. c # "quote" /\ ~(c \in {"{", "["} /\ ~(r.open # << >> /\ Last(r.open) = "{"))
        /\ ~(c = "}" /\ r.open # << >> /\ Last(r.open) = "{")
        /\ ~(c = "]" /\ r.open # << >> /\ Last(r.open) = "[")
    <3>1. c # "quote" /\ c \notin {"{", "["}
      BY <1>14, Zenon DEF Openers
    <3>2. ~(c = "}" /\ Last(open) = "{") /\ ~(c = "]" /\ Last(open) = "[")
      BY <1>14
    <3>3. ~(c = "}" /\ Last(r.open) = "{") /\ ~(c = "]" /\ Last(r.open) = "[")
      BY <1>8, <3>2, Zenon
    <3> QED
      BY <3>1, <3>3, Zenon
  <2>3. OutsideString(r, c) = Bad(r)
    BY <2>2 DEF OutsideString
  <2> QED
    BY <1>5, <1>7, <2>1, <2>3 DEF Abreast
<1> QED
  BY <1>10, <1>11, <1>12, <1>13, <1>14

\* The reader and the scan keep abreast.
LEMMA ParallelStep ==
    ASSUME NEW b \in Openers, NEW r, NEW s, Parallel(r, s, b), NEW c \in Symbols
    PROVE  Abreast(ReadSymbol(r, c), ScanSymbol(s, c), b, s.read + 1, c)
<1>1. r.state \in {"value", "string", "escape"}
  BY Zenon DEF Parallel
<1> QED
  BY <1>1, ParallelValue, ParallelString, ParallelEscape

\* A part of a text is read like the text.
LEMMA ReadsPrefix ==
    ASSUME NEW text \in Seq(Symbols), NEW f, Reads(f, text), NEW k \in 1..Len(text)
    PROVE  /\ SubSeq(text, 1, k) \in Seq(Symbols) /\ Len(SubSeq(text, 1, k)) = k
           /\ Reads([i \in 0..k |-> f[i]], SubSeq(text, 1, k))
<1>1. PICK n \in Nat : n = Len(text)
  BY LenProperties
<1>2. /\ f \in [0..n -> Readers] /\ f[0] = Reader
      /\ \A i \in 1..n : f[i] = ReadSymbol(f[i - 1], text[i])
  BY <1>1 DEF Reads
<1>3. k \in Nat /\ 1 \in Nat /\ 1 <= 1 /\ 1 <= k + 1 /\ k <= n /\ k - 1 + 1 = k
  BY <1>1
<1>4. PICK part \in Seq(Symbols) : part = SubSeq(text, 1, k)
  BY <1>1, <1>3, PartFacts
<1>5. Len(part) = k /\ \A i \in 1..k : part[i] = text[1 + i - 1]
  <2>1. Len(part) = k - 1 + 1 /\ \A i \in 1..(k - 1 + 1) : part[i] = text[1 + i - 1]
    BY <1>1, <1>3, <1>4, PartFacts
  <2> QED
    BY <1>3, <2>1, Zenon
<1>6. PICK g : g = [i \in 0..k |-> f[i]]
  OBVIOUS
<1>7. g \in [0..k -> Readers] /\ \A i \in 0..k : g[i] = f[i]
  <2>1. \A i \in 0..k : i \in 0..n
    BY <1>3
  <2> QED
    BY <1>2, <1>6, <2>1
<1>8. ASSUME NEW i \in 1..k PROVE g[i] = ReadSymbol(g[i - 1], part[i])
  <2>1. i \in 0..k /\ i - 1 \in 0..k /\ i \in 1..n /\ 1 + i - 1 = i
    BY <1>3
  <2>2. g[i] = f[i] /\ g[i - 1] = f[i - 1] /\ part[i] = text[i]
    BY <1>5, <1>7, <2>1
  <2> QED
    BY <1>2, <2>1, <2>2
<1>9. g[0] = Reader
  <2>1. 0 \in 0..k
    BY <1>3
  <2> QED
    BY <1>2, <1>7, <2>1
<1>10. Reads(g, part)
  BY <1>5, <1>7, <1>8, <1>9 DEF Reads
<1> QED
  BY <1>4, <1>5, <1>6, <1>10

\* What a part of a text is decoded to.
Value(r, text) ==
    [kind |-> r.kind, text |-> text,
     says |-> IF r.kind = "string" THEN r.says ELSE << >>,
     members |-> IF r.kind = "object" THEN r.members ELSE {}]

\* And decoded to what the reader has come to there.
LEMMA LoadsPrefix ==
    ASSUME NEW text \in Seq(Symbols), NEW f, Reads(f, text), NEW k \in 1..Len(text)
    PROVE  /\ f[k].state # "end" => Loads(SubSeq(text, 1, k)) = NoValue
           /\ f[k].state = "end" =>
                Loads(SubSeq(text, 1, k)) = Value(f[k], Only(SubSeq(text, 1, k), NotNewlines))
<1>1. PICK part : part = SubSeq(text, 1, k)
  OBVIOUS
<1>2. PICK g : g = [i \in 0..k |-> f[i]]
  OBVIOUS
<1>3. part \in Seq(Symbols) /\ Len(part) = k /\ Reads(g, part)
  BY <1>1, <1>2, ReadsPrefix
<1>4. g[k] = f[k]
  <2>1. k \in 0..k
    BY LenProperties
  <2> QED
    BY <1>2, <2>1
<1>5. LET r == g[Len(part)] IN
      /\ r.state # "end" => Loads(part) = NoValue
      /\ r.state = "end" => Loads(part) = Value(r, Only(part, NotNewlines))
  BY <1>3, LoadsFacts, Zenon DEF Value
<1> QED
  BY <1>1, <1>3, <1>4, <1>5, Zenon

\* A symbol that does not pass adds nothing.
LEMMA OnlyPrefix ==
    ASSUME NEW text \in Seq(Symbols), NEW k \in Nat, k + 1 <= Len(text), NEW T, text[k + 1] \notin T
    PROVE  Only(SubSeq(text, 1, k + 1), T) = Only(SubSeq(text, 1, k), T)
<1>1. PICK n \in Nat : n = Len(text)
  BY LenProperties
<1>2. 1 \in 1..n /\ k + 1 \in 1..n /\ (k + 1) - 1 = k
  BY <1>1
<1>3. SubSeq(text, 1, k + 1) = SubSeq(text, 1, k) \o <<text[k + 1]>>
  <2>1. SubSeq(text, 1, k + 1) = SubSeq(text, 1, (k + 1) - 1) \o <<text[k + 1]>>
    <3>1. PICK m : m = k + 1
      OBVIOUS
    <3>2. 1 \in 1..Len(text) /\ m \in 1..Len(text)
      BY <1>1, <1>2, <3>1
    <3>3. SubSeq(text, 1, m) = SubSeq(text, 1, m - 1) \o <<text[m]>>
      BY <3>2, SubSeqRecursiveSecond
    <3> QED
      BY <3>1, <3>3
  <2> QED
    BY <1>2, <2>1
<1>4. PICK part \in Seq(Symbols) : part = SubSeq(text, 1, k)
  <2>1. 1 \in Nat /\ 1 <= 1 /\ 1 <= k + 1 /\ k <= n
    BY <1>2
  <2> QED
    BY <1>1, <2>1, PartFacts
<1>5. PICK c \in Symbols : c = text[k + 1]
  BY <1>1, <1>2, ElementOfSeq
<1>6. PICK one \in Seq(Symbols) : one = <<c>> /\ Len(one) = 1 /\ one[1] = c
  <2>1. <<c>> \in Seq(Symbols) /\ Len(<<c>>) = 1 /\ <<c>>[1] = c
    OBVIOUS
  <2> QED
    BY <2>1
<1>7. Only(one, T) = << >>
  <2>1. \A i \in 1..Len(one) : one[i] \notin T
    BY <1>5, <1>6
  <2> QED
    BY <2>1, OnlyNone
<1>8. Only(part \o one, T) = Only(part, T) \o Only(one, T)
  BY OnlyConcat
<1>9. Only(part, T) \o << >> = Only(part, T)
  <2>1. Only(part, T) \in Seq(Symbols)
    BY OnlyType
  <2> QED
    BY <2>1, ConcatEmptySeq
<1> QED
  BY <1>3, <1>4, <1>5, <1>6, <1>7, <1>8, <1>9, Zenon

\* When the scan has found the end it stays there.
LEMMA ScanStays ==
    ASSUME NEW text \in Seq(Symbols), NEW g, Scans(g, text), NEW k \in 0..Len(text), g[k].length > 0
    PROVE  g[Len(text)] = g[k]
<1>1. PICK n \in Nat : n = Len(text)
  BY LenProperties
<1>2. \A i \in 1..n : g[i] = ScanSymbol(g[i - 1], text[i])
  BY <1>1 DEF Scans
<1>3. k \in 0..n
  BY <1>1
<1> DEFINE T == {i \in Nat : k + i <= n => g[k + i] = g[k]}
<1>4. 0 \in T
  <2>1. k + 0 = k
    BY <1>3
  <2> QED
    BY <2>1
<1>5. ASSUME NEW i \in Nat, k + (i + 1) <= n, g[k + i] = g[k] PROVE g[k + (i + 1)] = g[k]
  <2>1. k + (i + 1) \in 1..n /\ (k + (i + 1)) - 1 = k + i
    BY <1>3, <1>5
  <2>2. g[k + (i + 1)] = ScanSymbol(g[k], text[k + (i + 1)])
    BY <1>2, <1>5, <2>1
  <2>3. ScanSymbol(g[k], text[k + (i + 1)]) = g[k]
    BY DEF ScanSymbol
  <2> QED
    BY <2>2, <2>3
<1>6. \A i \in T : i + 1 \in T
  <2>1. \A i \in Nat : k + (i + 1) <= n => k + i <= n
    BY <1>3
  <2> QED
    BY <1>5, <2>1
<1> HIDE DEF T
<1>7. T = Nat
  <2>1. T \in SUBSET Nat
    BY DEF T
  <2> QED
    BY <1>4, <1>6, <2>1, NatSetInduction
<1>8. n - k \in Nat /\ k + (n - k) = n
  BY <1>3
<1>9. g[n] = g[k]
  <2>1. n - k \in T
    BY <1>7, <1>8
  <2> QED
    BY <1>8, <2>1 DEF T
<1> QED
  BY <1>1, <1>9

\* What has become of the reader and the scan after k symbols: there is an end among them,
\* and nothing but newlines behind it.
Ended(f, g, text, k) ==
    \E e \in 1..k :
        /\ g[k].length = e /\ text[e] # "newline"
        /\ f[k] = f[e] /\ f[e].state = "end"
        /\ Only(SubSeq(text, 1, k), NotNewlines) = Only(SubSeq(text, 1, e), NotNewlines)

Together(f, g, text, k) ==
    \/ f[k].state = "bad"
    \/ Parallel(f[k], g[k], text[1]) /\ g[k].read = k
    \/ Ended(f, g, text, k)

\* The first symbol opens the bracket.
LEMMA TogetherFirst ==
    ASSUME NEW text \in Seq(Symbols), text # << >>, text[1] \in Openers,
           NEW f, Reads(f, text), NEW g, Scans(g, text)
    PROVE  Together(f, g, text, 1)
<1>1. PICK n \in Nat : n = Len(text) /\ 1 \in 1..n
  <2>1. Len(text) \in Nat /\ Len(text) # 0
    BY EmptySeq, LenProperties
  <2> QED
    BY <2>1
<1>2. PICK b \in Openers : b = text[1]
  OBVIOUS
<1>3. b \in Symbols /\ b \in Frames /\ b \in Own(b) /\ b \notin {"newline", "quote", "backslash"}
      /\ b \in {"{", "["}
  BY DEF Openers, Symbols, Frames, Own
<1>4. f[1] = ReadSymbol(Reader, b) /\ f[1] \in Readers
  <2>1. f \in [0..n -> Readers] /\ f[0] = Reader /\ \A i \in 1..n : f[i] = ReadSymbol(f[i - 1], text[i])
    BY <1>1 DEF Reads
  <2>2. 1 - 1 = 0 /\ 1 \in 0..n
    BY <1>1
  <2> QED
    BY <1>1, <1>2, <2>1, <2>2
<1>5. g[1] = ScanSymbol(Scan(b), b)
  <2>1. g[0] = Scan(text[1]) /\ \A i \in 1..n : g[i] = ScanSymbol(g[i - 1], text[i])
    BY <1>1 DEF Scans
  <2>2. 1 - 1 = 0
    OBVIOUS
  <2> QED
    BY <1>1, <1>2, <2>1, <2>2
<1>6. f[1].state = "value" /\ f[1].open = <<b>> /\ <<b>> # << >> /\ <<b>>[1] = b
  <2>1. Reader.state = "value" /\ Reader.open = << >>
    BY DEF Reader
  <2>2. ReadSymbol(Reader, b) = [Reader EXCEPT !.open = Append(@, b)]
    BY <1>3, <2>1 DEF ReadSymbol, OutsideString
  <2>3. Append(<< >>, b) = <<b>> /\ <<b>> # << >>
    BY <1>3, OneFrame
  <2>4. [Reader EXCEPT !.open = Append(@, b)] = [Reader EXCEPT !.open = <<b>>]
    BY <2>1, <2>3, Zenon
  <2>5. PICK one : one = <<b>>
    OBVIOUS
  <2>6. f[1] = [Reader EXCEPT !.open = one]
    BY <1>4, <2>2, <2>4, <2>5, Zenon
  <2>7. f[1].state = "value" /\ f[1].open = one
    BY <2>6 DEF Reader
  <2> QED
    BY <2>3, <2>5, <2>7
<1>7. HasDepth(<<b>>, Own(b), 1)
  <2>1. PICK own : own = Own(b)
    OBVIOUS
  <2>2. PICK none \in Seq(Frames) : none = << >>
    BY EmptySeq
  <2>3. HasDepth(none, own, 0)
    BY <2>2, DepthNothing
  <2>4. HasDepth(Append(none, b), own, IF b \in own THEN 0 + 1 ELSE 0)
    BY <1>3, <2>3, DepthPush
  <2>5. 0 + 1 = 1 /\ Append(none, b) = <<b>>
    <3>1. Append(<< >>, b) = <<b>>
      BY <1>3, OneFrame
    <3>2. 0 + 1 = 1
      OBVIOUS
    <3> QED
      BY <2>2, <3>1, <3>2, Zenon
  <2> QED
    BY <1>3, <2>1, <2>4, <2>5, Zenon
<1>8. PICK s \in Scanners(b) : s = Scan(b)
  BY ScanIsScanner
<1>9. s.read = 0 /\ s.length = 0 /\ s.depth = 0 /\ s.quoted = FALSE /\ s.escaped = FALSE /\ s.opens = b
  BY <1>8 DEF Scan
<1>10. PICK t : t = ReadOne(s)
  OBVIOUS
<1>11. /\ t \in Scanners(b) /\ t.read = s.read + 1 /\ t.length = s.length /\ t.depth = s.depth
       /\ t.quoted = s.quoted /\ t.escaped = s.escaped
  BY <1>10, ReadOneFacts
<1>12. g[1] = [t EXCEPT !.depth = 1]
  <2>1. ScanSymbol(s, b) = [t EXCEPT !.depth = @ + 1]
    BY <1>3, <1>9, <1>10, ScanCases
  <2>2. t.depth + 1 = 1
    BY <1>9, <1>11
  <2>3. [t EXCEPT !.depth = @ + 1] = [t EXCEPT !.depth = t.depth + 1]
    BY <1>11 DEF Scanners
  <2> QED
    BY <1>5, <1>8, <2>1, <2>2, <2>3, Zenon
<1>13. /\ g[1] \in Scanners(b) /\ g[1].depth = 1 /\ g[1].read = t.read /\ g[1].length = t.length
       /\ g[1].quoted = t.quoted /\ g[1].escaped = t.escaped
  <2>1. t \in Scanners(b) /\ 1 \in Int
    BY <1>11
  <2>2. PICK one \in Int : one = 1 /\ g[1] = [t EXCEPT !.depth = one]
    BY <1>12, <2>1
  <2>3. PICK u : u = g[1]
    OBVIOUS
  <2>4. /\ u \in Scanners(b) /\ u.depth = one /\ u.read = t.read /\ u.length = t.length
        /\ u.quoted = t.quoted /\ u.escaped = t.escaped
    <3>1. u = [t EXCEPT !.depth = one]
      BY <2>2, <2>3
    <3> QED
      BY <2>1, <3>1 DEF Scanners
  <2> QED
    BY <2>2, <2>3, <2>4, Zenon
<1>14. Parallel(f[1], g[1], b)
  <2>1. g[1].length = 0 /\ g[1].quoted = FALSE /\ g[1].escaped = FALSE
    BY <1>9, <1>11, <1>13, Zenon
  <2>2. /\ FALSE = ("value" = "escape") /\ FALSE = ("value" \in {"string", "escape"})
        /\ "value" \in {"value", "string", "escape"}
    OBVIOUS
  <2>3. f[1].open # << >> /\ f[1].open[1] \in Own(b) /\ HasDepth(f[1].open, Own(b), g[1].depth)
    BY <1>3, <1>6, <1>7, <1>13, Zenon
  <2> QED
    BY <1>4, <1>6, <1>13, <2>1, <2>2, <2>3, Zenon DEF Parallel
<1>15. g[1].read = 1
  BY <1>9, <1>11, <1>13
<1> QED
  BY <1>2, <1>14, <1>15 DEF Together

\* And every symbol after it keeps them together.
LEMMA TogetherNext ==
    ASSUME NEW text \in Seq(Symbols), text # << >>, text[1] \in Openers,
           NEW f, Reads(f, text), NEW g, Scans(g, text),
           NEW k \in 1..Len(text), k + 1 <= Len(text), Together(f, g, text, k)
    PROVE  Together(f, g, text, k + 1)
<1>1. PICK n \in Nat : n = Len(text)
  BY LenProperties
<1>2. k \in 1..n /\ k \in Nat /\ k + 1 \in 1..n /\ (k + 1) - 1 = k
  BY <1>1
<1>3. PICK c \in Symbols : c = text[k + 1]
  BY <1>1, <1>2, ElementOfSeq
<1>4. PICK m \in 1..n : m = k + 1
  BY <1>2
<1>5. f[m] = ReadSymbol(f[k], c)
  <2>1. \A i \in 1..n : f[i] = ReadSymbol(f[i - 1], text[i])
    BY <1>1 DEF Reads
  <2> QED
    BY <1>2, <1>3, <1>4, <2>1
<1>6. g[m] = ScanSymbol(g[k], c)
  <2>1. \A i \in 1..n : g[i] = ScanSymbol(g[i - 1], text[i])
    BY <1>1 DEF Scans
  <2> QED
    BY <1>2, <1>3, <1>4, <2>1
<1>7. f[k] \in Readers /\ f[m] \in Readers
  <2>1. f \in [0..n -> Readers] /\ k \in 0..n /\ m \in 0..n
    BY <1>1, <1>2 DEF Reads
  <2> QED
    BY <2>1
<1>8. CASE f[k].state = "bad"
  <2>1. f[m] = f[k]
    BY <1>5, <1>8 DEF ReadSymbol
  <2> QED
    BY <1>4, <1>8, <2>1 DEF Together
<1>9. CASE Parallel(f[k], g[k], text[1]) /\ g[k].read = k
  <2>1. Abreast(f[m], g[m], text[1], m, c)
    <3>1. PICK r : r = f[k]
      OBVIOUS
    <3>2. PICK s : s = g[k]
      OBVIOUS
    <3>3. Abreast(ReadSymbol(r, c), ScanSymbol(s, c), text[1], s.read + 1, c)
      BY <1>9, <3>1, <3>2, ParallelStep
    <3>4. s.read + 1 = m
      BY <1>4, <1>9, <3>2
    <3> QED
      BY <1>5, <1>6, <3>1, <3>2, <3>3, <3>4, Zenon
  <2>2. ASSUME f[m].state = "end", g[m].length = m, c # "newline" PROVE Ended(f, g, text, m)
    <3>1. m \in 1..m
      BY <1>4
    <3>2. text[m] # "newline"
      BY <1>3, <1>4, <2>2
    <3> QED
      BY <2>2, <3>1, <3>2, Zenon DEF Ended
  <2> QED
    BY <1>4, <2>1, <2>2 DEF Abreast, Together
<1>10. CASE Ended(f, g, text, k)
  <2>1. PICK e \in 1..k :
          /\ g[k].length = e /\ text[e] # "newline"
          /\ f[k] = f[e] /\ f[e].state = "end"
          /\ Only(SubSeq(text, 1, k), NotNewlines) = Only(SubSeq(text, 1, e), NotNewlines)
    BY <1>10 DEF Ended
  <2>2. CASE c = "newline"
    <3>1. f[m] = f[k]
      BY <1>5, <2>1, <2>2 DEF ReadSymbol
    <3>2. g[m] = g[k]
      <4>1. g[k].length > 0
        BY <1>2, <2>1
      <4> QED
        BY <1>6, <4>1 DEF ScanSymbol
    <3>3. Only(SubSeq(text, 1, k + 1), NotNewlines) = Only(SubSeq(text, 1, k), NotNewlines)
      <4>1. text[k + 1] \notin NotNewlines
        BY <1>3, <2>2 DEF NotNewlines
      <4> QED
        BY <1>2, <4>1, OnlyPrefix
    <3>4. e \in 1..m
      BY <1>2, <1>4
    <3>5. Ended(f, g, text, m)
      BY <1>4, <2>1, <3>1, <3>2, <3>3, <3>4, Zenon DEF Ended
    <3> QED
      BY <1>4, <3>5 DEF Together
  <2>3. CASE c # "newline"
    <3>1. f[m] = Bad(f[k])
      BY <1>5, <2>1, <2>3 DEF ReadSymbol
    <3>2. f[m].state = "bad"
      BY <1>7, <3>1 DEF Bad, Readers
    <3> QED
      BY <1>4, <3>2 DEF Together
  <2> QED
    BY <2>2, <2>3
<1> QED
  BY <1>8, <1>9, <1>10 DEF Together

\* A value that begins at a bracket ends where the bracket does.
LEMMA ValueIsBalanced ==
    ASSUME NEW text \in Seq(Symbols), text # << >>, text[1] \in Openers,
           NEW last \in 1..Len(text), Loads(SubSeq(text, 1, last)) # NoValue
    PROVE  /\ Balanced(text) \in 1..last
           /\ text[Balanced(text)] # "newline"
           /\ Loads(SubSeq(text, 1, Balanced(text))) = Loads(SubSeq(text, 1, last))
<1>1. PICK n \in Nat : n = Len(text)
  BY LenProperties
<1>2. PICK f : Reads(f, text)
  BY ReadsExist
<1>3. PICK g : Scans(g, text) /\ Balanced(text) = g[n].length
  BY <1>1, ScansExist
<1> DEFINE T == {k \in Nat : k + 1 <= n => Together(f, g, text, k + 1)}
<1>4. 0 \in T
  <2>1. 0 + 1 = 1
    OBVIOUS
  <2> QED
    BY <1>2, <1>3, <2>1, TogetherFirst
<1>5. ASSUME NEW k \in Nat, (k + 1) + 1 <= n, Together(f, g, text, k + 1)
      PROVE  Together(f, g, text, (k + 1) + 1)
  <2>1. PICK i \in 1..Len(text) : i = k + 1
    BY <1>1, <1>5
  <2>2. i + 1 <= Len(text) /\ Together(f, g, text, i)
    BY <1>1, <1>5, <2>1
  <2>3. Together(f, g, text, i + 1)
    BY <1>2, <1>3, <2>2, TogetherNext
  <2> QED
    BY <2>1, <2>3
<1>6. \A k \in T : k + 1 \in T
  <2>1. \A k \in Nat : (k + 1) + 1 <= n => k + 1 <= n
    OBVIOUS
  <2> QED
    BY <1>5, <2>1
<1> HIDE DEF T
<1>7. T = Nat
  <2>1. T \in SUBSET Nat
    BY DEF T
  <2> QED
    BY <1>4, <1>6, <2>1, NatSetInduction
<1>8. Together(f, g, text, last)
  <2>1. last - 1 \in Nat /\ (last - 1) + 1 = last /\ last <= n
    BY <1>1
  <2>2. last - 1 \in T
    BY <1>7, <2>1
  <2> QED
    BY <2>1, <2>2 DEF T
<1>9. f[last].state = "end"
  BY <1>2, LoadsPrefix
<1>10. Ended(f, g, text, last)
  <2>1. ~Parallel(f[last], g[last], text[1])
    BY <1>9 DEF Parallel
  <2> QED
    BY <1>8, <1>9, <2>1 DEF Together
<1>11. PICK e \in 1..last :
         /\ g[last].length = e /\ text[e] # "newline"
         /\ f[last] = f[e] /\ f[e].state = "end"
         /\ Only(SubSeq(text, 1, last), NotNewlines) = Only(SubSeq(text, 1, e), NotNewlines)
  BY <1>10 DEF Ended
<1>12. Balanced(text) = e
  <2>1. last \in 0..Len(text) /\ g[last].length > 0
    BY <1>1, <1>11
  <2>2. g[Len(text)] = g[last]
    BY <1>3, <2>1, ScanStays
  <2> QED
    BY <1>1, <1>3, <1>11, <2>2
<1>13. e \in 1..Len(text)
  BY <1>1
<1>14. Loads(SubSeq(text, 1, e)) = Value(f[e], Only(SubSeq(text, 1, e), NotNewlines))
  BY <1>2, <1>11, <1>13, LoadsPrefix
<1>15. Loads(SubSeq(text, 1, last)) = Value(f[last], Only(SubSeq(text, 1, last), NotNewlines))
  BY <1>2, <1>9, LoadsPrefix
<1> QED
  BY <1>11, <1>12, <1>14, <1>15

\* The first place of a bracket that opens.
FirstOpener(text) == SelectInSeq(text, LAMBDA c : c \in Openers)

LEMMA FirstOpenerFacts ==
    ASSUME NEW text \in Seq(Symbols)
    PROVE  /\ FirstOpener(text) \in 0..Len(text)
           /\ FirstOpener(text) # 0 =>
                /\ text[FirstOpener(text)] \in Openers
                /\ \A i \in 1..(FirstOpener(text) - 1) : text[i] \notin Openers
           /\ FirstOpener(text) = 0 => \A i \in 1..Len(text) : text[i] \notin Openers
<1>1. PICK n \in Nat : n = Len(text)
  BY LenProperties
<1> DEFINE I == {i \in 1..Len(text) : text[i] \in Openers}
           first == FirstOpener(text)
<1>2. first = IF I # {} THEN Min(I) ELSE 0
  BY DEF SelectInSeq, FirstOpener
<1> HIDE DEF first
<1>3. I \in SUBSET (1..n) /\ \A i \in 1..n : i \in I <=> text[i] \in Openers
  BY <1>1
<1> HIDE DEF I
<1>4. CASE I = {}
  <2>1. first = 0 /\ \A i \in 1..n : text[i] \notin Openers
    BY <1>2, <1>3, <1>4
  <2> QED
    BY <1>1, <2>1 DEF first
<1>5. CASE I # {}
  <2>1. first \in I /\ \A i \in I : first <= i
    <3>1. I \in SUBSET Nat
      BY <1>3
    <3> QED
      BY <1>2, <1>5, <3>1, MinFacts
  <2>2. first \in 1..n /\ text[first] \in Openers
    BY <1>3, <2>1
  <2>3. \A i \in 1..(first - 1) : text[i] \notin Openers
    <3> SUFFICES ASSUME NEW i \in 1..(first - 1), i \in I PROVE FALSE
      BY <1>3, <2>2
    <3> QED
      BY <2>1, <2>2
  <2>4. first \in 0..n /\ first # 0
    BY <2>2
  <2> QED
    BY <1>1, <2>2, <2>3, <2>4 DEF first
<1> QED
  BY <1>4, <1>5

\* The place that no such bracket comes before.
LEMMA FirstOpenerIs ==
    ASSUME NEW text \in Seq(Symbols), NEW k \in 1..Len(text), text[k] \in Openers,
           \A i \in 1..(k - 1) : text[i] \notin Openers
    PROVE  FirstOpener(text) = k
<1>1. PICK n \in Nat : n = Len(text)
  BY LenProperties
<1>2. PICK first \in 0..n : first = FirstOpener(text)
  BY <1>1, FirstOpenerFacts
<1>3. first # 0
  BY <1>2, FirstOpenerFacts
<1>4. text[first] \in Openers /\ \A i \in 1..(first - 1) : text[i] \notin Openers
  BY <1>2, <1>3, FirstOpenerFacts
<1>5. k \in 1..n /\ first \in 1..n
  BY <1>1, <1>3
<1>6. ~(first < k)
  <2>1. first < k => first \in 1..(k - 1)
    BY <1>5
  <2> QED
    BY <1>4, <2>1
<1>7. ~(k < first)
  <2>1. k < first => k \in 1..(first - 1)
    BY <1>5
  <2> QED
    BY <1>4, <2>1
<1> QED
  BY <1>2, <1>5, <1>6, <1>7

\* A part of a part is a part.
LEMMA PartOfPart ==
    ASSUME NEW text \in Seq(Symbols), NEW from \in 1..Len(text), NEW to \in 1..Len(text),
           NEW m \in 1..(to - from + 1), NEW n \in 1..(to - from + 1)
    PROVE  SubSeq(SubSeq(text, from, to), m, n) = SubSeq(text, from + m - 1, from + n - 1)
BY SubSeqOfSubSeq

\* A value at the first bracket is what is found, and it ends at a symbol that is none
\* to be stripped.
LEMMA ValueIsFound ==
    ASSUME NEW text \in Seq(Symbols), NEW first \in 1..Len(text), first = FirstOpener(text),
           NEW last \in first..Len(text), Loads(SubSeq(text, first, last)) # NoValue
    PROVE  /\ Loads(FindTopLevelJson(text)) = Loads(SubSeq(text, first, last))
           /\ \E end \in first..last :
                /\ text[end] # "newline"
                /\ Loads(SubSeq(text, first, end)) = Loads(SubSeq(text, first, last))
<1>1. PICK n \in Nat : n = Len(text) /\ DOMAIN text = 1..n
  BY LenProperties
<1>2. first \in 1..n /\ last \in first..n
  BY <1>1
<1>3. text[first] \in Openers /\ \A i \in 1..(first - 1) : text[i] \notin Openers
  <2>1. first # 0
    BY <1>2
  <2> QED
    BY <2>1, FirstOpenerFacts
<1>4. first \in Nat /\ n \in Nat /\ 1 <= first /\ first <= n + 1 /\ n <= n
  BY <1>2
<1>5. PICK k \in Nat : k = n - first + 1 /\ k >= 1
  <2>1. n - first + 1 \in Nat /\ n - first + 1 >= 1
    BY <1>2
  <2> QED
    BY <2>1
<1>6. PICK rest \in Seq(Symbols) : rest = SubSeq(text, first, n)
  BY <1>1, <1>4, PartFacts
<1>7. Len(rest) = k /\ \A i \in 1..k : rest[i] = text[first + i - 1]
  <2>1. /\ Len(rest) = n - first + 1
        /\ \A i \in 1..(n - first + 1) : rest[i] = text[first + i - 1]
    BY <1>1, <1>4, <1>6, PartFacts
  <2> QED
    BY <1>5, <2>1, Zenon
<1>8. rest # << >> /\ rest[1] \in Openers
  <2>1. 1 \in 1..k /\ first + 1 - 1 = first
    BY <1>2, <1>5
  <2>2. rest[1] = text[first]
    BY <1>7, <2>1
  <2>3. rest # << >>
    BY <1>5, <1>7, EmptySeq
  <2> QED
    BY <1>3, <2>2, <2>3
<1>9. \A i \in 1..k : SubSeq(rest, 1, i) = SubSeq(text, first, first + i - 1)
  <2> SUFFICES ASSUME NEW i \in 1..k PROVE SubSeq(rest, 1, i) = SubSeq(text, first, first + i - 1)
    OBVIOUS
  <2>1. /\ first \in 1..Len(text) /\ n \in 1..Len(text)
        /\ 1 \in 1..(n - first + 1) /\ i \in 1..(n - first + 1)
    BY <1>1, <1>2, <1>5
  <2>2. SubSeq(SubSeq(text, first, n), 1, i) = SubSeq(text, first + 1 - 1, first + i - 1)
    <3>1. PICK one : one = 1
      OBVIOUS
    <3>2. one \in 1..(n - first + 1)
      BY <2>1, <3>1
    <3>3. SubSeq(SubSeq(text, first, n), one, i) = SubSeq(text, first + one - 1, first + i - 1)
      BY <2>1, <3>2, PartOfPart
    <3> QED
      BY <3>1, <3>3, Zenon
  <2>3. first + 1 - 1 = first
    BY <1>2
  <2> QED
    BY <1>6, <2>2, <2>3
<1>10. PICK m \in 1..k : last = first + m - 1
  <2>1. last - first + 1 \in 1..k /\ last = first + (last - first + 1) - 1
    BY <1>2, <1>5
  <2> QED
    BY <2>1
<1>11. SubSeq(rest, 1, m) = SubSeq(text, first, last)
  BY <1>9, <1>10
<1>12. PICK e \in 1..m : e = Balanced(rest) /\ rest[e] # "newline"
                         /\ Loads(SubSeq(rest, 1, e)) = Loads(SubSeq(text, first, last))
  <2>1. m \in 1..Len(rest)
    BY <1>7
  <2>2. /\ Balanced(rest) \in 1..m /\ rest[Balanced(rest)] # "newline"
        /\ Loads(SubSeq(rest, 1, Balanced(rest))) = Loads(SubSeq(rest, 1, m))
    BY <1>8, <1>11, <2>1, ValueIsBalanced
  <2> QED
    BY <1>11, <2>2
<1>13. FindTopLevelJson(text) = SubSeq(rest, 1, e)
  <2> DEFINE from(i) == SubSeq(text, i, Len(text))
             starts  == {i \in DOMAIN text : text[i] \in {"{", "["} /\ Balanced(from(i)) > 0}
  <2>1. FindTopLevelJson(text) =
          IF starts = {} THEN << >> ELSE SubSeq(from(Min(starts)), 1, Balanced(from(Min(starts))))
    BY Zenon DEF FindTopLevelJson
  <2>2. from(first) = rest
    BY <1>1, <1>6
  <2>3. \A i \in starts : i \in 1..n /\ text[i] \in Openers
    BY <1>1 DEF Openers
  <2>4. first \in starts
    <3>1. first \in DOMAIN text /\ text[first] \in {"{", "["}
      BY <1>1, <1>2, <1>3, Zenon DEF Openers
    <3>2. Balanced(from(first)) > 0
      <4> HIDE DEF from
      <4>1. Balanced(from(first)) = e
        BY <1>12, <2>2
      <4> QED
        BY <4>1
    <3> QED
      BY <3>1, <3>2, Zenon
  <2> HIDE DEF starts, from
  <2>5. Min(starts) \in starts /\ \A i \in starts : Min(starts) <= i
    <3>1. starts \in SUBSET Nat /\ starts # {}
      BY <2>3, <2>4
    <3> QED
      BY <3>1, MinFacts
  <2>6. PICK least \in 1..n : least = Min(starts) /\ text[least] \in Openers /\ least <= first
    BY <2>3, <2>4, <2>5
  <2>7. least = first
    <3>1. least < first => least \in 1..(first - 1)
      BY <1>2
    <3>2. ~(least < first)
      BY <1>3, <2>6, <3>1
    <3> QED
      BY <1>2, <2>6, <3>2
  <2>8. starts # {}
    BY <2>4
  <2> QED
    BY <1>12, <2>1, <2>2, <2>6, <2>7, <2>8, Zenon
<1>14. PICK end \in first..last : end = first + e - 1
  <2>1. first + e - 1 \in first..last
    BY <1>2, <1>10
  <2> QED
    BY <2>1
<1>15. e \in 1..k
  BY <1>10
<1>16. text[end] # "newline" /\ SubSeq(rest, 1, e) = SubSeq(text, first, end)
  BY <1>7, <1>9, <1>12, <1>14, <1>15
<1> QED
  BY <1>12, <1>13, <1>14, <1>16

\* If all of a text is JSON and no string comes first, it is the value at the first bracket.
LEMMA WholeIsFirst ==
    ASSUME NEW text \in Seq(Symbols), NEW first \in 1..Len(text), first = FirstOpener(text),
           text[1] # "newline", text[1] # "quote",
           NEW last \in first..Len(text), Loads(SubSeq(text, first, last)) # NoValue,
           Loads(text) # NoValue
    PROVE  Loads(text) = Loads(SubSeq(text, first, last))
<1>1. PICK n \in Nat : n = Len(text)
  BY LenProperties
<1>2. first \in 1..n /\ last \in first..n /\ 1 \in 1..n /\ n \in 1..n
  BY <1>1
<1>3. text # << >>
  BY <1>1, <1>2, EmptySeq
<1>4. text[1] \in Openers
  <2>1. text[1] \in Beginnings
    BY <1>3, OtherIsNoJson
  <2> QED
    BY <2>1 DEF Beginnings, Openers
<1>5. first = 1
  <2>1. first # 0
    BY <1>2
  <2>2. \A i \in 1..(first - 1) : text[i] \notin Openers
    BY <2>1, FirstOpenerFacts
  <2>3. first # 1 => 1 \in 1..(first - 1)
    BY <1>2
  <2> QED
    BY <1>4, <2>2, <2>3
<1>6. SubSeq(text, 1, Len(text)) = text
  BY SubSeqFull
<1>7. Loads(SubSeq(text, 1, Balanced(text))) = Loads(text)
  <2>1. PICK all \in 1..Len(text) : all = Len(text)
    BY <1>1, <1>2
  <2>2. Loads(SubSeq(text, 1, all)) # NoValue
    BY <1>6, <2>1
  <2>3. Loads(SubSeq(text, 1, Balanced(text))) = Loads(SubSeq(text, 1, all))
    BY <1>3, <1>4, <2>2, ValueIsBalanced
  <2> QED
    BY <1>6, <2>1, <2>3
<1>8. Loads(SubSeq(text, 1, Balanced(text))) = Loads(SubSeq(text, 1, last))
  <2>1. last \in 1..Len(text) /\ Loads(SubSeq(text, 1, last)) # NoValue
    BY <1>1, <1>2, <1>5
  <2> QED
    BY <1>3, <1>4, <2>1, ValueIsBalanced
<1> QED
  BY <1>5, <1>7, <1>8

\* What is between two symbols that are no newlines is not stripped.
LEMMA StripKeeps ==
    ASSUME NEW text \in Seq(Symbols), NEW i \in 1..Len(text), NEW j \in i..Len(text),
           text[i] # "newline", text[j] # "newline"
    PROVE  \E a \in 1..i : \E b \in j..Len(text) :
             text[a] # "newline" /\ Strip(text) = SubSeq(text, a, b)
<1> DEFINE kept == {h \in DOMAIN text : text[h] # "newline"}
<1>1. PICK n \in Nat : n = Len(text) /\ DOMAIN text = 1..n
  BY LenProperties
<1>2. i \in 1..n /\ j \in i..n /\ j \in 1..n
  BY <1>1
<1>3. kept \in SUBSET (1..n) /\ i \in kept /\ j \in kept /\ \A h \in kept : text[h] # "newline"
  BY <1>1, <1>2
<1>4. Strip(text) = SubSeq(text, Min(kept), Max(kept))
  BY <1>3 DEF Strip
<1> HIDE DEF kept
<1>5. Max(kept) \in kept /\ \A h \in kept : h <= Max(kept)
  BY <1>3, GreatestFacts
<1>6. Min(kept) \in kept /\ \A h \in kept : Min(kept) <= h
  <2>1. kept \in SUBSET Nat
    BY <1>3
  <2> QED
    BY <1>3, <2>1, MinFacts
<1>7. PICK a \in 1..n : a = Min(kept) /\ a <= i /\ text[a] # "newline"
  BY <1>3, <1>6
<1>8. PICK b \in 1..n : b = Max(kept) /\ j <= b
  BY <1>3, <1>5
<1>9. a \in 1..i /\ b \in j..n
  BY <1>2, <1>7, <1>8
<1> QED
  BY <1>1, <1>4, <1>7, <1>8, <1>9

\* A symbol of a part.
LEMMA PartAt ==
    ASSUME NEW text \in Seq(Symbols), NEW from \in 1..Len(text), NEW to \in from..Len(text)
    PROVE  /\ SubSeq(text, from, to) \in Seq(Symbols)
           /\ Len(SubSeq(text, from, to)) = to - from + 1
           /\ \A i \in from..to : /\ i - from + 1 \in 1..(to - from + 1)
                                  /\ SubSeq(text, from, to)[i - from + 1] = text[i]
<1>1. PICK n \in Nat : n = Len(text)
  BY LenProperties
<1>2. from \in Nat /\ to \in Nat /\ 1 <= from /\ from <= to + 1 /\ to <= n
  BY <1>1
<1>3. PICK part \in Seq(Symbols) : part = SubSeq(text, from, to)
  BY <1>1, <1>2, PartFacts
<1>4. Len(part) = to - from + 1 /\ \A i \in 1..(to - from + 1) : part[i] = text[from + i - 1]
  BY <1>1, <1>2, <1>3, PartFacts
<1>5. \A i \in from..to : i - from + 1 \in 1..(to - from + 1) /\ from + (i - from + 1) - 1 = i
  BY <1>2
<1>6. \A i \in from..to : part[i - from + 1] = text[i]
  BY <1>4, <1>5, Zenon
<1> QED
  BY <1>3, <1>4, <1>5, <1>6, Zenon

\* And so of a part of a text.
LEMMA StripOfPart ==
    ASSUME NEW text \in Seq(Symbols), NEW from \in 1..Len(text), NEW to \in from..Len(text),
           NEW i \in from..to, NEW j \in i..to, text[i] # "newline", text[j] # "newline"
    PROVE  \E p \in from..i : \E q \in j..to :
             text[p] # "newline" /\ Strip(SubSeq(text, from, to)) = SubSeq(text, p, q)
<1>1. PICK n \in Nat : n = Len(text)
  BY LenProperties
<1>2. from \in 1..n /\ to \in from..n /\ j \in from..to
  BY <1>1
<1>3. PICK k \in Nat : k = to - from + 1
  <2>1. to - from + 1 \in Nat
    BY <1>2
  <2> QED
    BY <2>1
<1>4. PICK part \in Seq(Symbols) : part = SubSeq(text, from, to)
  BY PartAt
<1>5. Len(part) = k /\ \A h \in from..to : h - from + 1 \in 1..k /\ part[h - from + 1] = text[h]
  BY <1>3, <1>4, PartAt, Zenon
<1>6. PICK x \in 1..k : x = i - from + 1
  BY <1>5
<1>7. PICK y \in 1..k : y = j - from + 1
  BY <1>2, <1>5
<1>8. y \in x..k
  BY <1>2, <1>6, <1>7
<1>9. part[x] # "newline" /\ part[y] # "newline"
  BY <1>2, <1>5, <1>6, <1>7, Zenon
<1>10. PICK a \in 1..x : \E b \in y..Len(part) : part[a] # "newline" /\ Strip(part) = SubSeq(part, a, b)
  <2>1. x \in 1..Len(part) /\ y \in x..Len(part)
    BY <1>5, <1>8
  <2> QED
    BY <1>9, <2>1, StripKeeps
<1>11. PICK b \in y..k : part[a] # "newline" /\ Strip(part) = SubSeq(part, a, b)
  BY <1>5, <1>10
<1>12. a \in 1..k /\ b \in 1..k
  BY <1>6, <1>7
<1>13. PICK p \in from..i : p = from + a - 1
  <2>1. from + a - 1 \in from..i
    BY <1>2, <1>6
  <2> QED
    BY <2>1
<1>14. PICK q \in j..to : q = from + b - 1
  <2>1. from + b - 1 \in j..to
    BY <1>2, <1>3, <1>7
  <2> QED
    BY <2>1
<1>15. SubSeq(part, a, b) = SubSeq(text, p, q)
  <2>1. a \in 1..(to - from + 1) /\ b \in 1..(to - from + 1)
    BY <1>3, <1>12, Zenon
  <2>2. to \in 1..Len(text)
    BY <1>1, <1>2
  <2>3. SubSeq(SubSeq(text, from, to), a, b) = SubSeq(text, from + a - 1, from + b - 1)
    BY <2>1, <2>2, PartOfPart
  <2> QED
    BY <1>4, <1>13, <1>14, <2>3, Zenon
<1>16. text[p] # "newline"
  <2>1. p \in from..to /\ p - from + 1 = a
    BY <1>2, <1>13
  <2> QED
    BY <1>5, <1>11, <2>1, Zenon
<1> QED
  BY <1>4, <1>11, <1>15, <1>16

\* A value that begins and ends in a part of a text is at the first bracket of the part too.
LEMMA OpenerOfPart ==
    ASSUME NEW text \in Seq(Symbols), NEW from \in 1..Len(text), NEW to \in from..Len(text),
           NEW first \in from..to, first = FirstOpener(text), NEW last \in first..to
    PROVE  LET part == SubSeq(text, from, to) IN
           /\ part \in Seq(Symbols) /\ part[1] = text[from]
           /\ FirstOpener(part) \in 1..Len(part)
           /\ \E end \in FirstOpener(part)..Len(part) :
                SubSeq(part, FirstOpener(part), end) = SubSeq(text, first, last)
<1>1. PICK n \in Nat : n = Len(text)
  BY LenProperties
<1>2. from \in 1..n /\ to \in from..n /\ last \in from..to /\ from \in from..to /\ first \in 1..n
  BY <1>1
<1>3. text[first] \in Openers /\ \A i \in 1..(first - 1) : text[i] \notin Openers
  <2>1. first # 0
    BY <1>2
  <2> QED
    BY <2>1, FirstOpenerFacts
<1>4. PICK k \in Nat : k = to - from + 1
  <2>1. to - from + 1 \in Nat
    BY <1>2
  <2> QED
    BY <2>1
<1>5. PICK part \in Seq(Symbols) : part = SubSeq(text, from, to)
  BY PartAt
<1>6. Len(part) = k /\ \A h \in from..to : h - from + 1 \in 1..k /\ part[h - from + 1] = text[h]
  BY <1>4, <1>5, PartAt, Zenon
<1>7. PICK x \in 1..k : x = first - from + 1
  BY <1>6
<1>8. PICK y \in 1..k : y = last - from + 1
  BY <1>2, <1>6
<1>9. part[1] = text[from]
  <2>1. from - from + 1 = 1
    BY <1>2
  <2> QED
    BY <1>2, <1>6, <2>1, Zenon
<1>10. part[x] \in Openers
  BY <1>3, <1>6, <1>7, Zenon
<1>11. ASSUME NEW i \in 1..(x - 1) PROVE part[i] \notin Openers
  <2>1. PICK h \in from..to : h = from + i - 1 /\ h - from + 1 = i /\ h \in 1..(first - 1)
    <3>1. /\ from + i - 1 \in from..to /\ (from + i - 1) - from + 1 = i
          /\ from + i - 1 \in 1..(first - 1)
      BY <1>2, <1>7
    <3> QED
      BY <3>1
  <2> QED
    BY <1>3, <1>6, <2>1, Zenon
<1>12. FirstOpener(part) = x
  BY <1>6, <1>10, <1>11, FirstOpenerIs
<1>13. y \in x..k
  BY <1>2, <1>7, <1>8
<1>14. SubSeq(part, x, y) = SubSeq(text, first, last)
  <2>1. x \in 1..(to - from + 1) /\ y \in 1..(to - from + 1)
    BY <1>4, Zenon
  <2>2. to \in 1..Len(text)
    BY <1>1, <1>2
  <2>3. SubSeq(SubSeq(text, from, to), x, y) = SubSeq(text, from + x - 1, from + y - 1)
    BY <2>1, <2>2, PartOfPart
  <2>4. from + x - 1 = first /\ from + y - 1 = last
    BY <1>2, <1>7, <1>8
  <2> QED
    BY <1>5, <2>3, <2>4, Zenon
<1> QED
  BY <1>5, <1>6, <1>9, <1>12, <1>13, <1>14, Zenon

\* A value between the fences.
LEMMA FencedIsFound ==
    ASSUME NEW text \in Seq(Symbols), NEW first \in 1..Len(text), first = FirstOpener(text),
           NEW newline \in 1..Len(text), newline = NewlineOf(text), newline < first,
           NEW last \in first..Len(text), NEW fence \in 1..Len(text), fence = FenceOf(text), last < fence,
           \A i \in 1..first : text[i] # "quote",
           Loads(SubSeq(text, first, last)) # NoValue
    PROVE  OrElse(Loads(InnerOf(text)), Loads(FindTopLevelJson(InnerOf(text))))
             = Loads(SubSeq(text, first, last))
<1>1. PICK n \in Nat : n = Len(text)
  BY LenProperties
<1>2. first \in 1..n /\ newline \in 1..n /\ fence \in 1..n /\ last \in first..n
  BY <1>1
<1>3. PICK value : value = Loads(SubSeq(text, first, last)) /\ value # NoValue
  OBVIOUS
<1>4. PICK end \in first..last : text[end] # "newline" /\ Loads(SubSeq(text, first, end)) = value
  BY <1>3, ValueIsFound
<1>5. text[first] # "newline"
  <2>1. first # 0
    BY <1>2
  <2>2. text[first] \in Openers
    BY <2>1, FirstOpenerFacts
  <2> QED
    BY <2>2 DEF Openers
<1>6. PICK from \in 1..n : from = newline + 1
  BY <1>2
<1>7. PICK to \in from..n : to = fence - 1
  BY <1>2, <1>6
<1>8. first \in from..to /\ end \in first..to
  BY <1>2, <1>6, <1>7
<1>9. PICK p \in from..first : \E q \in end..to :
         text[p] # "newline" /\ Strip(SubSeq(text, from, to)) = SubSeq(text, p, q)
  <2>1. from \in 1..Len(text) /\ to \in from..Len(text)
    BY <1>1
  <2> QED
    BY <1>4, <1>5, <1>8, <2>1, StripOfPart
<1>10. PICK q \in end..to : text[p] # "newline" /\ InnerOf(text) = SubSeq(text, p, q)
  <2>1. PICK q \in end..to : text[p] # "newline" /\ Strip(SubSeq(text, from, to)) = SubSeq(text, p, q)
    BY <1>9
  <2>2. InnerOf(text) = Strip(SubSeq(text, from, to))
    BY <1>6, <1>7, Zenon DEF InnerOf
  <2> QED
    BY <2>1, <2>2
<1>11. /\ p \in 1..Len(text) /\ q \in p..Len(text) /\ first \in p..q /\ end \in first..q /\ p \in 1..first
  BY <1>1, <1>2, <1>6, <1>8
<1>12. PICK inner : inner = SubSeq(text, p, q)
  OBVIOUS
<1>13. /\ inner \in Seq(Symbols) /\ inner[1] = text[p]
       /\ FirstOpener(inner) \in 1..Len(inner)
       /\ \E e \in FirstOpener(inner)..Len(inner) :
            SubSeq(inner, FirstOpener(inner), e) = SubSeq(text, first, end)
  BY <1>11, <1>12, OpenerOfPart
<1>14. PICK x \in 1..Len(inner) : x = FirstOpener(inner)
  BY <1>13
<1>15. PICK e \in x..Len(inner) : SubSeq(inner, x, e) = SubSeq(text, first, end)
  BY <1>13, <1>14
<1>16. Loads(SubSeq(inner, x, e)) = value
  BY <1>4, <1>15
<1>17. Loads(FindTopLevelJson(inner)) = value
  BY <1>3, <1>13, <1>14, <1>16, ValueIsFound
<1>18. Loads(inner) # NoValue => Loads(inner) = value
  <2>1. inner[1] # "newline" /\ inner[1] # "quote"
    BY <1>10, <1>11, <1>13
  <2> QED
    BY <1>3, <1>13, <1>14, <1>16, <2>1, WholeIsFirst
<1> QED
  BY <1>3, <1>10, <1>12, <1>17, <1>18 DEF OrElse

\* A value that no bracket comes before is what is extracted.
LEMMA ValueIsExtracted ==
    ASSUME NEW content \in Seq(Symbols), NEW text, text = Strip(content), Loads(text) = NoValue,
           FirstOpener(text) # 0,
           NEW last \in FirstOpener(text)..Len(text),
           Loads(SubSeq(text, FirstOpener(text), last)) # NoValue,
           Head(text) = "fence" =>
              /\ NewlineOf(text) \in 1..FirstOpener(text)
              /\ "quote" \notin ToSet(SubSeq(text, 1, FirstOpener(text)))
              /\ FenceOf(text) > last \/ FenceOf(text) = 1
    PROVE  ExtractFromText(content) = Loads(SubSeq(text, FirstOpener(text), last))
<1>1. text \in Seq(Symbols)
  BY StripType
<1>2. PICK n \in Nat : n = Len(text)
  BY <1>1, LenProperties
<1>3. PICK first \in 1..n : first = FirstOpener(text)
  <2>1. FirstOpener(text) \in 0..n
    BY <1>1, <1>2, FirstOpenerFacts
  <2> QED
    BY <2>1
<1>4. last \in first..n /\ first \in 1..Len(text) /\ last \in first..Len(text)
  BY <1>2, <1>3
<1>5. PICK value : value = Loads(SubSeq(text, first, last))
  OBVIOUS
<1>6. value # NoValue
  BY <1>3, <1>5
<1>7. ExtractFromText(content) =
         IF IsFenced(text)
         THEN OrElse(Loads(InnerOf(text)), Loads(FindTopLevelJson(InnerOf(text))))
         ELSE Loads(FindTopLevelJson(text))
  <2>1. ExtractFromText(content) =
         OrElse(Loads(text),
                IF IsFenced(text)
                THEN OrElse(Loads(InnerOf(text)), Loads(FindTopLevelJson(InnerOf(text))))
                ELSE Loads(FindTopLevelJson(text)))
    BY ExtractionParts, Zenon
  <2>2. \A other : OrElse(NoValue, other) = other
    BY DEF OrElse
  <2> QED
    BY <2>1, <2>2, Zenon
<1>8. CASE ~IsFenced(text)
  <2>1. Loads(FindTopLevelJson(text)) = value
    BY <1>1, <1>3, <1>4, <1>5, <1>6, ValueIsFound
  <2> QED
    BY <1>3, <1>5, <1>7, <1>8, <2>1, Zenon
<1>9. CASE IsFenced(text)
  <2>1. Head(text) = "fence" /\ FenceOf(text) > NewlineOf(text)
    BY <1>9 DEF IsFenced
  <2>2. PICK newline \in 1..first : newline = NewlineOf(text)
    BY <1>3, <2>1
  <2>3. newline # 0 /\ newline \in 1..n
    BY <1>3, <2>2
  <2>4. newline < first
    <3>1. text[newline] = "newline"
      BY <1>1, <2>2, <2>3, NewlineFacts
    <3>2. text[first] \in Openers
      <4>1. first # 0
        BY <1>3
      <4> QED
        BY <1>1, <1>3, <4>1, FirstOpenerFacts
    <3>3. newline # first
      BY <3>1, <3>2 DEF Openers
    <3> QED
      BY <2>2, <3>3
  <2>5. PICK fence \in 0..n : fence = FenceOf(text)
    BY <1>1, <1>2, FenceFacts
  <2>6. fence > last /\ fence \in 1..n
    <3>1. fence > newline
      BY <2>1, <2>2, <2>5
    <3>2. fence # 1
      BY <2>3, <3>1
    <3>3. fence > last
      BY <2>1, <2>5, <3>2
    <3> QED
      BY <1>3, <1>4, <3>3
  <2>7. ASSUME NEW i \in 1..first PROVE text[i] # "quote"
    <3>1. first \in Nat /\ 1 \in Nat /\ 1 <= 1 /\ 1 <= first + 1 /\ first <= n
      BY <1>3
    <3>2. PICK part \in Seq(Symbols) : part = SubSeq(text, 1, first)
      BY <1>1, <1>2, <3>1, PartFacts
    <3>3. Len(part) = first - 1 + 1 /\ \A h \in 1..(first - 1 + 1) : part[h] = text[1 + h - 1]
      BY <1>1, <1>2, <3>1, <3>2, PartFacts
    <3>4. first - 1 + 1 = first /\ 1 + i - 1 = i
      BY <1>3
    <3>5. i \in 1..(first - 1 + 1)
      BY <3>4
    <3>6. part[i] = text[i]
      BY <3>3, <3>4, <3>5, Zenon
    <3>7. i \in DOMAIN part
      BY <3>2, <3>3, <3>5, LenProperties
    <3>8. "quote" \notin ToSet(part)
      BY <1>3, <2>1, <3>2
    <3> QED
      BY <3>6, <3>7, <3>8 DEF ToSet
  <2>8. newline \in 1..Len(text) /\ fence \in 1..Len(text)
    BY <1>2, <2>3, <2>6
  <2>9. OrElse(Loads(InnerOf(text)), Loads(FindTopLevelJson(InnerOf(text)))) = value
    BY <1>1, <1>3, <1>4, <1>5, <1>6, <2>2, <2>4, <2>5, <2>6, <2>7, <2>8, FencedIsFound
  <2> QED
    BY <1>3, <1>5, <1>7, <1>9, <2>9, Zenon
<1> QED
  BY <1>8, <1>9
=============================================================================
