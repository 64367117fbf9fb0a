------------------------ MODULE MoonshotChatProofs --------------------------
(***************************************************************************)
(* What holds of MoonshotChat for every set of answers: however the bytes  *)
(* of an answer are cut into chunks, what is shown is the start of the     *)
(* answer, and a request that completes has shown all of it.               *)
(*                                                                         *)
(* Decoding, splitting and showing a chunk comes to taking its bytes one   *)
(* by one (ChunksDoNotMatter), so what was read is all that matters; and   *)
(* the bytes of an answer, taken one by one, show its events one by one    *)
(* (AnswerTaken).                                                          *)
(***************************************************************************)
EXTENDS MoonshotChat, WellFoundedInduction, TLAPS

-----------------------------------------------------------------------------
(* Induction                                                               *)

\* Induction over the natural numbers, as a set that is closed under successor.
LEMMA Induction ==
    ASSUME NEW S \in SUBSET Nat, 0 \in S, \A n \in S : n + 1 \in S
    PROVE  S = Nat
<1> SUFFICES ASSUME Nat \ S # {} PROVE FALSE
  OBVIOUS
<1> DEFINE T == Nat \ S
           R == OpToRel(<, Nat)
<1>1. IsWellFoundedOn(R, Nat)
  BY NatLessThanWellFounded
<1>2. R = {ss \in Nat \X Nat : ss[1] < ss[2]}
  BY DEF OpToRel
<1>3. T \in SUBSET Nat /\ T # {}
  OBVIOUS
<1> HIDE DEF R, T
<1>4. \E x \in T : \A y \in T : ~ (<<y, x>> \in R)
  BY <1>1, <1>3, WFMin, Zenon
<1>5. PICK x \in T : \A y \in T : x <= y
  <2>1. \A x, y \in Nat : ~ (<<y, x>> \in R) => x <= y
    BY <1>2
  <2> QED
    BY <1>3, <1>4, <2>1
<1>6. x # 0 /\ x - 1 \in Nat /\ x \in Nat
  BY <1>5 DEF T
<1>7. x - 1 \in S
  BY <1>5, <1>6 DEF T
<1> QED
  BY <1>5, <1>6, <1>7 DEF T

-----------------------------------------------------------------------------
(* Sequences                                                               *)

\* Sequences of the same elements are the same.
LEMMA SameSequence ==
    ASSUME NEW T, NEW s \in Seq(T), NEW t \in Seq(T), Len(s) = Len(t),
           \A i \in 1 .. Len(s) : s[i] = t[i]
    PROVE  s = t
OBVIOUS

\* A sequence with one element more.
LEMMA AppendOf ==
    ASSUME NEW T, NEW s \in Seq(T), NEW x \in T
    PROVE  /\ Append(s, x) \in Seq(T)
           /\ Len(Append(s, x)) = Len(s) + 1 /\ Len(s) \in Nat
           /\ \A i \in 1 .. Len(s) + 1 :
                 Append(s, x)[i] = IF i <= Len(s) THEN s[i] ELSE x
OBVIOUS

\* Two sequences, one behind the other.
LEMMA ConcatOf ==
    ASSUME NEW T, NEW s \in Seq(T), NEW t \in Seq(T)
    PROVE  /\ s \o t \in Seq(T)
           /\ Len(s \o t) = Len(s) + Len(t)
           /\ Len(s) \in Nat /\ Len(t) \in Nat
           /\ \A i \in 1 .. Len(s) + Len(t) :
                 (s \o t)[i] = IF i <= Len(s) THEN s[i] ELSE t[i - Len(s)]
OBVIOUS

\* The empty sequence.
LEMMA EmptySequence ==
    ASSUME NEW T
    PROVE  <<>> \in Seq(T) /\ Len(<<>>) = 0
OBVIOUS

\* A sequence of one element.
LEMMA OneElement ==
    ASSUME NEW T, NEW x \in T
    PROVE  <<x>> \in Seq(T) /\ <<x>> = Append(<<>>, x)
OBVIOUS

\* The empty sequence adds nothing.
LEMMA ConcatEmpty ==
    ASSUME NEW T, NEW s \in Seq(T)
    PROVE  s \o <<>> = s /\ <<>> \o s = s
<1>1. s \o <<>> = s
  OBVIOUS
<1>2. <<>> \o s = s
  OBVIOUS
<1> QED
  BY <1>1, <1>2

\* A concatenation of three parts, and appending as a concatenation.
LEMMA ConcatThree ==
    ASSUME NEW T, NEW s \in Seq(T), NEW t \in Seq(T), NEW u \in Seq(T)
    PROVE  (s \o t) \o u = s \o (t \o u)
OBVIOUS

\* Appending as a concatenation.
LEMMA AppendIsConcat ==
    ASSUME NEW T, NEW s \in Seq(T), NEW x \in T
    PROVE  Append(s, x) = s \o <<x>>
OBVIOUS

\* t is s and then u.
Joined(t, s, u) == t = s \o u

\* The ends of a concatenation and of an appended sequence.
LEMMA ConcatStart ==
    ASSUME NEW T, NEW s \in Seq(T), NEW u \in Seq(T), NEW t \in Seq(T),
           Joined(t, s, u), Len(s) >= 1
    PROVE  Len(t) >= 1 /\ t[1] = s[1]
BY DEF Joined

\* The ends of an appended sequence.
LEMMA AppendEnds ==
    ASSUME NEW T, NEW s \in Seq(T), NEW x \in T, Len(s) >= 1
    PROVE  /\ Len(Append(s, x)) >= 2
           /\ Head(Append(s, x)) = s[1]
           /\ Last(Append(s, x)) = x
<1>1. PICK t \in Seq(T) : t = Append(s, x)
  BY AppendOf
<1>2. Len(t) = Len(s) + 1 /\ t[Len(s) + 1] = x /\ t[1] = s[1] /\ Len(s) \in Nat
  BY <1>1
<1>3. Head(t) = t[1]
  OBVIOUS
<1> QED
  BY <1>1, <1>2, <1>3 DEF Last

\* A sequence of two elements.
LEMMA TwoElements ==
    ASSUME NEW T, NEW x \in T, NEW y \in T
    PROVE  <<x, y>> \in Seq(T) /\ <<x, y>> = <<x>> \o <<y>>
<1>1. <<x, y>> \in Seq(T)
  OBVIOUS
<1>2. <<x, y>> = Append(<<x>>, y)
  OBVIOUS
<1>3. Append(<<x>>, y) = <<x>> \o <<y>>
  BY OneElement, AppendIsConcat
<1> QED
  BY <1>1, <1>2, <1>3

\* Appending to a concatenation is appending to its second part.
LEMMA ConcatAppend ==
    ASSUME NEW T, NEW s \in Seq(T), NEW t \in Seq(T), NEW x \in T
    PROVE  s \o Append(t, x) = Append(s \o t, x)
<1>1. PICK u \in Seq(T) : u = <<x>>
  BY OneElement
<1>2. PICK l \in Seq(T) : l = s \o t
  BY ConcatOf
<1>3. Append(t, x) = t \o u
  BY <1>1, AppendIsConcat
<1>4. Append(l, x) = l \o u
  BY <1>1, AppendIsConcat
<1>5. (s \o t) \o u = s \o (t \o u)
  BY ConcatThree
<1> QED
  BY <1>2, <1>3, <1>4, <1>5, Zenon

\* What is left of a sequence without its last element.
LEMMA SequenceEnds ==
    ASSUME NEW T, NEW s \in Seq(T), NEW n \in Nat, Len(s) = n + 1
    PROVE  \E t \in Seq(T), x \in T : s = Append(t, x) /\ Len(t) = n
<1> DEFINE t == SubSeq(s, 1, n)
<1>1. t \in Seq(T) /\ Len(t) = n /\ s[n + 1] \in T
  OBVIOUS
<1>2. s = Append(t, s[n + 1])
  OBVIOUS
<1> QED
  BY <1>1, <1>2

\* Induction over sequences, as a set that is closed under Append.
LEMMA SequenceInduction ==
    ASSUME NEW T, NEW P \in SUBSET Seq(T), <<>> \in P,
           \A s \in P, x \in T : Append(s, x) \in P
    PROVE  P = Seq(T)
<1> DEFINE S == {n \in Nat : \A s \in Seq(T) : Len(s) = n => s \in P}
<1>1. 0 \in S
  <2>1. \A s \in Seq(T) : Len(s) = 0 => s = <<>>
    OBVIOUS
  <2> QED
    BY <2>1
<1>2. ASSUME NEW n \in S PROVE n + 1 \in S
  <2> SUFFICES ASSUME NEW s \in Seq(T), Len(s) = n + 1 PROVE s \in P
    OBVIOUS
  <2>1. n \in Nat /\ \A t \in Seq(T) : Len(t) = n => t \in P
    BY <1>2
  <2> HIDE DEF S
  <2>2. \E t \in Seq(T), x \in T : s = Append(t, x) /\ Len(t) = n
    BY <2>1, SequenceEnds, Zenon
  <2>3. PICK t \in Seq(T), x \in T : s = Append(t, x) /\ Len(t) = n
    BY <2>2
  <2>4. t \in P
    BY <2>1, <2>3
  <2>5. Append(t, x) \in P
    BY <2>4
  <2> QED
    BY <2>3, <2>5
<1>3. S \in SUBSET Nat
  OBVIOUS
<1> HIDE DEF S
<1>4. S = Nat
  BY <1>1, <1>2, <1>3, Induction
<1>5. \A s \in Seq(T) : Len(s) \in Nat
  OBVIOUS
<1> QED
  BY <1>4, <1>5 DEF S

-----------------------------------------------------------------------------
(* Folding                                                                 *)

\* step makes a value of V of one and an element of T.
Step(step, V, T) == step \in [V -> [T -> V]]

\* f holds what step makes of a and the first elements of s.
Folds(f, V, step, a, s) ==
    /\ f \in [0 .. Len(s) -> V]
    /\ f = [i \in 0 .. Len(s) |->
               IF i = 0 THEN a ELSE step[f[i - 1]][s[i]]]

\* The recursive definition of Folded has a solution, of the type of its
\* values.
LEMMA FoldExists ==
    ASSUME NEW V, NEW T, NEW step, Step(step, V, T), NEW a \in V
    PROVE  \A s \in Seq(T) : \E f : Folds(f, V, step, a, s)
<1> DEFINE P == {s \in Seq(T) : \E f : Folds(f, V, step, a, s)}
<1>1. <<>> \in P
  <2> DEFINE f == [i \in 0 .. 0 |-> a]
  <2>1. f \in [0 .. 0 -> V] /\ Len(<<>>) = 0
    OBVIOUS
  <2>2. f = [i \in 0 .. 0 |-> IF i = 0 THEN a ELSE step[f[i - 1]][<<>>[i]]]
    OBVIOUS
  <2>3. Folds(f, V, step, a, <<>>)
    BY <2>1, <2>2 DEF Folds
  <2>4. <<>> \in Seq(T)
    OBVIOUS
  <2> QED
    BY <2>3, <2>4
<1>2. ASSUME NEW s \in P, NEW x \in T PROVE Append(s, x) \in P
  <2>1. s \in Seq(T)
    BY <1>2
  <2>2. PICK f : Folds(f, V, step, a, s)
    BY <1>2
  <2> HIDE DEF P
  <2>3. PICK m \in Nat : m = Len(s)
    BY <2>1
  <2>4. PICK t \in Seq(T) : t = Append(s, x)
    BY <2>1, AppendOf
  <2>5. /\ Len(t) = m + 1 /\ t[m + 1] = x
        /\ \A i \in 1 .. m : t[i] = s[i] /\ s[i] \in T
    BY <2>1, <2>3, <2>4
  <2> DEFINE g == [i \in 0 .. m + 1 |-> IF i = m + 1 THEN step[f[m]][x]
                                       ELSE f[i]]
  <2>6. f \in [0 .. m -> V] /\ f[m] \in V /\ step[f[m]][x] \in V
    <3>1. f \in [0 .. m -> V]
      BY <2>2, <2>3 DEF Folds
    <3>2. m \in 0 .. m
      OBVIOUS
    <3>3. f[m] \in V
      BY <3>1, <3>2
    <3>4. step \in [V -> [T -> V]]
      BY DEF Step
    <3> QED
      BY <3>1, <3>3, <3>4
  <2>7. g \in [0 .. m + 1 -> V]
    BY <2>3, <2>6
  <2>8. \A i \in 0 .. m + 1 :
            g[i] = IF i = 0 THEN a ELSE step[g[i - 1]][t[i]]
    <3> SUFFICES ASSUME NEW i \in 0 .. m + 1
                 PROVE  g[i] = IF i = 0 THEN a ELSE step[g[i - 1]][t[i]]
      OBVIOUS
    <3>1. CASE i = m + 1
      <4>1. /\ i # 0 /\ i - 1 = m /\ g[i] = step[f[m]][x]
            /\ g[m] = f[m] /\ t[i] = x
        BY <3>1, <2>5
      <4> HIDE DEF g
      <4> QED
        BY <4>1
    <3>2. CASE i # m + 1
      <4>1. i \in 0 .. m /\ g[i] = f[i]
        BY <3>2
      <4>2. i # 0 => i - 1 \in 0 .. m /\ g[i - 1] = f[i - 1] /\ t[i] = s[i]
        BY <4>1, <2>5
      <4>3. f[i] = IF i = 0 THEN a ELSE step[f[i - 1]][s[i]]
        BY <2>2, <2>3, <4>1 DEF Folds
      <4> HIDE DEF g
      <4> QED
        BY <4>1, <4>2, <4>3
    <3> QED
      BY <3>1, <3>2
  <2>9. g = [i \in 0 .. m + 1 |-> IF i = 0 THEN a ELSE step[g[i - 1]][t[i]]]
    <3>1. g = [i \in 0 .. m + 1 |-> g[i]]
      OBVIOUS
    <3> HIDE DEF g
    <3> QED
      BY <2>8, <3>1
  <2> HIDE DEF g
  <2>10. Folds(g, V, step, a, t)
    BY <2>5, <2>7, <2>9 DEF Folds
  <2> QED
    BY <2>4, <2>10 DEF P
<1>3. P \in SUBSET Seq(T)
  OBVIOUS
<1> HIDE DEF P
<1>4. P = Seq(T)
  BY <1>1, <1>2, <1>3, SequenceInduction
<1> QED
  BY <1>4 DEF P

\* Folded is the last element of such a solution.
LEMMA FoldedIsLast ==
    ASSUME NEW V, NEW T, NEW step, Step(step, V, T), NEW a \in V,
           NEW s \in Seq(T)
    PROVE  \E f : /\ Folds(f, V, step, a, s)
                  /\ Folded(step, a, s) = f[Len(s)]
<1> DEFINE G(g) == [i \in 0 .. Len(s) |->
                       IF i = 0 THEN a ELSE step[g[i - 1]][s[i]]]
           h == CHOOSE g : g = G(g)
<1>1. Folded(step, a, s) = h[Len(s)]
  BY DEF Folded
<1>2. PICK f : Folds(f, V, step, a, s)
  BY FoldExists
<1>3. f = G(f)
  BY <1>2 DEF Folds
<1>4. h = G(h)
  <2> HIDE DEF G
  <2> QED
    BY <1>3
<1> HIDE DEF h
<1>5. PICK n \in Nat : n = Len(s)
  OBVIOUS
<1>6. f \in [0 .. n -> V]
  BY <1>2, <1>5 DEF Folds
<1>7. h = f
  <2> DEFINE I == {i \in Nat : i <= n => h[i] = f[i]}
  <2>1. 0 \in I
    BY <1>3, <1>4, <1>5
  <2>2. ASSUME NEW i \in I PROVE i + 1 \in I
    <3> SUFFICES ASSUME i + 1 <= n PROVE h[i + 1] = f[i + 1]
      OBVIOUS
    <3>1. i \in Nat /\ h[i] = f[i] /\ i + 1 \in 0 .. n /\ i + 1 # 0
          /\ (i + 1) - 1 = i
      BY <2>2
    <3>2. h[i + 1] = step[h[i]][s[i + 1]]
      BY <3>1, <1>4, <1>5
    <3>3. f[i + 1] = step[f[i]][s[i + 1]]
      BY <3>1, <1>3, <1>5
    <3> QED
      BY <3>1, <3>2, <3>3
  <2>3. I \in SUBSET Nat
    OBVIOUS
  <2> HIDE DEF I
  <2>4. I = Nat
    BY <2>1, <2>2, <2>3, Induction
  <2>5. h = [i \in 0 .. n |-> h[i]] /\ f = [i \in 0 .. n |-> f[i]]
    BY <1>4, <1>5, <1>6
  <2> HIDE DEF G
  <2>6. \A i \in 0 .. n : h[i] = f[i]
    BY <2>4 DEF I
  <2> QED
    BY <2>5, <2>6
<1> QED
  BY <1>1, <1>2, <1>7

\* t is s and one element more.
Extended(t, s, x) == t = Append(s, x)

\* The solution for a sequence with one element more takes one step more.
LEMMA FoldsExtended ==
    ASSUME NEW V, NEW T, NEW step, NEW a,
           NEW s \in Seq(T), NEW x \in T, NEW t \in Seq(T), Extended(t, s, x),
           NEW f, NEW g, Folds(f, V, step, a, s), Folds(g, V, step, a, t)
    PROVE  g[Len(t)] = step[f[Len(s)]][x]
<1>1. PICK m \in Nat : m = Len(s)
  OBVIOUS
<1>2. /\ Len(t) = m + 1 /\ t[m + 1] = x
      /\ \A i \in 1 .. m : s[i] = t[i]
  BY <1>1 DEF Extended
<1>3. f = [i \in 0 .. m |-> IF i = 0 THEN a ELSE step[f[i - 1]][s[i]]]
  BY <1>1 DEF Folds
<1>4. g = [i \in 0 .. m + 1 |-> IF i = 0 THEN a ELSE step[g[i - 1]][t[i]]]
  BY <1>2 DEF Folds
<1> DEFINE I == {i \in Nat : i <= m => f[i] = g[i]}
<1>5. 0 \in I
  BY <1>3, <1>4
<1>6. ASSUME NEW i \in I PROVE i + 1 \in I
  <2> SUFFICES ASSUME i + 1 <= m PROVE f[i + 1] = g[i + 1]
    OBVIOUS
  <2>1. /\ i \in Nat /\ f[i] = g[i] /\ i + 1 \in 1 .. m
        /\ i + 1 \in 0 .. m /\ i + 1 \in 0 .. m + 1 /\ i + 1 # 0
        /\ (i + 1) - 1 = i
    BY <1>6
  <2>2. f[i + 1] = step[f[i]][s[i + 1]]
    BY <2>1, <1>3
  <2>3. g[i + 1] = step[g[i]][t[i + 1]]
    BY <2>1, <1>4
  <2> QED
    BY <2>1, <2>2, <2>3, <1>2
<1>7. I \in SUBSET Nat
  OBVIOUS
<1> HIDE DEF I
<1>8. I = Nat
  BY <1>5, <1>6, <1>7, Induction
<1>9. f[m] = g[m]
  BY <1>8 DEF I
<1>10. g[m + 1] = step[g[m]][t[m + 1]]
  <2>1. m + 1 \in 0 .. m + 1 /\ m + 1 # 0 /\ (m + 1) - 1 = m
    OBVIOUS
  <2> QED
    BY <1>4, <2>1
<1> QED
  BY <1>1, <1>2, <1>9, <1>10

\* What Folded makes of no element, the type of its results, and what it makes
\* of one element more.
LEMMA FoldedEmpty ==
    ASSUME NEW V, NEW T, NEW step, Step(step, V, T), NEW a \in V
    PROVE  Folded(step, a, <<>>) = a
<1>1. PICK e \in Seq(T) : e = <<>>
  BY EmptySequence
<1>2. PICK f : Folds(f, V, step, a, e) /\ Folded(step, a, e) = f[Len(e)]
  BY FoldedIsLast, Zenon
<1>3. Len(e) = 0
  BY <1>1
<1>4. f[0] = a
  BY <1>2, <1>3 DEF Folds
<1> QED
  BY <1>1, <1>2, <1>3, <1>4

\* The results have the type of the start.
LEMMA FoldedType ==
    ASSUME NEW V, NEW T, NEW step, Step(step, V, T), NEW a \in V,
           NEW s \in Seq(T)
    PROVE  Folded(step, a, s) \in V
<1>1. PICK f : /\ Folds(f, V, step, a, s)
               /\ Folded(step, a, s) = f[Len(s)]
  BY FoldedIsLast
<1>2. Len(s) \in 0 .. Len(s)
  OBVIOUS
<1> QED
  BY <1>1, <1>2 DEF Folds

\* One element more is one step more.
LEMMA FoldedAppend ==
    ASSUME NEW V, NEW T, NEW step, Step(step, V, T), NEW a \in V,
           NEW s \in Seq(T), NEW x \in T, NEW t \in Seq(T), Extended(t, s, x)
    PROVE  Folded(step, a, t) = step[Folded(step, a, s)][x]
<1>1. PICK f : Folds(f, V, step, a, s) /\ Folded(step, a, s) = f[Len(s)]
  BY FoldedIsLast, Zenon
<1>2. PICK g : Folds(g, V, step, a, t) /\ Folded(step, a, t) = g[Len(t)]
  BY FoldedIsLast, Zenon
<1>3. g[Len(t)] = step[f[Len(s)]][x]
  BY <1>1, <1>2, FoldsExtended
<1> QED
  BY <1>1, <1>2, <1>3

\* A longer second part makes a longer concatenation.
LEMMA ConcatExtended ==
    ASSUME NEW T, NEW a \in Seq(T), NEW s \in Seq(T), NEW x \in T,
           NEW t \in Seq(T), Extended(t, s, x)
    PROVE  Extended(a \o t, a \o s, x)
BY ConcatAppend DEF Extended

\* Folding a concatenation is folding one part after the other.
LEMMA FoldedConcat ==
    ASSUME NEW V, NEW T, NEW step, Step(step, V, T), NEW a \in V,
           NEW s \in Seq(T), NEW t \in Seq(T)
    PROVE  Folded(step, a, s \o t) = Folded(step, Folded(step, a, s), t)
<1>1. PICK b \in V : b = Folded(step, a, s)
  BY FoldedType
<1> DEFINE P == {u \in Seq(T) : Folded(step, a, s \o u) = Folded(step, b, u)}
<1>2. <<>> \in P
  <2>1. <<>> \in Seq(T) /\ s \o <<>> = s
    OBVIOUS
  <2>2. Folded(step, b, <<>>) = b
    BY FoldedEmpty, Zenon
  <2> QED
    BY <1>1, <2>1, <2>2
<1>3. ASSUME NEW u \in P, NEW x \in T PROVE Append(u, x) \in P
  <2>1. u \in Seq(T) /\ Folded(step, a, s \o u) = Folded(step, b, u)
    BY <1>3
  <2> HIDE DEF P
  <2>2. PICK v \in Seq(T) : Extended(v, u, x)
    BY <2>1, AppendOf DEF Extended
  <2>3. PICK l \in Seq(T) : l = s \o u
    BY <2>1, ConcatOf
  <2>4. PICK r \in Seq(T) : r = s \o v
    BY ConcatOf
  <2>5. Extended(r, l, x)
    BY <2>1, <2>2, <2>3, <2>4, ConcatAppend DEF Extended
  <2>6. Folded(step, a, r) = step[Folded(step, a, l)][x]
    BY <2>5, FoldedAppend
  <2>7. Folded(step, b, v) = step[Folded(step, b, u)][x]
    BY <2>1, <2>2, FoldedAppend
  <2>8. Folded(step, a, s \o v) = Folded(step, b, v)
    BY <2>1, <2>3, <2>4, <2>6, <2>7
  <2> QED
    BY <2>2, <2>8 DEF P, Extended
<1>4. P \in SUBSET Seq(T)
  OBVIOUS
<1> HIDE DEF P
<1>5. P = Seq(T)
  BY <1>2, <1>3, <1>4, SequenceInduction
<1> QED
  BY <1>1, <1>5 DEF P

\* Folding one element.
LEMMA FoldedOne ==
    ASSUME NEW V, NEW T, NEW step, Step(step, V, T), NEW a \in V, NEW x \in T
    PROVE  Folded(step, a, <<x>>) = step[a][x]
<1>1. PICK e \in Seq(T) : e = <<>>
  BY EmptySequence
<1>2. PICK o \in Seq(T) : o = <<x>>
  BY OneElement
<1>3. Extended(o, e, x)
  BY <1>1, <1>2, OneElement DEF Extended
<1>4. Folded(step, a, <<>>) = a
  BY FoldedEmpty, Zenon
<1>5. Folded(step, a, o) = step[Folded(step, a, e)][x]
  BY <1>3, FoldedAppend
<1> QED
  BY <1>1, <1>2, <1>4, <1>5

-----------------------------------------------------------------------------
(* The steps that are folded                                               *)

DecoderState == [held : BOOLEAN, out : Seq(Characters)]
SplitState == [lines : Seq(Seq(Characters)), rest : Seq(Characters)]
SeenState ==
    [shown : Seq(Characters), finish : Seq(Characters), done : BOOLEAN]

\* What one byte is decoded to, after half a character or not.
DecodedByte(held, b) ==
    CASE b = "h1" -> [held |-> TRUE, out |-> IF held THEN <<"?">> ELSE <<>>]
      [] b = "h2" -> [held |-> FALSE,
                      out |-> IF held THEN <<"u">> ELSE <<"?">>]
      [] OTHER -> [held |-> FALSE, out |-> IF held THEN <<"?", b>> ELSE <<b>>]

\* The characters a byte may stand for are characters.
LEMMA PlainCharacters ==
    ASSUME NEW b \in Bytes, b # "h1", b # "h2"
    PROVE  b \in Characters
BY DEF Characters

\* So are these.
LEMMA OtherCharacters ==
    /\ "u" \in Characters /\ "?" \in Characters /\ "nl" \in Characters
    /\ "a" \in Characters /\ "data:" \in Characters /\ "}" \in Characters
    /\ Text \subseteq Characters /\ Reasons \subseteq Characters
BY DEF Characters, Bytes, Text, Reasons

\* Decoding a byte leaves a decoder and characters.
LEMMA DecodedByteType ==
    ASSUME NEW held \in BOOLEAN, NEW b \in Bytes
    PROVE  DecodedByte(held, b) \in DecoderState
<1>1. b # "h1" /\ b # "h2" => b \in Characters
  BY PlainCharacters
<1>2. CASE b = "h1"
  <2>1. DecodedByte(held, b) =
          [held |-> TRUE, out |-> IF held THEN <<"?">> ELSE <<>>]
    BY <1>2 DEF DecodedByte
  <2>2. <<>> \in Seq(Characters) /\ <<"?">> \in Seq(Characters)
    BY OtherCharacters, EmptySequence, OneElement
  <2> QED
    BY <2>1, <2>2 DEF DecoderState
<1>3. CASE b = "h2"
  <2>1. DecodedByte(held, b) =
          [held |-> FALSE, out |-> IF held THEN <<"u">> ELSE <<"?">>]
    BY <1>3 DEF DecodedByte
  <2>2. <<"u">> \in Seq(Characters) /\ <<"?">> \in Seq(Characters)
    BY OtherCharacters, OneElement
  <2> QED
    BY <2>1, <2>2 DEF DecoderState
<1>4. CASE b # "h1" /\ b # "h2"
  <2>1. DecodedByte(held, b) =
          [held |-> FALSE, out |-> IF held THEN <<"?", b>> ELSE <<b>>]
    BY <1>4 DEF DecodedByte
  <2>2. <<"?", b>> \in Seq(Characters) /\ <<b>> \in Seq(Characters)
    BY <1>1, <1>4, OtherCharacters, OneElement, TwoElements
  <2> QED
    BY <2>1, <2>2 DEF DecoderState
<1> QED
  BY <1>2, <1>3, <1>4

\* Decoding a byte adds what it is decoded to.
LEMMA DecodeByteAdds ==
    ASSUME NEW d \in DecoderState, NEW b \in Bytes
    PROVE  DecodeByte[d][b] = [held |-> DecodedByte(d.held, b).held,
                               out |-> d.out \o DecodedByte(d.held, b).out]
<1>1. d.held \in BOOLEAN /\ d.out \in Seq(Characters)
  BY DEF DecoderState
<1> DEFINE out == IF d.held /\ b # "h2" THEN Append(d.out, "?") ELSE d.out
<1>2. DecodeByte[d][b] =
        CASE b = "h1" -> [held |-> TRUE, out |-> out]
          [] b = "h2" -> [held |-> FALSE,
                          out |-> Append(out, IF d.held THEN "u" ELSE "?")]
          [] OTHER -> [held |-> FALSE, out |-> Append(out, b)]
  BY DEF DecodeByte, DecoderState
<1>3. "?" \in Characters /\ "u" \in Characters
  BY OtherCharacters
<1>4. CASE b = "h1"
  <2>1. DecodeByte[d][b] = [held |-> TRUE, out |-> out]
    BY <1>2, <1>4
  <2>2. DecodedByte(d.held, b).held = TRUE
        /\ DecodedByte(d.held, b).out = IF d.held THEN <<"?">> ELSE <<>>
    BY <1>4 DEF DecodedByte
  <2>3. CASE d.held
    <3>1. out = d.out \o <<"?">>
      BY <1>1, <1>3, <1>4, <2>3, AppendIsConcat
    <3> QED
      BY <2>1, <2>2, <2>3, <3>1
  <2>4. CASE ~d.held
    <3>1. out = d.out \o <<>>
      BY <1>1, <1>4, <2>4, ConcatEmpty
    <3> QED
      BY <2>1, <2>2, <2>4, <3>1
  <2> QED
    BY <2>3, <2>4
<1>5. CASE b = "h2"
  <2>1. DecodeByte[d][b] =
          [held |-> FALSE, out |-> Append(d.out, IF d.held THEN "u" ELSE "?")]
    BY <1>2, <1>5
  <2>2. DecodedByte(d.held, b).held = FALSE
        /\ DecodedByte(d.held, b).out = IF d.held THEN <<"u">> ELSE <<"?">>
    BY <1>5 DEF DecodedByte
  <2>3. /\ Append(d.out, "u") = d.out \o <<"u">>
        /\ Append(d.out, "?") = d.out \o <<"?">>
    BY <1>1, <1>3, AppendIsConcat
  <2>4. CASE d.held
    BY <2>1, <2>2, <2>3, <2>4
  <2>5. CASE ~d.held
    BY <2>1, <2>2, <2>3, <2>5
  <2> QED
    BY <2>4, <2>5
<1>6. CASE b # "h1" /\ b # "h2"
  <2>1. DecodeByte[d][b] =
          [held |-> FALSE,
           out |-> Append(IF d.held THEN Append(d.out, "?") ELSE d.out, b)]
    BY <1>2, <1>6
  <2>2. DecodedByte(d.held, b).held = FALSE
        /\ DecodedByte(d.held, b).out = IF d.held THEN <<"?", b>> ELSE <<b>>
    BY <1>6 DEF DecodedByte
  <2>3. b \in Characters
    BY <1>6, PlainCharacters
  <2>4. /\ Append(d.out, b) = d.out \o <<b>>
        /\ Append(Append(d.out, "?"), b) = d.out \o <<"?", b>>
    BY <1>1, <1>3, <2>3
  <2>5. CASE d.held
    BY <2>1, <2>2, <2>4, <2>5
  <2>6. CASE ~d.held
    BY <2>1, <2>2, <2>4, <2>6
  <2> QED
    BY <2>5, <2>6
<1> QED
  BY <1>4, <1>5, <1>6

\* Decoding makes a decoder of a decoder and a byte.
LEMMA DecodeByteStep == Step(DecodeByte, DecoderState, Bytes)
<1>1. ASSUME NEW d \in DecoderState, NEW b \in Bytes
      PROVE  DecodeByte[d][b] \in DecoderState
  <2>1. PICK e \in DecoderState : e = DecodedByte(d.held, b)
    BY DecodedByteType DEF DecoderState
  <2>2. e.held \in BOOLEAN /\ d.out \o e.out \in Seq(Characters)
    BY ConcatOf DEF DecoderState
  <2>3. DecodeByte[d][b] = [held |-> e.held, out |-> d.out \o e.out]
    BY <2>1, DecodeByteAdds
  <2> QED
    BY <2>2, <2>3 DEF DecoderState
<1>2. DecodeByte = [d \in DecoderState |-> DecodeByte[d]]
  BY DEF DecodeByte, DecoderState
<1>3. \A d \in DecoderState :
        DecodeByte[d] = [b \in Bytes |-> DecodeByte[d][b]]
  BY DEF DecodeByte, DecoderState
<1> QED
  BY <1>1, <1>2, <1>3 DEF Step

\* Changing one part of what was split, or of what was seen.
LEMMA ExceptRest ==
    ASSUME NEW A, NEW B, NEW s \in [lines : A, rest : B], NEW r
    PROVE  [s EXCEPT !.rest = r] = [lines |-> s.lines, rest |-> r]
OBVIOUS

\* The same of done.
LEMMA ExceptDone ==
    ASSUME NEW A, NEW B, NEW C, NEW s \in [shown : A, finish : B, done : C],
           NEW r
    PROVE  [s EXCEPT !.done = r] =
             [shown |-> s.shown, finish |-> s.finish, done |-> r]
OBVIOUS

\* Splitting at a character.
LEMMA SplitAtOne ==
    ASSUME NEW s \in SplitState, NEW ch \in Characters
    PROVE  SplitAt[s][ch] =
             IF ch = "nl"
             THEN [lines |-> Append(s.lines, s.rest), rest |-> <<>>]
             ELSE [lines |-> s.lines, rest |-> Append(s.rest, ch)]
<1>1. SplitAt[s][ch] =
        IF ch = "nl"
        THEN [lines |-> Append(s.lines, s.rest), rest |-> <<>>]
        ELSE [s EXCEPT !.rest = Append(s.rest, ch)]
  BY DEF SplitAt, SplitState
<1>2. [s EXCEPT !.rest = Append(s.rest, ch)] =
        [lines |-> s.lines, rest |-> Append(s.rest, ch)]
  <2>1. PICK r : r = Append(s.rest, ch)
    OBVIOUS
  <2>2. [s EXCEPT !.rest = r] = [lines |-> s.lines, rest |-> r]
    BY ExceptRest DEF SplitState
  <2> QED
    BY <2>1, <2>2
<1> QED
  BY <1>1, <1>2

\* Splitting makes lines and a rest of these and a character.
LEMMA SplitAtStep == Step(SplitAt, SplitState, Characters)
<1>1. ASSUME NEW s \in SplitState, NEW ch \in Characters
      PROVE  SplitAt[s][ch] \in SplitState
  <2>1. /\ s.rest \in Seq(Characters) /\ s.lines \in Seq(Seq(Characters))
        /\ <<>> \in Seq(Characters)
        /\ Append(s.lines, s.rest) \in Seq(Seq(Characters))
        /\ Append(s.rest, ch) \in Seq(Characters)
    BY AppendOf DEF SplitState
  <2>2. CASE ch = "nl"
    <3>1. SplitAt[s][ch] = [lines |-> Append(s.lines, s.rest), rest |-> <<>>]
      BY <2>2, SplitAtOne
    <3> QED
      BY <2>1, <3>1 DEF SplitState
  <2>3. CASE ch # "nl"
    <3>1. SplitAt[s][ch] = [lines |-> s.lines, rest |-> Append(s.rest, ch)]
      BY <2>3, SplitAtOne
    <3> QED
      BY <2>1, <3>1 DEF SplitState
  <2> QED
    BY <2>2, <2>3
<1>2. SplitAt = [s \in SplitState |-> SplitAt[s]]
  BY DEF SplitAt, SplitState
<1>3. \A s \in SplitState :
        SplitAt[s] = [ch \in Characters |-> SplitAt[s][ch]]
  BY DEF SplitAt, SplitState
<1> QED
  BY <1>1, <1>2, <1>3 DEF Step

\* Picking a character.
LEMMA PickOne ==
    ASSUME NEW S, NEW s \in Seq(Characters), NEW ch \in Characters
    PROVE  Pick(S)[s][ch] = IF ch \in S THEN Append(s, ch) ELSE s
BY DEF Pick

\* Picking makes characters of characters and one more.
LEMMA PickStep == ASSUME NEW S PROVE Step(Pick(S), Seq(Characters), Characters)
<1>1. ASSUME NEW s \in Seq(Characters), NEW ch \in Characters
      PROVE  Pick(S)[s][ch] \in Seq(Characters)
  <2>1. Append(s, ch) \in Seq(Characters)
    BY AppendOf
  <2>2. CASE ch \in S
    BY <2>1, <2>2, PickOne
  <2>3. CASE ch \notin S
    BY <2>3, PickOne
  <2> QED
    BY <2>2, <2>3
<1>2. Pick(S) = [s \in Seq(Characters) |-> Pick(S)[s]]
  BY DEF Pick
<1>3. \A s \in Seq(Characters) :
        Pick(S)[s] = [ch \in Characters |-> Pick(S)[s][ch]]
  BY DEF Pick
<1> QED
  BY <1>1, <1>2, <1>3 DEF Step

\* What is picked are characters.
LEMMA PickedType ==
    ASSUME NEW S, NEW line \in Seq(Characters)
    PROVE  Picked(line, S) \in Seq(Characters)
<1>1. PICK e \in Seq(Characters) : e = <<>>
  BY EmptySequence
<1>2. Folded(Pick(S), e, line) \in Seq(Characters)
  BY PickStep, FoldedType
<1> QED
  BY <1>1, <1>2 DEF Picked

\* Showing a line.
LEMMA DoneIsNoDelta ==
    ASSUME NEW line, IsDone(line)
    PROVE  ~IsDelta(line)
<1>1. Len(<<"data:", "done">>) = 2 /\ <<"data:", "done">>[2] = "done"
  OBVIOUS
<1>2. "done" # "}"
  OBVIOUS
<1> QED
  BY <1>1, <1>2 DEF IsDone, IsDelta, Last

\* What showing a line comes to, after the end mark and before it.
LEMMA ShowLineOne ==
    ASSUME NEW s \in SeenState, NEW line \in Seq(Characters)
    PROVE  /\ s.done => ShowLine[s][line] = s
           /\ ~s.done /\ IsDone(line)
              => ShowLine[s][line] =
                   [shown |-> s.shown, finish |-> s.finish, done |-> TRUE]
           /\ ~s.done /\ ~IsDone(line) /\ IsDelta(line)
              => ShowLine[s][line] =
                   [shown |-> s.shown \o Content(line),
                    finish |-> IF Reason(line) = <<>> THEN s.finish
                               ELSE Reason(line),
                    done |-> FALSE]
           /\ ~s.done /\ ~IsDone(line) /\ ~IsDelta(line)
              => ShowLine[s][line] = s
<1>1. ShowLine[s][line] =
        CASE s.done -> s
          [] ~s.done /\ IsDone(line) -> [s EXCEPT !.done = TRUE]
          [] ~s.done /\ IsDelta(line) ->
               [shown |-> s.shown \o Content(line),
                finish |-> IF Reason(line) = <<>> THEN s.finish
                           ELSE Reason(line),
                done |-> FALSE]
          [] OTHER -> s
  BY DEF ShowLine, SeenState
<1>2. s.done => ShowLine[s][line] = s
  BY <1>1
<1>3. ~s.done /\ ~IsDone(line) /\ IsDelta(line)
        => ShowLine[s][line] =
             [shown |-> s.shown \o Content(line),
              finish |-> IF Reason(line) = <<>> THEN s.finish
                         ELSE Reason(line),
              done |-> FALSE]
  BY <1>1
<1>4. ~s.done /\ ~IsDone(line) /\ ~IsDelta(line) => ShowLine[s][line] = s
  BY <1>1
<1>5. IsDone(line) => ~IsDelta(line)
  BY DoneIsNoDelta
<1>6. ~s.done /\ IsDone(line)
        => ShowLine[s][line] = [s EXCEPT !.done = TRUE]
  BY <1>1, <1>5
<1>7. [s EXCEPT !.done = TRUE] =
        [shown |-> s.shown, finish |-> s.finish, done |-> TRUE]
  BY ExceptDone DEF SeenState
<1> QED
  BY <1>2, <1>3, <1>4, <1>6, <1>7

\* Showing makes what is seen of what was seen and a line.
LEMMA ShowLineStep == Step(ShowLine, SeenState, Seq(Characters))
<1>1. ASSUME NEW s \in SeenState, NEW line \in Seq(Characters)
      PROVE  ShowLine[s][line] \in SeenState
  <2>1. /\ Content(line) \in Seq(Characters)
        /\ Reason(line) \in Seq(Characters)
        /\ s.shown \in Seq(Characters) /\ s.finish \in Seq(Characters)
        /\ s.shown \o Content(line) \in Seq(Characters)
    <3>1. s.shown \in Seq(Characters) /\ s.finish \in Seq(Characters)
      BY DEF SeenState
    <3>2. Content(line) \in Seq(Characters) /\ Reason(line) \in Seq(Characters)
      BY PickedType DEF Content, Reason
    <3> QED
      BY <3>1, <3>2, ConcatOf
  <2>2. CASE s.done
    BY <2>2, ShowLineOne
  <2>3. CASE ~s.done /\ IsDone(line)
    <3>1. ShowLine[s][line] =
            [shown |-> s.shown, finish |-> s.finish, done |-> TRUE]
      BY <2>3, ShowLineOne
    <3> QED
      BY <2>1, <3>1 DEF SeenState
  <2>4. CASE ~s.done /\ ~IsDone(line) /\ IsDelta(line)
    <3>1. ShowLine[s][line] =
            [shown |-> s.shown \o Content(line),
             finish |-> IF Reason(line) = <<>> THEN s.finish ELSE Reason(line),
             done |-> FALSE]
      BY <2>4, ShowLineOne
    <3> QED
      BY <2>1, <3>1 DEF SeenState
  <2>5. CASE ~s.done /\ ~IsDone(line) /\ ~IsDelta(line)
    BY <2>5, ShowLineOne
  <2> QED
    BY <2>2, <2>3, <2>4, <2>5
<1>2. ShowLine = [s \in SeenState |-> ShowLine[s]]
  BY DEF ShowLine, SeenState
<1>3. \A s \in SeenState :
        ShowLine[s] = [line \in Seq(Characters) |-> ShowLine[s][line]]
  BY DEF ShowLine, SeenState
<1> QED
  BY <1>1, <1>2, <1>3 DEF Step

-----------------------------------------------------------------------------
(* Chunks do not matter                                                    *)

\* What was read so far, up to the characters of an incomplete line and half a
\* character.
Plain == Characters \ {"nl"}
LineState == [rest : Seq(Plain), seen : SeenState]
ReadState == [held : BOOLEAN, rest : Seq(Plain), seen : SeenState]

\* Taking one character: a line feed shows the line before it.
TakeCharacter ==
    [v \in LineState |-> [ch \in Characters |->
        [rest |-> IF ch = "nl" THEN <<>> ELSE Append(v.rest, ch),
         seen |-> IF ch = "nl" THEN ShowLine[v.seen][v.rest] ELSE v.seen]]]

\* Taking one byte: the characters it is decoded to are taken.
TakeByte ==
    [t \in ReadState |-> [b \in Bytes |->
        LET d == DecodedByte(t.held, b)
            v == Folded(TakeCharacter, [rest |-> t.rest, seen |-> t.seen],
                        d.out)
        IN [held |-> d.held, rest |-> v.rest, seen |-> v.seen]]]

\* What ReadChunk makes of a chunk.
ChunkRead(t, bytes) ==
    LET decoded == Decode(t.held, bytes)
        split == SplitLines(t.rest \o decoded.out)
    IN [held |-> decoded.held, rest |-> split.rest,
        seen |-> Folded(ShowLine, t.seen, split.lines)]

\* Plain characters are characters.
LEMMA PlainType ==
    /\ Plain \subseteq Characters
    /\ \A s \in Seq(Plain) : s \in Seq(Characters)
    /\ Text \subseteq Plain /\ Reasons \subseteq Plain
    /\ "data:" \in Plain /\ "}" \in Plain /\ ":" \in Plain /\ "a" \in Plain
    /\ "done" \in Plain /\ "u" \in Plain /\ "?" \in Plain
<1>1. Plain \subseteq Characters
  BY DEF Plain
<1>2. \A s \in Seq(Plain) : s \in Seq(Characters)
  BY <1>1
<1>3. /\ Text \subseteq Plain /\ Reasons \subseteq Plain
      /\ "data:" \in Plain /\ "}" \in Plain /\ ":" \in Plain /\ "a" \in Plain
      /\ "done" \in Plain /\ "u" \in Plain /\ "?" \in Plain
  BY DEF Plain, Characters, Bytes, Text, Reasons
<1> QED
  BY <1>1, <1>2, <1>3

\* Showing a line without a line feed.
LEMMA ShowLineType ==
    ASSUME NEW s \in SeenState, NEW line \in Seq(Plain)
    PROVE  ShowLine[s][line] \in SeenState
BY ShowLineStep, PlainType DEF Step

\* What taking a character comes to.
LEMMA TakeCharacterOne ==
    ASSUME NEW v \in LineState, NEW ch \in Characters
    PROVE  TakeCharacter[v][ch] =
             [rest |-> IF ch = "nl" THEN <<>> ELSE Append(v.rest, ch),
              seen |-> IF ch = "nl" THEN ShowLine[v.seen][v.rest] ELSE v.seen]
BY DEF TakeCharacter

\* Taking a character keeps the type.
LEMMA TakeCharacterStep == Step(TakeCharacter, LineState, Characters)
<1>1. ASSUME NEW v \in LineState, NEW ch \in Characters
      PROVE  TakeCharacter[v][ch] \in LineState
  <2>1. v.rest \in Seq(Plain) /\ v.seen \in SeenState
    BY DEF LineState
  <2>2. CASE ch = "nl"
    <3>1. TakeCharacter[v][ch] =
            [rest |-> <<>>, seen |-> ShowLine[v.seen][v.rest]]
      BY <2>2, TakeCharacterOne
    <3>2. <<>> \in Seq(Plain) /\ ShowLine[v.seen][v.rest] \in SeenState
      BY <2>1, EmptySequence, ShowLineType
    <3> QED
      BY <3>1, <3>2 DEF LineState
  <2>3. CASE ch # "nl"
    <3>1. TakeCharacter[v][ch] = [rest |-> Append(v.rest, ch), seen |-> v.seen]
      BY <2>3, TakeCharacterOne
    <3>2. ch \in Plain
      BY <2>3 DEF Plain
    <3>3. Append(v.rest, ch) \in Seq(Plain)
      BY <2>1, <3>2, AppendOf
    <3> QED
      BY <2>1, <3>1, <3>3 DEF LineState
  <2> QED
    BY <2>2, <2>3
<1>2. TakeCharacter = [v \in LineState |-> TakeCharacter[v]]
  BY DEF TakeCharacter
<1>3. \A v \in LineState :
        TakeCharacter[v] = [ch \in Characters |-> TakeCharacter[v][ch]]
  BY DEF TakeCharacter
<1> QED
  BY <1>1, <1>2, <1>3 DEF Step

\* The part of a state that characters change.
LineOf(t) == [rest |-> t.rest, seen |-> t.seen]

\* The state of these parts.
With(held, v) == [held |-> held, rest |-> v.rest, seen |-> v.seen]

\* The parts of a state.
LEMMA LineOfType ==
    ASSUME NEW t \in ReadState
    PROVE  LineOf(t) \in LineState /\ t.held \in BOOLEAN
           /\ LineOf(t).rest = t.rest /\ LineOf(t).seen = t.seen
BY DEF LineOf, LineState, ReadState

\* A state has the parts it is made of.
LEMMA WithType ==
    ASSUME NEW held \in BOOLEAN, NEW v \in LineState
    PROVE  /\ With(held, v) \in ReadState
           /\ With(held, v).held = held
           /\ LineOf(With(held, v)) = v
BY DEF With, LineOf, LineState, ReadState

\* What taking a byte comes to.
LEMMA TakeByteOne ==
    ASSUME NEW t \in ReadState, NEW b \in Bytes
    PROVE  TakeByte[t][b] =
             With(DecodedByte(t.held, b).held,
                  Folded(TakeCharacter, LineOf(t), DecodedByte(t.held, b).out))
BY DEF TakeByte, With, LineOf

\* A byte is decoded to the characters out, and half a character or none.
DecodesTo(held, b, h, out) == DecodedByte(held, b) = [held |-> h, out |-> out]

\* Taking a byte takes the characters it is decoded to.
LEMMA TakeByteAs ==
    ASSUME NEW t \in ReadState, NEW b \in Bytes,
           NEW held, NEW l, t.held = held, LineOf(t) = l,
           NEW h, NEW out, DecodesTo(held, b, h, out)
    PROVE  TakeByte[t][b] = With(h, Folded(TakeCharacter, l, out))
<1>1. DecodedByte(t.held, b).held = h /\ DecodedByte(t.held, b).out = out
  BY DEF DecodesTo
<1> QED
  BY <1>1, TakeByteOne

\* Taking a byte keeps the type.
LEMMA TakeByteStep == Step(TakeByte, ReadState, Bytes)
<1>1. ASSUME NEW t \in ReadState, NEW b \in Bytes
      PROVE  TakeByte[t][b] \in ReadState
  <2>1. PICK d \in DecoderState : d = DecodedByte(t.held, b)
    BY DecodedByteType, LineOfType
  <2>2. d.held \in BOOLEAN /\ d.out \in Seq(Characters)
    BY DEF DecoderState
  <2>3. PICK l \in LineState : l = LineOf(t)
    BY LineOfType
  <2>4. PICK v \in LineState : v = Folded(TakeCharacter, l, d.out)
    BY <2>2, TakeCharacterStep, FoldedType
  <2>5. TakeByte[t][b] = With(d.held, v)
    BY <2>1, <2>3, <2>4, TakeByteOne
  <2> QED
    BY <2>2, <2>5, WithType
<1>2. TakeByte = [t \in ReadState |-> TakeByte[t]]
  BY DEF TakeByte
<1>3. \A t \in ReadState : TakeByte[t] = [b \in Bytes |-> TakeByte[t][b]]
  BY DEF TakeByte
<1> QED
  BY <1>1, <1>2, <1>3 DEF Step

\* Characters that are split into lines, which are shown.
LinesShown(v, split) ==
    [rest |-> split.rest, seen |-> Folded(ShowLine, v.seen, split.lines)]

\* Taking characters one by one shows the lines they are split into.
LEMMA CharactersTaken ==
    ASSUME NEW v \in LineState
    PROVE  \A chars \in Seq(Characters) :
              Folded(TakeCharacter, v, chars) =
                LinesShown(v, Folded(SplitAt,
                                     [lines |-> <<>>, rest |-> v.rest],
                                     chars))
<1>1. PICK e \in SplitState : e = [lines |-> <<>>, rest |-> v.rest]
  <2>1. <<>> \in Seq(Seq(Characters)) /\ v.rest \in Seq(Characters)
    BY PlainType, EmptySequence DEF LineState
  <2> QED
    BY <2>1 DEF SplitState
<1> DEFINE P == {chars \in Seq(Characters) :
                    Folded(TakeCharacter, v, chars) =
                      LinesShown(v, Folded(SplitAt, e, chars))}
<1>2. v.seen \in SeenState /\ v.rest \in Seq(Plain)
  BY DEF LineState
<1>3. <<>> \in P
  <2>1. Folded(TakeCharacter, v, <<>>) = v
    BY TakeCharacterStep, FoldedEmpty
  <2>2. Folded(SplitAt, e, <<>>) = e
    BY SplitAtStep, FoldedEmpty
  <2>3. Folded(ShowLine, v.seen, <<>>) = v.seen
    BY <1>2, ShowLineStep, FoldedEmpty
  <2>4. LinesShown(v, e) = [rest |-> v.rest, seen |-> v.seen]
    BY <1>1, <2>3 DEF LinesShown
  <2>5. v = [rest |-> v.rest, seen |-> v.seen]
    BY DEF LineState
  <2>6. <<>> \in Seq(Characters)
    BY EmptySequence
  <2> QED
    BY <2>1, <2>2, <2>4, <2>5, <2>6
<1>4. ASSUME NEW chars \in P, NEW ch \in Characters
      PROVE  Append(chars, ch) \in P
  <2>1. /\ chars \in Seq(Characters)
        /\ Folded(TakeCharacter, v, chars) =
             LinesShown(v, Folded(SplitAt, e, chars))
    BY <1>4
  <2> HIDE DEF P
  <2>2. PICK more \in Seq(Characters) : Extended(more, chars, ch)
    BY <2>1, AppendOf DEF Extended
  <2>3. PICK w \in LineState : w = Folded(TakeCharacter, v, chars)
    BY <2>1, TakeCharacterStep, FoldedType
  <2>4. PICK s \in SplitState : s = Folded(SplitAt, e, chars)
    BY <2>1, SplitAtStep, FoldedType
  <2>5. s.lines \in Seq(Seq(Characters)) /\ s.rest \in Seq(Characters)
    BY DEF SplitState
  <2>6. w.rest = s.rest /\ w.seen = Folded(ShowLine, v.seen, s.lines)
    BY <2>1, <2>3, <2>4 DEF LinesShown
  <2>7. Folded(TakeCharacter, v, more) = TakeCharacter[w][ch]
    BY <2>1, <2>2, <2>3, TakeCharacterStep, FoldedAppend
  <2>8. Folded(SplitAt, e, more) = SplitAt[s][ch]
    BY <2>1, <2>2, <2>4, SplitAtStep, FoldedAppend
  <2>9. TakeCharacter[w][ch] = LinesShown(v, SplitAt[s][ch])
    <3>1. CASE ch = "nl"
      <4>1. PICK l \in Seq(Seq(Characters)) : Extended(l, s.lines, s.rest)
        BY <2>5, AppendOf DEF Extended
      <4>2. Folded(ShowLine, v.seen, l) = ShowLine[w.seen][w.rest]
        BY <1>2, <2>5, <2>6, <4>1, ShowLineStep, FoldedAppend
      <4>3. SplitAt[s][ch] = [lines |-> l, rest |-> <<>>]
        BY <3>1, <4>1, SplitAtOne DEF Extended
      <4>4. TakeCharacter[w][ch] =
              [rest |-> <<>>, seen |-> ShowLine[w.seen][w.rest]]
        BY <3>1, TakeCharacterOne
      <4> QED
        BY <4>2, <4>3, <4>4 DEF LinesShown
    <3>2. CASE ch # "nl"
      <4>1. SplitAt[s][ch] = [lines |-> s.lines, rest |-> Append(s.rest, ch)]
        BY <3>2, SplitAtOne
      <4>2. TakeCharacter[w][ch] =
              [rest |-> Append(w.rest, ch), seen |-> w.seen]
        BY <3>2, TakeCharacterOne
      <4> QED
        BY <2>6, <4>1, <4>2 DEF LinesShown
    <3> QED
      BY <3>1, <3>2
  <2>10. Folded(TakeCharacter, v, more) =
           LinesShown(v, Folded(SplitAt, e, more))
    BY <2>7, <2>8, <2>9
  <2> QED
    BY <2>2, <2>10 DEF P, Extended
<1>5. P \in SUBSET Seq(Characters)
  OBVIOUS
<1> HIDE DEF P
<1>6. P = Seq(Characters)
  BY <1>3, <1>4, <1>5, SequenceInduction
<1> QED
  BY <1>1, <1>6 DEF P

\* Splitting characters that hold no line feed.
LEMMA PlainSplit ==
    \A line \in Seq(Plain) : SplitLines(line) = [lines |-> <<>>, rest |-> line]
<1>1. PICK e \in SplitState : e = [lines |-> <<>>, rest |-> <<>>]
  BY EmptySequence DEF SplitState
<1> DEFINE P == {line \in Seq(Plain) :
                    Folded(SplitAt, e, line) = [lines |-> <<>>, rest |-> line]}
<1>2. <<>> \in P
  <2>1. Folded(SplitAt, e, <<>>) = e
    BY SplitAtStep, FoldedEmpty
  <2>2. <<>> \in Seq(Plain)
    BY EmptySequence
  <2> QED
    BY <1>1, <2>1, <2>2
<1>3. ASSUME NEW line \in P, NEW ch \in Plain PROVE Append(line, ch) \in P
  <2>1. /\ line \in Seq(Plain)
        /\ Folded(SplitAt, e, line) = [lines |-> <<>>, rest |-> line]
    BY <1>3
  <2> HIDE DEF P
  <2>2. PICK more \in Seq(Plain) : Extended(more, line, ch)
    BY <2>1, AppendOf DEF Extended
  <2>3. PICK s \in SplitState : s = Folded(SplitAt, e, line)
    BY <2>1, PlainType, SplitAtStep, FoldedType
  <2>4. ch \in Characters /\ ch # "nl"
    BY DEF Plain
  <2>5. more \in Seq(Characters) /\ line \in Seq(Characters)
    BY <2>1, PlainType
  <2>6. Folded(SplitAt, e, more) = SplitAt[s][ch]
    BY <2>2, <2>3, <2>4, <2>5, SplitAtStep, FoldedAppend
  <2>7. SplitAt[s][ch] = [lines |-> s.lines, rest |-> Append(s.rest, ch)]
    BY <2>4, SplitAtOne
  <2>8. s.lines = <<>> /\ s.rest = line
    BY <2>1, <2>3
  <2>9. Folded(SplitAt, e, more) = [lines |-> <<>>, rest |-> more]
    BY <2>2, <2>6, <2>7, <2>8 DEF Extended
  <2> QED
    BY <2>2, <2>9 DEF P, Extended
<1>4. P \in SUBSET Seq(Plain)
  OBVIOUS
<1> HIDE DEF P
<1>5. P = Seq(Plain)
  BY <1>2, <1>3, <1>4, SequenceInduction
<1> QED
  BY <1>1, <1>5 DEF P, SplitLines

\* Taking bytes one by one takes the characters they are decoded to.
LEMMA BytesTaken ==
    ASSUME NEW t \in ReadState
    PROVE  \A bytes \in Seq(Bytes) :
              /\ Decode(t.held, bytes) \in DecoderState
              /\ Folded(TakeByte, t, bytes) =
                   With(Decode(t.held, bytes).held,
                        Folded(TakeCharacter, LineOf(t),
                               Decode(t.held, bytes).out))
<1>1. PICK e \in DecoderState : e = [held |-> t.held, out |-> <<>>]
  BY EmptySequence DEF ReadState, DecoderState
<1>2. PICK l \in LineState : l = LineOf(t)
  BY LineOfType
<1> DEFINE P == {bytes \in Seq(Bytes) :
                    Folded(TakeByte, t, bytes) =
                      With(Folded(DecodeByte, e, bytes).held,
                           Folded(TakeCharacter, l,
                                  Folded(DecodeByte, e, bytes).out))}
<1>3. <<>> \in P
  <2>1. Folded(TakeByte, t, <<>>) = t
    BY TakeByteStep, FoldedEmpty
  <2>2. Folded(DecodeByte, e, <<>>) = e
    BY DecodeByteStep, FoldedEmpty
  <2>3. Folded(TakeCharacter, l, <<>>) = l
    BY TakeCharacterStep, FoldedEmpty
  <2>4. e.held = t.held /\ e.out = <<>>
    BY <1>1
  <2>5. With(t.held, l) = t
    BY <1>2 DEF With, LineOf, ReadState
  <2>6. <<>> \in Seq(Bytes)
    BY EmptySequence
  <2> QED
    BY <2>1, <2>2, <2>3, <2>4, <2>5, <2>6
<1>4. ASSUME NEW bytes \in P, NEW b \in Bytes PROVE Append(bytes, b) \in P
  <2>1. /\ bytes \in Seq(Bytes)
        /\ Folded(TakeByte, t, bytes) =
             With(Folded(DecodeByte, e, bytes).held,
                  Folded(TakeCharacter, l, Folded(DecodeByte, e, bytes).out))
    BY <1>4
  <2> HIDE DEF P
  <2>2. PICK more \in Seq(Bytes) : Extended(more, bytes, b)
    BY <2>1, AppendOf DEF Extended
  <2>3. PICK d \in DecoderState : d = Folded(DecodeByte, e, bytes)
    BY <2>1, DecodeByteStep, FoldedType
  <2>4. d.held \in BOOLEAN /\ d.out \in Seq(Characters)
    BY DEF DecoderState
  <2>5. PICK v \in LineState : v = Folded(TakeCharacter, l, d.out)
    BY <2>4, TakeCharacterStep, FoldedType
  <2>6. PICK u \in ReadState : u = Folded(TakeByte, t, bytes)
    BY <2>1, TakeByteStep, FoldedType
  <2>7. u.held = d.held /\ LineOf(u) = v
    BY <2>1, <2>3, <2>4, <2>5, <2>6, WithType
  <2>8. Folded(TakeByte, t, more) = TakeByte[u][b]
    BY <2>1, <2>2, <2>6, TakeByteStep, FoldedAppend
  <2>9. Folded(DecodeByte, e, more) = DecodeByte[d][b]
    BY <2>1, <2>2, <2>3, DecodeByteStep, FoldedAppend
  <2>10. PICK n \in DecoderState : n = DecodedByte(d.held, b)
    BY <2>4, DecodedByteType
  <2>11. n.held \in BOOLEAN /\ n.out \in Seq(Characters)
    BY DEF DecoderState
  <2>12. DecodeByte[d][b] = [held |-> n.held, out |-> d.out \o n.out]
    BY <2>10, DecodeByteAdds
  <2>13. TakeByte[u][b] = With(n.held, Folded(TakeCharacter, v, n.out))
    BY <2>7, <2>10, TakeByteOne
  <2>14. Folded(TakeCharacter, l, d.out \o n.out) =
           Folded(TakeCharacter, v, n.out)
    BY <2>4, <2>5, <2>11, TakeCharacterStep, FoldedConcat
  <2>15. Folded(TakeByte, t, more) =
           With(Folded(DecodeByte, e, more).held,
                Folded(TakeCharacter, l, Folded(DecodeByte, e, more).out))
    BY <2>8, <2>9, <2>12, <2>13, <2>14
  <2> QED
    BY <2>2, <2>15 DEF P, Extended
<1>5. P \in SUBSET Seq(Bytes)
  OBVIOUS
<1> HIDE DEF P
<1>6. P = Seq(Bytes)
  BY <1>3, <1>4, <1>5, SequenceInduction
<1>7. ASSUME NEW bytes \in Seq(Bytes)
      PROVE  /\ Decode(t.held, bytes) = Folded(DecodeByte, e, bytes)
             /\ Folded(DecodeByte, e, bytes) \in DecoderState
  <2>1. Folded(DecodeByte, e, bytes) \in DecoderState
    BY DecodeByteStep, FoldedType
  <2> QED
    BY <1>1, <2>1 DEF Decode
<1> QED
  BY <1>2, <1>6, <1>7 DEF P

\* However an answer is cut into chunks, reading a chunk is taking its bytes
\* one by one: decoding, splitting and showing them leaves the same half
\* character, the same incomplete line and the same text shown (the loop of
\* readSseDeltas and its TextDecoder).
THEOREM ChunksDoNotMatter ==
    ASSUME NEW t \in ReadState, NEW bytes \in Seq(Bytes)
    PROVE  ChunkRead(t, bytes) = Folded(TakeByte, t, bytes)
<1>1. PICK d \in DecoderState : d = Decode(t.held, bytes)
  BY BytesTaken
<1>2. d.held \in BOOLEAN /\ d.out \in Seq(Characters)
  BY DEF DecoderState
<1>3. t.rest \in Seq(Plain) /\ t.rest \in Seq(Characters)
  BY PlainType DEF ReadState
<1>4. PICK e \in SplitState : e = [lines |-> <<>>, rest |-> <<>>]
  BY EmptySequence DEF SplitState
<1>5. PICK f \in SplitState : f = [lines |-> <<>>, rest |-> t.rest]
  BY <1>3, EmptySequence DEF SplitState
<1>6. Folded(SplitAt, e, t.rest) = f
  BY <1>3, <1>4, <1>5, PlainSplit DEF SplitLines
<1>7. Folded(SplitAt, e, t.rest \o d.out) = Folded(SplitAt, f, d.out)
  BY <1>2, <1>3, <1>6, SplitAtStep, FoldedConcat
<1>8. PICK l \in LineState : l = LineOf(t)
  BY LineOfType
<1>9. l.rest = t.rest /\ l.seen = t.seen
  BY <1>8, LineOfType
<1>10. Folded(TakeCharacter, l, d.out) =
         LinesShown(l, Folded(SplitAt, f, d.out))
  BY <1>2, <1>5, <1>9, CharactersTaken
<1>11. Folded(TakeByte, t, bytes) =
         With(d.held, Folded(TakeCharacter, l, d.out))
  BY <1>1, <1>8, BytesTaken
<1>12. PICK s : s = Folded(SplitAt, f, d.out)
  OBVIOUS
<1>13. SplitLines(t.rest \o d.out) = s
  BY <1>4, <1>7, <1>12 DEF SplitLines
<1>14. ChunkRead(t, bytes) =
         [held |-> d.held, rest |-> s.rest,
          seen |-> Folded(ShowLine, t.seen, s.lines)]
  BY <1>1, <1>13 DEF ChunkRead
<1>15. With(d.held, LinesShown(l, s)) =
         [held |-> d.held, rest |-> s.rest,
          seen |-> Folded(ShowLine, t.seen, s.lines)]
  BY <1>9 DEF With, LinesShown
<1> QED
  BY <1>10, <1>11, <1>12, <1>14, <1>15

-----------------------------------------------------------------------------
(* The bytes of one event                                                  *)

\* What encoding a character comes to.
LEMMA EncodeCharacterOne ==
    ASSUME NEW bytes \in Seq(Bytes), NEW ch \in Text
    PROVE  EncodeCharacter[bytes][ch] =
             bytes \o IF ch = "u" THEN <<"h1", "h2">> ELSE <<ch>>
BY DEF EncodeCharacter

\* The bytes of a character.
CharacterBytes(ch) == IF ch = "u" THEN <<"h1", "h2">> ELSE <<ch>>

\* These are bytes.
LEMMA SomeBytes ==
    /\ "h1" \in Bytes /\ "h2" \in Bytes /\ "nl" \in Bytes /\ ":" \in Bytes
    /\ "a" \in Bytes /\ "data:" \in Bytes /\ "}" \in Bytes /\ "done" \in Bytes
    /\ Reasons \subseteq Bytes /\ \A ch \in Text : ch # "u" => ch = "a"
BY DEF Bytes, Reasons, Text

\* The bytes of a character are bytes.
LEMMA CharacterBytesType ==
    ASSUME NEW ch \in Text
    PROVE  CharacterBytes(ch) \in Seq(Bytes)
<1>1. <<"h1", "h2">> \in Seq(Bytes)
  BY SomeBytes, TwoElements
<1>2. <<"a">> \in Seq(Bytes)
  BY SomeBytes, OneElement
<1>3. ch # "u" => ch = "a"
  BY SomeBytes
<1> QED
  BY <1>1, <1>2, <1>3 DEF CharacterBytes

\* Encoding makes bytes of bytes and a character.
LEMMA EncodeCharacterStep == Step(EncodeCharacter, Seq(Bytes), Text)
<1>1. ASSUME NEW bytes \in Seq(Bytes), NEW ch \in Text
      PROVE  EncodeCharacter[bytes][ch] \in Seq(Bytes)
  <2>1. EncodeCharacter[bytes][ch] = bytes \o CharacterBytes(ch)
    BY EncodeCharacterOne DEF CharacterBytes
  <2>2. bytes \o CharacterBytes(ch) \in Seq(Bytes)
    BY CharacterBytesType, ConcatOf
  <2> QED
    BY <2>1, <2>2
<1>2. EncodeCharacter = [bytes \in Seq(Bytes) |-> EncodeCharacter[bytes]]
  BY DEF EncodeCharacter
<1>3. \A bytes \in Seq(Bytes) :
        EncodeCharacter[bytes] = [ch \in Text |-> EncodeCharacter[bytes][ch]]
  BY DEF EncodeCharacter
<1> QED
  BY <1>1, <1>2, <1>3 DEF Step

\* What taking a byte does to a state that holds no half character: a line
\* feed shows the line, a plain byte joins it.
State(held, rest, seen) == [held |-> held, rest |-> rest, seen |-> seen]

\* A state of these parts, and its line.
LEMMA StateType ==
    ASSUME NEW held \in BOOLEAN, NEW rest \in Seq(Plain),
           NEW seen \in SeenState
    PROVE  /\ State(held, rest, seen) \in ReadState
           /\ State(held, rest, seen).held = held
           /\ LineOf(State(held, rest, seen)) = [rest |-> rest, seen |-> seen]
           /\ [rest |-> rest, seen |-> seen] \in LineState
BY DEF State, ReadState, LineOf, LineState

\* A byte that is decoded to one character which ends no line adds it.
LEMMA TakeOneCharacter ==
    ASSUME NEW held \in BOOLEAN, NEW rest \in Seq(Plain),
           NEW seen \in SeenState,
           NEW b \in Bytes, NEW h \in BOOLEAN, NEW ch \in Plain,
           DecodedByte(held, b) = [held |-> h, out |-> <<ch>>]
    PROVE  TakeByte[State(held, rest, seen)][b] =
             State(h, Append(rest, ch), seen)
<1>1. PICK t \in ReadState : t = State(held, rest, seen)
  BY StateType
<1>2. PICK l \in LineState : l = [rest |-> rest, seen |-> seen]
  BY StateType
<1>3. t.held = held /\ LineOf(t) = l
  BY <1>1, <1>2, StateType
<1>4. TakeByte[t][b] = With(h, Folded(TakeCharacter, l, <<ch>>))
  BY <1>3, TakeByteOne
<1>5. ch \in Characters /\ ch # "nl"
  BY DEF Plain
<1>6. Folded(TakeCharacter, l, <<ch>>) = TakeCharacter[l][ch]
  BY <1>5, TakeCharacterStep, FoldedOne
<1>7. TakeCharacter[l][ch] = [rest |-> Append(l.rest, ch), seen |-> l.seen]
  BY <1>5, TakeCharacterOne
<1>8. With(h, TakeCharacter[l][ch]) = State(h, Append(rest, ch), seen)
  BY <1>2, <1>7 DEF With, State
<1> QED
  BY <1>1, <1>4, <1>6, <1>8

\* A byte that stands for itself adds itself to the line.
LEMMA TakePlain ==
    ASSUME NEW rest \in Seq(Plain), NEW seen \in SeenState, NEW b \in Bytes,
           b # "h1", b # "h2", b # "nl"
    PROVE  TakeByte[State(FALSE, rest, seen)][b] =
             State(FALSE, Append(rest, b), seen)
<1>1. DecodedByte(FALSE, b) = [held |-> FALSE, out |-> <<b>>]
  BY DEF DecodedByte
<1>2. b \in Plain
  BY PlainCharacters DEF Plain
<1> QED
  BY <1>1, <1>2, TakeOneCharacter

\* The start of a character is held.
LEMMA TakeHalf ==
    ASSUME NEW rest \in Seq(Plain), NEW seen \in SeenState
    PROVE  TakeByte[State(FALSE, rest, seen)]["h1"] = State(TRUE, rest, seen)
<1>1. PICK t \in ReadState : t = State(FALSE, rest, seen)
  BY StateType
<1>2. PICK l \in LineState : l = [rest |-> rest, seen |-> seen]
  BY StateType
<1>3. t.held = FALSE /\ LineOf(t) = l
  BY <1>1, <1>2, StateType
<1>4. TakeByte[t]["h1"] = With(TRUE, Folded(TakeCharacter, l, <<>>))
  <2>1. PICK b \in Bytes : b = "h1"
    BY SomeBytes
  <2>2. TakeByte[t][b] =
          With(DecodedByte(t.held, b).held,
               Folded(TakeCharacter, LineOf(t), DecodedByte(t.held, b).out))
    BY TakeByteOne
  <2>3. DecodedByte(t.held, b).held = TRUE /\ DecodedByte(t.held, b).out = <<>>
    BY <1>3, <2>1 DEF DecodedByte
  <2>4. TakeByte[t][b] = With(TRUE, Folded(TakeCharacter, l, <<>>))
    BY <1>3, <2>2, <2>3, Zenon
  <2> QED
    BY <2>1, <2>4
<1>5. Folded(TakeCharacter, l, <<>>) = l
  BY TakeCharacterStep, FoldedEmpty
<1>6. With(TRUE, l) = State(TRUE, rest, seen)
  BY <1>2 DEF With, State
<1> QED
  BY <1>1, <1>4, <1>5, <1>6

\* A whole character joins the line, however many bytes it has.
LEMMA TakeCharacterBytes ==
    ASSUME NEW rest \in Seq(Plain), NEW seen \in SeenState, NEW ch \in Text
    PROVE  Folded(TakeByte, State(FALSE, rest, seen), CharacterBytes(ch)) =
             State(FALSE, Append(rest, ch), seen)
<1>1. PICK t \in ReadState : t = State(FALSE, rest, seen)
  BY StateType
<1>2. CASE ch = "u"
  <2>1. PICK b \in Bytes, c \in Bytes : b = "h1" /\ c = "h2"
    BY SomeBytes
  <2>2. PICK o \in Seq(Bytes), p \in Seq(Bytes) : o = <<b>> /\ p = <<c>>
    BY OneElement
  <2>3. CharacterBytes(ch) = o \o p
    BY <1>2, <2>1, <2>2, TwoElements DEF CharacterBytes
  <2>4. Folded(TakeByte, t, o \o p) =
          Folded(TakeByte, Folded(TakeByte, t, o), p)
    BY TakeByteStep, FoldedConcat
  <2>5. PICK u \in ReadState : u = State(TRUE, rest, seen)
    BY StateType
  <2>6. Folded(TakeByte, t, o) = u
    <3>1. Folded(TakeByte, t, <<b>>) = TakeByte[t][b]
      BY TakeByteStep, FoldedOne
    <3>2. TakeByte[t][b] = State(TRUE, rest, seen)
      BY <1>1, <2>1, TakeHalf
    <3> QED
      BY <2>2, <2>5, <3>1, <3>2
  <2>7. Folded(TakeByte, u, <<c>>) = TakeByte[u][c]
    BY TakeByteStep, FoldedOne
  <2>8. TakeByte[u][c] = State(FALSE, Append(rest, "u"), seen)
    <3>1. DecodedByte(TRUE, c) = [held |-> FALSE, out |-> <<"u">>]
      BY <2>1 DEF DecodedByte
    <3>2. PICK x \in Plain : x = "u"
      BY PlainType
    <3>3. TakeByte[State(TRUE, rest, seen)][c] =
            State(FALSE, Append(rest, x), seen)
      BY <3>1, <3>2, TakeOneCharacter
    <3> QED
      BY <2>5, <3>2, <3>3
  <2> QED
    BY <1>1, <1>2, <2>2, <2>3, <2>4, <2>6, <2>7, <2>8
<1>3. CASE ch # "u"
  <2>1. ch = "a" /\ CharacterBytes(ch) = <<ch>>
    BY <1>3, SomeBytes DEF CharacterBytes
  <2>2. ch \in Bytes /\ ch # "h1" /\ ch # "h2" /\ ch # "nl"
    BY <2>1, SomeBytes
  <2>3. Folded(TakeByte, t, <<ch>>) = TakeByte[t][ch]
    BY <2>2, TakeByteStep, FoldedOne
  <2> QED
    BY <1>1, <2>1, <2>2, <2>3, TakePlain
<1> QED
  BY <1>2, <1>3

\* The bytes of a text join the line as its characters.
LEMMA TakeContent ==
    ASSUME NEW start \in Seq(Bytes), NEW t \in ReadState,
           NEW rest \in Seq(Plain), NEW seen \in SeenState,
           Folded(TakeByte, t, start) = State(FALSE, rest, seen)
    PROVE  \A content \in Seq(Text) :
              /\ rest \o content \in Seq(Plain)
              /\ Folded(EncodeCharacter, start, content) \in Seq(Bytes)
              /\ Folded(TakeByte, t, Folded(EncodeCharacter, start, content)) =
                   State(FALSE, rest \o content, seen)
<1> DEFINE P == {content \in Seq(Text) :
                    Folded(TakeByte, t, Folded(EncodeCharacter, start, content))
                      = State(FALSE, rest \o content, seen)}
<1>1. ASSUME NEW content \in Seq(Text)
      PROVE  /\ content \in Seq(Plain) /\ rest \o content \in Seq(Plain)
             /\ Folded(EncodeCharacter, start, content) \in Seq(Bytes)
  <2>1. content \in Seq(Plain)
    <3>1. Text \subseteq Plain
      BY PlainType
    <3> HIDE DEF P
    <3> QED
      BY <3>1
  <2>2. Folded(EncodeCharacter, start, content) \in Seq(Bytes)
    BY EncodeCharacterStep, FoldedType
  <2> QED
    BY <2>1, <2>2, ConcatOf
<1>2. <<>> \in P
  <2>1. Folded(EncodeCharacter, start, <<>>) = start
    BY EncodeCharacterStep, FoldedEmpty
  <2>2. rest \o <<>> = rest /\ <<>> \in Seq(Text)
    BY ConcatEmpty, EmptySequence
  <2> QED
    BY <2>1, <2>2
<1>3. ASSUME NEW content \in P, NEW ch \in Text PROVE Append(content, ch) \in P
  <2>1. /\ content \in Seq(Text)
        /\ Folded(TakeByte, t, Folded(EncodeCharacter, start, content))
             = State(FALSE, rest \o content, seen)
    BY <1>3
  <2> HIDE DEF P
  <2>2. PICK more \in Seq(Text) : Extended(more, content, ch)
    BY <2>1, AppendOf DEF Extended
  <2>3. PICK bytes \in Seq(Bytes) :
              bytes = Folded(EncodeCharacter, start, content)
    BY <1>1, <2>1
  <2>4. Folded(EncodeCharacter, start, more) = EncodeCharacter[bytes][ch]
    BY <2>1, <2>2, <2>3, EncodeCharacterStep, FoldedAppend
  <2>5. EncodeCharacter[bytes][ch] = bytes \o CharacterBytes(ch)
    BY EncodeCharacterOne DEF CharacterBytes
  <2>6. PICK line \in Seq(Plain) : line = rest \o content
    BY <1>1, <2>1
  <2>7. PICK u \in ReadState : u = State(FALSE, line, seen)
    BY StateType
  <2>8. Folded(TakeByte, t, bytes) = u
    BY <2>1, <2>3, <2>6, <2>7
  <2>9. Folded(TakeByte, t, bytes \o CharacterBytes(ch)) =
          Folded(TakeByte, u, CharacterBytes(ch))
    BY <2>8, CharacterBytesType, TakeByteStep, FoldedConcat
  <2>10. Folded(TakeByte, u, CharacterBytes(ch)) =
           State(FALSE, Append(line, ch), seen)
    BY <2>7, TakeCharacterBytes
  <2>11. Append(line, ch) = rest \o more
    <3>1. content \in Seq(Plain) /\ ch \in Plain
      BY <1>1, <2>1, PlainType
    <3> QED
      BY <2>2, <2>6, <3>1, ConcatAppend DEF Extended
  <2>12. Folded(TakeByte, t, Folded(EncodeCharacter, start, more)) =
           State(FALSE, rest \o more, seen)
    BY <2>4, <2>5, <2>9, <2>10, <2>11
  <2> QED
    BY <2>2, <2>12 DEF P, Extended
<1>4. P \in SUBSET Seq(Text)
  OBVIOUS
<1> HIDE DEF P
<1>5. P = Seq(Text)
  BY <1>2, <1>3, <1>4, SequenceInduction
<1> QED
  BY <1>1, <1>5 DEF P

\* Picking all of a sequence, or none of it.
LEMMA PickAll ==
    ASSUME NEW S, NEW a \in Seq(Characters)
    PROVE  \A s \in Seq(Characters \cap S) : Folded(Pick(S), a, s) = a \o s
<1> DEFINE T == Characters \cap S
           P == {s \in Seq(T) : Folded(Pick(S), a, s) = a \o s}
<1>1. \A s \in Seq(T) : s \in Seq(Characters)
  OBVIOUS
<1>2. Step(Pick(S), Seq(Characters), Characters)
  BY PickStep
<1>3. <<>> \in P
  <2>1. Folded(Pick(S), a, <<>>) = a
    BY PickStep, FoldedEmpty
  <2> QED
    BY <2>1, ConcatEmpty, EmptySequence
<1>4. ASSUME NEW s \in P, NEW x \in T PROVE Append(s, x) \in P
  <2>1. /\ s \in Seq(T) /\ s \in Seq(Characters)
        /\ Folded(Pick(S), a, s) = a \o s
        /\ x \in Characters /\ x \in S
    BY <1>1, <1>4
  <2> HIDE DEF P, T
  <2>2. PICK more \in Seq(T) : Extended(more, s, x)
    BY <2>1, AppendOf DEF Extended
  <2>3. more \in Seq(Characters)
    BY <1>1
  <2>4. PICK r \in Seq(Characters) : r = Folded(Pick(S), a, s)
    BY <2>1, PickStep, FoldedType
  <2>5. Folded(Pick(S), a, more) = Pick(S)[r][x]
    <3>1. s \in Seq(Characters) /\ x \in Characters
      BY <2>1
    <3> QED
      BY <1>2, <2>2, <2>3, <2>4, <3>1, FoldedAppend
  <2>6. Pick(S)[r][x] = Append(r, x)
    BY <2>1, PickOne
  <2>7. Extended(a \o more, r, x)
    <3>1. PICK q \in Seq(Characters), y \in Characters : q = s /\ y = x
      BY <2>1
    <3>2. Extended(a \o more, a \o q, y)
      BY <2>2, <2>3, <3>1, ConcatExtended
    <3> QED
      BY <2>1, <2>4, <3>1, <3>2
  <2>8. Folded(Pick(S), a, more) = a \o more
    BY <2>1, <2>2, <2>4, <2>5, <2>6, <2>7 DEF Extended
  <2> QED
    BY <2>2, <2>8 DEF P, Extended
<1>5. P \in SUBSET Seq(T)
  OBVIOUS
<1> HIDE DEF P, T
<1>6. P = Seq(T)
  BY <1>3, <1>4, <1>5, SequenceInduction
<1> QED
  BY <1>6 DEF P, T

\* Picking from characters that are all outside adds nothing.
LEMMA PickNone ==
    ASSUME NEW S, NEW a \in Seq(Characters)
    PROVE  \A s \in Seq(Characters \ S) : Folded(Pick(S), a, s) = a
<1> DEFINE T == Characters \ S
           P == {s \in Seq(T) : Folded(Pick(S), a, s) = a}
<1>1. \A s \in Seq(T) : s \in Seq(Characters)
  OBVIOUS
<1>2. Step(Pick(S), Seq(Characters), Characters)
  BY PickStep
<1>3. <<>> \in P
  <2>1. Folded(Pick(S), a, <<>>) = a
    BY PickStep, FoldedEmpty
  <2> QED
    BY <2>1, EmptySequence
<1>4. ASSUME NEW s \in P, NEW x \in T PROVE Append(s, x) \in P
  <2>1. /\ s \in Seq(T) /\ s \in Seq(Characters)
        /\ Folded(Pick(S), a, s) = a
        /\ x \in Characters /\ x \notin S
    BY <1>1, <1>4
  <2> HIDE DEF P, T
  <2>2. PICK more \in Seq(T) : Extended(more, s, x)
    BY <2>1, AppendOf DEF Extended
  <2>3. more \in Seq(Characters)
    BY <1>1
  <2>4. Folded(Pick(S), a, more) = Pick(S)[a][x]
    BY <2>1, <2>2, <2>3, PickStep, FoldedAppend
  <2>5. Folded(Pick(S), a, more) = a
    BY <2>1, <2>4, PickOne
  <2> QED
    BY <2>2, <2>5 DEF P, Extended
<1>5. P \in SUBSET Seq(T)
  OBVIOUS
<1> HIDE DEF P, T
<1>6. P = Seq(T)
  BY <1>3, <1>4, <1>5, SequenceInduction
<1> QED
  BY <1>6 DEF P, T

\* What is picked from four sequences, one behind the other.
Picks(S, a, s, b) == Folded(Pick(S), a, s) = b

\* Picking from two parts, one behind the other.
LEMMA PickTwo ==
    ASSUME NEW S, NEW s \in Seq(Characters), NEW u \in Seq(Characters),
           NEW t \in Seq(Characters), Joined(t, s, u),
           NEW a \in Seq(Characters), NEW b \in Seq(Characters),
           NEW c \in Seq(Characters), Picks(S, a, s, b), Picks(S, b, u, c)
    PROVE  Picks(S, a, t, c)
<1>1. Step(Pick(S), Seq(Characters), Characters)
  BY PickStep
<1>2. Folded(Pick(S), a, s \o u) = Folded(Pick(S), Folded(Pick(S), a, s), u)
  BY <1>1, FoldedConcat
<1> QED
  BY <1>2 DEF Picks, Joined

\* Picking from four parts.
LEMMA PickFour ==
    ASSUME NEW S, NEW s1 \in Seq(Characters), NEW s2 \in Seq(Characters),
           NEW s3 \in Seq(Characters), NEW s4 \in Seq(Characters),
           NEW t \in Seq(Characters), NEW u \in Seq(Characters),
           NEW line \in Seq(Characters),
           Joined(t, s1, s2), Joined(u, t, s3), Joined(line, u, s4),
           NEW e \in Seq(Characters),
           NEW a \in Seq(Characters), NEW b \in Seq(Characters),
           NEW c \in Seq(Characters), NEW d \in Seq(Characters),
           Picks(S, e, s1, a), Picks(S, a, s2, b),
           Picks(S, b, s3, c), Picks(S, c, s4, d)
    PROVE  Picks(S, e, line, d)
<1>1. Picks(S, e, t, b)
  BY PickTwo
<1>2. Picks(S, e, u, c)
  BY <1>1, PickTwo
<1> QED
  BY <1>2, PickTwo

\* The line of a delta.
DeltaLine(content, reason) ==
    ((<<"data:">> \o content) \o reason) \o <<"}">>

\* No reason or one is a sequence of reasons.
LEMMA ReasonType ==
    ASSUME NEW reason \in {<<>>} \cup {<<r>> : r \in Reasons}
    PROVE  reason \in Seq(Reasons)
BY EmptySequence, OneElement

\* The line of a delta is read as its content and its reason.
LEMMA DeltaLineRead ==
    ASSUME NEW content \in Seq(Text), NEW reason \in Seq(Reasons)
    PROVE  /\ DeltaLine(content, reason) \in Seq(Plain)
           /\ IsDelta(DeltaLine(content, reason))
           /\ ~IsDone(DeltaLine(content, reason))
           /\ Content(DeltaLine(content, reason)) = content
           /\ Reason(DeltaLine(content, reason)) = reason
<1>1. PICK s \in Seq(Plain), e \in Seq(Plain) : s = <<"data:">> /\ e = <<"}">>
  <2>1. "data:" \in Plain /\ "}" \in Plain
    BY PlainType
  <2> QED
    BY <2>1, OneElement
<1>2. content \in Seq(Plain) /\ reason \in Seq(Plain)
  <2>1. Text \subseteq Plain /\ Reasons \subseteq Plain
    BY PlainType
  <2> QED
    BY <2>1
<1>3. PICK t \in Seq(Plain) : t = s \o content
  BY <1>2, ConcatOf
<1>4. PICK u \in Seq(Plain) : u = t \o reason
  BY <1>2, ConcatOf
<1>5. PICK line \in Seq(Plain) : line = u \o e
  BY ConcatOf
<1>6. line = DeltaLine(content, reason)
  BY <1>1, <1>3, <1>4, <1>5 DEF DeltaLine
<1>7. Joined(t, s, content) /\ Joined(u, t, reason) /\ Joined(line, u, e)
  BY <1>3, <1>4, <1>5 DEF Joined
<1>8. IsDelta(line)
  <2>1. Len(s) = 1 /\ s[1] = "data:"
    BY <1>1
  <2>2. Len(t) >= 1 /\ t[1] = "data:"
    BY <1>2, <1>7, <2>1, ConcatStart
  <2>3. Len(u) >= 1 /\ u[1] = "data:"
    BY <1>2, <1>7, <2>2, ConcatStart
  <2>4. PICK x \in Plain : x = "}"
    BY PlainType
  <2>5. line = Append(u, x)
    BY <1>1, <1>5, <2>4, AppendIsConcat
  <2>6. Len(line) >= 2 /\ Head(line) = "data:" /\ Last(line) = x
    BY <2>3, <2>5, AppendEnds
  <2> QED
    BY <2>4, <2>6 DEF IsDelta
<1>9. ~IsDone(line)
  BY <1>8, DoneIsNoDelta
<1>10. /\ s \in Seq(Characters) /\ content \in Seq(Characters)
      /\ reason \in Seq(Characters) /\ e \in Seq(Characters)
      /\ t \in Seq(Characters) /\ u \in Seq(Characters)
      /\ line \in Seq(Characters)
  BY <1>2, PlainType
<1>11. PICK n \in Seq(Characters) : n = <<>>
  BY EmptySequence
<1>12. Content(line) = content
  <2> DEFINE S == Text \cup {"?"}
  <2>1. s \in Seq(Characters \ S) /\ e \in Seq(Characters \ S)
    <3>1. "data:" \in Characters \ S /\ "}" \in Characters \ S
      BY DEF Characters, Bytes, Text
    <3> HIDE DEF S
    <3> QED
      BY <1>1, <3>1, OneElement
  <2>2. content \in Seq(Characters \cap S)
    <3>1. Text \subseteq Characters \cap S
      BY OtherCharacters
    <3> HIDE DEF S
    <3> QED
      BY <3>1
  <2>3. reason \in Seq(Characters \ S)
    <3>1. Reasons \subseteq Characters \ S
      BY DEF Characters, Bytes, Text, Reasons
    <3> HIDE DEF S
    <3> QED
      BY <3>1
  <2>4. Content(line) = Picked(line, S)
    BY DEF Content
  <2> HIDE DEF S
  <2>5. Picks(S, n, s, n)
    BY <2>1, PickNone DEF Picks
  <2>6. Picks(S, n, content, content)
    <3>1. Folded(Pick(S), n, content) = n \o content
      BY <2>2, PickAll
    <3>2. n \o content = content
      BY <1>11, ConcatEmpty
    <3> QED
      BY <3>1, <3>2 DEF Picks
  <2>7. Picks(S, content, reason, content)
    BY <1>10, <2>3, PickNone DEF Picks
  <2>8. Picks(S, content, e, content)
    BY <1>10, <2>1, PickNone DEF Picks
  <2>9. Picks(S, n, line, content)
    BY <1>10, <1>7, <2>5, <2>6, <2>7, <2>8, PickFour
  <2> QED
    BY <1>11, <2>4, <2>9 DEF Picks, Picked
<1>13. Reason(line) = reason
  <2> DEFINE S == Reasons
  <2>1. s \in Seq(Characters \ S) /\ e \in Seq(Characters \ S)
    <3>1. "data:" \in Characters \ S /\ "}" \in Characters \ S
      BY DEF Characters, Bytes, Reasons
    <3> HIDE DEF S
    <3> QED
      BY <1>1, <3>1, OneElement
  <2>2. content \in Seq(Characters \ S)
    <3>1. Text \subseteq Characters \ S
      BY DEF Characters, Bytes, Text, Reasons
    <3> HIDE DEF S
    <3> QED
      BY <3>1
  <2>3. reason \in Seq(Characters \cap S)
    <3>1. Reasons \subseteq Characters \cap S
      BY OtherCharacters
    <3> QED
      BY <3>1
  <2>4. Reason(line) = Picked(line, S)
    BY DEF Reason
  <2> HIDE DEF S
  <2>5. Picks(S, n, s, n)
    BY <2>1, PickNone DEF Picks
  <2>6. Picks(S, n, content, n)
    BY <2>2, PickNone DEF Picks
  <2>7. Picks(S, n, reason, reason)
    <3>1. Folded(Pick(S), n, reason) = n \o reason
      BY <2>3, PickAll
    <3>2. n \o reason = reason
      BY <1>11, ConcatEmpty
    <3> QED
      BY <3>1, <3>2 DEF Picks
  <2>8. Picks(S, reason, e, reason)
    BY <1>10, <2>1, PickNone DEF Picks
  <2>9. Picks(S, n, line, reason)
    BY <1>10, <1>7, <2>5, <2>6, <2>7, <2>8, PickFour
  <2> QED
    BY <1>11, <2>4, <2>9 DEF Picks, Picked
<1> QED
  BY <1>6, <1>8, <1>9, <1>12, <1>13

\* A line feed ends the line, and half a character before it.
LastLineOf(held, rest) == IF held THEN Append(rest, "?") ELSE rest

\* A line feed shows the line and begins another.
LEMMA TakeNewline ==
    ASSUME NEW held \in BOOLEAN, NEW rest \in Seq(Plain),
           NEW seen \in SeenState
    PROVE  /\ LastLineOf(held, rest) \in Seq(Plain)
           /\ TakeByte[State(held, rest, seen)]["nl"] =
                State(FALSE, <<>>, ShowLine[seen][LastLineOf(held, rest)])
<1>1. PICK t \in ReadState : t = State(held, rest, seen)
  BY StateType
<1>2. PICK l \in LineState : l = [rest |-> rest, seen |-> seen]
  BY StateType
<1>3. t.held = held /\ LineOf(t) = l
  BY <1>1, <1>2, StateType
<1>4. PICK b \in Bytes : b = "nl"
  BY SomeBytes
<1>5. PICK n \in Characters : n = "nl"
  BY OtherCharacters
<1>6. PICK q \in Characters : q = "?" /\ q \in Plain
  BY OtherCharacters, PlainType
<1>7. ASSUME NEW line \in Seq(Plain), NEW v \in LineState,
             v = [rest |-> line, seen |-> seen]
      PROVE  Folded(TakeCharacter, v, <<n>>) =
               [rest |-> <<>>, seen |-> ShowLine[seen][line]]
  <2>1. Folded(TakeCharacter, v, <<n>>) = TakeCharacter[v][n]
    BY TakeCharacterStep, FoldedOne
  <2>2. TakeCharacter[v][n] =
          [rest |-> <<>>, seen |-> ShowLine[v.seen][v.rest]]
    BY <1>5, TakeCharacterOne
  <2>3. v.seen = seen /\ v.rest = line
    BY <1>7
  <2> QED
    BY <2>1, <2>2, <2>3
<1>8. ASSUME NEW line \in Seq(Plain)
      PROVE  With(FALSE, [rest |-> <<>>, seen |-> ShowLine[seen][line]]) =
               State(FALSE, <<>>, ShowLine[seen][line])
  BY DEF With, State
<1>9. PICK no \in BOOLEAN : no = FALSE
  OBVIOUS
<1>10. CASE ~held
  <2>1. PICK out \in Seq(Characters) : out = <<n>>
    BY OneElement
  <2>2. DecodesTo(held, b, no, out)
    BY <1>4, <1>5, <1>10, <1>9, <2>1 DEF DecodedByte, DecodesTo
  <2>3. TakeByte[t][b] = With(no, Folded(TakeCharacter, l, out))
    BY <1>3, <2>2, TakeByteAs
  <2>4. LastLineOf(held, rest) = rest
    BY <1>10 DEF LastLineOf
  <2>5. Folded(TakeCharacter, l, <<n>>) =
          [rest |-> <<>>, seen |-> ShowLine[seen][rest]]
    BY <1>2, <1>7
  <2> QED
    BY <1>1, <1>4, <1>8, <1>9, <2>1, <2>3, <2>4, <2>5
<1>11. CASE held
  <2>1. PICK out \in Seq(Characters) : out = <<"?", b>>
    BY <1>4, <1>5, <1>6, TwoElements
  <2>2. DecodesTo(held, b, no, out)
    BY <1>4, <1>11, <1>9, <2>1 DEF DecodedByte, DecodesTo
  <2>3. PICK o \in Seq(Characters), p \in Seq(Characters) :
             o = <<q>> /\ p = <<n>>
    BY OneElement
  <2>4. <<"?", b>> = o \o p
    BY <1>4, <1>5, <1>6, <2>3, TwoElements
  <2>5. TakeByte[t][b] = With(no, Folded(TakeCharacter, l, out))
    BY <1>3, <2>2, TakeByteAs
  <2>6. PICK line \in Seq(Plain) : line = Append(rest, q)
    BY <1>6, AppendOf
  <2>7. LastLineOf(held, rest) = line
    BY <1>6, <1>11, <2>6 DEF LastLineOf
  <2>8. PICK v \in LineState : v = [rest |-> line, seen |-> seen]
    BY StateType
  <2>9. Folded(TakeCharacter, l, o) = v
    <3>1. Folded(TakeCharacter, l, <<q>>) = TakeCharacter[l][q]
      BY TakeCharacterStep, FoldedOne
    <3>2. q # "nl"
      BY <1>6
    <3>3. TakeCharacter[l][q] = [rest |-> Append(l.rest, q), seen |-> l.seen]
      BY <3>2, TakeCharacterOne
    <3>4. l.rest = rest /\ l.seen = seen
      BY <1>2
    <3> QED
      BY <2>3, <2>6, <2>8, <3>1, <3>3, <3>4
  <2>10. Folded(TakeCharacter, l, o \o p) = Folded(TakeCharacter, v, p)
    BY <2>9, TakeCharacterStep, FoldedConcat
  <2>11. Folded(TakeCharacter, v, p) =
           [rest |-> <<>>, seen |-> ShowLine[seen][line]]
    BY <1>7, <2>3, <2>8
  <2> QED
    BY <1>1, <1>4, <1>8, <1>9, <2>1, <2>4, <2>5, <2>7, <2>10, <2>11
<1> QED
  BY <1>10, <1>11

\* Bytes that took t to an incomplete line.
TakesTo(t, bytes, line, seen) ==
    /\ t \in ReadState
    /\ bytes \in Seq(Bytes) /\ line \in Seq(Plain) /\ seen \in SeenState
    /\ Folded(TakeByte, t, bytes) = State(FALSE, line, seen)

\* One plain byte more joins the line, a line feed ends it.
LEMMA TakesOneMore ==
    ASSUME NEW t, NEW bytes, NEW line, NEW seen, TakesTo(t, bytes, line, seen),
           NEW b \in Bytes, b # "h1", b # "h2", b # "nl"
    PROVE  TakesTo(t, bytes \o <<b>>, line \o <<b>>, seen)
<1>1. /\ t \in ReadState /\ bytes \in Seq(Bytes) /\ line \in Seq(Plain)
      /\ seen \in SeenState
  BY DEF TakesTo
<1>2. b \in Plain
  BY PlainCharacters DEF Plain
<1>3. PICK o \in Seq(Bytes) : o = <<b>>
  BY OneElement
<1>4. PICK p \in Seq(Plain) : p = <<b>>
  BY <1>2, OneElement
<1>5. PICK u \in ReadState : u = State(FALSE, line, seen)
  BY <1>1, StateType
<1>6. Folded(TakeByte, t, bytes) = u
  BY <1>5 DEF TakesTo
<1>7. Folded(TakeByte, t, bytes \o o) = Folded(TakeByte, u, o)
  BY <1>1, <1>6, TakeByteStep, FoldedConcat
<1>8. Folded(TakeByte, u, <<b>>) = TakeByte[u][b]
  BY TakeByteStep, FoldedOne
<1>9. TakeByte[u][b] = State(FALSE, Append(line, b), seen)
  BY <1>1, <1>5, TakePlain
<1>10. Append(line, b) = line \o p
  BY <1>1, <1>2, <1>4, AppendIsConcat
<1>11. bytes \o o \in Seq(Bytes) /\ line \o p \in Seq(Plain)
  BY <1>1, ConcatOf
<1>12. Folded(TakeByte, t, bytes \o o) = State(FALSE, line \o p, seen)
  BY <1>3, <1>7, <1>8, <1>9, <1>10
<1> QED
  BY <1>1, <1>3, <1>4, <1>11, <1>12 DEF TakesTo

\* A line feed shows the line and begins another, after any bytes.
LEMMA TakesNewline ==
    ASSUME NEW t, NEW bytes, NEW line, NEW seen, TakesTo(t, bytes, line, seen)
    PROVE  TakesTo(t, bytes \o <<"nl">>, <<>>, ShowLine[seen][line])
<1>1. /\ t \in ReadState /\ bytes \in Seq(Bytes) /\ line \in Seq(Plain)
      /\ seen \in SeenState
  BY DEF TakesTo
<1>2. PICK b \in Bytes : b = "nl"
  BY SomeBytes
<1>3. PICK o \in Seq(Bytes) : o = <<b>>
  BY OneElement
<1>4. PICK u \in ReadState : u = State(FALSE, line, seen)
  BY <1>1, StateType
<1>5. Folded(TakeByte, t, bytes) = u
  BY <1>4 DEF TakesTo
<1>6. Folded(TakeByte, t, bytes \o o) = Folded(TakeByte, u, o)
  BY <1>1, <1>5, TakeByteStep, FoldedConcat
<1>7. Folded(TakeByte, u, <<b>>) = TakeByte[u][b]
  BY TakeByteStep, FoldedOne
<1>8. TakeByte[u][b] = State(FALSE, <<>>, ShowLine[seen][line])
  <2>1. LastLineOf(FALSE, line) = line
    BY DEF LastLineOf
  <2>2. TakeByte[State(FALSE, line, seen)]["nl"] =
          State(FALSE, <<>>, ShowLine[seen][LastLineOf(FALSE, line)])
    BY <1>1, TakeNewline
  <2> QED
    BY <1>2, <1>4, <2>1, <2>2
<1>9. /\ bytes \o o \in Seq(Bytes) /\ <<>> \in Seq(Plain)
      /\ ShowLine[seen][line] \in SeenState
  BY <1>1, ConcatOf, EmptySequence, ShowLineType
<1>10. Folded(TakeByte, t, bytes \o o) =
         State(FALSE, <<>>, ShowLine[seen][line])
  BY <1>3, <1>6, <1>7, <1>8
<1>11. o = <<"nl">>
  BY <1>2, <1>3
<1> QED
  BY <1>1, <1>9, <1>10, <1>11 DEF TakesTo

\* What is seen of an event.
ShowEvent ==
    [seen \in SeenState |-> [e \in Event |->
        CASE seen.done -> seen
          [] ~seen.done /\ e.kind = "done" ->
               [shown |-> seen.shown, finish |-> seen.finish, done |-> TRUE]
          [] ~seen.done /\ e.kind = "delta" ->
               [shown |-> seen.shown \o e.content,
                finish |-> IF e.reason = <<>> THEN seen.finish ELSE e.reason,
                done |-> FALSE]
          [] OTHER -> seen]]

\* The kinds of events.
LEMMA EventKinds ==
    ASSUME NEW e \in Event
    PROVE  \/ e = Comment /\ e.kind = "comment"
           \/ e = Done /\ e.kind = "done"
           \/ /\ e.kind = "delta" /\ e.content \in Seq(Text)
              /\ e.reason \in {<<>>} \cup {<<r>> : r \in Reasons}
BY DEF Event, Comment, Done

\* What is seen of an event, case by case.
LEMMA ShowEventOne ==
    ASSUME NEW seen \in SeenState, NEW e \in Event
    PROVE  /\ seen.done => ShowEvent[seen][e] = seen
           /\ ~seen.done /\ e.kind = "done"
              => ShowEvent[seen][e] =
                   [shown |-> seen.shown, finish |-> seen.finish,
                    done |-> TRUE]
           /\ ~seen.done /\ e.kind = "delta"
              => ShowEvent[seen][e] =
                   [shown |-> seen.shown \o e.content,
                    finish |-> IF e.reason = <<>> THEN seen.finish
                               ELSE e.reason,
                    done |-> FALSE]
           /\ ~seen.done /\ e.kind = "comment" => ShowEvent[seen][e] = seen
<1>1. ShowEvent[seen][e] =
        CASE seen.done -> seen
          [] ~seen.done /\ e.kind = "done" ->
               [shown |-> seen.shown, finish |-> seen.finish, done |-> TRUE]
          [] ~seen.done /\ e.kind = "delta" ->
               [shown |-> seen.shown \o e.content,
                finish |-> IF e.reason = <<>> THEN seen.finish ELSE e.reason,
                done |-> FALSE]
          [] OTHER -> seen
  BY DEF ShowEvent
<1>2. seen.done => ShowEvent[seen][e] = seen
  BY <1>1
<1>3. ~seen.done /\ e.kind = "done"
        => ShowEvent[seen][e] =
             [shown |-> seen.shown, finish |-> seen.finish, done |-> TRUE]
  BY <1>1
<1>4. ~seen.done /\ e.kind = "delta"
        => ShowEvent[seen][e] =
             [shown |-> seen.shown \o e.content,
              finish |-> IF e.reason = <<>> THEN seen.finish ELSE e.reason,
              done |-> FALSE]
  BY <1>1
<1>5. ~seen.done /\ e.kind = "comment" => ShowEvent[seen][e] = seen
  BY <1>1
<1> QED
  BY <1>2, <1>3, <1>4, <1>5

\* The bytes of a text join the line.
LEMMA ContentTaken ==
    ASSUME NEW t, NEW bytes, NEW line, NEW seen, TakesTo(t, bytes, line, seen),
           NEW content \in Seq(Text)
    PROVE  TakesTo(t, Folded(EncodeCharacter, bytes, content),
                   line \o content, seen)
<1>1. /\ t \in ReadState /\ bytes \in Seq(Bytes) /\ line \in Seq(Plain)
      /\ seen \in SeenState
      /\ Folded(TakeByte, t, bytes) = State(FALSE, line, seen)
  BY DEF TakesTo
<1>2. \A text \in Seq(Text) :
         /\ line \o text \in Seq(Plain)
         /\ Folded(EncodeCharacter, bytes, text) \in Seq(Bytes)
         /\ Folded(TakeByte, t, Folded(EncodeCharacter, bytes, text)) =
              State(FALSE, line \o text, seen)
  BY <1>1, TakeContent, Zenon
<1> QED
  BY <1>1, <1>2 DEF TakesTo

\* The bytes of an event are bytes, and taking them shows the event.
LEMMA EventTaken ==
    ASSUME NEW seen \in SeenState, NEW e \in Event,
           NEW t \in ReadState, t = State(FALSE, <<>>, seen)
    PROVE  /\ EncodeEvent(e) \in Seq(Bytes)
           /\ TakesTo(t, EncodeEvent(e) \o <<"nl">>, <<>>, ShowEvent[seen][e])
<1>1. PICK n \in Seq(Plain), nb \in Seq(Bytes) : n = <<>> /\ nb = <<>>
  BY EmptySequence
<1>2. TakesTo(t, nb, n, seen)
  <2>1. Folded(TakeByte, t, <<>>) = t
    BY TakeByteStep, FoldedEmpty
  <2> QED
    BY <1>1, <2>1 DEF TakesTo
<1>3. ASSUME NEW b \in Bytes, b # "h1", b # "h2", b # "nl"
      PROVE  TakesTo(t, <<b>>, <<b>>, seen)
  <2>1. TakesTo(t, nb \o <<b>>, n \o <<b>>, seen)
    BY <1>2, <1>3, TakesOneMore
  <2>2. b \in Plain
    BY <1>3, PlainCharacters DEF Plain
  <2>3. nb \o <<b>> = <<b>> /\ n \o <<b>> = <<b>>
    BY <1>1, <2>2, OneElement, ConcatEmpty
  <2> QED
    BY <2>1, <2>3
<1>4. ASSUME NEW bytes, NEW line, TakesTo(t, bytes, line, seen),
             bytes = EncodeEvent(e), ShowLine[seen][line] = ShowEvent[seen][e]
      PROVE  /\ EncodeEvent(e) \in Seq(Bytes)
             /\ TakesTo(t, EncodeEvent(e) \o <<"nl">>, <<>>,
                        ShowEvent[seen][e])
  <2>1. TakesTo(t, bytes \o <<"nl">>, <<>>, ShowLine[seen][line])
    BY <1>4, TakesNewline
  <2>2. bytes \in Seq(Bytes)
    BY <1>4 DEF TakesTo
  <2> QED
    BY <1>4, <2>1, <2>2
<1>5. CASE e = Comment /\ e.kind = "comment"
  <2>1. PICK b \in Bytes, c \in Bytes : b = ":" /\ c = "a"
    BY SomeBytes
  <2>2. TakesTo(t, <<b>> \o <<c>>, <<b>> \o <<c>>, seen)
    <3>1. TakesTo(t, <<b>>, <<b>>, seen)
      BY <1>3, <2>1
    <3> QED
      BY <2>1, <3>1, TakesOneMore
  <2>3. PICK line : line = <<b>> \o <<c>>
    OBVIOUS
  <2>4. line = <<":", "a">> /\ line \in Seq(Plain) /\ line \in Seq(Characters)
    <3>1. line = <<b, c>>
      BY <2>3, TwoElements
    <3>2. line \in Seq(Plain)
      BY <2>2, <2>3 DEF TakesTo
    <3> QED
      BY <2>1, <3>1, <3>2, PlainType
  <2>5. EncodeEvent(e) = line
    BY <1>5, <2>4 DEF EncodeEvent
  <2>6. ~IsDone(line) /\ ~IsDelta(line)
    <3>1. line[1] = ":" /\ Head(line) = line[1]
      BY <2>4
    <3>2. ":" # "data:" /\ <<"data:", "done">>[1] = "data:"
      OBVIOUS
    <3> QED
      BY <3>1, <3>2 DEF IsDone, IsDelta
  <2>7. ShowLine[seen][line] = ShowEvent[seen][e]
    <3>1. CASE seen.done
      <4>1. ShowLine[seen][line] = seen
        BY <2>4, <3>1, ShowLineOne
      <4>2. ShowEvent[seen][e] = seen
        BY <3>1, ShowEventOne
      <4> QED
        BY <4>1, <4>2
    <3>2. CASE ~seen.done
      <4>1. ShowLine[seen][line] = seen
        BY <2>4, <2>6, <3>2, ShowLineOne
      <4>2. ShowEvent[seen][e] = seen
        BY <1>5, <3>2, ShowEventOne
      <4> QED
        BY <4>1, <4>2
    <3> QED
      BY <3>1, <3>2
  <2>8. TakesTo(t, line, line, seen)
    BY <2>2, <2>3
  <2> QED
    BY <1>4, <2>5, <2>7, <2>8
<1>6. CASE e = Done /\ e.kind = "done"
  <2>1. PICK b \in Bytes, c \in Bytes : b = "data:" /\ c = "done"
    BY SomeBytes
  <2>2. TakesTo(t, <<b>> \o <<c>>, <<b>> \o <<c>>, seen)
    <3>1. TakesTo(t, <<b>>, <<b>>, seen)
      BY <1>3, <2>1
    <3> QED
      BY <2>1, <3>1, TakesOneMore
  <2>3. PICK line : line = <<b>> \o <<c>>
    OBVIOUS
  <2>4. line = <<"data:", "done">> /\ line \in Seq(Characters)
    <3>1. line = <<b, c>>
      BY <2>3, TwoElements
    <3>2. line \in Seq(Plain)
      BY <2>2, <2>3 DEF TakesTo
    <3> QED
      BY <2>1, <3>1, <3>2, PlainType
  <2>5. EncodeEvent(e) = line
    BY <1>6, <2>4 DEF EncodeEvent
  <2>6. IsDone(line)
    BY <2>4 DEF IsDone
  <2>7. ShowLine[seen][line] = ShowEvent[seen][e]
    <3>1. CASE seen.done
      <4>1. ShowLine[seen][line] = seen
        BY <2>4, <3>1, ShowLineOne
      <4>2. ShowEvent[seen][e] = seen
        BY <3>1, ShowEventOne
      <4> QED
        BY <4>1, <4>2
    <3>2. CASE ~seen.done
      <4>1. ShowLine[seen][line] =
              [shown |-> seen.shown, finish |-> seen.finish, done |-> TRUE]
        BY <2>4, <2>6, <3>2, ShowLineOne
      <4>2. ShowEvent[seen][e] =
              [shown |-> seen.shown, finish |-> seen.finish, done |-> TRUE]
        BY <1>6, <3>2, ShowEventOne
      <4> QED
        BY <4>1, <4>2
    <3> QED
      BY <3>1, <3>2
  <2>8. TakesTo(t, line, line, seen)
    BY <2>2, <2>3
  <2> QED
    BY <1>4, <2>5, <2>7, <2>8
<1>7. CASE /\ e.kind = "delta" /\ e.content \in Seq(Text)
           /\ e.reason \in {<<>>} \cup {<<r>> : r \in Reasons}
  <2>1. PICK b \in Bytes : b = "data:"
    BY SomeBytes
  <2>2. PICK start \in Seq(Bytes) : start = <<"data:">>
    BY <2>1, OneElement
  <2>3. PICK rest \in Seq(Plain) : rest = <<"data:">>
    BY PlainType, OneElement
  <2>4. TakesTo(t, start, rest, seen)
    BY <1>3, <2>1, <2>2, <2>3
  <2>5. PICK bytes \in Seq(Bytes) :
              bytes = Folded(EncodeCharacter, start, e.content)
    BY <1>7, EncodeCharacterStep, FoldedType
  <2>6. PICK line : line = rest \o e.content
    OBVIOUS
  <2>7. TakesTo(t, bytes, line, seen)
    <3>1. PICK content \in Seq(Text) : content = e.content
      BY <1>7
    <3>2. TakesTo(t, Folded(EncodeCharacter, start, content),
                  rest \o content, seen)
      BY <2>4, ContentTaken
    <3> QED
      BY <2>5, <2>6, <3>1, <3>2
  <2>8. TakesTo(t, bytes \o e.reason, line \o e.reason, seen)
    <3>1. line \in Seq(Plain)
      BY <2>7 DEF TakesTo
    <3>2. CASE e.reason = <<>>
      <4>1. bytes \o e.reason = bytes /\ line \o e.reason = line
        BY <3>1, <3>2, ConcatEmpty
      <4> QED
        BY <2>7, <4>1
    <3>3. CASE e.reason # <<>>
      <4>1. PICK r \in Reasons : e.reason = <<r>>
        BY <1>7, <3>3
      <4>2. r \in Bytes /\ r # "h1" /\ r # "h2" /\ r # "nl"
        BY DEF Reasons, Bytes
      <4>3. TakesTo(t, bytes \o <<r>>, line \o <<r>>, seen)
        BY <2>7, <4>2, TakesOneMore
      <4> QED
        BY <4>1, <4>3
    <3> QED
      BY <3>2, <3>3
  <2>9. PICK bytes2, line2 :
             bytes2 = bytes \o e.reason /\ line2 = line \o e.reason
    OBVIOUS
  <2>10. TakesTo(t, bytes2 \o <<"}">>, line2 \o <<"}">>, seen)
    <3>1. PICK c \in Bytes : c = "}"
      BY SomeBytes
    <3>2. TakesTo(t, bytes2, line2, seen)
      BY <2>8, <2>9
    <3>3. TakesTo(t, bytes2 \o <<c>>, line2 \o <<c>>, seen)
      BY <3>1, <3>2, TakesOneMore
    <3> QED
      BY <3>1, <3>3
  <2>11. EncodeEvent(e) = bytes2 \o <<"}">>
    BY <1>7, <2>2, <2>5, <2>9 DEF EncodeEvent
  <2>12. PICK d : d = DeltaLine(e.content, e.reason)
    OBVIOUS
  <2>13. line2 \o <<"}">> = d
    BY <2>3, <2>6, <2>9, <2>12 DEF DeltaLine
  <2>14. e.reason \in Seq(Reasons)
    BY <1>7, ReasonType
  <2>15. /\ d \in Seq(Characters) /\ IsDelta(d) /\ ~IsDone(d)
         /\ Content(d) = e.content /\ Reason(d) = e.reason
    BY <1>7, <2>12, <2>14, DeltaLineRead, PlainType
  <2>16. ShowLine[seen][d] = ShowEvent[seen][e]
    <3>1. CASE seen.done
      <4>1. ShowLine[seen][d] = seen
        BY <2>15, <3>1, ShowLineOne
      <4>2. ShowEvent[seen][e] = seen
        BY <3>1, ShowEventOne
      <4> QED
        BY <4>1, <4>2
    <3>2. CASE ~seen.done
      <4>1. ShowLine[seen][d] =
              [shown |-> seen.shown \o Content(d),
               finish |-> IF Reason(d) = <<>> THEN seen.finish ELSE Reason(d),
               done |-> FALSE]
        BY <2>15, <3>2, ShowLineOne
      <4>2. ShowEvent[seen][e] =
              [shown |-> seen.shown \o e.content,
               finish |-> IF e.reason = <<>> THEN seen.finish ELSE e.reason,
               done |-> FALSE]
        BY <1>7, <3>2, ShowEventOne
      <4> QED
        BY <2>15, <4>1, <4>2
    <3> QED
      BY <3>1, <3>2
  <2> QED
    BY <1>4, <2>10, <2>11, <2>13, <2>16
<1> QED
  BY <1>5, <1>6, <1>7, EventKinds

-----------------------------------------------------------------------------
(* Taking an answer                                                        *)

\* Bytes taken one after the other.
LEMMA BytesThen ==
    ASSUME NEW t \in ReadState, NEW bytes \in Seq(Bytes),
           NEW more \in Seq(Bytes)
    PROVE  Folded(TakeByte, t, bytes \o more) =
             Folded(TakeByte, Folded(TakeByte, t, bytes), more)
BY TakeByteStep, FoldedConcat

\* What two runs of bytes are taken to.
LEMMA TakesThen ==
    ASSUME NEW t, NEW bytes, NEW line, NEW seen, TakesTo(t, bytes, line, seen),
           NEW u, u = State(FALSE, line, seen),
           NEW more, NEW line2, NEW seen2, TakesTo(u, more, line2, seen2)
    PROVE  TakesTo(t, bytes \o more, line2, seen2)
<1>1. /\ t \in ReadState /\ bytes \in Seq(Bytes) /\ more \in Seq(Bytes)
      /\ line2 \in Seq(Plain) /\ seen2 \in SeenState /\ u \in ReadState
      /\ Folded(TakeByte, t, bytes) = u
      /\ Folded(TakeByte, u, more) = State(FALSE, line2, seen2)
  BY DEF TakesTo
<1>2. Folded(TakeByte, t, bytes \o more) = Folded(TakeByte, u, more)
  <2>1. t \in ReadState /\ bytes \in Seq(Bytes) /\ more \in Seq(Bytes)
    BY <1>1
  <2>2. Folded(TakeByte, t, bytes \o more) =
          Folded(TakeByte, Folded(TakeByte, t, bytes), more)
    BY <2>1, BytesThen
  <2> QED
    BY <1>1, <2>2
<1>3. bytes \o more \in Seq(Bytes)
  BY <1>1, ConcatOf
<1> QED
  BY <1>1, <1>2, <1>3 DEF TakesTo

\* Nothing is shown.
Nothing == [shown |-> <<>>, finish |-> <<>>, done |-> FALSE]

\* A line has not begun either.
Beginning == State(FALSE, <<>>, Nothing)

\* A line has begun that nothing was read of.
LEMMA LineBegun ==
    ASSUME NEW seen \in SeenState
    PROVE  State(FALSE, <<>>, seen) \in ReadState
<1>1. <<>> \in Seq(Plain) /\ FALSE \in BOOLEAN
  BY EmptySequence
<1> QED
  BY <1>1, StateType

\* Nothing is a state of what is seen.
LEMMA NothingType == Nothing \in SeenState /\ Beginning \in ReadState
<1>1. <<>> \in Seq(Characters)
  BY EmptySequence
<1>2. Nothing \in SeenState
  BY <1>1 DEF Nothing, SeenState
<1> QED
  BY <1>2, LineBegun DEF Beginning

\* What is seen of an event follows what is seen before it.
LEMMA ShowEventStep == Step(ShowEvent, SeenState, Event)
<1>1. ASSUME NEW seen \in SeenState, NEW e \in Event
      PROVE  ShowEvent[seen][e] \in SeenState
  <2>1. PICK t \in ReadState : t = State(FALSE, <<>>, seen)
    BY LineBegun
  <2>2. TakesTo(t, EncodeEvent(e) \o <<"nl">>, <<>>, ShowEvent[seen][e])
    BY <2>1, EventTaken
  <2> QED
    BY <2>2 DEF TakesTo
<1>2. ShowEvent = [seen \in SeenState |-> ShowEvent[seen]]
  BY DEF ShowEvent
<1>3. \A seen \in SeenState :
        ShowEvent[seen] = [e \in Event |-> ShowEvent[seen][e]]
  BY DEF ShowEvent
<1> QED
  BY <1>1, <1>2, <1>3 DEF Step

\* The bytes of an event and of its line feed.
LineBytes(e) == EncodeEvent(e) \o <<"nl">>

\* They are bytes.
LEMMA EventBytes ==
    ASSUME NEW e \in Event
    PROVE  EncodeEvent(e) \in Seq(Bytes)
<1>1. PICK t \in ReadState : t = State(FALSE, <<>>, Nothing)
  BY NothingType, LineBegun
<1> QED
  BY <1>1, NothingType, EventTaken

\* With the line feed they are bytes too.
LEMMA LineBytesType ==
    ASSUME NEW e \in Event
    PROVE  LineBytes(e) \in Seq(Bytes)
<1>1. PICK t \in ReadState : t = State(FALSE, <<>>, Nothing)
  BY NothingType, LineBegun
<1>2. TakesTo(t, EncodeEvent(e) \o <<"nl">>, <<>>, ShowEvent[Nothing][e])
  BY <1>1, NothingType, EventTaken
<1> QED
  BY <1>2 DEF TakesTo, LineBytes

\* They join the bytes before them.
LEMMA EncodeLineOne ==
    ASSUME NEW bytes \in Seq(Bytes), NEW e \in Event
    PROVE  EncodeLine[bytes][e] = bytes \o LineBytes(e)
<1>1. EncodeEvent(e) \in Seq(Bytes)
  BY EventBytes
<1>2. PICK n \in Seq(Bytes) : n = <<"nl">>
  BY SomeBytes, OneElement
<1>3. PICK l \in Seq(Bytes) : l = EncodeEvent(e)
  BY <1>1
<1>4. (bytes \o l) \o n = bytes \o (l \o n)
  BY ConcatThree
<1>5. EncodeLine[bytes][e] = (bytes \o EncodeEvent(e)) \o <<"nl">>
  BY DEF EncodeLine
<1> QED
  BY <1>2, <1>3, <1>4, <1>5 DEF LineBytes

\* Encoding makes bytes of bytes and an event.
LEMMA EncodeLineStep == Step(EncodeLine, Seq(Bytes), Event)
<1>1. ASSUME NEW bytes \in Seq(Bytes), NEW e \in Event
      PROVE  EncodeLine[bytes][e] \in Seq(Bytes)
  BY EncodeLineOne, LineBytesType, ConcatOf
<1>2. EncodeLine = [bytes \in Seq(Bytes) |-> EncodeLine[bytes]]
  BY DEF EncodeLine
<1>3. \A bytes \in Seq(Bytes) :
        EncodeLine[bytes] = [e \in Event |-> EncodeLine[bytes][e]]
  BY DEF EncodeLine
<1> QED
  BY <1>1, <1>2, <1>3 DEF Step

\* The bytes of a terminated answer.
Encoding(events) == Folded(EncodeLine, <<>>, events)

\* What is seen of the whole answer.
Seen(events) == Folded(ShowEvent, Nothing, events)

\* Taking the bytes of an answer shows its events.
LEMMA AnswerTaken ==
    \A events \in Seq(Event) :
        TakesTo(Beginning, Encoding(events), <<>>, Seen(events))
<1> DEFINE P == {events \in Seq(Event) :
                    TakesTo(Beginning, Encoding(events), <<>>, Seen(events))}
<1>1. PICK nb \in Seq(Bytes), np \in Seq(Plain) : nb = <<>> /\ np = <<>>
  BY EmptySequence
<1>2. <<>> \in P
  <2>1. Folded(EncodeLine, nb, <<>>) = nb
    BY EncodeLineStep, FoldedEmpty
  <2>2. Folded(ShowEvent, Nothing, <<>>) = Nothing
    BY ShowEventStep, NothingType, FoldedEmpty
  <2>3. Folded(TakeByte, Beginning, <<>>) = Beginning
    BY TakeByteStep, NothingType, FoldedEmpty
  <2>4. TakesTo(Beginning, nb, np, Nothing)
    BY <1>1, <2>3, NothingType DEF TakesTo, Beginning
  <2>5. Encoding(<<>>) = nb /\ Seen(<<>>) = Nothing
    BY <1>1, <2>1, <2>2 DEF Encoding, Seen
  <2>6. <<>> \in Seq(Event)
    BY EmptySequence
  <2> QED
    BY <1>1, <2>4, <2>5, <2>6
<1>3. ASSUME NEW s \in P, NEW e \in Event PROVE Append(s, e) \in P
  <2>1. s \in Seq(Event) /\ TakesTo(Beginning, Encoding(s), <<>>, Seen(s))
    BY <1>3
  <2> HIDE DEF P
  <2>2. PICK v \in Seq(Event) : Extended(v, s, e)
    BY <2>1, AppendOf DEF Extended
  <2>3. PICK b \in Seq(Bytes) : b = Encoding(s)
    BY <2>1 DEF TakesTo
  <2>4. PICK w \in SeenState : w = Seen(s)
    BY <2>1 DEF TakesTo
  <2>5. Encoding(v) = b \o LineBytes(e)
    <3>1. Folded(EncodeLine, nb, v) = EncodeLine[Folded(EncodeLine, nb, s)][e]
      BY <2>1, <2>2, EncodeLineStep, FoldedAppend
    <3>2. EncodeLine[b][e] = b \o LineBytes(e)
      BY EncodeLineOne
    <3> QED
      BY <1>1, <2>3, <3>1, <3>2 DEF Encoding
  <2>6. Seen(v) = ShowEvent[w][e]
    <3>1. Folded(ShowEvent, Nothing, v) =
            ShowEvent[Folded(ShowEvent, Nothing, s)][e]
      BY <2>1, <2>2, ShowEventStep, NothingType, FoldedAppend
    <3> QED
      BY <2>4, <3>1 DEF Seen
  <2>7. PICK u \in ReadState : u = State(FALSE, <<>>, w)
    BY LineBegun
  <2>8. TakesTo(u, LineBytes(e), <<>>, ShowEvent[w][e])
    BY <2>7, EventTaken DEF LineBytes
  <2>9. TakesTo(Beginning, b, <<>>, w)
    BY <2>1, <2>3, <2>4
  <2>10. TakesTo(Beginning, b \o LineBytes(e), <<>>, ShowEvent[w][e])
    BY <2>7, <2>8, <2>9, TakesThen
  <2>11. TakesTo(Beginning, Encoding(v), <<>>, Seen(v))
    BY <2>5, <2>6, <2>10
  <2> QED
    BY <2>2, <2>11 DEF P, Extended
<1>4. P \in SUBSET Seq(Event)
  OBVIOUS
<1> HIDE DEF P
<1>5. P = Seq(Event)
  BY <1>2, <1>3, <1>4, SequenceInduction
<1> QED
  BY <1>5 DEF P

-----------------------------------------------------------------------------
(* What is shown only grows                                                *)

\* Seeing more: what was shown stays, and after the end mark nothing changes.
Grown(v, w) ==
    /\ v.done => w = v
    /\ \E x \in Seq(Characters) : w.shown = v.shown \o x

\* Seeing nothing more, and seeing more twice.
LEMMA GrownSame ==
    ASSUME NEW v \in SeenState
    PROVE  Grown(v, v)
<1>1. <<>> \in Seq(Characters)
  BY EmptySequence
<1>2. v.shown \in Seq(Characters)
  BY DEF SeenState
<1>3. v.shown \o <<>> = v.shown
  BY <1>2, ConcatEmpty
<1> QED
  BY <1>1, <1>3 DEF Grown

\* Seeing more, twice, is seeing more.
LEMMA GrownTwice ==
    ASSUME NEW u \in SeenState, NEW v \in SeenState, NEW w \in SeenState,
           Grown(u, v), Grown(v, w)
    PROVE  Grown(u, w)
<1>1. u.done => w = u
  BY DEF Grown
<1>2. PICK x \in Seq(Characters) : v.shown = u.shown \o x
  BY DEF Grown
<1>3. PICK y \in Seq(Characters) : w.shown = v.shown \o y
  BY DEF Grown
<1>4. PICK s \in Seq(Characters) : s = u.shown
  BY DEF SeenState
<1>5. (s \o x) \o y = s \o (x \o y)
  BY ConcatThree
<1>6. x \o y \in Seq(Characters)
  BY ConcatOf
<1>7. \E z \in Seq(Characters) : w.shown = u.shown \o z
  <2>1. w.shown = u.shown \o (x \o y)
    BY <1>2, <1>3, <1>4, <1>5
  <2> QED
    BY <1>6, <2>1
<1> QED
  BY <1>1, <1>7 DEF Grown

\* A line shows more.
LEMMA ShowLineGrows ==
    ASSUME NEW v \in SeenState, NEW line \in Seq(Characters)
    PROVE  Grown(v, ShowLine[v][line])
<1>1. Grown(v, v)
  BY GrownSame
<1>2. PICK s \in Seq(Characters) : s = v.shown
  BY DEF SeenState
<1>3. Content(line) \in Seq(Characters)
  BY PickedType DEF Content
<1>4. PICK x \in Seq(Characters) : x = Content(line)
  BY <1>3
<1>5. s \o <<>> = s /\ <<>> \in Seq(Characters)
  BY ConcatEmpty, EmptySequence
<1>6. CASE v.done
  <2>1. ShowLine[v][line] = v
    BY <1>6, ShowLineOne
  <2> QED
    BY <1>1, <2>1
<1>7. CASE ~v.done /\ IsDone(line)
  <2>1. PICK w : w = ShowLine[v][line]
    OBVIOUS
  <2>2. w = [shown |-> v.shown, finish |-> v.finish, done |-> TRUE]
    BY <1>7, <2>1, ShowLineOne
  <2>3. w.shown = v.shown \o <<>>
    BY <1>2, <1>5, <2>2
  <2>4. Grown(v, w)
    BY <1>5, <1>7, <2>3 DEF Grown
  <2> QED
    BY <2>1, <2>4
<1>8. CASE ~v.done /\ ~IsDone(line) /\ IsDelta(line)
  <2>1. PICK w : w = ShowLine[v][line]
    OBVIOUS
  <2>2. w = [shown |-> v.shown \o Content(line),
             finish |-> IF Reason(line) = <<>> THEN v.finish ELSE Reason(line),
             done |-> FALSE]
    BY <1>8, <2>1, ShowLineOne
  <2>3. w.shown = v.shown \o x
    BY <1>4, <2>2
  <2>4. Grown(v, w)
    BY <1>8, <2>3 DEF Grown
  <2> QED
    BY <2>1, <2>4
<1>9. CASE ~v.done /\ ~IsDone(line) /\ ~IsDelta(line)
  <2>1. ShowLine[v][line] = v
    BY <1>9, ShowLineOne
  <2> QED
    BY <1>1, <2>1
<1> QED
  BY <1>6, <1>7, <1>8, <1>9

\* Every state of V has seen something, and step shows more.
Growing(step, V, T) ==
    /\ \A v \in V : v.seen \in SeenState
    /\ \A v \in V, x \in T : Grown(v.seen, step[v][x].seen)

\* So do as many steps as there are elements in a sequence.
LEMMA FoldedGrows ==
    ASSUME NEW V, NEW T, NEW step, Step(step, V, T), Growing(step, V, T),
           NEW a \in V
    PROVE  \A s \in Seq(T) : Grown(a.seen, Folded(step, a, s).seen)
<1> DEFINE P == {s \in Seq(T) : Grown(a.seen, Folded(step, a, s).seen)}
<1>1. <<>> \in P
  <2>1. Folded(step, a, <<>>) = a
    BY FoldedEmpty, Zenon
  <2>2. Grown(a.seen, a.seen)
    BY GrownSame DEF Growing
  <2>3. <<>> \in Seq(T)
    BY EmptySequence
  <2> QED
    BY <2>1, <2>2, <2>3
<1>2. ASSUME NEW s \in P, NEW x \in T PROVE Append(s, x) \in P
  <2>1. s \in Seq(T) /\ Grown(a.seen, Folded(step, a, s).seen)
    BY <1>2
  <2> HIDE DEF P
  <2>2. PICK t \in Seq(T) : Extended(t, s, x)
    BY <2>1, AppendOf DEF Extended
  <2>3. PICK v \in V : v = Folded(step, a, s)
    BY <2>1, FoldedType
  <2>4. Folded(step, a, t) = step[Folded(step, a, s)][x]
    BY <2>1, <2>2, FoldedAppend
  <2>5. PICK w \in V : w = Folded(step, a, t)
    BY <2>2, FoldedType
  <2>6. Grown(v.seen, w.seen)
    BY <2>3, <2>4, <2>5 DEF Growing
  <2>7. a.seen \in SeenState /\ v.seen \in SeenState /\ w.seen \in SeenState
    BY DEF Growing
  <2>8. Grown(a.seen, w.seen)
    BY <2>1, <2>3, <2>6, <2>7, GrownTwice
  <2>9. Grown(a.seen, Folded(step, a, t).seen)
    BY <2>5, <2>8
  <2> QED
    BY <2>2, <2>9 DEF P, Extended
<1>3. P \in SUBSET Seq(T)
  OBVIOUS
<1> HIDE DEF P
<1>4. P = Seq(T)
  BY <1>1, <1>2, <1>3, SequenceInduction
<1> QED
  BY <1>4 DEF P

\* Characters and bytes show more.
LEMMA CharactersGrow == Growing(TakeCharacter, LineState, Characters)
<1>1. \A v \in LineState : v.seen \in SeenState /\ v.rest \in Seq(Plain)
  BY DEF LineState
<1>2. ASSUME NEW v \in LineState, NEW ch \in Characters
      PROVE  Grown(v.seen, TakeCharacter[v][ch].seen)
  <2>1. v.seen \in SeenState /\ v.rest \in Seq(Characters)
    BY <1>1, PlainType
  <2>2. TakeCharacter[v][ch].seen =
          IF ch = "nl" THEN ShowLine[v.seen][v.rest] ELSE v.seen
    <3>1. TakeCharacter[v][ch] =
            [rest |-> IF ch = "nl" THEN <<>> ELSE Append(v.rest, ch),
             seen |-> IF ch = "nl" THEN ShowLine[v.seen][v.rest] ELSE v.seen]
      BY TakeCharacterOne
    <3>2. PICK w : w = IF ch = "nl" THEN ShowLine[v.seen][v.rest] ELSE v.seen
      OBVIOUS
    <3>3. PICK r : r = IF ch = "nl" THEN <<>> ELSE Append(v.rest, ch)
      OBVIOUS
    <3>4. TakeCharacter[v][ch] = [rest |-> r, seen |-> w]
      BY <3>1, <3>2, <3>3
    <3>5. [rest |-> r, seen |-> w].seen = w
      OBVIOUS
    <3> QED
      BY <3>2, <3>4, <3>5
  <2>3. Grown(v.seen, ShowLine[v.seen][v.rest])
    BY <2>1, ShowLineGrows
  <2>4. Grown(v.seen, v.seen)
    BY <2>1, GrownSame
  <2> QED
    BY <2>2, <2>3, <2>4
<1> QED
  BY <1>1, <1>2 DEF Growing

\* A byte shows more.
LEMMA BytesGrow == Growing(TakeByte, ReadState, Bytes)
<1>1. \A t \in ReadState : t.seen \in SeenState
  BY DEF ReadState
<1>2. ASSUME NEW t \in ReadState, NEW b \in Bytes
      PROVE  Grown(t.seen, TakeByte[t][b].seen)
  <2>1. PICK d \in DecoderState : d = DecodedByte(t.held, b)
    BY DecodedByteType DEF ReadState
  <2>2. PICK v \in LineState : v = LineOf(t)
    BY LineOfType
  <2>3. d.out \in Seq(Characters)
    BY DEF DecoderState
  <2>4. Grown(v.seen, Folded(TakeCharacter, v, d.out).seen)
    <3>1. \A s \in Seq(Characters) :
             Grown(v.seen, Folded(TakeCharacter, v, s).seen)
      BY TakeCharacterStep, CharactersGrow, FoldedGrows, Zenon
    <3> QED
      BY <2>3, <3>1
  <2>5. TakeByte[t][b] = With(d.held, Folded(TakeCharacter, v, d.out))
    BY <2>1, <2>2, TakeByteOne
  <2>6. TakeByte[t][b].seen = Folded(TakeCharacter, v, d.out).seen
    BY <2>5 DEF With
  <2>7. v.seen = t.seen
    BY <2>2, LineOfType
  <2> QED
    BY <2>4, <2>6, <2>7
<1> QED
  BY <1>1, <1>2 DEF Growing

\* Taking bytes shows more.
LEMMA TakingGrows ==
    ASSUME NEW t \in ReadState, NEW bytes \in Seq(Bytes)
    PROVE  /\ Folded(TakeByte, t, bytes) \in ReadState
           /\ Grown(t.seen, Folded(TakeByte, t, bytes).seen)
<1>1. Folded(TakeByte, t, bytes) \in ReadState
  BY TakeByteStep, FoldedType
<1>2. \A s \in Seq(Bytes) : Grown(t.seen, Folded(TakeByte, t, s).seen)
  BY TakeByteStep, BytesGrow, FoldedGrows, Zenon
<1> QED
  BY <1>1, <1>2

-----------------------------------------------------------------------------
(* What is seen of an answer                                               *)

\* What the user should see is text.
LEMMA IntendOne ==
    ASSUME NEW text \in Seq(Text), NEW e \in Event
    PROVE  Intend[text][e] =
             IF e.kind = "delta" THEN text \o e.content ELSE text
BY DEF Intend

\* What should be seen of an event more is text.
LEMMA IntendStep == Step(Intend, Seq(Text), Event)
<1>1. ASSUME NEW text \in Seq(Text), NEW e \in Event
      PROVE  Intend[text][e] \in Seq(Text)
  <2>1. CASE e.kind = "delta"
    <3>1. e.content \in Seq(Text)
      <4>1. "delta" # "comment" /\ "delta" # "done"
        OBVIOUS
      <4> QED
        BY <2>1, <4>1, EventKinds
    <3>2. text \o e.content \in Seq(Text)
      BY <3>1, ConcatOf
    <3> QED
      BY <2>1, <3>2, IntendOne
  <2>2. CASE e.kind # "delta"
    BY <2>2, IntendOne
  <2> QED
    BY <2>1, <2>2
<1>2. Intend = [text \in Seq(Text) |-> Intend[text]]
  BY DEF Intend
<1>3. \A text \in Seq(Text) : Intend[text] = [e \in Event |-> Intend[text][e]]
  BY DEF Intend
<1> QED
  BY <1>1, <1>2, <1>3 DEF Step

\* No event is the end mark.
NoEnd(s) == \A i \in 1 .. Len(s) : s[i] # Done

\* Only the last event may be the end mark.
EndsOnce(s) == \A i \in 1 .. Len(s) : s[i] = Done => i = Len(s)

\* A delta gives this reason for stopping.
Gives(s, r) == \E i \in 1 .. Len(s) : s[i].kind = "delta" /\ s[i].reason = r

\* No delta gives any.
GivesNone(s) ==
    \A i \in 1 .. Len(s) : s[i].kind = "delta" => s[i].reason = <<>>

\* One event more and these.
LEMMA OneEventMore ==
    ASSUME NEW s \in Seq(Event), NEW e \in Event, NEW v \in Seq(Event),
           Extended(v, s, e)
    PROVE  /\ EndsOnce(v) => NoEnd(s) /\ EndsOnce(s)
           /\ NoEnd(v) => e # Done
           /\ \A r : Gives(s, r) => Gives(v, r)
           /\ \A r : e.kind = "delta" /\ e.reason = r => Gives(v, r)
           /\ GivesNone(s) /\ (e.kind = "delta" => e.reason = <<>>)
              => GivesNone(v)
<1>1. PICK n \in Nat : n = Len(s)
  OBVIOUS
<1>2. /\ Len(v) = n + 1 /\ v[n + 1] = e
      /\ \A i \in 1 .. n : v[i] = s[i]
  BY <1>1 DEF Extended
<1>3. /\ \A i \in 1 .. n : i \in 1 .. n + 1 /\ i # n + 1
      /\ n + 1 \in 1 .. n + 1
      /\ \A i \in 1 .. n + 1 : i = n + 1 \/ i \in 1 .. n
  OBVIOUS
<1>4. EndsOnce(v) => NoEnd(s) /\ EndsOnce(s)
  BY <1>1, <1>2, <1>3 DEF EndsOnce, NoEnd
<1>5. NoEnd(v) => e # Done
  BY <1>2, <1>3 DEF NoEnd
<1>6. ASSUME NEW r, Gives(s, r) PROVE Gives(v, r)
  <2>1. PICK i \in 1 .. n : s[i].kind = "delta" /\ s[i].reason = r
    BY <1>1, <1>6 DEF Gives
  <2>2. i \in 1 .. n + 1 /\ v[i] = s[i]
    BY <1>2, <1>3
  <2> QED
    BY <1>2, <2>1, <2>2 DEF Gives
<1>7. ASSUME NEW r, e.kind = "delta", e.reason = r PROVE Gives(v, r)
  BY <1>2, <1>3, <1>7 DEF Gives
<1>8. ASSUME GivesNone(s), e.kind = "delta" => e.reason = <<>>
      PROVE  GivesNone(v)
  <2> SUFFICES ASSUME NEW i \in 1 .. n + 1, v[i].kind = "delta"
               PROVE  v[i].reason = <<>>
    BY <1>2 DEF GivesNone
  <2>1. CASE i = n + 1
    BY <1>2, <1>8, <2>1
  <2>2. CASE i \in 1 .. n
    <3>1. v[i] = s[i]
      BY <1>2, <2>2
    <3>2. s[i].kind = "delta" => s[i].reason = <<>>
      BY <1>1, <1>8, <2>2 DEF GivesNone
    <3> QED
      BY <3>1, <3>2
  <2> QED
    BY <1>3, <2>1, <2>2
<1> QED
  BY <1>4, <1>5, <1>6, <1>7, <1>8

\* The answer is seen as it is meant to be, with a reason that was given.
SeenAsIntended(s) ==
    /\ Seen(s).shown = Intended(s)
    /\ Seen(s).finish = <<>> => GivesNone(s)
    /\ Seen(s).finish # <<>> => Gives(s, Seen(s).finish)
    /\ NoEnd(s) => ~Seen(s).done

\* Whatever the events are, if nothing follows the end mark.
LEMMA EventsSeen ==
    \A s \in Seq(Event) : EndsOnce(s) => SeenAsIntended(s)
<1> DEFINE P == {s \in Seq(Event) : EndsOnce(s) => SeenAsIntended(s)}
<1>1. PICK nt \in Seq(Text), nc \in Seq(Characters) : nt = <<>> /\ nc = <<>>
  BY EmptySequence
<1>2. <<>> \in P
  <2>1. Intended(<<>>) = nt
    <3>1. Folded(Intend, nt, <<>>) = nt
      BY IntendStep, FoldedEmpty
    <3> QED
      BY <1>1, <3>1 DEF Intended
  <2>2. Seen(<<>>) = Nothing
    BY ShowEventStep, NothingType, FoldedEmpty DEF Seen
  <2>3. Nothing.shown = <<>> /\ Nothing.finish = <<>> /\ Nothing.done = FALSE
    BY DEF Nothing
  <2>4. GivesNone(<<>>)
    BY DEF GivesNone
  <2>5. <<>> \in Seq(Event)
    BY EmptySequence
  <2> QED
    BY <1>1, <2>1, <2>2, <2>3, <2>4, <2>5 DEF SeenAsIntended
<1>3. ASSUME NEW s \in P, NEW e \in Event PROVE Append(s, e) \in P
  <2>1. s \in Seq(Event) /\ (EndsOnce(s) => SeenAsIntended(s))
    BY <1>3
  <2> HIDE DEF P
  <2>2. PICK v \in Seq(Event) : Extended(v, s, e)
    BY <2>1, AppendOf DEF Extended
  <2>3. PICK w \in SeenState : w = Seen(s)
    BY <2>1, ShowEventStep, NothingType, FoldedType DEF Seen
  <2>4. Seen(v) = ShowEvent[w][e]
    <3>1. Folded(ShowEvent, Nothing, v) =
            ShowEvent[Folded(ShowEvent, Nothing, s)][e]
      BY <2>1, <2>2, ShowEventStep, NothingType, FoldedAppend
    <3> QED
      BY <2>3, <3>1 DEF Seen
  <2>5. PICK t \in Seq(Text) : t = Intended(s)
    <3>1. Folded(Intend, nt, s) \in Seq(Text)
      BY <2>1, IntendStep, FoldedType
    <3> QED
      BY <1>1, <3>1 DEF Intended
  <2>6. Intended(v) = Intend[t][e]
    <3>1. Folded(Intend, nt, v) = Intend[Folded(Intend, nt, s)][e]
      BY <2>1, <2>2, IntendStep, FoldedAppend
    <3> QED
      BY <1>1, <2>5, <3>1 DEF Intended
  <2>7. ASSUME EndsOnce(v) PROVE SeenAsIntended(v)
    <3>1. NoEnd(s) /\ SeenAsIntended(s)
      BY <2>1, <2>2, <2>7, OneEventMore
    <3>2. /\ w.shown = t /\ ~w.done
          /\ w.finish = <<>> => GivesNone(s)
          /\ w.finish # <<>> => Gives(s, w.finish)
      BY <2>3, <2>5, <3>1 DEF SeenAsIntended
    <3>3. /\ \A r : Gives(s, r) => Gives(v, r)
          /\ \A r : e.kind = "delta" /\ e.reason = r => Gives(v, r)
          /\ GivesNone(s) /\ (e.kind = "delta" => e.reason = <<>>)
             => GivesNone(v)
          /\ NoEnd(v) => e # Done
      BY <2>1, <2>2, OneEventMore
    <3>4. CASE e = Comment /\ e.kind = "comment"
      <4>1. e.kind # "delta"
        BY <3>4
      <4>2. ShowEvent[w][e] = w
        BY <3>2, <3>4, ShowEventOne
      <4>3. Intend[t][e] = t
        BY <4>1, IntendOne
      <4>4. Seen(v) = w /\ Intended(v) = t
        BY <2>4, <2>6, <4>2, <4>3
      <4> QED
        BY <3>2, <3>3, <4>1, <4>4 DEF SeenAsIntended
    <3>5. CASE e = Done /\ e.kind = "done"
      <4>1. e.kind # "delta"
        BY <3>5
      <4>2. ShowEvent[w][e] =
              [shown |-> w.shown, finish |-> w.finish, done |-> TRUE]
        BY <3>2, <3>5, ShowEventOne
      <4>3. Intend[t][e] = t
        BY <4>1, IntendOne
      <4>4. Seen(v).shown = t /\ Seen(v).finish = w.finish /\ Intended(v) = t
        BY <2>4, <2>6, <3>2, <4>2, <4>3
      <4> QED
        BY <3>2, <3>3, <3>5, <4>1, <4>4 DEF SeenAsIntended
    <3>6. CASE e.kind = "delta" /\ e.content \in Seq(Text)
      <4>1. ShowEvent[w][e] =
              [shown |-> w.shown \o e.content,
               finish |-> IF e.reason = <<>> THEN w.finish ELSE e.reason,
               done |-> FALSE]
        BY <3>2, <3>6, ShowEventOne
      <4>2. Intend[t][e] = t \o e.content
        BY <3>6, IntendOne
      <4>3. PICK l : l = t \o e.content
        OBVIOUS
      <4>4. PICK f : f = IF e.reason = <<>> THEN w.finish ELSE e.reason
        OBVIOUS
      <4>5. Seen(v) = [shown |-> l, finish |-> f, done |-> FALSE]
        BY <2>4, <3>2, <4>1, <4>3, <4>4
      <4>6. Seen(v).shown = l /\ Seen(v).finish = f /\ Seen(v).done = FALSE
        BY <4>5
      <4>7. Intended(v) = l
        BY <2>6, <4>2, <4>3
      <4>8. f = <<>> => GivesNone(v)
        BY <3>2, <3>3, <4>4
      <4>9. f # <<>> => Gives(v, f)
        BY <3>2, <3>3, <3>6, <4>4
      <4> QED
        BY <4>6, <4>7, <4>8, <4>9 DEF SeenAsIntended
    <3> QED
      BY <3>4, <3>5, <3>6, EventKinds
  <2> QED
    BY <2>2, <2>7 DEF P, Extended
<1>4. P \in SUBSET Seq(Event)
  OBVIOUS
<1> HIDE DEF P
<1>5. P = Seq(Event)
  BY <1>2, <1>3, <1>4, SequenceInduction
<1> QED
  BY <1>5 DEF P

\* What is seen of an answer of the API: what is meant, and that the model ran
\* out of room exactly if a delta says so.
LEMMA AnswerSeen ==
    ASSUME NEW events \in Answers
    PROVE  /\ events \in Seq(Event)
           /\ Seen(events).shown = Intended(events)
           /\ Seen(events).finish = <<"length">>
              <=> Gives(events, <<"length">>)
<1>1. events \in Seq(Event) /\ EndsOnce(events)
  BY AnswersAssumption DEF EndsOnce
<1>2. SeenAsIntended(events)
  BY <1>1, EventsSeen
<1>3. <<"length">> # <<>>
  OBVIOUS
<1>4. Seen(events).finish = <<"length">> => Gives(events, <<"length">>)
  BY <1>2, <1>3 DEF SeenAsIntended
<1>5. ASSUME Gives(events, <<"length">>)
      PROVE  Seen(events).finish = <<"length">>
  <2>1. PICK i \in 1 .. Len(events) :
                 events[i].kind = "delta" /\ events[i].reason = <<"length">>
    BY <1>5 DEF Gives
  <2>2. Seen(events).finish # <<>>
    BY <1>2, <1>3, <2>1 DEF SeenAsIntended, GivesNone
  <2>3. PICK j \in 1 .. Len(events) :
                 /\ events[j].kind = "delta"
                 /\ events[j].reason = Seen(events).finish
    BY <1>2, <2>2 DEF SeenAsIntended, Gives
  <2>4. events[i].reason = events[j].reason
    BY <1>3, <2>1, <2>2, <2>3, AnswersAssumption
  <2> QED
    BY <2>1, <2>3, <2>4
<1> QED
  BY <1>1, <1>2, <1>4, <1>5 DEF SeenAsIntended

-----------------------------------------------------------------------------
(* The request                                                             *)

\* What the request holds between two reads.
Now ==
    State(decoder, buffer,
          [shown |-> shown, finish |-> finish, done |-> FALSE])

\* These are all the bytes of the answer, but for the last line feed perhaps.
Whole(bytes, events) ==
    \/ bytes = Encoding(events)
    \/ bytes \o <<"nl">> = Encoding(events)

\* The state is what taking some bytes made of nothing, and these and the
\* coming ones are the answer.
ReadSoFar ==
    \E read \in Seq(Bytes) :
        /\ Whole(read \o coming, answer)
        /\ Folded(TakeByte, Beginning, read) = Now

\* What a completed request has shown and told.
AllSeen ==
    /\ shown = Intended(answer)
    /\ notices = IF Gives(answer, <<"length">>) THEN <<"truncated">> ELSE <<>>

\* The inductive invariant.
ChatInv ==
    /\ answer \in Answers
    /\ coming \in Seq(Bytes)
    /\ Now \in ReadState
    /\ phase \in {"fetching", "reading"} => notices = <<>>
    /\ phase # "completed" => ReadSoFar
    /\ phase = "completed" => AllSeen

\* The bytes of an answer.
LEMMA EncodingType ==
    ASSUME NEW events \in Answers
    PROVE  /\ Encoding(events) \in Seq(Bytes)
           /\ Folded(TakeByte, Beginning, Encoding(events)) =
                State(FALSE, <<>>, Seen(events))
           /\ Seen(events) \in SeenState
<1>1. events \in Seq(Event)
  BY AnswerSeen
<1>2. TakesTo(Beginning, Encoding(events), <<>>, Seen(events))
  BY <1>1, AnswerTaken
<1> QED
  BY <1>2 DEF TakesTo

\* A sequence is its front and its last element.
LEMMA FrontAndLast ==
    ASSUME NEW T, NEW s \in Seq(T), NEW t \in Seq(T), NEW x \in T,
           Joined(s, t, <<x>>)
    PROVE  Front(s) = t
<1>1. PICK n \in Nat : n = Len(t)
  OBVIOUS
<1>2. Len(s) = n + 1 /\ \A i \in 1 .. n : s[i] = t[i]
  BY <1>1 DEF Joined
<1>3. Front(s) = SubSeq(s, 1, n)
  BY <1>2 DEF Front
<1>4. /\ SubSeq(s, 1, n) \in Seq(T) /\ Len(SubSeq(s, 1, n)) = n
      /\ \A i \in 1 .. n : SubSeq(s, 1, n)[i] = s[i]
  BY <1>2
<1>5. PICK f \in Seq(T) : f = SubSeq(s, 1, n)
  BY <1>4
<1>6. Len(f) = n /\ \A i \in 1 .. n : f[i] = t[i]
  BY <1>2, <1>4, <1>5
<1>7. f = t
  BY <1>1, <1>6, SameSequence
<1> QED
  BY <1>3, <1>5, <1>7

\* An unterminated answer lacks one line feed.
LEMMA EncodeWhole ==
    ASSUME NEW events \in Answers, NEW terminated \in BOOLEAN
    PROVE  /\ Encode(events, terminated) \in Seq(Bytes)
           /\ Whole(Encode(events, terminated), events)
<1>1. events \in Seq(Event)
  BY AnswerSeen
<1>2. Encoding(events) \in Seq(Bytes)
  BY EncodingType
<1>3. CASE terminated
  BY <1>2, <1>3 DEF Encode, Encoding, Whole
<1>4. CASE ~terminated
  <2>1. Encode(events, terminated) = Front(Encoding(events))
    BY <1>4 DEF Encode, Encoding
  <2>2. CASE events = <<>>
    <3>1. PICK nb \in Seq(Bytes) : nb = <<>>
      BY EmptySequence
    <3>2. Folded(EncodeLine, nb, <<>>) = nb
      BY EncodeLineStep, FoldedEmpty
    <3>3. Encoding(events) = <<>>
      BY <2>2, <3>1, <3>2 DEF Encoding
    <3>4. Front(<<>>) = <<>>
      BY DEF Front
    <3> QED
      BY <1>2, <2>1, <3>3, <3>4 DEF Whole
  <2>3. CASE events # <<>>
    <3>1. PICK n \in Nat : Len(events) = n + 1
      <4>1. Len(events) \in Nat /\ Len(events) # 0
        BY <1>1, <2>3
      <4>2. Len(events) - 1 \in Nat /\ Len(events) = (Len(events) - 1) + 1
        BY <4>1
      <4> QED
        BY <4>2
    <3>2. PICK s \in Seq(Event), e \in Event : Extended(events, s, e)
      BY <1>1, <3>1, SequenceEnds DEF Extended
    <3>3. PICK nb \in Seq(Bytes) : nb = <<>>
      BY EmptySequence
    <3>4. Folded(EncodeLine, nb, events) =
            EncodeLine[Folded(EncodeLine, nb, s)][e]
      BY <1>1, <3>2, EncodeLineStep, FoldedAppend
    <3>5. PICK b \in Seq(Bytes) : b = Folded(EncodeLine, nb, s)
      BY EncodeLineStep, FoldedType
    <3>6. Encoding(events) = b \o LineBytes(e)
      <4>1. EncodeLine[b][e] = b \o LineBytes(e)
        BY EncodeLineOne
      <4> QED
        BY <3>3, <3>4, <3>5, <4>1 DEF Encoding
    <3>7. PICK l \in Seq(Bytes) : l = EncodeEvent(e)
      BY EventBytes
    <3>8. PICK x \in Bytes : x = "nl"
      BY SomeBytes
    <3>9. PICK o \in Seq(Bytes) : o = <<x>>
      BY OneElement
    <3>10. (b \o l) \o o = b \o (l \o o)
      BY ConcatThree
    <3>11. PICK f \in Seq(Bytes) : f = b \o l
      BY ConcatOf
    <3>12. Encoding(events) = f \o <<x>>
      BY <3>6, <3>7, <3>8, <3>9, <3>10, <3>11 DEF LineBytes
    <3>13. PICK g \in Seq(Bytes) : g = Encoding(events)
      BY <1>2
    <3>14. Joined(g, f, <<x>>)
      BY <3>12, <3>13 DEF Joined
    <3>15. Front(g) = f
      BY <3>14, FrontAndLast
    <3> QED
      BY <2>1, <3>8, <3>12, <3>13, <3>15 DEF Whole
  <2> QED
    BY <2>2, <2>3
<1> QED
  BY <1>3, <1>4

\* What is left of the answer shows the rest of it.
LEMMA RestShown ==
    ASSUME NEW events \in Answers, NEW read \in Seq(Bytes),
           NEW more \in Seq(Bytes), Whole(read \o more, events),
           NEW t \in ReadState, Folded(TakeByte, Beginning, read) = t
    PROVE  Grown(t.seen, Seen(events))
<1>1. PICK last \in Seq(Bytes) :
              Folded(TakeByte, t, last) = State(FALSE, <<>>, Seen(events))
  <2>1. PICK b \in Seq(Bytes) : b = Encoding(events)
    BY EncodingType
  <2>2. Folded(TakeByte, Beginning, b) = State(FALSE, <<>>, Seen(events))
    BY <2>1, EncodingType
  <2>3. CASE read \o more = b
    <3>1. Folded(TakeByte, Beginning, read \o more) =
            Folded(TakeByte, Folded(TakeByte, Beginning, read), more)
      BY NothingType, BytesThen
    <3> QED
      BY <2>2, <2>3, <3>1
  <2>4. CASE (read \o more) \o <<"nl">> = b
    <3>1. PICK x \in Bytes : x = "nl"
      BY SomeBytes
    <3>2. PICK o \in Seq(Bytes) : o = <<x>>
      BY OneElement
    <3>3. (read \o more) \o o = read \o (more \o o)
      BY ConcatThree
    <3>4. PICK l \in Seq(Bytes) : l = more \o o
      BY ConcatOf
    <3>5. Folded(TakeByte, Beginning, read \o l) =
            Folded(TakeByte, Folded(TakeByte, Beginning, read), l)
      BY NothingType, BytesThen
    <3>6. read \o l = b
      BY <2>4, <3>1, <3>2, <3>3, <3>4
    <3> QED
      BY <2>2, <3>5, <3>6
  <2> QED
    BY <2>1, <2>3, <2>4 DEF Whole
<1>2. Grown(t.seen, Folded(TakeByte, t, last).seen)
  BY TakingGrows
<1>3. State(FALSE, <<>>, Seen(events)).seen = Seen(events)
  BY DEF State
<1> QED
  BY <1>1, <1>2, <1>3

\* When all of it was read, the last line shows the rest.
LEMMA LastShown ==
    ASSUME NEW events \in Answers, NEW read \in Seq(Bytes),
           Whole(read, events),
           NEW held \in BOOLEAN, NEW rest \in Seq(Plain),
           NEW seen \in SeenState,
           ~seen.done,
           Folded(TakeByte, Beginning, read) = State(held, rest, seen)
    PROVE  ShowLine[seen][LastLineOf(held, rest)] = Seen(events)
<1>1. PICK b \in Seq(Bytes) : b = Encoding(events)
  BY EncodingType
<1>2. Folded(TakeByte, Beginning, b) = State(FALSE, <<>>, Seen(events))
  BY <1>1, EncodingType
<1>3. CASE read = b
  <2>1. State(held, rest, seen) = State(FALSE, <<>>, Seen(events))
    BY <1>2, <1>3
  <2>2. held = FALSE /\ rest = <<>> /\ seen = Seen(events)
    BY <2>1 DEF State
  <2>3. LastLineOf(held, rest) = <<>>
    BY <2>2 DEF LastLineOf
  <2>4. PICK l \in Seq(Characters) : l = <<>>
    BY EmptySequence
  <2>5. ~IsDone(l) /\ ~IsDelta(l)
    BY <2>4 DEF IsDone, IsDelta
  <2>6. ShowLine[seen][l] = seen
    BY <2>5, ShowLineOne
  <2> QED
    BY <2>2, <2>3, <2>4, <2>6
<1>4. CASE read \o <<"nl">> = b
  <2>1. PICK x \in Bytes : x = "nl"
    BY SomeBytes
  <2>2. PICK o \in Seq(Bytes) : o = <<x>>
    BY OneElement
  <2>3. PICK u \in ReadState : u = State(held, rest, seen)
    BY StateType
  <2>4. Folded(TakeByte, Beginning, read \o o) =
          Folded(TakeByte, Folded(TakeByte, Beginning, read), o)
    BY NothingType, BytesThen
  <2>5. Folded(TakeByte, u, <<x>>) = TakeByte[u][x]
    BY TakeByteStep, FoldedOne
  <2>6. TakeByte[State(held, rest, seen)]["nl"] =
          State(FALSE, <<>>, ShowLine[seen][LastLineOf(held, rest)])
    BY TakeNewline
  <2>7. State(FALSE, <<>>, ShowLine[seen][LastLineOf(held, rest)]) =
          State(FALSE, <<>>, Seen(events))
    BY <1>2, <1>4, <2>1, <2>2, <2>3, <2>4, <2>5, <2>6
  <2> QED
    BY <2>7 DEF State
<1> QED
  BY <1>1, <1>3, <1>4 DEF Whole

\* The parts of what the request holds.
LEMMA NowParts ==
    ASSUME Now \in ReadState
    PROVE  /\ decoder \in BOOLEAN /\ buffer \in Seq(Plain)
           /\ [shown |-> shown, finish |-> finish, done |-> FALSE]
                \in SeenState
           /\ Now.held = decoder /\ Now.rest = buffer
           /\ Now.seen = [shown |-> shown, finish |-> finish, done |-> FALSE]
           /\ shown \in Seq(Characters) /\ finish \in Seq(Characters)
<1>1. /\ Now.held = decoder /\ Now.rest = buffer
      /\ Now.seen = [shown |-> shown, finish |-> finish, done |-> FALSE]
  BY DEF Now, State
<1>2. /\ Now.held \in BOOLEAN /\ Now.rest \in Seq(Plain)
      /\ Now.seen \in SeenState
  BY DEF ReadState
<1>3. /\ [shown |-> shown, finish |-> finish, done |-> FALSE].shown = shown
      /\ [shown |-> shown, finish |-> finish, done |-> FALSE].finish = finish
  OBVIOUS
<1>4. \A w \in SeenState :
         w.shown \in Seq(Characters) /\ w.finish \in Seq(Characters)
  BY DEF SeenState
<1>5. shown \in Seq(Characters) /\ finish \in Seq(Characters)
  BY <1>1, <1>2, <1>3, <1>4
<1> QED
  BY <1>1, <1>2, <1>5

\* Nothing was read at first.
LEMMA ChatInit == Init => ChatInv
<1> SUFFICES ASSUME Init PROVE ChatInv
  OBVIOUS
<1>1. answer \in Answers
  BY DEF Init
<1>2. PICK terminated \in BOOLEAN : coming = Encode(answer, terminated)
  BY DEF Init
<1>3. coming \in Seq(Bytes) /\ Whole(coming, answer)
  BY <1>1, <1>2, EncodeWhole
<1>4. Now = Beginning
  BY DEF Init, Now, Beginning, Nothing
<1>5. Now \in ReadState
  BY <1>4, NothingType
<1>6. PICK nb \in Seq(Bytes) : nb = <<>>
  BY EmptySequence
<1>7. nb \o coming = coming
  BY <1>3, <1>6, ConcatEmpty
<1>8. Folded(TakeByte, Beginning, nb) = Beginning
  BY <1>6, TakeByteStep, NothingType, FoldedEmpty
<1>9. ReadSoFar
  BY <1>3, <1>4, <1>7, <1>8 DEF ReadSoFar
<1>10. phase = "fetching" /\ notices = <<>>
  BY DEF Init
<1>11. phase # "completed"
  BY <1>10
<1> QED
  BY <1>1, <1>3, <1>5, <1>9, <1>10, <1>11 DEF ChatInv

\* A whole answer that was shown completes the request.
LEMMA ChatCompletes ==
    ASSUME answer \in Answers, UNCHANGED answer, coming' \in Seq(Bytes),
           Now' \in ReadState, notices = <<>>, Complete,
           shown' = Seen(answer).shown, finish' = Seen(answer).finish
    PROVE  ChatInv'
<1>1. phase' = "completed" /\ phase' \notin {"fetching", "reading"}
  BY DEF Complete
<1>2. notices' = IF finish' = <<"length">> THEN <<"truncated">> ELSE <<>>
  <2>1. Append(<<>>, "truncated") = <<"truncated">>
    OBVIOUS
  <2> QED
    BY <2>1 DEF Complete
<1>3. /\ Seen(answer).shown = Intended(answer)
      /\ Seen(answer).finish = <<"length">> <=> Gives(answer, <<"length">>)
  BY AnswerSeen
<1>4. AllSeen'
  BY <1>2, <1>3 DEF AllSeen
<1> QED
  BY <1>1, <1>4 DEF ChatInv

\* A sequence cut in two.
LEMMA CutInTwo ==
    ASSUME NEW T, NEW s \in Seq(T), NEW n \in 1 .. Len(s)
    PROVE  /\ SubSeq(s, 1, n) \in Seq(T)
           /\ SubSeq(s, n + 1, Len(s)) \in Seq(T)
<1>1. n \in Nat /\ n <= Len(s) /\ Len(s) \in Nat
  OBVIOUS
<1>2. \A i \in 1 .. n : i \in 1 .. Len(s)
  BY <1>1
<1>3. \A i \in n + 1 .. Len(s) : i \in 1 .. Len(s)
  BY <1>1
<1>4. SubSeq(s, 1, n) \in Seq(T)
  BY <1>1, <1>2
<1>5. SubSeq(s, n + 1, Len(s)) \in Seq(T)
  BY <1>1, <1>3
<1> QED
  BY <1>4, <1>5

\* A chunk.
LEMMA ChatReadChunk ==
    ASSUME ChatInv, NEW n \in 1 .. Len(coming), ReadChunk(n)
    PROVE  ChatInv'
<1>1. /\ answer \in Answers /\ coming \in Seq(Bytes) /\ Now \in ReadState
      /\ notices = <<>> /\ phase # "completed" /\ ReadSoFar
  BY DEF ChatInv, ReadChunk
<1>2. PICK chunk \in Seq(Bytes) : chunk = SubSeq(coming, 1, n)
  BY <1>1, CutInTwo
<1>3. PICK left \in Seq(Bytes) : left = SubSeq(coming, n + 1, Len(coming))
  BY <1>1, CutInTwo
<1>4. coming = chunk \o left
  BY <1>1, <1>2, <1>3
<1>5. coming' = left /\ UNCHANGED <<answer, cancelled>>
  BY <1>3 DEF ReadChunk
<1>6. PICK t \in ReadState : t = Now
  BY <1>1
<1>7. PICK u \in ReadState : u = ChunkRead(t, chunk)
  BY ChunksDoNotMatter, TakingGrows
<1>8. u = Folded(TakeByte, t, chunk)
  BY <1>7, ChunksDoNotMatter
<1>9. /\ t.held = decoder /\ t.rest = buffer
      /\ t.seen = [shown |-> shown, finish |-> finish, done |-> FALSE]
  BY <1>1, <1>6, NowParts
<1>10. /\ decoder' = u.held /\ buffer' = u.rest
       /\ shown' = u.seen.shown /\ finish' = u.seen.finish
       /\ IF u.seen.done THEN Complete ELSE UNCHANGED <<phase, notices>>
  <2> DEFINE decoded == Decode(decoder, chunk)
             split == SplitLines(buffer \o decoded.out)
             seen == Show(split.lines)
  <2>1. u = [held |-> decoded.held, rest |-> split.rest, seen |-> seen]
    BY <1>7, <1>9 DEF ChunkRead, Show
  <2>2. /\ decoder' = decoded.held /\ buffer' = split.rest
        /\ shown' = seen.shown /\ finish' = seen.finish
        /\ IF seen.done THEN Complete ELSE UNCHANGED <<phase, notices>>
    BY <1>2 DEF ReadChunk
  <2> HIDE DEF decoded, split, seen
  <2>3. u.held = decoded.held /\ u.rest = split.rest /\ u.seen = seen
    BY <2>1
  <2> QED
    BY <2>2, <2>3
<1>11. PICK read \in Seq(Bytes) : /\ Whole(read \o coming, answer)
                                  /\ Folded(TakeByte, Beginning, read) = t
  BY <1>1, <1>6 DEF ReadSoFar
<1>12. PICK more \in Seq(Bytes) : more = read \o chunk
  BY ConcatOf
<1>13. Whole(more \o left, answer)
  <2>1. (read \o chunk) \o left = read \o (chunk \o left)
    BY ConcatThree
  <2> QED
    BY <1>4, <1>11, <1>12, <2>1
<1>14. Folded(TakeByte, Beginning, more) = u
  <2>1. Folded(TakeByte, Beginning, read \o chunk) =
          Folded(TakeByte, Folded(TakeByte, Beginning, read), chunk)
    BY NothingType, BytesThen
  <2> QED
    BY <1>8, <1>11, <1>12, <2>1
<1>15. /\ u.held \in BOOLEAN /\ u.rest \in Seq(Plain) /\ u.seen \in SeenState
       /\ u = [held |-> u.held, rest |-> u.rest, seen |-> u.seen]
  BY DEF ReadState
<1>16. /\ u.seen.shown \in Seq(Characters) /\ u.seen.finish \in Seq(Characters)
       /\ u.seen.done \in BOOLEAN
       /\ u.seen = [shown |-> u.seen.shown, finish |-> u.seen.finish,
                    done |-> u.seen.done]
  BY <1>15 DEF SeenState
<1>17. Now' = State(u.held, u.rest, [shown |-> u.seen.shown,
                                     finish |-> u.seen.finish, done |-> FALSE])
  BY <1>10 DEF Now
<1>18. Now' \in ReadState
  <2>1. [shown |-> u.seen.shown, finish |-> u.seen.finish, done |-> FALSE]
          \in SeenState
    BY <1>16 DEF SeenState
  <2> QED
    BY <1>15, <1>17, <2>1, StateType
<1>19. CASE u.seen.done
  <2>1. Grown(u.seen, Seen(answer))
    BY <1>1, <1>13, <1>14, RestShown
  <2>2. u.seen = Seen(answer)
    BY <1>19, <2>1 DEF Grown
  <2> QED
    BY <1>1, <1>5, <1>10, <1>18, <1>19, <2>2, ChatCompletes
<1>20. CASE ~u.seen.done
  <2>1. Now' = u
    <3>1. u.seen.done = FALSE
      BY <1>16, <1>20
    <3>2. u.seen = [shown |-> u.seen.shown, finish |-> u.seen.finish,
                    done |-> FALSE]
      BY <1>16, <3>1
    <3> QED
      BY <1>15, <1>17, <3>2 DEF State
  <2>2. ReadSoFar'
    BY <1>5, <1>13, <1>14, <2>1 DEF ReadSoFar
  <2>3. UNCHANGED <<phase, notices>>
    BY <1>10, <1>20
  <2> QED
    BY <1>1, <1>5, <1>18, <2>2, <2>3 DEF ChatInv
<1> QED
  BY <1>19, <1>20

\* The end of the body.
LEMMA ChatReadDone ==
    ASSUME ChatInv, ReadDone
    PROVE  ChatInv'
<1>1. /\ answer \in Answers /\ coming \in Seq(Bytes) /\ Now \in ReadState
      /\ notices = <<>> /\ ReadSoFar /\ coming = <<>>
  BY DEF ChatInv, ReadDone
<1>2. PICK seen \in SeenState :
              seen = [shown |-> shown, finish |-> finish, done |-> FALSE]
  BY <1>1, NowParts
<1>3. decoder \in BOOLEAN /\ buffer \in Seq(Plain)
  BY <1>1, NowParts
<1>4. Now = State(decoder, buffer, seen)
  BY <1>2 DEF Now
<1>5. PICK read \in Seq(Bytes) : /\ Whole(read \o <<>>, answer)
                                 /\ Folded(TakeByte, Beginning, read) = Now
  BY <1>1 DEF ReadSoFar
<1>6. Whole(read, answer)
  BY <1>5, ConcatEmpty
<1>7. ~seen.done
  BY <1>2
<1>8. ShowLine[seen][LastLineOf(decoder, buffer)] = Seen(answer)
  BY <1>1, <1>3, <1>4, <1>5, <1>6, <1>7, LastShown
<1>9. Show(LastLine) = Seen(answer)
  <2>1. PICK l \in Seq(Characters) : l = LastLineOf(decoder, buffer)
    <3>1. LastLineOf(decoder, buffer) \in Seq(Plain)
      BY <1>1, <1>2, <1>3, TakeNewline
    <3> QED
      BY <3>1, PlainType
  <2>2. LastLine = <<l>>
    BY <2>1 DEF LastLine, LastLineOf
  <2>3. Folded(ShowLine, seen, <<l>>) = ShowLine[seen][l]
    BY ShowLineStep, FoldedOne
  <2> QED
    BY <1>2, <1>8, <2>1, <2>2, <2>3 DEF Show
<1>10. /\ shown' = Seen(answer).shown /\ finish' = Seen(answer).finish
       /\ Complete
       /\ UNCHANGED <<answer, coming, decoder, buffer, cancelled>>
  BY <1>9 DEF ReadDone
<1>11. Now' \in ReadState
  <2>1. Seen(answer) \in SeenState
    BY <1>1, EncodingType
  <2>2. [shown |-> Seen(answer).shown, finish |-> Seen(answer).finish,
         done |-> FALSE] \in SeenState
    BY <2>1 DEF SeenState
  <2>3. Now' = State(decoder, buffer,
                     [shown |-> Seen(answer).shown,
                      finish |-> Seen(answer).finish, done |-> FALSE])
    BY <1>10 DEF Now
  <2> QED
    BY <1>3, <2>2, <2>3, StateType
<1> QED
  BY <1>1, <1>10, <1>11, ChatCompletes

\* Whatever reads nothing and does not complete the request.
LEMMA ChatKept ==
    ASSUME ChatInv, phase # "completed", phase' # "completed",
           phase' \in {"fetching", "reading"} => notices' = <<>>,
           UNCHANGED <<answer, coming, decoder, buffer, shown, finish>>
    PROVE  ChatInv'
<1>1. UNCHANGED <<answer, coming, Now>>
  BY DEF Now
<1>2. /\ answer \in Answers /\ coming \in Seq(Bytes) /\ Now \in ReadState
      /\ ReadSoFar
  BY DEF ChatInv
<1>3. ReadSoFar'
  BY <1>1, <1>2 DEF ReadSoFar
<1> QED
  BY <1>1, <1>2, <1>3 DEF ChatInv

\* Every step.
LEMMA ChatNext == ChatInv /\ [Next]_vars => ChatInv'
<1> SUFFICES ASSUME ChatInv, [Next]_vars PROVE ChatInv'
  OBVIOUS
<1>1. CASE FetchAnswered
  <2>1. phase = "fetching" /\ phase' = "reading" /\ UNCHANGED notices
    BY <1>1 DEF FetchAnswered
  <2>2. notices' = <<>>
    BY <2>1 DEF ChatInv
  <2> QED
    BY <1>1, <2>1, <2>2, ChatKept DEF FetchAnswered
<1>2. CASE FetchFails
  BY <1>2, ChatKept DEF FetchFails, Fail
<1>3. CASE ReadFails
  BY <1>3, ChatKept DEF ReadFails, Fail
<1>4. CASE ReadDone
  BY <1>4, ChatReadDone
<1>5. CASE \E n \in 1 .. Len(coming) : ReadChunk(n)
  BY <1>5, ChatReadChunk
<1>6. CASE Cancel
  <2>1. phase # "completed"
    BY <1>6 DEF Cancel, Ends
  <2>2. UNCHANGED <<phase, notices>>
    BY <1>6 DEF Cancel
  <2>3. phase' \in {"fetching", "reading"} => notices' = <<>>
    BY <2>2 DEF ChatInv
  <2> QED
    BY <1>6, <2>1, <2>2, <2>3, ChatKept DEF Cancel
<1>7. CASE UNCHANGED vars
  <2>1. UNCHANGED <<answer, coming, Now, phase, notices, shown>>
    BY <1>7 DEF vars, Now
  <2>2. ReadSoFar => ReadSoFar'
    BY <2>1 DEF ReadSoFar
  <2>3. AllSeen => AllSeen'
    BY <2>1 DEF AllSeen
  <2> QED
    BY <2>1, <2>2, <2>3 DEF ChatInv
<1> QED
  BY <1>1, <1>2, <1>3, <1>4, <1>5, <1>6, <1>7 DEF Next, Read

\* In every reachable state what is held is what taking some bytes of the
\* answer, one by one, makes of nothing, and nothing is told yet; a completed
\* request has shown it all.
THEOREM ReadByteByByte == Spec => []ChatInv
<1>1. Init => ChatInv
  BY ChatInit
<1>2. ChatInv /\ [Next]_vars => ChatInv'
  BY ChatNext
<1> QED
  BY <1>1, <1>2, PTL DEF Spec

\* A sequence and more starts with it.
LEMMA PrefixOf ==
    ASSUME NEW T, NEW s \in Seq(T), NEW x \in Seq(T)
    PROVE  IsPrefix(s, s \o x)
<1>1. PICK n \in Nat : n = Len(s)
  OBVIOUS
<1>2. PICK t \in Seq(T) : t = s \o x
  BY ConcatOf
<1>3. n <= Len(t) /\ \A i \in 1 .. n : t[i] = s[i]
  BY <1>1, <1>2, ConcatOf
<1>4. /\ SubSeq(t, 1, n) \in Seq(T) /\ Len(SubSeq(t, 1, n)) = n
      /\ \A i \in 1 .. n : SubSeq(t, 1, n)[i] = t[i]
  BY <1>3
<1>5. /\ SubSeq(s, 1, n) \in Seq(T) /\ Len(SubSeq(s, 1, n)) = n
      /\ \A i \in 1 .. n : SubSeq(s, 1, n)[i] = s[i]
  BY <1>1
<1>6. PICK p \in Seq(T), q \in Seq(T) :
              p = SubSeq(s, 1, n) /\ q = SubSeq(t, 1, n)
  BY <1>4, <1>5
<1>7. /\ Len(p) = Len(q)
      /\ \A i \in 1 .. Len(p) : p[i] = q[i]
  BY <1>3, <1>4, <1>5, <1>6
<1>8. p = q
  BY <1>7, SameSequence
<1> QED
  BY <1>1, <1>2, <1>3, <1>6, <1>8 DEF IsPrefix

\* Wherever the chunks are cut, for every answer of the API, what the user
\* sees is the start of it.
THEOREM ShownIsAPrefix == Spec => []ShownIsPrefix
<1>1. ChatInv => ShownIsPrefix
  <2> SUFFICES ASSUME ChatInv PROVE ShownIsPrefix
    OBVIOUS
  <2>1. answer \in Answers /\ coming \in Seq(Bytes) /\ Now \in ReadState
    BY DEF ChatInv
  <2>2. PICK s \in Seq(Characters) : s = shown
    BY <2>1, NowParts
  <2>3. \E x \in Seq(Characters) : Intended(answer) = s \o x
    <3>1. CASE phase = "completed"
      <4>1. Intended(answer) = s
        BY <2>2, <3>1 DEF ChatInv, AllSeen
      <4>2. s = s \o <<>> /\ <<>> \in Seq(Characters)
        BY ConcatEmpty, EmptySequence
      <4> QED
        BY <4>1, <4>2
    <3>2. CASE phase # "completed"
      <4>1. PICK read \in Seq(Bytes) :
                    /\ Whole(read \o coming, answer)
                    /\ Folded(TakeByte, Beginning, read) = Now
        BY <3>2 DEF ChatInv, ReadSoFar
      <4>2. Grown(Now.seen, Seen(answer))
        BY <2>1, <4>1, RestShown
      <4>3. Now.seen.shown = s
        BY <2>1, <2>2, NowParts
      <4>4. Seen(answer).shown = Intended(answer)
        BY <2>1, AnswerSeen
      <4> QED
        BY <4>2, <4>3, <4>4 DEF Grown
    <3> QED
      BY <3>1, <3>2
  <2> QED
    BY <2>2, <2>3, PrefixOf DEF ShownIsPrefix
<1> QED
  BY <1>1, ReadByteByByte, PTL

\* A request that completes has shown the whole answer, and says that it was
\* truncated exactly if a delta of it says so.
THEOREM CompletedIsTheWhole == Spec => []CompletedIsWhole
<1>1. ChatInv => CompletedIsWhole
  <2> SUFFICES ASSUME ChatInv, phase = "completed"
               PROVE  /\ shown = Intended(answer)
                      /\ (ToSet(notices) = {"truncated"}) <=>
                            Gives(answer, <<"length">>)
    BY DEF CompletedIsWhole, Gives
  <2>1. AllSeen
    BY DEF ChatInv
  <2>2. ToSet(<<"truncated">>) = {"truncated"}
    BY DEF ToSet
  <2>3. ToSet(<<>>) # {"truncated"}
    BY DEF ToSet
  <2> QED
    BY <2>1, <2>2, <2>3 DEF AllSeen
<1> QED
  BY <1>1, ReadByteByByte, PTL
=============================================================================
