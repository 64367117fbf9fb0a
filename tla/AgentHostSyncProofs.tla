------------------------ MODULE AgentHostSyncProofs -------------------------
(***************************************************************************)
(* Proofs about AgentHostSync, for every value of its constants: its       *)
(* types, what holds of every connection, however resources are restored   *)
(* and whatever overtakes what, and what holds when every resource of a    *)
(* reconnection is in memory and no transport overtakes an earlier one     *)
(* (Warm). Without either hypothesis of Warm, TLC finds a counterexample   *)
(* to each of the properties of the last part.                             *)
(*                                                                         *)
(* Base adds to the types that the client uses its transports one after    *)
(* the other. On it rest ServedInv, which says of every answer on its way  *)
(* that it is complete and that its connection is served, and OwnInv,      *)
(* which says of the numbers of actions that they were given out, and of a *)
(* server that has not forgotten the client that it never has to be asked  *)
(* to initialize it again.                                                 *)
(*                                                                         *)
(* WarmInv says what a transport may carry to the client: the envelopes    *)
(* after those it has seen, without a gap, or an answer that brings it up  *)
(* to some envelope, and then those after that. What it has confirmed is   *)
(* then the history of each channel, which is InSync and the refinement of *)
(* LogFollower.                                                            *)
(*                                                                         *)
(* OrderInv says, of a client whose server remembers it and has queued     *)
(* nothing, where each of its actions is: in the outbox and never sent; on *)
(* a transport, behind those before it; taken by the server and on its way *)
(* back; or seen. So what is sent again was not taken before.              *)
(*                                                                         *)
(* The first sections are about the operators of the model, none of which  *)
(* the provers know by induction: an operator computed by a recursive      *)
(* function is given the sequence of its intermediate results (Iterates).  *)
(***************************************************************************)
EXTENDS AgentHostSync, FiniteSetTheorems, WellFoundedInduction, TLAPS

\* Induction over the natural numbers, as a set that is closed under successor.
LEMMA Induction ==
    ASSUME NEW S \in SUBSET Nat, 0 \in S, \A n \in S : n + 1 \in S
    PROVE  S = Nat
<1> SUFFICES ASSUME Nat \ S # {} PROVE FALSE
  OBVIOUS
<1> DEFINE T == Nat \ S
           R == OpToRel(<, Nat)
<1>1. IsWellFoundedOn(R, Nat)
  BY NatLessThanWellFounded
<1>2. R = {ss \in Nat \X Nat : ss[1] < ss[2]}
  BY DEF OpToRel
<1>3. T \in SUBSET Nat /\ T # {}
  OBVIOUS
<1> HIDE DEF R, T
<1>4. \E x \in T : \A y \in T : ~ (<<y, x>> \in R)
  BY <1>1, <1>3, WFMin, Zenon
<1>5. PICK x \in T : \A y \in T : x <= y
  <2>1. \A x, y \in Nat : ~ (<<y, x>> \in R) => x <= y
    BY <1>2
  <2> QED
    BY <1>3, <1>4, <2>1
<1>6. x # 0 /\ x - 1 \in Nat /\ x \in Nat
  BY <1>5 DEF T
<1>7. x - 1 \in S
  BY <1>5, <1>6 DEF T
<1> QED
  BY <1>5, <1>6, <1>7 DEF T

\* f is v, step[1] of v, step[2] of that, and so on up to n.
Iterates(f, v, step, n) ==
    f = [i \in 0 .. n |-> IF i = 0 THEN v ELSE step[i][f[i - 1]]]

\* A recursive definition on 0 .. n has a solution, of the type of its values.
LEMMA IterationExists ==
    ASSUME NEW V, NEW v \in V, NEW step \in [Nat \ {0} -> [V -> V]],
           NEW n \in Nat
    PROVE  \E f \in [0 .. n -> V] : Iterates(f, v, step, n)
<1> DEFINE S == {m \in Nat : \E f \in [0 .. m -> V] : Iterates(f, v, step, m)}
<1>1. 0 \in S
  <2> DEFINE f == [i \in 0 .. 0 |-> v]
  <2>1. f \in [0 .. 0 -> V] /\ Iterates(f, v, step, 0)
    BY DEF Iterates
  <2> QED
    BY <2>1
<1>2. ASSUME NEW m \in S PROVE m + 1 \in S
  <2>1. PICK f \in [0 .. m -> V] : Iterates(f, v, step, m)
    BY <1>2
  <2> DEFINE g == [i \in 0 .. m + 1 |-> IF i = m + 1 THEN step[m + 1][f[m]]
                                       ELSE f[i]]
  <2>2. m \in Nat /\ m + 1 \in Nat \ {0} /\ f[m] \in V
    OBVIOUS
  <2>3. step[m + 1][f[m]] \in V
    BY <2>2
  <2>4. g \in [0 .. m + 1 -> V]
    BY <2>2, <2>3
  <2>5. \A i \in 0 .. m + 1 :
            g[i] = IF i = 0 THEN v ELSE step[i][g[i - 1]]
    <3> SUFFICES ASSUME NEW i \in 0 .. m + 1
                 PROVE  g[i] = IF i = 0 THEN v ELSE step[i][g[i - 1]]
      OBVIOUS
    <3>1. CASE i = m + 1
      <4>1. /\ i # 0 /\ i - 1 = m /\ g[i] = step[m + 1][f[m]]
            /\ m # m + 1 /\ m \in 0 .. m + 1 /\ g[m] = f[m]
        BY <3>1, <2>2
      <4> QED
        BY <4>1, <3>1
    <3>2. CASE i # m + 1
      <4>1. i \in 0 .. m /\ g[i] = f[i]
        BY <3>2, <2>2
      <4>2. i # 0 => i - 1 \in 0 .. m /\ i - 1 # m + 1 /\ g[i - 1] = f[i - 1]
        BY <4>1, <2>2
      <4>3. f[i] = IF i = 0 THEN v ELSE step[i][f[i - 1]]
        BY <2>1, <4>1 DEF Iterates
      <4> HIDE DEF g
      <4> QED
        BY <4>1, <4>2, <4>3
    <3> QED
      BY <3>1, <3>2
  <2>6. Iterates(g, v, step, m + 1)
    BY <2>5 DEF Iterates
  <2> QED
    BY <2>2, <2>4, <2>6
<1>3. S \in SUBSET Nat
  OBVIOUS
<1> HIDE DEF S
<1>4. S = Nat
  BY <1>1, <1>2, <1>3, Induction
<1> QED
  BY <1>4 DEF S

\* Two solutions agree as far as both are defined.
LEMMA IterationUnique ==
    ASSUME NEW v, NEW step, NEW m \in Nat, NEW n \in Nat, m <= n,
           NEW f, NEW g, Iterates(f, v, step, m), Iterates(g, v, step, n)
    PROVE  \A i \in 0 .. m : f[i] = g[i]
<1> DEFINE S == {i \in Nat : i <= m => f[i] = g[i]}
<1>1. 0 \in S
  BY DEF Iterates
<1>2. ASSUME NEW i \in S PROVE i + 1 \in S
  <2> SUFFICES ASSUME i + 1 <= m PROVE f[i + 1] = g[i + 1]
    OBVIOUS
  <2>1. i \in Nat /\ f[i] = g[i] /\ i + 1 \in 0 .. m /\ i + 1 \in 0 .. n
    BY <1>2
  <2>2. f[i + 1] = step[i + 1][f[i]]
    BY <2>1 DEF Iterates
  <2>3. g[i + 1] = step[i + 1][g[i]]
    BY <2>1 DEF Iterates
  <2> QED
    BY <2>1, <2>2, <2>3
<1>3. S \in SUBSET Nat
  OBVIOUS
<1> HIDE DEF S
<1>4. S = Nat
  BY <1>1, <1>2, <1>3, Induction
<1> QED
  BY <1>4 DEF S

-----------------------------------------------------------------------------
(* Selecting from a sequence                                               *)

\* One step of Selected.
SelectStep(s, S, T) ==
    [i \in Nat \ {0} |->
        [v \in Seq(T) |-> IF i \in 1 .. Len(s) /\ s[i] \in S
                          THEN Append(v, s[i]) ELSE v]]

\* One step of the selection appends to a sequence or leaves it.
LEMMA SelectStepType ==
    ASSUME NEW T, NEW s \in Seq(T), NEW S
    PROVE  SelectStep(s, S, T) \in [Nat \ {0} -> [Seq(T) -> Seq(T)]]
BY DEF SelectStep

\* What Selected computes, as an iteration.
LEMMA SelectedIterates ==
    ASSUME NEW T, NEW s \in Seq(T), NEW S
    PROVE  \E f \in [0 .. Len(s) -> Seq(T)] :
              /\ Iterates(f, <<>>, SelectStep(s, S, T), Len(s))
              /\ Selected(s, S) = f[Len(s)]
<1> DEFINE G(g) == [i \in 0 .. Len(s) |->
                       IF i = 0 THEN <<>>
                       ELSE IF s[i] \in S THEN Append(g[i - 1], s[i])
                       ELSE g[i - 1]]
           h == CHOOSE g : g = G(g)
           n == Len(s)
<1>1. Selected(s, S) = h[Len(s)]
  BY DEF Selected
<1>2. n \in Nat
  OBVIOUS
<1>3. PICK f \in [0 .. n -> Seq(T)] : Iterates(f, <<>>, SelectStep(s, S, T), n)
  <2>1. SelectStep(s, S, T) \in [Nat \ {0} -> [Seq(T) -> Seq(T)]]
    BY SelectStepType
  <2>2. <<>> \in Seq(T)
    OBVIOUS
  <2> HIDE DEF n
  <2> QED
    BY <1>2, <2>1, <2>2, IterationExists
<1>4. \A i \in 0 .. n : f[i] = IF i = 0 THEN <<>>
                               ELSE IF s[i] \in S THEN Append(f[i - 1], s[i])
                               ELSE f[i - 1]
  <2> SUFFICES ASSUME NEW i \in 0 .. n
               PROVE  f[i] = IF i = 0 THEN <<>>
                             ELSE IF s[i] \in S THEN Append(f[i - 1], s[i])
                             ELSE f[i - 1]
    OBVIOUS
  <2>3. CASE i = 0
    BY <1>2, <1>3, <2>3 DEF Iterates
  <2>4. SUFFICES ASSUME i # 0 PROVE f[i] = IF s[i] \in S THEN Append(f[i - 1], s[i])
                             ELSE f[i - 1]
    BY <2>3
  <2>0. i \in 0 .. n /\ i # 0 /\ i - 1 \in 0 .. n /\ i \in Nat \ {0}
    BY <1>2, <2>4
  <2>1. f[i] = SelectStep(s, S, T)[i][f[i - 1]]
    BY <1>3, <2>0 DEF Iterates
  <2>2. f[i - 1] \in Seq(T) /\ i \in Nat \ {0}
    BY <1>3, <2>0
  <2> QED
    BY <2>1, <2>2 DEF SelectStep
<1>5. f = G(f)
  BY <1>3, <1>4
<1>6. h = G(h)
  <2> HIDE DEF G
  <2> QED
    BY <1>5
<1> HIDE DEF h
<1>7. h[n] = f[n]
  <2> DEFINE I == {i \in Nat : i <= n => h[i] = f[i]}
  <2>1. 0 \in I
    BY <1>6, <1>4
  <2>2. ASSUME NEW i \in I PROVE i + 1 \in I
    <3> SUFFICES ASSUME i + 1 <= n PROVE h[i + 1] = f[i + 1]
      OBVIOUS
    <3>1. i \in Nat /\ h[i] = f[i] /\ i + 1 \in 0 .. n /\ i + 1 # 0
          /\ (i + 1) - 1 = i
      BY <2>2
    <3>2. h[i + 1] = IF s[i + 1] \in S THEN Append(h[i], s[i + 1]) ELSE h[i]
      BY <3>1, <1>6
    <3>3. f[i + 1] = IF s[i + 1] \in S THEN Append(f[i], s[i + 1]) ELSE f[i]
      BY <3>1, <1>4
    <3> QED
      BY <3>1, <3>2, <3>3
  <2>3. I \in SUBSET Nat
    OBVIOUS
  <2> HIDE DEF I
  <2>4. I = Nat
    BY <2>1, <2>2, <2>3, Induction
  <2> QED
    BY <2>4, <1>2 DEF I
<1> QED
  BY <1>1, <1>3, <1>7

\* Selected keeps the type.
LEMMA SelectedType ==
    ASSUME NEW T, NEW s \in Seq(T), NEW S
    PROVE  Selected(s, S) \in Seq(T)
<1>1. PICK f \in [0 .. Len(s) -> Seq(T)] : Selected(s, S) = f[Len(s)]
  BY SelectedIterates
<1>2. Len(s) \in 0 .. Len(s)
  OBVIOUS
<1> QED
  BY <1>1, <1>2

\* Nothing is selected from an empty sequence.
LEMMA SelectedEmpty ==
    ASSUME NEW S
    PROVE  Selected(<<>>, S) = <<>>
<1>1. <<>> \in Seq({}) /\ Len(<<>>) = 0
  OBVIOUS
<1>2. PICK f \in [0 .. Len(<<>>) -> Seq({})] :
          /\ Iterates(f, <<>>, SelectStep(<<>>, S, {}), Len(<<>>))
          /\ Selected(<<>>, S) = f[Len(<<>>)]
  BY <1>1, SelectedIterates
<1> QED
  BY <1>1, <1>2 DEF Iterates

\* One more element.
LEMMA SelectedAppend ==
    ASSUME NEW T, NEW s \in Seq(T), NEW x \in T, NEW S, NEW R,
           \A i \in 1 .. Len(s) : s[i] \in S <=> s[i] \in R
    PROVE  Selected(Append(s, x), S) =
              IF x \in S THEN Append(Selected(s, R), x) ELSE Selected(s, R)
<1> DEFINE t == Append(s, x)
           n == Len(s)
<1>1. /\ t \in Seq(T) /\ n \in Nat /\ Len(t) = n + 1 /\ t[n + 1] = x
      /\ \A i \in 1 .. n : t[i] = s[i]
  OBVIOUS
<1> HIDE DEF t
<1>2. PICK f \in [0 .. n -> Seq(T)] :
          /\ Iterates(f, <<>>, SelectStep(s, R, T), n)
          /\ Selected(s, R) = f[n]
  BY SelectedIterates
<1>3. PICK g \in [0 .. n + 1 -> Seq(T)] :
          /\ Iterates(g, <<>>, SelectStep(t, S, T), n + 1)
          /\ Selected(t, S) = g[n + 1]
  BY <1>1, SelectedIterates
<1> HIDE DEF n
<1>4. ASSUME NEW i \in 1 .. n
      PROVE  SelectStep(t, S, T)[i] = SelectStep(s, R, T)[i]
  <2>1. i \in Nat \ {0} /\ t[i] = s[i] /\ i \in 1 .. Len(t) /\ i \in 1 .. Len(s)
        /\ (s[i] \in S <=> s[i] \in R)
    BY <1>1 DEF n
  <2> QED
    BY <2>1 DEF SelectStep
<1>5. \A i \in 0 .. n : g[i] = f[i]
  <2> DEFINE I == {i \in Nat : i <= n => g[i] = f[i]}
  <2>1. 0 \in I
    BY <1>1, <1>2, <1>3 DEF Iterates
  <2>2. ASSUME NEW i \in I PROVE i + 1 \in I
    <3> SUFFICES ASSUME i + 1 <= n PROVE g[i + 1] = f[i + 1]
      OBVIOUS
    <3>1. /\ i \in Nat /\ g[i] = f[i] /\ i + 1 \in 1 .. n /\ i + 1 # 0
          /\ i + 1 \in 0 .. n /\ i + 1 \in 0 .. n + 1 /\ (i + 1) - 1 = i
      BY <2>2, <1>1
    <3>2. g[i + 1] = SelectStep(t, S, T)[i + 1][g[i]]
      BY <3>1, <1>3 DEF Iterates
    <3>3. f[i + 1] = SelectStep(s, R, T)[i + 1][f[i]]
      BY <3>1, <1>2 DEF Iterates
    <3> QED
      BY <3>1, <3>2, <3>3, <1>4
  <2>3. I \in SUBSET Nat
    OBVIOUS
  <2> HIDE DEF I
  <2>4. I = Nat
    BY <2>1, <2>2, <2>3, Induction
  <2> QED
    BY <2>4 DEF I
<1>6. g[n + 1] = SelectStep(t, S, T)[n + 1][g[n]]
  BY <1>1, <1>3 DEF Iterates
<1>7. g[n] = f[n] /\ f[n] \in Seq(T) /\ n + 1 \in Nat \ {0}
  BY <1>1, <1>2, <1>5
<1>8. Selected(t, S) = IF x \in S THEN Append(f[n], x) ELSE f[n]
  BY <1>1, <1>3, <1>6, <1>7 DEF SelectStep
<1> QED
  BY <1>2, <1>8 DEF t

\* r is what s has at the places e, in order.
Embeds(r, s, e) ==
    /\ e \in [1 .. Len(r) -> 1 .. Len(s)]
    /\ \A j \in 1 .. Len(r) : r[j] = s[e[j]]
    /\ \A i, j \in 1 .. Len(r) : i < j => e[i] < e[j]

\* r is what S selects of the first n elements of s.
Selects(r, s, S, T, n) ==
    /\ r \in Seq(T)
    /\ \E e : /\ e \in [1 .. Len(r) -> 1 .. n]
              /\ \A j \in 1 .. Len(r) : r[j] = s[e[j]]
              /\ \A a, b \in 1 .. Len(r) : a < b => e[a] < e[b]
    /\ \A j \in 1 .. Len(r) : r[j] \in S
    /\ \A i \in 1 .. n : s[i] \in S => \E j \in 1 .. Len(r) : r[j] = s[i]

\* Selected takes all that is in the set and nothing else, in order.
LEMMA SelectedSelects ==
    ASSUME NEW T, NEW s \in Seq(T), NEW S
    PROVE  Selects(Selected(s, S), s, S, T, Len(s))
<1>1. PICK f \in [0 .. Len(s) -> Seq(T)] :
          /\ Iterates(f, <<>>, SelectStep(s, S, T), Len(s))
          /\ Selected(s, S) = f[Len(s)]
  BY SelectedIterates
<1> DEFINE N == Len(s)
           I == {n \in Nat : n <= N => Selects(f[n], s, S, T, n)}
<1>2. N \in Nat /\ \A i \in 1 .. N : s[i] \in T
  OBVIOUS
<1>3. 0 \in I
  <2>1. f[0] = <<>> /\ <<>> \in Seq(T) /\ Len(<<>>) = 0
    BY <1>1, <1>2 DEF Iterates
  <2>2. \E e : /\ e \in [1 .. Len(<<>>) -> 1 .. 0]
               /\ \A j \in 1 .. Len(<<>>) : <<>>[j] = s[e[j]]
               /\ \A a, b \in 1 .. Len(<<>>) : a < b => e[a] < e[b]
    <3> WITNESS [j \in 1 .. 0 |-> j]
    <3> QED
      BY <2>1
  <2> QED
    BY <2>1, <2>2 DEF Selects
<1>4. ASSUME NEW n \in I PROVE n + 1 \in I
  <2> SUFFICES ASSUME n + 1 <= N PROVE Selects(f[n + 1], s, S, T, n + 1)
    OBVIOUS
  <2> DEFINE r == f[n]
             x == s[n + 1]
             q == f[n + 1]
  <2>1. /\ n \in Nat /\ n + 1 \in 1 .. N /\ n + 1 \in 0 .. N /\ n \in 0 .. N
        /\ n + 1 # 0 /\ (n + 1) - 1 = n /\ n + 1 \in Nat \ {0}
    BY <1>2, <1>4
  <2>2. Selects(r, s, S, T, n)
    BY <1>4, <2>1
  <2>3. r \in Seq(T) /\ x \in T
    BY <1>2, <2>1, <2>2 DEF Selects
  <2>4. q = IF x \in S THEN Append(r, x) ELSE r
    <3>1. q = SelectStep(s, S, T)[n + 1][r]
      BY <1>1, <2>1 DEF Iterates
    <3> QED
      BY <3>1, <2>1, <2>3 DEF SelectStep
  <2> HIDE DEF q, r
  <2>5. PICK e : /\ e \in [1 .. Len(r) -> 1 .. n]
                 /\ \A j \in 1 .. Len(r) : r[j] = s[e[j]]
                 /\ \A a, b \in 1 .. Len(r) : a < b => e[a] < e[b]
    BY <2>2 DEF Selects
  <2>6. CASE x \notin S
    <3>1. q = r
      BY <2>4, <2>6
    <3>2. e \in [1 .. Len(r) -> 1 .. n + 1]
      BY <2>5, <2>1
    <3>3. \A i \in 1 .. n + 1 : s[i] \in S => i \in 1 .. n
      BY <2>6, <2>1
    <3>4. /\ \A i \in 1 .. n : s[i] \in S => \E j \in 1 .. Len(r) : r[j] = s[i]
          /\ \A j \in 1 .. Len(r) : r[j] \in S
      BY <2>2 DEF Selects
    <3>5. \E ee : /\ ee \in [1 .. Len(r) -> 1 .. n + 1]
                 /\ \A j \in 1 .. Len(r) : r[j] = s[ee[j]]
                 /\ \A a, b \in 1 .. Len(r) : a < b => ee[a] < ee[b]
      BY <2>5, <3>2
    <3>6. \A i \in 1 .. n + 1 : s[i] \in S => \E j \in 1 .. Len(r) : r[j] = s[i]
      BY <3>3, <3>4
    <3>7. Selects(r, s, S, T, n + 1)
      BY <2>3, <3>4, <3>5, <3>6 DEF Selects
    <3> QED
      BY <3>1, <3>7 DEF q
  <2>7. CASE x \in S
    <3> DEFINE m == Len(r)
               d == [j \in 1 .. m + 1 |-> IF j = m + 1 THEN n + 1 ELSE e[j]]
    <3>0. q = Append(r, x)
      BY <2>4, <2>7
    <3>1. /\ m \in Nat /\ q \in Seq(T) /\ Len(q) = m + 1 /\ q[m + 1] = x
          /\ \A j \in 1 .. m : q[j] = r[j]
      BY <2>3, <3>0
    <3> HIDE DEF m
    <3>2. \A j \in 1 .. m : e[j] \in 1 .. n /\ d[j] = e[j] /\ j # m + 1
      <4>1. \A j \in 1 .. m : e[j] \in 1 .. n
        BY <2>5 DEF m
      <4>2. \A j \in 1 .. m : j \in 1 .. m + 1 /\ j # m + 1
        BY <3>1
      <4> QED
        BY <4>1, <4>2
    <3>3. d[m + 1] = n + 1
      <4>1. m + 1 \in 1 .. m + 1
        BY <3>1
      <4> QED
        BY <4>1
    <3>4. d \in [1 .. m + 1 -> 1 .. n + 1]
      <4> SUFFICES ASSUME NEW j \in 1 .. m + 1 PROVE d[j] \in 1 .. n + 1
        BY DEF d
      <4> HIDE DEF d
      <4>1. CASE j = m + 1
        BY <4>1, <3>3, <2>1
      <4>2. CASE j \in 1 .. m
        <5>1. d[j] = e[j] /\ e[j] \in 1 .. n
          BY <4>2, <3>2
        <5> HIDE DEF d
        <5> QED
          BY <5>1, <2>1
      <4> QED
        BY <4>1, <4>2, <3>1
    <3> HIDE DEF d
    <3>5. \A j \in 1 .. m + 1 : q[j] = s[d[j]]
      <4> SUFFICES ASSUME NEW j \in 1 .. m + 1 PROVE q[j] = s[d[j]]
        OBVIOUS
      <4>1. CASE j = m + 1
        BY <4>1, <3>3, <3>1
      <4>2. CASE j \in 1 .. m
        BY <4>2, <3>2, <3>1, <2>5 DEF m
      <4> QED
        BY <4>1, <4>2, <3>1
    <3>6. \A i, j \in 1 .. m + 1 : i < j => d[i] < d[j]
      <4> SUFFICES ASSUME NEW i \in 1 .. m + 1, NEW j \in 1 .. m + 1, i < j
                   PROVE  d[i] < d[j]
        OBVIOUS
      <4>0. i \in 1 .. m
        BY <3>1
      <4>1. CASE j = m + 1
        BY <4>0, <4>1, <3>3, <3>2, <2>1
      <4>2. CASE j \in 1 .. m
        BY <4>0, <4>2, <3>2, <2>5 DEF m
      <4> QED
        BY <4>1, <4>2, <3>1
    <3>7. \A j \in 1 .. m + 1 : q[j] \in S
      <4> SUFFICES ASSUME NEW j \in 1 .. m + 1 PROVE q[j] \in S
        OBVIOUS
      <4>1. CASE j = m + 1
        BY <4>1, <3>1, <2>7
      <4>2. CASE j \in 1 .. m
        BY <4>2, <3>1, <2>2 DEF m, Selects
      <4> QED
        BY <4>1, <4>2, <3>1
    <3>8. \A i \in 1 .. n + 1 : s[i] \in S =>
              \E j \in 1 .. m + 1 : q[j] = s[i]
      <4> SUFFICES ASSUME NEW i \in 1 .. n + 1, s[i] \in S
                   PROVE  \E j \in 1 .. m + 1 : q[j] = s[i]
        OBVIOUS
      <4>1. CASE i = n + 1
        <5>1. q[m + 1] = s[i] /\ m + 1 \in 1 .. m + 1
          BY <4>1, <3>1
        <5> QED
          BY <5>1
      <4>2. CASE i \in 1 .. n
        <5>1. PICK j \in 1 .. m : r[j] = s[i]
          BY <4>2, <2>2 DEF m, Selects
        <5>2. q[j] = s[i] /\ j \in 1 .. m + 1
          BY <5>1, <3>1
        <5> QED
          BY <5>2
      <4> QED
        BY <4>1, <4>2, <2>1
    <3>9. Len(q) = m + 1 /\ q \in Seq(T)
      BY <3>1
    <3>10. \E ee : /\ ee \in [1 .. Len(q) -> 1 .. n + 1]
                 /\ \A j \in 1 .. Len(q) : q[j] = s[ee[j]]
                 /\ \A a, b \in 1 .. Len(q) : a < b => ee[a] < ee[b]
      BY <3>4, <3>5, <3>6, <3>9
    <3>11. Selects(q, s, S, T, n + 1)
      BY <3>7, <3>8, <3>9, <3>10 DEF Selects
    <3> QED
      BY <3>11 DEF q
  <2> QED
    BY <2>6, <2>7
<1>5. I \in SUBSET Nat
  OBVIOUS
<1> HIDE DEF I
<1>6. I = Nat
  BY <1>3, <1>4, <1>5, Induction
<1> QED
  BY <1>1, <1>2, <1>6 DEF I

\* Selected is exactly the elements that are in S, in their order.
LEMMA SelectedEmbeds ==
    ASSUME NEW T, NEW s \in Seq(T), NEW S
    PROVE  /\ \E e : Embeds(Selected(s, S), s, e)
           /\ \A j \in 1 .. Len(Selected(s, S)) : Selected(s, S)[j] \in S
           /\ \A i \in 1 .. Len(s) : s[i] \in S =>
                 \E j \in 1 .. Len(Selected(s, S)) : Selected(s, S)[j] = s[i]
<1> DEFINE r == Selected(s, S)
<1>1. Selects(r, s, S, T, Len(s))
  BY SelectedSelects
<1> HIDE DEF r
<1>2. \E e : Embeds(r, s, e)
  <2>1. PICK e : /\ e \in [1 .. Len(r) -> 1 .. Len(s)]
                 /\ \A j \in 1 .. Len(r) : r[j] = s[e[j]]
                 /\ \A a, b \in 1 .. Len(r) : a < b => e[a] < e[b]
    BY <1>1 DEF Selects
  <2>2. Embeds(r, s, e)
    BY <2>1 DEF Embeds
  <2> QED
    BY <2>2
<1>3. /\ \A j \in 1 .. Len(r) : r[j] \in S
      /\ \A i \in 1 .. Len(s) : s[i] \in S => \E j \in 1 .. Len(r) : r[j] = s[i]
  BY <1>1 DEF Selects
<1> QED
  BY <1>2, <1>3 DEF r

-----------------------------------------------------------------------------
(* The history of a channel                                                *)

\* StateAt, of any log.
History(l, c, n) ==
    LET applied[i \in 0 .. n] ==
            IF i = 0 THEN <<>>
            ELSE IF l[i].channel = c /\ ~l[i].rejected
            THEN Append(applied[i - 1], i)
            ELSE applied[i - 1]
    IN applied[n]

\* The state of a channel is its history in the log, before and after a step.
LEMMA StateIsHistory ==
    ASSUME NEW c, NEW n
    PROVE  /\ StateAt(c, n) = History(log, c, n)
           /\ StateAt(c, n)' = History(log', c, n)
BY DEF StateAt, History

\* One step of a history.
HistoryStep(l, c) ==
    [i \in Nat \ {0} |->
        [v \in Seq(Nat) |-> IF l[i].channel = c /\ ~l[i].rejected
                            THEN Append(v, i) ELSE v]]

\* One step of a history appends an envelope or leaves it.
LEMMA HistoryStepType ==
    ASSUME NEW l, NEW c
    PROVE  HistoryStep(l, c) \in [Nat \ {0} -> [Seq(Nat) -> Seq(Nat)]]
BY DEF HistoryStep

\* A history is computed by its steps.
LEMMA HistoryIterates ==
    ASSUME NEW l, NEW c, NEW n \in Nat
    PROVE  \E f \in [0 .. n -> Seq(Nat)] :
              /\ Iterates(f, <<>>, HistoryStep(l, c), n)
              /\ History(l, c, n) = f[n]
<1> DEFINE G(g) == [i \in 0 .. n |->
                       IF i = 0 THEN <<>>
                       ELSE IF l[i].channel = c /\ ~l[i].rejected
                       THEN Append(g[i - 1], i)
                       ELSE g[i - 1]]
           h == CHOOSE g : g = G(g)
           P(i) == l[i].channel = c /\ ~l[i].rejected
<1>1. History(l, c, n) = h[n]
  BY DEF History
<1>3. PICK f \in [0 .. n -> Seq(Nat)] : Iterates(f, <<>>, HistoryStep(l, c), n)
  <2>1. <<>> \in Seq(Nat)
    OBVIOUS
  <2> QED
    BY <2>1, HistoryStepType, IterationExists
<1>4. \A i \in 0 .. n : f[i] = IF i = 0 THEN <<>>
                               ELSE IF l[i].channel = c /\ ~l[i].rejected
                               THEN Append(f[i - 1], i)
                               ELSE f[i - 1]
  <2> SUFFICES ASSUME NEW i \in 0 .. n
               PROVE  f[i] = IF i = 0 THEN <<>>
                             ELSE IF l[i].channel = c /\ ~l[i].rejected
                             THEN Append(f[i - 1], i)
                             ELSE f[i - 1]
    OBVIOUS
  <2>3. CASE i = 0
    BY <1>3, <2>3 DEF Iterates
  <2>4. CASE i # 0
    <3>0. i \in 0 .. n /\ i # 0 /\ i - 1 \in 0 .. n /\ i \in Nat \ {0}
      BY <2>4
    <3>1. f[i] = HistoryStep(l, c)[i][f[i - 1]]
      BY <1>3, <3>0 DEF Iterates
    <3>2. f[i - 1] \in Seq(Nat) /\ i \in Nat \ {0}
      BY <1>3, <3>0
    <3> QED
      BY <3>0, <3>1, <3>2 DEF HistoryStep
  <2> QED
    BY <2>3, <2>4
<1>5. f = G(f)
  BY <1>3, <1>4
<1>6. h = G(h)
  <2> HIDE DEF G
  <2> QED
    BY <1>5
<1> HIDE DEF h
<1>7. h[n] = f[n]
  <2> DEFINE I == {i \in Nat : i <= n => h[i] = f[i]}
  <2>1. 0 \in I
    BY <1>6, <1>4
  <2>2. ASSUME NEW i \in I PROVE i + 1 \in I
    <3> SUFFICES ASSUME i + 1 <= n PROVE h[i + 1] = f[i + 1]
      OBVIOUS
    <3>1. i \in Nat /\ h[i] = f[i] /\ i + 1 \in 0 .. n /\ i + 1 # 0
          /\ (i + 1) - 1 = i
      BY <2>2
    <3>2. h[i + 1] = IF P(i + 1) THEN Append(h[i], i + 1) ELSE h[i]
      BY <3>1, <1>6
    <3>3. f[i + 1] = IF P(i + 1) THEN Append(f[i], i + 1) ELSE f[i]
      BY <3>1, <1>4
    <3> QED
      BY <3>1, <3>2, <3>3
  <2>3. I \in SUBSET Nat
    OBVIOUS
  <2> HIDE DEF I
  <2>4. I = Nat
    BY <2>1, <2>2, <2>3, Induction
  <2> QED
    BY <2>4 DEF I
<1> QED
  BY <1>1, <1>3, <1>7

\* The history grows by the envelopes of the channel that are not rejected.
LEMMA HistoryGrows ==
    ASSUME NEW l, NEW c
    PROVE  /\ History(l, c, 0) = <<>>
           /\ \A n \in Nat :
                 /\ History(l, c, n) \in Seq(Nat)
                 /\ History(l, c, n + 1) =
                       IF l[n + 1].channel = c /\ ~l[n + 1].rejected
                       THEN Append(History(l, c, n), n + 1)
                       ELSE History(l, c, n)
<1>1. History(l, c, 0) = <<>>
  <2>1. PICK f \in [0 .. 0 -> Seq(Nat)] :
              /\ Iterates(f, <<>>, HistoryStep(l, c), 0)
              /\ History(l, c, 0) = f[0]
    BY HistoryIterates
  <2> QED
    BY <2>1 DEF Iterates
<1>2. ASSUME NEW n \in Nat
      PROVE  /\ History(l, c, n) \in Seq(Nat)
             /\ History(l, c, n + 1) =
                   IF l[n + 1].channel = c /\ ~l[n + 1].rejected
                   THEN Append(History(l, c, n), n + 1)
                   ELSE History(l, c, n)
  <2>1. PICK f :
              /\ f \in [0 .. n -> Seq(Nat)]
              /\ Iterates(f, <<>>, HistoryStep(l, c), n)
              /\ History(l, c, n) = f[n]
    BY HistoryIterates
  <2>2. n + 1 \in Nat \ {0} /\ n <= n + 1 /\ n \in 0 .. n /\ n + 1 # 0
        /\ n + 1 \in 0 .. n + 1 /\ (n + 1) - 1 = n /\ n + 1 \in Nat
    OBVIOUS
  <2>3. PICK g :
              /\ g \in [0 .. n + 1 -> Seq(Nat)]
              /\ Iterates(g, <<>>, HistoryStep(l, c), n + 1)
              /\ History(l, c, n + 1) = g[n + 1]
    BY <2>2, HistoryIterates
  <2>4. f[n] = g[n]
    <3> DEFINE st == HistoryStep(l, c)
               e == <<>>
               p == n + 1
    <3>2. Iterates(f, e, st, n) /\ Iterates(g, e, st, p)
      BY <2>1, <2>3
    <3>3. n \in Nat /\ p \in Nat /\ n <= p
      OBVIOUS
    <3> HIDE DEF st, e, p
    <3>1. \A i \in 0 .. n : f[i] = g[i]
      BY <3>2, <3>3, IterationUnique
    <3> QED
      BY <3>1, <2>2
  <2>5. f[n] \in Seq(Nat)
    BY <2>1, <2>2
  <2>6. g[n + 1] = HistoryStep(l, c)[n + 1][g[n]]
    BY <2>2, <2>3 DEF Iterates
  <2>7. g[n + 1] = IF l[n + 1].channel = c /\ ~l[n + 1].rejected
                   THEN Append(f[n], n + 1) ELSE f[n]
    BY <2>2, <2>4, <2>5, <2>6 DEF HistoryStep
  <2> QED
    BY <2>1, <2>3, <2>5, <2>7
<1> QED
  BY <1>1, <1>2

\* It has what is in the log up to n only.
LEMMA HistoryContents ==
    ASSUME NEW l, NEW c, NEW n \in Nat
    PROVE  \A i \in 1 .. Len(History(l, c, n)) :
              /\ History(l, c, n)[i] \in 1 .. n
              /\ l[History(l, c, n)[i]].channel = c
<1> DEFINE H(m) == History(l, c, m)
           Good(m) == \A i \in 1 .. Len(H(m)) :
                         H(m)[i] \in 1 .. m /\ l[H(m)[i]].channel = c
           I == {m \in Nat : Good(m)}
<1>1. /\ H(0) = <<>>
      /\ \A m \in Nat : /\ H(m) \in Seq(Nat)
                        /\ H(m + 1) = IF l[m + 1].channel = c /\ ~l[m + 1].rejected
                                      THEN Append(H(m), m + 1) ELSE H(m)
  BY HistoryGrows
<1> HIDE DEF H
<1>2. 0 \in I
  BY <1>1
<1>3. ASSUME NEW m \in I PROVE m + 1 \in I
  <2> DEFINE s == H(m)
             r == H(m + 1)
  <2>1. s \in Seq(Nat) /\ m \in Nat /\ Good(m)
    BY <1>1, <1>3
  <2>2. r = IF l[m + 1].channel = c /\ ~l[m + 1].rejected
            THEN Append(s, m + 1) ELSE s
    BY <1>1, <2>1
  <2>3. \A i \in 1 .. Len(s) : s[i] \in 1 .. m /\ l[s[i]].channel = c
    BY <2>1
  <2> HIDE DEF s, r
  <2>4. \A i \in 1 .. Len(r) : r[i] \in 1 .. m + 1 /\ l[r[i]].channel = c
    BY <2>1, <2>2, <2>3
  <2>5. Good(m + 1)
    BY <2>4 DEF r
  <2> QED
    BY <2>1, <2>5
<1>4. I \in SUBSET Nat
  OBVIOUS
<1> HIDE DEF I
<1>5. I = Nat
  BY <1>2, <1>3, <1>4, Induction
<1>6. Good(n)
  BY <1>5 DEF I
<1> QED
  BY <1>6 DEF H

\* It does not depend on what is in the log after n.
LEMMA HistoryDetermined ==
    ASSUME NEW l, NEW k, NEW c, NEW n \in Nat,
           \A i \in 1 .. n : k[i] = l[i]
    PROVE  History(k, c, n) = History(l, c, n)
<1> DEFINE I == {m \in Nat : m <= n => History(k, c, m) = History(l, c, m)}
<1>1. 0 \in I
  BY HistoryGrows
<1>2. ASSUME NEW m \in I PROVE m + 1 \in I
  <2> SUFFICES ASSUME m + 1 <= n
               PROVE  History(k, c, m + 1) = History(l, c, m + 1)
    OBVIOUS
  <2>1. m \in Nat /\ m + 1 \in 1 .. n /\ History(k, c, m) = History(l, c, m)
    BY <1>2
  <2>2. k[m + 1] = l[m + 1]
    BY <2>1
  <2>3. History(l, c, m + 1) = IF l[m + 1].channel = c /\ ~l[m + 1].rejected
                               THEN Append(History(l, c, m), m + 1)
                               ELSE History(l, c, m)
    BY <2>1, HistoryGrows
  <2>4. History(k, c, m + 1) = IF k[m + 1].channel = c /\ ~k[m + 1].rejected
                               THEN Append(History(k, c, m), m + 1)
                               ELSE History(k, c, m)
    BY <2>1, HistoryGrows
  <2> QED
    BY <2>1, <2>2, <2>3, <2>4
<1>3. I \in SUBSET Nat
  OBVIOUS
<1> HIDE DEF I
<1>4. I = Nat
  BY <1>1, <1>2, <1>3, Induction
<1> QED
  BY <1>4 DEF I

\* A later history continues an earlier one.
LEMMA HistoryContinues ==
    ASSUME NEW l, NEW c, NEW m \in Nat, NEW n \in Nat, m <= n
    PROVE  Follower!Continues(History(l, c, m), History(l, c, n))
<1> DEFINE H(i) == History(l, c, i)
           Extends(s, t) == /\ Len(s) <= Len(t)
                            /\ \A i \in 1 .. Len(s) : t[i] = s[i]
           I == {i \in Nat : Extends(H(m), H(m + i))}
<1>1. \A i \in Nat : /\ H(i) \in Seq(Nat)
                     /\ H(i + 1) = H(i) \/ H(i + 1) = Append(H(i), i + 1)
  BY HistoryGrows
<1> HIDE DEF H
<1>2. 0 \in I
  BY <1>1
<1>3. ASSUME NEW i \in I PROVE i + 1 \in I
  <2> DEFINE s == H(m)
             t == H(m + i)
             r == H((m + i) + 1)
  <2>1. i \in Nat /\ m + i \in Nat /\ m + (i + 1) = (m + i) + 1 /\ i + 1 \in Nat
    BY <1>3
  <2>2. s \in Seq(Nat) /\ t \in Seq(Nat)
        /\ (r = t \/ r = Append(t, (m + i) + 1))
    BY <1>1, <2>1
  <2>3. Extends(s, t)
    BY <1>3
  <2> HIDE DEF s, t, r
  <2>4. Extends(s, r)
    <3>1. CASE r = t
      BY <3>1, <2>3
    <3>2. CASE r = Append(t, (m + i) + 1)
      <4>1. /\ Len(r) = Len(t) + 1 /\ Len(s) \in Nat /\ Len(t) \in Nat
            /\ \A j \in 1 .. Len(t) : r[j] = t[j]
        BY <3>2, <2>1, <2>2
      <4> QED
        BY <4>1, <2>3
    <3> QED
      BY <3>1, <3>2, <2>2
  <2> QED
    BY <2>1, <2>4 DEF s, r
<1>4. I \in SUBSET Nat
  OBVIOUS
<1> HIDE DEF I
<1>5. I = Nat
  BY <1>2, <1>3, <1>4, Induction
<1>6. n - m \in Nat /\ m + (n - m) = n
  OBVIOUS
<1>7. Extends(H(m), H(n))
  BY <1>5, <1>6 DEF I
<1>8. H(m) \in Seq(Nat) /\ H(n) \in Seq(Nat)
  BY <1>1
<1>9. SubSeq(H(n), 1, Len(H(m))) = H(m)
  BY <1>7, <1>8
<1> QED
  BY <1>7, <1>9 DEF H, Follower!Continues

\* The elements of s increase.
Increasing(s) == \A i, j \in 1 .. Len(s) : i < j => s[i] < s[j]

\* What is left without x.
LEMMA WithoutRest ==
    ASSUME NEW T, T \subseteq Nat, NEW s \in Seq(T), NEW x
    PROVE  /\ Without(s, x) \in Seq(T)
           /\ ToSet(Without(s, x)) = ToSet(s) \ {x}
           /\ Increasing(s) => Increasing(Without(s, x))
<1> DEFINE r == Without(s, x)
           S == ToSet(s) \ {x}
<1>1. r = Selected(s, S)
  BY DEF Without
<1> HIDE DEF r, S
<1>2. r \in Seq(T)
  BY <1>1, SelectedType
<1>3. /\ \E e : Embeds(r, s, e)
      /\ \A j \in 1 .. Len(r) : r[j] \in S
      /\ \A i \in 1 .. Len(s) : s[i] \in S => \E j \in 1 .. Len(r) : r[j] = s[i]
  BY <1>1, SelectedEmbeds
<1>4. DOMAIN r = 1 .. Len(r) /\ DOMAIN s = 1 .. Len(s)
  BY <1>2
<1>5. ToSet(r) = S
  BY <1>3, <1>4 DEF ToSet, S
<1>6. Increasing(s) => Increasing(r)
  <2> SUFFICES ASSUME Increasing(s), NEW i \in 1 .. Len(r), NEW j \in 1 .. Len(r),
                      i < j
               PROVE  r[i] < r[j]
    BY DEF Increasing
  <2>1. PICK e : Embeds(r, s, e)
    BY <1>3
  <2>2. /\ e[i] \in 1 .. Len(s) /\ e[j] \in 1 .. Len(s) /\ e[i] < e[j]
        /\ r[i] = s[e[i]] /\ r[j] = s[e[j]]
    BY <2>1 DEF Embeds
  <2> QED
    BY <2>2 DEF Increasing
<1> QED
  BY <1>2, <1>5, <1>6 DEF r, S

-----------------------------------------------------------------------------
(* Receiving envelopes                                                     *)

\* The views a channel may have.
AView == [confirmed : Seq(Nat), pending : Seq(Nat)]

\* An envelope is confirmed unless it is rejected, and its action is no
\* longer pending.
LEMMA ReconcileType ==
    ASSUME NEW v \in AView, NEW n \in Nat
    PROVE  /\ Reconcile(v, n) \in AView
           /\ Reconcile(v, n).confirmed = IF log[n].rejected THEN v.confirmed
                                          ELSE Append(v.confirmed, n)
           /\ ToSet(Reconcile(v, n).pending) =
                 ToSet(v.pending) \ {log[n].clientSeq}
           /\ Increasing(v.pending) => Increasing(Reconcile(v, n).pending)
<1>1. v.confirmed \in Seq(Nat) /\ v.pending \in Seq(Nat)
  BY DEF AView
<1> DEFINE r == Without(v.pending, log[n].clientSeq)
<1>2. /\ r \in Seq(Nat)
      /\ ToSet(r) = ToSet(v.pending) \ {log[n].clientSeq}
      /\ Increasing(v.pending) => Increasing(r)
  BY <1>1, WithoutRest
<1>3. Reconcile(v, n) = [confirmed |-> IF log[n].rejected THEN v.confirmed
                                       ELSE Append(v.confirmed, n),
                         pending |-> r]
  BY DEF Reconcile
<1> HIDE DEF r
<1>4. Append(v.confirmed, n) \in Seq(Nat)
  BY <1>1
<1> QED
  BY <1>1, <1>2, <1>3, <1>4 DEF AView

\* The view of a channel after the first i of some envelopes.
ViewSteps(f, c, ns) ==
    /\ f \in [0 .. Len(ns) -> AView]
    /\ f[0] = View(c)
    /\ \A i \in 1 .. Len(ns) :
          f[i] = IF log[ns[i]].channel = c THEN Reconcile(f[i - 1], ns[i])
                 ELSE f[i - 1]
    /\ ViewAfter(c, ns) = f[Len(ns)]

\* The view after some envelopes is reached by receiving one after the other.
LEMMA ViewAfterSteps ==
    ASSUME NEW c, View(c) \in AView, NEW ns \in Seq(Nat)
    PROVE  \E f : ViewSteps(f, c, ns)
<1> DEFINE n == Len(ns)
           P(i) == log[ns[i]].channel = c
           G(g) == [i \in 0 .. n |->
                       IF i = 0 THEN View(c)
                       ELSE IF log[ns[i]].channel = c
                       THEN Reconcile(g[i - 1], ns[i])
                       ELSE g[i - 1]]
           h == CHOOSE g : g = G(g)
           step == [i \in Nat \ {0} |->
                       [v \in AView |-> IF i \in 1 .. n /\ P(i)
                                        THEN Reconcile(v, ns[i]) ELSE v]]
<1>1. ViewAfter(c, ns) = h[n]
  BY DEF ViewAfter
<1>2. n \in Nat /\ \A i \in 1 .. n : ns[i] \in Nat
  OBVIOUS
<1>3. step \in [Nat \ {0} -> [AView -> AView]]
  <2> SUFFICES ASSUME NEW i \in Nat \ {0}, NEW v \in AView
               PROVE  (IF i \in 1 .. n /\ P(i) THEN Reconcile(v, ns[i]) ELSE v)
                         \in AView
    OBVIOUS
  <2> QED
    BY <1>2, ReconcileType
<1>4. \A i \in 1 .. n : \A v \in AView :
          step[i][v] = IF P(i) THEN Reconcile(v, ns[i]) ELSE v
  BY <1>2
<1> HIDE DEF step, n
<1>5. PICK f : f \in [0 .. n -> AView] /\ Iterates(f, View(c), step, n)
  BY <1>2, <1>3, IterationExists
<1>6. f[0] = View(c)
  BY <1>2, <1>5 DEF Iterates
<1>7. \A i \in 1 .. n : f[i] = IF P(i) THEN Reconcile(f[i - 1], ns[i])
                               ELSE f[i - 1]
  <2> SUFFICES ASSUME NEW i \in 1 .. n
               PROVE  f[i] = IF P(i) THEN Reconcile(f[i - 1], ns[i])
                             ELSE f[i - 1]
    OBVIOUS
  <2>1. i \in 0 .. n /\ i # 0 /\ i - 1 \in 0 .. n
    BY <1>2
  <2>2. f[i] = step[i][f[i - 1]] /\ f[i - 1] \in AView
    BY <1>5, <2>1 DEF Iterates
  <2> QED
    BY <2>2, <1>4
<1>8. f = G(f)
  <2>1. \A i \in 0 .. n : i = 0 \/ i \in 1 .. n
    BY <1>2
  <2> QED
    BY <1>5, <1>6, <1>7, <2>1
<1>9. h = G(h)
  <2> HIDE DEF G
  <2> QED
    BY <1>8
<1> HIDE DEF h
<1>10. h[n] = f[n]
  <2> DEFINE I == {i \in Nat : i <= n => h[i] = f[i]}
  <2>1. 0 \in I
    BY <1>2, <1>6, <1>9
  <2>2. ASSUME NEW i \in I PROVE i + 1 \in I
    <3> SUFFICES ASSUME i + 1 <= n PROVE h[i + 1] = f[i + 1]
      OBVIOUS
    <3>1. i \in Nat /\ h[i] = f[i] /\ i + 1 \in 0 .. n /\ i + 1 # 0
          /\ (i + 1) - 1 = i /\ i + 1 \in 1 .. n
      BY <1>2, <2>2
    <3>2. h[i + 1] = IF P(i + 1) THEN Reconcile(h[i], ns[i + 1]) ELSE h[i]
      BY <3>1, <1>9
    <3>3. f[i + 1] = IF P(i + 1) THEN Reconcile(f[i], ns[i + 1]) ELSE f[i]
      BY <3>1, <1>7
    <3> QED
      BY <3>1, <3>2, <3>3
  <2>3. I \in SUBSET Nat
    OBVIOUS
  <2> HIDE DEF I
  <2>4. I = Nat
    BY <2>1, <2>2, <2>3, Induction
  <2> QED
    BY <1>2, <2>4 DEF I
<1>11. ViewSteps(f, c, ns)
  BY <1>1, <1>5, <1>6, <1>7, <1>10 DEF ViewSteps, n
<1> QED
  BY <1>11

\* What is pending after envelopes is what none of them settles.
LEMMA PendingAfter ==
    ASSUME NEW c, View(c) \in AView, NEW ns \in Seq(Nat)
    PROVE  LET v == ViewAfter(c, ns)
           IN  /\ v \in AView
               /\ Increasing(View(c).pending) => Increasing(v.pending)
               /\ \A x : x \in ToSet(v.pending) <=>
                     /\ x \in ToSet(View(c).pending)
                     /\ \A i \in 1 .. Len(ns) :
                           log[ns[i]].channel = c => log[ns[i]].clientSeq # x
<1>1. PICK f : ViewSteps(f, c, ns)
  BY ViewAfterSteps
<1> DEFINE n == Len(ns)
           Settled(i) == {log[ns[j]].clientSeq :
                             j \in {k \in 1 .. i : log[ns[k]].channel = c}}
           Good(i) == /\ f[i] \in AView
                      /\ Increasing(View(c).pending) => Increasing(f[i].pending)
                      /\ ToSet(f[i].pending) =
                            ToSet(View(c).pending) \ Settled(i)
           I == {i \in Nat : i <= n => Good(i)}
<1>2. n \in Nat /\ \A i \in 1 .. n : ns[i] \in Nat
  OBVIOUS
<1> HIDE DEF n
<1>3. 0 \in I
  <2>1. Settled(0) = {}
    OBVIOUS
  <2>2. f[0] = View(c)
    BY <1>1 DEF ViewSteps
  <2> QED
    BY <2>1, <2>2
<1>4. ASSUME NEW i \in I PROVE i + 1 \in I
  <2> SUFFICES ASSUME i + 1 <= n PROVE Good(i + 1)
    OBVIOUS
  <2>1. i \in Nat /\ i + 1 \in 1 .. n /\ (i + 1) - 1 = i /\ Good(i)
    <3> HIDE DEF Good
    <3> QED
      BY <1>2, <1>4
  <2> DEFINE x == log[ns[i + 1]].clientSeq
  <2>2. CASE log[ns[i + 1]].channel = c
    <3>1. f[i + 1] = Reconcile(f[i], ns[i + 1]) /\ ns[i + 1] \in Nat
      BY <1>1, <1>2, <2>1, <2>2 DEF ViewSteps, n
    <3>2. Settled(i + 1) = Settled(i) \cup {x}
      BY <2>1, <2>2
    <3>3. /\ f[i + 1] \in AView
          /\ ToSet(f[i + 1].pending) = ToSet(f[i].pending) \ {x}
          /\ Increasing(f[i].pending) => Increasing(f[i + 1].pending)
      <4> DEFINE v == f[i]
                 m == ns[i + 1]
      <4>1. v \in AView /\ m \in Nat /\ f[i + 1] = Reconcile(v, m)
            /\ x = log[m].clientSeq
        BY <2>1, <3>1
      <4> HIDE DEF v, m, x, Settled
      <4>2. /\ f[i + 1] \in AView
            /\ ToSet(f[i + 1].pending) = ToSet(v.pending) \ {x}
            /\ Increasing(v.pending) => Increasing(f[i + 1].pending)
        BY <4>1, ReconcileType
      <4> QED
        BY <4>2 DEF v
    <3> HIDE DEF Settled, x
    <3> QED
      BY <2>1, <3>2, <3>3
  <2>3. CASE log[ns[i + 1]].channel # c
    <3>1. f[i + 1] = f[i]
      BY <1>1, <2>1, <2>3 DEF ViewSteps, n
    <3>2. Settled(i + 1) = Settled(i)
      BY <2>1, <2>3
    <3> HIDE DEF Settled
    <3> QED
      BY <2>1, <3>1, <3>2
  <2> QED
    BY <2>2, <2>3
<1>5. I \in SUBSET Nat
  OBVIOUS
<1> HIDE DEF I
<1>6. I = Nat
  BY <1>3, <1>4, <1>5, Induction
<1>7. Good(n)
  <2> HIDE DEF Good
  <2> QED
    BY <1>2, <1>6 DEF I
<1>8. ViewAfter(c, ns) = f[n]
  BY <1>1 DEF ViewSteps, n
<1> HIDE DEF Good
<1>9. ASSUME NEW x
      PROVE  x \in ToSet(f[n].pending) <=>
                /\ x \in ToSet(View(c).pending)
                /\ \A i \in 1 .. n :
                      log[ns[i]].channel = c => log[ns[i]].clientSeq # x
  BY <1>7 DEF Good
<1>10. f[n] \in AView /\ (Increasing(View(c).pending) => Increasing(f[n].pending))
  BY <1>7 DEF Good
<1> QED
  BY <1>8, <1>9, <1>10 DEF n

\* Envelopes only add themselves to what is confirmed.
LEMMA ConfirmedAfter ==
    ASSUME NEW c, View(c) \in AView, NEW ns \in Seq(Nat)
    PROVE  \A j \in 1 .. Len(ViewAfter(c, ns).confirmed) :
              LET x == ViewAfter(c, ns).confirmed[j]
              IN  \/ \E i \in 1 .. Len(View(c).confirmed) :
                        x = View(c).confirmed[i]
                  \/ \E i \in 1 .. Len(ns) : x = ns[i] /\ log[x].channel = c
<1>1. PICK f : ViewSteps(f, c, ns)
  BY ViewAfterSteps
<1> DEFINE n == Len(ns)
           Right(x, i) ==
              \/ \E k \in 1 .. Len(View(c).confirmed) : x = View(c).confirmed[k]
              \/ \E k \in 1 .. i : x = ns[k] /\ log[x].channel = c
           Good(i) == \A j \in 1 .. Len(f[i].confirmed) :
                         Right(f[i].confirmed[j], i)
           I == {i \in Nat : i <= n => Good(i)}
<1>2. n \in Nat /\ \A i \in 1 .. n : ns[i] \in Nat
  OBVIOUS
<1> HIDE DEF n
<1>3. 0 \in I
  BY <1>1 DEF ViewSteps
<1>4. ASSUME NEW i \in I PROVE i + 1 \in I
  <2> SUFFICES ASSUME i + 1 <= n PROVE Good(i + 1)
    OBVIOUS
  <2>1. i \in Nat /\ i + 1 \in 1 .. n /\ (i + 1) - 1 = i /\ i \in 0 .. n
        /\ Good(i)
    <3> HIDE DEF Good
    <3> QED
      BY <1>2, <1>4
  <2>2. f[i] \in AView /\ ns[i + 1] \in Nat
    BY <1>1, <1>2, <2>1 DEF ViewSteps, n
  <2>3. \A x : Right(x, i) => Right(x, i + 1)
    BY <2>1
  <2> DEFINE s == f[i].confirmed
             t == f[i + 1].confirmed
             x == ns[i + 1]
  <2>4. s \in Seq(Nat) /\ x \in Nat
    BY <2>2 DEF AView
  <2>5. \/ t = s
        \/ t = Append(s, x) /\ log[x].channel = c
    <3>1. CASE log[x].channel = c
      <4> DEFINE v == f[i]
      <4>1. f[i + 1] = Reconcile(v, x) /\ v \in AView
        BY <1>1, <2>1, <2>2, <3>1 DEF ViewSteps, n
      <4> HIDE DEF v, x
      <4>2. Reconcile(v, x).confirmed = IF log[x].rejected THEN v.confirmed
                                        ELSE Append(v.confirmed, x)
        BY <4>1, <2>4, ReconcileType
      <4> QED
        BY <4>1, <4>2, <3>1 DEF v
    <3>2. CASE log[x].channel # c
      <4>1. f[i + 1] = f[i]
        BY <1>1, <2>1, <3>2 DEF ViewSteps, n
      <4> QED
        BY <4>1
    <3> QED
      BY <3>1, <3>2
  <2>6. log[x].channel = c => Right(x, i + 1)
    BY <2>1
  <2>7. \A j \in 1 .. Len(s) : Right(s[j], i)
    BY <2>1
  <2> HIDE DEF s, t, x, Right
  <2>8. \A j \in 1 .. Len(t) : Right(t[j], i + 1)
    BY <2>3, <2>4, <2>5, <2>6, <2>7
  <2> QED
    BY <2>8 DEF t
<1>5. I \in SUBSET Nat
  OBVIOUS
<1> HIDE DEF I
<1>6. I = Nat
  BY <1>3, <1>4, <1>5, Induction
<1>7. Good(n)
  <2> HIDE DEF Good
  <2> QED
    BY <1>2, <1>6 DEF I
<1>8. ViewAfter(c, ns) = f[n]
  BY <1>1 DEF ViewSteps, n
<1> QED
  BY <1>7, <1>8 DEF n

\* The numbers from m + 1 to n.
Consecutive(m, n) == [i \in 1 .. n - m |-> m + i]

\* The envelopes between m and n turn the history at m into that at n.
LEMMA ConfirmedFollows ==
    ASSUME NEW c, View(c) \in AView, NEW m \in Nat, NEW n \in Nat, m <= n,
           View(c).confirmed = History(log, c, m)
    PROVE  ViewAfter(c, Consecutive(m, n)).confirmed = History(log, c, n)
<1> DEFINE ns == Consecutive(m, n)
           k == n - m
<1>1. /\ ns \in Seq(Nat) /\ Len(ns) = k /\ k \in Nat
      /\ \A i \in 1 .. k : ns[i] = m + i
  BY DEF Consecutive
<1> HIDE DEF ns, k
<1>2. PICK f : ViewSteps(f, c, ns)
  BY <1>1, ViewAfterSteps
<1> DEFINE I == {i \in Nat : i <= k => f[i].confirmed = History(log, c, m + i)}
<1>3. 0 \in I
  BY <1>2 DEF ViewSteps
<1>4. ASSUME NEW i \in I PROVE i + 1 \in I
  <2> SUFFICES ASSUME i + 1 <= k
               PROVE  f[i + 1].confirmed = History(log, c, m + (i + 1))
    OBVIOUS
  <2> DEFINE v == f[i]
             x == ns[i + 1]
  <2>1. /\ i \in Nat /\ i + 1 \in 1 .. k /\ (i + 1) - 1 = i /\ i \in 0 .. k
        /\ v.confirmed = History(log, c, m + i) /\ m + i \in Nat
        /\ x = (m + i) + 1 /\ m + (i + 1) = (m + i) + 1 /\ x \in Nat
    BY <1>1, <1>4
  <2>2. v \in AView
    BY <1>1, <1>2, <2>1 DEF ViewSteps
  <2>3. f[i + 1] = IF log[x].channel = c THEN Reconcile(v, x) ELSE v
    BY <1>1, <1>2, <2>1 DEF ViewSteps
  <2> HIDE DEF v, x
  <2>4. Reconcile(v, x).confirmed = IF log[x].rejected THEN v.confirmed
                                    ELSE Append(v.confirmed, x)
    BY <2>1, <2>2, ReconcileType
  <2>5. f[i + 1].confirmed = IF log[x].channel = c /\ ~log[x].rejected
                             THEN Append(v.confirmed, x) ELSE v.confirmed
    BY <2>3, <2>4
  <2>6. History(log, c, (m + i) + 1) =
           IF log[(m + i) + 1].channel = c /\ ~log[(m + i) + 1].rejected
           THEN Append(History(log, c, m + i), (m + i) + 1)
           ELSE History(log, c, m + i)
    BY <2>1, HistoryGrows
  <2> QED
    BY <2>1, <2>5, <2>6
<1>5. I \in SUBSET Nat
  OBVIOUS
<1> HIDE DEF I
<1>6. I = Nat
  BY <1>3, <1>4, <1>5, Induction
<1>7. f[k].confirmed = History(log, c, m + k)
  BY <1>1, <1>6 DEF I
<1>8. ViewAfter(c, ns) = f[k] /\ m + k = n
  BY <1>1, <1>2 DEF ViewSteps, k
<1> QED
  BY <1>7, <1>8 DEF ns

-----------------------------------------------------------------------------
(* Selecting from the numbers up to n                                      *)

\* The numbers up to n + 1 that are selected are those up to n, and n + 1 if
\* it is.
LEMMA SelectedNumbers ==
    ASSUME NEW n \in Nat, NEW S
    PROVE  /\ Selected(Numbers(0), S) = <<>>
           /\ Selected(Numbers(n), S) \in Seq(Nat)
           /\ Selected(Numbers(n + 1), S) =
                 IF n + 1 \in S THEN Append(Selected(Numbers(n), S), n + 1)
                 ELSE Selected(Numbers(n), S)
<1>1. Numbers(0) = <<>>
  BY DEF Numbers
<1>2. /\ Numbers(n) \in Seq(Nat) /\ Numbers(n + 1) = Append(Numbers(n), n + 1)
      /\ n + 1 \in Nat
  BY DEF Numbers
<1> HIDE DEF Numbers
<1>3. Selected(Numbers(0), S) = <<>>
  BY <1>1, SelectedEmpty
<1>4. Selected(Numbers(n), S) \in Seq(Nat)
  BY <1>2, SelectedType
<1>5. Selected(Append(Numbers(n), n + 1), S) =
         IF n + 1 \in S THEN Append(Selected(Numbers(n), S), n + 1)
         ELSE Selected(Numbers(n), S)
  <2> DEFINE s == Numbers(n)
             x == n + 1
  <2>1. s \in Seq(Nat) /\ x \in Nat
    BY <1>2
  <2> HIDE DEF s, x
  <2>2. Selected(Append(s, x), S) =
          IF x \in S THEN Append(Selected(s, S), x) ELSE Selected(s, S)
    BY <2>1, SelectedAppend
  <2> QED
    BY <2>2 DEF s, x
<1> QED
  BY <1>2, <1>3, <1>4, <1>5

\* All numbers above m.
LEMMA SelectedAbove ==
    ASSUME NEW m \in Nat, NEW n \in Nat, m <= n, NEW S,
           \A i \in 1 .. n : i \in S <=> i > m
    PROVE  Selected(Numbers(n), S) = Consecutive(m, n)
<1> DEFINE I == {j \in Nat : j <= n =>
                               Selected(Numbers(j), S) = Consecutive(m, j)}
<1>1. 0 \in I
  <2>1. Consecutive(m, 0) = <<>>
    BY DEF Consecutive
  <2> QED
    BY <2>1, SelectedNumbers
<1>2. ASSUME NEW j \in I PROVE j + 1 \in I
  <2> SUFFICES ASSUME j + 1 <= n
               PROVE  Selected(Numbers(j + 1), S) = Consecutive(m, j + 1)
    OBVIOUS
  <2>1. /\ j \in Nat /\ j + 1 \in 1 .. n
        /\ Selected(Numbers(j), S) = Consecutive(m, j)
    BY <1>2
  <2>2. Selected(Numbers(j + 1), S) =
           IF j + 1 > m THEN Append(Consecutive(m, j), j + 1)
           ELSE Consecutive(m, j)
    BY <2>1, SelectedNumbers
  <2>3. CASE j + 1 > m
    <3>1. j - m \in Nat /\ (j + 1) - m = (j - m) + 1 /\ m + ((j - m) + 1) = j + 1
      BY <2>1, <2>3
    <3>2. Consecutive(m, j + 1) = Append(Consecutive(m, j), j + 1)
      BY <2>1, <3>1 DEF Consecutive
    <3> QED
      BY <2>2, <2>3, <3>2
  <2>4. CASE ~(j + 1 > m)
    <3>1. 1 .. j - m = {} /\ 1 .. (j + 1) - m = {}
      BY <2>1, <2>4
    <3>2. Consecutive(m, j + 1) = Consecutive(m, j)
      BY <3>1 DEF Consecutive
    <3> QED
      BY <2>2, <2>4, <3>2
  <2> QED
    BY <2>3, <2>4
<1>3. I \in SUBSET Nat
  OBVIOUS
<1> HIDE DEF I
<1>4. I = Nat
  BY <1>1, <1>2, <1>3, Induction
<1> QED
  BY <1>4 DEF I

\* The message that envelope n is broadcast in.
ActionMessage(n) == [kind |-> "action", seq |-> n]

\* The envelopes after m up to n, on their way.
Run(m, n) == [i \in 1 .. n - m |-> ActionMessage(m + i)]

\* Appending to the second of two sequences appends to their concatenation.
LEMMA ConcatAppend ==
    ASSUME NEW T, NEW s \in Seq(T), NEW t \in Seq(T), NEW x \in T
    PROVE  s \o Append(t, x) = Append(s \o t, x)
<1> DEFINE l == s \o Append(t, x)
           r == Append(s \o t, x)
<1>1. /\ l \in Seq(T) /\ Len(l) = Len(s) + (Len(t) + 1)
      /\ \A i \in 1 .. Len(l) : l[i] = IF i <= Len(s) THEN s[i]
                                    ELSE Append(t, x)[i - Len(s)]
  OBVIOUS
<1>2. /\ r \in Seq(T) /\ Len(r) = (Len(s) + Len(t)) + 1
      /\ \A i \in 1 .. Len(r) : r[i] = IF i <= Len(s) + Len(t)
                                    THEN (s \o t)[i] ELSE x
  OBVIOUS
<1>3. \A i \in 1 .. Len(s) + Len(t) :
         (s \o t)[i] = IF i <= Len(s) THEN s[i] ELSE t[i - Len(s)]
  OBVIOUS
<1>4. \A i \in 1 .. Len(t) + 1 :
         Append(t, x)[i] = IF i <= Len(t) THEN t[i] ELSE x
  OBVIOUS
<1>5. Len(s) \in Nat /\ Len(t) \in Nat
  OBVIOUS
<1> HIDE DEF l, r
<1>6. Len(l) = Len(r)
  BY <1>1, <1>2, <1>5
<1>7. \A i \in 1 .. Len(l) : l[i] = r[i]
  <2> SUFFICES ASSUME NEW i \in 1 .. Len(l) PROVE l[i] = r[i]
    OBVIOUS
  <2>1. CASE i <= Len(s)
    BY <2>1, <1>1, <1>2, <1>3, <1>5
  <2>2. CASE i > Len(s)
    <3>1. /\ i - Len(s) \in 1 .. Len(t) + 1
          /\ i <= Len(s) + Len(t) => i \in 1 .. Len(s) + Len(t)
          /\ i - Len(s) <= Len(t) <=> i <= Len(s) + Len(t)
          /\ ~ (i <= Len(s)) /\ i \in 1 .. Len(r)
      BY <2>2, <1>1, <1>5, <1>6
    <3>2. l[i] = IF i <= Len(s) + Len(t) THEN t[i - Len(s)] ELSE x
      BY <3>1, <1>1, <1>4
    <3>3. r[i] = IF i <= Len(s) + Len(t) THEN t[i - Len(s)] ELSE x
      BY <3>1, <1>2, <1>3
    <3> QED
      BY <3>2, <3>3
  <2> QED
    BY <2>1, <2>2, <1>1, <1>5
<1>8. l = r
  BY <1>1, <1>2, <1>6, <1>7
<1> QED
  BY <1>8 DEF l, r

\* What arrives is what the history lacks.
LEMMA InFlightRun ==
    ASSUME NEW c, NEW m \in Nat, NEW n \in Nat, m <= n,
           toClient[transport] = Run(m, n)
    PROVE  History(log, c, m) \o InFlight(c) = History(log, c, n)
<1> DEFINE k == n - m
           s == toClient[transport]
           S == {i \in 1 .. Len(s) : /\ s[i].kind = "action"
                                     /\ log[s[i].seq].channel = c
                                     /\ ~log[s[i].seq].rejected}
           P(j) == Selected(Numbers(j), S)
           Q(j) == [i \in 1 .. Len(P(j)) |-> m + P(j)[i]]
           H(j) == History(log, c, m + j)
           I == {j \in Nat : j <= k => H(0) \o Q(j) = H(j)}
<1>1. k \in Nat /\ m + k = n
  OBVIOUS
<1>2. /\ Len(s) = k
      /\ \A i \in 1 .. k : s[i].kind = "action" /\ s[i].seq = m + i
  BY DEF Run, ActionMessage
<1>3. \A i \in 1 .. k : i \in S <=>
          log[m + i].channel = c /\ ~log[m + i].rejected
  BY <1>2
<1>4. \A i \in S : i \in 1 .. k
  BY <1>2
<1>5. /\ P(0) = <<>>
      /\ \A j \in Nat : /\ P(j) \in Seq(Nat)
                        /\ P(j + 1) = IF j + 1 \in S THEN Append(P(j), j + 1)
                                      ELSE P(j)
  <2> HIDE DEF S
  <2> QED
    BY SelectedNumbers
<1>6. \A j \in Nat :
         /\ H(j) \in Seq(Nat)
         /\ H(j + 1) = IF log[m + (j + 1)].channel = c
                          /\ ~log[m + (j + 1)].rejected
                       THEN Append(H(j), m + (j + 1)) ELSE H(j)
  <2> SUFFICES ASSUME NEW j \in Nat
               PROVE  /\ H(j) \in Seq(Nat)
                      /\ H(j + 1) = IF log[m + (j + 1)].channel = c
                                       /\ ~log[m + (j + 1)].rejected
                                    THEN Append(H(j), m + (j + 1)) ELSE H(j)
    OBVIOUS
  <2>1. m + j \in Nat /\ m + (j + 1) = (m + j) + 1
    OBVIOUS
  <2> QED
    BY <2>1, HistoryGrows
<1> HIDE DEF S, P, H
<1>14. Q(0) = <<>>
  <2>1. Len(P(0)) = 0
    BY <1>5
  <2>2. 1 .. Len(P(0)) = {}
    BY <2>1
  <2> QED
    BY <2>2
<1>15. ASSUME NEW j \in Nat
       PROVE  /\ Q(j) \in Seq(Nat)
              /\ Q(j + 1) = IF j + 1 \in S THEN Append(Q(j), m + (j + 1))
                            ELSE Q(j)
  <2> DEFINE p == P(j)
             r == P(j + 1)
  <2>1. p \in Seq(Nat) /\ r = IF j + 1 \in S THEN Append(p, j + 1) ELSE p
    BY <1>5
  <2> HIDE DEF p, r
  <2> DEFINE q == [i \in 1 .. Len(p) |-> m + p[i]]
             u == [i \in 1 .. Len(r) |-> m + r[i]]
  <2>2. q \in Seq(Nat) /\ Len(q) = Len(p) /\ Len(p) \in Nat
        /\ \A i \in 1 .. Len(p) : q[i] = m + p[i]
    BY <2>1
  <2>3. u = IF j + 1 \in S THEN Append(q, m + (j + 1)) ELSE q
    <3>1. CASE j + 1 \notin S
      BY <3>1, <2>1
    <3>2. CASE j + 1 \in S
      <4>1. /\ Len(r) = Len(p) + 1 /\ r[Len(p) + 1] = j + 1
            /\ \A i \in 1 .. Len(p) : r[i] = p[i]
        BY <3>2, <2>1
      <4>2. /\ Append(q, m + (j + 1)) \in Seq(Nat)
            /\ Len(Append(q, m + (j + 1))) = Len(p) + 1
            /\ \A i \in 1 .. Len(p) : Append(q, m + (j + 1))[i] = q[i]
            /\ Append(q, m + (j + 1))[Len(p) + 1] = m + (j + 1)
        BY <2>2
      <4>3. u \in Seq(Nat) /\ Len(u) = Len(p) + 1
            /\ \A i \in 1 .. Len(p) + 1 : u[i] = m + r[i]
        <5>1. r \in Seq(Nat)
          BY <2>1
        <5> QED
          BY <4>1, <5>1
      <4>4. \A i \in 1 .. Len(p) + 1 : u[i] = Append(q, m + (j + 1))[i]
        <5> SUFFICES ASSUME NEW i \in 1 .. Len(p) + 1
                     PROVE  u[i] = Append(q, m + (j + 1))[i]
          OBVIOUS
        <5> HIDE DEF q, u
        <5>1. CASE i \in 1 .. Len(p)
          BY <5>1, <2>2, <4>1, <4>2, <4>3
        <5>2. CASE i = Len(p) + 1
          BY <5>2, <2>2, <4>1, <4>2, <4>3
        <5> QED
          BY <5>1, <5>2, <2>2
      <4> HIDE DEF q, u
      <4>5. u = Append(q, m + (j + 1))
        BY <4>2, <4>3, <4>4
      <4> QED
        BY <4>5, <3>2
    <3> QED
      BY <3>1, <3>2
  <2>4. Q(j) = q /\ Q(j + 1) = u
    BY DEF p, r
  <2> HIDE DEF q, u, Q
  <2> QED
    BY <2>2, <2>3, <2>4
<1> HIDE DEF Q
<1>7. 0 \in I
  <2>1. H(0) \in Seq(Nat)
    BY <1>6
  <2>2. H(0) \o <<>> = H(0)
    BY <2>1
  <2> QED
    BY <2>2, <1>14
<1>8. ASSUME NEW j \in I PROVE j + 1 \in I
  <2> SUFFICES ASSUME j + 1 <= k PROVE H(0) \o Q(j + 1) = H(j + 1)
    OBVIOUS
  <2>1. j \in Nat /\ j + 1 \in 1 .. k /\ H(0) \o Q(j) = H(j)
    BY <1>1, <1>8
  <2>2. CASE j + 1 \in S
    <3>1. Q(j + 1) = Append(Q(j), m + (j + 1))
      BY <1>15, <2>1, <2>2
    <3>2. H(j + 1) = Append(H(j), m + (j + 1))
      BY <1>3, <1>6, <2>1, <2>2
    <3>3. H(0) \in Seq(Nat) /\ Q(j) \in Seq(Nat) /\ m + (j + 1) \in Nat
      BY <1>6, <1>15, <2>1
    <3>4. H(0) \o Append(Q(j), m + (j + 1)) = Append(H(0) \o Q(j), m + (j + 1))
      <4> DEFINE h == H(0)
                 q == Q(j)
                 x == m + (j + 1)
      <4>1. h \in Seq(Nat) /\ q \in Seq(Nat) /\ x \in Nat
        BY <3>3
      <4> HIDE DEF h, q, x
      <4>2. h \o Append(q, x) = Append(h \o q, x)
        BY <4>1, ConcatAppend
      <4> QED
        BY <4>2 DEF h, q, x
    <3> QED
      BY <2>1, <3>1, <3>2, <3>4
  <2>3. CASE j + 1 \notin S
    <3>1. Q(j + 1) = Q(j)
      BY <1>15, <2>1, <2>3
    <3>2. H(j + 1) = H(j)
      BY <1>3, <1>6, <2>1, <2>3
    <3> QED
      BY <2>1, <3>1, <3>2
  <2> QED
    BY <2>2, <2>3
<1>9. I \in SUBSET Nat
  OBVIOUS
<1> HIDE DEF I
<1>10. I = Nat
  BY <1>7, <1>8, <1>9, Induction
<1>11. H(0) \o Q(k) = H(k)
  <2>1. k \in I /\ k <= k
    BY <1>1, <1>10
  <2> HIDE DEF k
  <2> QED
    BY <2>1 DEF I
<1> USE DEF Q
<1>12. InFlight(c) = Q(k)
  <2>1. InFlight(c) = [j \in 1 .. Len(P(k)) |-> s[P(k)[j]].seq]
    BY <1>2 DEF InFlight, P, S
  <2>2. P(k) \in Seq(Nat)
    BY <1>1, <1>5
  <2>3. \A j \in 1 .. Len(P(k)) : P(k)[j] \in 1 .. k
    <3>1. Numbers(k) \in Seq(Nat)
      BY <1>1 DEF Numbers
    <3>2. \A j \in 1 .. Len(P(k)) : P(k)[j] \in S
      BY <3>1, SelectedEmbeds DEF P
    <3> QED
      BY <1>4, <3>2
  <2> QED
    BY <1>2, <2>1, <2>2, <2>3
<1>13. H(0) = History(log, c, m) /\ H(k) = History(log, c, n)
  BY <1>1 DEF H
<1> QED
  BY <1>11, <1>12, <1>13

\* The largest of some numbers that are bounded.
LEMMA MaxBounded ==
    ASSUME NEW S \in SUBSET Nat, NEW n \in Nat, \A x \in S : x <= n, S # {}
    PROVE  Max(S) \in S /\ \A x \in S : x <= Max(S)
<1> DEFINE I == {j \in Nat : (\E y \in S : y >= n - j) =>
                                \E y \in S : \A x \in S : y >= x}
<1>1. 0 \in I
  OBVIOUS
<1>2. ASSUME NEW j \in I PROVE j + 1 \in I
  <2> SUFFICES ASSUME NEW y \in S, y >= n - (j + 1)
               PROVE  \E z \in S : \A x \in S : z >= x
    OBVIOUS
  <2>1. CASE \E x \in S : x > y
    <3>1. PICK x \in S : x > y
      BY <2>1
    <3>2. x >= n - j
      BY <3>1, <1>2
    <3> QED
      BY <3>2, <1>2
  <2>2. CASE ~ \E x \in S : x > y
    BY <2>2
  <2> QED
    BY <2>1, <2>2
<1>3. I \in SUBSET Nat
  OBVIOUS
<1> HIDE DEF I
<1>4. I = Nat
  BY <1>1, <1>2, <1>3, Induction
<1>5. \E y \in S : \A x \in S : y >= x
  <2>1. PICK y \in S : TRUE
    OBVIOUS
  <2>2. y >= n - n /\ n \in Nat
    BY <2>1
  <2> QED
    BY <1>4, <2>1, <2>2 DEF I
<1> QED
  BY <1>5 DEF Max

-----------------------------------------------------------------------------
(* Flattening                                                              *)

\* Element i of f is number o[i] of seqs[b[i]], and the blocks come in order.
Places(f, seqs, n, b, o) ==
    /\ \A i \in 1 .. Len(f) :
          /\ b[i] \in 1 .. n /\ o[i] \in 1 .. Len(seqs[b[i]])
          /\ f[i] = seqs[b[i]][o[i]]
    /\ \A i, j \in 1 .. Len(f) :
          i < j => \/ b[i] < b[j]
                   \/ b[i] = b[j] /\ o[i] < o[j]

\* f has exactly what the first n of seqs have, in order.
Flattens(f, seqs, n) ==
    /\ \E b, o : Places(f, seqs, n, b, o)
    /\ \A k \in 1 .. n : \A i \in 1 .. Len(seqs[k]) :
          \E j \in 1 .. Len(f) : f[j] = seqs[k][i]

\* One more block.
LEMMA FlattensMore ==
    ASSUME NEW T, NEW seqs \in Seq(Seq(T)), NEW f \in Seq(T),
           NEW n \in Nat, n + 1 \in 1 .. Len(seqs), Flattens(f, seqs, n)
    PROVE  Flattens(f \o seqs[n + 1], seqs, n + 1)
<1> DEFINE s == seqs[n + 1]
           g == f \o s
           m == Len(f)
<1>1. /\ s \in Seq(T) /\ g \in Seq(T) /\ m \in Nat /\ Len(s) \in Nat
      /\ Len(g) = m + Len(s)
      /\ \A i \in 1 .. m : g[i] = f[i]
      /\ \A i \in 1 .. Len(s) : g[m + i] = s[i] /\ m + i \in 1 .. Len(g)
  OBVIOUS
<1>2. PICK b, o : Places(f, seqs, n, b, o)
  BY DEF Flattens
<1> DEFINE d == [i \in 1 .. Len(g) |-> IF i <= m THEN b[i] ELSE n + 1]
           q == [i \in 1 .. Len(g) |-> IF i <= m THEN o[i] ELSE i - m]
<1>3. \A i \in 1 .. m : /\ i \in 1 .. Len(g) /\ d[i] = b[i] /\ q[i] = o[i]
                        /\ d[i] \in 1 .. n
  BY <1>1, <1>2 DEF Places
<1>4. \A i \in 1 .. Len(g) : i \notin 1 .. m =>
         d[i] = n + 1 /\ q[i] = i - m /\ i - m \in 1 .. Len(s) /\ g[i] = s[i - m]
  BY <1>1
<1>5. \A i \in 1 .. m : /\ o[i] \in 1 .. Len(seqs[b[i]])
                        /\ f[i] = seqs[b[i]][o[i]]
  BY <1>2 DEF Places
<1>6. \A i, j \in 1 .. m : i < j => \/ b[i] < b[j]
                                    \/ b[i] = b[j] /\ o[i] < o[j]
  BY <1>2 DEF Places
<1>7. seqs[n + 1] = s
  OBVIOUS
<1> HIDE DEF d, q, g, m, s
<1>8. \A i \in 1 .. Len(g) : /\ d[i] \in 1 .. n + 1
                             /\ q[i] \in 1 .. Len(seqs[d[i]])
                             /\ g[i] = seqs[d[i]][q[i]]
  <2> SUFFICES ASSUME NEW i \in 1 .. Len(g)
               PROVE  /\ d[i] \in 1 .. n + 1
                      /\ q[i] \in 1 .. Len(seqs[d[i]])
                      /\ g[i] = seqs[d[i]][q[i]]
    OBVIOUS
  <2>1. CASE i \in 1 .. m
    <3>1. /\ d[i] = b[i] /\ q[i] = o[i] /\ d[i] \in 1 .. n
          /\ g[i] = f[i]
      BY <2>1, <1>1, <1>3
    <3>2. o[i] \in 1 .. Len(seqs[b[i]]) /\ f[i] = seqs[b[i]][o[i]]
      BY <2>1, <1>5
    <3>3. d[i] \in 1 .. n + 1
      BY <3>1
    <3> QED
      BY <3>1, <3>2, <3>3, Zenon
  <2>2. CASE i \notin 1 .. m
    <3>1. d[i] = n + 1 /\ q[i] = i - m /\ i - m \in 1 .. Len(s)
          /\ g[i] = s[i - m]
      BY <2>2, <1>4
    <3>2. n + 1 \in 1 .. n + 1
      OBVIOUS
    <3> QED
      BY <3>1, <3>2, <1>7
  <2> QED
    BY <2>1, <2>2
<1>9. \A i, j \in 1 .. Len(g) : i < j => \/ d[i] < d[j]
                                         \/ d[i] = d[j] /\ q[i] < q[j]
  <2> SUFFICES ASSUME NEW i \in 1 .. Len(g), NEW j \in 1 .. Len(g), i < j
               PROVE  \/ d[i] < d[j]
                      \/ d[i] = d[j] /\ q[i] < q[j]
    OBVIOUS
  <2>1. CASE j \in 1 .. m
    <3>1. i \in 1 .. m
      BY <2>1, <1>1
    <3> QED
      BY <2>1, <3>1, <1>3, <1>6
  <2>2. CASE j \notin 1 .. m /\ i \in 1 .. m
    BY <2>2, <1>3, <1>4
  <2>3. CASE j \notin 1 .. m /\ i \notin 1 .. m
    BY <2>3, <1>1, <1>4
  <2> QED
    BY <2>1, <2>2, <2>3
<1>10. Places(g, seqs, n + 1, d, q)
  BY <1>8, <1>9 DEF Places
<1>11. ASSUME NEW k \in 1 .. n + 1, NEW i \in 1 .. Len(seqs[k])
       PROVE  \E j \in 1 .. Len(g) : g[j] = seqs[k][i]
  <2>1. CASE k \in 1 .. n
    <3>1. PICK j \in 1 .. Len(f) : f[j] = seqs[k][i]
      BY <2>1 DEF Flattens
    <3>2. j \in 1 .. Len(g) /\ g[j] = seqs[k][i]
      BY <3>1, <1>1, <1>3 DEF m
    <3> QED
      BY <3>2
  <2>2. CASE k = n + 1
    <3>1. i \in 1 .. Len(s) /\ s[i] = seqs[k][i]
      BY <2>2, <1>7
    <3>2. m + i \in 1 .. Len(g) /\ g[m + i] = seqs[k][i]
      BY <3>1, <1>1
    <3> QED
      BY <3>2
  <2> QED
    BY <2>1, <2>2
<1> QED
  BY <1>10, <1>11 DEF Flattens, g, s

\* Flattening puts the sequences of a sequence one behind the other.
LEMMA FlattenSeqFlattens ==
    ASSUME NEW T, NEW seqs \in Seq(Seq(T))
    PROVE  /\ FlattenSeq(seqs) \in Seq(T)
           /\ Flattens(FlattenSeq(seqs), seqs, Len(seqs))
<1> DEFINE n == Len(seqs)
<1>0. n \in Nat /\ \A i \in 1 .. n : seqs[i] \in Seq(T)
  OBVIOUS
<1>1. CASE n = 0
  <2>1. FlattenSeq(seqs) = <<>>
    BY <1>1 DEF FlattenSeq
  <2>2. <<>> \in Seq(T) /\ Len(<<>>) = 0
    OBVIOUS
  <2>3. Places(<<>>, seqs, 0, <<>>, <<>>)
    BY <2>2 DEF Places
  <2>4. Flattens(<<>>, seqs, 0)
    BY <2>3 DEF Flattens
  <2> QED
    BY <1>1, <2>1, <2>2, <2>4
<1>2. CASE n # 0
  <2> DEFINE G(g) == [i \in 1 .. n |-> IF i = 1 THEN seqs[i]
                                       ELSE g[i - 1] \o seqs[i]]
             h == CHOOSE g : g = G(g)
             step == [i \in Nat \ {0} |->
                        [v \in Seq(T) |-> IF i \in 1 .. n THEN v \o seqs[i]
                                          ELSE v]]
  <2>1. FlattenSeq(seqs) = h[n]
    BY <1>2 DEF FlattenSeq
  <2>2. step \in [Nat \ {0} -> [Seq(T) -> Seq(T)]]
    BY <1>0
  <2>3. <<>> \in Seq(T)
    OBVIOUS
  <2>4. \A i \in 1 .. n : \A v \in Seq(T) : step[i][v] = v \o seqs[i]
    <3>1. \A i \in 1 .. n : i \in Nat \ {0}
      BY <1>0
    <3> HIDE DEF n
    <3> QED
      BY <3>1
  <2> HIDE DEF step, n
  <2>5. PICK f : f \in [0 .. n -> Seq(T)] /\ Iterates(f, <<>>, step, n)
    BY <1>0, <2>2, <2>3, IterationExists
  <2>6. f[0] = <<>>
    BY <1>0, <2>5 DEF Iterates
  <2>7. \A i \in 1 .. n : f[i] = f[i - 1] \o seqs[i] /\ f[i - 1] \in Seq(T)
    <3> SUFFICES ASSUME NEW i \in 1 .. n
                 PROVE  f[i] = f[i - 1] \o seqs[i] /\ f[i - 1] \in Seq(T)
      OBVIOUS
    <3>1. i \in 0 .. n /\ i # 0 /\ i - 1 \in 0 .. n
      BY <1>0
    <3>2. f[i] = step[i][f[i - 1]] /\ f[i - 1] \in Seq(T)
      BY <2>5, <3>1 DEF Iterates
    <3> QED
      BY <2>4, <3>2
  <2>8. 1 \in 1 .. n /\ f[1] = seqs[1]
    <3>1. 1 \in 1 .. n /\ 1 - 1 = 0
      BY <1>0, <1>2
    <3>2. f[1] = <<>> \o seqs[1] /\ seqs[1] \in Seq(T)
      BY <1>0, <2>6, <2>7, <3>1
    <3> QED
      BY <3>1, <3>2
  <2> DEFINE e == [i \in 1 .. n |-> f[i]]
  <2>9. e = G(e)
    <3>1. \A i \in 1 .. n : e[i] = IF i = 1 THEN seqs[i]
                                   ELSE e[i - 1] \o seqs[i]
      <4> SUFFICES ASSUME NEW i \in 1 .. n
                   PROVE  e[i] = IF i = 1 THEN seqs[i] ELSE e[i - 1] \o seqs[i]
        OBVIOUS
      <4>1. CASE i = 1
        BY <4>1, <2>8
      <4>2. CASE i # 1
        <5>1. i - 1 \in 1 .. n
          BY <4>2, <1>0
        <5>2. e[i - 1] = f[i - 1] /\ e[i] = f[i]
          BY <5>1
        <5> HIDE DEF e
        <5> QED
          BY <4>2, <5>2, <2>7
      <4> QED
        BY <4>1, <4>2
    <3> QED
      BY <3>1
  <2>10. h = G(h)
    <3> HIDE DEF G, e
    <3> QED
      BY <2>9
  <2> HIDE DEF h
  <2> DEFINE I == {i \in Nat : i + 1 <= n => h[i + 1] = f[i + 1]}
             J == {i \in Nat : i <= n => Flattens(f[i], seqs, i)}
  <2>11. h[n] = f[n]
    <3>1. 0 \in I
      BY <2>8, <2>10
    <3>2. ASSUME NEW i \in I PROVE i + 1 \in I
      <4> SUFFICES ASSUME (i + 1) + 1 <= n
                   PROVE  h[(i + 1) + 1] = f[(i + 1) + 1]
        OBVIOUS
      <4> DEFINE k == (i + 1) + 1
      <4>1. i \in Nat /\ k \in 1 .. n /\ k # 1 /\ k - 1 = i + 1
            /\ h[i + 1] = f[i + 1]
        BY <1>0, <3>2
      <4> HIDE DEF k
      <4>2. h[k] = h[i + 1] \o seqs[k] /\ f[k] = f[i + 1] \o seqs[k]
        BY <4>1, <2>7, <2>10
      <4> QED
        BY <4>1, <4>2 DEF k
    <3>3. I \in SUBSET Nat
      OBVIOUS
    <3> HIDE DEF I
    <3>4. I = Nat
      BY <3>1, <3>2, <3>3, Induction
    <3>5. n - 1 \in I /\ (n - 1) + 1 = n
      BY <1>0, <1>2, <3>4
    <3> QED
      BY <3>5, <1>0 DEF I
  <2>12. J = Nat
    <3>1. 0 \in J
      <4>1. Len(<<>>) = 0
        OBVIOUS
      <4>2. Places(<<>>, seqs, 0, <<>>, <<>>)
        BY <4>1 DEF Places
      <4>3. Flattens(<<>>, seqs, 0)
        BY <4>2 DEF Flattens
      <4> QED
        BY <2>6, <4>3
    <3>2. ASSUME NEW i \in J PROVE i + 1 \in J
      <4> SUFFICES ASSUME i + 1 <= n PROVE Flattens(f[i + 1], seqs, i + 1)
        OBVIOUS
      <4>1. /\ i \in Nat /\ i + 1 \in 1 .. n /\ (i + 1) - 1 = i
            /\ Flattens(f[i], seqs, i)
        BY <1>0, <3>2
      <4>2. f[i + 1] = f[i] \o seqs[i + 1] /\ f[i] \in Seq(T)
        BY <4>1, <2>7
      <4> DEFINE v == f[i]
      <4>3. v \in Seq(T) /\ Flattens(v, seqs, i)
        BY <4>1, <4>2
      <4> HIDE DEF v
      <4>4. Flattens(v \o seqs[i + 1], seqs, i + 1)
        BY <4>1, <4>3, FlattensMore DEF n
      <4> QED
        BY <4>2, <4>4 DEF v
    <3>3. J \in SUBSET Nat
      OBVIOUS
    <3> HIDE DEF J
    <3> QED
      BY <3>1, <3>2, <3>3, Induction
  <2>13. Flattens(f[n], seqs, n)
    <3>1. n \in J /\ n <= n
      BY <1>0, <2>12
    <3> QED
      BY <3>1
  <2>14. f[n] \in Seq(T)
    BY <1>0, <2>5
  <2> QED
    BY <2>1, <2>11, <2>13, <2>14 DEF n
<1> QED
  BY <1>1, <1>2

\* An action on its way to the server, or in the outbox.
Action == [kind : {"dispatch"}, channel : Channels, clientSeq : Nat]

\* What a dispatch says of itself.
LEMMA DispatchType ==
    ASSUME NEW c \in Channels, NEW n \in Nat
    PROVE  /\ Dispatch(c, n) \in Action
           /\ Dispatch(c, n).channel = c
           /\ Dispatch(c, n).clientSeq = n
           /\ Dispatch(c, n).kind = "dispatch"
BY DEF Dispatch, Action

\* The order in which channels are drained: each comes once.
LEMMA ChannelOrder ==
    LET order == SetToSeq(Resent)
    IN  /\ order \in Seq(Resent)
        /\ \A i, j \in 1 .. Len(order) : order[i] = order[j] => i = j
        /\ \A c \in Resent : \E i \in 1 .. Len(order) : order[i] = c
<1> DEFINE N == Cardinality(Resent)
           order == SetToSeq(Resent)
<1>1. IsFiniteSet(Resent)
  BY ConstantsAssumption, FS_Subset
<1>2. N \in Nat /\ ExistsBijection(1 .. N, Resent)
  BY <1>1, FS_CardinalityType
<1>3. \E f \in [1 .. N -> Resent] : IsInjective(f)
  <2>1. PICK f : f \in Bijection(1 .. N, Resent)
    BY <1>2 DEF ExistsBijection
  <2>2. f \in [1 .. N -> Resent] /\ IsInjective(f)
    BY <2>1 DEF Bijection, Injection, IsInjective
  <2> QED
    BY <2>2
<1>4. order \in [1 .. N -> Resent] /\ IsInjective(order)
  BY <1>3 DEF SetToSeq
<1> HIDE DEF order
<1>5. order \in Seq(Resent) /\ Len(order) = N
  BY <1>2, <1>4
<1>6. \A i, j \in 1 .. Len(order) : order[i] = order[j] => i = j
  BY <1>4, <1>5 DEF IsInjective
<1>7. \A c \in Resent : \E i \in 1 .. Len(order) : order[i] = c
  <2>1. order \in Injection(1 .. N, Resent)
    BY <1>4 DEF Injection, IsInjective
  <2>2. Cardinality(1 .. N) = N
    <3>1. 0 \in Int /\ 1 \in Int /\ N \in Int /\ ~(1 > N) => N - 1 + 1 = N
      BY <1>2
    <3> QED
      BY <1>2, FS_Interval
  <2>3. order \in Surjection(1 .. N, Resent)
    BY <1>1, <2>1, <2>2, FS_Injection
  <2> QED
    BY <1>5, <2>3 DEF Surjection
<1> QED
  BY <1>5, <1>6, <1>7 DEF order

\* What is sent again of one channel.
LEMMA ResentOfChannel ==
    ASSUME NEW c \in Channels, NEW p \in Seq(Nat)
    PROVE  LET r == ResentActions(c, p)
           IN  /\ r \in Seq(Action)
               /\ \A i \in 1 .. Len(r) :
                     /\ r[i] = Dispatch(c, r[i].clientSeq)
                     /\ r[i].clientSeq \in ToSet(p)
                     /\ r[i] \notin ToSet(outbox)
               /\ \A n \in ToSet(p) :
                     \/ Dispatch(c, n) \in ToSet(outbox)
                     \/ \E i \in 1 .. Len(r) : r[i] = Dispatch(c, n)
               /\ Increasing(p) => \A i, j \in 1 .. Len(r) :
                     i < j => r[i].clientSeq < r[j].clientSeq
<1> DEFINE s == [i \in 1 .. Len(p) |-> Dispatch(c, p[i])]
           S == {Dispatch(c, n) : n \in ToSet(p)} \ ToSet(outbox)
           r == ResentActions(c, p)
<1>1. /\ Len(p) \in Nat /\ \A i \in 1 .. Len(p) : p[i] \in Nat
      /\ DOMAIN p = 1 .. Len(p)
  OBVIOUS
<1>2. /\ s \in Seq(Action) /\ Len(s) = Len(p)
      /\ \A i \in 1 .. Len(p) : s[i] = Dispatch(c, p[i])
  <2>1. \A i \in 1 .. Len(p) : Dispatch(c, p[i]) \in Action
    BY <1>1, DispatchType
  <2> QED
    BY <1>1, <2>1
<1>3. r = Selected(s, S)
  BY DEF ResentActions
<1>4. S \subseteq {Dispatch(c, n) : n \in ToSet(p)} /\ S \cap ToSet(outbox) = {}
      /\ \A n \in ToSet(p) : Dispatch(c, n) \in S \/ Dispatch(c, n) \in ToSet(outbox)
  OBVIOUS
<1> HIDE DEF r, s, S
<1>5. r \in Seq(Action)
  BY <1>2, <1>3, SelectedType
<1>6. PICK e : Embeds(r, s, e)
  BY <1>2, <1>3, SelectedEmbeds
<1>7. /\ \A j \in 1 .. Len(r) : r[j] \in S
      /\ \A i \in 1 .. Len(s) : s[i] \in S => \E j \in 1 .. Len(r) : r[j] = s[i]
  BY <1>2, <1>3, SelectedEmbeds
<1>8. \A i \in 1 .. Len(r) : /\ e[i] \in 1 .. Len(p)
                             /\ r[i] = Dispatch(c, p[e[i]])
                             /\ r[i].clientSeq = p[e[i]]
  <2> SUFFICES ASSUME NEW i \in 1 .. Len(r)
               PROVE  /\ e[i] \in 1 .. Len(p) /\ r[i] = Dispatch(c, p[e[i]])
                      /\ r[i].clientSeq = p[e[i]]
    OBVIOUS
  <2>1. e[i] \in 1 .. Len(p) /\ r[i] = s[e[i]]
    BY <1>2, <1>6 DEF Embeds
  <2>2. r[i] = Dispatch(c, p[e[i]]) /\ p[e[i]] \in Nat
    BY <1>1, <1>2, <2>1
  <2> QED
    BY <2>1, <2>2, DispatchType
<1>9. \A i \in 1 .. Len(r) : /\ r[i] = Dispatch(c, r[i].clientSeq)
                             /\ r[i].clientSeq \in ToSet(p)
                             /\ r[i] \notin ToSet(outbox)
  <2> SUFFICES ASSUME NEW i \in 1 .. Len(r)
               PROVE  /\ r[i] = Dispatch(c, r[i].clientSeq)
                      /\ r[i].clientSeq \in ToSet(p)
                      /\ r[i] \notin ToSet(outbox)
    OBVIOUS
  <2>1. r[i].clientSeq \in ToSet(p)
    BY <1>1, <1>8 DEF ToSet
  <2>2. r[i] = Dispatch(c, r[i].clientSeq)
    BY <1>8
  <2>3. r[i] \notin ToSet(outbox)
    BY <1>4, <1>7
  <2> QED
    BY <2>1, <2>2, <2>3
<1>10. ASSUME NEW n \in ToSet(p)
       PROVE  \/ Dispatch(c, n) \in ToSet(outbox)
              \/ \E i \in 1 .. Len(r) : r[i] = Dispatch(c, n)
  <2>1. PICK i \in 1 .. Len(p) : p[i] = n
    BY <1>1 DEF ToSet
  <2>2. s[i] = Dispatch(c, n) /\ i \in 1 .. Len(s)
    BY <1>2, <2>1
  <2> QED
    BY <1>4, <1>7, <2>2
<1>11. Increasing(p) => \A i, j \in 1 .. Len(r) :
                           i < j => r[i].clientSeq < r[j].clientSeq
  <2> SUFFICES ASSUME Increasing(p), NEW i \in 1 .. Len(r), NEW j \in 1 .. Len(r),
                      i < j
               PROVE  r[i].clientSeq < r[j].clientSeq
    OBVIOUS
  <2>1. e[i] < e[j]
    BY <1>6 DEF Embeds
  <2>2. /\ e[i] \in 1 .. Len(p) /\ e[j] \in 1 .. Len(p)
        /\ r[i].clientSeq = p[e[i]] /\ r[j].clientSeq = p[e[j]]
    BY <1>8
  <2> QED
    BY <2>1, <2>2 DEF Increasing
<1> QED
  BY <1>5, <1>9, <1>10, <1>11 DEF r

\* r is what is sent again, of all channels.
Resends(r, p) ==
    /\ r \in Seq(Action)
    /\ \A i \in 1 .. Len(r) :
          /\ r[i].channel \in Resent
          /\ r[i].clientSeq \in ToSet(p[r[i].channel])
          /\ r[i] \notin ToSet(outbox)
    /\ \A c \in Resent : \A n \in ToSet(p[c]) :
          \/ Dispatch(c, n) \in ToSet(outbox)
          \/ \E i \in 1 .. Len(r) : r[i] = Dispatch(c, n)
    /\ (\A c \in Resent : Increasing(p[c])) =>
          \A i, j \in 1 .. Len(r) :
             i < j /\ r[i].channel = r[j].channel
                => r[i].clientSeq < r[j].clientSeq

\* After a reconnection the client sends what is pending again, then its
\* outbox.
LEMMA DrainedResends ==
    ASSUME NEW p \in [Channels -> Seq(Nat)]
    PROVE  \E r : Resends(r, p) /\ Drained(p) = r \o outbox
<1> DEFINE order == SetToSeq(Resent)
           A(c) == ResentActions(c, p[c])
           seqs == [i \in 1 .. Len(order) |-> LET c == order[i] IN A(c)]
           r == FlattenSeq(seqs)
<1>1. Drained(p) = r \o outbox
  BY DEF Drained
<1>2. /\ order \in Seq(Resent)
      /\ \A i, j \in 1 .. Len(order) : order[i] = order[j] => i = j
      /\ \A c \in Resent : \E i \in 1 .. Len(order) : order[i] = c
  BY ChannelOrder
<1>3. Resent \subseteq Channels
  BY ConstantsAssumption
<1> HIDE DEF order
<1>4. ASSUME NEW c \in Resent
      PROVE  /\ A(c) \in Seq(Action)
             /\ \A i \in 1 .. Len(A(c)) :
                     /\ A(c)[i] = Dispatch(c, A(c)[i].clientSeq)
                     /\ A(c)[i].clientSeq \in ToSet(p[c])
                     /\ A(c)[i] \notin ToSet(outbox)
             /\ \A n \in ToSet(p[c]) :
                     \/ Dispatch(c, n) \in ToSet(outbox)
                     \/ \E i \in 1 .. Len(A(c)) : A(c)[i] = Dispatch(c, n)
             /\ Increasing(p[c]) => \A i, j \in 1 .. Len(A(c)) :
                     i < j => A(c)[i].clientSeq < A(c)[j].clientSeq
  <2>1. c \in Channels /\ p[c] \in Seq(Nat)
    BY <1>3
  <2> QED
    BY <2>1, ResentOfChannel
<1> HIDE DEF A
<1>5. /\ seqs \in Seq(Seq(Action)) /\ Len(seqs) = Len(order)
      /\ \A i \in 1 .. Len(order) : seqs[i] = A(order[i]) /\ order[i] \in Resent
  <2>1. PICK n \in Nat : n = Len(order)
    BY <1>2
  <2>2. \A i \in 1 .. n : order[i] \in Resent
    BY <1>2, <2>1
  <2>3. \A i \in 1 .. n : A(order[i]) \in Seq(Action)
    BY <1>4, <2>2
  <2>4. seqs = [i \in 1 .. n |-> A(order[i])]
    BY <2>1
  <2> HIDE DEF seqs
  <2>5. seqs \in [1 .. n -> Seq(Action)]
    BY <2>3, <2>4
  <2>6. seqs \in Seq(Seq(Action)) /\ Len(seqs) = n
    BY <2>1, <2>5
  <2>7. \A i \in 1 .. n : seqs[i] = A(order[i])
    BY <2>4
  <2> QED
    BY <2>1, <2>2, <2>6, <2>7
<1> HIDE DEF seqs
<1>6. r \in Seq(Action) /\ Flattens(r, seqs, Len(seqs))
  BY <1>5, FlattenSeqFlattens
<1> HIDE DEF r
<1>7. PICK b, o : Places(r, seqs, Len(seqs), b, o)
  BY <1>6 DEF Flattens
<1>8. ASSUME NEW i \in 1 .. Len(r)
      PROVE  /\ b[i] \in 1 .. Len(order) /\ order[b[i]] \in Resent
             /\ o[i] \in 1 .. Len(A(order[b[i]]))
             /\ r[i] = A(order[b[i]])[o[i]]
             /\ r[i].channel = order[b[i]]
             /\ r[i].clientSeq \in ToSet(p[order[b[i]]])
             /\ r[i] \notin ToSet(outbox)
  <2> DEFINE c == order[b[i]]
  <2>1. /\ b[i] \in 1 .. Len(order) /\ o[i] \in 1 .. Len(seqs[b[i]])
        /\ r[i] = seqs[b[i]][o[i]]
    BY <1>5, <1>7 DEF Places
  <2>2. seqs[b[i]] = A(c) /\ c \in Resent
    BY <1>5, <2>1
  <2> HIDE DEF c
  <2>3. o[i] \in 1 .. Len(A(c)) /\ r[i] = A(c)[o[i]]
    BY <2>1, <2>2
  <2>4. /\ r[i] = Dispatch(c, r[i].clientSeq)
        /\ r[i].clientSeq \in ToSet(p[c])
        /\ r[i] \notin ToSet(outbox)
    BY <1>4, <2>2, <2>3
  <2>5. r[i].channel = c
    BY <2>4 DEF Dispatch
  <2> QED
    BY <2>1, <2>2, <2>3, <2>4, <2>5 DEF c
<1>9. ASSUME NEW c \in Resent, NEW n \in ToSet(p[c])
      PROVE  \/ Dispatch(c, n) \in ToSet(outbox)
             \/ \E i \in 1 .. Len(r) : r[i] = Dispatch(c, n)
  <2>1. CASE Dispatch(c, n) \in ToSet(outbox)
    BY <2>1
  <2>2. CASE Dispatch(c, n) \notin ToSet(outbox)
    <3>1. PICK i \in 1 .. Len(A(c)) : A(c)[i] = Dispatch(c, n)
      BY <1>4, <2>2
    <3>2. PICK k \in 1 .. Len(order) : order[k] = c
      BY <1>2
    <3>3. seqs[k] = A(c) /\ k \in 1 .. Len(seqs)
      BY <1>5, <3>2
    <3>4. \E j \in 1 .. Len(r) : r[j] = seqs[k][i]
      BY <1>6, <3>1, <3>3 DEF Flattens
    <3> QED
      BY <3>1, <3>3, <3>4
  <2> QED
    BY <2>1, <2>2
<1>10. ASSUME \A c \in Resent : Increasing(p[c]),
              NEW i \in 1 .. Len(r), NEW j \in 1 .. Len(r),
              i < j, r[i].channel = r[j].channel
       PROVE  r[i].clientSeq < r[j].clientSeq
  <2>1. b[i] = b[j]
    <3>1. r[i].channel = order[b[i]] /\ r[j].channel = order[b[j]]
      BY <1>8
    <3>2. b[i] \in 1 .. Len(order) /\ b[j] \in 1 .. Len(order)
      BY <1>8
    <3>3. order[b[i]] = order[b[j]]
      BY <1>10, <3>1
    <3> QED
      BY <1>2, <3>2, <3>3
  <2>2. o[i] < o[j]
    <3>1. b[i] < b[j] \/ (b[i] = b[j] /\ o[i] < o[j])
      BY <1>7, <1>10 DEF Places
    <3>2. b[i] \in Nat
      BY <1>8
    <3> QED
      BY <2>1, <3>1, <3>2
  <2> DEFINE c == order[b[i]]
  <2>3. /\ c \in Resent /\ o[i] \in 1 .. Len(A(c)) /\ o[j] \in 1 .. Len(A(c))
        /\ r[i] = A(c)[o[i]] /\ r[j] = A(c)[o[j]]
    BY <1>8, <2>1
  <2> HIDE DEF c
  <2> QED
    BY <1>4, <1>10, <2>2, <2>3
<1>11. Resends(r, p)
  BY <1>6, <1>8, <1>9, <1>10 DEF Resends
<1> QED
  BY <1>1, <1>11

-----------------------------------------------------------------------------
(* Types                                                                   *)

\* What the client sends.
Request == Action \cup [kind : {"reconnect"}, seq : Nat]
                  \cup [kind : {"initialize"}]

\* The numbers of the snapshots of some channels.
Snapshots(n) == UNION {[D -> 0 .. n] : D \in SUBSET Channels}

\* The messages to the client, and the reconnections being answered, when
\* there are n envelopes: they speak of no others.
Message(n) ==
    [kind : {"action"}, seq : 1 .. n]
        \cup [kind : {"replay"}, seqs : Seq(1 .. n), missing : SUBSET Channels]
        \cup [kind : {"snapshot"}, seqs : Snapshots(n)]
        \cup [kind : {"notFound"}]
        \cup [kind : {"initialized"}, seq : 0 .. n]
Job(n) == [active : BOOLEAN, lastSeen : Nat, canReplay : BOOLEAN,
           todo : SUBSET Channels, snapshots : Snapshots(n)]

\* The connection states of the client.
States == {"connected", "waiting", "reconnecting", "initializing"}

\* The types of what the server keeps,
ServerTypes ==
    /\ log \in Seq(Envelope)
    /\ known \in BOOLEAN
    /\ forgotten \in BOOLEAN
    /\ connections \in Seq(Transports)
    /\ subscriptions \in [Transports -> SUBSET Channels]
    /\ restoring \in [Transports -> Job(Len(log))]
    /\ dispatchQueue \in Seq([action : Action, prelude : BOOLEAN])
    /\ queueing \in BOOLEAN

\* of what is on its way,
TransportTypes ==
    /\ toServer \in [Transports -> Seq(Request)]
    /\ toClient \in [Transports -> Seq(Message(Len(log)))]
    /\ open \in [Transports -> BOOLEAN]

\* and of what the client keeps.
ClientTypes ==
    /\ transport \in Transports
    /\ state \in States
    /\ serverSeq \in 0 .. Len(log)
    /\ confirmed \in [Channels -> Seq(1 .. Len(log))]
    /\ pending \in [Channels -> Seq(Nat)]
    /\ failed \in SUBSET Channels
    /\ outbox \in Seq(Action)
    /\ clientSeq \in Nat

\* The type invariant.
TypeOK == ServerTypes /\ TransportTypes /\ ClientTypes

\* Snapshots are of some channels, each of a number of envelopes up to n.
LEMMA SnapshotsMembers ==
    ASSUME NEW n \in Nat
    PROVE  /\ <<>> \in Snapshots(n)
           /\ \A f \in Snapshots(n) :
                 /\ f = [c \in DOMAIN f |-> f[c]]
                 /\ DOMAIN f \subseteq Channels
                 /\ \A c \in DOMAIN f : f[c] \in 0 .. n
           /\ \A D \in SUBSET Channels : \A f \in [D -> 0 .. n] : f \in Snapshots(n)
<1>1. \A D \in SUBSET Channels : \A f \in [D -> 0 .. n] : f \in Snapshots(n)
  BY DEF Snapshots
<1>2. <<>> \in [{} -> 0 .. n]
  OBVIOUS
<1>3. {} \in SUBSET Channels
  OBVIOUS
<1>4. \A f \in Snapshots(n) :
                 /\ f = [c \in DOMAIN f |-> f[c]]
                 /\ DOMAIN f \subseteq Channels
                 /\ \A c \in DOMAIN f : f[c] \in 0 .. n
  BY DEF Snapshots
<1> QED
  BY <1>1, <1>2, <1>3, <1>4

\* What the members of Message are.
LEMMA MessageMembers ==
    ASSUME NEW n \in Nat, NEW m \in Message(n)
    PROVE  /\ m.kind \in {"action", "replay", "snapshot", "notFound", "initialized"}
           /\ m.kind = "action" => m.seq \in 1 .. n
           /\ m.kind = "initialized" => m.seq \in 0 .. n
           /\ m.kind = "replay" => m.seqs \in Seq(1 .. n) /\ m.missing \in SUBSET Channels
           /\ m.kind = "snapshot" => m.seqs \in Snapshots(n)
<1> HIDE DEF Snapshots
<1> QED
BY DEF Message

\* The three kinds of messages to the server.
LEMMA RequestMembers ==
    ASSUME NEW m \in Request
    PROVE  /\ m.kind \in {"dispatch", "reconnect", "initialize"}
           /\ m.kind = "dispatch" => m \in Action
           /\ m.kind = "reconnect" => m.seq \in Nat
BY DEF Request, Action

\* A snapshot of fewer envelopes is also one of up to more.
LEMMA SnapshotsGrow ==
    ASSUME NEW m \in Nat, NEW n \in Nat, m <= n
    PROVE  Snapshots(m) \subseteq Snapshots(n)
<1> SUFFICES ASSUME NEW f \in Snapshots(m) PROVE f \in Snapshots(n)
  OBVIOUS
<1>1. PICK D \in SUBSET Channels : f \in [D -> 0 .. m]
  BY DEF Snapshots
<1>2. f \in [D -> 0 .. n]
  BY <1>1
<1> QED
  BY <1>2 DEF Snapshots

\* A sequence over a set is one over every superset.
LEMMA SeqOfSuperset ==
    ASSUME NEW S, NEW T, S \subseteq T
    PROVE  Seq(S) \subseteq Seq(T)
OBVIOUS

\* Messages and reconnections under way keep their types when an envelope is
\* emitted.
LEMMA MessagesGrow ==
    ASSUME NEW m \in Nat, NEW n \in Nat, m <= n
    PROVE  /\ Message(m) \subseteq Message(n)
           /\ Job(m) \subseteq Job(n)
<1>1. Snapshots(m) \subseteq Snapshots(n)
  BY SnapshotsGrow
<1>2. 1 .. m \subseteq 1 .. n /\ 0 .. m \subseteq 0 .. n
  OBVIOUS
<1>3. Seq(1 .. m) \subseteq Seq(1 .. n)
  BY <1>2
<1>4. Job(m) \subseteq Job(n)
  BY <1>1 DEF Job
<1>5. Message(m) \subseteq Message(n)
  BY <1>1, <1>2, <1>3 DEF Message
<1> QED
  BY <1>4, <1>5

\* The messages the server and the client write.
LEMMA MessagesWritten ==
    ASSUME NEW n \in Nat
    PROVE  /\ \A k \in 1 .. n : [kind |-> "action", seq |-> k] \in Message(n)
           /\ \A k \in 0 .. n : [kind |-> "initialized", seq |-> k] \in Message(n)
           /\ [kind |-> "notFound"] \in Message(n)
           /\ \A s \in Seq(1 .. n) : \A d \in SUBSET Channels :
                 [kind |-> "replay", seqs |-> s, missing |-> d] \in Message(n)
           /\ \A s \in Snapshots(n) : [kind |-> "snapshot", seqs |-> s] \in Message(n)
           /\ \A k \in Nat : [kind |-> "reconnect", seq |-> k] \in Request
           /\ [kind |-> "initialize"] \in Request
           /\ Action \subseteq Request
           /\ NoJob \in Job(n)
<1>1. <<>> \in Snapshots(n)
  BY SnapshotsMembers
<1>2. NoJob \in Job(n)
  BY <1>1 DEF NoJob, Job
<1>3. /\ \A k \in 1 .. n : [kind |-> "action", seq |-> k] \in Message(n)
      /\ \A k \in 0 .. n : [kind |-> "initialized", seq |-> k] \in Message(n)
      /\ [kind |-> "notFound"] \in Message(n)
  BY DEF Message
<1>4. /\ \A s \in Seq(1 .. n) : \A d \in SUBSET Channels :
                 [kind |-> "replay", seqs |-> s, missing |-> d] \in Message(n)
      /\ \A s \in Snapshots(n) : [kind |-> "snapshot", seqs |-> s] \in Message(n)
  BY DEF Message
<1> QED
  BY <1>2, <1>3, <1>4 DEF Request

\* What the server emits.
LEMMA EmitTypes ==
    ASSUME TypeOK, NEW c \in Channels, NEW n \in Nat, NEW r \in BOOLEAN,
           Emit(toClient, c, n, r)
    PROVE  /\ log' \in Seq(Envelope)
           /\ Len(log') = Len(log) + 1
           /\ toClient' \in [Transports -> Seq(Message(Len(log')))]
           /\ restoring \in [Transports -> Job(Len(log'))]
           /\ serverSeq \in 0 .. Len(log')
           /\ confirmed \in [Channels -> Seq(1 .. Len(log'))]
<1> USE DEF TypeOK, ServerTypes, TransportTypes, ClientTypes
<1> DEFINE N == Len(log)
<1>1. N \in Nat
  OBVIOUS
<1>2. log' = Append(log, [channel |-> c, clientSeq |-> n, rejected |-> r])
  BY DEF Emit
<1>3. log' \in Seq(Envelope) /\ Len(log') = N + 1
  BY <1>2 DEF Envelope
<1>4. /\ N + 1 \in Nat /\ N <= N + 1
      /\ Message(N) \subseteq Message(N + 1)
      /\ Job(N) \subseteq Job(N + 1)
  BY <1>1, MessagesGrow
<1>5. [kind |-> "action", seq |-> N + 1] \in Message(N + 1)
  BY <1>1, MessagesWritten
<1>6. ASSUME NEW t \in Transports
      PROVE  /\ toClient[t] \in Seq(Message(N + 1))
             /\ restoring[t] \in Job(N + 1)
  <2>1. toClient[t] \in Seq(Message(N)) /\ restoring[t] \in Job(N)
    OBVIOUS
  <2> QED
    BY <1>4, <2>1
<1>7. toClient' \in [Transports -> Seq(Message(N + 1))]
  <2>1. ASSUME NEW t \in Transports
        PROVE  Append(toClient[t], [kind |-> "action", seq |-> N + 1]) \in
                  Seq(Message(N + 1))
    BY <1>5, <1>6
  <2> QED
    BY <1>6, <2>1 DEF Emit
<1>8. restoring \in [Transports -> Job(N + 1)]
  BY <1>6
<1>9. serverSeq \in 0 .. N + 1
  BY <1>1
<1>10. confirmed \in [Channels -> Seq(1 .. N + 1)]
  <2>1. 1 .. N \subseteq 1 .. N + 1
    BY <1>1
  <2>2. Seq(1 .. N) \subseteq Seq(1 .. N + 1)
    BY <2>1
  <2> QED
    BY <2>2
<1> QED
  BY <1>3, <1>7, <1>8, <1>9, <1>10

\* Writing messages to a transport keeps its type.
LEMMA SentTypes ==
    ASSUME TypeOK, NEW t \in Transports
    PROVE  /\ \A s \in Seq(Request) :
                 SentToServer(t, s) \in [Transports -> Seq(Request)]
           /\ \A s \in Seq(Message(Len(log))) :
                 SentToClient(t, s) \in [Transports -> Seq(Message(Len(log)))]
           /\ \A x \in Message(Len(log)) :
                 SentToClient(t, <<x>>) \in [Transports -> Seq(Message(Len(log)))]
           /\ \A x \in Request :
                 SentToServer(t, <<x>>) \in [Transports -> Seq(Request)]
<1> USE DEF TypeOK, ServerTypes, TransportTypes, ClientTypes
<1>1. /\ \A s \in Seq(Request) :
            SentToServer(t, s) \in [Transports -> Seq(Request)]
      /\ \A s \in Seq(Message(Len(log))) :
            SentToClient(t, s) \in [Transports -> Seq(Message(Len(log)))]
  BY DEF SentToServer, SentToClient
<1>2. /\ \A x \in Message(Len(log)) : <<x>> \in Seq(Message(Len(log)))
      /\ \A x \in Request : <<x>> \in Seq(Request)
  OBVIOUS
<1> QED
  BY <1>1, <1>2

\* What a reader gets, and what is left.
LEMMA ReadTypes ==
    ASSUME TypeOK, NEW t \in Transports
    PROVE  /\ toServer[t] # <<>> =>
                 /\ Head(toServer[t]) \in Request
                 /\ [toServer EXCEPT ![t] = Tail(@)] \in [Transports -> Seq(Request)]
           /\ toClient[transport] # <<>> =>
                 /\ Incoming \in Message(Len(log))
                 /\ Consumed \in [Transports -> Seq(Message(Len(log)))]
<1> USE DEF TypeOK, ServerTypes, TransportTypes, ClientTypes
<1>1. toServer[t] # <<>> =>
                 /\ Head(toServer[t]) \in Request
                 /\ [toServer EXCEPT ![t] = Tail(@)] \in [Transports -> Seq(Request)]
  OBVIOUS
<1>2. transport \in Transports /\ toClient[transport] \in Seq(Message(Len(log)))
  OBVIOUS
<1>3. toClient[transport] # <<>> =>
                 /\ Head(toClient[transport]) \in Message(Len(log))
                 /\ Tail(toClient[transport]) \in Seq(Message(Len(log)))
  BY <1>2
<1> QED
  BY <1>1, <1>2, <1>3 DEF Incoming, Consumed

\* An action of the server, or of the client, is dispatched.
LEMMA DispatchNowEmits ==
    ASSUME TypeOK, NEW m \in Action, DispatchNow(toClient, m)
    PROVE  \E r \in BOOLEAN : /\ Emit(toClient, m.channel, m.clientSeq, r)
                              /\ r => m.channel \in Resent
                              /\ m.channel \in Channels /\ m.clientSeq \in Nat
<1>1. m.channel \in Channels /\ m.clientSeq \in Nat
  BY DEF Action
<1> DEFINE E(r) == Emit(toClient, m.channel, m.clientSeq, r)
           q == m.channel \in Resent
<1>2. E(FALSE) \/ E(q)
  BY DEF DispatchNow
<1>3. q = TRUE \/ q = FALSE
  OBVIOUS
<1>4. E(FALSE) \/ (q /\ E(TRUE))
  <2>1. CASE q = TRUE
    BY <1>2, <2>1
  <2>2. CASE q = FALSE
    BY <1>2, <2>2
  <2> QED
    BY <1>3, <2>1, <2>2
<1> HIDE DEF E
<1>5. \E r \in BOOLEAN : E(r) /\ (r => q)
  BY <1>4
<1> QED
  BY <1>1, <1>5 DEF E

\* A step that leaves the log and the client alone keeps the client's types.
LEMMA ClientKept ==
    ASSUME TypeOK, UNCHANGED <<log, clientVars>>
    PROVE  ClientTypes'
BY DEF TypeOK, ServerTypes, ClientTypes, clientVars

\* A step that leaves the server alone keeps its types.
LEMMA ServerKept ==
    ASSUME TypeOK, UNCHANGED serverVars
    PROVE  ServerTypes'
BY DEF TypeOK, ServerTypes, serverVars

\* An envelope more in the log keeps the client's types.
LEMMA ClientKeptByEmit ==
    ASSUME TypeOK, UNCHANGED clientVars, NEW c \in Channels, NEW n \in Nat,
           NEW r \in BOOLEAN, Emit(toClient, c, n, r)
    PROVE  ClientTypes'
<1>1. serverSeq \in 0 .. Len(log') /\ confirmed \in [Channels -> Seq(1 .. Len(log'))]
  BY EmitTypes
<1> QED
  BY <1>1 DEF TypeOK, ClientTypes, clientVars

\* An action of the server keeps the types.
LEMMA ServerActionTypes ==
    ASSUME TypeOK, NEW c \in Channels, ServerAction(c)
    PROVE  TypeOK'
<1>1. Emit(toClient, c, 0, FALSE) /\ UNCHANGED clientVars
  BY DEF ServerAction
<1>2. /\ log' \in Seq(Envelope)
      /\ toClient' \in [Transports -> Seq(Message(Len(log')))]
      /\ restoring \in [Transports -> Job(Len(log'))]
  BY <1>1, EmitTypes
<1>3. ServerTypes' /\ TransportTypes'
  BY <1>2 DEF TypeOK, ServerTypes, TransportTypes, ServerAction
<1>4. ClientTypes'
  BY <1>1, ClientKeptByEmit
<1> QED
  BY <1>3, <1>4 DEF TypeOK

\* Working off the dispatch queue keeps the types.
LEMMA QueueStepTypes ==
    ASSUME TypeOK, QueueStep
    PROVE  TypeOK'
<1> DEFINE m == Head(dispatchQueue)
<1>1. /\ m.action \in Action
      /\ dispatchQueue' \in Seq([action : Action, prelude : BOOLEAN])
  <2> DEFINE Q == [action : Action, prelude : BOOLEAN]
  <2>1. dispatchQueue \in Seq(Q) /\ dispatchQueue # <<>>
    BY DEF TypeOK, ServerTypes, QueueStep
  <2>2. \A q \in Q : q.action \in Action
    OBVIOUS
  <2> HIDE DEF Q
  <2>3. m \in Q /\ Tail(dispatchQueue) \in Seq(Q)
    BY <2>1
  <2> QED
    BY <2>2, <2>3 DEF QueueStep, Q
<1>2. CASE DispatchNow(toClient, m.action)
  <2>1. PICK r \in BOOLEAN : /\ Emit(toClient, m.action.channel, m.action.clientSeq, r)
                             /\ m.action.channel \in Channels /\ m.action.clientSeq \in Nat
    BY <1>1, <1>2, DispatchNowEmits
  <2>2. /\ log' \in Seq(Envelope)
        /\ toClient' \in [Transports -> Seq(Message(Len(log')))]
        /\ restoring \in [Transports -> Job(Len(log'))]
    BY <2>1, EmitTypes
  <2>3. ServerTypes' /\ TransportTypes'
    BY <1>1, <2>2 DEF TypeOK, ServerTypes, TransportTypes, QueueStep
  <2>4. ClientTypes'
    BY <2>1, ClientKeptByEmit DEF QueueStep
  <2> QED
    BY <2>3, <2>4 DEF TypeOK
<1>3. CASE UNCHANGED <<log, toClient>>
  <2>1. ServerTypes' /\ TransportTypes'
    BY <1>1, <1>3 DEF TypeOK, ServerTypes, TransportTypes, QueueStep
  <2>2. ClientTypes'
    BY <1>3, ClientKept DEF QueueStep
  <2> QED
    BY <2>1, <2>2 DEF TypeOK
<1> QED
  BY <1>2, <1>3 DEF QueueStep

\* Reading an action of the client keeps the types.
LEMMA ReceiveDispatchTypes ==
    ASSUME TypeOK, NEW t \in Transports, ReceiveDispatch(t)
    PROVE  TypeOK'
<1> DEFINE m == Head(toServer[t])
<1>1. m \in Action /\ toServer' \in [Transports -> Seq(Request)]
  <2>1. toServer[t] # <<>> /\ m.kind = "dispatch"
    BY DEF ReceiveDispatch, ServerReads
  <2>2. m \in Request /\ toServer' \in [Transports -> Seq(Request)]
    BY <2>1, ReadTypes DEF ReceiveDispatch
  <2> QED
    BY <2>1, <2>2, RequestMembers
<1> HIDE DEF m
<1>2. CASE DispatchNow(toClient, m) /\ UNCHANGED <<dispatchQueue, queueing>>
  <2>1. PICK r \in BOOLEAN : /\ Emit(toClient, m.channel, m.clientSeq, r)
                             /\ m.channel \in Channels /\ m.clientSeq \in Nat
    BY <1>1, <1>2, DispatchNowEmits
  <2>2. /\ log' \in Seq(Envelope)
        /\ toClient' \in [Transports -> Seq(Message(Len(log')))]
        /\ restoring \in [Transports -> Job(Len(log'))]
    BY <2>1, EmitTypes
  <2>3. ServerTypes' /\ TransportTypes'
    BY <1>1, <1>2, <2>2 DEF TypeOK, ServerTypes, TransportTypes, ReceiveDispatch
  <2>4. ClientTypes'
    BY <2>1, ClientKeptByEmit DEF ReceiveDispatch
  <2> QED
    BY <2>3, <2>4 DEF TypeOK
<1>3. ASSUME NEW prelude \in BOOLEAN,
             dispatchQueue' = Append(dispatchQueue, [action |-> m, prelude |-> prelude]),
             queueing' = TRUE, UNCHANGED <<log, toClient>>
      PROVE  TypeOK'
  <2>1. ServerTypes' /\ TransportTypes'
    BY <1>1, <1>3 DEF TypeOK, ServerTypes, TransportTypes, ReceiveDispatch
  <2>2. ClientTypes'
    BY <1>3, ClientKept DEF ReceiveDispatch
  <2> QED
    BY <2>1, <2>2 DEF TypeOK
<1>4. {FALSE, Async} \subseteq BOOLEAN
  BY ConstantsAssumption
<1> QED
  BY <1>2, <1>3, <1>4 DEF ReceiveDispatch, m

\* What is replayed, and what answers a reconnection.
LEMMA ReplayedType ==
    ASSUME TypeOK, NEW lastSeen, NEW subs
    PROVE  Replayed(lastSeen, subs) \in Seq(1 .. Len(log))
<1>1. Len(log) \in Nat
  BY DEF TypeOK, ServerTypes
<1>2. Numbers(Len(log)) \in Seq(1 .. Len(log))
  BY <1>1 DEF Numbers
<1> QED
  BY <1>2, SelectedType DEF Replayed

\* An answer to a reconnection speaks of envelopes that exist.
LEMMA AnswerType ==
    ASSUME TypeOK, NEW job \in Job(Len(log)), NEW subs \in SUBSET Channels
    PROVE  Answer(job, subs) \in Message(Len(log))
<1> DEFINE N == Len(log)
<1>1. N \in Nat
  BY DEF TypeOK, ServerTypes
<1>2. Replayed(job.lastSeen, subs) \in Seq(1 .. N)
  BY ReplayedType
<1>3. job.snapshots \in Snapshots(N)
  BY DEF Job
<1>4. Channels \ subs \in SUBSET Channels
  OBVIOUS
<1> HIDE DEF N
<1>5. /\ [kind |-> "replay", seqs |-> Replayed(job.lastSeen, subs),
          missing |-> Channels \ subs] \in Message(N)
      /\ [kind |-> "snapshot", seqs |-> job.snapshots] \in Message(N)
  BY <1>1, <1>2, <1>3, <1>4, MessagesWritten
<1> QED
  BY <1>5 DEF Answer, N

\* The job of a reconnection that has just been read.
NewJob(n) ==
    [active |-> TRUE, lastSeen |-> n, canReplay |-> CanReplay(n),
     todo |-> Channels, snapshots |-> <<>>]

\* Snapshots of all channels, as they are.
Now == [c \in Channels |-> Len(log)]

\* So does what the server keeps of the reconnection meanwhile.
LEMMA NewJobTypes ==
    ASSUME TypeOK, NEW n \in Nat
    PROVE  /\ NewJob(n) \in Job(Len(log))
           /\ [NewJob(n) EXCEPT !.snapshots = Now] \in Job(Len(log))
<1> DEFINE N == Len(log)
<1>1. N \in Nat
  BY DEF TypeOK, ServerTypes
<1>2. <<>> \in Snapshots(N)
  BY <1>1, SnapshotsMembers
<1>3. Now \in [Channels -> 0 .. N]
  BY <1>1 DEF Now
<1>4. Now \in Snapshots(N)
  BY <1>3, <1>1, SnapshotsMembers
<1>5. CanReplay(n) \in BOOLEAN
  BY DEF CanReplay
<1>6. NewJob(n) \in Job(N)
  BY <1>2, <1>5 DEF NewJob, Job
<1> HIDE DEF N
<1>7. [NewJob(n) EXCEPT !.snapshots = Now] \in Job(N)
  BY <1>6, <1>4 DEF Job
<1> QED
  BY <1>6, <1>7 DEF N

\* Reading a reconnect request keeps the types.
LEMMA ReceiveReconnectTypes ==
    ASSUME TypeOK, NEW t \in Transports, ReceiveReconnect(t)
    PROVE  TypeOK'
<1> DEFINE m == Head(toServer[t])
           job == NewJob(m.seq)
           N == Len(log)
<1>1. m.seq \in Nat /\ toServer' \in [Transports -> Seq(Request)]
  <2>1. toServer[t] # <<>> /\ m.kind = "reconnect"
    BY DEF ReceiveReconnect, ServerReads
  <2>2. m \in Request /\ toServer' \in [Transports -> Seq(Request)]
    BY <2>1, ReadTypes DEF ReceiveReconnect
  <2> QED
    BY <2>1, <2>2, RequestMembers
<1>2. \/ /\ ~known
         /\ toClient' = SentToClient(t, <<[kind |-> "notFound"]>>)
         /\ UNCHANGED <<connections, subscriptions, restoring>>
      \/ /\ known /\ Restore = "warm"
         /\ connections' = Append(connections, t)
         /\ subscriptions' = [subscriptions EXCEPT ![t] = Channels]
         /\ toClient' = SentToClient(t,
                <<Answer([job EXCEPT !.snapshots = Now], Channels)>>)
         /\ UNCHANGED restoring
      \/ /\ known /\ Restore # "warm"
         /\ connections' = Append(connections, t)
         /\ restoring' = [restoring EXCEPT ![t] = job]
         /\ UNCHANGED <<subscriptions, toClient>>
  BY DEF ReceiveReconnect, NewJob, Now
<1>3. /\ job \in Job(N)
      /\ [job EXCEPT !.snapshots = Now] \in Job(N)
  BY <1>1, NewJobTypes
<1>4. Answer([job EXCEPT !.snapshots = Now], Channels) \in Message(N)
  BY <1>3, AnswerType
<1>5. [kind |-> "notFound"] \in Message(N)
  BY MessagesWritten DEF TypeOK, ServerTypes
<1> HIDE DEF job, m
<1>6. UNCHANGED <<log, known, forgotten, dispatchQueue, queueing, open, clientVars>>
  BY DEF ReceiveReconnect
<1>7. ClientTypes'
  BY <1>6, ClientKept
<1>8. /\ connections' \in Seq(Transports)
      /\ subscriptions' \in [Transports -> SUBSET Channels]
      /\ restoring' \in [Transports -> Job(N)]
  <2>1. /\ connections \in Seq(Transports)
        /\ subscriptions \in [Transports -> SUBSET Channels]
        /\ restoring \in [Transports -> Job(N)]
    BY DEF TypeOK, ServerTypes
  <2>2. Append(connections, t) \in Seq(Transports)
    BY <2>1
  <2>3. [subscriptions EXCEPT ![t] = Channels] \in [Transports -> SUBSET Channels]
    BY <2>1
  <2>4. [restoring EXCEPT ![t] = job] \in [Transports -> Job(N)]
    BY <1>3, <2>1
  <2> QED
    BY <1>2, <2>1, <2>2, <2>3, <2>4
<1>9. toClient' \in [Transports -> Seq(Message(N))]
  <2>1. \A x \in Message(N) : SentToClient(t, <<x>>) \in [Transports -> Seq(Message(N))]
    BY SentTypes
  <2>2. toClient \in [Transports -> Seq(Message(N))]
    BY DEF TypeOK, TransportTypes
  <2> QED
    BY <1>2, <1>4, <1>5, <2>1, <2>2
<1>10. ServerTypes' /\ TransportTypes'
  BY <1>1, <1>6, <1>8, <1>9 DEF TypeOK, ServerTypes, TransportTypes
<1> QED
  BY <1>7, <1>10 DEF TypeOK

\* Restoring a channel for a reconnection keeps the types.
LEMMA RestoreChannelTypes ==
    ASSUME TypeOK, NEW t \in Transports, NEW c \in Channels, RestoreChannel(t, c)
    PROVE  TypeOK'
<1> DEFINE N == Len(log)
           job == restoring[t]
           g == job.snapshots
           f == [d \in DOMAIN g \cup {c} |-> IF d = c THEN N ELSE g[d]]
<1>1. N \in Nat /\ job \in Job(N)
  BY DEF TypeOK, ServerTypes
<1>2. job.snapshots \in Snapshots(N) /\ job.todo \in SUBSET Channels
  BY <1>1 DEF Job
<1>3. f \in Snapshots(N)
  <2>1. /\ DOMAIN g \subseteq Channels
        /\ \A d \in DOMAIN g : g[d] \in 0 .. N
    BY <1>1, <1>2, SnapshotsMembers
  <2> HIDE DEF g
  <2>2. f \in [DOMAIN g \cup {c} -> 0 .. N]
    BY <1>1, <2>1
  <2>3. (DOMAIN g \cup {c}) \in SUBSET Channels
    BY <2>1
  <2> HIDE DEF f
  <2> QED
    BY <1>1, <2>2, <2>3, SnapshotsMembers
<1> HIDE DEF f, g
<1>4. /\ [job EXCEPT !.todo = @ \ {c}, !.snapshots = f] \in Job(N)
      /\ [job EXCEPT !.todo = @ \ {c}] \in Job(N)
  BY <1>1, <1>2, <1>3 DEF Job
<1>5. \/ /\ restoring' = [restoring EXCEPT ![t] =
                              [job EXCEPT !.todo = @ \ {c}, !.snapshots = f]]
         /\ subscriptions' = [subscriptions EXCEPT ![t] = @ \cup {c}]
      \/ /\ restoring' = [restoring EXCEPT ![t] = [job EXCEPT !.todo = @ \ {c}]]
         /\ UNCHANGED subscriptions
  BY DEF RestoreChannel, f, g
<1>6. UNCHANGED <<log, known, forgotten, connections, dispatchQueue, queueing,
                  toServer, toClient, open, clientVars>>
  BY DEF RestoreChannel
<1>7. ClientTypes'
  BY <1>6, ClientKept
<1>8. /\ subscriptions' \in [Transports -> SUBSET Channels]
      /\ restoring' \in [Transports -> Job(N)]
  <2> HIDE DEF job
  <2>1. /\ subscriptions \in [Transports -> SUBSET Channels]
        /\ restoring \in [Transports -> Job(N)]
    BY DEF TypeOK, ServerTypes
  <2> QED
    BY <1>4, <1>5, <2>1
<1>9. ServerTypes' /\ TransportTypes'
  BY <1>6, <1>8 DEF TypeOK, ServerTypes, TransportTypes
<1> QED
  BY <1>7, <1>9 DEF TypeOK

\* Answering a reconnection keeps the types.
LEMMA AnswerReconnectTypes ==
    ASSUME TypeOK, NEW t \in Transports, AnswerReconnect(t)
    PROVE  TypeOK'
<1> DEFINE N == Len(log)
           a == Answer(restoring[t], subscriptions[t])
<1>1. N \in Nat /\ restoring[t] \in Job(N) /\ subscriptions[t] \in SUBSET Channels
  BY DEF TypeOK, ServerTypes
<1>2. a \in Message(N) /\ NoJob \in Job(N)
  BY <1>1, AnswerType, MessagesWritten
<1>3. /\ toClient' = SentToClient(t, <<a>>)
      /\ restoring' = [restoring EXCEPT ![t] = NoJob]
      /\ UNCHANGED <<log, known, forgotten, connections, subscriptions,
                   dispatchQueue, queueing, toServer, open, clientVars>>
  BY DEF AnswerReconnect
<1> HIDE DEF a
<1>4. toClient' \in [Transports -> Seq(Message(N))]
  BY <1>2, <1>3, SentTypes
<1>5. restoring' \in [Transports -> Job(N)]
  BY <1>2, <1>3 DEF TypeOK, ServerTypes
<1>6. ServerTypes' /\ TransportTypes'
  BY <1>3, <1>4, <1>5 DEF TypeOK, ServerTypes, TransportTypes
<1>7. ClientTypes'
  BY <1>3, ClientKept
<1> QED
  BY <1>6, <1>7 DEF TypeOK

\* Reading an initialize request keeps the types.
LEMMA ReceiveInitializeTypes ==
    ASSUME TypeOK, NEW t \in Transports, ReceiveInitialize(t)
    PROVE  TypeOK'
<1> DEFINE N == Len(log)
           a == [kind |-> "initialized", seq |-> N]
<1>1. N \in Nat
  BY DEF TypeOK, ServerTypes
<1>2. a \in Message(N)
  BY <1>1, MessagesWritten
<1>3. toServer' \in [Transports -> Seq(Request)]
  BY ReadTypes DEF ReceiveInitialize, ServerReads
<1>4. toClient' \in [Transports -> Seq(Message(N))]
  <2>1. toClient' = SentToClient(t, <<a>>)
    BY DEF ReceiveInitialize
  <2> HIDE DEF a
  <2> QED
    BY <1>2, <2>1, SentTypes
<1>5. connections' \in Seq(Transports)
      /\ subscriptions' \in [Transports -> SUBSET Channels]
  BY DEF TypeOK, ServerTypes, ReceiveInitialize
<1>7. ServerTypes' /\ TransportTypes'
  BY <1>3, <1>4, <1>5 DEF TypeOK, ServerTypes, TransportTypes, ReceiveInitialize
<1>6. ClientTypes'
  BY ClientKept DEF ReceiveInitialize
<1> QED
  BY <1>6, <1>7 DEF TypeOK

\* The server's end of a lost connection keeps the types.
LEMMA ServerClosedTypes ==
    ASSUME TypeOK, NEW t \in Transports, ServerClosed(t)
    PROVE  TypeOK'
<1>1. connections' \in Seq(Transports)
  <2>1. connections \in Seq(Transports)
    BY DEF TypeOK, ServerTypes
  <2> QED
    BY <2>1, SelectedType DEF ServerClosed, Without
<1>2. /\ subscriptions' \in [Transports -> SUBSET Channels]
      /\ toServer' \in [Transports -> Seq(Request)]
  BY DEF TypeOK, ServerTypes, TransportTypes, ServerClosed, Released
<1>3. ServerTypes' /\ TransportTypes'
  BY <1>1, <1>2 DEF TypeOK, ServerTypes, TransportTypes, ServerClosed
<1>4. ClientTypes'
  BY ClientKept DEF ServerClosed
<1> QED
  BY <1>3, <1>4 DEF TypeOK

\* Forgetting the client keeps the types.
LEMMA ForgetTypes ==
    ASSUME TypeOK, Forget
    PROVE  TypeOK'
<1>1. ServerTypes' /\ TransportTypes'
  BY DEF TypeOK, ServerTypes, TransportTypes, Forget
<1>2. ClientTypes'
  BY ClientKept DEF Forget
<1> QED
  BY <1>1, <1>2 DEF TypeOK

\* A channel's view is what is confirmed and what is pending.
LEMMA ViewIsTyped ==
    ASSUME TypeOK, NEW c \in Channels
    PROVE  /\ View(c) \in AView
           /\ View(c).confirmed = confirmed[c]
           /\ View(c).pending = pending[c]
<1>1. confirmed[c] \in Seq(1 .. Len(log)) /\ pending[c] \in Seq(Nat)
  BY DEF TypeOK, ClientTypes
<1>2. Seq(1 .. Len(log)) \subseteq Seq(Nat)
  BY SeqOfSuperset DEF TypeOK, ServerTypes
<1>3. confirmed[c] \in Seq(Nat)
  BY <1>1, <1>2
<1> QED
  BY <1>1, <1>3 DEF View, AView

\* A sequence of numbers, all of them up to n, is one over 1 .. n.
LEMMA TypedByElement ==
    ASSUME NEW s \in Seq(Nat), NEW n \in Nat, \A i \in 1 .. Len(s) : s[i] \in 1 .. n
    PROVE  s \in Seq(1 .. n)
OBVIOUS

\* A view that receives envelopes that exist stays a view of such envelopes.
LEMMA ViewAfterTypes ==
    ASSUME TypeOK, NEW c \in Channels, NEW ns \in Seq(1 .. Len(log))
    PROVE  /\ ViewAfter(c, ns).confirmed \in Seq(1 .. Len(log))
           /\ ViewAfter(c, ns).pending \in Seq(Nat)
<1> DEFINE N == Len(log)
           v == ViewAfter(c, ns)
<1>1. N \in Nat /\ ns \in Seq(Nat) /\ \A i \in 1 .. Len(ns) : ns[i] \in 1 .. N
  <2>1. Seq(1 .. N) \subseteq Seq(Nat)
    BY SeqOfSuperset DEF TypeOK, ServerTypes
  <2> QED
    BY <2>1 DEF TypeOK, ServerTypes
<1>2. /\ View(c) \in AView /\ View(c).confirmed = confirmed[c]
      /\ View(c).pending = pending[c]
  BY ViewIsTyped
<1>3. v \in AView
  BY <1>1, <1>2, PendingAfter
<1>4. \A j \in 1 .. Len(v.confirmed) :
              LET x == v.confirmed[j]
              IN  \/ \E i \in 1 .. Len(View(c).confirmed) :
                        x = View(c).confirmed[i]
                  \/ \E i \in 1 .. Len(ns) : x = ns[i] /\ log[x].channel = c
  BY <1>1, <1>2, ConfirmedAfter
<1>5. \A i \in 1 .. Len(confirmed[c]) : confirmed[c][i] \in 1 .. N
  BY DEF TypeOK, ClientTypes
<1> HIDE DEF v, N
<1>6. \A j \in 1 .. Len(v.confirmed) : v.confirmed[j] \in 1 .. N
  BY <1>1, <1>2, <1>4, <1>5
<1>7. v.confirmed \in Seq(Nat) /\ v.pending \in Seq(Nat)
  BY <1>3 DEF AView
<1>8. v.confirmed \in Seq(1 .. N)
  BY <1>1, <1>6, <1>7, TypedByElement
<1> QED
  BY <1>7, <1>8 DEF v, N

\* The state of a channel consists of envelopes that exist.
LEMMA StateAtType ==
    ASSUME TypeOK, NEW c, NEW n \in 0 .. Len(log)
    PROVE  StateAt(c, n) \in Seq(1 .. Len(log))
<1> DEFINE H == History(log, c, n)
           N == Len(log)
<1>1. StateAt(c, n) = H
  BY StateIsHistory
<1>2. n \in Nat /\ N \in Nat /\ n <= N
  BY DEF TypeOK, ServerTypes
<1>3. H \in Seq(Nat)
  BY <1>2, HistoryGrows
<1>4. \A i \in 1 .. Len(H) : H[i] \in 1 .. n
  BY <1>2, HistoryContents
<1> HIDE DEF H, N
<1>5. \A i \in 1 .. Len(H) : H[i] \in 1 .. N
  BY <1>2, <1>4
<1>6. H \in Seq(1 .. N)
  BY <1>2, <1>3, <1>5, TypedByElement
<1> QED
  BY <1>1, <1>6 DEF N

\* The client has seen the latest of what it has read.
LEMMA SeenType ==
    ASSUME TypeOK, NEW S \in SUBSET (0 .. Len(log))
    PROVE  /\ Seen(S) \in 0 .. Len(log)
           /\ Seen(S) \in {serverSeq} \cup S
           /\ \A x \in {serverSeq} \cup S : x <= Seen(S)
<1> DEFINE N == Len(log)
           T == {serverSeq} \cup S
<1>1. N \in Nat /\ serverSeq \in 0 .. N
  BY DEF TypeOK, ServerTypes, ClientTypes
<1>2. /\ T \in SUBSET Nat /\ T # {}
      /\ \A x \in T : x <= N /\ x \in 0 .. N
  BY <1>1
<1>3. Seen(S) = Max(T)
  BY DEF Seen
<1> HIDE DEF T, N
<1>4. Max(T) \in T /\ \A x \in T : x <= Max(T)
  BY <1>1, <1>2, MaxBounded
<1> QED
  BY <1>2, <1>3, <1>4 DEF T, N

\* What the client sends after a reconnection are actions.
LEMMA DrainedType ==
    ASSUME TypeOK, NEW p \in [Channels -> Seq(Nat)]
    PROVE  /\ Drained(p) \in Seq(Action)
           /\ SentToServer(transport, Drained(p)) \in [Transports -> Seq(Request)]
<1>1. PICK r : Resends(r, p) /\ Drained(p) = r \o outbox
  BY DrainedResends
<1>2. r \in Seq(Action) /\ outbox \in Seq(Action)
  BY <1>1 DEF Resends, TypeOK, ClientTypes
<1>3. Drained(p) \in Seq(Action)
  BY <1>1, <1>2
<1>4. Seq(Action) \subseteq Seq(Request)
  BY SeqOfSuperset DEF Request
<1>5. transport \in Transports
  BY DEF TypeOK, ClientTypes
<1> QED
  BY <1>3, <1>4, <1>5, SentTypes

-----------------------------------------------------------------------------
(* The client's steps                                                      *)

\* A dispatch of the client keeps the types.
LEMMA ClientDispatchTypes ==
    ASSUME TypeOK, NEW c \in Channels, ClientDispatch(c)
    PROVE  TypeOK'
<1>1. clientSeq' = clientSeq + 1 /\ clientSeq' \in Nat /\ transport \in Transports
  BY DEF ClientDispatch, TypeOK, ClientTypes
<1>2. Dispatch(c, clientSeq') \in Action /\ Dispatch(c, clientSeq') \in Request
  BY <1>1, DispatchType DEF Request
<1>3. SentToServer(transport, <<Dispatch(c, clientSeq')>>) \in [Transports -> Seq(Request)]
  BY <1>1, <1>2, SentTypes
<1>4. ServerTypes'
  BY ServerKept DEF ClientDispatch
<1>5. TransportTypes'
  BY <1>3 DEF TypeOK, TransportTypes, ClientDispatch, serverVars
<1>6. outbox' \in Seq(Action)
  <2>1. outbox \in Seq(Action)
    BY DEF TypeOK, ClientTypes
  <2> QED
    BY <1>2, <2>1 DEF ClientDispatch
<1>7. pending' \in [Channels -> Seq(Nat)]
  BY <1>1 DEF TypeOK, ClientTypes, ClientDispatch
<1>8. ClientTypes'
  BY <1>1, <1>6, <1>7 DEF TypeOK, ClientTypes, ClientDispatch, serverVars
<1> QED
  BY <1>4, <1>5, <1>8 DEF TypeOK

\* Losing, closing and opening transports keeps the types.
LEMMA TransportStepsTypes ==
    ASSUME TypeOK, Lose \/ TransportClosed \/ AttemptReconnect \/ ReceiveNotFound
    PROVE  TypeOK'
<1>1. CASE Lose
  <2>1. ServerTypes' /\ ClientTypes'
    BY <1>1, ServerKept, ClientKept DEF Lose, serverVars
  <2>2. TransportTypes'
    BY <1>1 DEF TypeOK, TransportTypes, Lose, serverVars
  <2> QED
    BY <2>1, <2>2 DEF TypeOK
<1>2. CASE TransportClosed
  <2>1. ServerTypes'
    BY <1>2, ServerKept DEF TransportClosed
  <2>2. ClientTypes'
    BY <1>2 DEF TypeOK, ClientTypes, TransportClosed, States, serverVars
  <2>3. TransportTypes'
    BY <1>2 DEF TypeOK, TransportTypes, ClientTypes, TransportClosed, serverVars
  <2> QED
    BY <2>1, <2>2, <2>3 DEF TypeOK
<1>3. CASE AttemptReconnect
  <2>1. ServerTypes'
    BY <1>3, ServerKept DEF AttemptReconnect
  <2>2. transport' \in Transports
    BY <1>3, ConstantsAssumption DEF TypeOK, ClientTypes, AttemptReconnect, Transports
  <2>3. [kind |-> "reconnect", seq |-> serverSeq] \in Request
    <3>1. serverSeq \in Nat
      BY DEF TypeOK, ServerTypes, ClientTypes
    <3> QED
      BY <3>1 DEF Request
  <2>4. ClientTypes'
    BY <1>3, <2>2 DEF TypeOK, ClientTypes, AttemptReconnect, States, serverVars
  <2>5. TransportTypes'
    <3>1. <<[kind |-> "reconnect", seq |-> serverSeq]>> \in Seq(Request)
      BY <2>3
    <3> QED
      BY <1>3, <2>2, <3>1 DEF TypeOK, TransportTypes, ClientTypes, AttemptReconnect, serverVars
  <2> QED
    BY <2>1, <2>4, <2>5 DEF TypeOK
<1>4. CASE ReceiveNotFound
  <2>1. ServerTypes'
    BY <1>4, ServerKept DEF ReceiveNotFound
  <2>2. ClientTypes'
    BY <1>4 DEF TypeOK, ClientTypes, ReceiveNotFound, States, serverVars
  <2>3. transport \in Transports
    BY DEF TypeOK, ClientTypes
  <2>4. toServer' \in [Transports -> Seq(Request)]
    <3>1. [kind |-> "initialize"] \in Request
      BY DEF Request
    <3> QED
      BY <1>4, <2>3, <3>1, SentTypes DEF ReceiveNotFound
  <2>5. toClient' \in [Transports -> Seq(Message(Len(log)))]
    BY <1>4, <2>3, ReadTypes DEF ReceiveNotFound, ClientReads
  <2>6. TransportTypes'
    BY <1>4, <2>4, <2>5 DEF TypeOK, TransportTypes, ReceiveNotFound, serverVars
  <2> QED
    BY <2>1, <2>2, <2>6 DEF TypeOK
<1> QED
  BY <1>1, <1>2, <1>3, <1>4

\* A message that is read and changes the copies of the state.
LEMMA ReceiveTypes ==
    ASSUME TypeOK,
           toClient[transport] # <<>>, toClient' = Consumed,
           UNCHANGED <<open, transport, clientSeq>>, UNCHANGED serverVars,
           toServer' \in [Transports -> Seq(Request)],
           state' \in States, serverSeq' \in 0 .. Len(log),
           confirmed' \in [Channels -> Seq(1 .. Len(log))],
           pending' \in [Channels -> Seq(Nat)],
           failed' \in SUBSET Channels, outbox' \in Seq(Action)
    PROVE  TypeOK'
<1>1. ServerTypes'
  BY ServerKept
<1>2. toClient' \in [Transports -> Seq(Message(Len(log)))]
  BY ReadTypes DEF TypeOK, ClientTypes
<1>3. TransportTypes'
  BY <1>2 DEF TypeOK, TransportTypes, serverVars
<1>4. ClientTypes'
  BY DEF TypeOK, ClientTypes, serverVars
<1> QED
  BY <1>1, <1>3, <1>4 DEF TypeOK

\* The message that the client reads next speaks of envelopes that exist.
LEMMA IncomingMembers ==
    ASSUME TypeOK, toClient[transport] # <<>>
    PROVE  /\ Incoming.kind = "action" => Incoming.seq \in 1 .. Len(log)
           /\ Incoming.kind = "initialized" => Incoming.seq \in 0 .. Len(log)
           /\ Incoming.kind = "replay" =>
                 /\ Incoming.seqs \in Seq(1 .. Len(log))
                 /\ Incoming.missing \in SUBSET Channels
           /\ Incoming.kind = "snapshot" =>
                 /\ DOMAIN Incoming.seqs \subseteq Channels
                 /\ \A c \in DOMAIN Incoming.seqs : Incoming.seqs[c] \in 0 .. Len(log)
<1>1. Len(log) \in Nat /\ transport \in Transports
  BY DEF TypeOK, ServerTypes, ClientTypes
<1>2. Incoming \in Message(Len(log))
  BY <1>1, ReadTypes
<1>3. /\ Incoming.kind = "action" => Incoming.seq \in 1 .. Len(log)
      /\ Incoming.kind = "initialized" => Incoming.seq \in 0 .. Len(log)
      /\ Incoming.kind = "replay" =>
            /\ Incoming.seqs \in Seq(1 .. Len(log))
            /\ Incoming.missing \in SUBSET Channels
      /\ Incoming.kind = "snapshot" => Incoming.seqs \in Snapshots(Len(log))
  BY <1>1, <1>2, MessageMembers
<1> QED
  BY <1>1, <1>3, SnapshotsMembers

\* Reading an envelope keeps the types.
LEMMA ReceiveActionTypes ==
    ASSUME TypeOK, ReceiveAction
    PROVE  TypeOK'
<1> DEFINE n == Incoming.seq
           N == Len(log)
<1>1. toClient[transport] # <<>> /\ Incoming.kind = "action"
  BY DEF ReceiveAction, ClientReads
<1>2. n \in 1 .. N
  BY <1>1, IncomingMembers
<1>3. {n} \in SUBSET (0 .. N) /\ <<n>> \in Seq(1 .. N)
  BY <1>2
<1>4. serverSeq' \in 0 .. N
  BY <1>3, SeenType DEF ReceiveAction
<1>5. /\ confirmed' \in [Channels -> Seq(1 .. N)]
      /\ pending' \in [Channels -> Seq(Nat)]
  BY <1>3, ViewAfterTypes DEF ReceiveAction, ReceiveEnvelopes
<1>6. /\ toClient' = Consumed
      /\ UNCHANGED <<toServer, open, transport, state, failed, outbox, clientSeq>>
      /\ UNCHANGED serverVars
  BY DEF ReceiveAction
<1>7. /\ toServer' \in [Transports -> Seq(Request)] /\ state' \in States
      /\ failed' \in SUBSET Channels /\ outbox' \in Seq(Action)
  BY <1>6 DEF TypeOK, TransportTypes, ClientTypes
<1> QED
  BY <1>1, <1>4, <1>5, <1>6, <1>7, ReceiveTypes

\* What draining leaves.
LEMMA DrainTypes ==
    ASSUME TypeOK, DrainAfterReconnect, pending' \in [Channels -> Seq(Nat)]
    PROVE  /\ toServer' \in [Transports -> Seq(Request)]
           /\ state' \in States
           /\ outbox' \in Seq(Action)
<1>1. SentToServer(transport, Drained(pending')) \in [Transports -> Seq(Request)]
  BY DrainedType
<1> QED
  BY <1>1 DEF DrainAfterReconnect, States

\* Reading a replay keeps the types.
LEMMA ReceiveReplayTypes ==
    ASSUME TypeOK, ReceiveReplay
    PROVE  TypeOK'
<1> DEFINE m == Incoming
           N == Len(log)
<1>1. toClient[transport] # <<>> /\ m.kind = "replay"
  BY DEF ReceiveReplay, ClientReads
<1>2. m.seqs \in Seq(1 .. N) /\ m.missing \in SUBSET Channels
  BY <1>1, IncomingMembers
<1>3. ToSet(m.seqs) \in SUBSET (0 .. N)
  BY <1>2 DEF ToSet
<1>4. serverSeq' \in 0 .. N
  BY <1>3, SeenType DEF ReceiveReplay
<1>5. \A c \in Channels : /\ ViewAfter(c, m.seqs).confirmed \in Seq(1 .. N)
                          /\ ViewAfter(c, m.seqs).pending \in Seq(Nat)
  BY <1>2, ViewAfterTypes
<1> HIDE DEF m
<1>6. /\ confirmed' \in [Channels -> Seq(1 .. N)]
      /\ pending' \in [Channels -> Seq(Nat)]
      /\ failed' \in SUBSET Channels
  <2>1. /\ confirmed' = [c \in Channels |-> ViewAfter(c, m.seqs).confirmed]
        /\ pending' = [c \in Channels |->
                           IF c \in m.missing \cap Resent THEN <<>>
                           ELSE ViewAfter(c, m.seqs).pending]
        /\ failed' = failed \cup m.missing
    BY DEF ReceiveReplay, m
  <2>2. failed \in SUBSET Channels
    BY DEF TypeOK, ClientTypes
  <2>3. \A c \in Channels : (IF c \in m.missing \cap Resent THEN <<>>
                            ELSE ViewAfter(c, m.seqs).pending) \in Seq(Nat)
    BY <1>5
  <2> QED
    BY <1>2, <1>5, <2>1, <2>2, <2>3
<1>7. /\ toClient' = Consumed /\ DrainAfterReconnect
      /\ UNCHANGED <<open, transport, clientSeq>> /\ UNCHANGED serverVars
  BY DEF ReceiveReplay
<1>8. /\ toServer' \in [Transports -> Seq(Request)] /\ state' \in States
      /\ outbox' \in Seq(Action)
  BY <1>6, <1>7, DrainTypes
<1> QED
  BY <1>1, <1>4, <1>6, <1>7, <1>8, ReceiveTypes

\* Reading snapshots keeps the types.
LEMMA ReceiveSnapshotsTypes ==
    ASSUME TypeOK, ReceiveSnapshots
    PROVE  TypeOK'
<1> DEFINE seqs == Incoming.seqs
           N == Len(log)
<1>1. toClient[transport] # <<>> /\ Incoming.kind = "snapshot"
  BY DEF ReceiveSnapshots, ClientReads
<1>2. DOMAIN seqs \subseteq Channels /\ \A c \in DOMAIN seqs : seqs[c] \in 0 .. N
  BY <1>1, IncomingMembers
<1>3. {seqs[c] : c \in DOMAIN seqs} \in SUBSET (0 .. N)
  BY <1>2
<1>4. serverSeq' \in 0 .. N
  BY <1>3, SeenType DEF ReceiveSnapshots
<1>5. \A c \in DOMAIN seqs : StateAt(c, seqs[c]) \in Seq(1 .. N)
  BY <1>2, StateAtType
<1> HIDE DEF seqs
<1>6. /\ confirmed' \in [Channels -> Seq(1 .. N)]
      /\ pending' \in [Channels -> Seq(Nat)]
      /\ failed' \in SUBSET Channels
  <2>1. /\ confirmed' = [c \in Channels |-> IF c \in DOMAIN seqs
                              THEN StateAt(c, seqs[c]) ELSE confirmed[c]]
        /\ pending' = [c \in Channels |-> IF c \in DOMAIN seqs \cap Resent
                              THEN <<>> ELSE pending[c]]
        /\ failed' = failed \ DOMAIN seqs
    BY DEF ReceiveSnapshots, seqs
  <2>2. /\ failed \in SUBSET Channels
        /\ \A c \in Channels : confirmed[c] \in Seq(1 .. N) /\ pending[c] \in Seq(Nat)
    BY DEF TypeOK, ClientTypes
  <2>3. \A c \in Channels :
           /\ (IF c \in DOMAIN seqs THEN StateAt(c, seqs[c]) ELSE confirmed[c])
                 \in Seq(1 .. N)
           /\ (IF c \in DOMAIN seqs \cap Resent THEN <<>> ELSE pending[c]) \in Seq(Nat)
    BY <1>5, <2>2
  <2> QED
    BY <2>1, <2>2, <2>3
<1>7. /\ toClient' = Consumed /\ DrainAfterReconnect
      /\ UNCHANGED <<open, transport, clientSeq>> /\ UNCHANGED serverVars
  BY DEF ReceiveSnapshots
<1>8. /\ toServer' \in [Transports -> Seq(Request)] /\ state' \in States
      /\ outbox' \in Seq(Action)
  BY <1>6, <1>7, DrainTypes
<1> QED
  BY <1>1, <1>4, <1>6, <1>7, <1>8, ReceiveTypes

\* Reading the answer to an initialize keeps the types.
LEMMA ReceiveInitializedTypes ==
    ASSUME TypeOK, ReceiveInitialized
    PROVE  TypeOK'
<1> DEFINE n == Incoming.seq
           N == Len(log)
<1>1. toClient[transport] # <<>> /\ Incoming.kind = "initialized"
  BY DEF ReceiveInitialized, ClientReads
<1>2. n \in 0 .. N
  BY <1>1, IncomingMembers
<1>3. \A c \in Channels : StateAt(c, n) \in Seq(1 .. N)
  BY <1>2, StateAtType
<1>4. pending' = pending /\ pending \in [Channels -> Seq(Nat)]
  BY DEF ReceiveInitialized, TypeOK, ClientTypes
<1>5. /\ serverSeq' = n /\ failed' = {}
      /\ confirmed' = [c \in Channels |-> StateAt(c, n)]
      /\ toClient' = Consumed /\ DrainAfterReconnect
      /\ UNCHANGED <<open, transport, clientSeq>> /\ UNCHANGED serverVars
  BY DEF ReceiveInitialized
<1>6. /\ toServer' \in [Transports -> Seq(Request)] /\ state' \in States
      /\ outbox' \in Seq(Action)
  BY <1>4, <1>5, DrainTypes
<1> HIDE DEF n
<1>7. confirmed' \in [Channels -> Seq(1 .. N)]
  BY <1>3, <1>5
<1> QED
  BY <1>1, <1>2, <1>4, <1>5, <1>6, <1>7, ReceiveTypes

\* The first state is of these types.
LEMMA InitTypes == Init => TypeOK
<1> SUFFICES ASSUME Init PROVE TypeOK
  OBVIOUS
<1>1. Len(log) = 0 /\ log \in Seq(Envelope)
  BY DEF Init
<1>2. 1 \in Transports
  BY ConstantsAssumption DEF Transports
<1>3. NoJob \in Job(0)
  BY MessagesWritten
<1>4. <<1>> \in Seq(Transports)
  BY <1>2
<1>5. ServerTypes
  <2>1. restoring \in [Transports -> Job(Len(log))]
    BY <1>1, <1>3 DEF Init
  <2>2. subscriptions \in [Transports -> SUBSET Channels]
    BY DEF Init
  <2>3. connections \in Seq(Transports)
    <3>1. connections = <<1>>
      BY DEF Init
    <3> QED
      BY <1>4, <3>1
  <2>4. /\ dispatchQueue \in Seq([action : Action, prelude : BOOLEAN])
        /\ known \in BOOLEAN /\ forgotten \in BOOLEAN /\ queueing \in BOOLEAN
    <3>1. /\ dispatchQueue = <<>> /\ known = TRUE /\ forgotten = FALSE
          /\ queueing = FALSE
      BY DEF Init
    <3>2. known \in BOOLEAN /\ forgotten \in BOOLEAN /\ queueing \in BOOLEAN
      BY <3>1
    <3>3. dispatchQueue \in Seq([action : Action, prelude : BOOLEAN])
      BY <3>1
    <3> QED
      BY <3>2, <3>3
  <2> QED
    BY <1>1, <2>1, <2>2, <2>3, <2>4 DEF ServerTypes
<1>6. TransportTypes
  BY DEF Init, TransportTypes
<1>7. ClientTypes
  BY <1>1, <1>2 DEF Init, ClientTypes, States
<1> QED
  BY <1>5, <1>6, <1>7 DEF TypeOK

\* Nothing happening keeps the types.
LEMMA StutterTypes ==
    ASSUME TypeOK, UNCHANGED vars
    PROVE  TypeOK'
BY DEF TypeOK, ServerTypes, TransportTypes, ClientTypes, vars

\* A step of the system is one of these.
LEMMA Steps ==
    ASSUME [Next]_vars
    PROVE  \/ \E c \in Channels : ServerAction(c) \/ ClientDispatch(c)
           \/ QueueStep \/ Forget
           \/ \E t \in Transports :
                 \/ ReceiveDispatch(t) \/ ReceiveReconnect(t)
                 \/ ReceiveInitialize(t) \/ AnswerReconnect(t) \/ ServerClosed(t)
                 \/ \E c \in Channels : RestoreChannel(t, c)
           \/ Lose \/ TransportClosed \/ AttemptReconnect \/ ReceiveNotFound
           \/ ReceiveAction \/ ReceiveReplay \/ ReceiveSnapshots
           \/ ReceiveInitialized
           \/ UNCHANGED vars
BY DEF Next, ServerNext, ClientNext

\* Every step keeps the types.
LEMMA NextTypes ==
    ASSUME TypeOK, [Next]_vars
    PROVE  TypeOK'
BY Steps, ServerActionTypes, ClientDispatchTypes, QueueStepTypes, ForgetTypes,
   ReceiveDispatchTypes, ReceiveReconnectTypes, ReceiveInitializeTypes,
   AnswerReconnectTypes, ServerClosedTypes, RestoreChannelTypes,
   TransportStepsTypes, ReceiveActionTypes, ReceiveReplayTypes,
   ReceiveSnapshotsTypes, ReceiveInitializedTypes, StutterTypes

\* The log, the record of the client, the messages on every transport and
\* everything the client keeps have their types, and no message, snapshot or
\* reconnection under way speaks of an envelope that has not been emitted.
THEOREM TypeCorrect == Spec => []TypeOK
<1>1. Init => TypeOK
  BY InitTypes
<1>2. TypeOK /\ [Next]_vars => TypeOK'
  BY NextTypes
<1> QED
  BY <1>1, <1>2, PTL DEF Spec

-----------------------------------------------------------------------------
(* What is on its way                                                      *)

\* The elements of the sequences that streams are built with.
LEMMA MembersOf ==
    ASSUME NEW T, NEW s \in Seq(T)
    PROVE  /\ \A r \in Seq(T) : ToSet(s \o r) = ToSet(s) \cup ToSet(r)
           /\ \A x : ToSet(Append(s, x)) = ToSet(s) \cup {x}
           /\ s # <<>> => Head(s) \in ToSet(s) /\ ToSet(Tail(s)) \subseteq ToSet(s)
           /\ \A x \in ToSet(s) : x \in T
           /\ \A x : ToSet(<<x>>) = {x}
           /\ ToSet(<<>>) = {}
<1>1. ASSUME NEW r \in Seq(T)
      PROVE  ToSet(s \o r) = ToSet(s) \cup ToSet(r)
  <2> DEFINE u == s \o r
  <2>1. /\ Len(s) \in Nat /\ Len(r) \in Nat /\ Len(u) = Len(s) + Len(r)
        /\ DOMAIN u = 1 .. Len(u) /\ DOMAIN s = 1 .. Len(s) /\ DOMAIN r = 1 .. Len(r)
        /\ \A i \in 1 .. Len(u) : u[i] = IF i <= Len(s) THEN s[i] ELSE r[i - Len(s)]
    OBVIOUS
  <2> HIDE DEF u
  <2>2. \A i \in 1 .. Len(s) : i \in 1 .. Len(u) /\ u[i] = s[i]
    BY <2>1
  <2>3. \A i \in 1 .. Len(r) : Len(s) + i \in 1 .. Len(u) /\ u[Len(s) + i] = r[i]
    BY <2>1
  <2>4. \A i \in 1 .. Len(u) : i \in 1 .. Len(s) \/ i - Len(s) \in 1 .. Len(r)
    BY <2>1
  <2>5. ToSet(s) \subseteq ToSet(u)
    BY <2>1, <2>2 DEF ToSet
  <2>6. ToSet(r) \subseteq ToSet(u)
    BY <2>1, <2>3 DEF ToSet
  <2>7. ToSet(u) \subseteq ToSet(s) \cup ToSet(r)
    <3> SUFFICES ASSUME NEW i \in 1 .. Len(u)
                 PROVE  u[i] \in ToSet(s) \/ u[i] \in ToSet(r)
      BY <2>1 DEF ToSet
    <3>1. CASE i \in 1 .. Len(s)
      BY <2>1, <2>2, <3>1 DEF ToSet
    <3>2. CASE i \notin 1 .. Len(s)
      <4>1. i - Len(s) \in 1 .. Len(r) /\ ~(i <= Len(s))
        BY <2>1, <2>4, <3>2
      <4> QED
        BY <2>1, <4>1 DEF ToSet
    <3> QED
      BY <3>1, <3>2
  <2> QED
    BY <2>5, <2>6, <2>7 DEF u
<1>2. ASSUME NEW x
      PROVE  ToSet(Append(s, x)) = ToSet(s) \cup {x}
  <2> DEFINE u == Append(s, x)
  <2>1. /\ Len(s) \in Nat /\ Len(u) = Len(s) + 1
        /\ DOMAIN u = 1 .. Len(u) /\ DOMAIN s = 1 .. Len(s)
        /\ \A i \in 1 .. Len(u) : u[i] = IF i <= Len(s) THEN s[i] ELSE x
    OBVIOUS
  <2> HIDE DEF u
  <2>2. /\ \A i \in 1 .. Len(s) : i \in 1 .. Len(u) /\ u[i] = s[i]
        /\ Len(s) + 1 \in 1 .. Len(u) /\ u[Len(s) + 1] = x
        /\ \A i \in 1 .. Len(u) : i \in 1 .. Len(s) \/ u[i] = x
    BY <2>1
  <2> QED
    BY <2>1, <2>2 DEF ToSet, u
<1>3. ASSUME s # <<>>
      PROVE  Head(s) \in ToSet(s) /\ ToSet(Tail(s)) \subseteq ToSet(s)
  <2> DEFINE u == Tail(s)
  <2>1. /\ Len(s) \in Nat \ {0} /\ Len(u) = Len(s) - 1
        /\ DOMAIN u = 1 .. Len(u) /\ DOMAIN s = 1 .. Len(s)
        /\ \A i \in 1 .. Len(u) : u[i] = s[i + 1]
        /\ Head(s) = s[1]
    BY <1>3
  <2> HIDE DEF u
  <2>2. \A i \in 1 .. Len(u) : i + 1 \in 1 .. Len(s)
    BY <2>1
  <2>3. 1 \in 1 .. Len(s)
    BY <2>1
  <2> QED
    BY <2>1, <2>2, <2>3 DEF ToSet, u
<1>4. \A x \in ToSet(s) : x \in T
  BY DEF ToSet
<1>5. \A x : ToSet(<<x>>) = {x}
  BY DEF ToSet
<1>6. ToSet(<<>>) = {}
  BY DEF ToSet
<1> QED
  BY <1>1, <1>2, <1>3, <1>4, <1>5, <1>6

\* The streams after something was written.
LEMMA Written ==
    ASSUME TypeOK, NEW t \in Transports, NEW s, NEW u \in Transports
    PROVE  /\ SentToServer(t, s)[u] = IF u = t /\ open[t] THEN toServer[u] \o s
                                      ELSE toServer[u]
           /\ SentToClient(t, s)[u] = IF u = t /\ open[t] THEN toClient[u] \o s
                                      ELSE toClient[u]
BY DEF SentToServer, SentToClient, TypeOK, TransportTypes

\* Reading takes the first message off one transport.
LEMMA Read ==
    ASSUME TypeOK, NEW t \in Transports, NEW u \in Transports
    PROVE  /\ [toServer EXCEPT ![t] = Tail(@)][u] =
                 IF u = t THEN Tail(toServer[t]) ELSE toServer[u]
           /\ Consumed[u] = IF u = transport THEN Tail(toClient[u]) ELSE toClient[u]
BY DEF Consumed, TypeOK, TransportTypes, ClientTypes

\* An envelope goes to the latest connection, if that is subscribed and open.
LEMMA Emitted ==
    ASSUME TypeOK, NEW c, NEW n, NEW r, Emit(toClient, c, n, r), NEW u \in Transports
    PROVE  toClient'[u] = IF u \in Recipients(c) /\ open[u]
                          THEN Append(toClient[u], ActionMessage(Len(log) + 1))
                          ELSE toClient[u]
BY DEF Emit, ActionMessage

\* What a step may have added to a stream.
LEMMA WrittenMembers ==
    ASSUME TypeOK, NEW t \in Transports, NEW u \in Transports
    PROVE  /\ \A x \in Message(Len(log)) :
                 ToSet(SentToClient(t, <<x>>)[u]) =
                    IF u = t /\ open[t] THEN ToSet(toClient[u]) \cup {x}
                    ELSE ToSet(toClient[u])
           /\ \A s \in Seq(Request) :
                 ToSet(SentToServer(t, s)[u]) =
                    IF u = t /\ open[t] THEN ToSet(toServer[u]) \cup ToSet(s)
                    ELSE ToSet(toServer[u])
           /\ toServer[t] # <<>> =>
                 /\ ToSet([toServer EXCEPT ![t] = Tail(@)][u]) \subseteq ToSet(toServer[u])
                 /\ Head(toServer[t]) \in ToSet(toServer[t])
           /\ toClient[transport] # <<>> =>
                 /\ ToSet(Consumed[u]) \subseteq ToSet(toClient[u])
                 /\ Incoming \in ToSet(toClient[transport])
<1>1. /\ toClient[u] \in Seq(Message(Len(log))) /\ toServer[u] \in Seq(Request)
      /\ toServer[t] \in Seq(Request)
      /\ transport \in Transports /\ toClient[transport] \in Seq(Message(Len(log)))
  BY DEF TypeOK, TransportTypes, ClientTypes
<1>2. ASSUME NEW x \in Message(Len(log))
      PROVE  ToSet(SentToClient(t, <<x>>)[u]) =
                    IF u = t /\ open[t] THEN ToSet(toClient[u]) \cup {x}
                    ELSE ToSet(toClient[u])
  <2>1. SentToClient(t, <<x>>)[u] = IF u = t /\ open[t] THEN toClient[u] \o <<x>>
                                    ELSE toClient[u]
    BY Written
  <2>2. <<x>> \in Seq(Message(Len(log)))
    OBVIOUS
  <2>3. ToSet(toClient[u] \o <<x>>) = ToSet(toClient[u]) \cup ToSet(<<x>>)
    <3> DEFINE w == <<x>>
    <3>1. w \in Seq(Message(Len(log)))
      BY <2>2
    <3> HIDE DEF w
    <3>2. ToSet(toClient[u] \o w) = ToSet(toClient[u]) \cup ToSet(w)
      BY <1>1, <3>1, MembersOf
    <3> QED
      BY <3>2 DEF w
  <2>4. ToSet(<<x>>) = {x}
    BY <1>1, MembersOf
  <2> QED
    BY <2>1, <2>3, <2>4
<1>3. ASSUME NEW s \in Seq(Request)
      PROVE  ToSet(SentToServer(t, s)[u]) =
                    IF u = t /\ open[t] THEN ToSet(toServer[u]) \cup ToSet(s)
                    ELSE ToSet(toServer[u])
  <2>1. SentToServer(t, s)[u] = IF u = t /\ open[t] THEN toServer[u] \o s
                                ELSE toServer[u]
    BY Written
  <2>2. ToSet(toServer[u] \o s) = ToSet(toServer[u]) \cup ToSet(s)
    BY <1>1, MembersOf
  <2> QED
    BY <2>1, <2>2
<1>4. ASSUME toServer[t] # <<>>
      PROVE  /\ ToSet([toServer EXCEPT ![t] = Tail(@)][u]) \subseteq ToSet(toServer[u])
             /\ Head(toServer[t]) \in ToSet(toServer[t])
  <2>1. /\ ToSet(Tail(toServer[t])) \subseteq ToSet(toServer[t])
        /\ Head(toServer[t]) \in ToSet(toServer[t])
    BY <1>1, <1>4, MembersOf
  <2>2. [toServer EXCEPT ![t] = Tail(@)][u] =
                 IF u = t THEN Tail(toServer[t]) ELSE toServer[u]
    BY Read
  <2> QED
    BY <2>1, <2>2
<1>5. ASSUME toClient[transport] # <<>>
      PROVE  /\ ToSet(Consumed[u]) \subseteq ToSet(toClient[u])
             /\ Incoming \in ToSet(toClient[transport])
  <2>1. /\ ToSet(Tail(toClient[transport])) \subseteq ToSet(toClient[transport])
        /\ Incoming \in ToSet(toClient[transport])
    BY <1>1, <1>5, MembersOf DEF Incoming
  <2>2. Consumed[u] = IF u = transport THEN Tail(toClient[u]) ELSE toClient[u]
    BY Read
  <2> QED
    BY <2>1, <2>2
<1> QED
  BY <1>2, <1>3, <1>4, <1>5

\* So a stream has at most that envelope more.
LEMMA EmittedMembers ==
    ASSUME TypeOK, NEW c, NEW n, NEW r, Emit(toClient, c, n, r), NEW u \in Transports
    PROVE  \/ toClient'[u] = toClient[u]
           \/ /\ open[u]
              /\ ToSet(toClient'[u]) =
                    ToSet(toClient[u]) \cup {ActionMessage(Len(log) + 1)}
<1>1. toClient[u] \in Seq(Message(Len(log)))
  BY DEF TypeOK, TransportTypes
<1>2. ToSet(Append(toClient[u], ActionMessage(Len(log) + 1))) =
         ToSet(toClient[u]) \cup {ActionMessage(Len(log) + 1)}
  BY <1>1, MembersOf
<1> QED
  BY <1>2, Emitted

-----------------------------------------------------------------------------
(* Transports in turn                                                      *)

\* Nothing has happened on transport t yet.
Unused(t) ==
    /\ toServer[t] = <<>> /\ toClient[t] = <<>>
    /\ t \notin ToSet(connections)
    /\ ~restoring[t].active

\* Only the client's current transport may be open, and the next ones wait
\* to be used.
InTurn ==
    \A t \in Transports : /\ t # transport => ~open[t]
                          /\ t > transport => Unused(t)

\* What every invariant below rests on.
Base == TypeOK /\ InTurn

\* Attaching and detaching a transport.
LEMMA AttachedMembers ==
    ASSUME TypeOK, NEW t \in Transports
    PROVE  /\ ToSet(Append(connections, t)) = ToSet(connections) \cup {t}
           /\ ToSet(Without(connections, t)) = ToSet(connections) \ {t}
<1>1. connections \in Seq(Transports) /\ Transports \subseteq Nat
  BY DEF TypeOK, ServerTypes, Transports
<1> HIDE DEF Transports
<1>2. ToSet(Append(connections, t)) = ToSet(connections) \cup {t}
  BY <1>1, MembersOf
<1>3. ToSet(Without(connections, t)) = ToSet(connections) \ {t}
  BY <1>1, WithoutRest
<1> QED
  BY <1>2, <1>3

\* A step on streams that are in use.
LEMMA InTurnKept ==
    ASSUME Base, UNCHANGED transport,
           \A t \in Transports : open'[t] => open[t],
           \A t \in Transports : t > transport /\ Unused(t) => Unused(t)'
    PROVE  InTurn'
BY DEF Base, InTurn

\* No envelope goes to a transport that is yet to be used.
LEMMA EmitInTurn ==
    ASSUME Base, NEW c, NEW n, NEW r, Emit(toClient, c, n, r),
           NEW t \in Transports, t > transport
    PROVE  toClient'[t] = <<>>
<1>1. toClient[t] = <<>> /\ ~open[t]
  <2>1. t # transport
    BY DEF Base, TypeOK, ClientTypes, Transports
  <2> QED
    BY <2>1 DEF Base, InTurn, Unused
<1> QED
  BY <1>1, Emitted DEF Base

\* The server's steps use no transport before its turn.
LEMMA ServerInTurn ==
    ASSUME Base,
           \/ \E c \in Channels : ServerAction(c)
           \/ QueueStep \/ Forget
           \/ \E t \in Transports :
                 \/ ReceiveDispatch(t) \/ ReceiveReconnect(t)
                 \/ ReceiveInitialize(t) \/ AnswerReconnect(t) \/ ServerClosed(t)
                 \/ \E c \in Channels : RestoreChannel(t, c)
    PROVE  InTurn'
<1>1. TypeOK
  BY DEF Base
<1>2. ASSUME NEW u \in Transports, u > transport
      PROVE  Unused(u) /\ ~open[u]
  <2>1. u # transport
    BY <1>2 DEF Base, TypeOK, ClientTypes, Transports
  <2> QED
    BY <1>2, <2>1 DEF Base, InTurn
<1>3. ASSUME NEW c \in Channels, ServerAction(c)
      PROVE  InTurn'
  <2>1. Emit(toClient, c, 0, FALSE) /\ UNCHANGED <<transport, open, toServer, connections, restoring>>
    BY <1>3 DEF ServerAction, clientVars
  <2>2. \A u \in Transports : u > transport => toClient'[u] = <<>>
    BY <2>1, EmitInTurn
  <2> QED
    BY <2>1, <2>2, InTurnKept DEF Unused
<1>4. ASSUME QueueStep
      PROVE  InTurn'
  <2>1. UNCHANGED <<transport, open, toServer, connections, restoring>>
    BY <1>4 DEF QueueStep, clientVars
  <2>2. \A u \in Transports : u > transport /\ Unused(u) => toClient'[u] = <<>>
    <3>1. CASE UNCHANGED toClient
      BY <3>1 DEF Unused
    <3>2. CASE DispatchNow(toClient, Head(dispatchQueue).action)
      <4>1. PICK c, n, r : Emit(toClient, c, n, r)
        BY <3>2 DEF DispatchNow
      <4> QED
        BY <4>1, EmitInTurn
    <3> QED
      BY <1>4, <3>1, <3>2 DEF QueueStep
  <2> QED
    BY <2>1, <2>2, InTurnKept DEF Unused
<1>5. ASSUME Forget
      PROVE  InTurn'
  BY <1>5, InTurnKept DEF Forget, Unused, clientVars
<1>6. ASSUME NEW t \in Transports, toServer[t] # <<>>, NEW u \in Transports, u > transport
      PROVE  u # t
  BY <1>2, <1>6 DEF Unused
<1>7. ASSUME NEW t \in Transports, ReceiveDispatch(t)
      PROVE  InTurn'
  <2>1. /\ UNCHANGED <<transport, open, connections, restoring>>
        /\ toServer' = [toServer EXCEPT ![t] = Tail(@)]
        /\ toServer[t] # <<>>
    BY <1>7 DEF ReceiveDispatch, ServerReads, clientVars
  <2>2. \A u \in Transports : u > transport /\ Unused(u) => toServer'[u] = <<>>
    BY <1>1, <1>6, <2>1, Read DEF Unused
  <2>3. \A u \in Transports : u > transport /\ Unused(u) => toClient'[u] = <<>>
    <3>1. CASE UNCHANGED toClient
      BY <3>1 DEF Unused
    <3>2. CASE DispatchNow(toClient, Head(toServer[t]))
      <4>1. PICK c, n, r : Emit(toClient, c, n, r)
        BY <3>2 DEF DispatchNow
      <4> QED
        BY <4>1, EmitInTurn
    <3> QED
      BY <1>7, <3>1, <3>2 DEF ReceiveDispatch
  <2> QED
    BY <2>1, <2>2, <2>3, InTurnKept DEF Unused
<1>8. ASSUME NEW t \in Transports, ReceiveReconnect(t)
      PROVE  InTurn'
  <2>1. /\ UNCHANGED <<transport, open>>
        /\ toServer' = [toServer EXCEPT ![t] = Tail(@)]
        /\ toServer[t] # <<>>
    BY <1>8 DEF ReceiveReconnect, ServerReads, clientVars
  <2>2. \/ \E s : /\ toClient' = SentToClient(t, s)
                  /\ connections' = connections \/ connections' = Append(connections, t)
                  /\ UNCHANGED restoring
        \/ \E j : /\ connections' = Append(connections, t)
                  /\ restoring' = [restoring EXCEPT ![t] = j]
                  /\ UNCHANGED toClient
    BY <1>8 DEF ReceiveReconnect
  <2>3. ASSUME NEW u \in Transports, u > transport, Unused(u)
        PROVE  Unused(u)'
    <3>1. u # t
      BY <1>6, <2>1, <2>3
    <3>2. toServer'[u] = <<>>
      BY <1>1, <2>1, <2>3, <3>1, Read DEF Unused
    <3>3. toClient'[u] = <<>>
      BY <1>1, <2>2, <2>3, <3>1, Written DEF Unused
    <3>4. restoring'[u] = restoring[u]
      BY <1>1, <2>2, <3>1 DEF TypeOK, ServerTypes
    <3>5. u \notin ToSet(connections')
      BY <1>1, <2>2, <2>3, <3>1, AttachedMembers DEF Unused
    <3> QED
      BY <2>3, <3>2, <3>3, <3>4, <3>5 DEF Unused
  <2> QED
    BY <2>1, <2>3, InTurnKept
<1>9. ASSUME NEW t \in Transports, ReceiveInitialize(t)
      PROVE  InTurn'
  <2>1. /\ UNCHANGED <<transport, open, restoring>>
        /\ toServer' = [toServer EXCEPT ![t] = Tail(@)]
        /\ toServer[t] # <<>>
        /\ connections' = Append(connections, t)
        /\ \E s : toClient' = SentToClient(t, s)
    BY <1>9 DEF ReceiveInitialize, ServerReads, clientVars
  <2>2. ASSUME NEW u \in Transports, u > transport, Unused(u)
        PROVE  Unused(u)'
    <3>1. u # t
      BY <1>6, <2>1, <2>2
    <3>2. toServer'[u] = <<>>
      BY <1>1, <2>1, <2>2, <3>1, Read DEF Unused
    <3>3. toClient'[u] = <<>>
      BY <1>1, <2>1, <2>2, <3>1, Written DEF Unused
    <3>4. u \notin ToSet(connections')
      BY <1>1, <2>1, <2>2, <3>1, AttachedMembers DEF Unused
    <3> QED
      BY <2>1, <2>2, <3>2, <3>3, <3>4 DEF Unused
  <2> QED
    BY <2>1, <2>2, InTurnKept
<1>10. ASSUME NEW t \in Transports, AnswerReconnect(t)
       PROVE  InTurn'
  <2>1. /\ UNCHANGED <<transport, open, toServer, connections>>
        /\ restoring[t].active
        /\ restoring' = [restoring EXCEPT ![t] = NoJob]
        /\ \E s : toClient' = SentToClient(t, s)
    BY <1>10 DEF AnswerReconnect, clientVars
  <2>2. ASSUME NEW u \in Transports, u > transport, Unused(u)
        PROVE  Unused(u)'
    <3>1. u # t
      BY <2>1, <2>2 DEF Unused
    <3>2. toClient'[u] = <<>>
      BY <1>1, <2>1, <2>2, <3>1, Written DEF Unused
    <3>3. restoring'[u] = restoring[u]
      BY <1>1, <2>1, <3>1 DEF TypeOK, ServerTypes
    <3> QED
      BY <2>1, <2>2, <3>2, <3>3 DEF Unused
  <2> QED
    BY <2>1, <2>2, InTurnKept
<1>11. ASSUME NEW t \in Transports, ServerClosed(t)
       PROVE  InTurn'
  <2>1. /\ UNCHANGED <<transport, open, toClient, restoring>>
        /\ toServer' = [toServer EXCEPT ![t] = <<>>]
        /\ connections' = Without(connections, t)
    BY <1>11 DEF ServerClosed, clientVars
  <2>2. ASSUME NEW u \in Transports, u > transport, Unused(u)
        PROVE  Unused(u)'
    <3>1. toServer'[u] = <<>>
      BY <1>1, <2>1, <2>2 DEF Unused, TypeOK, TransportTypes
    <3>2. u \notin ToSet(connections')
      BY <1>1, <2>1, <2>2, AttachedMembers DEF Unused
    <3> QED
      BY <2>1, <2>2, <3>1, <3>2 DEF Unused
  <2> QED
    BY <2>1, <2>2, InTurnKept
<1>12. ASSUME NEW t \in Transports, NEW c \in Channels, RestoreChannel(t, c)
       PROVE  InTurn'
  <2>1. UNCHANGED <<transport, open, toServer, toClient, connections>>
    BY <1>12 DEF RestoreChannel, clientVars
  <2>2. \A u \in Transports : restoring'[u].active = restoring[u].active
    <3>1. restoring \in [Transports -> Job(Len(log))] /\ restoring[t] \in Job(Len(log))
      BY <1>1 DEF TypeOK, ServerTypes
    <3>2. \E j : restoring' = [restoring EXCEPT ![t] = j] /\ j.active = restoring[t].active
      BY <1>12, <3>1 DEF RestoreChannel, Job
    <3> QED
      BY <3>1, <3>2
  <2> QED
    BY <2>1, <2>2, InTurnKept DEF Unused
<1> QED
  BY <1>3, <1>4, <1>5, <1>7, <1>8, <1>9, <1>10, <1>11, <1>12

\* Nor do the client's.
LEMMA ClientInTurn ==
    ASSUME Base,
           \/ \E c \in Channels : ClientDispatch(c)
           \/ Lose \/ TransportClosed \/ AttemptReconnect \/ ReceiveNotFound
           \/ ReceiveAction \/ ReceiveReplay \/ ReceiveSnapshots
           \/ ReceiveInitialized
    PROVE  InTurn'
<1>1. TypeOK /\ transport \in Transports
  BY DEF Base, TypeOK, ClientTypes
<1>2. ASSUME UNCHANGED <<transport, connections, restoring>>,
             \A t \in Transports : open'[t] => open[t],
             \A t \in Transports : t # transport =>
                 /\ toServer'[t] = toServer[t]
                 /\ toClient'[t] = toClient[t] \/ toClient'[t] = <<>>
      PROVE  InTurn'
  <2>1. \A t \in Transports : t > transport => t # transport
    BY <1>1 DEF Transports
  <2>2. \A t \in Transports : t > transport /\ Unused(t) => Unused(t)'
    BY <1>2, <2>1 DEF Unused
  <2> QED
    BY <1>2, <2>2, InTurnKept
<1>3. \A t \in Transports : t # transport =>
         /\ Consumed[t] = toClient[t]
         /\ \A s : SentToServer(transport, s)[t] = toServer[t]
  BY <1>1, Read, Written
<1>4. ASSUME NEW c \in Channels, ClientDispatch(c)
      PROVE  InTurn'
  <2>1. UNCHANGED <<transport, connections, restoring, open, toClient>>
    BY <1>4 DEF ClientDispatch, serverVars
  <2>2. UNCHANGED toServer \/ \E s : toServer' = SentToServer(transport, s)
    BY <1>4 DEF ClientDispatch
  <2> QED
    BY <1>2, <1>3, <2>1, <2>2
<1>5. CASE Lose
  <2>1. UNCHANGED <<transport, connections, restoring, toServer, toClient>>
    BY <1>5 DEF Lose, serverVars, clientVars
  <2>2. \A t \in Transports : open'[t] => open[t]
    BY <1>1, <1>5 DEF Lose, TypeOK, TransportTypes
  <2> QED
    BY <1>2, <2>1, <2>2
<1>6. CASE TransportClosed
  <2>1. UNCHANGED <<transport, connections, restoring, toServer, open>>
    BY <1>6 DEF TransportClosed, serverVars
  <2>2. \A t \in Transports : toClient'[t] = toClient[t] \/ toClient'[t] = <<>>
    BY <1>1, <1>6 DEF TransportClosed, TypeOK, TransportTypes
  <2> QED
    BY <1>2, <2>1, <2>2
<1>7. CASE AttemptReconnect
  <2>1. /\ transport' = transport + 1 /\ transport' \in Transports
        /\ open' = [open EXCEPT ![transport] = FALSE, ![transport'] = TRUE]
        /\ \E s : toServer' = [toServer EXCEPT ![transport'] = s]
        /\ UNCHANGED <<toClient, connections, restoring>>
    <3>1. transport' = transport + 1 /\ transport' \in Transports
      BY <1>1, <1>7, ConstantsAssumption DEF AttemptReconnect, Transports
    <3>2. \E s : toServer' = [toServer EXCEPT ![transport'] = s]
      BY <1>7 DEF AttemptReconnect
    <3> QED
      BY <1>7, <3>1, <3>2 DEF AttemptReconnect, serverVars
  <2>2. ASSUME NEW t \in Transports, t # transport'
        PROVE  ~open'[t]
    BY <1>1, <2>1, <2>2 DEF Base, InTurn, TypeOK, TransportTypes
  <2>3. ASSUME NEW t \in Transports, t > transport'
        PROVE  Unused(t)'
    <3>1. t > transport /\ t # transport'
      BY <1>1, <2>1, <2>3 DEF Transports
    <3>2. Unused(t)
      BY <3>1 DEF Base, InTurn
    <3>3. toServer'[t] = toServer[t]
      BY <1>1, <2>1, <3>1 DEF TypeOK, TransportTypes
    <3> QED
      BY <2>1, <3>2, <3>3 DEF Unused
  <2> QED
    BY <2>2, <2>3 DEF InTurn
<1>8. CASE ReceiveNotFound
  <2>1. /\ UNCHANGED <<transport, connections, restoring, open>>
        /\ toClient' = Consumed
        /\ \E s : toServer' = SentToServer(transport, s)
    BY <1>8 DEF ReceiveNotFound, serverVars
  <2> QED
    BY <1>2, <1>3, <2>1
<1>9. CASE ReceiveAction
  <2>1. /\ UNCHANGED <<transport, connections, restoring, open, toServer>>
        /\ toClient' = Consumed
    BY <1>9 DEF ReceiveAction, serverVars
  <2> QED
    BY <1>2, <1>3, <2>1
<1>10. CASE ReceiveReplay \/ ReceiveSnapshots \/ ReceiveInitialized
  <2>1. /\ UNCHANGED <<transport, connections, restoring, open>>
        /\ toClient' = Consumed
        /\ \E s : toServer' = SentToServer(transport, s)
    BY <1>10 DEF ReceiveReplay, ReceiveSnapshots, ReceiveInitialized,
                 DrainAfterReconnect, serverVars
  <2> QED
    BY <1>2, <1>3, <2>1
<1> QED
  BY <1>4, <1>5, <1>6, <1>7, <1>8, <1>9, <1>10

\* Types and turns are right at first,
LEMMA BaseInit == Init => Base
<1> SUFFICES ASSUME Init PROVE InTurn
  BY InitTypes DEF Base
<1>1. Transports \subseteq Nat \ {0} /\ transport = 1
  BY DEF Transports, Init
<1>2. ASSUME NEW t \in Transports, t # 1
      PROVE  ~open[t]
  BY <1>2 DEF Init
<1>3. ASSUME NEW t \in Transports, t > 1
      PROVE  Unused(t)
  <2>1. toServer[t] = <<>> /\ toClient[t] = <<>> /\ ~restoring[t].active
    BY DEF Init, NoJob
  <2>2. connections = <<1>> /\ t # 1
    BY <1>1, <1>3 DEF Init
  <2>3. t \notin ToSet(connections)
    BY <2>2 DEF ToSet
  <2> QED
    BY <2>1, <2>3 DEF Unused
<1> QED
  BY <1>1, <1>2, <1>3 DEF InTurn

\* and stay right,
LEMMA BaseNext ==
    ASSUME Base, [Next]_vars
    PROVE  Base'
<1>1. TypeOK'
  BY NextTypes DEF Base
<1>2. InTurn'
  <2>1. CASE UNCHANGED vars
    <3>1. UNCHANGED <<open, transport, toServer, toClient, connections, restoring>>
      BY <2>1 DEF vars
    <3>2. \A t \in Transports : Unused(t)' <=> Unused(t)
      BY <3>1 DEF Unused
    <3> QED
      BY <3>1, <3>2, InTurnKept
  <2> QED
    BY <2>1, Steps, ServerInTurn, ClientInTurn
<1> QED
  BY <1>1, <1>2 DEF Base

\* so they always are.
LEMMA BaseCorrect == Spec => []Base
<1>1. Base /\ [Next]_vars => Base'
  BY BaseNext
<1> QED
  BY BaseInit, <1>1, PTL DEF Spec

-----------------------------------------------------------------------------
(* LiveSubscriptionsAreServed                                              *)

\* An answer leaves nothing out.
Complete(m) ==
    /\ m.kind = "replay" => m.missing = {}
    /\ m.kind = "snapshot" => DOMAIN m.seqs = Channels

\* Who has been answered on t is served on t, and who is being answered has
\* what was restored so far.
Serving(t) ==
    /\ \A m \in ToSet(toClient[t]) :
          /\ Complete(m)
          /\ open[t] /\ m.kind \in {"replay", "snapshot", "initialized"}
                => subscriptions[t] = Channels
    /\ restoring[t].active =>
          /\ DOMAIN restoring[t].snapshots = Channels \ restoring[t].todo
          /\ open[t] => Channels \ restoring[t].todo \subseteq subscriptions[t]

\* The inductive invariant: nothing fails, and who is connected is served.
ServedInv ==
    /\ failed = {}
    /\ \A t \in Transports : Serving(t)
    /\ state = "connected" /\ open[transport]
          => subscriptions[transport] = Channels

\* A step that answers nobody.
LEMMA ServedKept ==
    ASSUME Base, ServedInv, UNCHANGED <<failed, restoring, transport>>,
           state' = state \/ state' # "connected",
           \A t \in Transports : /\ open'[t] => open[t]
                                 /\ open[t] => subscriptions'[t] = subscriptions[t],
           \A t \in Transports : \A m \in ToSet(toClient'[t]) :
               m \in ToSet(toClient[t]) \/ m.kind \in {"action", "notFound"}
    PROVE  ServedInv'
<1>1. transport \in Transports
  BY DEF Base, TypeOK, ClientTypes
<1>2. ASSUME NEW t \in Transports
      PROVE  Serving(t)'
  <2>1. Serving(t)
    BY DEF ServedInv
  <2> QED
    BY <2>1 DEF Serving, Complete
<1>3. state' = "connected" /\ open'[transport'] => subscriptions'[transport'] = Channels
  BY <1>1 DEF ServedInv
<1> QED
  BY <1>2, <1>3 DEF ServedInv

\* The server's steps that answer nobody.
LEMMA ServerActionServes ==
    ASSUME Base, ServedInv,
           \/ \E c \in Channels : ServerAction(c)
           \/ QueueStep \/ Forget
           \/ \E t \in Transports : ReceiveDispatch(t) \/ ServerClosed(t)
    PROVE  ServedInv'
<1>1. TypeOK
  BY DEF Base
<1>2. ASSUME UNCHANGED <<failed, restoring, transport, state, open, subscriptions>>,
             \/ UNCHANGED toClient
             \/ \E c, n, r : Emit(toClient, c, n, r)
      PROVE  ServedInv'
  <2>1. \A t \in Transports : \A m \in ToSet(toClient'[t]) :
               m \in ToSet(toClient[t]) \/ m.kind \in {"action", "notFound"}
    <3>1. ActionMessage(Len(log) + 1).kind = "action"
      BY DEF ActionMessage
    <3> QED
      BY <1>1, <1>2, <3>1, EmittedMembers
  <2> QED
    BY <1>2, <2>1, ServedKept
<1>3. ASSUME NEW c \in Channels, ServerAction(c)
      PROVE  ServedInv'
  BY <1>2, <1>3 DEF ServerAction, clientVars
<1>4. ASSUME NEW m, DispatchNow(toClient, m)
      PROVE  \E c, n, r : Emit(toClient, c, n, r)
  BY <1>4 DEF DispatchNow
<1>5. CASE QueueStep
  <2>1. UNCHANGED <<failed, restoring, transport, state, open, subscriptions>>
    BY <1>5 DEF QueueStep, clientVars
  <2>2. UNCHANGED toClient \/ DispatchNow(toClient, Head(dispatchQueue).action)
    BY <1>5 DEF QueueStep
  <2> QED
    BY <1>2, <1>4, <2>1, <2>2
<1>6. CASE Forget
  BY <1>2, <1>6 DEF Forget, clientVars
<1>7. ASSUME NEW t \in Transports, ReceiveDispatch(t)
      PROVE  ServedInv'
  <2>1. UNCHANGED <<failed, restoring, transport, state, open, subscriptions>>
    BY <1>7 DEF ReceiveDispatch, clientVars
  <2>2. UNCHANGED toClient \/ DispatchNow(toClient, Head(toServer[t]))
    BY <1>7 DEF ReceiveDispatch
  <2> QED
    BY <1>2, <1>4, <2>1, <2>2
<1>8. ASSUME NEW t \in Transports, ServerClosed(t)
      PROVE  ServedInv'
  <2>1. UNCHANGED <<failed, restoring, transport, state, open, toClient>>
    BY <1>8 DEF ServerClosed, clientVars
  <2>2. \A u \in Transports : open[u] => subscriptions'[u] = subscriptions[u]
    BY <1>1, <1>8 DEF ServerClosed, Released, TypeOK, ServerTypes
  <2> QED
    BY <2>1, <2>2, ServedKept
<1> QED
  BY <1>3, <1>5, <1>6, <1>7, <1>8

\* A step writes to t at most, an answer that is complete if the connection
\* is subscribed to S.
AnswersOn(t, S) ==
    \A u \in Transports : \A m \in ToSet(toClient'[u]) :
        \/ m \in ToSet(toClient[u])
        \/ u = t /\ Complete(m) /\ S = Channels

\* Job has restored what the connection is subscribed to.
Restored(job, t, S) ==
    job.active => /\ DOMAIN job.snapshots = Channels \ job.todo
                  /\ open[t] => Channels \ job.todo \subseteq S

\* A step that changes connection t only, its subscriptions to S, what is
\* being answered to job, and writes s to it.
LEMMA ServedOn ==
    ASSUME Base, ServedInv, NEW t \in Transports, NEW S, NEW job,
           UNCHANGED <<failed, transport, state, open>>,
           subscriptions' = [subscriptions EXCEPT ![t] = S],
           restoring' = [restoring EXCEPT ![t] = job],
           subscriptions[t] \subseteq S, S \in SUBSET Channels,
           AnswersOn(t, S), Restored(job, t, S)
    PROVE  ServedInv'
<1>1. /\ transport \in Transports
      /\ subscriptions \in [Transports -> SUBSET Channels]
      /\ restoring \in [Transports -> Job(Len(log))]
  BY DEF Base, TypeOK, ServerTypes, ClientTypes
<1>2. /\ subscriptions'[t] = S /\ restoring'[t] = job
      /\ \A u \in Transports : u # t => /\ subscriptions'[u] = subscriptions[u]
                                        /\ restoring'[u] = restoring[u]
  BY <1>1
<1>3. ASSUME NEW u \in Transports
      PROVE  Serving(u)'
  <2>1. Serving(u)
    BY DEF ServedInv
  <2>2. CASE u = t
    <3>1. subscriptions[t] = Channels => S = Channels
      OBVIOUS
    <3>2. \A m \in ToSet(toClient'[u]) :
            /\ Complete(m)
            /\ open'[u] /\ m.kind \in {"replay", "snapshot", "initialized"}
                => subscriptions'[u] = Channels
      BY <1>2, <2>1, <2>2, <3>1 DEF Serving, AnswersOn
    <3>3. restoring'[u].active =>
            /\ DOMAIN restoring'[u].snapshots = Channels \ restoring'[u].todo
            /\ open'[u] => Channels \ restoring'[u].todo \subseteq subscriptions'[u]
      BY <1>2, <2>2 DEF Restored
    <3> HIDE DEF Complete
    <3> QED
      BY <3>2, <3>3 DEF Serving, Complete
  <2>3. CASE u # t
    <3>1. \A m \in ToSet(toClient'[u]) : m \in ToSet(toClient[u])
      BY <2>3 DEF AnswersOn
    <3> QED
      BY <1>2, <2>1, <2>3, <3>1 DEF Serving, Complete
  <2> QED
    BY <2>2, <2>3
<1>4. state' = "connected" /\ open'[transport'] => subscriptions'[transport'] = Channels
  <2> SUFFICES ASSUME state = "connected", open[transport]
               PROVE  subscriptions'[transport] = Channels
    OBVIOUS
  <2>1. subscriptions[transport] = Channels
    BY DEF ServedInv
  <2>2. CASE transport = t
    <3>1. S = Channels
      BY <2>1, <2>2
    <3> QED
      BY <1>2, <2>2, <3>1
  <2>3. CASE transport # t
    BY <1>1, <1>2, <2>1, <2>3
  <2> QED
    BY <2>2, <2>3
<1> QED
  BY <1>3, <1>4 DEF ServedInv

\* When no resource fails to be restored, answers are complete.
LEMMA AnswerComplete ==
    ASSUME NEW job, NEW S, job.canReplay => S = Channels,
           DOMAIN job.snapshots = Channels
    PROVE  Complete(Answer(job, S))
BY DEF Answer, Complete

\* Who is answered is told of every channel, and served on all it is told of.
LEMMA AnswersServe ==
    ASSUME Base, ServedInv, Restore # "failing", NEW t \in Transports,
           \/ ReceiveReconnect(t) \/ ReceiveInitialize(t) \/ AnswerReconnect(t)
           \/ \E c \in Channels : RestoreChannel(t, c)
    PROVE  ServedInv'
<1> DEFINE N == Len(log)
<1>1. /\ TypeOK /\ N \in Nat
      /\ subscriptions \in [Transports -> SUBSET Channels]
      /\ restoring \in [Transports -> Job(N)]
      /\ subscriptions[t] \in SUBSET Channels
      /\ restoring[t] \in Job(N)
  BY DEF Base, TypeOK, ServerTypes
<1>2. Serving(t)
  BY DEF ServedInv
<1>3. ASSUME NEW a \in Message(N), toClient' = SentToClient(t, <<a>>)
      PROVE  \A u \in Transports : \A m \in ToSet(toClient'[u]) :
               m \in ToSet(toClient[u]) \/ (u = t /\ m = a)
  <2> SUFFICES ASSUME NEW u \in Transports
               PROVE  ToSet(toClient'[u]) \subseteq
                         ToSet(toClient[u]) \cup (IF u = t THEN {a} ELSE {})
    OBVIOUS
  <2>1. ToSet(SentToClient(t, <<a>>)[u]) =
           IF u = t /\ open[t] THEN ToSet(toClient[u]) \cup {a} ELSE ToSet(toClient[u])
    BY <1>1, WrittenMembers
  <2> QED
    BY <1>3, <2>1
<1> HIDE DEF N
<1>4. ASSUME ReceiveReconnect(t)
      PROVE  ServedInv'
  <2> DEFINE job == NewJob(Head(toServer[t]).seq)
             all == [job EXCEPT !.snapshots = Now]
  <2>1. UNCHANGED <<failed, transport, state, open>>
    BY <1>4 DEF ReceiveReconnect, clientVars
  <2>2. \/ /\ toClient' = SentToClient(t, <<[kind |-> "notFound"]>>)
           /\ UNCHANGED <<subscriptions, restoring>>
        \/ /\ subscriptions' = [subscriptions EXCEPT ![t] = Channels]
           /\ toClient' = SentToClient(t, <<Answer(all, Channels)>>)
           /\ UNCHANGED restoring
        \/ /\ restoring' = [restoring EXCEPT ![t] = job]
           /\ UNCHANGED <<subscriptions, toClient>>
    BY <1>4 DEF ReceiveReconnect, NewJob, Now
  <2>3. Head(toServer[t]).seq \in Nat
    <3>1. toServer[t] # <<>> /\ Head(toServer[t]).kind = "reconnect"
      BY <1>4 DEF ReceiveReconnect, ServerReads
    <3>2. Head(toServer[t]) \in Request
      BY <1>1, <3>1, ReadTypes
    <3> QED
      BY <3>1, <3>2, RequestMembers
  <2>4. all \in Job(N) /\ DOMAIN all.snapshots = Channels
    <3>1. all \in Job(N)
      BY <1>1, <2>3, NewJobTypes DEF N
    <3>2. all.snapshots = Now
      BY DEF NewJob
    <3> QED
      BY <3>1, <3>2 DEF Now
  <2>5. /\ job.active /\ job.todo = Channels /\ DOMAIN job.snapshots = {}
    BY DEF NewJob
  <2> HIDE DEF all, job
  <2>6. Answer(all, Channels) \in Message(N) /\ Complete(Answer(all, Channels))
    <3>1. Answer(all, Channels) \in Message(N)
      BY <1>1, <2>4, AnswerType DEF N
    <3> QED
      BY <2>4, <3>1, AnswerComplete
  <2>7. CASE /\ toClient' = SentToClient(t, <<[kind |-> "notFound"]>>)
             /\ UNCHANGED <<subscriptions, restoring>>
    <3>1. [kind |-> "notFound"] \in Message(N)
      BY <1>1, MessagesWritten
    <3>2. \A u \in Transports : \A m \in ToSet(toClient'[u]) :
             m \in ToSet(toClient[u]) \/ m.kind \in {"action", "notFound"}
      BY <1>3, <2>7, <3>1
    <3> QED
      BY <2>1, <2>7, <3>2, ServedKept
  <2>8. CASE /\ subscriptions' = [subscriptions EXCEPT ![t] = Channels]
             /\ toClient' = SentToClient(t, <<Answer(all, Channels)>>)
             /\ UNCHANGED restoring
    <3>1. AnswersOn(t, Channels)
      BY <1>3, <2>6, <2>8 DEF AnswersOn
    <3>2. restoring' = [restoring EXCEPT ![t] = restoring[t]]
      BY <1>1, <2>8
    <3>3. Restored(restoring[t], t, Channels)
      BY <1>2 DEF Serving, Restored
    <3> QED
      BY <1>1, <2>1, <2>8, <3>1, <3>2, <3>3, ServedOn
  <2>9. CASE /\ restoring' = [restoring EXCEPT ![t] = job]
             /\ UNCHANGED <<subscriptions, toClient>>
    <3>1. subscriptions' = [subscriptions EXCEPT ![t] = subscriptions[t]]
      BY <1>1, <2>9
    <3>2. AnswersOn(t, subscriptions[t])
      BY <2>9 DEF AnswersOn
    <3>3. Restored(job, t, subscriptions[t])
      BY <2>5 DEF Restored
    <3> QED
      BY <1>1, <2>1, <2>9, <3>1, <3>2, <3>3, ServedOn
  <2> QED
    BY <2>2, <2>7, <2>8, <2>9
<1>5. ASSUME ReceiveInitialize(t)
      PROVE  ServedInv'
  <2> DEFINE a == [kind |-> "initialized", seq |-> N]
  <2>1. /\ UNCHANGED <<failed, transport, state, open, restoring>>
        /\ subscriptions' = [subscriptions EXCEPT ![t] = Channels]
        /\ toClient' = SentToClient(t, <<a>>)
    BY <1>5 DEF ReceiveInitialize, clientVars, N
  <2>2. a \in Message(N) /\ Complete(a)
    BY <1>1, MessagesWritten DEF Complete
  <2> HIDE DEF a
  <2>3. AnswersOn(t, Channels)
    BY <1>3, <2>1, <2>2 DEF AnswersOn
  <2>4. restoring' = [restoring EXCEPT ![t] = restoring[t]]
    BY <1>1, <2>1
  <2>5. Restored(restoring[t], t, Channels)
    BY <1>2 DEF Serving, Restored
  <2> QED
    BY <1>1, <2>1, <2>3, <2>4, <2>5, ServedOn
<1>6. ASSUME AnswerReconnect(t)
      PROVE  ServedInv'
  <2> DEFINE a == Answer(restoring[t], subscriptions[t])
  <2>1. /\ UNCHANGED <<failed, transport, state, open, subscriptions>>
        /\ restoring[t].active /\ restoring[t].todo = {}
        /\ restoring' = [restoring EXCEPT ![t] = NoJob]
        /\ toClient' = SentToClient(t, <<a>>)
    BY <1>6 DEF AnswerReconnect, clientVars
  <2>2. /\ DOMAIN restoring[t].snapshots = Channels
        /\ open[t] => subscriptions[t] = Channels
    BY <1>1, <1>2, <2>1 DEF Serving
  <2>3. a \in Message(N)
    BY <1>1, AnswerType DEF N
  <2>4. subscriptions[t] = Channels => Complete(a)
    BY <2>2, AnswerComplete
  <2> HIDE DEF a
  <2>5. AnswersOn(t, subscriptions[t])
    <3>1. CASE open[t]
      BY <1>3, <2>1, <2>2, <2>3, <2>4, <3>1 DEF AnswersOn
    <3>2. CASE ~open[t]
      <4>1. toClient' = toClient
        BY <2>1, <3>2 DEF SentToClient
      <4> QED
        BY <4>1 DEF AnswersOn
    <3> QED
      BY <3>1, <3>2
  <2>6. subscriptions' = [subscriptions EXCEPT ![t] = subscriptions[t]]
    BY <1>1, <2>1
  <2>7. Restored(NoJob, t, subscriptions[t])
    BY DEF NoJob, Restored
  <2> QED
    BY <1>1, <2>1, <2>5, <2>6, <2>7, ServedOn
<1>7. ASSUME NEW c \in Channels, RestoreChannel(t, c)
      PROVE  ServedInv'
  <2> DEFINE old == restoring[t]
             g == old.snapshots
             f == [d \in DOMAIN g \cup {c} |-> IF d = c THEN N ELSE g[d]]
             job == [old EXCEPT !.todo = @ \ {c}, !.snapshots = f]
             S == subscriptions[t] \cup {c}
  <2>1. /\ UNCHANGED <<failed, transport, state, open, toClient>>
        /\ c \in old.todo
        /\ restoring' = [restoring EXCEPT ![t] = job]
        /\ subscriptions' = [subscriptions EXCEPT ![t] = S]
    BY <1>7 DEF RestoreChannel, clientVars, N
  <2>2. /\ job.active = old.active /\ job.todo = old.todo \ {c}
        /\ DOMAIN job.snapshots = DOMAIN g \cup {c}
    BY <1>1 DEF Job
  <2>3. Restored(job, t, S)
    BY <1>2, <2>1, <2>2 DEF Serving, Restored
  <2>4. subscriptions[t] \subseteq S /\ S \in SUBSET Channels
    BY <1>1
  <2>5. AnswersOn(t, S)
    BY <2>1 DEF AnswersOn
  <2> HIDE DEF job, S
  <2> QED
    BY <2>1, <2>3, <2>4, <2>5, ServedOn
<1> QED
  BY <1>4, <1>5, <1>6, <1>7

\* The client's steps that read no answer.
LEMMA ClientServes ==
    ASSUME Base, ServedInv,
           \/ \E c \in Channels : ClientDispatch(c)
           \/ Lose \/ TransportClosed \/ ReceiveNotFound \/ ReceiveAction
    PROVE  ServedInv'
<1>1. TypeOK /\ transport \in Transports
  BY DEF Base, TypeOK, ClientTypes
<1>2. ASSUME toClient[transport] # <<>>, toClient' = Consumed, NEW t \in Transports
      PROVE  ToSet(toClient'[t]) \subseteq ToSet(toClient[t])
  BY <1>1, <1>2, WrittenMembers
<1>3. ASSUME UNCHANGED <<failed, restoring, transport, subscriptions>>,
             state' = state \/ state' # "connected",
             \A t \in Transports : open'[t] => open[t],
             \A t \in Transports : ToSet(toClient'[t]) \subseteq ToSet(toClient[t])
      PROVE  ServedInv'
  BY <1>3, ServedKept
<1>4. ASSUME NEW c \in Channels, ClientDispatch(c)
      PROVE  ServedInv'
  <2>1. UNCHANGED <<failed, restoring, transport, subscriptions, state, open, toClient>>
    BY <1>4 DEF ClientDispatch, serverVars
  <2> QED
    BY <1>3, <2>1
<1>5. CASE Lose
  <2>1. UNCHANGED <<failed, restoring, transport, subscriptions, state, toClient>>
    BY <1>5 DEF Lose, serverVars, clientVars
  <2>2. \A t \in Transports : open'[t] => open[t]
    BY <1>1, <1>5 DEF Lose, TypeOK, TransportTypes
  <2> QED
    BY <1>3, <2>1, <2>2
<1>6. CASE TransportClosed
  <2>1. /\ UNCHANGED <<failed, restoring, transport, subscriptions, open>>
        /\ state' = "waiting"
    BY <1>6 DEF TransportClosed, serverVars
  <2>2. ASSUME NEW t \in Transports
        PROVE  ToSet(toClient'[t]) \subseteq ToSet(toClient[t])
    <3>1. toClient'[t] = toClient[t] \/ toClient'[t] = <<>>
      BY <1>1, <1>6 DEF TransportClosed, TypeOK, TransportTypes
    <3>2. ToSet(<<>>) = {}
      BY DEF ToSet
    <3> QED
      BY <3>1, <3>2
  <2> QED
    BY <1>3, <2>1, <2>2
<1>7. CASE ReceiveNotFound
  <2>1. /\ UNCHANGED <<failed, restoring, transport, subscriptions, open>>
        /\ state' = "initializing"
        /\ toClient[transport] # <<>> /\ toClient' = Consumed
    BY <1>7 DEF ReceiveNotFound, ClientReads, serverVars
  <2> QED
    BY <1>2, <1>3, <2>1
<1>8. CASE ReceiveAction
  <2>1. /\ UNCHANGED <<failed, restoring, transport, subscriptions, open, state>>
        /\ toClient[transport] # <<>> /\ toClient' = Consumed
    BY <1>8 DEF ReceiveAction, ClientReads, serverVars
  <2> QED
    BY <1>2, <1>3, <2>1
<1> QED
  BY <1>4, <1>5, <1>6, <1>7, <1>8

\* A new transport has nothing on it.
LEMMA AttemptServes ==
    ASSUME Base, ServedInv, AttemptReconnect
    PROVE  ServedInv'
<1>1. /\ TypeOK /\ transport \in Transports
      /\ transport' = transport + 1
      /\ open' = [open EXCEPT ![transport] = FALSE, ![transport'] = TRUE]
      /\ state' = "reconnecting"
      /\ UNCHANGED <<toClient, failed, restoring, subscriptions>>
  BY DEF Base, TypeOK, ClientTypes, AttemptReconnect, serverVars
<1>2. ASSUME NEW t \in Transports
      PROVE  Serving(t)'
  <2>1. Serving(t)
    BY DEF ServedInv
  <2>2. CASE t = transport'
    <3>1. t > transport
      BY <1>1, <2>2 DEF Transports
    <3>2. toClient[t] = <<>> /\ ~restoring[t].active
      BY <3>1 DEF Base, InTurn, Unused
    <3>3. ToSet(toClient[t]) = {}
      BY <3>2 DEF ToSet
    <3> QED
      BY <1>1, <3>2, <3>3 DEF Serving
  <2>3. CASE t # transport'
    <3>1. open'[t] => open[t]
      BY <1>1, <2>3 DEF TypeOK, TransportTypes
    <3> QED
      BY <1>1, <2>1, <3>1 DEF Serving, Complete
  <2> QED
    BY <2>2, <2>3
<1> QED
  BY <1>1, <1>2 DEF ServedInv

\* The client takes an answer.
LEMMA AnswerServes ==
    ASSUME Base, ServedInv, ReceiveReplay \/ ReceiveSnapshots \/ ReceiveInitialized
    PROVE  ServedInv'
<1>1. /\ TypeOK /\ transport \in Transports
      /\ toClient[transport] # <<>>
      /\ toClient' = Consumed
      /\ Incoming.kind \in {"replay", "snapshot", "initialized"}
      /\ UNCHANGED <<open, transport, restoring, subscriptions>>
  BY DEF Base, TypeOK, ClientTypes, ReceiveReplay, ReceiveSnapshots,
         ReceiveInitialized, ClientReads, serverVars
<1>2. Incoming \in ToSet(toClient[transport])
  BY <1>1, WrittenMembers
<1>3. /\ Complete(Incoming)
      /\ open[transport] => subscriptions[transport] = Channels
  BY <1>1, <1>2 DEF ServedInv, Serving
<1>4. failed' = {}
  <2>1. failed = {}
    BY DEF ServedInv
  <2>2. CASE ReceiveReplay
    BY <1>3, <2>1, <2>2 DEF ReceiveReplay, ClientReads, Complete
  <2>3. CASE ReceiveSnapshots
    BY <2>1, <2>3 DEF ReceiveSnapshots
  <2>4. CASE ReceiveInitialized
    BY <2>4 DEF ReceiveInitialized
  <2> QED
    BY <2>2, <2>3, <2>4
<1>5. ASSUME NEW t \in Transports
      PROVE  Serving(t)'
  <2>1. Serving(t)
    BY DEF ServedInv
  <2>2. ToSet(toClient'[t]) \subseteq ToSet(toClient[t])
    BY <1>1, WrittenMembers
  <2> QED
    BY <1>1, <2>1, <2>2 DEF Serving, Complete
<1> QED
  BY <1>1, <1>3, <1>4, <1>5 DEF ServedInv

\* Nothing has failed at first,
LEMMA ServedInit == Init => ServedInv
<1> SUFFICES ASSUME Init PROVE ServedInv
  OBVIOUS
<1>1. ASSUME NEW t \in Transports
      PROVE  Serving(t)
  <2>1. toClient[t] = <<>> /\ ~restoring[t].active
    BY DEF Init, NoJob
  <2>2. ToSet(toClient[t]) = {}
    BY <2>1 DEF ToSet
  <2> QED
    BY <2>1, <2>2 DEF Serving
<1>2. failed = {} /\ transport = 1 /\ 1 \in Transports
  BY ConstantsAssumption DEF Init, Transports
<1>3. subscriptions[1] = Channels
  BY <1>2 DEF Init
<1> QED
  BY <1>1, <1>2, <1>3 DEF ServedInv

\* nor later.
LEMMA ServedNext ==
    ASSUME Restore # "failing", Base, ServedInv, [Next]_vars
    PROVE  ServedInv'
<1>1. CASE UNCHANGED vars
  BY <1>1, ServedKept DEF vars
<1> QED
  BY <1>1, Steps, ServerActionServes, AnswersServe, ClientServes, AttemptServes,
     AnswerServes

\* LiveSubscriptionsAreServed, when every resource that is asked for can be
\* restored: otherwise a snapshot answer leaves the others out without
\* telling the client.
THEOREM SubscriptionsAreServed ==
    ASSUME Restore # "failing"
    PROVE  Spec => []LiveSubscriptionsAreServed
<1>1. Base /\ ServedInv /\ [Next]_vars => Base' /\ ServedInv'
  BY BaseNext, ServedNext
<1>2. Init => Base /\ ServedInv
  BY BaseInit, ServedInit
<1>3. ServedInv => LiveSubscriptionsAreServed
  BY DEF ServedInv, LiveSubscriptionsAreServed
<1> QED
  BY <1>1, <1>2, <1>3, PTL DEF Spec

-----------------------------------------------------------------------------
(* OwnActionShownOnce                                                      *)

\* The numbers of actions are among those the client has given out.
Numbered ==
    /\ \A e \in ToSet(log) : e.clientSeq \in 0 .. clientSeq
    /\ \A m \in ToSet(outbox) : m.clientSeq \in 0 .. clientSeq
    /\ \A q \in ToSet(dispatchQueue) : q.action.clientSeq \in 0 .. clientSeq
    /\ \A t \in Transports : \A m \in ToSet(toServer[t]) :
          m.kind = "dispatch" => m.clientSeq \in 0 .. clientSeq
    /\ \A c \in Channels : \A n \in ToSet(pending[c]) : n \in 1 .. clientSeq

\* The server has a record of the client and nobody says otherwise.
Remembered ==
    /\ known
    /\ state # "initializing"
    /\ \A t \in Transports :
          /\ \A m \in ToSet(toClient[t]) : m.kind \notin {"notFound", "initialized"}
          /\ \A m \in ToSet(toServer[t]) : m.kind # "initialize"

\* OwnActionShownOnce, of elements.
ShownOnce ==
    \A c \in Resent : \A k \in ToSet(confirmed[c]) :
        log[k].clientSeq \notin ToSet(pending[c])

\* The inductive invariant.
OwnInv == Numbered /\ (~forgotten => Remembered /\ ShownOnce)

\* The numbers of actions are natural numbers.
LEMMA NumbersTyped ==
    ASSUME TypeOK
    PROVE  /\ clientSeq \in Nat
           /\ \A e \in ToSet(log) : e.clientSeq \in Nat
           /\ \A m \in ToSet(outbox) : m \in Action /\ m.clientSeq \in Nat
           /\ \A q \in ToSet(dispatchQueue) : q.action.clientSeq \in Nat
           /\ \A t \in Transports : \A m \in ToSet(toServer[t]) :
                 /\ m \in Request
                 /\ m.kind = "dispatch" => m.clientSeq \in Nat
           /\ \A c \in Channels : \A n \in ToSet(pending[c]) : n \in Nat
<1>1. clientSeq \in Nat
  BY DEF TypeOK, ClientTypes
<1>2. \A e \in ToSet(log) : e.clientSeq \in Nat
  <2>1. log \in Seq(Envelope) /\ \A e \in Envelope : e.clientSeq \in Nat
    BY DEF TypeOK, ServerTypes, Envelope
  <2> QED
    BY <2>1, MembersOf
<1>3. \A m \in Action : m.clientSeq \in Nat
  BY DEF Action
<1>4. \A m \in ToSet(outbox) : m \in Action /\ m.clientSeq \in Nat
  <2>1. outbox \in Seq(Action)
    BY DEF TypeOK, ClientTypes
  <2> QED
    BY <1>3, <2>1, MembersOf
<1>5. \A q \in ToSet(dispatchQueue) : q.action.clientSeq \in Nat
  <2> DEFINE Q == [action : Action, prelude : BOOLEAN]
  <2>1. dispatchQueue \in Seq(Q)
    BY DEF TypeOK, ServerTypes
  <2>2. \A q \in Q : q.action \in Action
    OBVIOUS
  <2> HIDE DEF Q
  <2>3. \A q \in ToSet(dispatchQueue) : q \in Q
    BY <2>1, MembersOf
  <2> QED
    BY <1>3, <2>2, <2>3
<1>6. ASSUME NEW t \in Transports
      PROVE  \A m \in ToSet(toServer[t]) :
                 /\ m \in Request
                 /\ m.kind = "dispatch" => m.clientSeq \in Nat
  <2>1. toServer[t] \in Seq(Request)
    BY DEF TypeOK, TransportTypes
  <2>2. \A m \in ToSet(toServer[t]) : m \in Request
    BY <2>1, MembersOf
  <2> QED
    BY <1>3, <2>2, RequestMembers
<1>7. ASSUME NEW c \in Channels
      PROVE  \A n \in ToSet(pending[c]) : n \in Nat
  <2>1. pending[c] \in Seq(Nat)
    BY DEF TypeOK, ClientTypes
  <2> QED
    BY <2>1, MembersOf
<1> QED
  BY <1>1, <1>2, <1>4, <1>5, <1>6, <1>7

\* A step that gives no action a number that is too high.
LEMMA NumberedKept ==
    ASSUME Numbered, clientSeq \in Nat, clientSeq' \in Nat, clientSeq <= clientSeq',
           \A e \in ToSet(log') : e \in ToSet(log) \/ e.clientSeq \in 0 .. clientSeq',
           \A m \in ToSet(outbox') :
               m \in ToSet(outbox) \/ m.clientSeq \in 0 .. clientSeq',
           \A q \in ToSet(dispatchQueue') :
               q \in ToSet(dispatchQueue) \/ q.action.clientSeq \in 0 .. clientSeq',
           \A t \in Transports : \A m \in ToSet(toServer'[t]) :
               \/ m \in ToSet(toServer[t])
               \/ m.kind = "dispatch" => m.clientSeq \in 0 .. clientSeq',
           \A c \in Channels : \A n \in ToSet(pending'[c]) :
               n \in ToSet(pending[c]) \/ n \in 1 .. clientSeq'
    PROVE  Numbered'
<1>1. /\ \A x \in 0 .. clientSeq : x \in 0 .. clientSeq'
      /\ \A x \in 1 .. clientSeq : x \in 1 .. clientSeq'
  OBVIOUS
<1>2. \A e \in ToSet(log') : e.clientSeq \in 0 .. clientSeq'
  BY <1>1 DEF Numbered
<1>3. \A m \in ToSet(outbox') : m.clientSeq \in 0 .. clientSeq'
  BY <1>1 DEF Numbered
<1>4. \A q \in ToSet(dispatchQueue') : q.action.clientSeq \in 0 .. clientSeq'
  BY <1>1 DEF Numbered
<1>5. \A t \in Transports : \A m \in ToSet(toServer'[t]) :
          m.kind = "dispatch" => m.clientSeq \in 0 .. clientSeq'
  BY <1>1 DEF Numbered
<1>6. \A c \in Channels : \A n \in ToSet(pending'[c]) : n \in 1 .. clientSeq'
  BY <1>1 DEF Numbered
<1> QED
  BY <1>2, <1>3, <1>4, <1>5, <1>6 DEF Numbered

\* An envelope of an action that the client has dispatched.
LEMMA EmitNumbered ==
    ASSUME TypeOK, Numbered, NEW c, NEW n, NEW r, Emit(toClient, c, n, r),
           n \in 0 .. clientSeq
    PROVE  \A e \in ToSet(log') : e \in ToSet(log) \/ e.clientSeq \in 0 .. clientSeq
<1> DEFINE x == [channel |-> c, clientSeq |-> n, rejected |-> r]
<1>1. log \in Seq(Envelope) /\ log' = Append(log, x) /\ x.clientSeq = n
  BY DEF TypeOK, ServerTypes, Emit
<1> HIDE DEF x
<1>2. ToSet(log') = ToSet(log) \cup {x}
  BY <1>1, MembersOf
<1> QED
  BY <1>1, <1>2

\* The server makes up no numbers.
LEMMA ServerNumbered ==
    ASSUME Base, Numbered,
           \/ \E c \in Channels : ServerAction(c)
           \/ QueueStep \/ Forget
           \/ \E t \in Transports :
                 \/ ReceiveDispatch(t) \/ ReceiveReconnect(t)
                 \/ ReceiveInitialize(t) \/ AnswerReconnect(t) \/ ServerClosed(t)
                 \/ \E c \in Channels : RestoreChannel(t, c)
    PROVE  Numbered'
<1>1. TypeOK /\ clientSeq \in Nat
  BY DEF Base, TypeOK, ClientTypes
<1>2. ASSUME UNCHANGED clientVars,
             \A e \in ToSet(log') : e \in ToSet(log) \/ e.clientSeq \in 0 .. clientSeq,
             \A q \in ToSet(dispatchQueue') :
                 q \in ToSet(dispatchQueue) \/ q.action.clientSeq \in 0 .. clientSeq,
             \A t \in Transports : ToSet(toServer'[t]) \subseteq ToSet(toServer[t])
      PROVE  Numbered'
  <2>1. UNCHANGED <<clientSeq, outbox, pending>>
    BY <1>2 DEF clientVars
  <2> QED
    BY <1>1, <1>2, <2>1, NumberedKept
<1>3. ASSUME NEW c \in Channels, ServerAction(c)
      PROVE  Numbered'
  <2>1. 0 \in 0 .. clientSeq
    BY <1>1
  <2>4. Emit(toClient, c, 0, FALSE)
    BY <1>3 DEF ServerAction
  <2>2. \A e \in ToSet(log') : e \in ToSet(log) \/ e.clientSeq \in 0 .. clientSeq
    BY <1>1, <2>1, <2>4, EmitNumbered
  <2>3. UNCHANGED clientVars /\ UNCHANGED <<dispatchQueue, toServer>>
    BY <1>3 DEF ServerAction
  <2> QED
    BY <1>2, <2>2, <2>3
<1>4. ASSUME NEW m, m.clientSeq \in 0 .. clientSeq, DispatchNow(toClient, m)
      PROVE  \A e \in ToSet(log') : e \in ToSet(log) \/ e.clientSeq \in 0 .. clientSeq
  <2>1. PICK r : Emit(toClient, m.channel, m.clientSeq, r)
    BY <1>4 DEF DispatchNow
  <2> QED
    BY <1>1, <1>4, <2>1, EmitNumbered
<1>5. CASE QueueStep
  <2> DEFINE q == Head(dispatchQueue)
  <2>1. /\ dispatchQueue \in Seq([action : Action, prelude : BOOLEAN])
        /\ dispatchQueue # <<>> /\ dispatchQueue' = Tail(dispatchQueue)
        /\ UNCHANGED clientVars /\ UNCHANGED toServer
    BY <1>1, <1>5 DEF TypeOK, ServerTypes, QueueStep
  <2>2. /\ q \in ToSet(dispatchQueue)
        /\ ToSet(dispatchQueue') \subseteq ToSet(dispatchQueue)
    BY <2>1, MembersOf
  <2>3. q.action.clientSeq \in 0 .. clientSeq
    BY <2>2 DEF Numbered
  <2>4. DispatchNow(toClient, q.action) \/ UNCHANGED log
    BY <1>5 DEF QueueStep
  <2> HIDE DEF q
  <2>5. \A e \in ToSet(log') : e \in ToSet(log) \/ e.clientSeq \in 0 .. clientSeq
    BY <1>4, <2>3, <2>4
  <2> QED
    BY <1>2, <2>1, <2>2, <2>5
<1>6. CASE Forget
  BY <1>2, <1>6 DEF Forget
<1>7. ASSUME NEW t \in Transports, toServer[t] # <<>>,
             toServer' = [toServer EXCEPT ![t] = Tail(@)], NEW u \in Transports
      PROVE  ToSet(toServer'[u]) \subseteq ToSet(toServer[u])
  BY <1>1, <1>7, WrittenMembers
<1>8. ASSUME NEW t \in Transports, ReceiveDispatch(t)
      PROVE  Numbered'
  <2> DEFINE m == Head(toServer[t])
  <2>1. /\ toServer[t] # <<>> /\ m.kind = "dispatch"
        /\ toServer' = [toServer EXCEPT ![t] = Tail(@)]
        /\ UNCHANGED clientVars
    BY <1>8 DEF ReceiveDispatch, ServerReads
  <2>2. m \in ToSet(toServer[t])
    BY <1>1, <2>1, WrittenMembers
  <2>3. m.clientSeq \in 0 .. clientSeq
    BY <2>1, <2>2 DEF Numbered
  <2>4. \/ DispatchNow(toClient, m) /\ UNCHANGED dispatchQueue
        \/ /\ \E p : dispatchQueue' = Append(dispatchQueue, [action |-> m, prelude |-> p])
           /\ UNCHANGED log
    BY <1>8 DEF ReceiveDispatch
  <2> HIDE DEF m
  <2>5. \A e \in ToSet(log') : e \in ToSet(log) \/ e.clientSeq \in 0 .. clientSeq
    BY <1>4, <2>3, <2>4
  <2>6. \A q \in ToSet(dispatchQueue') :
                 q \in ToSet(dispatchQueue) \/ q.action.clientSeq \in 0 .. clientSeq
    <3>1. CASE UNCHANGED dispatchQueue
      BY <3>1
    <3>2. ASSUME NEW p, dispatchQueue' = Append(dispatchQueue, [action |-> m, prelude |-> p])
          PROVE  \A q \in ToSet(dispatchQueue') :
                    q \in ToSet(dispatchQueue) \/ q.action.clientSeq \in 0 .. clientSeq
      <4> DEFINE x == [action |-> m, prelude |-> p]
                 Q == [action : Action, prelude : BOOLEAN]
      <4>1. dispatchQueue \in Seq(Q)
        BY <1>1 DEF TypeOK, ServerTypes
      <4>2. x.action = m
        OBVIOUS
      <4> HIDE DEF x, Q
      <4>3. ToSet(Append(dispatchQueue, x)) = ToSet(dispatchQueue) \cup {x}
        BY <4>1, MembersOf
      <4> QED
        BY <2>3, <3>2, <4>2, <4>3 DEF x
    <3> QED
      BY <2>4, <3>1, <3>2
  <2> QED
    BY <1>2, <1>7, <2>1, <2>5, <2>6
<1>9. ASSUME NEW t \in Transports, ReceiveReconnect(t) \/ ReceiveInitialize(t)
      PROVE  Numbered'
  <2>1. /\ toServer[t] # <<>>
        /\ toServer' = [toServer EXCEPT ![t] = Tail(@)]
        /\ UNCHANGED clientVars
        /\ UNCHANGED <<log, dispatchQueue>>
    BY <1>9 DEF ReceiveReconnect, ReceiveInitialize, ServerReads
  <2> QED
    BY <1>2, <1>7, <2>1
<1>10. ASSUME NEW t \in Transports, AnswerReconnect(t)
       PROVE  Numbered'
  BY <1>2, <1>10 DEF AnswerReconnect
<1>11. ASSUME NEW t \in Transports, ServerClosed(t)
       PROVE  Numbered'
  <2>1. UNCHANGED clientVars /\ UNCHANGED <<log, dispatchQueue>>
    BY <1>11 DEF ServerClosed
  <2>2. ASSUME NEW u \in Transports
        PROVE  ToSet(toServer'[u]) \subseteq ToSet(toServer[u])
    <3>1. toServer'[u] = toServer[u] \/ toServer'[u] = <<>>
      BY <1>1, <1>11 DEF ServerClosed, TypeOK, TransportTypes
    <3>2. ToSet(<<>>) = {}
      BY DEF ToSet
    <3> QED
      BY <3>1, <3>2
  <2> QED
    BY <1>2, <2>1, <2>2
<1>12. ASSUME NEW t \in Transports, NEW c \in Channels, RestoreChannel(t, c)
       PROVE  Numbered'
  BY <1>2, <1>12 DEF RestoreChannel
<1> QED
  BY <1>3, <1>5, <1>6, <1>8, <1>9, <1>10, <1>11, <1>12

\* What is sent after a reconnection: actions that are pending, and those of
\* the outbox.
LEMMA DrainedMembers ==
    ASSUME TypeOK, NEW p \in [Channels -> Seq(Nat)]
    PROVE  \A m \in ToSet(Drained(p)) :
              /\ m \in Action /\ m.kind = "dispatch"
              /\ \/ m \in ToSet(outbox)
                 \/ m.channel \in Resent /\ m.clientSeq \in ToSet(p[m.channel])
<1>1. PICK r : Resends(r, p) /\ Drained(p) = r \o outbox
  BY DrainedResends
<1>2. r \in Seq(Action) /\ outbox \in Seq(Action)
  BY <1>1 DEF Resends, TypeOK, ClientTypes
<1>3. ToSet(Drained(p)) = ToSet(r) \cup ToSet(outbox)
  BY <1>1, <1>2, MembersOf
<1>4. \A m \in ToSet(r) : m.channel \in Resent /\ m.clientSeq \in ToSet(p[m.channel])
  <2>1. \A m \in ToSet(r) : \E i \in 1 .. Len(r) : m = r[i]
    BY <1>2 DEF ToSet
  <2> QED
    BY <1>1, <2>1 DEF Resends
<1>5. \A m \in ToSet(Drained(p)) : m \in Action
  BY <1>2, <1>3, MembersOf
<1>6. \A m \in Action : m.kind = "dispatch"
  BY DEF Action
<1> QED
  BY <1>3, <1>4, <1>5, <1>6

\* The pending actions after envelopes were received.
LEMMA PendingShrinks ==
    ASSUME TypeOK, NEW ns \in Seq(1 .. Len(log)), NEW c \in Channels
    PROVE  /\ ToSet(ViewAfter(c, ns).pending) \subseteq ToSet(pending[c])
           /\ \A i \in 1 .. Len(ns) : log[ns[i]].channel = c =>
                 log[ns[i]].clientSeq \notin ToSet(ViewAfter(c, ns).pending)
           /\ \A x \in ToSet(ViewAfter(c, ns).confirmed) :
                 \/ x \in ToSet(confirmed[c])
                 \/ \E i \in 1 .. Len(ns) : x = ns[i] /\ log[x].channel = c
<1> DEFINE v == ViewAfter(c, ns)
<1>1. /\ View(c) \in AView /\ View(c).confirmed = confirmed[c]
      /\ View(c).pending = pending[c]
  BY ViewIsTyped
<1>2. ns \in Seq(Nat)
  <2>1. Seq(1 .. Len(log)) \subseteq Seq(Nat)
    BY SeqOfSuperset DEF TypeOK, ServerTypes
  <2> QED
    BY <2>1
<1>3. \A x : x \in ToSet(v.pending) <=>
                     /\ x \in ToSet(View(c).pending)
                     /\ \A i \in 1 .. Len(ns) :
                           log[ns[i]].channel = c => log[ns[i]].clientSeq # x
  BY <1>1, <1>2, PendingAfter
<1>4. \A j \in 1 .. Len(v.confirmed) :
              LET x == v.confirmed[j]
              IN  \/ \E i \in 1 .. Len(View(c).confirmed) :
                        x = View(c).confirmed[i]
                  \/ \E i \in 1 .. Len(ns) : x = ns[i] /\ log[x].channel = c
  BY <1>1, <1>2, ConfirmedAfter
<1>5. v.confirmed \in Seq(1 .. Len(log)) /\ confirmed[c] \in Seq(1 .. Len(log))
  BY ViewAfterTypes DEF TypeOK, ClientTypes
<1> HIDE DEF v
<1>6. ASSUME NEW x \in ToSet(v.confirmed)
      PROVE  \/ x \in ToSet(confirmed[c])
             \/ \E i \in 1 .. Len(ns) : x = ns[i] /\ log[x].channel = c
  <2>1. PICK j \in 1 .. Len(v.confirmed) : x = v.confirmed[j]
    BY <1>5 DEF ToSet
  <2>2. CASE \E i \in 1 .. Len(View(c).confirmed) : x = View(c).confirmed[i]
    BY <1>1, <1>5, <2>2 DEF ToSet
  <2> QED
    BY <1>4, <2>1, <2>2
<1> QED
  BY <1>1, <1>3, <1>6 DEF v

\* What the client reads does to the pending actions.
LEMMA ReceivePending ==
    ASSUME TypeOK,
           ReceiveAction \/ ReceiveReplay \/ ReceiveSnapshots \/ ReceiveInitialized,
           NEW c \in Channels
    PROVE  ToSet(pending'[c]) \subseteq ToSet(pending[c])
<1>1. toClient[transport] # <<>>
  BY DEF ReceiveAction, ReceiveReplay, ReceiveSnapshots, ReceiveInitialized, ClientReads
<1>2. ToSet(<<>>) = {}
  BY DEF ToSet
<1>3. CASE ReceiveAction
  <2>1. <<Incoming.seq>> \in Seq(1 .. Len(log))
    BY <1>1, <1>3, IncomingMembers DEF ReceiveAction, ClientReads
  <2>2. pending'[c] = ViewAfter(c, <<Incoming.seq>>).pending
    BY <1>3 DEF ReceiveAction, ReceiveEnvelopes
  <2> QED
    BY <2>1, <2>2, PendingShrinks
<1>4. CASE ReceiveReplay
  <2>1. Incoming.seqs \in Seq(1 .. Len(log))
    BY <1>1, <1>4, IncomingMembers DEF ReceiveReplay, ClientReads
  <2>2. pending'[c] = <<>> \/ pending'[c] = ViewAfter(c, Incoming.seqs).pending
    BY <1>4 DEF ReceiveReplay
  <2> QED
    BY <1>2, <2>1, <2>2, PendingShrinks
<1>5. CASE ReceiveSnapshots
  <2>1. pending'[c] = <<>> \/ pending'[c] = pending[c]
    BY <1>5 DEF ReceiveSnapshots
  <2> QED
    BY <1>2, <2>1
<1>6. CASE ReceiveInitialized
  BY <1>6 DEF ReceiveInitialized
<1> QED
  BY <1>3, <1>4, <1>5, <1>6

\* The client gives out the next one.
LEMMA ClientNumbered ==
    ASSUME Base, Base', Numbered,
           \/ \E c \in Channels : ClientDispatch(c)
           \/ Lose \/ TransportClosed \/ AttemptReconnect \/ ReceiveNotFound
           \/ ReceiveAction \/ ReceiveReplay \/ ReceiveSnapshots
           \/ ReceiveInitialized
    PROVE  Numbered'
<1>1. /\ TypeOK /\ clientSeq \in Nat /\ transport \in Transports
      /\ outbox \in Seq(Action)
  BY DEF Base, TypeOK, ClientTypes
<1>2. ASSUME UNCHANGED <<log, clientSeq, dispatchQueue>>,
             \A m \in ToSet(outbox') : m \in ToSet(outbox),
             \A t \in Transports : \A m \in ToSet(toServer'[t]) :
               \/ m \in ToSet(toServer[t])
               \/ m.kind = "dispatch" => m.clientSeq \in 0 .. clientSeq,
             \A c \in Channels : ToSet(pending'[c]) \subseteq ToSet(pending[c])
      PROVE  Numbered'
  BY <1>1, <1>2, NumberedKept
<1>3. ASSUME NEW c \in Channels, ClientDispatch(c)
      PROVE  Numbered'
  <2> DEFINE n == clientSeq + 1
             x == Dispatch(c, n)
  <2>1. /\ clientSeq' = n /\ n \in Nat /\ clientSeq <= n
        /\ pending' = [pending EXCEPT ![c] = Append(@, n)]
        /\ \/ toServer' = SentToServer(transport, <<x>>) /\ outbox' = outbox
           \/ outbox' = Append(outbox, x) /\ toServer' = toServer
        /\ UNCHANGED <<log, dispatchQueue>>
    BY <1>1, <1>3 DEF ClientDispatch, serverVars
  <2>2. x \in Action /\ x \in Request /\ x.clientSeq = n /\ x.clientSeq \in 0 .. clientSeq'
    <3>1. x \in Action /\ x.clientSeq = n
      BY <2>1, DispatchType
    <3> QED
      BY <2>1, <3>1 DEF Request
  <2> HIDE DEF x
  <2>3. \A m \in ToSet(outbox') : m \in ToSet(outbox) \/ m.clientSeq \in 0 .. clientSeq'
    <3>1. ToSet(Append(outbox, x)) = ToSet(outbox) \cup {x}
      BY <1>1, MembersOf
    <3> QED
      BY <2>1, <2>2, <3>1
  <2>4. ASSUME NEW t \in Transports, NEW m \in ToSet(toServer'[t])
        PROVE  m \in ToSet(toServer[t]) \/ m.clientSeq \in 0 .. clientSeq'
    <3>1. <<x>> \in Seq(Request) /\ ToSet(<<x>>) = {x}
      BY <2>2 DEF ToSet
    <3>2. ToSet(SentToServer(transport, <<x>>)[t]) \subseteq ToSet(toServer[t]) \cup ToSet(<<x>>)
      <4> DEFINE w == <<x>>
      <4>1. w \in Seq(Request)
        BY <3>1
      <4> HIDE DEF w
      <4>2. ToSet(SentToServer(transport, w)[t]) \subseteq ToSet(toServer[t]) \cup ToSet(w)
        BY <1>1, <4>1, WrittenMembers
      <4> QED
        BY <4>2 DEF w
    <3> QED
      BY <2>1, <2>2, <2>4, <3>1, <3>2
  <2>5. \A d \in Channels : \A k \in ToSet(pending'[d]) :
           k \in ToSet(pending[d]) \/ k \in 1 .. clientSeq'
    <3> SUFFICES ASSUME NEW d \in Channels, NEW k \in ToSet(pending'[d])
                 PROVE  k \in ToSet(pending[d]) \/ k \in 1 .. clientSeq'
      OBVIOUS
    <3>1. pending \in [Channels -> Seq(Nat)] /\ pending[d] \in Seq(Nat)
      BY <1>1 DEF TypeOK, ClientTypes
    <3>2. pending'[d] = IF d = c THEN Append(pending[d], n) ELSE pending[d]
      BY <2>1, <3>1
    <3>3. ToSet(Append(pending[d], n)) = ToSet(pending[d]) \cup {n}
      BY <3>1, MembersOf
    <3>4. n \in 1 .. clientSeq'
      BY <1>1, <2>1
    <3> HIDE DEF n
    <3> QED
      BY <3>2, <3>3, <3>4
  <2> HIDE DEF n
  <2>6. /\ \A e \in ToSet(log') : e \in ToSet(log)
        /\ \A q \in ToSet(dispatchQueue') : q \in ToSet(dispatchQueue)
        /\ clientSeq' \in Nat /\ clientSeq <= clientSeq'
    BY <2>1
  <2> QED
    BY <1>1, <2>3, <2>4, <2>5, <2>6, NumberedKept
<1>4. CASE Lose
  BY <1>2, <1>4 DEF Lose, serverVars, clientVars
<1>5. CASE TransportClosed
  BY <1>2, <1>5 DEF TransportClosed, serverVars
<1>6. CASE AttemptReconnect
  <2>1. UNCHANGED <<log, clientSeq, dispatchQueue, outbox, pending>>
    BY <1>6 DEF AttemptReconnect, serverVars
  <2>2. \A t \in Transports : \A m \in ToSet(toServer'[t]) :
               \/ m \in ToSet(toServer[t])
               \/ m.kind = "dispatch" => m.clientSeq \in 0 .. clientSeq
    <3> DEFINE x == [kind |-> "reconnect", seq |-> serverSeq]
    <3>1. \A t \in Transports : toServer'[t] = toServer[t] \/ toServer'[t] = <<x>>
      BY <1>1, <1>6 DEF AttemptReconnect, TypeOK, TransportTypes
    <3>2. ToSet(<<x>>) = {x} /\ x.kind # "dispatch"
      BY DEF ToSet
    <3> HIDE DEF x
    <3> QED
      BY <3>1, <3>2
  <2> QED
    BY <1>2, <2>1, <2>2
<1>7. CASE ReceiveNotFound
  <2>1. UNCHANGED <<log, clientSeq, dispatchQueue, outbox, pending>>
    BY <1>7 DEF ReceiveNotFound, serverVars
  <2>2. ASSUME NEW t \in Transports, NEW m \in ToSet(toServer'[t])
        PROVE  m \in ToSet(toServer[t]) \/ m.kind # "dispatch"
    <3> DEFINE x == [kind |-> "initialize"]
               w == <<x>>
    <3>1. w \in Seq(Request) /\ ToSet(w) = {x} /\ x.kind # "dispatch"
      <4>1. x \in Request
        BY DEF Request
      <4> QED
        BY <4>1 DEF ToSet
    <3>2. toServer' = SentToServer(transport, w)
      BY <1>7 DEF ReceiveNotFound
    <3> HIDE DEF w, x
    <3>3. ToSet(SentToServer(transport, w)[t]) \subseteq ToSet(toServer[t]) \cup ToSet(w)
      BY <1>1, <3>1, WrittenMembers
    <3> QED
      BY <2>2, <3>1, <3>2, <3>3
  <2> QED
    BY <1>2, <2>1, <2>2
<1>8. CASE ReceiveAction
  <2>1. UNCHANGED <<log, clientSeq, dispatchQueue, outbox, toServer>>
    BY <1>8 DEF ReceiveAction, serverVars
  <2>2. \A c \in Channels : ToSet(pending'[c]) \subseteq ToSet(pending[c])
    BY <1>1, <1>8, ReceivePending
  <2> QED
    BY <1>2, <2>1, <2>2
<1>9. CASE ReceiveReplay \/ ReceiveSnapshots \/ ReceiveInitialized
  <2>1. /\ UNCHANGED <<log, clientSeq, dispatchQueue>>
        /\ toServer' = SentToServer(transport, Drained(pending'))
        /\ outbox' = <<>>
    BY <1>9 DEF ReceiveReplay, ReceiveSnapshots, ReceiveInitialized,
                DrainAfterReconnect, serverVars
  <2>2. \A c \in Channels : ToSet(pending'[c]) \subseteq ToSet(pending[c])
    BY <1>1, <1>9, ReceivePending
  <2>3. pending' \in [Channels -> Seq(Nat)]
    BY DEF Base, TypeOK, ClientTypes
  <2>4. Drained(pending') \in Seq(Request)
    <3>1. Drained(pending') \in Seq(Action)
      BY <1>1, <2>3, DrainedType
    <3>2. Seq(Action) \subseteq Seq(Request)
      BY SeqOfSuperset DEF Request
    <3> QED
      BY <3>1, <3>2
  <2>5. \A m \in ToSet(Drained(pending')) : m.clientSeq \in 0 .. clientSeq
    <3> SUFFICES ASSUME NEW m \in ToSet(Drained(pending'))
                 PROVE  m.clientSeq \in 0 .. clientSeq
      OBVIOUS
    <3>1. \/ m \in ToSet(outbox)
          \/ m.channel \in Resent /\ m.clientSeq \in ToSet(pending'[m.channel])
      BY <1>1, <2>3, DrainedMembers
    <3>2. CASE m \in ToSet(outbox)
      BY <3>2 DEF Numbered
    <3>3. CASE m.channel \in Resent /\ m.clientSeq \in ToSet(pending'[m.channel])
      <4>1. m.channel \in Channels
        BY <3>3, ConstantsAssumption
      <4>2. m.clientSeq \in 1 .. clientSeq
        BY <2>2, <3>3, <4>1 DEF Numbered
      <4> QED
        BY <1>1, <4>2
    <3> QED
      BY <3>1, <3>2, <3>3
  <2>6. ASSUME NEW t \in Transports, NEW m \in ToSet(toServer'[t])
        PROVE  m \in ToSet(toServer[t]) \/ m.clientSeq \in 0 .. clientSeq
    <3>1. ToSet(SentToServer(transport, Drained(pending'))[t]) \subseteq
             ToSet(toServer[t]) \cup ToSet(Drained(pending'))
      BY <1>1, <2>4, WrittenMembers
    <3> QED
      BY <2>1, <2>5, <2>6, <3>1
  <2>7. \A m \in ToSet(outbox') : m \in ToSet(outbox)
    BY <2>1 DEF ToSet
  <2> QED
    BY <1>2, <2>1, <2>2, <2>6, <2>7
<1> QED
  BY <1>3, <1>4, <1>5, <1>6, <1>7, <1>8, <1>9

\* No number has been given out at first.
LEMMA NumberedInit == Init => Numbered
<1> SUFFICES ASSUME Init PROVE Numbered
  OBVIOUS
<1>1. ToSet(<<>>) = {}
  BY DEF ToSet
<1> QED
  BY <1>1 DEF Init, Numbered

\* Every step keeps the numbers among those given out.
LEMMA NumberedNext ==
    ASSUME Base, Base', Numbered, [Next]_vars
    PROVE  Numbered'
<1>1. CASE UNCHANGED vars
  BY <1>1 DEF vars, Numbered
<1> QED
  BY <1>1, Steps, ServerNumbered, ClientNumbered

\* The step does not change the message stream other than by adding what a
\* server that remembers the client sends, or by taking something away.
Recalls ==
    \A t \in Transports :
        /\ \A m \in ToSet(toClient'[t]) :
              m \in ToSet(toClient[t]) \/ m.kind \notin {"notFound", "initialized"}
        /\ \A m \in ToSet(toServer'[t]) :
              m \in ToSet(toServer[t]) \/ m.kind # "initialize"

\* A step that sends no initialize and nothing that answers one.
LEMMA RememberedKept ==
    ASSUME Remembered, Recalls, known' = known,
           state' = state \/ state' # "initializing"
    PROVE  Remembered'
BY DEF Remembered, Recalls

\* A step that shows nothing more and makes nothing pending.
LEMMA ShownKept ==
    ASSUME Base, ShownOnce, UNCHANGED confirmed,
           \A k \in 1 .. Len(log) : log'[k] = log[k],
           \A c \in Resent : ToSet(pending'[c]) \subseteq ToSet(pending[c])
    PROVE  ShownOnce'
<1>1. Resent \subseteq Channels
  BY ConstantsAssumption
<1>2. ASSUME NEW c \in Resent, NEW k \in ToSet(confirmed[c])
      PROVE  k \in 1 .. Len(log)
  <2>1. confirmed[c] \in Seq(1 .. Len(log))
    BY <1>1 DEF Base, TypeOK, ClientTypes
  <2> QED
    BY <1>2, <2>1, MembersOf
<1> QED
  BY <1>2 DEF ShownOnce

\* The envelopes there are do not change.
LEMMA EmitKeepsLog ==
    ASSUME TypeOK, NEW c, NEW n, NEW r, Emit(toClient, c, n, r)
    PROVE  \A k \in 1 .. Len(log) : log'[k] = log[k]
BY DEF TypeOK, ServerTypes, Emit

\* An envelope is no answer to an initialize.
LEMMA EmitRecalls ==
    ASSUME TypeOK, NEW c, NEW n, NEW r, Emit(toClient, c, n, r),
           \A t \in Transports : ToSet(toServer'[t]) \subseteq ToSet(toServer[t])
    PROVE  Recalls
<1>1. ActionMessage(Len(log) + 1).kind = "action"
  BY DEF ActionMessage
<1> QED
  BY <1>1, EmittedMembers DEF Recalls

\* While the client is not forgotten.
LEMMA ServerRemembers ==
    ASSUME Base, Remembered, ShownOnce, ~forgotten',
           \/ \E c \in Channels : ServerAction(c)
           \/ QueueStep \/ Forget
           \/ \E t \in Transports :
                 \/ ReceiveDispatch(t) \/ ReceiveReconnect(t)
                 \/ ReceiveInitialize(t) \/ AnswerReconnect(t) \/ ServerClosed(t)
                 \/ \E c \in Channels : RestoreChannel(t, c)
    PROVE  Remembered' /\ ShownOnce'
<1>1. TypeOK
  BY DEF Base
<1>2. ASSUME UNCHANGED clientVars, UNCHANGED known,
             \/ /\ \E c, n, r : Emit(toClient, c, n, r)
                /\ \A t \in Transports : ToSet(toServer'[t]) \subseteq ToSet(toServer[t])
             \/ UNCHANGED log /\ Recalls
      PROVE  Remembered' /\ ShownOnce'
  <2>1. Recalls
    BY <1>1, <1>2, EmitRecalls
  <2>2. \A k \in 1 .. Len(log) : log'[k] = log[k]
    BY <1>1, <1>2, EmitKeepsLog
  <2>3. UNCHANGED <<confirmed, pending, state>>
    BY <1>2 DEF clientVars
  <2>4. Remembered'
    BY <1>2, <2>1, <2>3, RememberedKept
  <2>5. ShownOnce'
    BY <2>2, <2>3, ShownKept
  <2> QED
    BY <2>4, <2>5
<1>3. ASSUME NEW c \in Channels, ServerAction(c)
      PROVE  Remembered' /\ ShownOnce'
  BY <1>2, <1>3 DEF ServerAction
<1>4. ASSUME NEW m, DispatchNow(toClient, m)
      PROVE  \E c, n, r : Emit(toClient, c, n, r)
  BY <1>4 DEF DispatchNow
<1>5. CASE QueueStep
  <2>1. /\ UNCHANGED clientVars /\ UNCHANGED known /\ UNCHANGED toServer
        /\ DispatchNow(toClient, Head(dispatchQueue).action) \/ UNCHANGED <<log, toClient>>
    BY <1>5 DEF QueueStep
  <2>2. UNCHANGED toClient => Recalls
    BY <2>1 DEF Recalls
  <2> QED
    BY <1>2, <1>4, <2>1, <2>2
<1>6. CASE Forget
  BY <1>6 DEF Forget
<1>7. ASSUME NEW t \in Transports, toServer[t] # <<>>,
             toServer' = [toServer EXCEPT ![t] = Tail(@)]
      PROVE  /\ Head(toServer[t]) \in ToSet(toServer[t])
             /\ \A u \in Transports : ToSet(toServer'[u]) \subseteq ToSet(toServer[u])
  BY <1>1, <1>7, WrittenMembers
<1>8. ASSUME NEW t \in Transports, ReceiveDispatch(t)
      PROVE  Remembered' /\ ShownOnce'
  <2>1. /\ UNCHANGED clientVars /\ UNCHANGED known
        /\ DispatchNow(toClient, Head(toServer[t])) \/ UNCHANGED <<log, toClient>>
        /\ toServer[t] # <<>> /\ toServer' = [toServer EXCEPT ![t] = Tail(@)]
    BY <1>8 DEF ReceiveDispatch, ServerReads
  <2>2. \A u \in Transports : ToSet(toServer'[u]) \subseteq ToSet(toServer[u])
    BY <1>7, <2>1
  <2>3. UNCHANGED toClient => Recalls
    BY <2>2 DEF Recalls
  <2> QED
    BY <1>2, <1>4, <2>1, <2>2, <2>3
<1>9. ASSUME NEW t \in Transports, NEW a \in Message(Len(log)),
             a.kind \notin {"notFound", "initialized"},
             toClient' = SentToClient(t, <<a>>),
             \A u \in Transports : ToSet(toServer'[u]) \subseteq ToSet(toServer[u])
      PROVE  Recalls
  <2> SUFFICES ASSUME NEW u \in Transports
               PROVE  ToSet(toClient'[u]) \subseteq ToSet(toClient[u]) \cup {a}
    BY <1>9 DEF Recalls
  <2>1. ToSet(SentToClient(t, <<a>>)[u]) =
           IF u = t /\ open[t] THEN ToSet(toClient[u]) \cup {a} ELSE ToSet(toClient[u])
    BY <1>1, <1>9, WrittenMembers
  <2> QED
    BY <1>9, <2>1
<1>10. ASSUME NEW job, NEW S
       PROVE  Answer(job, S).kind \notin {"notFound", "initialized"}
  BY DEF Answer
<1>11. ASSUME NEW t \in Transports, ReceiveReconnect(t)
       PROVE  Remembered' /\ ShownOnce'
  <2> DEFINE all == [NewJob(Head(toServer[t]).seq) EXCEPT !.snapshots = Now]
             a == Answer(all, Channels)
  <2>1. /\ UNCHANGED clientVars /\ UNCHANGED known /\ UNCHANGED log
        /\ toServer[t] # <<>> /\ toServer' = [toServer EXCEPT ![t] = Tail(@)]
        /\ Head(toServer[t]).kind = "reconnect"
    BY <1>11 DEF ReceiveReconnect, ServerReads
  <2>2. \A u \in Transports : ToSet(toServer'[u]) \subseteq ToSet(toServer[u])
    BY <1>7, <2>1
  <2>3. toClient' = SentToClient(t, <<a>>) \/ UNCHANGED toClient
    BY <1>11 DEF ReceiveReconnect, Remembered, NewJob, Now
  <2>4. a \in Message(Len(log))
    <3>1. Head(toServer[t]) \in Request
      BY <1>1, <2>1, ReadTypes
    <3>2. Head(toServer[t]).seq \in Nat
      BY <2>1, <3>1, RequestMembers
    <3>3. all \in Job(Len(log))
      BY <1>1, <3>2, NewJobTypes
    <3> HIDE DEF all
    <3> QED
      BY <1>1, <3>3, AnswerType
  <2>5. a.kind \notin {"notFound", "initialized"}
    BY <1>10
  <2> HIDE DEF a, all
  <2>6. Recalls
    <3>1. CASE UNCHANGED toClient
      BY <2>2, <3>1 DEF Recalls
    <3>2. CASE toClient' = SentToClient(t, <<a>>)
      BY <1>9, <2>2, <2>4, <2>5, <3>2
    <3> QED
      BY <2>3, <3>1, <3>2
  <2> QED
    BY <1>2, <2>1, <2>6
<1>12. ASSUME NEW t \in Transports, ReceiveInitialize(t)
       PROVE  FALSE
  <2>1. toServer[t] # <<>> /\ Head(toServer[t]).kind = "initialize"
    BY <1>12 DEF ReceiveInitialize, ServerReads
  <2>2. Head(toServer[t]) \in ToSet(toServer[t])
    BY <1>1, <2>1, WrittenMembers
  <2> QED
    BY <2>1, <2>2 DEF Remembered
<1>13. ASSUME NEW t \in Transports, AnswerReconnect(t)
       PROVE  Remembered' /\ ShownOnce'
  <2> DEFINE a == Answer(restoring[t], subscriptions[t])
  <2>1. /\ UNCHANGED clientVars /\ UNCHANGED <<known, log, toServer>>
        /\ toClient' = SentToClient(t, <<a>>)
    BY <1>13 DEF AnswerReconnect
  <2>2. a \in Message(Len(log)) /\ a.kind \notin {"notFound", "initialized"}
    <3>1. restoring[t] \in Job(Len(log)) /\ subscriptions[t] \in SUBSET Channels
      BY <1>1 DEF TypeOK, ServerTypes
    <3> QED
      BY <1>1, <1>10, <3>1, AnswerType
  <2> HIDE DEF a
  <2>3. Recalls
    BY <1>9, <2>1, <2>2
  <2> QED
    BY <1>2, <2>1, <2>3
<1>14. ASSUME NEW t \in Transports, ServerClosed(t)
       PROVE  Remembered' /\ ShownOnce'
  <2>1. UNCHANGED clientVars /\ UNCHANGED <<known, log, toClient>>
    BY <1>14 DEF ServerClosed
  <2>2. ASSUME NEW u \in Transports
        PROVE  ToSet(toServer'[u]) \subseteq ToSet(toServer[u])
    <3>1. toServer'[u] = toServer[u] \/ toServer'[u] = <<>>
      BY <1>1, <1>14 DEF ServerClosed, TypeOK, TransportTypes
    <3>2. ToSet(<<>>) = {}
      BY DEF ToSet
    <3> QED
      BY <3>1, <3>2
  <2>3. Recalls
    BY <2>1, <2>2 DEF Recalls
  <2> QED
    BY <1>2, <2>1, <2>3
<1>15. ASSUME NEW t \in Transports, NEW c \in Channels, RestoreChannel(t, c)
       PROVE  Remembered' /\ ShownOnce'
  <2>1. UNCHANGED clientVars /\ UNCHANGED <<known, log, toClient, toServer>>
    BY <1>15 DEF RestoreChannel
  <2>2. Recalls
    BY <2>1 DEF Recalls
  <2> QED
    BY <1>2, <2>1, <2>2
<1> QED
  BY <1>3, <1>5, <1>6, <1>8, <1>11, <1>12, <1>13, <1>14, <1>15

\* An envelope settles the actions it answers before they could be shown
\* twice.
LEMMA ReceivedOnce ==
    ASSUME TypeOK, ShownOnce, NEW ns \in Seq(1 .. Len(log)), NEW c \in Resent
    PROVE  \A k \in ToSet(ViewAfter(c, ns).confirmed) :
              log[k].clientSeq \notin ToSet(ViewAfter(c, ns).pending)
<1> DEFINE v == ViewAfter(c, ns)
<1>1. c \in Channels
  BY ConstantsAssumption
<1>2. /\ ToSet(v.pending) \subseteq ToSet(pending[c])
      /\ \A i \in 1 .. Len(ns) : log[ns[i]].channel = c =>
            log[ns[i]].clientSeq \notin ToSet(v.pending)
      /\ \A x \in ToSet(v.confirmed) :
            \/ x \in ToSet(confirmed[c])
            \/ \E i \in 1 .. Len(ns) : x = ns[i] /\ log[x].channel = c
  BY <1>1, PendingShrinks
<1> HIDE DEF v
<1> QED
  BY <1>2 DEF ShownOnce, v

\* The client's steps, as long as the server has not forgotten it.
LEMMA ClientRemembers ==
    ASSUME Base, Base', Numbered, Remembered, ShownOnce,
           \/ \E c \in Channels : ClientDispatch(c)
           \/ Lose \/ TransportClosed \/ AttemptReconnect \/ ReceiveNotFound
           \/ ReceiveAction \/ ReceiveReplay \/ ReceiveSnapshots
           \/ ReceiveInitialized
    PROVE  Remembered' /\ ShownOnce'
<1>1. /\ TypeOK /\ clientSeq \in Nat /\ transport \in Transports
      /\ Resent \subseteq Channels
  BY ConstantsAssumption DEF Base, TypeOK, ClientTypes
<1>2. toClient[transport] # <<>> => Incoming.kind \notin {"notFound", "initialized"}
  BY <1>1, WrittenMembers DEF Remembered
<1>3. ~ReceiveNotFound /\ ~ReceiveInitialized
  BY <1>2 DEF ReceiveNotFound, ReceiveInitialized, ClientReads
<1>4. /\ \A k \in 1 .. Len(log) : log'[k] = log[k]
      /\ log' = log /\ known' = known
  BY DEF ClientDispatch, Lose, TransportClosed, AttemptReconnect, ReceiveNotFound,
         ReceiveAction, ReceiveReplay, ReceiveSnapshots, ReceiveInitialized, serverVars
<1>5. ASSUME NEW w \in Seq(Request), toServer' = SentToServer(transport, w),
             NEW t \in Transports
      PROVE  ToSet(toServer'[t]) \subseteq ToSet(toServer[t]) \cup ToSet(w)
  BY <1>1, <1>5, WrittenMembers
<1>6. ASSUME toClient[transport] # <<>>, toClient' = Consumed, NEW t \in Transports
      PROVE  ToSet(toClient'[t]) \subseteq ToSet(toClient[t])
  BY <1>1, <1>6, WrittenMembers
<1>7. ASSUME NEW c \in Channels, ClientDispatch(c)
      PROVE  Remembered' /\ ShownOnce'
  <2> DEFINE n == clientSeq + 1
             x == Dispatch(c, n)
             w == <<x>>
  <2>1. /\ pending' = [pending EXCEPT ![c] = Append(@, n)]
        /\ toServer' = SentToServer(transport, w) \/ UNCHANGED toServer
        /\ UNCHANGED <<toClient, state, confirmed>>
    BY <1>1, <1>7 DEF ClientDispatch
  <2>2. w \in Seq(Request) /\ ToSet(w) = {x} /\ x.kind = "dispatch"
    <3>1. x \in Action /\ x.kind = "dispatch"
      BY <1>1, DispatchType
    <3>2. x \in Request
      BY <3>1 DEF Request
    <3> HIDE DEF x
    <3> QED
      BY <3>1, <3>2 DEF ToSet
  <2> HIDE DEF w, x
  <2>3. Recalls
    BY <1>5, <2>1, <2>2 DEF Recalls
  <2>4. Remembered'
    BY <1>4, <2>1, <2>3, RememberedKept
  <2>5. ShownOnce'
    <3> SUFFICES ASSUME NEW d \in Resent, NEW k \in ToSet(confirmed[d])
                 PROVE  log[k].clientSeq \notin ToSet(pending'[d])
      BY <1>4, <2>1 DEF ShownOnce
    <3>1. pending[d] \in Seq(Nat) /\ pending \in [Channels -> Seq(Nat)]
          /\ confirmed[d] \in Seq(1 .. Len(log)) /\ log \in Seq(Envelope)
      BY <1>1 DEF TypeOK, ClientTypes, ServerTypes
    <3>2. ToSet(pending'[d]) \subseteq ToSet(pending[d]) \cup {n}
      <4>1. pending'[d] = IF d = c THEN Append(pending[d], n) ELSE pending[d]
        BY <1>1, <2>1, <3>1
      <4>2. ToSet(Append(pending[d], n)) = ToSet(pending[d]) \cup {n}
        BY <3>1, MembersOf
      <4> QED
        BY <4>1, <4>2
    <3>3. k \in 1 .. Len(log)
      BY <3>1, MembersOf
    <3>4. log[k] \in ToSet(log)
      BY <3>1, <3>3 DEF ToSet
    <3>5. log[k].clientSeq \in 0 .. clientSeq
      BY <3>4 DEF Numbered
    <3>6. log[k].clientSeq # n
      BY <1>1, <3>5
    <3>7. log[k].clientSeq \notin ToSet(pending[d])
      BY DEF ShownOnce
    <3> QED
      BY <3>2, <3>6, <3>7
  <2> QED
    BY <2>4, <2>5
<1>8. CASE Lose
  <2>1. UNCHANGED <<toServer, toClient, state, confirmed, pending>>
    BY <1>8 DEF Lose, clientVars
  <2>2. Recalls
    BY <2>1 DEF Recalls
  <2> QED
    BY <1>4, <2>1, <2>2, RememberedKept, ShownKept
<1>9. CASE TransportClosed
  <2>1. UNCHANGED <<toServer, confirmed, pending>> /\ state' = "waiting"
    BY <1>9 DEF TransportClosed
  <2>2. Recalls
    <3>1. \A t \in Transports : toClient'[t] = toClient[t] \/ toClient'[t] = <<>>
      BY <1>1, <1>9 DEF TransportClosed, TypeOK, TransportTypes
    <3>2. ToSet(<<>>) = {}
      BY DEF ToSet
    <3> QED
      BY <2>1, <3>1, <3>2 DEF Recalls
  <2> QED
    BY <1>4, <2>1, <2>2, RememberedKept, ShownKept
<1>10. CASE AttemptReconnect
  <2>1. UNCHANGED <<toClient, confirmed, pending>> /\ state' = "reconnecting"
    BY <1>10 DEF AttemptReconnect
  <2>2. Recalls
    <3> DEFINE x == [kind |-> "reconnect", seq |-> serverSeq]
    <3>1. \A t \in Transports : toServer'[t] = toServer[t] \/ toServer'[t] = <<x>>
      BY <1>1, <1>10 DEF AttemptReconnect, TypeOK, TransportTypes
    <3>2. ToSet(<<x>>) = {x} /\ x.kind # "initialize"
      BY DEF ToSet
    <3> HIDE DEF x
    <3> QED
      BY <2>1, <3>1, <3>2 DEF Recalls
  <2> QED
    BY <1>4, <2>1, <2>2, RememberedKept, ShownKept
<1>11. CASE ReceiveAction
  <2>1. /\ toClient[transport] # <<>> /\ toClient' = Consumed
        /\ UNCHANGED <<state, toServer>>
    BY <1>11 DEF ReceiveAction, ClientReads
  <2>2. Recalls
    BY <1>6, <2>1 DEF Recalls
  <2>3. <<Incoming.seq>> \in Seq(1 .. Len(log))
    BY <1>1, <1>11, <2>1, IncomingMembers DEF ReceiveAction, ClientReads
  <2>4. \A c \in Resent : /\ confirmed'[c] = ViewAfter(c, <<Incoming.seq>>).confirmed
                          /\ pending'[c] = ViewAfter(c, <<Incoming.seq>>).pending
    BY <1>1, <1>11 DEF ReceiveAction, ReceiveEnvelopes
  <2>5. ShownOnce'
    BY <1>1, <1>4, <2>3, <2>4, ReceivedOnce DEF ShownOnce
  <2> QED
    BY <1>4, <2>1, <2>2, <2>5, RememberedKept
<1>12. ASSUME DrainAfterReconnect, toClient[transport] # <<>>, toClient' = Consumed
       PROVE  Remembered'
  <2>1. pending' \in [Channels -> Seq(Nat)]
    BY DEF Base, TypeOK, ClientTypes
  <2>2. /\ toServer' = SentToServer(transport, Drained(pending'))
        /\ state' = "connected"
    BY <1>12 DEF DrainAfterReconnect
  <2>3. Drained(pending') \in Seq(Request)
    <3>1. Drained(pending') \in Seq(Action)
      BY <1>1, <2>1, DrainedType
    <3>2. Seq(Action) \subseteq Seq(Request)
      BY SeqOfSuperset DEF Request
    <3> QED
      BY <3>1, <3>2
  <2>4. \A m \in ToSet(Drained(pending')) : m.kind = "dispatch"
    BY <1>1, <2>1, DrainedMembers
  <2>5. Recalls
    BY <1>5, <1>6, <1>12, <2>2, <2>3, <2>4 DEF Recalls
  <2> QED
    BY <1>4, <2>2, <2>5, RememberedKept
<1>13. CASE ReceiveReplay
  <2>1. /\ toClient[transport] # <<>> /\ toClient' = Consumed
        /\ DrainAfterReconnect /\ Incoming.kind = "replay"
    BY <1>13 DEF ReceiveReplay, ClientReads
  <2>2. Incoming.seqs \in Seq(1 .. Len(log))
    BY <1>1, <2>1, IncomingMembers
  <2>3. \A c \in Resent :
           /\ confirmed'[c] = ViewAfter(c, Incoming.seqs).confirmed
           /\ \/ pending'[c] = ViewAfter(c, Incoming.seqs).pending
              \/ pending'[c] = <<>>
    BY <1>1, <1>13 DEF ReceiveReplay
  <2>4. ToSet(<<>>) = {}
    BY DEF ToSet
  <2>5. ShownOnce'
    BY <1>1, <1>4, <2>2, <2>3, <2>4, ReceivedOnce DEF ShownOnce
  <2> QED
    BY <1>12, <2>1, <2>5
<1>14. CASE ReceiveSnapshots
  <2>1. /\ toClient[transport] # <<>> /\ toClient' = Consumed
        /\ DrainAfterReconnect
    BY <1>14 DEF ReceiveSnapshots, ClientReads
  <2>2. \A c \in Resent : \/ pending'[c] = <<>>
                          \/ confirmed'[c] = confirmed[c] /\ pending'[c] = pending[c]
    BY <1>1, <1>14 DEF ReceiveSnapshots
  <2>3. ToSet(<<>>) = {}
    BY DEF ToSet
  <2>4. ShownOnce'
    BY <1>4, <2>2, <2>3 DEF ShownOnce
  <2> QED
    BY <1>12, <2>1, <2>4
<1> QED
  BY <1>3, <1>7, <1>8, <1>9, <1>10, <1>11, <1>13, <1>14

\* The first state shows nothing.
LEMMA OwnInit == Init => OwnInv
<1> SUFFICES ASSUME Init PROVE Remembered /\ ShownOnce
  BY NumberedInit DEF OwnInv
<1>1. ToSet(<<>>) = {}
  BY DEF ToSet
<1>2. Remembered
  BY <1>1 DEF Init, Remembered
<1>3. ShownOnce
  BY <1>1, ConstantsAssumption DEF Init, ShownOnce
<1> QED
  BY <1>2, <1>3

\* That the server was without a record once remains so.
LEMMA ForgottenStays ==
    ASSUME [Next]_vars
    PROVE  forgotten => forgotten'
BY Steps DEF ServerAction, ClientDispatch, QueueStep, Forget, ReceiveDispatch,
   ReceiveReconnect, ReceiveInitialize, AnswerReconnect, ServerClosed, RestoreChannel,
   Lose, TransportClosed, AttemptReconnect, ReceiveNotFound, ReceiveAction,
   ReceiveReplay, ReceiveSnapshots, ReceiveInitialized, vars, serverVars

\* Every step keeps the invariant.
LEMMA OwnNext ==
    ASSUME Base, Base', OwnInv, [Next]_vars
    PROVE  OwnInv'
<1>1. Numbered'
  BY NumberedNext DEF OwnInv
<1>2. ASSUME ~forgotten'
      PROVE  Remembered' /\ ShownOnce'
  <2>1. Numbered /\ Remembered /\ ShownOnce
    BY <1>2, ForgottenStays DEF OwnInv
  <2>2. CASE UNCHANGED vars
    BY <2>1, <2>2 DEF vars, Remembered, ShownOnce
  <2> QED
    BY <1>2, <2>1, <2>2, Steps, ServerRemembers, ClientRemembers
<1> QED
  BY <1>1, <1>2 DEF OwnInv

\* The user never sees an action of their own twice: as long as the server
\* has
\* not forgotten the client, _reconcile and applyReconnectSnapshot leave
\* nothing
\* pending that is part of the confirmed state.
THEOREM OwnShownOnce == Spec => []OwnActionShownOnce
<1>1. Base /\ OwnInv /\ [Next]_vars => Base' /\ OwnInv'
  BY BaseNext, OwnNext
<1>2. Init => Base /\ OwnInv
  BY BaseInit, OwnInit
<1>3. Base /\ OwnInv => OwnActionShownOnce
  <2> SUFFICES ASSUME Base, OwnInv, ~forgotten, NEW c \in Resent,
                      NEW i \in 1 .. Len(confirmed[c])
               PROVE  log[confirmed[c][i]].clientSeq \notin ToSet(pending[c])
    BY DEF OwnActionShownOnce
  <2>1. confirmed[c] \in Seq(1 .. Len(log))
    BY ConstantsAssumption DEF Base, TypeOK, ClientTypes
  <2>2. confirmed[c][i] \in ToSet(confirmed[c])
    BY <2>1 DEF ToSet
  <2> QED
    BY <2>2 DEF OwnInv, ShownOnce
<1> QED
  BY <1>1, <1>2, <1>3, PTL DEF Spec

-----------------------------------------------------------------------------
(* Streams of envelopes                                                    *)

\* Sequences of the same elements are the same.
LEMMA SameSequence ==
    ASSUME NEW T, NEW s \in Seq(T), NEW t \in Seq(T), Len(s) = Len(t),
           \A i \in 1 .. Len(s) : s[i] = t[i]
    PROVE  s = t
OBVIOUS

\* What is left of a sequence without its first element.
LEMMA TailOf ==
    ASSUME NEW T, NEW s \in Seq(T), s # <<>>
    PROVE  /\ Tail(s) \in Seq(T) /\ Head(s) = s[1] /\ Len(s) \in Nat \ {0}
           /\ Len(Tail(s)) = Len(s) - 1
           /\ \A i \in 1 .. Len(s) - 1 : Tail(s)[i] = s[i + 1]
OBVIOUS

\* A sequence with one element more.
LEMMA AppendOf ==
    ASSUME NEW T, NEW s \in Seq(T), NEW x \in T
    PROVE  /\ Append(s, x) \in Seq(T)
           /\ Len(Append(s, x)) = Len(s) + 1 /\ Len(s) \in Nat
           /\ \A i \in 1 .. Len(s) + 1 : Append(s, x)[i] = IF i <= Len(s) THEN s[i] ELSE x
OBVIOUS

\* Two sequences, one behind the other.
LEMMA ConcatOf ==
    ASSUME NEW T, NEW s \in Seq(T), NEW t \in Seq(T)
    PROVE  /\ s \o t \in Seq(T)
           /\ Len(s \o t) = Len(s) + Len(t) /\ Len(s) \in Nat /\ Len(t) \in Nat
           /\ \A i \in 1 .. Len(s) + Len(t) : (s \o t)[i] = IF i <= Len(s) THEN s[i] ELSE t[i - Len(s)]
OBVIOUS

\* A run of envelopes is read from its start and grows at its end.
LEMMA RunSteps ==
    ASSUME NEW m \in Nat, NEW n \in Nat, m <= n
    PROVE  /\ Run(m, n) \in Seq([kind : {"action"}, seq : Nat])
           /\ Run(m, m) = <<>>
           /\ Run(m, n) # <<>> => /\ m < n
                                  /\ Head(Run(m, n)) = ActionMessage(m + 1)
                                  /\ Tail(Run(m, n)) = Run(m + 1, n)
           /\ Append(Run(m, n), ActionMessage(n + 1)) = Run(m, n + 1)
<1> DEFINE T == [kind : {"action"}, seq : Nat]
<1>1. \A i \in Nat : ActionMessage(i) \in T
  BY DEF ActionMessage
<1> HIDE DEF T
<1>2. ASSUME NEW i \in Nat, NEW j \in Nat, i <= j
      PROVE  /\ Run(i, j) \in Seq(T) /\ Len(Run(i, j)) = j - i
             /\ \A l \in 1 .. j - i : Run(i, j)[l] = ActionMessage(i + l)
  <2>1. \A l \in 1 .. j - i : i + l \in Nat
    OBVIOUS
  <2> QED
    BY <1>1, <1>2, <2>1 DEF Run
<1>3. Run(m, m) = <<>>
  BY DEF Run
<1>4. ASSUME Run(m, n) # <<>>
      PROVE  /\ m < n
             /\ Head(Run(m, n)) = ActionMessage(m + 1)
             /\ Tail(Run(m, n)) = Run(m + 1, n)
  <2>1. m < n
    BY <1>3, <1>4
  <2> DEFINE r == Run(m, n)
             q == Run(m + 1, n)
  <2>2. /\ r \in Seq(T) /\ r # <<>> /\ Len(r) = n - m
        /\ \A l \in 1 .. n - m : r[l] = ActionMessage(m + l)
    BY <1>2, <1>4
  <2>3. /\ q \in Seq(T) /\ Len(q) = n - (m + 1)
        /\ \A l \in 1 .. n - (m + 1) : q[l] = ActionMessage((m + 1) + l)
    BY <1>2, <2>1
  <2> HIDE DEF r, q
  <2>4. /\ Tail(r) \in Seq(T) /\ Head(r) = r[1]
        /\ Len(Tail(r)) = Len(r) - 1
        /\ \A l \in 1 .. Len(r) - 1 : Tail(r)[l] = r[l + 1]
    BY <2>2, TailOf
  <2>5. ASSUME NEW l \in 1 .. n - (m + 1)
        PROVE  Tail(r)[l] = q[l]
    <3>1. /\ l \in 1 .. Len(r) - 1 /\ l + 1 \in 1 .. n - m
          /\ m + (l + 1) = (m + 1) + l
      BY <2>2
    <3> QED
      BY <2>2, <2>3, <2>4, <3>1
  <2>6. Len(Tail(r)) = n - (m + 1)
    BY <2>2, <2>4
  <2>7. Tail(r) = q
    BY <2>3, <2>4, <2>5, <2>6, SameSequence
  <2>8. Head(r) = ActionMessage(m + 1)
    BY <2>1, <2>2, <2>4
  <2> QED
    BY <2>1, <2>7, <2>8 DEF r, q
<1>5. Append(Run(m, n), ActionMessage(n + 1)) = Run(m, n + 1)
  <2> DEFINE r == Run(m, n)
             q == Run(m, n + 1)
             x == ActionMessage(n + 1)
  <2>1. /\ r \in Seq(T) /\ Len(r) = n - m
        /\ \A l \in 1 .. n - m : r[l] = ActionMessage(m + l)
    BY <1>2
  <2>2. /\ q \in Seq(T) /\ Len(q) = (n + 1) - m
        /\ \A l \in 1 .. (n + 1) - m : q[l] = ActionMessage(m + l)
    BY <1>2
  <2>3. x \in T
    BY <1>1
  <2> HIDE DEF r, q
  <2>4. x = ActionMessage(n + 1)
    OBVIOUS
  <2> HIDE DEF x
  <2>5. /\ Append(r, x) \in Seq(T)
        /\ Len(Append(r, x)) = Len(r) + 1
        /\ \A l \in 1 .. Len(r) + 1 :
              Append(r, x)[l] = IF l <= Len(r) THEN r[l] ELSE x
    BY <2>1, <2>3, AppendOf
  <2>6. ASSUME NEW l \in 1 .. (n + 1) - m
        PROVE  Append(r, x)[l] = q[l]
    <3>1. l \in 1 .. Len(r) + 1 /\ Len(r) = n - m
      BY <2>1
    <3>2. CASE l <= n - m
      <4>1. l \in 1 .. n - m
        BY <3>2
      <4> QED
        BY <2>1, <2>2, <2>5, <3>1, <3>2, <4>1
    <3>3. CASE ~(l <= n - m)
      <4>1. m + l = n + 1
        BY <3>3
      <4>2. Append(r, x)[l] = x
        BY <2>5, <3>1, <3>3
      <4> QED
        BY <2>2, <2>4, <4>1, <4>2
    <3> QED
      BY <3>2, <3>3
  <2>7. Len(Append(r, x)) = (n + 1) - m
    BY <2>1, <2>5
  <2>8. Append(r, x) = q
    BY <2>2, <2>5, <2>6, <2>7, SameSequence
  <2> QED
    BY <2>8 DEF r, q, x
<1> QED
  BY <1>2, <1>3, <1>4, <1>5 DEF T

\* The same after an answer.
LEMMA AnsweredSteps ==
    ASSUME NEW a, NEW m \in Nat, NEW n \in Nat, m <= n
    PROVE  /\ Head(<<a>> \o Run(m, n)) = a
           /\ Tail(<<a>> \o Run(m, n)) = Run(m, n)
           /\ <<a>> \o Run(m, n) # <<>>
           /\ Append(<<a>> \o Run(m, n), ActionMessage(n + 1)) = <<a>> \o Run(m, n + 1)
           /\ <<a>> \o Run(m, m) = <<a>>
<1> DEFINE K == [kind : {"action"}, seq : Nat]
           T == {a} \cup K
           r == Run(m, n)
           w == <<a>>
           x == ActionMessage(n + 1)
<1>1. r \in Seq(K) /\ x \in K /\ Run(m, m) = <<>>
      /\ Append(r, x) = Run(m, n + 1)
  BY RunSteps DEF ActionMessage
<1> HIDE DEF K
<1>2. r \in Seq(T)
  <2>1. K \subseteq T
    OBVIOUS
  <2>2. Seq(K) \subseteq Seq(T)
    BY <2>1, SeqOfSuperset
  <2> QED
    BY <1>1, <2>2
<1>3. w \in Seq(T) /\ Len(w) = 1 /\ w[1] = a
  OBVIOUS
<1>4. x \in T
  BY <1>1
<1> HIDE DEF r, w, T, x
<1>5. w \o Append(r, x) = Append(w \o r, x)
  BY <1>2, <1>3, <1>4, ConcatAppend
<1> DEFINE s == w \o r
<1>6. /\ s \in Seq(T) /\ Len(s) = 1 + Len(r) /\ Len(r) \in Nat
      /\ \A i \in 1 .. 1 + Len(r) : s[i] = IF i <= 1 THEN w[i] ELSE r[i - 1]
  <2>1. w \in Seq(T) /\ r \in Seq(T)
    BY <1>2, <1>3
  <2> HIDE DEF s
  <2>2. /\ w \o r \in Seq(T)
        /\ Len(w \o r) = Len(w) + Len(r) /\ Len(w) \in Nat /\ Len(r) \in Nat
        /\ \A i \in 1 .. Len(w) + Len(r) :
              (w \o r)[i] = IF i <= Len(w) THEN w[i] ELSE r[i - Len(w)]
    BY <2>1, ConcatOf, Zenon
  <2>3. s = w \o r /\ Len(w) = 1
    BY <1>3 DEF s
  <2> QED
    BY <2>2, <2>3
<1> HIDE DEF s
<1>7. s # <<>>
  BY <1>6
<1>8. /\ Tail(s) \in Seq(T) /\ Head(s) = s[1]
      /\ Len(Tail(s)) = Len(s) - 1
      /\ \A i \in 1 .. Len(s) - 1 : Tail(s)[i] = s[i + 1]
  BY <1>6, <1>7, TailOf
<1>9. Head(s) = a
  BY <1>3, <1>6, <1>8
<1>10. Tail(s) = r
  <2>1. ASSUME NEW i \in 1 .. Len(r)
        PROVE  Tail(s)[i] = r[i]
    <3>1. i + 1 \in 1 .. 1 + Len(r) /\ ~(i + 1 <= 1) /\ (i + 1) - 1 = i
          /\ i \in 1 .. Len(s) - 1
      BY <1>6
    <3> QED
      BY <1>6, <1>8, <3>1
  <2>2. Len(Tail(s)) = Len(r)
    BY <1>6, <1>8
  <2> QED
    BY <1>2, <1>8, <2>1, <2>2, SameSequence
<1>11. w \o <<>> = w
  BY <1>3
<1> QED
  BY <1>1, <1>5, <1>7, <1>9, <1>10, <1>11 DEF r, w, x, s

-----------------------------------------------------------------------------
(* Answers                                                                 *)

\* Answer a brings the client up to k.
Brings(a, k) ==
    \/ /\ state = "reconnecting"
       /\ a = [kind |-> "replay", seqs |-> Consecutive(serverSeq, k), missing |-> {}]
    \/ /\ state = "reconnecting"
       /\ a = [kind |-> "snapshot", seqs |-> [c \in Channels |-> k]]
    \/ /\ state = "initializing"
       /\ a = [kind |-> "initialized", seq |-> k]

\* The replay buffer starts at some number.
LEMMA OldestBufferedType ==
    ASSUME TypeOK
    PROVE  OldestBuffered \in Int
<1>1. CASE log = <<>>
  BY <1>1 DEF OldestBuffered
<1>2. CASE log # <<>>
  <2> DEFINE b == Len(log) - ReplayCapacity + 1
  <2>1. b \in Int
    BY ConstantsAssumption DEF TypeOK, ServerTypes
  <2> HIDE DEF b
  <2>2. \E x \in {1, b} : \A y \in {1, b} : x >= y
    BY <2>1
  <2>3. Max({1, b}) \in {1, b}
    BY <2>2 DEF Max
  <2> QED
    BY <1>2, <2>1, <2>3 DEF OldestBuffered, b
<1> QED
  BY <1>1, <1>2

\* A replay brings everything that was missed.
LEMMA ReplayedAll ==
    ASSUME TypeOK, NEW m \in 0 .. Len(log), CanReplay(m)
    PROVE  Replayed(m, Channels) = Consecutive(m, Len(log))
<1> DEFINE N == Len(log)
           S == {n \in 1 .. Len(log) : /\ n > m /\ n >= OldestBuffered
                                       /\ log[n].channel \in Channels}
<1>1. N \in Nat /\ m \in Nat /\ m <= N /\ OldestBuffered \in Int
  BY OldestBufferedType DEF TypeOK, ServerTypes
<1>2. ASSUME NEW i \in 1 .. N
      PROVE  log[i].channel \in Channels
  <2>1. log[i] \in Envelope
    BY DEF TypeOK, ServerTypes
  <2> QED
    BY <2>1 DEF Envelope
<1>3. \A i \in 1 .. N : i \in S <=> i > m
  BY <1>1, <1>2 DEF CanReplay
<1>4. Replayed(m, Channels) = Selected(Numbers(N), S)
  BY DEF Replayed
<1> HIDE DEF S, N
<1> QED
  BY <1>1, <1>3, <1>4, SelectedAbove DEF N

\* What answers a reconnection when everything is in memory.
LEMMA WarmAnswer ==
    ASSUME TypeOK, state = "reconnecting"
    PROVE  Brings(Answer([NewJob(serverSeq) EXCEPT !.snapshots = Now], Channels), Len(log))
<1> DEFINE job == [NewJob(serverSeq) EXCEPT !.snapshots = Now]
<1>1. serverSeq \in 0 .. Len(log)
  BY DEF TypeOK, ClientTypes
<1>2. /\ job.canReplay = CanReplay(serverSeq) /\ job.snapshots = Now
      /\ job.lastSeen = serverSeq
  BY DEF NewJob
<1> HIDE DEF job
<1>3. CASE CanReplay(serverSeq)
  <2>1. Replayed(serverSeq, Channels) = Consecutive(serverSeq, Len(log))
    BY <1>1, <1>3, ReplayedAll
  <2>2. Channels \ Channels = {}
    OBVIOUS
  <2> QED
    BY <1>2, <1>3, <2>1, <2>2 DEF Answer, Brings, job
<1>4. CASE ~CanReplay(serverSeq)
  BY <1>2, <1>4 DEF Answer, Brings, Now, job
<1> QED
  BY <1>3, <1>4

-----------------------------------------------------------------------------
(* Everything in memory, transports in order                               *)

\* Every resource of a reconnection is in memory, and no transport is read
\* before what is left of an earlier one.
Warm == Restore = "warm" /\ ~Overtakes

\* Transport t is one of the connections of the client.
Attached(t) == t \in ToSet(connections)

\* An open transport has been fed with everything up to envelope n.
Fed(n) == open[transport] => n = Len(log) /\ Attached(transport)

\* What the client has yet to read, when it is connected,
Live ==
    /\ state = "connected"
    /\ \E n \in serverSeq .. Len(log) :
          toClient[transport] = Run(serverSeq, n) /\ Fed(n)

\* when its request has been answered,
Answered ==
    \E k \in serverSeq .. Len(log) : \E n \in k .. Len(log) :
        /\ toClient[transport] = <<Incoming>> \o Run(k, n)
        /\ Brings(Incoming, k)
        /\ Fed(n)

\* when the server has forgotten it,
Unknown ==
    /\ state = "reconnecting"
    /\ toClient[transport] = <<[kind |-> "notFound"]>>
    /\ ~Attached(transport)
    /\ toServer[transport] = <<>>

\* and when its request has yet to be read.
Asking ==
    /\ toClient[transport] = <<>>
    /\ state # "connected"
    /\ open[transport] =>
          /\ ~Attached(transport)
          /\ \/ /\ state = "reconnecting"
                /\ toServer[transport] = <<[kind |-> "reconnect", seq |-> serverSeq]>>
             \/ /\ state = "initializing"
                /\ toServer[transport] = <<[kind |-> "initialize"]>>

\* What the client has yet to read, in all.
Arriving == Live \/ Answered \/ Unknown \/ Asking

\* A transport carries one request of the client, and actions once the server
\* has attached it.
Shape(t) ==
    toServer[t] # <<>> =>
        \/ ~Attached(t) /\ \E m : m.kind # "dispatch" /\ toServer[t] = <<m>>
        \/ Attached(t) /\ \A m \in ToSet(toServer[t]) : m.kind = "dispatch"

\* The transports are attached one after the other, and each is subscribed to
\* every channel.
Attachments ==
    /\ Increasing(connections)
    /\ \A t \in Transports :
          /\ restoring[t] = NoJob
          /\ Shape(t)
          /\ Attached(t) /\ open[t] => subscriptions[t] = Channels
          /\ Attached(t) => \A u \in Transports : u < t => toServer[u] = <<>>

\* What the client shows of a channel is its history up to what it has seen.
Confirmed == \A c \in Channels : confirmed[c] = History(log, c, serverSeq)

\* The inductive invariant.
WarmInv == Attachments /\ Confirmed /\ Arriving

-----------------------------------------------------------------------------
(* Attachments                                                             *)

\* A step that attaches nothing.
LEMMA AttachmentsKept ==
    ASSUME Base, Attachments, UNCHANGED <<connections, restoring>>,
           \A t \in Transports :
               /\ open'[t] => open[t] \/ ~Attached(t)
               /\ open[t] => subscriptions'[t] = subscriptions[t]
               /\ \/ toServer'[t] = toServer[t]
                  \/ /\ Shape(t)'
                     /\ toServer[t] = <<>> => toServer'[t] = <<>> \/ t >= transport
    PROVE  Attachments'
<1>1. \A t \in Transports : Attached(t)' <=> Attached(t)
  BY DEF Attached
<1>2. \A t \in Transports : Attached(t) => t <= transport
  <2>1. Transports \subseteq Nat /\ transport \in Nat
    BY DEF Base, TypeOK, ClientTypes, Transports
  <2> QED
    BY <2>1 DEF Base, InTurn, Unused, Attached
<1>3. ASSUME NEW t \in Transports
      PROVE  Shape(t)'
  <2>1. Shape(t)
    BY DEF Attachments
  <2> QED
    BY <1>1, <2>1 DEF Shape
<1>4. ASSUME NEW t \in Transports, Attached(t), NEW u \in Transports, u < t
      PROVE  toServer'[u] = <<>>
  <2>1. toServer[u] = <<>>
    BY <1>4 DEF Attachments
  <2>2. ~(u >= transport)
    <3>1. u \in Nat /\ t \in Nat /\ transport \in Nat
      BY DEF Base, TypeOK, ClientTypes, Transports
    <3> QED
      BY <1>2, <1>4, <3>1
  <2> QED
    BY <2>1, <2>2
<1>5. Increasing(connections)' /\ \A t \in Transports : restoring'[t] = NoJob
  BY DEF Attachments, Increasing
<1>6. ASSUME NEW t \in Transports, Attached(t), open'[t]
      PROVE  subscriptions'[t] = Channels
  BY <1>6 DEF Attachments
<1> QED
  BY <1>1, <1>3, <1>4, <1>5, <1>6 DEF Attachments

\* A request is alone on its transport, the actions on an attached one are
\* followed by others.
LEMMA ShapeRead ==
    ASSUME Base, Attachments, NEW t \in Transports, toServer[t] # <<>>
    PROVE  /\ ~Attached(t) => /\ Tail(toServer[t]) = <<>>
                              /\ Head(toServer[t]).kind # "dispatch"
                              /\ toServer[t] = <<Head(toServer[t])>>
           /\ Attached(t) => /\ Head(toServer[t]).kind = "dispatch"
                             /\ \A m \in ToSet(Tail(toServer[t])) : m.kind = "dispatch"
<1>1. Shape(t)
  BY DEF Attachments
<1>2. CASE ~Attached(t)
  <2>1. PICK m : m.kind # "dispatch" /\ toServer[t] = <<m>>
    BY <1>1, <1>2 DEF Shape
  <2>2. Head(<<m>>) = m /\ Tail(<<m>>) = <<>>
    OBVIOUS
  <2> QED
    BY <1>2, <2>1, <2>2
<1>3. CASE Attached(t)
  <2>1. toServer[t] \in Seq(Request)
    BY DEF Base, TypeOK, TransportTypes
  <2>2. Head(toServer[t]) \in ToSet(toServer[t])
        /\ ToSet(Tail(toServer[t])) \subseteq ToSet(toServer[t])
    BY <2>1, MembersOf
  <2> QED
    BY <1>1, <1>3, <2>2 DEF Shape
<1> QED
  BY <1>2, <1>3

\* A transport is attached after those that were attached before.
LEMMA AttachmentsAttach ==
    ASSUME Base, Attachments, NEW t \in Transports, ~Attached(t),
           toServer[t] # <<>>,
           \A u \in Transports : u < t => toServer[u] = <<>>,
           connections' = Append(connections, t),
           subscriptions' = [subscriptions EXCEPT ![t] = Channels],
           toServer' = [toServer EXCEPT ![t] = Tail(@)],
           UNCHANGED <<restoring, open>>
    PROVE  Attachments'
<1>1. connections \in Seq(Transports) /\ Transports \subseteq Nat
  BY DEF Base, TypeOK, ServerTypes, Transports
<1>2. ASSUME NEW i \in 1 .. Len(connections)
      PROVE  connections[i] < t
  <2>1. connections[i] \in Transports /\ Attached(connections[i])
    BY <1>1 DEF Attached, ToSet
  <2>2. connections[i] # t
    BY <2>1
  <2>3. ~(t < connections[i])
    BY <2>1 DEF Attachments
  <2>4. connections[i] \in Nat /\ t \in Nat
    BY <1>1, <2>1
  <2> QED
    BY <2>2, <2>3, <2>4
<1>3. Increasing(Append(connections, t))
  <2> DEFINE a == Append(connections, t)
  <2>1. /\ Len(a) = Len(connections) + 1 /\ Len(connections) \in Nat
        /\ \A i \in 1 .. Len(connections) + 1 :
              a[i] = IF i <= Len(connections) THEN connections[i] ELSE t
    BY <1>1, AppendOf
  <2> HIDE DEF a
  <2>2. ASSUME NEW i \in 1 .. Len(a), NEW j \in 1 .. Len(a), i < j
        PROVE  a[i] < a[j]
    <3>1. i \in 1 .. Len(connections) /\ i <= Len(connections) /\ a[i] = connections[i]
      BY <2>1, <2>2
    <3>2. CASE j <= Len(connections)
      <4>1. j \in 1 .. Len(connections) /\ a[j] = connections[j]
        BY <2>1, <3>2
      <4> QED
        BY <2>2, <3>1, <4>1 DEF Attachments, Increasing
    <3>3. CASE ~(j <= Len(connections))
      <4>1. a[j] = t
        BY <2>1, <3>3
      <4> QED
        BY <1>2, <3>1, <4>1
    <3> QED
      BY <3>2, <3>3
  <2> QED
    BY <2>2 DEF Increasing, a
<1>4. \A u \in Transports : Attached(u)' <=> Attached(u) \/ u = t
  BY AttachedMembers DEF Base, Attached
<1>5. \A u \in Transports : toServer'[u] = IF u = t THEN Tail(toServer[t]) ELSE toServer[u]
  BY DEF Base, TypeOK, TransportTypes
<1>6. Tail(toServer[t]) = <<>>
  BY ShapeRead
<1>7. ASSUME NEW u \in Transports
      PROVE  Shape(u)'
  <2>1. CASE u = t
    BY <1>5, <1>6, <2>1 DEF Shape
  <2>2. CASE u # t
    BY <1>4, <1>5, <2>2 DEF Attachments, Shape
  <2> QED
    BY <2>1, <2>2
<1>8. ASSUME NEW u \in Transports, Attached(u)', open'[u]
      PROVE  subscriptions'[u] = Channels
  <2>1. subscriptions'[u] = IF u = t THEN Channels ELSE subscriptions[u]
    BY DEF Base, TypeOK, ServerTypes
  <2> QED
    BY <1>4, <1>8, <2>1 DEF Attachments
<1>9. ASSUME NEW u \in Transports, Attached(u)', NEW v \in Transports, v < u
      PROVE  toServer'[v] = <<>>
  BY <1>4, <1>5, <1>6, <1>9 DEF Attachments
<1>10. Increasing(connections)' /\ \A u \in Transports : restoring'[u] = NoJob
  <2>1. \A u \in Transports : restoring'[u] = NoJob
    BY DEF Attachments
  <2> QED
    BY <1>3, <2>1 DEF Increasing
<1> QED
  BY <1>7, <1>8, <1>9, <1>10 DEF Attachments

\* A lost transport is detached.
LEMMA AttachmentsClosed ==
    ASSUME Base, Attachments, NEW t \in Transports, ServerClosed(t)
    PROVE  Attachments'
<1>1. /\ ~open[t] /\ UNCHANGED <<restoring, open>>
      /\ connections' = Without(connections, t)
      /\ subscriptions' = [subscriptions EXCEPT ![t] = {}]
      /\ toServer' = [toServer EXCEPT ![t] = <<>>]
  BY DEF ServerClosed, Released
<1>2. \A u \in Transports :
         /\ Attached(u)' <=> Attached(u) /\ u # t
         /\ u # t => toServer'[u] = toServer[u] /\ subscriptions'[u] = subscriptions[u]
         /\ toServer'[t] = <<>>
  BY <1>1, AttachedMembers DEF Base, Attached, TypeOK, ServerTypes, TransportTypes
<1>3. Increasing(connections)'
  <2>1. connections \in Seq(Transports) /\ Transports \subseteq Nat
    BY DEF Base, TypeOK, ServerTypes, Transports
  <2> HIDE DEF Transports
  <2>2. Increasing(Without(connections, t))
    BY <2>1, WithoutRest DEF Attachments
  <2> QED
    BY <1>1, <2>2 DEF Increasing
<1>4. ASSUME NEW u \in Transports
      PROVE  Shape(u)'
  BY <1>2 DEF Attachments, Shape
<1>5. ASSUME NEW u \in Transports, Attached(u)'
      PROVE  /\ open'[u] => subscriptions'[u] = Channels
             /\ \A v \in Transports : v < u => toServer'[v] = <<>>
  BY <1>1, <1>2, <1>5 DEF Attachments
<1>6. \A u \in Transports : restoring'[u] = NoJob
  BY <1>1 DEF Attachments
<1> QED
  BY <1>3, <1>4, <1>5, <1>6 DEF Attachments

\* The server attaches the transports in turn, with all channels.
LEMMA ServerAttachments ==
    ASSUME Warm, Base, Attachments,
           \/ \E c \in Channels : ServerAction(c)
           \/ QueueStep \/ Forget
           \/ \E t \in Transports :
                 \/ ReceiveDispatch(t) \/ ReceiveReconnect(t)
                 \/ ReceiveInitialize(t) \/ AnswerReconnect(t) \/ ServerClosed(t)
                 \/ \E c \in Channels : RestoreChannel(t, c)
    PROVE  Attachments'
<1>1. CASE (\E c \in Channels : ServerAction(c)) \/ QueueStep \/ Forget
  <2>1. UNCHANGED <<connections, restoring, open, subscriptions, toServer>>
    BY <1>1 DEF ServerAction, QueueStep, Forget
  <2> QED
    BY <2>1, AttachmentsKept
<1>2. ASSUME NEW t \in Transports, toServer' = [toServer EXCEPT ![t] = Tail(@)]
      PROVE  \A u \in Transports :
                toServer'[u] = IF u = t THEN Tail(toServer[t]) ELSE toServer[u]
  BY <1>2, Read DEF Base
<1>3. ASSUME NEW t \in Transports, ReceiveDispatch(t)
      PROVE  Attachments'
  <2>1. /\ UNCHANGED <<connections, restoring, open, subscriptions>>
        /\ toServer' = [toServer EXCEPT ![t] = Tail(@)]
        /\ toServer[t] # <<>> /\ Attached(t)
    BY <1>3 DEF ReceiveDispatch, ServerReads, Attached
  <2>2. Shape(t)'
    <3>1. \A m \in ToSet(Tail(toServer[t])) : m.kind = "dispatch"
      BY <2>1, ShapeRead
    <3>2. toServer'[t] = Tail(toServer[t])
      BY <1>2, <2>1
    <3>3. Attached(t)'
      BY <2>1 DEF Attached
    <3> QED
      BY <3>1, <3>2, <3>3 DEF Shape
  <2> QED
    BY <1>2, <2>1, <2>2, AttachmentsKept
<1>4. ASSUME NEW t \in Transports, NEW kind, ServerReads(t, kind), kind # "dispatch"
      PROVE  /\ toServer[t] # <<>> /\ ~Attached(t)
             /\ Tail(toServer[t]) = <<>>
             /\ \A u \in Transports : u < t => toServer[u] = <<>>
  <2>1. toServer[t] # <<>> /\ Head(toServer[t]).kind = kind
    BY <1>4 DEF ServerReads
  <2>2. ~Attached(t) /\ Tail(toServer[t]) = <<>>
    BY <1>4, <2>1, ShapeRead
  <2>3. \A u \in Transports : u < t => u \in 1 .. t - 1
    BY DEF Transports
  <2> QED
    BY <1>4, <2>1, <2>2, <2>3 DEF ServerReads, Warm
<1>5. ASSUME NEW t \in Transports, ReceiveReconnect(t)
      PROVE  Attachments'
  <2>1. /\ toServer[t] # <<>> /\ ~Attached(t)
        /\ Tail(toServer[t]) = <<>>
        /\ \A u \in Transports : u < t => toServer[u] = <<>>
    BY <1>4, <1>5 DEF ReceiveReconnect
  <2>2. /\ toServer' = [toServer EXCEPT ![t] = Tail(@)]
        /\ UNCHANGED <<open, restoring>>
    BY <1>5 DEF ReceiveReconnect, Warm
  <2>3. CASE UNCHANGED <<connections, subscriptions>>
    <3>1. Shape(t)' /\ toServer'[t] = <<>>
      BY <1>2, <2>1, <2>2 DEF Shape
    <3> QED
      BY <1>2, <2>2, <2>3, <3>1, AttachmentsKept
  <2>4. CASE /\ connections' = Append(connections, t)
             /\ subscriptions' = [subscriptions EXCEPT ![t] = Channels]
    BY <2>1, <2>2, <2>4, AttachmentsAttach
  <2> QED
    BY <1>5, <2>3, <2>4 DEF ReceiveReconnect, Warm
<1>6. ASSUME NEW t \in Transports, ReceiveInitialize(t)
      PROVE  Attachments'
  <2>1. /\ toServer[t] # <<>> /\ ~Attached(t)
        /\ \A u \in Transports : u < t => toServer[u] = <<>>
    BY <1>4, <1>6 DEF ReceiveInitialize
  <2> QED
    BY <1>6, <2>1, AttachmentsAttach DEF ReceiveInitialize
<1>7. ASSUME NEW t \in Transports,
             AnswerReconnect(t) \/ \E c \in Channels : RestoreChannel(t, c)
      PROVE  FALSE
  <2>1. restoring[t] = NoJob
    BY DEF Attachments
  <2> QED
    BY <1>7, <2>1 DEF AnswerReconnect, RestoreChannel, NoJob
<1>8. ASSUME NEW t \in Transports, ServerClosed(t)
      PROVE  Attachments'
  BY <1>8, AttachmentsClosed
<1> QED
  BY <1>1, <1>3, <1>5, <1>6, <1>7, <1>8

\* What the client writes to a transport that is open.
LEMMA ActionsWritten ==
    ASSUME Base, Attachments, NEW s \in Seq(Action),
           open[transport] => Attached(transport),
           toServer' = SentToServer(transport, s),
           UNCHANGED <<connections, restoring, open, subscriptions>>
    PROVE  Attachments'
<1>1. TypeOK /\ transport \in Transports
  BY DEF Base, TypeOK, ClientTypes
<1>2. \A u \in Transports :
         toServer'[u] = IF u = transport /\ open[transport] THEN toServer[u] \o s
                        ELSE toServer[u]
  BY <1>1, Written
<1>3. CASE ~open[transport]
  BY <1>2, <1>3, AttachmentsKept
<1>4. CASE open[transport]
  <2>1. Attached(transport)
    BY <1>4
  <2>2. ASSUME NEW m \in ToSet(toServer[transport])
        PROVE  m.kind = "dispatch"
    <3>1. toServer[transport] # <<>>
      BY <2>2 DEF ToSet
    <3> QED
      BY <1>1, <2>1, <2>2, <3>1 DEF Attachments, Shape
  <2>3. \A m \in ToSet(s) : m.kind = "dispatch"
    <3>1. \A m \in ToSet(s) : m \in Action
      BY MembersOf
    <3> QED
      BY <3>1 DEF Action
  <2>4. ToSet(toServer[transport] \o s) = ToSet(toServer[transport]) \cup ToSet(s)
    <3>1. toServer[transport] \in Seq(Request)
      BY <1>1 DEF TypeOK, TransportTypes
    <3>2. s \in Seq(Request)
      BY SeqOfSuperset DEF Request
    <3> QED
      BY <3>1, <3>2, MembersOf
  <2>5. ASSUME NEW t \in Transports, t = transport
        PROVE  Shape(t)' /\ t >= transport
    <3>1. toServer'[t] = toServer[transport] \o s
      BY <1>2, <1>4, <2>5
    <3>2. Attached(t)'
      BY <2>1, <2>5 DEF Attached
    <3>3. t >= transport
      BY <2>5 DEF Transports
    <3> QED
      BY <2>2, <2>3, <2>4, <3>1, <3>2, <3>3 DEF Shape
  <2> QED
    BY <1>2, <2>5, AttachmentsKept
<1> QED
  BY <1>3, <1>4

\* A client that has an answer, or is connected, is attached.
LEMMA ConnectionAttached ==
    ASSUME Base, Arriving, open[transport],
           state = "connected" \/ (toClient[transport] # <<>> /\ Incoming.kind # "notFound")
    PROVE  Attached(transport)
<1>1. CASE Live
  BY <1>1 DEF Live, Fed
<1>2. CASE Answered
  BY <1>2 DEF Answered, Fed
<1>3. CASE Unknown
  <2>1. Incoming = [kind |-> "notFound"]
    BY <1>3 DEF Unknown, Incoming
  <2> QED
    BY <1>3, <2>1 DEF Unknown
<1>4. CASE Asking
  BY <1>4 DEF Asking
<1> QED
  BY <1>1, <1>2, <1>3, <1>4 DEF Arriving

\* The client sends one request per transport, then actions.
LEMMA ClientAttachments ==
    ASSUME Base, Base', Attachments, Arriving,
           \/ \E c \in Channels : ClientDispatch(c)
           \/ Lose \/ TransportClosed \/ AttemptReconnect \/ ReceiveNotFound
           \/ ReceiveAction \/ ReceiveReplay \/ ReceiveSnapshots
           \/ ReceiveInitialized
    PROVE  Attachments'
<1>1. TypeOK /\ transport \in Transports
  BY DEF Base, TypeOK, ClientTypes
<1>2. CASE Lose \/ TransportClosed \/ ReceiveAction
  <2>1. UNCHANGED <<connections, restoring, subscriptions, toServer>>
    BY <1>2 DEF Lose, TransportClosed, ReceiveAction, serverVars
  <2>2. \A t \in Transports : open'[t] => open[t]
    BY <1>1, <1>2 DEF Lose, TransportClosed, ReceiveAction, TypeOK, TransportTypes
  <2> QED
    BY <2>1, <2>2, AttachmentsKept
<1>3. ASSUME NEW c \in Channels, ClientDispatch(c)
      PROVE  Attachments'
  <2>1. UNCHANGED <<connections, restoring, subscriptions, open>>
    BY <1>3 DEF ClientDispatch, serverVars
  <2>2. CASE state = "connected"
    <3> DEFINE s == <<Dispatch(c, clientSeq + 1)>>
    <3>1. toServer' = SentToServer(transport, s)
      BY <1>3, <2>2 DEF ClientDispatch
    <3>2. Dispatch(c, clientSeq + 1) \in Action
      BY <1>1, DispatchType DEF TypeOK, ClientTypes
    <3>3. s \in Seq(Action)
      BY <3>2
    <3> HIDE DEF s
    <3>4. open[transport] => Attached(transport)
      BY <2>2, ConnectionAttached
    <3> QED
      BY <2>1, <3>1, <3>3, <3>4, ActionsWritten
  <2>3. CASE state # "connected"
    <3>1. UNCHANGED toServer
      BY <1>3, <2>3 DEF ClientDispatch
    <3> QED
      BY <2>1, <3>1, AttachmentsKept
  <2> QED
    BY <2>2, <2>3
<1>4. CASE AttemptReconnect
  <2> DEFINE m == [kind |-> "reconnect", seq |-> serverSeq]
  <2>1. UNCHANGED <<connections, restoring, subscriptions>>
    BY <1>4 DEF AttemptReconnect, serverVars
  <2>2. /\ transport' = transport + 1 /\ transport' \in Transports
        /\ \A t \in Transports :
              /\ toServer'[t] = IF t = transport + 1 THEN <<m>> ELSE toServer[t]
              /\ t # transport + 1 => (open'[t] => open[t])
    <3>1. transport' = transport + 1 /\ transport' \in Transports
      BY <1>1, <1>4 DEF AttemptReconnect, Base, TypeOK, ClientTypes
    <3> QED
      BY <1>1, <1>4, <3>1 DEF AttemptReconnect, TypeOK, TransportTypes
  <2>3. ASSUME NEW t \in Transports, t = transport + 1
        PROVE  ~Attached(t) /\ ~Attached(t)' /\ t >= transport
    <3>1. t > transport /\ t >= transport
      BY <1>1, <2>3 DEF Transports
    <3>2. ~Attached(t)
      BY <3>1 DEF Base, InTurn, Unused, Attached
    <3> QED
      BY <2>1, <3>1, <3>2 DEF Attached
  <2>4. m.kind # "dispatch"
    OBVIOUS
  <2> HIDE DEF m
  <2>5. ASSUME NEW t \in Transports, t = transport + 1
        PROVE  Shape(t)'
    <3>1. toServer'[t] = <<m>> /\ ~Attached(t)'
      BY <2>2, <2>3, <2>5
    <3> QED
      BY <2>4, <3>1 DEF Shape
  <2>6. ASSUME NEW t \in Transports
        PROVE  /\ open'[t] => open[t] \/ ~Attached(t)
               /\ \/ toServer'[t] = toServer[t]
                  \/ Shape(t)' /\ t >= transport
    BY <2>2, <2>3, <2>5
  <2> QED
    BY <2>1, <2>6, AttachmentsKept
<1>5. CASE ReceiveNotFound
  <2> DEFINE m == [kind |-> "initialize"]
             s == <<m>>
  <2>1. /\ UNCHANGED <<connections, restoring, subscriptions, open>>
        /\ toServer' = SentToServer(transport, s)
        /\ state = "reconnecting" /\ toClient[transport] # <<>>
        /\ Incoming.kind = "notFound"
    BY <1>5 DEF ReceiveNotFound, serverVars, ClientReads
  <2>2. Unknown
    <3>1. ~Live /\ ~Asking
      BY <2>1 DEF Live, Asking
    <3>2. ~Answered
      BY <2>1 DEF Answered, Brings
    <3> QED
      BY <3>1, <3>2 DEF Arriving
  <2>3. toServer[transport] = <<>> /\ ~Attached(transport)
    BY <2>2 DEF Unknown
  <2>4. m.kind # "dispatch"
    OBVIOUS
  <2>5. <<>> \o s = s
    OBVIOUS
  <2>8. s = <<m>>
    OBVIOUS
  <2> HIDE DEF m, s
  <2>6. \A u \in Transports :
           toServer'[u] = IF u = transport /\ open[transport] THEN s ELSE toServer[u]
    BY <1>1, <2>1, <2>3, <2>5, Written
  <2>7. ASSUME NEW t \in Transports, t = transport, open[transport]
        PROVE  Shape(t)' /\ t >= transport
    <3>1. toServer'[t] = <<m>>
      BY <2>6, <2>7, <2>8
    <3>2. ~Attached(t)'
      BY <2>1, <2>3, <2>7 DEF Attached
    <3>3. t >= transport
      BY <2>7 DEF Transports
    <3> QED
      BY <2>4, <3>1, <3>2, <3>3 DEF Shape
  <2> QED
    BY <2>1, <2>6, <2>7, AttachmentsKept
<1>6. CASE ReceiveReplay \/ ReceiveSnapshots \/ ReceiveInitialized
  <2>1. /\ UNCHANGED <<connections, restoring, subscriptions, open>>
        /\ toServer' = SentToServer(transport, Drained(pending'))
        /\ toClient[transport] # <<>> /\ Incoming.kind # "notFound"
    BY <1>6 DEF ReceiveReplay, ReceiveSnapshots, ReceiveInitialized,
                DrainAfterReconnect, ClientReads, serverVars
  <2>2. Drained(pending') \in Seq(Action)
    <3>1. pending' \in [Channels -> Seq(Nat)]
      BY DEF Base, TypeOK, ClientTypes
    <3> QED
      BY <1>1, <3>1, DrainedType
  <2>3. open[transport] => Attached(transport)
    BY <2>1, ConnectionAttached
  <2> QED
    BY <2>1, <2>2, <2>3, ActionsWritten
<1> QED
  BY <1>2, <1>3, <1>4, <1>5, <1>6

-----------------------------------------------------------------------------
(* What arrives                                                            *)

\* The last connection is that of the current transport, if that one is
\* attached.
LEMMA LastAttached ==
    ASSUME Base, Attachments, connections # <<>>
    PROVE  /\ Last(connections) \in Transports
           /\ Attached(Last(connections))
           /\ Last(connections) = transport <=> Attached(transport)
<1> DEFINE n == Len(connections)
<1>1. /\ connections \in Seq(Transports) /\ transport \in Transports
      /\ Transports \subseteq Nat
  BY DEF Base, TypeOK, ServerTypes, ClientTypes, Transports
<1>2. /\ n \in Nat \ {0} /\ DOMAIN connections = 1 .. n
      /\ \A i \in 1 .. n : connections[i] \in Transports
  BY <1>1
<1>3. Last(connections) = connections[n] /\ n \in 1 .. n
  BY <1>2 DEF Last
<1>4. connections[n] \in Transports /\ Attached(connections[n])
  BY <1>2, <1>3 DEF Attached, ToSet
<1> HIDE DEF n
<1>5. ASSUME Attached(transport)
      PROVE  connections[n] = transport
  <2>1. PICK i \in 1 .. n : connections[i] = transport
    BY <1>2, <1>5 DEF Attached, ToSet
  <2>2. ~(connections[n] > transport)
    BY <1>4 DEF Base, InTurn, Unused, Attached
  <2>3. i < n => transport < connections[n]
    BY <1>3, <2>1 DEF Attachments, Increasing, n
  <2>4. i = n \/ i < n
    BY <1>2
  <2>5. connections[n] \in Nat /\ transport \in Nat
    BY <1>1, <1>4
  <2> QED
    BY <2>1, <2>2, <2>3, <2>4, <2>5
<1> QED
  BY <1>3, <1>4, <1>5

\* An envelope goes to the client on its transport, if that is attached.
LEMMA EmitArrives ==
    ASSUME Base, Attachments, NEW c \in Channels, NEW n, NEW r,
           Emit(toClient, c, n, r)
    PROVE  toClient'[transport] =
              IF open[transport] /\ Attached(transport)
              THEN Append(toClient[transport], ActionMessage(Len(log) + 1))
              ELSE toClient[transport]
<1>1. TypeOK /\ transport \in Transports
  BY DEF Base, TypeOK, ClientTypes
<1>2. toClient'[transport] = IF transport \in Recipients(c) /\ open[transport]
                          THEN Append(toClient[transport], ActionMessage(Len(log) + 1))
                          ELSE toClient[transport]
  BY <1>1, Emitted
<1>3. ASSUME open[transport]
      PROVE  transport \in Recipients(c) <=> Attached(transport)
  <2>1. CASE connections = <<>>
    BY <2>1 DEF Recipients, Attached, ToSet
  <2>2. CASE connections # <<>>
    <3>1. Last(connections) = transport <=> Attached(transport)
      BY <2>2, LastAttached
    <3>2. Attached(transport) => subscriptions[transport] = Channels
      BY <1>1, <1>3 DEF Attachments
    <3> QED
      BY <2>2, <3>1, <3>2 DEF Recipients
  <2> QED
    BY <2>1, <2>2
<1> QED
  BY <1>2, <1>3

\* An envelope more does not change the histories up to those there were.
LEMMA EmitHistory ==
    ASSUME TypeOK, NEW c, NEW n, NEW r, Emit(toClient, c, n, r)
    PROVE  /\ Len(log') = Len(log) + 1 /\ Len(log) \in Nat
           /\ log'[Len(log) + 1] = [channel |-> c, clientSeq |-> n, rejected |-> r]
           /\ \A d : \A k \in 0 .. Len(log) : History(log', d, k) = History(log, d, k)
<1>1. log \in Seq(Envelope) /\ Len(log) \in Nat
  BY DEF TypeOK, ServerTypes
<1>2. log' = Append(log, [channel |-> c, clientSeq |-> n, rejected |-> r])
  BY DEF Emit
<1>3. \A k \in 1 .. Len(log) : log'[k] = log[k]
  BY EmitKeepsLog
<1>4. ASSUME NEW d, NEW k \in 0 .. Len(log)
      PROVE  History(log', d, k) = History(log, d, k)
  <2>1. k \in Nat /\ \A i \in 1 .. k : log'[i] = log[i]
    BY <1>1, <1>3
  <2> QED
    BY <2>1, HistoryDetermined
<1> QED
  BY <1>1, <1>2, <1>4

\* An envelope is emitted.
LEMMA EmitWarm ==
    ASSUME Base, WarmInv, NEW c \in Channels, NEW n, NEW r,
           Emit(toClient, c, n, r),
           UNCHANGED <<open, transport, state, serverSeq, confirmed, connections>>,
           toServer'[transport] = toServer[transport] \/ Attached(transport)
    PROVE  Arriving' /\ Confirmed'
<1>1. TypeOK /\ transport \in Transports /\ serverSeq \in 0 .. Len(log)
  BY DEF Base, TypeOK, ClientTypes
<1>2. /\ Len(log') = Len(log) + 1 /\ Len(log) \in Nat
      /\ \A d : \A k \in 0 .. Len(log) : History(log', d, k) = History(log, d, k)
  BY <1>1, EmitHistory
<1>3. Confirmed'
  BY <1>1, <1>2 DEF WarmInv, Confirmed
<1> DEFINE s == toClient[transport]
<1>10. PICK N \in Nat : N = Len(log)
  BY <1>2
<1>4. toClient'[transport] = IF open[transport] /\ Attached(transport)
                             THEN Append(s, ActionMessage(N + 1)) ELSE s
  BY <1>10, EmitArrives DEF WarmInv
<1>5. Attached(transport)' <=> Attached(transport)
  BY DEF Attached
<1>6. CASE Live
  <2>1. PICK k \in serverSeq .. N : s = Run(serverSeq, k) /\ Fed(k)
    BY <1>6, <1>10 DEF Live
  <2>2. CASE open[transport]
    <3>1. k = N /\ Attached(transport)
      BY <1>10, <2>1, <2>2 DEF Fed
    <3>2. serverSeq \in Nat /\ serverSeq <= N /\ Len(log') = N + 1
      BY <1>1, <1>2, <1>10
    <3>5. Append(Run(serverSeq, N), ActionMessage(N + 1)) = Run(serverSeq, N + 1)
      BY <3>2, RunSteps
    <3>6. toClient'[transport] = Run(serverSeq, N + 1)
      BY <1>4, <2>1, <2>2, <3>1, <3>5
    <3>3. N + 1 \in serverSeq' .. Len(log')
      BY <3>2
    <3>4. Fed(N + 1)'
      BY <3>2, <1>5, <3>1 DEF Fed
    <3> QED
      BY <1>3, <1>6, <3>6, <3>3, <3>4 DEF Live, Arriving
  <2>3. CASE ~open[transport]
    <3>1. toClient'[transport] = Run(serverSeq, k)
      BY <1>4, <2>1, <2>3
    <3>2. k \in serverSeq' .. Len(log')
      BY <1>1, <1>2, <1>10
    <3>3. Fed(k)'
      BY <2>3 DEF Fed
    <3> QED
      BY <1>3, <1>6, <3>1, <3>2, <3>3 DEF Live, Arriving
  <2> QED
    BY <2>2, <2>3
<1>7. CASE Answered
  <2>0. PICK k \in serverSeq .. N : \E m \in k .. N :
           s = <<Incoming>> \o Run(k, m) /\ Brings(Incoming, k) /\ Fed(m)
    BY <1>7, <1>10 DEF Answered
  <2>1. PICK m \in k .. N :
           s = <<Incoming>> \o Run(k, m) /\ Brings(Incoming, k) /\ Fed(m)
    BY <2>0
  <2> DEFINE a == Incoming
  <2>2. ASSUME NEW j \in k .. Len(log'),
               toClient'[transport] = <<a>> \o Run(k, j), Fed(j)'
        PROVE  Answered'
    <3>1. k \in Nat /\ j \in Nat /\ k <= j /\ k \in serverSeq' .. Len(log')
      BY <1>1, <1>2, <1>10, <2>2
    <3>2. Incoming' = a
      BY <2>2, <3>1, AnsweredSteps DEF Incoming
    <3>3. Brings(Incoming, k)'
      BY <2>1, <3>2 DEF Brings
    <3>4. (toClient[transport] = <<Incoming>> \o Run(k, j))'
      BY <2>2, <3>2
    <3> HIDE DEF a
    <3>5. k \in (serverSeq .. Len(log))'
      BY <3>1
    <3> QED
      BY <2>2, <3>3, <3>4, <3>5 DEF Answered
  <2> HIDE DEF a
  <2>3. CASE open[transport]
    <3>1. m = N /\ Attached(transport)
      BY <1>10, <2>1, <2>3 DEF Fed
    <3>2. k \in Nat /\ N \in Nat /\ k <= N /\ Len(log') = N + 1
      BY <1>1, <1>2, <1>10
    <3>6. Append(<<a>> \o Run(k, N), ActionMessage(N + 1)) = <<a>> \o Run(k, N + 1)
      BY <3>2, AnsweredSteps
    <3>3. toClient'[transport] = <<a>> \o Run(k, N + 1)
      BY <1>4, <2>1, <2>3, <3>1, <3>6 DEF a
    <3>4. N + 1 \in k .. Len(log')
      BY <3>2
    <3>5. Fed(N + 1)'
      BY <3>2, <1>5, <3>1 DEF Fed
    <3> QED
      BY <1>3, <2>2, <3>3, <3>4, <3>5 DEF Arriving
  <2>4. CASE ~open[transport]
    <3>1. toClient'[transport] = <<a>> \o Run(k, m)
      BY <1>4, <2>1, <2>4 DEF a
    <3>2. m \in k .. Len(log')
      BY <1>1, <1>2, <1>10
    <3>3. Fed(m)'
      BY <2>4 DEF Fed
    <3> QED
      BY <1>3, <2>2, <3>1, <3>2, <3>3 DEF Arriving
  <2> QED
    BY <2>3, <2>4
<1>8. CASE Unknown
  BY <1>3, <1>4, <1>5, <1>8 DEF Unknown, Arriving
<1>9. CASE Asking
  BY <1>3, <1>4, <1>5, <1>9 DEF Asking, Arriving
<1> QED
  BY <1>3, <1>6, <1>7, <1>8, <1>9 DEF WarmInv, Arriving

\* A step on other streams.
LEMMA ArrivingKept ==
    ASSUME Base, WarmInv,
           UNCHANGED <<log, transport, state, serverSeq, confirmed>>,
           toClient'[transport] = toClient[transport],
           open'[transport] => open[transport] /\ (Attached(transport)' <=> Attached(transport)),
           toServer[transport] = <<>> /\ ~Attached(transport) /\ state # "connected" =>
               toServer'[transport] = <<>> /\ ~Attached(transport)',
           open'[transport] => \/ toServer'[transport] = toServer[transport]
                               \/ Attached(transport) \/ state = "connected"
    PROVE  Arriving' /\ Confirmed'
<1>1. Confirmed'
  BY DEF WarmInv, Confirmed
<1>2. \A n : Fed(n) => Fed(n)'
  BY DEF Fed
<1>3. CASE Live
  BY <1>1, <1>2, <1>3 DEF Live, Arriving
<1>4. CASE Answered
  <2>1. \A a, k : Brings(a, k) => Brings(a, k)'
    BY DEF Brings
  <2>2. Incoming' = Incoming
    BY DEF Incoming
  <2> QED
    BY <1>1, <1>2, <1>4, <2>1, <2>2 DEF Answered, Arriving
<1>5. CASE Unknown
  BY <1>1, <1>5 DEF Unknown, Arriving
<1>6. CASE Asking
  BY <1>1, <1>6 DEF Asking, Arriving
<1> QED
  BY <1>1, <1>3, <1>4, <1>5, <1>6 DEF WarmInv, Arriving

\* A request on the current transport is the one the client is waiting for.
LEMMA RequestRead ==
    ASSUME Warm, Base, WarmInv, open[transport], NEW kind, kind # "dispatch",
           ServerReads(transport, kind)
    PROVE  /\ ~Attached(transport)
           /\ toClient[transport] = <<>>
           /\ Tail(toServer[transport]) = <<>>
           /\ \/ /\ kind = "reconnect" /\ state = "reconnecting"
                 /\ Head(toServer[transport]).seq = serverSeq
              \/ kind = "initialize" /\ state = "initializing"
<1>1. TypeOK /\ transport \in Transports
  BY DEF Base, TypeOK, ClientTypes
<1>2. toServer[transport] # <<>> /\ Head(toServer[transport]).kind = kind
  BY DEF ServerReads
<1>3. ~Attached(transport) /\ Tail(toServer[transport]) = <<>>
  BY <1>1, <1>2, ShapeRead DEF WarmInv
<1>4. Asking
  <2>1. ~Live /\ ~Answered
    BY <1>3 DEF Live, Answered, Fed
  <2>2. ~Unknown
    BY <1>2 DEF Unknown
  <2> QED
    BY <2>1, <2>2 DEF WarmInv, Arriving
<1>5. CASE state = "reconnecting" /\ toServer[transport] = <<[kind |-> "reconnect", seq |-> serverSeq]>>
  <2>1. Head(toServer[transport]) = [kind |-> "reconnect", seq |-> serverSeq]
    BY <1>5
  <2> QED
    BY <1>2, <1>3, <1>4, <1>5, <2>1 DEF Asking
<1>6. CASE state = "initializing" /\ toServer[transport] = <<[kind |-> "initialize"]>>
  <2>1. Head(toServer[transport]) = [kind |-> "initialize"]
    BY <1>6
  <2> QED
    BY <1>2, <1>3, <1>4, <1>6, <2>1 DEF Asking
<1> QED
  BY <1>4, <1>5, <1>6 DEF Asking

\* The answer to that request.
LEMMA AnswerArrives ==
    ASSUME Base, WarmInv, open[transport], toClient[transport] = <<>>,
           NEW a, Brings(a, Len(log)),
           toClient' = SentToClient(transport, <<a>>),
           connections' = Append(connections, transport),
           UNCHANGED <<log, open, transport, state, serverSeq, confirmed>>
    PROVE  Arriving' /\ Confirmed'
<1>1. TypeOK /\ transport \in Transports
  BY DEF Base, TypeOK, ClientTypes
<1>2. PICK N \in Nat : N = Len(log)
  BY <1>1 DEF TypeOK, ServerTypes
<1> DEFINE w == <<a>>
<1>3. <<>> \o w = w /\ Head(w) = a
  OBVIOUS
<1>4. toClient'[transport] = w
  <2> HIDE DEF w
  <2>1. SentToClient(transport, w)[transport] = <<>> \o w
    BY <1>1, Written
  <2> QED
    BY <1>3, <2>1 DEF w
<1>5. w = w \o Run(N, N)
  <2>1. N <= N
    BY <1>2
  <2>2. <<a>> \o Run(N, N) = <<a>>
    BY <2>1, AnsweredSteps
  <2> QED
    BY <2>2
<1>6. Incoming' = a
  BY <1>3, <1>4 DEF Incoming
<1>7. Brings(Incoming, N)'
  BY <1>2, <1>6 DEF Brings
<1>8. Fed(N)'
  <2>1. Attached(transport)'
    BY <1>1, AttachedMembers DEF Attached
  <2> QED
    BY <1>2, <2>1 DEF Fed
<1>9. /\ N \in (serverSeq .. Len(log))'
      /\ N \in (N .. Len(log))'
      /\ (toClient[transport] = <<Incoming>> \o Run(N, N))'
  <2>1. serverSeq \in 0 .. N
    BY <1>1, <1>2 DEF TypeOK, ClientTypes
  <2>2. toClient'[transport] = <<a>> \o Run(N, N)
    BY <1>4, <1>5
  <2>3. (toClient[transport] = <<Incoming>> \o Run(N, N))'
    BY <1>6, <2>2
  <2>4. N \in serverSeq .. N /\ N \in N .. N
    BY <1>2, <2>1
  <2> QED
    BY <1>2, <2>3, <2>4
<1>10. Answered'
  BY <1>7, <1>8, <1>9 DEF Answered
<1> QED
  BY <1>10 DEF Arriving, WarmInv, Confirmed

\* What the server sends continues what is on its way.
LEMMA ServerArrives ==
    ASSUME Warm, Base, WarmInv,
           \/ \E c \in Channels : ServerAction(c)
           \/ QueueStep \/ Forget
           \/ \E t \in Transports :
                 \/ ReceiveDispatch(t) \/ ReceiveReconnect(t)
                 \/ ReceiveInitialize(t) \/ AnswerReconnect(t) \/ ServerClosed(t)
                 \/ \E c \in Channels : RestoreChannel(t, c)
    PROVE  Arriving' /\ Confirmed'
<1>1. TypeOK /\ transport \in Transports /\ Attachments
  BY DEF Base, TypeOK, ClientTypes, WarmInv
<1>2. ASSUME NEW c \in Channels, ServerAction(c)
      PROVE  Arriving' /\ Confirmed'
  BY <1>2, EmitWarm DEF ServerAction, clientVars
<1>3. ASSUME QueueStep
      PROVE  Arriving' /\ Confirmed'
  <2>1. UNCHANGED <<open, transport, state, serverSeq, confirmed, connections, toServer>>
    BY <1>3 DEF QueueStep, clientVars
  <2>2. CASE UNCHANGED <<log, toClient>>
    BY <2>1, <2>2, ArrivingKept DEF Attached
  <2>3. CASE DispatchNow(toClient, Head(dispatchQueue).action)
    <3>1. Head(dispatchQueue).action \in Action
      <4> DEFINE T == [action : Action, prelude : BOOLEAN]
      <4>1. dispatchQueue \in Seq(T) /\ dispatchQueue # <<>>
        BY <1>1, <1>3 DEF QueueStep, TypeOK, ServerTypes
      <4>2. \A q \in T : q.action \in Action
        OBVIOUS
      <4> HIDE DEF T
      <4>3. Head(dispatchQueue) \in T
        BY <4>1, MembersOf
      <4> QED
        BY <4>2, <4>3
    <3>2. PICK c \in Channels, n \in Nat, r \in BOOLEAN : Emit(toClient, c, n, r)
      BY <1>1, <2>3, <3>1, DispatchNowEmits
    <3> QED
      BY <2>1, <3>2, EmitWarm
  <2> QED
    BY <1>3, <2>2, <2>3 DEF QueueStep
<1>4. ASSUME Forget
      PROVE  Arriving' /\ Confirmed'
  BY <1>4, ArrivingKept DEF Forget, clientVars, Attached
<1>5. ASSUME NEW t \in Transports, toServer' = [toServer EXCEPT ![t] = Tail(@)]
      PROVE  toServer'[transport] = IF transport = t THEN Tail(toServer[t])
                                    ELSE toServer[transport]
  BY <1>1, <1>5, Read
<1>6. ASSUME NEW t \in Transports, ReceiveDispatch(t)
      PROVE  Arriving' /\ Confirmed'
  <2>1. /\ UNCHANGED <<open, transport, state, serverSeq, confirmed, connections>>
        /\ toServer' = [toServer EXCEPT ![t] = Tail(@)]
        /\ Attached(t) /\ toServer[t] # <<>>
        /\ Head(toServer[t]).kind = "dispatch"
    BY <1>6 DEF ReceiveDispatch, ServerReads, Attached, clientVars
  <2>2. toServer'[transport] = toServer[transport] \/ Attached(transport)
    BY <1>5, <2>1
  <2>3. CASE UNCHANGED <<log, toClient>>
    BY <2>1, <2>2, <2>3, ArrivingKept DEF Attached
  <2>4. CASE DispatchNow(toClient, Head(toServer[t]))
    <3>1. Head(toServer[t]) \in Action
      BY <1>1, <2>1, ReadTypes, RequestMembers
    <3>2. PICK c \in Channels, n \in Nat, r \in BOOLEAN : Emit(toClient, c, n, r)
      BY <1>1, <2>4, <3>1, DispatchNowEmits
    <3> QED
      BY <2>1, <2>2, <3>2, EmitWarm
  <2> QED
    BY <1>6, <2>3, <2>4 DEF ReceiveDispatch

\* A request on a transport that is lost, or not the current one.
<1>7. ASSUME NEW t \in Transports, toServer[t] # <<>>, t # transport \/ ~open[transport],
             UNCHANGED <<log, transport, state, serverSeq, confirmed, open>>,
             toServer' = [toServer EXCEPT ![t] = Tail(@)],
             connections' = connections \/ connections' = Append(connections, t),
             \E s : toClient' = SentToClient(t, s)
      PROVE  Arriving' /\ Confirmed'
  <2>1. toClient'[transport] = toClient[transport]
    BY <1>1, <1>7, Written
  <2>2. Attached(transport)' <=> Attached(transport) \/ (t = transport /\ connections' # connections)
    <3>1. CASE connections' = connections
      BY <1>7, <3>1 DEF Attached
    <3>2. CASE connections' = Append(connections, t) /\ connections' # connections
      BY <1>1, <1>7, <3>2, AttachedMembers DEF Attached
    <3> QED
      BY <1>7, <3>1, <3>2
  <2>3. t # transport => toServer'[transport] = toServer[transport]
    BY <1>5, <1>7
  <2> QED
    BY <1>7, <2>1, <2>2, <2>3, ArrivingKept
<1>8. ASSUME NEW t \in Transports, ReceiveReconnect(t)
      PROVE  Arriving' /\ Confirmed'
  <2>1. /\ UNCHANGED <<log, transport, state, serverSeq, confirmed, open>>
        /\ toServer' = [toServer EXCEPT ![t] = Tail(@)]
        /\ toServer[t] # <<>> /\ ServerReads(t, "reconnect")
    BY <1>8 DEF ReceiveReconnect, ServerReads, clientVars
  <2>2. \/ /\ toClient' = SentToClient(t, <<[kind |-> "notFound"]>>)
           /\ connections' = connections
        \/ /\ connections' = Append(connections, t)
           /\ toClient' = SentToClient(t,
                 <<Answer([NewJob(Head(toServer[t]).seq) EXCEPT !.snapshots = Now], Channels)>>)
    BY <1>8 DEF ReceiveReconnect, Warm, NewJob, Now
  <2>3. CASE t # transport \/ ~open[transport]
    BY <1>7, <2>1, <2>2, <2>3
  <2>4. CASE t = transport /\ open[transport]
    <3>1. /\ ~Attached(transport) /\ toClient[transport] = <<>>
          /\ Tail(toServer[transport]) = <<>>
          /\ state = "reconnecting"
          /\ Head(toServer[transport]).seq = serverSeq
      BY <2>1, <2>4, RequestRead
    <3>2. CASE /\ toClient' = SentToClient(t, <<[kind |-> "notFound"]>>)
               /\ connections' = connections
      <4> DEFINE w == <<[kind |-> "notFound"]>>
      <4>1. <<>> \o w = w
        OBVIOUS
      <4> HIDE DEF w
      <4>2. toClient'[transport] = w
        BY <1>1, <2>4, <3>1, <3>2, <4>1, Written DEF w
      <4>3. toServer'[transport] = <<>>
        BY <1>5, <2>1, <2>4, <3>1
      <4> QED
        BY <2>1, <3>1, <3>2, <4>2, <4>3 DEF Unknown, Arriving, WarmInv, Confirmed, Attached, w
    <3>3. CASE /\ connections' = Append(connections, t)
               /\ toClient' = SentToClient(t,
                    <<Answer([NewJob(Head(toServer[t]).seq) EXCEPT !.snapshots = Now], Channels)>>)
      <4> DEFINE a == Answer([NewJob(serverSeq) EXCEPT !.snapshots = Now], Channels)
      <4>1. Brings(a, Len(log))
        BY <1>1, <3>1, WarmAnswer
      <4>2. toClient' = SentToClient(transport, <<a>>)
        BY <2>4, <3>1, <3>3
      <4> HIDE DEF a
      <4> QED
        BY <2>1, <2>4, <3>1, <3>3, <4>1, <4>2, AnswerArrives
    <3> QED
      BY <2>2, <3>2, <3>3
  <2> QED
    BY <2>3, <2>4
<1>9. ASSUME NEW t \in Transports, ReceiveInitialize(t)
      PROVE  Arriving' /\ Confirmed'
  <2> DEFINE a == [kind |-> "initialized", seq |-> Len(log)]
  <2>1. /\ UNCHANGED <<log, transport, state, serverSeq, confirmed, open>>
        /\ toServer' = [toServer EXCEPT ![t] = Tail(@)]
        /\ toServer[t] # <<>> /\ ServerReads(t, "initialize")
        /\ connections' = Append(connections, t)
        /\ toClient' = SentToClient(t, <<a>>)
    BY <1>9 DEF ReceiveInitialize, ServerReads, clientVars
  <2>2. CASE t # transport \/ ~open[transport]
    BY <1>7, <2>1, <2>2
  <2>3. CASE t = transport /\ open[transport]
    <3>1. toClient[transport] = <<>> /\ state = "initializing"
      BY <2>1, <2>3, RequestRead
    <3>2. Brings(a, Len(log))
      BY <3>1 DEF Brings
    <3> HIDE DEF a
    <3> QED
      BY <2>1, <2>3, <3>1, <3>2, AnswerArrives
  <2> QED
    BY <2>2, <2>3
<1>10. ASSUME NEW t \in Transports,
             AnswerReconnect(t) \/ \E c \in Channels : RestoreChannel(t, c)
      PROVE  FALSE
  <2>1. restoring[t] = NoJob
    BY <1>1 DEF Attachments
  <2> QED
    BY <1>10, <2>1 DEF AnswerReconnect, RestoreChannel, NoJob
<1>11. ASSUME NEW t \in Transports, ServerClosed(t)
      PROVE  Arriving' /\ Confirmed'
  <2>1. /\ UNCHANGED <<log, transport, state, serverSeq, confirmed, open, toClient>>
        /\ ~open[t]
        /\ connections' = Without(connections, t)
        /\ toServer' = [toServer EXCEPT ![t] = <<>>]
    BY <1>11 DEF ServerClosed, clientVars
  <2>2. /\ Attached(transport)' <=> Attached(transport) /\ transport # t
        /\ toServer'[transport] = IF transport = t THEN <<>> ELSE toServer[transport]
    BY <1>1, <2>1, AttachedMembers DEF Attached, TypeOK, TransportTypes
  <2> QED
    BY <2>1, <2>2, ArrivingKept
<1> QED
  BY <1>2, <1>3, <1>4, <1>6, <1>8, <1>9, <1>10, <1>11

-----------------------------------------------------------------------------
(* What the client makes of it                                             *)

\* The client has caught up with envelope k, and is connected.
LEMMA CaughtUp ==
    ASSUME Base, NEW k \in serverSeq .. Len(log), NEW n \in k .. Len(log), Fed(n),
           toClient[transport] = <<Incoming>> \o Run(k, n),
           toClient' = Consumed, state' = "connected", serverSeq' = k,
           UNCHANGED <<log, transport, open, connections>>
    PROVE  Arriving'
<1>1. TypeOK /\ transport \in Transports /\ serverSeq \in Nat
  BY DEF Base, TypeOK, ClientTypes
<1>2. toClient'[transport] = Run(k, n)
  <2>1. k \in Nat /\ n \in Nat /\ k <= n
    BY <1>1
  <2>2. Tail(<<Incoming>> \o Run(k, n)) = Run(k, n)
    BY <2>1, AnsweredSteps
  <2>3. toClient'[transport] = Tail(toClient[transport])
    BY <1>1, Read
  <2> QED
    BY <2>2, <2>3
<1>3. Fed(n)'
  BY DEF Fed, Attached
<1>4. n \in (serverSeq .. Len(log))'
  OBVIOUS
<1>5. (state = "connected" /\ toClient[transport] = Run(serverSeq, n))'
  BY <1>2
<1> QED
  BY <1>3, <1>4, <1>5 DEF Live, Arriving

\* The client reads an answer.
LEMMA AnswerRead ==
    ASSUME Base, Arriving, toClient[transport] # <<>>,
           Incoming.kind \notin {"action", "notFound"}
    PROVE  \E k \in serverSeq .. Len(log) : \E n \in k .. Len(log) :
               /\ toClient[transport] = <<Incoming>> \o Run(k, n)
               /\ Brings(Incoming, k)
               /\ Fed(n)
<1>1. CASE Live
  <2>1. PICK n \in serverSeq .. Len(log) : toClient[transport] = Run(serverSeq, n)
    BY <1>1 DEF Live
  <2>2. serverSeq \in Nat /\ n \in Nat /\ serverSeq <= n
    BY DEF Base, TypeOK, ClientTypes
  <2>3. Incoming = ActionMessage(serverSeq + 1)
    BY <2>1, <2>2, RunSteps DEF Incoming
  <2> QED
    BY <2>3 DEF ActionMessage
<1>2. CASE Unknown
  <2>1. Incoming = [kind |-> "notFound"]
    BY <1>2 DEF Unknown, Incoming
  <2> QED
    BY <2>1
<1>3. CASE Asking
  BY <1>3 DEF Asking
<1>4. CASE Answered
  BY <1>4 DEF Answered
<1> QED
  BY <1>1, <1>2, <1>3, <1>4 DEF Arriving

\* A connected client reads the envelope after the last it has seen.
LEMMA ActionArrives ==
    ASSUME Base, WarmInv, ReceiveAction
    PROVE  /\ Arriving' /\ Confirmed'
           /\ Incoming.seq = serverSeq + 1 /\ serverSeq' = serverSeq + 1
           /\ serverSeq + 1 \in 1 .. Len(log)
<1>1. TypeOK /\ transport \in Transports /\ serverSeq \in Nat
  BY DEF Base, TypeOK, ClientTypes
<1>2. toClient[transport] # <<>> /\ Incoming.kind = "action"
  BY DEF ReceiveAction, ClientReads
<1>3. Live
  <2>1. ~Answered
    BY <1>2 DEF Answered, Brings
  <2>2. ~Unknown
    <3>1. ASSUME Unknown PROVE Incoming = [kind |-> "notFound"]
      BY <3>1 DEF Unknown, Incoming
    <3> QED
      BY <1>2, <3>1
  <2>3. ~Asking
    BY <1>2 DEF Asking
  <2> QED
    BY <2>1, <2>2, <2>3 DEF WarmInv, Arriving
<1>4. PICK n \in serverSeq .. Len(log) :
         toClient[transport] = Run(serverSeq, n) /\ Fed(n) /\ state = "connected"
  BY <1>3 DEF Live
<1>5. n \in Nat /\ serverSeq <= n
  BY <1>1
<1>6. /\ serverSeq < n
      /\ Incoming = ActionMessage(serverSeq + 1)
      /\ Tail(toClient[transport]) = Run(serverSeq + 1, n)
  BY <1>1, <1>2, <1>4, <1>5, RunSteps DEF Incoming
<1>7. Incoming.seq = serverSeq + 1
  BY <1>6 DEF ActionMessage
<1>8. serverSeq + 1 \in 1 .. Len(log) /\ Len(log) \in Nat
  BY <1>1, <1>5, <1>6 DEF TypeOK, ServerTypes
<1>9. serverSeq' = serverSeq + 1
  <2>1. {serverSeq + 1} \in SUBSET (0 .. Len(log))
    BY <1>8
  <2>2. /\ Seen({serverSeq + 1}) \in {serverSeq} \cup {serverSeq + 1}
        /\ \A x \in {serverSeq} \cup {serverSeq + 1} : x <= Seen({serverSeq + 1})
    BY <1>1, <2>1, SeenType
  <2>3. serverSeq' = Seen({serverSeq + 1})
    BY <1>7 DEF ReceiveAction
  <2>4. serverSeq + 1 <= Seen({serverSeq + 1})
    BY <2>2
  <2>5. Seen({serverSeq + 1}) # serverSeq
    BY <1>1, <2>4
  <2> QED
    BY <2>2, <2>3, <2>5
<1>10. Arriving'
  <2>1. UNCHANGED <<log, transport, open, connections, state>>
    BY DEF ReceiveAction, serverVars
  <2>2. toClient'[transport] = Run(serverSeq + 1, n)
    <3>1. toClient' = Consumed
      BY DEF ReceiveAction
    <3> QED
      BY <1>1, <1>6, <3>1, Read
  <2>3. Fed(n)'
    BY <1>4, <2>1 DEF Fed, Attached
  <2>4. n \in (serverSeq .. Len(log))'
    BY <1>1, <1>5, <1>6, <1>9, <2>1
  <2>5. (state = "connected" /\ toClient[transport] = Run(serverSeq, n))'
    BY <1>4, <1>9, <2>1, <2>2
  <2> QED
    BY <2>3, <2>4, <2>5 DEF Live, Arriving
<1>11. Confirmed'
  <2>1. /\ confirmed' = [c \in Channels |-> ViewAfter(c, <<Incoming.seq>>).confirmed]
        /\ UNCHANGED log
    BY DEF ReceiveAction, ReceiveEnvelopes, serverVars
  <2>2. <<serverSeq + 1>> = Consecutive(serverSeq, serverSeq + 1)
    <3>1. (serverSeq + 1) - serverSeq = 1 /\ \A i \in 1 .. 1 : serverSeq + i = serverSeq + 1
      BY <1>1
    <3>2. Consecutive(serverSeq, serverSeq + 1) = [i \in 1 .. 1 |-> serverSeq + 1]
      BY <3>1 DEF Consecutive
    <3>3. <<serverSeq + 1>> = [i \in 1 .. 1 |-> serverSeq + 1]
      OBVIOUS
    <3> QED
      BY <3>2, <3>3
  <2>3. ASSUME NEW c \in Channels
        PROVE  confirmed'[c] = History(log, c, serverSeq + 1)
    <3>1. View(c) \in AView /\ View(c).confirmed = History(log, c, serverSeq)
      BY <1>1, ViewIsTyped DEF WarmInv, Confirmed
    <3>2. ViewAfter(c, Consecutive(serverSeq, serverSeq + 1)).confirmed
             = History(log, c, serverSeq + 1)
      <4>1. serverSeq + 1 \in Nat /\ serverSeq <= serverSeq + 1
        BY <1>1
      <4> QED
        BY <1>1, <3>1, <4>1, ConfirmedFollows
    <3> QED
      BY <1>7, <2>1, <2>2, <3>2
  <2> QED
    BY <1>9, <2>1, <2>3 DEF Confirmed
<1> QED
  BY <1>7, <1>8, <1>9, <1>10, <1>11

\* Consecutive envelopes above m bring the client, that has seen m, up to k.
LEMMA SeenConsecutive ==
    ASSUME TypeOK, NEW k \in serverSeq .. Len(log)
    PROVE  /\ Seen(ToSet(Consecutive(serverSeq, k))) = k
           /\ Consecutive(serverSeq, k) \in Seq(1 .. Len(log))
<1>1. serverSeq \in Nat /\ k \in Nat /\ serverSeq <= k /\ Len(log) \in Nat /\ k <= Len(log)
  BY DEF TypeOK, ClientTypes, ServerTypes
<1> DEFINE s == Consecutive(serverSeq, k)
           S == ToSet(s)
<1>2. /\ s \in Seq(1 .. Len(log)) /\ Len(s) = k - serverSeq
      /\ \A i \in 1 .. k - serverSeq : s[i] = serverSeq + i
  <2>1. \A i \in 1 .. k - serverSeq : serverSeq + i \in 1 .. Len(log)
    BY <1>1
  <2> QED
    BY <1>1, <2>1 DEF Consecutive
<1> HIDE DEF s
<1>3. S \in SUBSET (0 .. Len(log))
  BY <1>2 DEF ToSet
<1>4. \A x \in S : x <= k
  BY <1>1, <1>2 DEF ToSet
<1>5. serverSeq < k => k \in S
  <2>1. ASSUME serverSeq < k PROVE k \in S
    <3>1. k - serverSeq \in 1 .. k - serverSeq /\ serverSeq + (k - serverSeq) = k
      BY <1>1, <2>1
    <3>2. s[k - serverSeq] = k /\ k - serverSeq \in DOMAIN s
      BY <1>2, <3>1
    <3> QED
      BY <3>2 DEF ToSet
  <2> QED
    BY <2>1
<1> HIDE DEF S
<1>6. /\ Seen(S) \in 0 .. Len(log) /\ Seen(S) \in {serverSeq} \cup S
      /\ \A x \in {serverSeq} \cup S : x <= Seen(S)
  BY <1>3, SeenType
<1>7. Seen(S) = k
  BY <1>1, <1>4, <1>5, <1>6
<1> QED
  BY <1>2, <1>7 DEF s, S

\* A replay takes up where the client left off.
LEMMA ReplayArrives ==
    ASSUME Base, WarmInv, ReceiveReplay
    PROVE  Arriving' /\ Confirmed'
<1>1. TypeOK /\ transport \in Transports /\ serverSeq \in Nat
  BY DEF Base, TypeOK, ClientTypes
<1>2. /\ toClient[transport] # <<>> /\ Incoming.kind = "replay"
      /\ UNCHANGED <<log, transport, open, connections>>
      /\ toClient' = Consumed /\ state' = "connected"
      /\ serverSeq' = Seen(ToSet(Incoming.seqs))
      /\ confirmed' = [c \in Channels |-> ViewAfter(c, Incoming.seqs).confirmed]
  BY DEF ReceiveReplay, ClientReads, DrainAfterReconnect, serverVars
<1>3. PICK k \in serverSeq .. Len(log) : \E n \in k .. Len(log) :
         /\ toClient[transport] = <<Incoming>> \o Run(k, n)
         /\ Brings(Incoming, k)
         /\ Fed(n)
  BY <1>2, AnswerRead DEF WarmInv
<1>4. Incoming.seqs = Consecutive(serverSeq, k)
  BY <1>2, <1>3 DEF Brings
<1>5. serverSeq' = k
  BY <1>1, <1>2, <1>4, SeenConsecutive
<1>6. Arriving'
  BY <1>2, <1>3, <1>5, CaughtUp
<1>7. ASSUME NEW c \in Channels
      PROVE  confirmed'[c] = History(log, c, k)
  <2>1. View(c) \in AView /\ View(c).confirmed = History(log, c, serverSeq)
    BY <1>1, ViewIsTyped DEF WarmInv, Confirmed
  <2>2. k \in Nat /\ serverSeq <= k
    BY <1>1
  <2>3. ViewAfter(c, Consecutive(serverSeq, k)).confirmed = History(log, c, k)
    BY <1>1, <2>1, <2>2, ConfirmedFollows
  <2> QED
    BY <1>2, <1>4, <2>3
<1> QED
  BY <1>2, <1>5, <1>6, <1>7 DEF Confirmed

\* Snapshots replace what the client has.
LEMMA SnapshotsArrive ==
    ASSUME Base, WarmInv, ReceiveSnapshots
    PROVE  Arriving' /\ Confirmed'
<1>1. TypeOK /\ transport \in Transports /\ serverSeq \in 0 .. Len(log) /\ Len(log) \in Nat
  BY DEF Base, TypeOK, ClientTypes, ServerTypes
<1>2. /\ toClient[transport] # <<>> /\ Incoming.kind = "snapshot"
      /\ UNCHANGED <<log, transport, open, connections>>
      /\ toClient' = Consumed /\ state' = "connected"
      /\ serverSeq' = Seen({Incoming.seqs[c] : c \in DOMAIN Incoming.seqs})
      /\ confirmed' = [c \in Channels |->
                          IF c \in DOMAIN Incoming.seqs
                          THEN StateAt(c, Incoming.seqs[c]) ELSE confirmed[c]]
  BY DEF ReceiveSnapshots, ClientReads, DrainAfterReconnect, serverVars
<1>3. PICK k \in serverSeq .. Len(log) : \E n \in k .. Len(log) :
         /\ toClient[transport] = <<Incoming>> \o Run(k, n)
         /\ Brings(Incoming, k)
         /\ Fed(n)
  BY <1>2, AnswerRead DEF WarmInv
<1>4. Incoming.seqs = [c \in Channels |-> k]
  BY <1>2, <1>3 DEF Brings
<1>5. serverSeq' = k
  <2>1. CASE Channels = {}
    <3>1. Len(log) = 0
      BY <1>1, <2>1 DEF TypeOK, ServerTypes, Envelope
    <3>2. serverSeq' \in 0 .. Len(log)
      <4>1. {Incoming.seqs[c] : c \in DOMAIN Incoming.seqs} \in SUBSET (0 .. Len(log))
        BY <1>4, <2>1
      <4> QED
        BY <1>1, <1>2, <4>1, SeenType
    <3> QED
      BY <1>1, <3>1, <3>2
  <2>2. CASE Channels # {}
    <3>1. {Incoming.seqs[c] : c \in DOMAIN Incoming.seqs} = {k}
      BY <1>4, <2>2
    <3>2. {k} \in SUBSET (0 .. Len(log)) /\ k \in Nat /\ serverSeq <= k /\ serverSeq \in Nat
      BY <1>1
    <3>3. Seen({k}) \in {serverSeq} \cup {k} /\ \A x \in {serverSeq} \cup {k} : x <= Seen({k})
      BY <1>1, <3>2, SeenType
    <3>4. Seen({k}) = k
      BY <3>2, <3>3
    <3> QED
      BY <1>2, <3>1, <3>4
  <2> QED
    BY <2>1, <2>2
<1>6. Arriving'
  BY <1>2, <1>3, <1>5, CaughtUp
<1>7. ASSUME NEW c \in Channels
      PROVE  confirmed'[c] = History(log, c, k)
  BY <1>2, <1>4, StateIsHistory
<1> QED
  BY <1>2, <1>5, <1>6, <1>7 DEF Confirmed

\* So do those of a fresh initialize.
LEMMA InitializedArrives ==
    ASSUME Base, WarmInv, ReceiveInitialized
    PROVE  Arriving' /\ Confirmed'
<1>1. /\ toClient[transport] # <<>> /\ Incoming.kind = "initialized"
      /\ UNCHANGED <<log, transport, open, connections>>
      /\ toClient' = Consumed /\ state' = "connected"
      /\ serverSeq' = Incoming.seq
      /\ confirmed' = [c \in Channels |-> StateAt(c, Incoming.seq)]
  BY DEF ReceiveInitialized, ClientReads, DrainAfterReconnect, serverVars
<1>2. PICK k \in serverSeq .. Len(log) : \E n \in k .. Len(log) :
         /\ toClient[transport] = <<Incoming>> \o Run(k, n)
         /\ Brings(Incoming, k)
         /\ Fed(n)
  BY <1>1, AnswerRead DEF WarmInv
<1>3. Incoming.seq = k
  BY <1>1, <1>2 DEF Brings
<1>4. Arriving'
  BY <1>1, <1>2, <1>3, CaughtUp
<1>5. ASSUME NEW c \in Channels
      PROVE  confirmed'[c] = History(log, c, k)
  BY <1>1, <1>3, StateIsHistory
<1> QED
  BY <1>1, <1>3, <1>4, <1>5 DEF Confirmed

\* The client's steps keep what is on its way in order.
LEMMA ClientArrives ==
    ASSUME Base, Base', WarmInv,
           \/ \E c \in Channels : ClientDispatch(c)
           \/ Lose \/ TransportClosed \/ AttemptReconnect \/ ReceiveNotFound
           \/ ReceiveAction \/ ReceiveReplay \/ ReceiveSnapshots
           \/ ReceiveInitialized
    PROVE  Arriving' /\ Confirmed'
<1>1. TypeOK /\ transport \in Transports
  BY DEF Base, TypeOK, ClientTypes
<1>2. ASSUME NEW c \in Channels, ClientDispatch(c)
      PROVE  Arriving' /\ Confirmed'
  <2>1. UNCHANGED <<log, transport, state, serverSeq, confirmed, open, toClient, connections>>
    BY <1>2 DEF ClientDispatch, serverVars
  <2>2. state # "connected" => UNCHANGED toServer
    BY <1>2 DEF ClientDispatch
  <2> QED
    BY <2>1, <2>2, ArrivingKept DEF Attached
<1>3. CASE Lose
  <2>1. /\ UNCHANGED <<log, transport, state, serverSeq, confirmed, toClient, toServer, connections>>
        /\ ~open'[transport]
    BY <1>1, <1>3 DEF Lose, serverVars, clientVars, TypeOK, TransportTypes
  <2> QED
    BY <2>1, ArrivingKept DEF Attached
<1>4. CASE TransportClosed
  <2>1. /\ UNCHANGED <<log, transport, serverSeq, confirmed, open>>
        /\ ~open[transport] /\ state' = "waiting" /\ toClient'[transport] = <<>>
    BY <1>1, <1>4 DEF TransportClosed, serverVars, TypeOK, TransportTypes
  <2> QED
    BY <2>1 DEF Asking, Arriving, WarmInv, Confirmed
<1>5. CASE AttemptReconnect
  <2> DEFINE m == <<[kind |-> "reconnect", seq |-> serverSeq]>>
  <2>1. /\ UNCHANGED <<log, serverSeq, confirmed, toClient, connections>>
        /\ transport' = transport + 1 /\ transport' \in Transports
        /\ state' = "reconnecting"
        /\ toServer'[transport'] = m
    <3>1. transport' = transport + 1 /\ transport' \in Transports
      BY <1>1, <1>5 DEF AttemptReconnect, Base, TypeOK, ClientTypes
    <3> QED
      BY <1>5, <3>1 DEF AttemptReconnect, TypeOK, TransportTypes, Base, serverVars
  <2>2. transport' > transport
    BY <1>1, <2>1 DEF Transports
  <2>3. toClient[transport'] = <<>> /\ transport' \notin ToSet(connections)
    BY <2>1, <2>2 DEF Base, InTurn, Unused
  <2>4. (toClient[transport] = <<>> /\ ~Attached(transport))'
    BY <2>1, <2>3 DEF Attached
  <2>5. Asking'
    BY <2>1, <2>4 DEF Asking
  <2> QED
    BY <2>1, <2>5 DEF Arriving, WarmInv, Confirmed
<1>6. CASE ReceiveNotFound
  <2> DEFINE m == <<[kind |-> "initialize"]>>
  <2>1. /\ UNCHANGED <<log, transport, serverSeq, confirmed, open, connections>>
        /\ toServer' = SentToServer(transport, m)
        /\ toClient' = Consumed /\ state' = "initializing"
        /\ state = "reconnecting" /\ toClient[transport] # <<>>
        /\ Incoming.kind = "notFound"
    BY <1>6 DEF ReceiveNotFound, serverVars, ClientReads
  <2>2. Unknown
    <3>1. ~Live /\ ~Asking
      BY <2>1 DEF Live, Asking
    <3>2. ~Answered
      BY <2>1 DEF Answered, Brings
    <3> QED
      BY <3>1, <3>2 DEF Arriving, WarmInv
  <2>3. <<>> \o m = m
    OBVIOUS
  <2>4. m = <<[kind |-> "initialize"]>>
    OBVIOUS
  <2> HIDE DEF m
  <2>5. open[transport] => toServer'[transport] = m
    BY <1>1, <2>1, <2>2, <2>3, Written DEF Unknown
  <2>6. toClient'[transport] = <<>>
    <3> DEFINE w == <<[kind |-> "notFound"]>>
    <3>1. Tail(w) = <<>>
      OBVIOUS
    <3>2. toClient[transport] = w
      BY <2>2 DEF Unknown
    <3> HIDE DEF w
    <3> QED
      BY <1>1, <2>1, <3>1, <3>2, Read
  <2>7. ~Attached(transport)'
    BY <2>1, <2>2 DEF Unknown, Attached
  <2> QED
    BY <2>1, <2>4, <2>5, <2>6, <2>7 DEF Asking, Arriving, WarmInv, Confirmed
<1> QED
  BY <1>2, <1>3, <1>4, <1>5, <1>6, ActionArrives, ReplayArrives,
     SnapshotsArrive, InitializedArrives

\* Nothing is on its way at first.
LEMMA WarmInit == Init => WarmInv
<1> SUFFICES ASSUME Init PROVE WarmInv
  OBVIOUS
<1>1. TypeOK /\ Transports \subseteq Nat \ {0} /\ 1 \in Transports
  <2>1. TypeOK
    BY InitTypes
  <2> QED
    BY <2>1 DEF TypeOK, ClientTypes, Transports, Init
<1>2. ToSet(connections) = {1} /\ Increasing(connections)
  <2>1. connections = <<1>>
    BY DEF Init
  <2> QED
    BY <2>1 DEF ToSet, Increasing
<1>3. Attachments
  <2>1. ASSUME NEW t \in Transports
        PROVE  /\ restoring[t] = NoJob /\ toServer[t] = <<>>
               /\ t = 1 => subscriptions[t] = Channels
    BY DEF Init
  <2> QED
    BY <1>2, <2>1 DEF Attachments, Attached, Shape
<1>4. Confirmed
  <2>1. ASSUME NEW c \in Channels
        PROVE  confirmed[c] = <<>> /\ History(log, c, 0) = <<>>
    BY HistoryGrows DEF Init
  <2> QED
    BY <2>1 DEF Confirmed, Init
<1>5. Live
  <2>1. log = <<>> /\ serverSeq = 0 /\ transport = 1 /\ toClient[1] = <<>>
        /\ state = "connected" /\ Len(log) = 0
    BY <1>1 DEF Init
  <2>2. Run(0, 0) = <<>>
    BY RunSteps
  <2>3. Fed(0)
    BY <1>2, <2>1 DEF Fed, Attached
  <2>4. 0 \in 0 .. 0
    OBVIOUS
  <2> QED
    BY <2>1, <2>2, <2>3, <2>4 DEF Live
<1> QED
  BY <1>3, <1>4, <1>5 DEF WarmInv, Arriving

\* Every step keeps the invariant,
LEMMA WarmNext ==
    ASSUME Warm, Base, Base', WarmInv, [Next]_vars
    PROVE  WarmInv'
<1>1. CASE UNCHANGED vars
  <2>1. UNCHANGED <<log, connections, subscriptions, restoring, toServer,
                    toClient, open, transport, state, serverSeq, confirmed>>
    BY <1>1 DEF vars
  <2>2. Attachments'
    BY <2>1, AttachmentsKept DEF WarmInv
  <2>3. Arriving' /\ Confirmed'
    BY <2>1, ArrivingKept DEF Attached
  <2> QED
    BY <2>2, <2>3 DEF WarmInv
<1>2. CASE \/ \E c \in Channels : ServerAction(c)
           \/ QueueStep \/ Forget
           \/ \E t \in Transports :
                 \/ ReceiveDispatch(t) \/ ReceiveReconnect(t)
                 \/ ReceiveInitialize(t) \/ AnswerReconnect(t) \/ ServerClosed(t)
                 \/ \E c \in Channels : RestoreChannel(t, c)
  <2>1. Attachments'
    BY <1>2, ServerAttachments DEF WarmInv
  <2>2. Arriving' /\ Confirmed'
    BY <1>2, ServerArrives
  <2> QED
    BY <2>1, <2>2 DEF WarmInv
<1>3. CASE \/ \E c \in Channels : ClientDispatch(c)
           \/ Lose \/ TransportClosed \/ AttemptReconnect \/ ReceiveNotFound
           \/ ReceiveAction \/ ReceiveReplay \/ ReceiveSnapshots
           \/ ReceiveInitialized
  <2>1. Attachments'
    BY <1>3, ClientAttachments DEF WarmInv
  <2>2. Arriving' /\ Confirmed'
    BY <1>3, ClientArrives
  <2> QED
    BY <2>1, <2>2 DEF WarmInv
<1> QED
  BY <1>1, <1>2, <1>3, Steps

\* so it always holds,
LEMMA WarmCorrect ==
    ASSUME Warm
    PROVE  Spec => []WarmInv
<1>1. Base /\ Base' /\ WarmInv /\ [Next]_vars => WarmInv'
  BY WarmNext
<1> QED
  BY WarmInit, <1>1, BaseCorrect, PTL DEF Spec

\* and what has arrived and what is on its way make up the history.
LEMMA WarmInSync ==
    ASSUME Base, WarmInv
    PROVE  InSync
<1> SUFFICES ASSUME state = "connected", open[transport], NEW c \in Channels
             PROVE  confirmed[c] \o InFlight(c) = StateAt(c, Len(log))
  BY DEF InSync
<1>1. Live
  BY DEF WarmInv, Arriving, Answered, Brings, Unknown, Asking
<1>2. PICK n \in serverSeq .. Len(log) : toClient[transport] = Run(serverSeq, n) /\ Fed(n)
  BY <1>1 DEF Live
<1>3. n = Len(log) /\ n \in Nat /\ serverSeq \in Nat /\ serverSeq <= n
  BY <1>2 DEF Fed, Base, TypeOK, ClientTypes, ServerTypes
<1>4. History(log, c, serverSeq) \o InFlight(c) = History(log, c, n)
  BY <1>2, <1>3, InFlightRun
<1>5. confirmed[c] = History(log, c, serverSeq)
  BY DEF WarmInv, Confirmed
<1> QED
  BY <1>3, <1>4, <1>5, StateIsHistory

\* What a connected client has confirmed, and what is on its way to it, make
\* up
\* the server's state of each channel: neither _applyReconnectResult nor
\* _handleReconnect skips, repeats or reorders an envelope, however many
\* transports are lost.
THEOREM InSyncWhenWarm ==
    ASSUME Warm
    PROVE  Spec => []InSync
<1>1. Base /\ WarmInv => InSync
  BY WarmInSync
<1> QED
  BY <1>1, BaseCorrect, WarmCorrect, PTL

-----------------------------------------------------------------------------
(* Refinement                                                              *)

\* Either the log stays and the client does not go back, or an envelope is
\* emitted and the client stays.
LEMMA Progress ==
    ASSUME Base, WarmInv, [Next]_vars
    PROVE  \/ UNCHANGED log /\ serverSeq <= serverSeq'
           \/ /\ UNCHANGED confirmed
              /\ \E c \in Channels, n \in Nat, r \in BOOLEAN : Emit(toClient, c, n, r)
<1>1. TypeOK /\ serverSeq \in Nat /\ Len(log) \in Nat
  BY DEF Base, TypeOK, ClientTypes, ServerTypes
<1>2. ASSUME NEW c \in Channels, ServerAction(c)
      PROVE  /\ UNCHANGED confirmed
             /\ \E d \in Channels, n \in Nat, r \in BOOLEAN : Emit(toClient, d, n, r)
  BY <1>2 DEF ServerAction, clientVars
<1>3. ASSUME QueueStep, ~UNCHANGED log
      PROVE  /\ UNCHANGED confirmed
             /\ \E d \in Channels, n \in Nat, r \in BOOLEAN : Emit(toClient, d, n, r)
  <2>1. DispatchNow(toClient, Head(dispatchQueue).action) /\ UNCHANGED confirmed
    BY <1>3 DEF QueueStep, clientVars
  <2> DEFINE T == [action : Action, prelude : BOOLEAN]
  <2>2. dispatchQueue \in Seq(T) /\ dispatchQueue # <<>>
    BY <1>1, <1>3 DEF QueueStep, TypeOK, ServerTypes
  <2>3. \A q \in T : q.action \in Action
    OBVIOUS
  <2> HIDE DEF T
  <2>4. Head(dispatchQueue) \in T
    BY <2>2, MembersOf
  <2>5. Head(dispatchQueue).action \in Action
    BY <2>3, <2>4
  <2> QED
    BY <1>1, <2>1, <2>5, DispatchNowEmits
<1>4. ASSUME NEW t \in Transports, ReceiveDispatch(t), ~UNCHANGED log
      PROVE  /\ UNCHANGED confirmed
             /\ \E d \in Channels, n \in Nat, r \in BOOLEAN : Emit(toClient, d, n, r)
  <2>1. DispatchNow(toClient, Head(toServer[t])) /\ UNCHANGED confirmed
        /\ toServer[t] # <<>> /\ Head(toServer[t]).kind = "dispatch"
    BY <1>4 DEF ReceiveDispatch, ServerReads, clientVars
  <2>2. Head(toServer[t]) \in Action
    BY <1>1, <2>1, ReadTypes, RequestMembers
  <2> QED
    BY <1>1, <2>1, <2>2, DispatchNowEmits
<1>5. ASSUME \/ QueueStep \/ Forget
             \/ \E t \in Transports :
                   \/ ReceiveDispatch(t) \/ ReceiveReconnect(t)
                   \/ ReceiveInitialize(t) \/ AnswerReconnect(t) \/ ServerClosed(t)
                   \/ \E c \in Channels : RestoreChannel(t, c)
      PROVE  serverSeq <= serverSeq'
  <2>1. UNCHANGED clientVars
    BY <1>5 DEF QueueStep, Forget, ReceiveDispatch, ReceiveReconnect,
                ReceiveInitialize, AnswerReconnect, ServerClosed, RestoreChannel
  <2> QED
    BY <1>1, <2>1 DEF clientVars
<1>6. ASSUME \/ Forget
             \/ \E t \in Transports :
                   \/ ReceiveReconnect(t)
                   \/ ReceiveInitialize(t) \/ AnswerReconnect(t) \/ ServerClosed(t)
                   \/ \E c \in Channels : RestoreChannel(t, c)
      PROVE  UNCHANGED log
  BY <1>6 DEF Forget, ReceiveReconnect, ReceiveInitialize, AnswerReconnect,
              ServerClosed, RestoreChannel
<1>7. ASSUME \/ \E c \in Channels : ClientDispatch(c)
             \/ Lose \/ TransportClosed \/ AttemptReconnect \/ ReceiveNotFound
             \/ UNCHANGED vars
      PROVE  UNCHANGED log /\ serverSeq <= serverSeq'
  <2>1. UNCHANGED <<log, serverSeq>>
    BY <1>7 DEF ClientDispatch, Lose, TransportClosed, AttemptReconnect,
                ReceiveNotFound, vars, serverVars, clientVars
  <2> QED
    BY <1>1, <2>1
<1>8. CASE ReceiveAction
  <2>1. serverSeq' = serverSeq + 1 /\ UNCHANGED log
    BY <1>8, ActionArrives DEF ReceiveAction, serverVars
  <2> QED
    BY <1>1, <2>1
<1>9. CASE ReceiveReplay
  <2>1. /\ UNCHANGED log /\ serverSeq' = Seen(ToSet(Incoming.seqs))
        /\ Incoming.seqs \in Seq(1 .. Len(log))
    BY <1>1, <1>9, IncomingMembers DEF ReceiveReplay, ClientReads, serverVars
  <2>2. ToSet(Incoming.seqs) \in SUBSET (0 .. Len(log))
    <3>1. \A x \in ToSet(Incoming.seqs) : x \in 1 .. Len(log)
      BY <2>1, MembersOf
    <3> QED
      BY <1>1, <3>1
  <2> QED
    BY <1>1, <2>1, <2>2, SeenType
<1>10. CASE ReceiveSnapshots
  <2> DEFINE S == {Incoming.seqs[c] : c \in DOMAIN Incoming.seqs}
  <2>1. UNCHANGED log /\ serverSeq' = Seen(S)
    BY <1>10 DEF ReceiveSnapshots, serverVars
  <2>2. S \in SUBSET (0 .. Len(log))
    BY <1>1, <1>10, IncomingMembers DEF ReceiveSnapshots, ClientReads
  <2> HIDE DEF S
  <2> QED
    BY <1>1, <2>1, <2>2, SeenType
<1>11. CASE ReceiveInitialized
  <2>1. /\ UNCHANGED log /\ serverSeq' = Incoming.seq
        /\ toClient[transport] # <<>> /\ Incoming.kind = "initialized"
    BY <1>11 DEF ReceiveInitialized, ClientReads, serverVars
  <2>2. PICK k \in serverSeq .. Len(log) : Brings(Incoming, k)
    BY <2>1, AnswerRead DEF WarmInv
  <2>3. Incoming.seq = k
    BY <2>1, <2>2 DEF Brings
  <2> QED
    BY <1>1, <2>1, <2>3
<1> QED
  BY Steps, <1>2, <1>3, <1>4, <1>5, <1>6, <1>7, <1>8, <1>9, <1>10, <1>11

\* A client without state has followed no history yet.
LEMMA FollowerInit == Init => Follower!FwInit
<1> SUFFICES ASSUME Init PROVE Follower!FwInit
  OBVIOUS
<1>1. ASSUME NEW c \in Channels
      PROVE  StateAt(c, Len(log)) = <<>>
  <2>1. Len(log) = 0
    BY DEF Init
  <2> QED
    BY <2>1, StateIsHistory, HistoryGrows
<1> QED
  BY <1>1 DEF Follower!FwInit, Init

\* Every step is one of LogFollower's, or changes nothing that it sees.
LEMMA FollowerNext ==
    ASSUME Base, Base', WarmInv, WarmInv', [Next]_vars
    PROVE  Follower!FwNext \/ UNCHANGED Follower!fwVars
<1> DEFINE H == [c \in Channels |-> StateAt(c, Len(log))]
<1>1. /\ TypeOK /\ TypeOK'
      /\ serverSeq \in 0 .. Len(log) /\ serverSeq' \in 0 .. Len(log') /\ Len(log) \in Nat
  BY DEF Base, TypeOK, ClientTypes, ServerTypes
<1>2. \A c \in Channels : /\ confirmed[c] = History(log, c, serverSeq)
                          /\ confirmed'[c] = History(log', c, serverSeq')
                          /\ H[c] = History(log, c, Len(log))
                          /\ H'[c] = History(log', c, Len(log'))
  BY StateIsHistory DEF WarmInv, Confirmed
<1>3. CASE UNCHANGED log /\ serverSeq <= serverSeq'
  <2>1. ASSUME NEW c \in Channels
        PROVE  /\ Follower!Continues(confirmed[c], confirmed'[c])
               /\ Follower!Continues(confirmed'[c], H[c])
    <3>1. serverSeq \in Nat /\ serverSeq' \in Nat /\ serverSeq' <= Len(log)
      BY <1>1, <1>3
    <3>2. Follower!Continues(History(log, c, serverSeq), History(log, c, serverSeq'))
      BY <1>3, <3>1, HistoryContinues
    <3>3. Follower!Continues(History(log, c, serverSeq'), History(log, c, Len(log)))
      BY <1>1, <3>1, HistoryContinues
    <3> QED
      BY <1>2, <1>3, <3>2, <3>3
  <2>2. UNCHANGED H
    <3>1. \A c \in Channels : StateAt(c, Len(log))' = StateAt(c, Len(log))
      BY <1>2, <1>3, StateIsHistory
    <3> QED
      BY <3>1
  <2> QED
    BY <2>1, <2>2 DEF Follower!FwNext, Follower!FwCatchUp
<1>4. ASSUME UNCHANGED confirmed, NEW c \in Channels, NEW n \in Nat, NEW r \in BOOLEAN,
             Emit(toClient, c, n, r)
      PROVE  Follower!FwNext \/ UNCHANGED Follower!fwVars
  <2>1. /\ Len(log') = Len(log) + 1
        /\ log'[Len(log) + 1] = [channel |-> c, clientSeq |-> n, rejected |-> r]
        /\ \A d : \A k \in 0 .. Len(log) : History(log', d, k) = History(log, d, k)
    BY <1>1, <1>4, EmitHistory
  <2>2. ASSUME NEW d \in Channels
        PROVE  H'[d] = IF d = c /\ ~r THEN Append(H[d], Len(log) + 1) ELSE H[d]
    <3>1. History(log', d, Len(log) + 1) =
             IF log'[Len(log) + 1].channel = d /\ ~log'[Len(log) + 1].rejected
             THEN Append(History(log', d, Len(log)), Len(log) + 1)
             ELSE History(log', d, Len(log))
      BY <1>1, HistoryGrows
    <3>2. History(log', d, Len(log)) = History(log, d, Len(log))
      BY <1>1, <2>1
    <3> QED
      BY <1>2, <2>1, <3>1, <3>2
  <2>3. H = [d \in Channels |-> H[d]] /\ H' = [d \in Channels |-> H'[d]]
    OBVIOUS
  <2>4. CASE r
    <3>1. H' = H
      <4> HIDE DEF H
      <4> QED
        BY <2>2, <2>3, <2>4
    <3> QED
      BY <1>4, <3>1 DEF Follower!fwVars
  <2>5. CASE ~r
    <3>1. H[c] \in Seq(Nat) /\ H'[c] = Append(H[c], Len(log) + 1)
      BY <1>1, <1>2, <2>2, <2>5, HistoryGrows
    <3>2. Follower!Continues(H[c], H'[c])
      <4>1. Follower!Continues(History(log', c, Len(log)), History(log', c, Len(log')))
        BY <1>1, <2>1, HistoryContinues
      <4> QED
        BY <1>1, <1>2, <2>1, <4>1
    <3>3. Len(H'[c]) = Len(H[c]) + 1
      <4> HIDE DEF H
      <4> QED
        BY <3>1
    <3>4. \A d \in Channels \ {c} : H'[d] = H[d]
      BY <2>2
    <3>5. Follower!FwApply(c)
      BY <1>4, <3>2, <3>3, <3>4 DEF Follower!FwApply
    <3> QED
      BY <3>5 DEF Follower!FwNext
  <2> QED
    BY <2>4, <2>5
<1> QED
  BY Progress, <1>3, <1>4

\* A client implements LogFollower: whatever it reads, what it has confirmed
\* of a channel only ever moves forwards in the channel's one history.
THEOREM FollowsWhenWarm ==
    ASSUME Warm
    PROVE  Spec => FollowerSpec
<1>1. Base /\ Base' /\ WarmInv /\ WarmInv' /\ [Next]_vars => [Follower!FwNext]_(Follower!fwVars)
  BY FollowerNext
<1> QED
  BY FollowerInit, <1>1, BaseCorrect, WarmCorrect, PTL DEF Spec, FollowerSpec, Follower!FwSpec

-----------------------------------------------------------------------------
(* The order of the client's actions                                       *)

\* ch[n] is the channel of the client's action n.
Assigned(ch) ==
    /\ \A e \in ToSet(log) : e.clientSeq # 0 => ch[e.clientSeq] = e.channel
    /\ \A t \in Transports : \A m \in ToSet(toServer[t]) :
          m.kind = "dispatch" => ch[m.clientSeq] = m.channel
    /\ \A m \in ToSet(outbox) : ch[m.clientSeq] = m.channel
    /\ \A c \in Channels : \A n \in ToSet(pending[c]) : ch[n] = c

\* The outbox holds the last actions, which have never been sent.
Sent == clientSeq - Len(outbox)
Queued ==
    /\ Len(outbox) <= clientSeq
    /\ \A i \in 1 .. Len(outbox) : outbox[i].clientSeq = Sent + i
    /\ \A e \in ToSet(log) : e.clientSeq <= Sent
    /\ \A t \in Transports : \A m \in ToSet(toServer[t]) :
          m.kind = "dispatch" => m.clientSeq <= Sent
    /\ state = "connected" => outbox = <<>>

\* The client has yet to see its action n on channel c among the envelopes up
\* to k.
Unseen(c, n, k) ==
    \E j \in serverSeq + 1 .. k : log[j].channel = c /\ log[j].clientSeq = n

\* The server has taken no action on channel c from n on.
Below(c, n) ==
    \A k \in 1 .. Len(log) :
        log[k].channel = c /\ log[k].clientSeq # 0 => log[k].clientSeq < n

\* The server has taken the actions on a channel in order.
OrderedLog ==
    \A i, j \in 1 .. Len(log) :
        /\ i < j
        /\ log[i].clientSeq # 0 /\ log[j].clientSeq # 0
        /\ log[i].channel = log[j].channel
        => log[i].clientSeq < log[j].clientSeq

\* An action on its way comes after what the server has taken, after what is
\* before it on the transport, and after what is pending before it.
InOrder(s, i) ==
    /\ Below(s[i].channel, s[i].clientSeq)
    /\ \A j \in 1 .. i - 1 :
          s[j].kind = "dispatch" /\ s[j].channel = s[i].channel
          => s[j].clientSeq < s[i].clientSeq
    /\ s[i].channel \in Resent =>
          \A n \in ToSet(pending[s[i].channel]) : n < s[i].clientSeq =>
              \/ Unseen(s[i].channel, n, Len(log))
              \/ \E j \in 1 .. i - 1 : s[j] = Dispatch(s[i].channel, n)

\* Nothing is overtaken on a transport.
OrderedStreams ==
    \A t \in Transports : \A i \in 1 .. Len(toServer[t]) :
        toServer[t][i].kind = "dispatch" => InOrder(toServer[t], i)

\* A pending action that the server has taken, or one after it, is one the
\* client will see; the others are on their way.
Waiting ==
    \A c \in Resent : \A n \in ToSet(pending[c]) :
        /\ \A k \in 1 .. Len(log) :
              log[k].channel = c /\ n <= log[k].clientSeq => Unseen(c, n, k)
        /\ state = "connected" /\ open[transport] =>
              \/ Unseen(c, n, Len(log))
              \/ Dispatch(c, n) \in ToSet(toServer[transport])

\* Nothing of the client happens between an answer and its being read.
Quiet ==
    state = "reconnecting" /\ toClient[transport] # <<>> /\ Incoming.kind # "notFound"
    => /\ \A t \in Transports : toServer[t] = <<>>
       /\ \A k \in serverSeq .. Len(log) : Brings(Incoming, k) =>
             \A i \in k + 1 .. Len(log) : log[i].clientSeq = 0

\* What the client keeps of its actions, and where they can be.
Kept ==
    /\ dispatchQueue = <<>>
    /\ \E ch : Assigned(ch)
    /\ Queued
    /\ \A c \in Channels : Increasing(pending[c])

\* The inductive invariant.  (It says nothing of a client that was forgotten,
\* or whose actions were queued, nor do the properties.)
OrderInv ==
    ~forgotten /\ ~queueing =>
        Kept /\ OrderedLog /\ OrderedStreams /\ Waiting /\ Quiet

\* A step that emits nothing, reads no action, and leaves the client's view
\* alone.
LEMMA OrderKept ==
    ASSUME OrderedLog, OrderedStreams, Waiting,
           UNCHANGED <<log, serverSeq, pending>>,
           \A t \in Transports :
               \/ toServer'[t] = toServer[t]
               \/ \A i \in 1 .. Len(toServer'[t]) : toServer'[t][i].kind # "dispatch",
           state' = "connected" /\ open'[transport'] =>
               /\ state = "connected" /\ open[transport]
               /\ toServer'[transport'] = toServer[transport]
    PROVE  OrderedLog' /\ OrderedStreams' /\ Waiting'
<1>1. OrderedLog'
  BY DEF OrderedLog
<1>2. OrderedStreams'
  <2> SUFFICES ASSUME NEW t \in Transports, NEW i \in 1 .. Len(toServer'[t]),
                      toServer'[t][i].kind = "dispatch"
               PROVE  InOrder(toServer[t], i)'
    BY DEF OrderedStreams
  <2>1. toServer'[t] = toServer[t]
    OBVIOUS
  <2>2. InOrder(toServer[t], i)
    BY <2>1 DEF OrderedStreams
  <2> QED
    BY <2>1, <2>2 DEF InOrder, Below, Unseen
<1>3. Waiting'
  BY DEF Waiting, Unseen
<1> QED
  BY <1>1, <1>2, <1>3

\* What the client has yet to see, when the log grows.
LEMMA UnseenGrows ==
    ASSUME TypeOK, NEW c, NEW n, NEW r, Emit(toClient, c, n, r),
           UNCHANGED serverSeq, NEW d, NEW x
    PROVE  /\ \A k \in 0 .. Len(log) : Unseen(d, x, k) => Unseen(d, x, k)'
           /\ Unseen(d, x, Len(log)) => Unseen(d, x, Len(log))'
           /\ d = c /\ x = n => Unseen(d, x, Len(log))'
<1>1. PICK N \in Nat : N = Len(log)
  BY DEF TypeOK, ServerTypes
<1>2. /\ Len(log') = N + 1 /\ serverSeq \in 0 .. N
      /\ log'[N + 1] = [channel |-> c, clientSeq |-> n, rejected |-> r]
      /\ \A k \in 1 .. N : log'[k] = log[k]
  BY <1>1, EmitHistory, EmitKeepsLog DEF TypeOK, ClientTypes
<1>3. ASSUME NEW k \in 0 .. N, Unseen(d, x, k)
      PROVE  Unseen(d, x, k)' /\ Unseen(d, x, N + 1)'
  <2>1. PICK j \in serverSeq + 1 .. k : log[j].channel = d /\ log[j].clientSeq = x
    BY <1>3 DEF Unseen
  <2>2. j \in 1 .. N /\ j \in serverSeq' + 1 .. k /\ j \in serverSeq' + 1 .. N + 1
    BY <1>2, <2>1
  <2>3. log'[j].channel = d /\ log'[j].clientSeq = x
    BY <1>2, <2>1, <2>2
  <2> QED
    BY <2>2, <2>3 DEF Unseen
<1>4. d = c /\ x = n => Unseen(d, x, N + 1)'
  <2>1. N + 1 \in serverSeq' + 1 .. N + 1
    BY <1>2
  <2>2. log'[N + 1].channel = c /\ log'[N + 1].clientSeq = n
    BY <1>2
  <2> QED
    BY <2>1, <2>2 DEF Unseen
<1>5. N \in 0 .. N
  BY <1>1
<1>6. Unseen(d, x, Len(log))' <=> Unseen(d, x, N + 1)'
  BY <1>2 DEF Unseen
<1> QED
  BY <1>1, <1>3, <1>4, <1>5, <1>6

\* The server takes an action of its own (n is 0), or one of the client that
\* comes after what it has taken and what is pending.
LEMMA EmitOrder ==
    ASSUME TypeOK, OrderedLog, Waiting,
           NEW c \in Channels, NEW n \in Nat, NEW r, Emit(toClient, c, n, r),
           UNCHANGED <<serverSeq, pending, state, open, transport>>,
           \A d \in Channels : \A x \in ToSet(pending[d]) : x # 0,
           n # 0 => Below(c, n),
           n # 0 /\ c \in Resent => \A x \in ToSet(pending[c]) :
               x < n => Unseen(c, x, Len(log)),
           \A m \in ToSet(toServer[transport]) :
               m \in ToSet(toServer'[transport]) \/ m = Dispatch(c, n)
    PROVE  OrderedLog' /\ Waiting'
<1>1. PICK N \in Nat : N = Len(log)
  BY DEF TypeOK, ServerTypes
<1>2. /\ Len(log') = N + 1 /\ serverSeq \in 0 .. N
      /\ log'[N + 1] = [channel |-> c, clientSeq |-> n, rejected |-> r]
      /\ \A k \in 1 .. N : log'[k] = log[k]
  BY <1>1, EmitHistory, EmitKeepsLog DEF TypeOK, ClientTypes
<1>3. \A k \in 1 .. N + 1 : k \in 1 .. N \/ k = N + 1
  BY <1>1
<1>4. OrderedLog'
  <2> SUFFICES ASSUME NEW i \in 1 .. N + 1, NEW j \in 1 .. N + 1, i < j,
                      log'[i].clientSeq # 0, log'[j].clientSeq # 0,
                      log'[i].channel = log'[j].channel
               PROVE  log'[i].clientSeq < log'[j].clientSeq
    BY <1>2 DEF OrderedLog
  <2>1. i \in 1 .. N
    BY <1>1
  <2>2. CASE j \in 1 .. N
    BY <1>1, <1>2, <2>1, <2>2 DEF OrderedLog
  <2>3. CASE j = N + 1
    <3>1. log'[j].channel = c /\ log'[j].clientSeq = n /\ n # 0
      BY <1>2, <2>3
    <3>2. Below(c, n)
      BY <3>1
    <3> QED
      BY <1>1, <1>2, <2>1, <3>1, <3>2 DEF Below
  <2> QED
    BY <1>3, <2>2, <2>3
<1>5. Waiting'
  <2> SUFFICES ASSUME NEW d \in Resent, NEW x \in ToSet(pending[d])
               PROVE  /\ \A k \in 1 .. N + 1 :
                            log'[k].channel = d /\ x <= log'[k].clientSeq => Unseen(d, x, k)'
                      /\ state = "connected" /\ open[transport] =>
                            \/ Unseen(d, x, Len(log))'
                            \/ Dispatch(d, x) \in ToSet(toServer'[transport])
    BY <1>2 DEF Waiting
  <2>0. d \in Channels /\ x # 0 /\ x \in Nat
    <3>1. d \in Channels
      BY ConstantsAssumption
    <3>2. pending[d] \in Seq(Nat)
      BY <3>1 DEF TypeOK, ClientTypes
    <3>3. x \in Nat
      BY <3>2, MembersOf
    <3> QED
      BY <3>1, <3>3
  <2>1. ASSUME NEW k \in 1 .. N + 1, log'[k].channel = d, x <= log'[k].clientSeq
        PROVE  Unseen(d, x, k)'
    <3>1. CASE k \in 1 .. N
      <4>1. Unseen(d, x, k)
        BY <1>1, <1>2, <2>1, <3>1 DEF Waiting
      <4>2. k \in 0 .. Len(log)
        BY <1>1, <3>1
      <4> QED
        BY <4>1, <4>2, UnseenGrows
    <3>2. CASE k = N + 1
      <4>1. d = c /\ x <= n /\ n # 0
        BY <1>2, <2>0, <2>1, <3>2
      <4>2. Unseen(d, x, Len(log))'
        <5>1. CASE x = n
          BY <4>1, <5>1, UnseenGrows
        <5>2. CASE x < n
          BY <4>1, <5>2, UnseenGrows
        <5> QED
          BY <2>0, <4>1, <5>1, <5>2
      <4> QED
        BY <1>2, <3>2, <4>2 DEF Unseen
    <3> QED
      BY <1>3, <3>1, <3>2
  <2>2. ASSUME state = "connected", open[transport]
        PROVE  \/ Unseen(d, x, Len(log))'
               \/ Dispatch(d, x) \in ToSet(toServer'[transport])
    <3>1. CASE Unseen(d, x, Len(log))
      BY <3>1, UnseenGrows
    <3>2. CASE Dispatch(d, x) \in ToSet(toServer[transport])
      <4>1. CASE Dispatch(d, x) = Dispatch(c, n)
        <5>1. d = c /\ x = n
          BY <4>1 DEF Dispatch
        <5> QED
          BY <5>1, UnseenGrows
      <4> QED
        BY <3>2, <4>1
    <3> QED
      BY <2>2, <3>1, <3>2 DEF Waiting
  <2> QED
    BY <2>1, <2>2
<1> QED
  BY <1>4, <1>5

\* What is on its way keeps its place when something before it is taken.
LEMMA EmitInOrder ==
    ASSUME TypeOK, NEW c, NEW n \in Nat, NEW r, Emit(toClient, c, n, r),
           UNCHANGED <<serverSeq, pending>>,
           NEW s, NEW i, InOrder(s, i),
           n # 0 /\ s[i].channel = c => n < s[i].clientSeq
    PROVE  InOrder(s, i)'
<1>1. PICK N \in Nat : N = Len(log)
  BY DEF TypeOK, ServerTypes
<1>2. /\ Len(log') = N + 1
      /\ log'[N + 1] = [channel |-> c, clientSeq |-> n, rejected |-> r]
      /\ \A k \in 1 .. N : log'[k] = log[k]
  BY <1>1, EmitHistory, EmitKeepsLog
<1>3. \A k \in 1 .. N + 1 : k \in 1 .. N \/ k = N + 1
  BY <1>1
<1>4. Below(s[i].channel, s[i].clientSeq)'
  <2> SUFFICES ASSUME NEW k \in 1 .. N + 1,
                      log'[k].channel = s[i].channel, log'[k].clientSeq # 0
               PROVE  log'[k].clientSeq < s[i].clientSeq
    BY <1>2 DEF Below
  <2>1. CASE k \in 1 .. N
    <3>1. Below(s[i].channel, s[i].clientSeq)
      BY DEF InOrder
    <3> QED
      BY <1>1, <1>2, <2>1, <3>1 DEF Below
  <2>2. CASE k = N + 1
    BY <1>2, <2>2
  <2> QED
    BY <1>3, <2>1, <2>2
<1>5. \A d, x : Unseen(d, x, Len(log)) => Unseen(d, x, Len(log))'
  BY UnseenGrows
<1> QED
  BY <1>4, <1>5 DEF InOrder

\* An action of the server's own is none of the client's.
LEMMA ServerActionOrder ==
    ASSUME TypeOK, Numbered, OrderedLog, OrderedStreams, Waiting,
           NEW c \in Channels, ServerAction(c)
    PROVE  OrderedLog' /\ OrderedStreams' /\ Waiting'
<1>1. /\ Emit(toClient, c, 0, FALSE)
      /\ UNCHANGED <<serverSeq, pending, state, open, transport, toServer>>
  BY DEF ServerAction, clientVars
<1>2. \A d \in Channels : \A x \in ToSet(pending[d]) : x # 0
  BY DEF Numbered
<1>3. OrderedLog' /\ Waiting'
  BY <1>1, <1>2, EmitOrder
<1>4. OrderedStreams'
  <2> SUFFICES ASSUME NEW t \in Transports, NEW i \in 1 .. Len(toServer'[t]),
                      toServer'[t][i].kind = "dispatch"
               PROVE  InOrder(toServer[t], i)'
    BY DEF OrderedStreams
  <2> DEFINE s == toServer[t]
  <2>1. InOrder(s, i) /\ toServer'[t] = s
    BY <1>1 DEF OrderedStreams
  <2>2. \E q : q = s
    OBVIOUS
  <2>3. PICK q : q = s
    BY <2>2
  <2>4. InOrder(q, i)
    BY <2>1, <2>3
  <2>5. InOrder(q, i)'
    BY <1>1, <2>4, EmitInOrder
  <2> QED
    BY <1>1, <2>1, <2>3, <2>5
<1> QED
  BY <1>3, <1>4

\* The actions on one transport only are on their way.
LEMMA OneStream ==
    ASSUME Base, Attachments, NEW t \in Transports, NEW u \in Transports,
           Attached(t), toServer[t] # <<>>,
           NEW i \in 1 .. Len(toServer[u]), toServer[u][i].kind = "dispatch"
    PROVE  u = t
<1>1. toServer[u] \in Seq(Request) /\ t \in Nat /\ u \in Nat
  BY DEF Base, TypeOK, TransportTypes, Transports
<1>2. toServer[u] # <<>>
  BY <1>1
<1>3. Attached(u)
  <2>1. Shape(u)
    BY DEF Attachments
  <2>2. ASSUME NEW m, m.kind # "dispatch", toServer[u] = <<m>>
        PROVE  FALSE
    <3>1. i = 1 /\ toServer[u][i] = m
      BY <2>2
    <3> QED
      BY <2>2, <3>1
  <2> QED
    BY <1>2, <2>1, <2>2 DEF Shape
<1>4. ~(t < u) /\ ~(u < t)
  BY <1>2, <1>3 DEF Attachments
<1> QED
  BY <1>1, <1>4

\* The server takes the next action off the transport.
LEMMA ReceiveDispatchOrder ==
    ASSUME Base, Attachments, Numbered, OrderedLog, OrderedStreams, Waiting,
           NEW t \in Transports, ReceiveDispatch(t), ~queueing'
    PROVE  OrderedLog' /\ OrderedStreams' /\ Waiting'
<1>1. TypeOK /\ transport \in Transports
  BY DEF Base, TypeOK, ClientTypes
<1> DEFINE m == Head(toServer[t])
<1>2. /\ toServer[t] # <<>> /\ Attached(t)
      /\ m.kind = "dispatch"
      /\ DispatchNow(toClient, m)
      /\ toServer' = [toServer EXCEPT ![t] = Tail(@)]
      /\ UNCHANGED <<serverSeq, pending, state, open, transport>>
  BY DEF ReceiveDispatch, ServerReads, Attached, clientVars
<1>3. m \in Action
  BY <1>1, <1>2, ReadTypes, RequestMembers
<1>4. PICK r \in BOOLEAN : Emit(toClient, m.channel, m.clientSeq, r)
  BY <1>1, <1>2, <1>3, DispatchNowEmits
<1>5. PICK c \in Channels, n \in Nat : c = m.channel /\ n = m.clientSeq
  BY <1>3 DEF Action
<1>6. m = Dispatch(c, n)
  BY <1>3, <1>5 DEF Action, Dispatch
<1>7. PICK s : s = toServer[t]
  OBVIOUS
<1>8. /\ s \in Seq(Request) /\ s # <<>> /\ Head(s) = Dispatch(c, n)
      /\ s[1] = Dispatch(c, n) /\ Len(s) \in Nat \ {0}
      /\ Tail(s) \in Seq(Request) /\ Len(Tail(s)) = Len(s) - 1
      /\ \A i \in 1 .. Len(s) - 1 : Tail(s)[i] = s[i + 1]
  <2>1. s \in Seq(Request) /\ s # <<>> /\ Head(s) = Dispatch(c, n)
    BY <1>1, <1>2, <1>6, <1>7 DEF TypeOK, TransportTypes
  <2> QED
    BY <2>1, TailOf
<1>9. s[1].kind = "dispatch" /\ s[1].channel = c /\ s[1].clientSeq = n
  BY <1>5, <1>8, DispatchType
<1> HIDE DEF m
<1>10. Emit(toClient, c, n, r)
  BY <1>4, <1>5
<1>11. \A u \in Transports : toServer'[u] = IF u = t THEN Tail(s) ELSE toServer[u]
  BY <1>1, <1>2, <1>7, Read
<1>12. InOrder(s, 1)
  <2>1. 1 \in 1 .. Len(s)
    BY <1>8
  <2> QED
    BY <1>7, <1>9, <2>1 DEF OrderedStreams
<1>13. OrderedLog' /\ Waiting'
  <2>1. \A d \in Channels : \A x \in ToSet(pending[d]) : x # 0
    BY DEF Numbered
  <2>2. Below(c, n)
    BY <1>9, <1>12 DEF InOrder
  <2>3. c \in Resent => \A x \in ToSet(pending[c]) : x < n => Unseen(c, x, Len(log))
    <3>1. \A j \in 1 .. 1 - 1 : FALSE
      OBVIOUS
    <3> QED
      BY <1>9, <1>12, <3>1 DEF InOrder
  <2>4. \A q \in ToSet(toServer[transport]) :
           q \in ToSet(toServer'[transport]) \/ q = Dispatch(c, n)
    <3>1. CASE transport # t
      BY <1>1, <1>11, <3>1
    <3>2. CASE transport = t
      <4>1. ASSUME NEW i \in 1 .. Len(s)
            PROVE  s[i] \in ToSet(Tail(s)) \/ s[i] = Dispatch(c, n)
        <5>1. CASE i = 1
          BY <1>8, <5>1
        <5>2. CASE i # 1
          <6>1. i - 1 \in 1 .. Len(s) - 1 /\ (i - 1) + 1 = i
            BY <1>8, <5>2
          <6>2. Tail(s)[i - 1] = s[i] /\ i - 1 \in DOMAIN Tail(s)
            BY <1>8, <6>1
          <6> QED
            BY <6>2 DEF ToSet
        <5> QED
          BY <5>1, <5>2
      <4>2. DOMAIN s = 1 .. Len(s)
        BY <1>8
      <4>3. toServer[transport] = s /\ toServer'[transport] = Tail(s)
        BY <1>7, <1>11, <3>2
      <4> QED
        BY <4>1, <4>2, <4>3 DEF ToSet
    <3> QED
      BY <3>1, <3>2
  <2> QED
    BY <1>1, <1>2, <1>10, <2>1, <2>2, <2>3, <2>4, EmitOrder
<1>14. ASSUME NEW i \in 1 .. Len(s), i # 1, s[i].kind = "dispatch"
       PROVE  InOrder(s, i)'
  <2>1. InOrder(s, i)
    BY <1>7, <1>14 DEF OrderedStreams
  <2>2. s[i].channel = c => n < s[i].clientSeq
    <3>1. 1 \in 1 .. i - 1
      BY <1>8, <1>14
    <3> QED
      BY <1>9, <2>1, <3>1 DEF InOrder
  <2> QED
    BY <1>1, <1>2, <1>10, <2>1, <2>2, EmitInOrder
<1>15. ASSUME NEW i \in 1 .. Len(s) - 1, s[i + 1].kind = "dispatch"
       PROVE  InOrder(Tail(s), i)'
  <2> DEFINE q == Tail(s)
  <2>1. i + 1 \in 1 .. Len(s) /\ i + 1 # 1 /\ i \in Nat
    BY <1>8
  <2>2. InOrder(s, i + 1)'
    BY <1>14, <1>15, <2>1
  <2>3. q[i] = s[i + 1]
    BY <1>8
  <2>4. \A j \in 1 .. i - 1 : q[j] = s[j + 1] /\ j + 1 \in 1 .. (i + 1) - 1
    BY <1>8
  <2>5. ASSUME NEW x, NEW j \in 1 .. (i + 1) - 1, s[j] = Dispatch(s[i + 1].channel, x)
        PROVE  \/ Unseen(s[i + 1].channel, x, Len(log))'
               \/ \E l \in 1 .. i - 1 : q[l] = Dispatch(s[i + 1].channel, x)
    <3>1. CASE j = 1
      <4>1. s[i + 1].channel = c /\ x = n
        BY <1>8, <2>5, <3>1 DEF Dispatch
      <4> QED
        BY <1>1, <1>2, <1>10, <4>1, UnseenGrows
    <3>2. CASE j # 1
      <4>1. j - 1 \in 1 .. i - 1 /\ (j - 1) + 1 = j
        BY <2>1, <3>2
      <4>2. q[j - 1] = s[j]
        BY <2>4, <4>1
      <4> QED
        BY <2>5, <4>1, <4>2
    <3> QED
      BY <3>1, <3>2
  <2> HIDE DEF q
  <2>6. Below(q[i].channel, q[i].clientSeq)'
    BY <2>2, <2>3 DEF InOrder
  <2>7. \A j \in 1 .. i - 1 :
           q[j].kind = "dispatch" /\ q[j].channel = q[i].channel
              => q[j].clientSeq < q[i].clientSeq
    BY <2>2, <2>3, <2>4 DEF InOrder
  <2>8. q[i].channel \in Resent => \A x \in ToSet(pending'[q[i].channel]) :
           x < q[i].clientSeq =>
              \/ Unseen(q[i].channel, x, Len(log))'
              \/ \E j \in 1 .. i - 1 : q[j] = Dispatch(q[i].channel, x)
    BY <2>2, <2>3, <2>5 DEF InOrder
  <2>9. InOrder(q, i)'
    BY <2>6, <2>7, <2>8 DEF InOrder
  <2> QED
    BY <2>9 DEF q
<1>16. OrderedStreams'
  <2> SUFFICES ASSUME NEW u \in Transports, NEW i \in 1 .. Len(toServer'[u]),
                      toServer'[u][i].kind = "dispatch"
               PROVE  InOrder(toServer[u], i)'
    BY DEF OrderedStreams
  <2>1. u = t
    <3>1. CASE u # t
      <4>1. toServer'[u] = toServer[u]
        BY <1>11, <3>1
      <4> QED
        BY <1>2, <4>1, OneStream
    <3> QED
      BY <3>1
  <2>2. toServer'[u] = Tail(s)
    BY <1>11, <2>1
  <2>3. i \in 1 .. Len(s) - 1 /\ s[i + 1].kind = "dispatch"
    BY <1>8, <2>2
  <2>4. InOrder(Tail(s), i)'
    BY <1>15, <2>3
  <2> QED
    BY <2>2, <2>4
<1> QED
  BY <1>13, <1>16

\* The pending actions once the client has been brought up to k.
LEMMA StillPending ==
    ASSUME TypeOK, NEW k \in serverSeq .. Len(log), NEW c \in Channels,
           NEW n \in ToSet(ViewAfter(c, Consecutive(serverSeq, k)).pending)
    PROVE  /\ n \in ToSet(pending[c])
           /\ \A j \in serverSeq + 1 .. k :
                 log[j].channel = c => log[j].clientSeq # n
<1> DEFINE s == Consecutive(serverSeq, k)
<1>1. serverSeq \in Nat /\ k \in Nat /\ serverSeq <= k
  BY DEF TypeOK, ClientTypes, ServerTypes
<1>2. s \in Seq(1 .. Len(log))
  BY SeenConsecutive
<1>3. /\ n \in ToSet(pending[c])
      /\ \A i \in 1 .. Len(s) : log[s[i]].channel = c => log[s[i]].clientSeq # n
  BY <1>2, PendingShrinks
<1>4. Len(s) = k - serverSeq /\ \A i \in 1 .. k - serverSeq : s[i] = serverSeq + i
  BY <1>1 DEF Consecutive
<1> HIDE DEF s
<1>5. ASSUME NEW j \in serverSeq + 1 .. k
      PROVE  \E i \in 1 .. Len(s) : s[i] = j
  <2>1. j - serverSeq \in 1 .. Len(s) /\ serverSeq + (j - serverSeq) = j
    BY <1>1, <1>4
  <2> QED
    BY <1>4, <2>1
<1> QED
  BY <1>3, <1>5

\* The client reads the envelope after those it has seen.
LEMMA ActionIsNext ==
    ASSUME Base, WarmInv, ReceiveAction
    PROVE  /\ serverSeq' = serverSeq + 1 /\ serverSeq + 1 \in serverSeq .. Len(log)
           /\ \A c \in Channels :
                 pending'[c] = ViewAfter(c, Consecutive(serverSeq, serverSeq + 1)).pending
<1>1. serverSeq \in Nat
  BY DEF Base, TypeOK, ClientTypes
<1>2. /\ Incoming.seq = serverSeq + 1 /\ serverSeq' = serverSeq + 1
      /\ serverSeq + 1 \in 1 .. Len(log)
  BY ActionArrives
<1>3. <<serverSeq + 1>> = Consecutive(serverSeq, serverSeq + 1)
  <2>1. (serverSeq + 1) - serverSeq = 1 /\ \A i \in 1 .. 1 : serverSeq + i = serverSeq + 1
    BY <1>1
  <2>2. Consecutive(serverSeq, serverSeq + 1) = [i \in 1 .. 1 |-> serverSeq + 1]
    BY <2>1 DEF Consecutive
  <2>3. <<serverSeq + 1>> = [i \in 1 .. 1 |-> serverSeq + 1]
    OBVIOUS
  <2> QED
    BY <2>2, <2>3
<1>4. pending' = [c \in Channels |-> ViewAfter(c, <<Incoming.seq>>).pending]
  BY DEF ReceiveAction, ReceiveEnvelopes
<1> QED
  BY <1>1, <1>2, <1>3, <1>4

\* The client reads the envelope of an action.
LEMMA ReceiveActionOrder ==
    ASSUME Base, WarmInv, OrderedLog, OrderedStreams, Waiting, ReceiveAction
    PROVE  OrderedLog' /\ OrderedStreams' /\ Waiting'
<1>1. /\ TypeOK /\ Resent \subseteq Channels
      /\ UNCHANGED <<log, toServer, state, open, transport>>
  BY ConstantsAssumption DEF Base, ReceiveAction, serverVars
<1>2. OrderedLog'
  BY <1>1 DEF OrderedLog
<1>3. ASSUME NEW c \in Resent, NEW n \in ToSet(pending'[c])
      PROVE  /\ n \in ToSet(pending[c])
             /\ \A k \in 0 .. Len(log) : Unseen(c, n, k) => Unseen(c, n, k)'
  <2>1. PICK k \in serverSeq .. Len(log) : k = serverSeq + 1 /\ serverSeq' = k
    BY ActionIsNext
  <2>2. c \in Channels /\ n \in ToSet(ViewAfter(c, Consecutive(serverSeq, k)).pending)
    BY <1>1, <1>3, <2>1, ActionIsNext
  <2>3. /\ n \in ToSet(pending[c])
        /\ \A j \in serverSeq + 1 .. k : log[j].channel = c => log[j].clientSeq # n
    BY <1>1, <2>2, StillPending
  <2>4. ASSUME NEW i \in 0 .. Len(log), Unseen(c, n, i)
        PROVE  Unseen(c, n, i)'
    <3>1. PICK j \in serverSeq + 1 .. i : log[j].channel = c /\ log[j].clientSeq = n
      BY <2>4 DEF Unseen
    <3>2. serverSeq \in Nat
      BY <1>1 DEF TypeOK, ClientTypes
    <3>3. j # serverSeq + 1
      BY <2>1, <2>3, <3>1, <3>2
    <3>4. j \in serverSeq' + 1 .. i
      BY <2>1, <3>1, <3>2, <3>3
    <3> QED
      BY <1>1, <3>1, <3>4 DEF Unseen
  <2> QED
    BY <2>3, <2>4
<1>4. Len(log) \in 0 .. Len(log) /\ \A k \in 1 .. Len(log) : k \in 0 .. Len(log)
  BY <1>1 DEF TypeOK, ServerTypes
<1>5. OrderedStreams'
  <2> SUFFICES ASSUME NEW t \in Transports, NEW i \in 1 .. Len(toServer[t]),
                      toServer[t][i].kind = "dispatch"
               PROVE  InOrder(toServer[t], i)'
    BY <1>1 DEF OrderedStreams
  <2>1. PICK s : s = toServer[t]
    OBVIOUS
  <2>2. InOrder(s, i)
    BY <2>1 DEF OrderedStreams
  <2>3. InOrder(s, i)'
    BY <1>1, <1>3, <1>4, <2>2 DEF InOrder, Below
  <2> QED
    BY <1>1, <2>1, <2>3
<1>6. Waiting'
  <2> SUFFICES ASSUME NEW c \in Resent, NEW n \in ToSet(pending'[c])
               PROVE  /\ \A k \in 1 .. Len(log) :
                            log[k].channel = c /\ n <= log[k].clientSeq => Unseen(c, n, k)'
                      /\ state = "connected" /\ open[transport] =>
                            \/ Unseen(c, n, Len(log))'
                            \/ Dispatch(c, n) \in ToSet(toServer[transport])
    BY <1>1 DEF Waiting
  <2>1. n \in ToSet(pending[c])
    BY <1>3
  <2> QED
    BY <1>1, <1>3, <1>4, <2>1 DEF Waiting
<1> QED
  BY <1>2, <1>5, <1>6

\* What is sent after a reconnection is in the order in which the client did
\* it, channel by channel.
LEMMA DrainedInOrder ==
    ASSUME TypeOK, Numbered, NEW ch, Assigned(ch), Queued,
           NEW p \in [Channels -> Seq(Nat)],
           \A c \in Channels : Increasing(p[c]) /\ ToSet(p[c]) \subseteq ToSet(pending[c])
    PROVE  LET s == Drained(p)
           IN  /\ s \in Seq(Action)
               /\ \A i, j \in 1 .. Len(s) :
                     i < j /\ s[i].channel = s[j].channel
                        => s[i].clientSeq < s[j].clientSeq
               /\ \A c \in Resent : \A n \in ToSet(p[c]) :
                     \E i \in 1 .. Len(s) : s[i] = Dispatch(c, n)
               /\ \A i \in 1 .. Len(s) :
                     \/ /\ s[i].channel \in Resent
                        /\ s[i].clientSeq \in ToSet(p[s[i].channel])
                     \/ s[i].clientSeq > Sent
<1> DEFINE s == Drained(p)
<1>0. Resent \subseteq Channels
  BY ConstantsAssumption
<1>1. PICK r : Resends(r, p) /\ s = r \o outbox
  BY DrainedResends
<1> HIDE DEF s
<1>2. r \in Seq(Action) /\ outbox \in Seq(Action)
  BY <1>1 DEF Resends, TypeOK, ClientTypes
<1>3. PICK N \in Nat, M \in Nat : N = Len(r) /\ M = Len(outbox)
  BY <1>2
<1>4. /\ s \in Seq(Action) /\ Len(s) = N + M
      /\ \A i \in 1 .. N + M : s[i] = IF i <= N THEN r[i] ELSE outbox[i - N]
  BY <1>1, <1>2, <1>3, ConcatOf
<1>5. PICK S \in Nat : S = Sent /\ clientSeq = S + M
  <2>1. clientSeq \in Nat /\ M <= clientSeq
    BY <1>3 DEF TypeOK, ClientTypes, Queued
  <2>2. clientSeq - M \in Nat /\ clientSeq = (clientSeq - M) + M
    BY <2>1
  <2>3. Sent = clientSeq - M
    BY <1>3 DEF Sent
  <2> QED
    BY <2>2, <2>3
<1>6. ASSUME NEW i \in 1 .. M
      PROVE  /\ outbox[i].clientSeq = S + i
             /\ outbox[i].channel = ch[S + i]
             /\ outbox[i] = Dispatch(ch[S + i], S + i)
             /\ outbox[i] \in ToSet(outbox)
  <2>1. outbox[i].clientSeq = S + i
    BY <1>3, <1>5 DEF Queued
  <2>2. outbox[i] \in ToSet(outbox)
    BY <1>2, <1>3 DEF ToSet
  <2>3. outbox[i].channel = ch[S + i]
    BY <2>1, <2>2 DEF Assigned
  <2>4. outbox[i] \in Action
    BY <1>2, <1>3
  <2> QED
    BY <2>1, <2>2, <2>3, <2>4 DEF Action, Dispatch
<1>7. ASSUME NEW i \in 1 .. N
      PROVE  /\ r[i].channel \in Resent
             /\ r[i].clientSeq \in ToSet(p[r[i].channel])
             /\ r[i].clientSeq \in 1 .. S
  <2>1. /\ r[i].channel \in Resent /\ r[i].clientSeq \in ToSet(p[r[i].channel])
        /\ r[i] \notin ToSet(outbox)
    BY <1>1, <1>3 DEF Resends
  <2>2. r[i].clientSeq \in ToSet(pending[r[i].channel]) /\ r[i].channel \in Channels
    BY <1>0, <2>1
  <2>3. /\ r[i].clientSeq \in 1 .. clientSeq
        /\ ch[r[i].clientSeq] = r[i].channel
    BY <2>2 DEF Numbered, Assigned
  <2>4. r[i] \in Action
    BY <1>2, <1>3
  <2>5. ASSUME r[i].clientSeq > S
        PROVE  FALSE
    <3>1. PICK j \in 1 .. M : S + j = r[i].clientSeq
      <4>1. r[i].clientSeq - S \in 1 .. M /\ S + (r[i].clientSeq - S) = r[i].clientSeq
        BY <1>5, <2>3, <2>5
      <4> QED
        BY <4>1
    <3>2. outbox[j] = Dispatch(r[i].channel, r[i].clientSeq) /\ outbox[j] \in ToSet(outbox)
      BY <1>6, <2>3, <3>1
    <3>3. r[i] = Dispatch(r[i].channel, r[i].clientSeq)
      BY <2>4 DEF Action, Dispatch
    <3> QED
      BY <2>1, <3>2, <3>3
  <2> QED
    BY <2>1, <2>3, <2>5
<1>8. ASSUME NEW i \in 1 .. Len(s), NEW j \in 1 .. Len(s),
             i < j, s[i].channel = s[j].channel
      PROVE  s[i].clientSeq < s[j].clientSeq
  <2>1. CASE j <= N
    <3>1. i \in 1 .. N /\ j \in 1 .. N /\ s[i] = r[i] /\ s[j] = r[j]
      BY <1>3, <1>4, <1>8, <2>1
    <3>2. \A c \in Resent : Increasing(p[c])
      BY <1>0
    <3> QED
      BY <1>1, <1>3, <1>8, <3>1, <3>2 DEF Resends
  <2>2. CASE i <= N /\ j > N
    <3>1. i \in 1 .. N /\ s[i] = r[i] /\ j - N \in 1 .. M /\ s[j] = outbox[j - N]
      BY <1>3, <1>4, <2>2
    <3>2. s[i].clientSeq \in 1 .. S /\ s[j].clientSeq = S + (j - N)
      BY <1>6, <1>7, <3>1
    <3> QED
      BY <3>1, <3>2
  <2>3. CASE i > N
    <3>1. /\ i - N \in 1 .. M /\ s[i] = outbox[i - N]
          /\ j - N \in 1 .. M /\ s[j] = outbox[j - N]
      BY <1>3, <1>4, <1>8, <2>3
    <3>2. s[i].clientSeq = S + (i - N) /\ s[j].clientSeq = S + (j - N)
      BY <1>6, <3>1
    <3> QED
      BY <1>3, <1>4, <1>8, <3>2
  <2> QED
    BY <1>3, <1>4, <1>8, <2>1, <2>2, <2>3
<1>9. ASSUME NEW c \in Resent, NEW n \in ToSet(p[c])
      PROVE  \E i \in 1 .. Len(s) : s[i] = Dispatch(c, n)
  <2>1. CASE Dispatch(c, n) \in ToSet(outbox)
    <3>1. PICK i \in 1 .. M : outbox[i] = Dispatch(c, n)
      BY <1>2, <1>3, <2>1 DEF ToSet
    <3>2. N + i \in 1 .. Len(s) /\ ~(N + i <= N) /\ (N + i) - N = i
      BY <1>3, <1>4
    <3>3. s[N + i] = outbox[i]
      BY <1>4, <3>2
    <3> QED
      BY <3>1, <3>2, <3>3
  <2>2. CASE \E i \in 1 .. Len(r) : r[i] = Dispatch(c, n)
    <3>1. PICK i \in 1 .. N : r[i] = Dispatch(c, n)
      BY <1>3, <2>2
    <3>2. i \in 1 .. Len(s) /\ s[i] = r[i]
      BY <1>3, <1>4
    <3> QED
      BY <3>1, <3>2
  <2> QED
    BY <1>1, <2>1, <2>2 DEF Resends
<1>10. ASSUME NEW i \in 1 .. Len(s)
       PROVE  \/ /\ s[i].channel \in Resent
                 /\ s[i].clientSeq \in ToSet(p[s[i].channel])
              \/ s[i].clientSeq > Sent
  <2>1. CASE i <= N
    BY <1>3, <1>4, <1>7, <2>1
  <2>2. CASE i > N
    <3>1. i - N \in 1 .. M /\ s[i] = outbox[i - N]
      BY <1>3, <1>4, <2>2
    <3>2. s[i].clientSeq = S + (i - N)
      BY <1>6, <3>1
    <3> QED
      BY <1>5, <3>1, <3>2
  <2> QED
    BY <1>3, <1>4, <2>1, <2>2
<1> QED
  BY <1>4, <1>8, <1>9, <1>10 DEF s

\* The client sends what is pending again, and then its outbox.
LEMMA DrainOrder ==
    ASSUME Base, Numbered, Kept, OrderedLog, Waiting,
           \A t \in Transports : toServer[t] = <<>>,
           UNCHANGED <<log, open, transport>>,
           toServer' = SentToServer(transport, Drained(pending')),
           pending' \in [Channels -> Seq(Nat)],
           \A c \in Channels :
               Increasing(pending'[c]) /\ ToSet(pending'[c]) \subseteq ToSet(pending[c]),
           \A c \in Resent : \A n \in ToSet(pending'[c]) : ~Unseen(c, n, Len(log))
    PROVE  OrderedLog' /\ OrderedStreams' /\ Waiting'
<1>1. /\ TypeOK /\ transport \in Transports /\ Resent \subseteq Channels
      /\ Len(log) \in Nat /\ serverSeq \in Nat
  BY ConstantsAssumption DEF Base, TypeOK, ClientTypes, ServerTypes
<1>2. PICK ch : Assigned(ch)
  BY DEF Kept
<1>3. PICK p : p = pending'
  OBVIOUS
<1>4. PICK s : s = Drained(p)
  OBVIOUS
<1>5. /\ s \in Seq(Action)
      /\ \A i, j \in 1 .. Len(s) :
            i < j /\ s[i].channel = s[j].channel => s[i].clientSeq < s[j].clientSeq
      /\ \A c \in Resent : \A n \in ToSet(p[c]) :
            \E i \in 1 .. Len(s) : s[i] = Dispatch(c, n)
      /\ \A i \in 1 .. Len(s) :
            \/ /\ s[i].channel \in Resent
               /\ s[i].clientSeq \in ToSet(p[s[i].channel])
            \/ s[i].clientSeq > Sent
  <2>1. p \in [Channels -> Seq(Nat)]
    BY <1>3
  <2>2. \A c \in Channels : Increasing(p[c]) /\ ToSet(p[c]) \subseteq ToSet(pending[c])
    BY <1>3
  <2>3. Queued
    BY DEF Kept
  <2> QED
    BY <1>1, <1>2, <1>4, <2>1, <2>2, <2>3, DrainedInOrder
<1>6. \A t \in Transports :
         toServer'[t] = IF t = transport /\ open[t] THEN s ELSE <<>>
  <2> SUFFICES ASSUME NEW t \in Transports
               PROVE  toServer'[t] = IF t = transport /\ open[t] THEN s ELSE <<>>
    OBVIOUS
  <2>1. toServer' = SentToServer(transport, s)
    BY <1>3, <1>4
  <2>2. toServer'[t] = IF t = transport /\ open[t] THEN toServer[t] \o s
                       ELSE toServer[t]
    BY <1>1, <2>1, Written
  <2>3. <<>> \o s = s
    BY <1>5
  <2> QED
    BY <2>2, <2>3
<1>7. OrderedLog'
  BY DEF OrderedLog

\* The server has taken neither of them, nor anything after them.
<1>8. ASSUME NEW c \in Resent, NEW n \in ToSet(p[c])
      PROVE  Below(c, n)
  <2> SUFFICES ASSUME NEW k \in 1 .. Len(log), log[k].channel = c,
                      log[k].clientSeq # 0, ~(log[k].clientSeq < n)
               PROVE  FALSE
    BY DEF Below
  <2>1. n \in ToSet(pending[c])
    BY <1>1, <1>3
  <2>2. n \in Nat /\ log[k].clientSeq \in Nat
    <3>1. c \in Channels
      BY <1>1
    <3>2. log[k] \in ToSet(log)
      BY <1>1 DEF ToSet, TypeOK, ServerTypes
    <3> QED
      BY <1>1, <2>1, <3>1, <3>2, NumbersTyped
  <2>3. Unseen(c, n, k)
    BY <2>1, <2>2 DEF Waiting
  <2>4. Unseen(c, n, Len(log))
    BY <1>1, <2>3 DEF Unseen
  <2> QED
    BY <1>3, <2>4
<1>9. \A i \in 1 .. Len(s) : Below(s[i].channel, s[i].clientSeq)
  <2> SUFFICES ASSUME NEW i \in 1 .. Len(s), s[i].clientSeq > Sent
               PROVE  Below(s[i].channel, s[i].clientSeq)
    BY <1>5, <1>8
  <2>1. ASSUME NEW k \in 1 .. Len(log)
        PROVE  log[k].clientSeq < s[i].clientSeq
    <3>1. log[k] \in ToSet(log)
      BY <1>1 DEF ToSet, TypeOK, ServerTypes
    <3>2. log[k].clientSeq <= Sent
      BY <3>1 DEF Kept, Queued
    <3>3. log[k].clientSeq \in Nat /\ s[i].clientSeq \in Nat /\ Sent \in Int
      <4>1. s[i] \in Action
        BY <1>5
      <4>2. clientSeq \in Nat /\ Len(outbox) \in Nat
        BY <1>1 DEF TypeOK, ClientTypes
      <4> QED
        BY <1>1, <3>1, <4>1, <4>2, NumbersTyped DEF Action, Sent
    <3> QED
      BY <3>2, <3>3
  <2> QED
    BY <2>1 DEF Below
<1>10. ASSUME NEW i \in 1 .. Len(s)
       PROVE  InOrder(s, i)'
  <2>1. Below(s[i].channel, s[i].clientSeq)'
    BY <1>9 DEF Below
  <2>2. i \in Nat /\ \A j \in 1 .. i - 1 : j \in 1 .. Len(s) /\ j < i
    BY <1>5
  <2>3. ASSUME s[i].channel \in Resent, NEW n \in ToSet(p[s[i].channel]),
               n < s[i].clientSeq
        PROVE  \E j \in 1 .. i - 1 : s[j] = Dispatch(s[i].channel, n)
    <3>1. PICK j \in 1 .. Len(s) : s[j] = Dispatch(s[i].channel, n)
      BY <1>5, <2>3
    <3>2. s[j].channel = s[i].channel /\ s[j].clientSeq = n
      BY <3>1 DEF Dispatch
    <3>3. s[i].clientSeq \in Nat /\ s[j].clientSeq \in Nat
      <4>1. s[i] \in Action /\ s[j] \in Action
        BY <1>5
      <4> QED
        BY <4>1 DEF Action
    <3>4. j # i /\ ~(i < j)
      BY <1>5, <2>3, <3>2, <3>3
    <3>5. j \in 1 .. i - 1
      BY <2>2, <3>4
    <3> QED
      BY <3>1, <3>5
  <2> QED
    BY <1>3, <1>5, <2>1, <2>2, <2>3 DEF InOrder
<1>11. OrderedStreams'
  <2> SUFFICES ASSUME NEW t \in Transports, NEW i \in 1 .. Len(toServer'[t])
               PROVE  InOrder(toServer[t], i)'
    BY DEF OrderedStreams
  <2>1. CASE toServer'[t] = s
    BY <1>10, <2>1
  <2>2. CASE toServer'[t] = <<>>
    BY <2>2
  <2> QED
    BY <1>6, <2>1, <2>2
<1>12. Waiting'
  <2> SUFFICES ASSUME NEW c \in Resent, NEW n \in ToSet(p[c])
               PROVE  /\ \A k \in 1 .. Len(log) :
                            log[k].channel = c /\ n <= log[k].clientSeq => Unseen(c, n, k)'
                      /\ open[transport] => Dispatch(c, n) \in ToSet(toServer'[transport])
    BY <1>3 DEF Waiting
  <2>1. Below(c, n)
    BY <1>8
  <2>2. n \in 1 .. clientSeq
    <3>1. n \in ToSet(pending[c]) /\ c \in Channels
      BY <1>1, <1>3
    <3> QED
      BY <3>1 DEF Numbered
  <2>3. ASSUME NEW k \in 1 .. Len(log), log[k].channel = c, n <= log[k].clientSeq
        PROVE  FALSE
    <3>1. log[k] \in ToSet(log)
      BY <1>1 DEF ToSet, TypeOK, ServerTypes
    <3>2. log[k].clientSeq \in Nat
      BY <1>1, <3>1, NumbersTyped
    <3> QED
      BY <2>1, <2>2, <2>3, <3>2 DEF Below
  <2>4. Dispatch(c, n) \in ToSet(s)
    <3>1. PICK i \in 1 .. Len(s) : s[i] = Dispatch(c, n)
      BY <1>5
    <3> QED
      BY <1>5, <3>1 DEF ToSet
  <2> QED
    BY <1>1, <1>6, <2>3, <2>4
<1> QED
  BY <1>7, <1>11, <1>12

\* Reading an answer or an envelope keeps what is pending in order.
LEMMA ReceiveIncreasing ==
    ASSUME TypeOK,
           ReceiveAction \/ ReceiveReplay \/ ReceiveSnapshots \/ ReceiveInitialized,
           NEW c \in Channels, Increasing(pending[c])
    PROVE  Increasing(pending'[c])
<1>1. toClient[transport] # <<>>
  BY DEF ReceiveAction, ReceiveReplay, ReceiveSnapshots, ReceiveInitialized, ClientReads
<1>2. Increasing(<<>>)
  BY DEF Increasing
<1>3. ASSUME NEW ns \in Seq(1 .. Len(log))
      PROVE  Increasing(ViewAfter(c, ns).pending)
  <2>1. ns \in Seq(Nat)
    <3>1. Seq(1 .. Len(log)) \subseteq Seq(Nat)
      BY SeqOfSuperset DEF TypeOK, ServerTypes
    <3> QED
      BY <3>1
  <2>2. View(c) \in AView /\ View(c).pending = pending[c]
    BY ViewIsTyped
  <2> QED
    BY <2>1, <2>2, PendingAfter
<1>4. CASE ReceiveAction
  <2>1. <<Incoming.seq>> \in Seq(1 .. Len(log))
    BY <1>1, <1>4, IncomingMembers DEF ReceiveAction, ClientReads
  <2>2. pending'[c] = ViewAfter(c, <<Incoming.seq>>).pending
    BY <1>4 DEF ReceiveAction, ReceiveEnvelopes
  <2> QED
    BY <1>3, <2>1, <2>2
<1>5. CASE ReceiveReplay
  <2>1. Incoming.seqs \in Seq(1 .. Len(log))
    BY <1>1, <1>5, IncomingMembers DEF ReceiveReplay, ClientReads
  <2>2. pending'[c] = <<>> \/ pending'[c] = ViewAfter(c, Incoming.seqs).pending
    BY <1>5 DEF ReceiveReplay
  <2> QED
    BY <1>2, <1>3, <2>1, <2>2
<1>6. CASE ReceiveSnapshots
  <2>1. pending'[c] = <<>> \/ pending'[c] = pending[c]
    BY <1>6 DEF ReceiveSnapshots
  <2> QED
    BY <1>2, <2>1
<1>7. CASE ReceiveInitialized
  BY <1>7 DEF ReceiveInitialized
<1> QED
  BY <1>4, <1>5, <1>6, <1>7

\* A replay leaves pending what the server has not taken, because it has taken
\* nothing since it answered.
LEMMA ReplayLeaves ==
    ASSUME Base, WarmInv, Numbered, Quiet, ReceiveReplay,
           NEW c \in Channels, NEW n \in ToSet(pending'[c])
    PROVE  ~Unseen(c, n, Len(log))
<1>1. TypeOK /\ serverSeq \in Nat /\ Len(log) \in Nat
  BY DEF Base, TypeOK, ClientTypes, ServerTypes
<1>2. /\ toClient[transport] # <<>> /\ Incoming.kind = "replay"
      /\ state = "reconnecting"
      /\ pending'[c] = IF c \in Incoming.missing \cap Resent THEN <<>>
                       ELSE ViewAfter(c, Incoming.seqs).pending
  BY DEF ReceiveReplay, ClientReads
<1>3. PICK k \in serverSeq .. Len(log) : Brings(Incoming, k)
  BY <1>2, AnswerRead DEF WarmInv
<1>4. Incoming.seqs = Consecutive(serverSeq, k) /\ Incoming.missing = {}
  BY <1>2, <1>3 DEF Brings
<1>5. n \in ToSet(ViewAfter(c, Consecutive(serverSeq, k)).pending)
  BY <1>2, <1>4
<1>6. /\ n \in ToSet(pending[c])
      /\ \A j \in serverSeq + 1 .. k : log[j].channel = c => log[j].clientSeq # n
  BY <1>1, <1>5, StillPending
<1>7. \A j \in k + 1 .. Len(log) : log[j].clientSeq = 0
  BY <1>2, <1>3 DEF Quiet
<1>8. n # 0
  BY <1>6 DEF Numbered
<1> SUFFICES ASSUME NEW j \in serverSeq + 1 .. Len(log),
                    log[j].channel = c, log[j].clientSeq = n
             PROVE  FALSE
  BY DEF Unseen
<1>9. j \in serverSeq + 1 .. k \/ j \in k + 1 .. Len(log)
  BY <1>1
<1> QED
  BY <1>6, <1>7, <1>8, <1>9

\* The client reads the answer to its reconnection, and drains.
LEMMA AnswerOrder ==
    ASSUME Base, Base', WarmInv, Numbered, Kept, OrderedLog, Waiting, Quiet,
           ReceiveReplay \/ ReceiveSnapshots
    PROVE  OrderedLog' /\ OrderedStreams' /\ Waiting'
<1>1. TypeOK /\ Resent \subseteq Channels /\ pending' \in [Channels -> Seq(Nat)]
  BY ConstantsAssumption DEF Base, TypeOK, ClientTypes
<1>2. /\ toClient[transport] # <<>> /\ state = "reconnecting"
      /\ Incoming.kind \in {"replay", "snapshot"}
      /\ UNCHANGED <<log, open, transport>>
      /\ toServer' = SentToServer(transport, Drained(pending'))
  BY DEF ReceiveReplay, ReceiveSnapshots, ClientReads, DrainAfterReconnect, serverVars
<1>3. \A t \in Transports : toServer[t] = <<>>
  BY <1>2 DEF Quiet
<1>4. ASSUME NEW c \in Channels
      PROVE  Increasing(pending'[c]) /\ ToSet(pending'[c]) \subseteq ToSet(pending[c])
  BY <1>1, ReceiveIncreasing, ReceivePending DEF Kept
<1>5. ASSUME NEW c \in Resent, NEW n \in ToSet(pending'[c])
      PROVE  ~Unseen(c, n, Len(log))
  <2>0. c \in Channels
    BY <1>1
  <2>1. CASE ReceiveReplay
    BY <1>5, <2>0, <2>1, ReplayLeaves
  <2>2. CASE ReceiveSnapshots
    <3>1. PICK k \in serverSeq .. Len(log) : Brings(Incoming, k)
      BY <1>2, AnswerRead DEF WarmInv
    <3>2. Incoming.kind = "snapshot"
      BY <2>2 DEF ReceiveSnapshots, ClientReads
    <3>3. DOMAIN Incoming.seqs = Channels
      BY <3>1, <3>2 DEF Brings
    <3>4. pending'[c] = <<>>
      BY <1>1, <2>0, <2>2, <3>3 DEF ReceiveSnapshots
    <3> QED
      BY <1>5, <3>4 DEF ToSet
  <2> QED
    BY <2>1, <2>2
<1> QED
  BY <1>1, <1>2, <1>3, <1>4, <1>5, DrainOrder

\* The actions on their way come before one the client is about to do.
LEMMA NumbersBefore ==
    ASSUME TypeOK, Numbered
    PROVE  /\ clientSeq \in Nat
           /\ \A k \in 1 .. Len(log) : log[k].clientSeq \in 0 .. clientSeq
           /\ \A t \in Transports : \A i \in 1 .. Len(toServer[t]) :
                 toServer[t][i].kind = "dispatch" =>
                    toServer[t][i].clientSeq \in 0 .. clientSeq
           /\ \A c \in Channels : \A n \in ToSet(pending[c]) : n \in 1 .. clientSeq
<1>1. \A k \in 1 .. Len(log) : log[k] \in ToSet(log)
  BY DEF ToSet, TypeOK, ServerTypes
<1>2. ASSUME NEW t \in Transports
      PROVE  \A i \in 1 .. Len(toServer[t]) : toServer[t][i] \in ToSet(toServer[t])
  <2>1. toServer[t] \in Seq(Request)
    BY DEF TypeOK, TransportTypes
  <2> QED
    BY <2>1 DEF ToSet
<1>3. clientSeq \in Nat
  BY DEF TypeOK, ClientTypes
<1> QED
  BY <1>1, <1>2, <1>3 DEF Numbered

\* They keep their place when it has been done, and is sent after them.
LEMMA InOrderStays ==
    ASSUME NEW c \in Channels, NEW x \in Nat, NEW s, NEW q, NEW i \in Nat,
           UNCHANGED <<log, serverSeq>>,
           \A d \in Channels : \A n \in ToSet(pending'[d]) :
               n \in ToSet(pending[d]) \/ n = x,
           \A j \in 1 .. i : q[j] = s[j], i >= 1,
           s[i].clientSeq \in Nat, s[i].clientSeq < x,
           InOrder(s, i)
    PROVE  InOrder(q, i)'
<1>1. Resent \subseteq Channels
  BY ConstantsAssumption
<1>2. q[i] = s[i] /\ \A j \in 1 .. i - 1 : q[j] = s[j]
  OBVIOUS
<1>3. Below(q[i].channel, q[i].clientSeq)'
  BY <1>2 DEF InOrder, Below
<1>4. \A j \in 1 .. i - 1 :
         q[j].kind = "dispatch" /\ q[j].channel = q[i].channel
            => q[j].clientSeq < q[i].clientSeq
  BY <1>2 DEF InOrder
<1>5. ASSUME q[i].channel \in Resent, NEW n \in ToSet(pending'[q[i].channel]),
             n < q[i].clientSeq
      PROVE  \/ Unseen(q[i].channel, n, Len(log))'
             \/ \E j \in 1 .. i - 1 : q[j] = Dispatch(q[i].channel, n)
  <2>1. n # x
    BY <1>2, <1>5
  <2>2. n \in ToSet(pending[s[i].channel]) /\ s[i].channel \in Resent
    BY <1>1, <1>2, <1>5, <2>1
  <2>3. \/ Unseen(s[i].channel, n, Len(log))
        \/ \E j \in 1 .. i - 1 : s[j] = Dispatch(s[i].channel, n)
    BY <1>2, <1>5, <2>2 DEF InOrder
  <2> QED
    BY <1>2, <2>3 DEF Unseen
<1> QED
  BY <1>3, <1>4, <1>5 DEF InOrder

\* The client dispatches its next action.
LEMMA ClientDispatchOrder ==
    ASSUME Base, WarmInv, Numbered, Kept, OrderedLog, OrderedStreams, Waiting,
           NEW c \in Channels, ClientDispatch(c)
    PROVE  OrderedLog' /\ OrderedStreams' /\ Waiting'
<1>1. /\ TypeOK /\ transport \in Transports /\ Resent \subseteq Channels
      /\ Len(log) \in Nat /\ serverSeq \in Nat
      /\ UNCHANGED <<log, serverSeq, state, open, transport>>
  BY ConstantsAssumption
     DEF Base, TypeOK, ClientTypes, ServerTypes, ClientDispatch, serverVars
<1>2. PICK x \in Nat : x = clientSeq + 1
  BY <1>1 DEF TypeOK, ClientTypes
<1>3. pending' = [pending EXCEPT ![c] = Append(@, x)]
  BY <1>2 DEF ClientDispatch
<1>4. /\ \A d \in Channels : ToSet(pending'[d]) =
             IF d = c THEN ToSet(pending[d]) \cup {x} ELSE ToSet(pending[d])
  <2> SUFFICES ASSUME NEW d \in Channels
               PROVE  ToSet(pending'[d]) =
             IF d = c THEN ToSet(pending[d]) \cup {x} ELSE ToSet(pending[d])
    OBVIOUS
  <2>1. pending \in [Channels -> Seq(Nat)]
    BY <1>1 DEF TypeOK, ClientTypes
  <2>2. pending'[d] = IF d = c THEN Append(pending[d], x) ELSE pending[d]
    BY <1>3, <2>1
  <2>3. ToSet(Append(pending[d], x)) = ToSet(pending[d]) \cup {x}
    BY <2>1, MembersOf
  <2> QED
    BY <2>2, <2>3
<1>5. \A d \in Channels : \A n \in ToSet(pending'[d]) :
         n \in ToSet(pending[d]) \/ (n = x /\ d = c)
  BY <1>4
<1>6. /\ \A k \in 1 .. Len(log) : log[k].clientSeq \in Nat /\ log[k].clientSeq < x
      /\ \A t \in Transports : \A i \in 1 .. Len(toServer[t]) :
            toServer[t][i].kind = "dispatch" =>
               toServer[t][i].clientSeq \in Nat /\ toServer[t][i].clientSeq < x
  BY <1>1, <1>2, NumbersBefore
<1>7. OrderedLog'
  BY <1>1 DEF OrderedLog
<1>8. ASSUME NEW t \in Transports, NEW q, NEW i \in 1 .. Len(toServer[t]),
             \A j \in 1 .. i : q[j] = toServer[t][j],
             toServer[t][i].kind = "dispatch"
      PROVE  InOrder(q, i)'
  <2>1. PICK s : s = toServer[t]
    OBVIOUS
  <2>2. InOrder(s, i) /\ s[i].clientSeq \in Nat /\ s[i].clientSeq < x
    BY <1>6, <1>8, <2>1 DEF OrderedStreams
  <2>3. i \in Nat /\ i >= 1
    BY <1>1 DEF TypeOK, TransportTypes
  <2>4. \A j \in 1 .. i : q[j] = s[j]
    BY <1>8, <2>1
  <2>5. UNCHANGED <<log, serverSeq>>
    BY <1>1
  <2>6. \A d \in Channels : \A n \in ToSet(pending'[d]) :
               n \in ToSet(pending[d]) \/ n = x
    BY <1>5
  <2> QED
    BY <2>2, <2>3, <2>4, <2>5, <2>6, InOrderStays
<1>9. CASE state = "connected" /\ open[transport]
  <2>1. PICK s : s = toServer[transport]
    OBVIOUS
  <2>2. PICK a : a = Dispatch(c, x)
    OBVIOUS
  <2>3. s \in Seq(Request) /\ a \in Request
    BY <1>1, <2>1, <2>2, DispatchType DEF TypeOK, TransportTypes, Request
  <2>4. PICK q : q = Append(s, a)
    OBVIOUS
  <2>5. /\ q \in Seq(Request) /\ Len(q) = Len(s) + 1 /\ Len(s) \in Nat
        /\ \A i \in 1 .. Len(s) + 1 : q[i] = IF i <= Len(s) THEN s[i] ELSE a
        /\ ToSet(q) = ToSet(s) \cup {a}
    BY <2>3, <2>4, AppendOf, MembersOf
  <2>6. \A t \in Transports : toServer'[t] = IF t = transport THEN q ELSE toServer[t]
    <3> SUFFICES ASSUME NEW t \in Transports
                 PROVE  toServer'[t] = IF t = transport THEN q ELSE toServer[t]
      OBVIOUS
    <3>1. toServer' = SentToServer(transport, <<a>>)
      BY <1>2, <1>9, <2>2 DEF ClientDispatch
    <3>2. toServer'[t] = IF t = transport /\ open[t] THEN toServer[t] \o <<a>>
                         ELSE toServer[t]
      BY <1>1, <3>1, Written
    <3>3. s \o <<a>> = q
      BY <2>3, <2>4
    <3> QED
      BY <1>9, <2>1, <3>2, <3>3
  <2>7. InOrder(q, Len(s) + 1)'
    <3> DEFINE i == Len(s) + 1
    <3>1. /\ q[i] = a /\ a.channel = c /\ a.clientSeq = x
          /\ \A j \in 1 .. i - 1 : j \in 1 .. Len(s) /\ q[j] = s[j]
      BY <2>2, <2>5, DispatchType
    <3> HIDE DEF i
    <3>2. Below(q[i].channel, q[i].clientSeq)'
      BY <1>1, <1>6, <3>1 DEF Below
    <3>3. \A j \in 1 .. i - 1 :
             q[j].kind = "dispatch" /\ q[j].channel = q[i].channel
                => q[j].clientSeq < q[i].clientSeq
      BY <1>1, <1>6, <2>1, <3>1
    <3>4. ASSUME c \in Resent, NEW n \in ToSet(pending'[c]), n < x
          PROVE  \/ Unseen(c, n, Len(log))'
                 \/ \E j \in 1 .. i - 1 : q[j] = Dispatch(c, n)
      <4>1. n \in ToSet(pending[c])
        BY <1>2, <1>5, <3>4
      <4>2. \/ Unseen(c, n, Len(log))
            \/ Dispatch(c, n) \in ToSet(s)
        BY <1>9, <2>1, <3>4, <4>1 DEF Waiting
      <4>3. CASE Unseen(c, n, Len(log))
        BY <1>1, <4>3 DEF Unseen
      <4>4. CASE Dispatch(c, n) \in ToSet(s)
        <5>1. PICK j \in 1 .. Len(s) : s[j] = Dispatch(c, n)
          BY <2>3, <4>4 DEF ToSet
        <5>2. j \in 1 .. i - 1
          BY <2>5 DEF i
        <5> QED
          BY <3>1, <5>1, <5>2
      <4> QED
        BY <4>2, <4>3, <4>4
    <3>5. InOrder(q, i)'
      BY <3>1, <3>2, <3>3, <3>4 DEF InOrder
    <3> QED
      BY <3>5 DEF i
  <2>8. OrderedStreams'
    <3> SUFFICES ASSUME NEW t \in Transports, NEW i \in 1 .. Len(toServer'[t]),
                        toServer'[t][i].kind = "dispatch"
                 PROVE  InOrder(toServer[t], i)'
      BY DEF OrderedStreams
    <3>1. CASE t # transport
      <4>1. toServer'[t] = toServer[t]
        BY <2>6, <3>1
      <4> QED
        BY <1>8, <4>1
    <3>2. CASE t = transport
      <4>1. toServer'[t] = q
        BY <2>6, <3>2
      <4>2. CASE i = Len(s) + 1
        BY <2>7, <4>1, <4>2
      <4>3. CASE i # Len(s) + 1
        <5>1. i \in 1 .. Len(toServer[t]) /\ q[i] = s[i]
          BY <2>1, <2>5, <3>2, <4>1, <4>3
        <5>2. \A j \in 1 .. i : q[j] = toServer[t][j]
          BY <2>1, <2>5, <3>2, <5>1
        <5>3. toServer[t][i].kind = "dispatch"
          BY <2>1, <3>2, <4>1, <5>1
        <5> QED
          BY <1>8, <4>1, <5>1, <5>2, <5>3
      <4> QED
        BY <4>2, <4>3
    <3> QED
      BY <3>1, <3>2
  <2>9. Waiting'
    <3> SUFFICES ASSUME NEW d \in Resent, NEW n \in ToSet(pending'[d])
                 PROVE  /\ \A k \in 1 .. Len(log) :
                              log[k].channel = d /\ n <= log[k].clientSeq => Unseen(d, n, k)'
                        /\ \/ Unseen(d, n, Len(log))'
                           \/ Dispatch(d, n) \in ToSet(q)
      BY <1>1, <2>6 DEF Waiting
    <3>1. CASE n \in ToSet(pending[d])
      <4>1. \A k \in 1 .. Len(log) :
               log[k].channel = d /\ n <= log[k].clientSeq => Unseen(d, n, k)
        BY <3>1 DEF Waiting
      <4>2. Unseen(d, n, Len(log)) \/ Dispatch(d, n) \in ToSet(s)
        BY <1>9, <2>1, <3>1 DEF Waiting
      <4> QED
        BY <1>1, <2>5, <4>1, <4>2 DEF Unseen
    <3>2. CASE n = x /\ d = c
      <4>1. \A k \in 1 .. Len(log) : ~(n <= log[k].clientSeq)
        BY <1>6, <3>2
      <4> QED
        BY <2>2, <2>5, <3>2, <4>1
    <3> QED
      BY <1>1, <1>5, <3>1, <3>2
  <2> QED
    BY <1>7, <2>8, <2>9
<1>10. CASE ~(state = "connected" /\ open[transport])
  <2>1. toServer' = toServer
    <3>1. toServer' = SentToServer(transport, <<Dispatch(c, x)>>) \/ toServer' = toServer
      BY <1>2 DEF ClientDispatch
    <3>2. CASE state # "connected"
      BY <3>2 DEF ClientDispatch
    <3>3. CASE ~open[transport]
      BY <3>1, <3>3 DEF SentToServer
    <3> QED
      BY <1>10, <3>2, <3>3
  <2>2. OrderedStreams'
    <3> SUFFICES ASSUME NEW t \in Transports, NEW i \in 1 .. Len(toServer[t]),
                        toServer[t][i].kind = "dispatch"
                 PROVE  InOrder(toServer[t], i)'
      BY <2>1 DEF OrderedStreams
    <3>1. PICK q : q = toServer[t]
      OBVIOUS
    <3>2. InOrder(q, i)'
      BY <1>8, <3>1
    <3> QED
      BY <2>1, <3>1, <3>2
  <2>3. Waiting'
    <3> SUFFICES ASSUME NEW d \in Resent, NEW n \in ToSet(pending'[d]),
                        NEW k \in 1 .. Len(log),
                        log[k].channel = d, n <= log[k].clientSeq
                 PROVE  Unseen(d, n, k)'
      BY <1>1, <1>10 DEF Waiting
    <3>1. n # x
      BY <1>6
    <3>2. n \in ToSet(pending[d])
      BY <1>1, <1>5, <3>1
    <3>3. Unseen(d, n, k)
      BY <3>2 DEF Waiting
    <3> QED
      BY <1>1, <3>3 DEF Unseen
  <2> QED
    BY <1>7, <2>2, <2>3
<1> QED
  BY <1>9, <1>10

\* The server reads a request, the only message of its transport, or sees the
\* transport close.
LEMMA RequestOrder ==
    ASSUME Base, WarmInv, OrderedLog, OrderedStreams, Waiting, NEW t \in Transports,
           ReceiveReconnect(t) \/ ReceiveInitialize(t) \/ ServerClosed(t)
    PROVE  OrderedLog' /\ OrderedStreams' /\ Waiting'
<1>1. /\ TypeOK /\ Attachments /\ transport \in Transports
      /\ UNCHANGED <<log, serverSeq, pending, state, open, transport>>
  BY DEF Base, TypeOK, ClientTypes, WarmInv, ReceiveReconnect, ReceiveInitialize,
         ServerClosed, clientVars
<1>2. toServer'[t] = <<>> /\ \A u \in Transports : u # t => toServer'[u] = toServer[u]
  <2>1. CASE ReceiveReconnect(t) \/ ReceiveInitialize(t)
    <3>1. /\ toServer[t] # <<>> /\ Head(toServer[t]).kind # "dispatch"
          /\ toServer' = [toServer EXCEPT ![t] = Tail(@)]
      BY <2>1 DEF ReceiveReconnect, ReceiveInitialize, ServerReads
    <3>2. Tail(toServer[t]) = <<>>
      BY <1>1, <3>1, ShapeRead
    <3> QED
      BY <1>1, <3>1, <3>2 DEF TypeOK, TransportTypes
  <2>2. CASE ServerClosed(t)
    BY <1>1, <2>2 DEF ServerClosed, TypeOK, TransportTypes
  <2> QED
    BY <2>1, <2>2
<1>3. ASSUME state = "connected", open[transport]
      PROVE  transport # t
  <2>1. CASE ReceiveReconnect(t) \/ ReceiveInitialize(t)
    <3>1. /\ toServer[t] # <<>> /\ Head(toServer[t]).kind # "dispatch"
      BY <2>1 DEF ReceiveReconnect, ReceiveInitialize, ServerReads
    <3>2. ~Attached(t)
      BY <1>1, <3>1, ShapeRead
    <3>3. Attached(transport)
      BY <1>3, ConnectionAttached DEF WarmInv
    <3> QED
      BY <3>2, <3>3
  <2>2. CASE ServerClosed(t)
    BY <1>3, <2>2 DEF ServerClosed
  <2> QED
    BY <2>1, <2>2
<1>4. \A u \in Transports :
          \/ toServer'[u] = toServer[u]
          \/ \A i \in 1 .. Len(toServer'[u]) : toServer'[u][i].kind # "dispatch"
  BY <1>2
<1>5. state' = "connected" /\ open'[transport'] =>
          /\ state = "connected" /\ open[transport]
          /\ toServer'[transport'] = toServer[transport]
  BY <1>1, <1>2, <1>3
<1>6. UNCHANGED <<log, serverSeq, pending>>
  BY <1>1
<1> QED
  BY <1>4, <1>5, <1>6, OrderKept

\* The transport is lost, or another one opened.
LEMMA TransportOrder ==
    ASSUME Base, OrderedLog, OrderedStreams, Waiting,
           Lose \/ TransportClosed \/ AttemptReconnect
    PROVE  OrderedLog' /\ OrderedStreams' /\ Waiting'
<1>1. TypeOK /\ transport \in Transports
  BY DEF Base, TypeOK, ClientTypes
<1>2. UNCHANGED <<log, serverSeq, pending>>
  BY DEF Lose, TransportClosed, AttemptReconnect, serverVars, clientVars
<1>3. ~(state' = "connected" /\ open'[transport'])
  <2>1. CASE Lose
    BY <1>1, <2>1 DEF Lose, clientVars, TypeOK, TransportTypes
  <2>2. CASE TransportClosed
    BY <2>2 DEF TransportClosed
  <2>3. CASE AttemptReconnect
    BY <2>3 DEF AttemptReconnect
  <2> QED
    BY <2>1, <2>2, <2>3
<1>4. ASSUME NEW t \in Transports
      PROVE  \/ toServer'[t] = toServer[t]
             \/ \A i \in 1 .. Len(toServer'[t]) : toServer'[t][i].kind # "dispatch"
  <2>1. CASE Lose \/ TransportClosed
    BY <2>1 DEF Lose, TransportClosed
  <2>2. CASE AttemptReconnect
    <3> DEFINE m == [kind |-> "reconnect", seq |-> serverSeq]
    <3>1. toServer' = [toServer EXCEPT ![transport'] = <<m>>]
      BY <2>2 DEF AttemptReconnect
    <3>2. m.kind # "dispatch"
      OBVIOUS
    <3> HIDE DEF m
    <3>3. CASE t = transport'
      <4>1. toServer'[t] = <<m>>
        BY <1>1, <3>1, <3>3 DEF TypeOK, TransportTypes
      <4> QED
        BY <3>2, <4>1
    <3>4. CASE t # transport'
      BY <1>1, <3>1, <3>4 DEF TypeOK, TransportTypes
    <3> QED
      BY <3>3, <3>4
  <2> QED
    BY <2>1, <2>2
<1> QED
  BY <1>2, <1>3, <1>4, OrderKept

\* A step that leaves the streams to the server alone.
LEMMA IdleOrder ==
    ASSUME OrderedLog, OrderedStreams, Waiting,
           \/ Forget \/ UNCHANGED vars
           \/ \E t \in Transports :
                 \/ AnswerReconnect(t)
                 \/ \E c \in Channels : RestoreChannel(t, c)
    PROVE  OrderedLog' /\ OrderedStreams' /\ Waiting'
<1>1. UNCHANGED <<log, serverSeq, pending, toServer, state, open, transport>>
  BY DEF Forget, vars, AnswerReconnect, RestoreChannel, clientVars
<1>2. UNCHANGED <<log, serverSeq, pending>>
  BY <1>1
<1>3. \A t \in Transports :
          \/ toServer'[t] = toServer[t]
          \/ \A i \in 1 .. Len(toServer'[t]) : toServer'[t][i].kind # "dispatch"
  BY <1>1
<1>4. state' = "connected" /\ open'[transport'] =>
          /\ state = "connected" /\ open[transport]
          /\ toServer'[transport'] = toServer[transport]
  BY <1>1
<1> QED
  BY <1>2, <1>3, <1>4, OrderKept

\* Nobody tells a client that the server remembers that it does not.
LEMMA NeverUnknown ==
    ASSUME TypeOK, Remembered
    PROVE  /\ ~ReceiveNotFound /\ ~ReceiveInitialized
           /\ \A t \in Transports : ~ReceiveInitialize(t)
<1>1. transport \in Transports
  BY DEF TypeOK, ClientTypes
<1>2. ~ReceiveNotFound
  <2> SUFFICES ASSUME ReceiveNotFound
               PROVE  FALSE
    OBVIOUS
  <2>1. toClient[transport] # <<>> /\ Incoming.kind = "notFound"
    BY DEF ReceiveNotFound, ClientReads
  <2>2. Incoming \in ToSet(toClient[transport])
    BY <1>1, <2>1, WrittenMembers
  <2> QED
    BY <1>1, <2>1, <2>2 DEF Remembered
<1>3. ~ReceiveInitialized
  BY DEF ReceiveInitialized, Remembered
<1>4. ASSUME NEW t \in Transports, ReceiveInitialize(t)
      PROVE  FALSE
  <2>1. toServer[t] # <<>> /\ Head(toServer[t]).kind = "initialize"
    BY <1>4 DEF ReceiveInitialize, ServerReads
  <2>2. Head(toServer[t]) \in ToSet(toServer[t])
    BY <2>1, WrittenMembers
  <2> QED
    BY <2>1, <2>2 DEF Remembered
<1> QED
  BY <1>2, <1>3, <1>4

\* That an action was queued once remains so.
LEMMA QueueingStays ==
    ASSUME [Next]_vars
    PROVE  queueing => queueing'
BY Steps DEF ServerAction, ClientDispatch, QueueStep, Forget, ReceiveDispatch,
   ReceiveReconnect, ReceiveInitialize, AnswerReconnect, ServerClosed,
   RestoreChannel, Lose, TransportClosed, AttemptReconnect, ReceiveNotFound,
   ReceiveAction, ReceiveReplay, ReceiveSnapshots, ReceiveInitialized,
   serverVars, vars

\* Every step keeps the actions in order.
LEMMA OrderedNext ==
    ASSUME Base, Base', OwnInv, WarmInv, OrderInv, [Next]_vars, ~forgotten', ~queueing'
    PROVE  OrderedLog' /\ OrderedStreams' /\ Waiting'
<1>1. ~forgotten /\ ~queueing
  <2>1. ~forgotten
    BY ForgottenStays
  <2>2. queueing => queueing'
    BY QueueingStays
  <2> QED
    BY <2>1, <2>2
<1>2. /\ Kept /\ OrderedLog /\ OrderedStreams /\ Waiting /\ Quiet
      /\ Numbered /\ Remembered /\ TypeOK /\ Attachments
  BY <1>1 DEF OrderInv, OwnInv, WarmInv, Base
<1>3. ASSUME NEW c \in Channels, ServerAction(c)
      PROVE  OrderedLog' /\ OrderedStreams' /\ Waiting'
  BY <1>2, <1>3, ServerActionOrder
<1>4. ASSUME NEW c \in Channels, ClientDispatch(c)
      PROVE  OrderedLog' /\ OrderedStreams' /\ Waiting'
  BY <1>2, <1>4, ClientDispatchOrder
<1>5. ~QueueStep
  BY <1>2 DEF QueueStep, Kept
<1>6. ASSUME NEW t \in Transports, ReceiveDispatch(t)
      PROVE  OrderedLog' /\ OrderedStreams' /\ Waiting'
  BY <1>2, <1>6, ReceiveDispatchOrder
<1>7. ASSUME NEW t \in Transports,
             ReceiveReconnect(t) \/ ReceiveInitialize(t) \/ ServerClosed(t)
      PROVE  OrderedLog' /\ OrderedStreams' /\ Waiting'
  BY <1>2, <1>7, RequestOrder
<1>8. ASSUME Lose \/ TransportClosed \/ AttemptReconnect
      PROVE  OrderedLog' /\ OrderedStreams' /\ Waiting'
  BY <1>2, <1>8, TransportOrder
<1>9. ASSUME \/ Forget \/ UNCHANGED vars
             \/ \E t \in Transports :
                   \/ AnswerReconnect(t)
                   \/ \E c \in Channels : RestoreChannel(t, c)
      PROVE  OrderedLog' /\ OrderedStreams' /\ Waiting'
  BY <1>2, <1>9, IdleOrder
<1>10. ASSUME ReceiveAction
       PROVE  OrderedLog' /\ OrderedStreams' /\ Waiting'
  BY <1>2, <1>10, ReceiveActionOrder
<1>11. ASSUME ReceiveReplay \/ ReceiveSnapshots
       PROVE  OrderedLog' /\ OrderedStreams' /\ Waiting'
  BY <1>2, <1>11, AnswerOrder
<1>12. ~ReceiveNotFound /\ ~ReceiveInitialized
  BY <1>2, NeverUnknown
<1> QED
  BY <1>3, <1>4, <1>5, <1>6, <1>7, <1>8, <1>9, <1>10, <1>11, <1>12, Steps

\* Where an action of the client may go: to the server, and into its log.
LEMMA AssignedKept ==
    ASSUME NEW ch, Assigned(ch), Resent \subseteq Channels,
           \A e \in ToSet(log') :
               \/ e \in ToSet(log) \/ e.clientSeq = 0
               \/ \E t \in Transports : \E m \in ToSet(toServer[t]) :
                     /\ m.kind = "dispatch"
                     /\ e.clientSeq = m.clientSeq /\ e.channel = m.channel,
           \A t \in Transports : \A m \in ToSet(toServer'[t]) :
               \/ m.kind # "dispatch" \/ m \in ToSet(outbox)
               \/ \E u \in Transports : m \in ToSet(toServer[u])
               \/ m.channel \in Resent /\ m.clientSeq \in ToSet(pending[m.channel]),
           \A m \in ToSet(outbox') : m \in ToSet(outbox),
           \A c \in Channels : ToSet(pending'[c]) \subseteq ToSet(pending[c])
    PROVE  Assigned(ch)'
<1>1. \A e \in ToSet(log') : e.clientSeq # 0 => ch[e.clientSeq] = e.channel
  BY DEF Assigned
<1>2. \A t \in Transports : \A m \in ToSet(toServer'[t]) :
         m.kind = "dispatch" => ch[m.clientSeq] = m.channel
  BY DEF Assigned
<1>3. \A m \in ToSet(outbox') : ch[m.clientSeq] = m.channel
  BY DEF Assigned
<1>4. \A c \in Channels : \A n \in ToSet(pending'[c]) : ch[n] = c
  BY DEF Assigned
<1> QED
  BY <1>1, <1>2, <1>3, <1>4 DEF Assigned

\* Nothing leaves or enters the outbox.
LEMMA QueuedKept ==
    ASSUME TypeOK, Queued, UNCHANGED <<outbox, clientSeq>>,
           state' = "connected" => state = "connected",
           \A e \in ToSet(log') :
               \/ e \in ToSet(log) \/ e.clientSeq = 0
               \/ \E t \in Transports : \E m \in ToSet(toServer[t]) :
                     /\ m.kind = "dispatch"
                     /\ e.clientSeq = m.clientSeq /\ e.channel = m.channel,
           \A t \in Transports : \A m \in ToSet(toServer'[t]) :
               m.kind # "dispatch" \/ \E u \in Transports : m \in ToSet(toServer[u])
    PROVE  Queued'
<1>1. 0 <= Sent
  <2>1. clientSeq \in Nat /\ Len(outbox) \in Nat
    BY DEF TypeOK, ClientTypes
  <2> QED
    BY <2>1 DEF Queued, Sent
<1>2. Sent' = Sent
  BY DEF Sent
<1>3. \A e \in ToSet(log') : e.clientSeq <= Sent
  BY <1>1 DEF Queued
<1>4. \A t \in Transports : \A m \in ToSet(toServer'[t]) :
         m.kind = "dispatch" => m.clientSeq <= Sent
  BY DEF Queued
<1> QED
  BY <1>2, <1>3, <1>4 DEF Queued

\* The outbox has been sent.
LEMMA QueuedSent ==
    ASSUME Numbered', clientSeq' \in Nat, outbox' = <<>>
    PROVE  Queued'
<1>1. \A a \in Nat : a - 0 = a /\ 0 <= a
  BY SMT
<1>2. Len(<<>>) = 0
  OBVIOUS
<1>3. Len(outbox') = 0
  BY <1>2, Zenon
<1>4. Sent' = clientSeq' /\ 0 <= clientSeq'
  BY <1>1, <1>3, Zenon DEF Sent
<1>5. \A e \in ToSet(log') : e.clientSeq <= clientSeq'
  BY DEF Numbered
<1>6. \A t \in Transports : \A m \in ToSet(toServer'[t]) :
         m.kind = "dispatch" => m.clientSeq <= clientSeq'
  BY DEF Numbered
<1>7. 1 .. 0 = {}
  OBVIOUS
<1> QED
  BY <1>3, <1>4, <1>5, <1>6, <1>7 DEF Queued

\* A number above all others comes last.
LEMMA AppendIncreasing ==
    ASSUME NEW s \in Seq(Nat), NEW x \in Nat, Increasing(s), \A n \in ToSet(s) : n < x
    PROVE  Increasing(Append(s, x))
<1> SUFFICES ASSUME NEW i \in 1 .. Len(s) + 1, NEW j \in 1 .. Len(s) + 1, i < j
             PROVE  Append(s, x)[i] < Append(s, x)[j]
  BY DEF Increasing
<1>1. i \in 1 .. Len(s) /\ Append(s, x)[i] = s[i]
  OBVIOUS
<1>2. s[i] \in ToSet(s)
  BY <1>1 DEF ToSet
<1>3. CASE j \in 1 .. Len(s)
  <2>1. Append(s, x)[j] = s[j]
    BY <1>3
  <2> QED
    BY <1>1, <1>3, <2>1 DEF Increasing
<1>4. CASE j = Len(s) + 1
  <2>1. Append(s, x)[j] = x
    BY <1>4
  <2> QED
    BY <1>1, <1>2, <2>1
<1> QED
  BY <1>3, <1>4

\* A step that neither the outbox nor the pending actions grow by.
LEMMA KeptKept ==
    ASSUME TypeOK, Kept, UNCHANGED <<outbox, clientSeq, dispatchQueue, pending>>,
           state' = "connected" => state = "connected",
           \A e \in ToSet(log') :
               \/ e \in ToSet(log) \/ e.clientSeq = 0
               \/ \E t \in Transports : \E m \in ToSet(toServer[t]) :
                     /\ m.kind = "dispatch"
                     /\ e.clientSeq = m.clientSeq /\ e.channel = m.channel,
           \A t \in Transports : \A m \in ToSet(toServer'[t]) :
               m.kind # "dispatch" \/ \E u \in Transports : m \in ToSet(toServer[u])
    PROVE  Kept'
<1>1. PICK ch : Assigned(ch)
  BY DEF Kept
<1>2. Assigned(ch)'
  BY <1>1, AssignedKept, ConstantsAssumption
<1>3. Queued'
  BY QueuedKept DEF Kept
<1> QED
  BY <1>2, <1>3 DEF Kept

\* What the server does keeps the client's actions where they are.
LEMMA KeptByServer ==
    ASSUME Base, Kept, ~queueing',
           \/ \E c \in Channels : ServerAction(c)
           \/ Forget
           \/ \E t \in Transports :
                 \/ ReceiveDispatch(t) \/ ReceiveReconnect(t)
                 \/ ReceiveInitialize(t) \/ AnswerReconnect(t) \/ ServerClosed(t)
                 \/ \E c \in Channels : RestoreChannel(t, c)
    PROVE  Kept'
<1>1. /\ TypeOK
      /\ UNCHANGED <<outbox, clientSeq, pending, state>>
  BY DEF Base, ServerAction, Forget, ReceiveDispatch, ReceiveReconnect,
     ReceiveInitialize, AnswerReconnect, ServerClosed, RestoreChannel, clientVars
<1>2. UNCHANGED dispatchQueue
  BY DEF Base, ServerAction, Forget, ReceiveDispatch, ReceiveReconnect,
     ReceiveInitialize, AnswerReconnect, ServerClosed, RestoreChannel
<1>3. ASSUME NEW t \in Transports
      PROVE  \A m \in ToSet(toServer'[t]) : \E u \in Transports : m \in ToSet(toServer[u])
  <2>1. CASE toServer' = toServer
    BY <2>1
  <2>2. CASE \E u \in Transports : toServer[u] # <<>> /\ toServer' = [toServer EXCEPT ![u] = Tail(@)]
    <3>1. PICK u \in Transports : toServer[u] # <<>> /\ toServer' = [toServer EXCEPT ![u] = Tail(@)]
      BY <2>2
    <3>2. ToSet(toServer'[t]) \subseteq ToSet(toServer[t])
      BY <1>1, <3>1, WrittenMembers
    <3> QED
      BY <3>2
  <2>3. CASE \E u \in Transports : toServer' = [toServer EXCEPT ![u] = <<>>]
    <3>1. toServer'[t] = toServer[t] \/ toServer'[t] = <<>>
      BY <1>1, <2>3 DEF TypeOK, TransportTypes
    <3>2. ToSet(<<>>) = {}
      BY DEF ToSet
    <3> QED
      BY <3>1, <3>2
  <2> QED
    BY <2>1, <2>2, <2>3 DEF ServerAction, Forget, ReceiveDispatch, ReceiveReconnect,
     ReceiveInitialize, AnswerReconnect, ServerClosed, RestoreChannel, ServerReads
<1>4. ASSUME NEW c, NEW n, NEW r, Emit(toClient, c, n, r)
      PROVE  \A e \in ToSet(log') :
                e \in ToSet(log) \/ (e.clientSeq = n /\ e.channel = c)
  <2> DEFINE x == [channel |-> c, clientSeq |-> n, rejected |-> r]
  <2>1. /\ log \in Seq(Envelope) /\ log' = Append(log, x)
        /\ x.clientSeq = n /\ x.channel = c
    BY <1>1, <1>4 DEF TypeOK, ServerTypes, Emit
  <2> HIDE DEF x
  <2>2. ToSet(log') = ToSet(log) \cup {x}
    BY <2>1, MembersOf
  <2> QED
    BY <2>1, <2>2
<1>5. \A e \in ToSet(log') :
          \/ e \in ToSet(log) \/ e.clientSeq = 0
          \/ \E t \in Transports : \E m \in ToSet(toServer[t]) :
                /\ m.kind = "dispatch"
                /\ e.clientSeq = m.clientSeq /\ e.channel = m.channel
  <2>1. CASE log' = log
    BY <2>1
  <2>2. CASE \E c \in Channels : ServerAction(c)
    BY <1>4, <2>2 DEF ServerAction
  <2>3. ASSUME NEW t \in Transports, ReceiveDispatch(t)
        PROVE  \A e \in ToSet(log') :
                  \/ e \in ToSet(log)
                  \/ \E m \in ToSet(toServer[t]) :
                        /\ m.kind = "dispatch"
                        /\ e.clientSeq = m.clientSeq /\ e.channel = m.channel
    <3> DEFINE m == Head(toServer[t])
    <3>1. toServer[t] # <<>> /\ m.kind = "dispatch" /\ DispatchNow(toClient, m)
      BY <2>3 DEF ReceiveDispatch, ServerReads
    <3>2. m \in ToSet(toServer[t])
      BY <1>1, <3>1, WrittenMembers
    <3>3. PICK r : Emit(toClient, m.channel, m.clientSeq, r)
      BY <3>1 DEF DispatchNow
    <3> HIDE DEF m
    <3> QED
      BY <1>4, <3>1, <3>2, <3>3
  <2> QED
    BY <2>1, <2>2, <2>3 DEF Forget, ReceiveReconnect,
     ReceiveInitialize, AnswerReconnect, ServerClosed, RestoreChannel
<1> QED
  BY <1>1, <1>2, <1>3, <1>5, KeptKept

\* The client keeps its next action with those it has kept,
LEMMA KeptByClientDispatch ==
    ASSUME Base, Base', Kept, Numbered, Numbered', NEW c \in Channels, ClientDispatch(c)
    PROVE  Kept'
<1>1. /\ TypeOK /\ transport \in Transports /\ outbox \in Seq(Action)
      /\ UNCHANGED <<log, dispatchQueue, state>>
      /\ clientSeq \in Nat /\ clientSeq' \in Nat
  BY DEF Base, TypeOK, ClientTypes, ClientDispatch, serverVars
<1>2. PICK x \in Nat : x = clientSeq + 1 /\ clientSeq' = x
  BY <1>1 DEF ClientDispatch
<1>3. PICK ch : Assigned(ch)
  BY DEF Kept
<1>4. PICK a : a = Dispatch(c, x)
  OBVIOUS
<1>5. a \in Action /\ a \in Request /\ a.channel = c /\ a.clientSeq = x
  BY <1>4, DispatchType DEF Request
<1>6. \/ state = "connected" /\ toServer' = SentToServer(transport, <<a>>) /\ outbox' = outbox
      \/ state # "connected" /\ outbox' = Append(outbox, a) /\ toServer' = toServer
  BY <1>2, <1>4 DEF ClientDispatch
<1>7. ASSUME NEW t \in Transports
      PROVE  ToSet(toServer'[t]) \subseteq ToSet(toServer[t]) \cup {a}
  <2>1. CASE toServer' = toServer
    BY <2>1
  <2>2. CASE toServer' = SentToServer(transport, <<a>>)
    <3>1. PICK w : w = <<a>>
      OBVIOUS
    <3>2. w \in Seq(Request) /\ ToSet(w) = {a}
      BY <1>5, <3>1 DEF ToSet
    <3>3. ToSet(SentToServer(transport, w)[t]) \subseteq ToSet(toServer[t]) \cup ToSet(w)
      BY <1>1, <3>2, WrittenMembers
    <3> QED
      BY <2>2, <3>1, <3>2, <3>3
  <2> QED
    BY <1>6, <2>1, <2>2
<1>8. ToSet(outbox') \subseteq ToSet(outbox) \cup {a}
  <2>1. ToSet(Append(outbox, a)) = ToSet(outbox) \cup {a}
    BY <1>1, MembersOf
  <2> QED
    BY <1>6, <2>1
<1>9. ASSUME NEW d \in Channels
      PROVE  /\ ToSet(pending'[d]) \subseteq ToSet(pending[d]) \cup (IF d = c THEN {x} ELSE {})
             /\ Increasing(pending'[d])
  <2>1. pending' = [pending EXCEPT ![c] = Append(@, x)]
    BY <1>2 DEF ClientDispatch
  <2>2. pending[d] \in Seq(Nat) /\ pending'[d] = IF d = c THEN Append(pending[d], x) ELSE pending[d]
    BY <1>1, <2>1 DEF TypeOK, ClientTypes
  <2>3. ToSet(Append(pending[d], x)) = ToSet(pending[d]) \cup {x}
    BY <2>2, MembersOf
  <2>4. \A n \in ToSet(pending[d]) : n < x
    BY <1>1, <1>2, NumbersBefore
  <2>5. Increasing(pending[d])
    BY DEF Kept
  <2>6. Increasing(Append(pending[d], x))
    BY <2>2, <2>4, <2>5, AppendIncreasing
  <2> QED
    BY <2>2, <2>3, <2>5, <2>6

\* The new number is not in use.
<1>10. /\ \A e \in ToSet(log) : e.clientSeq # x
       /\ \A t \in Transports : \A m \in ToSet(toServer[t]) :
             m.kind = "dispatch" => m.clientSeq # x
       /\ \A m \in ToSet(outbox) : m.clientSeq # x
       /\ \A d \in Channels : \A n \in ToSet(pending[d]) : n # x
  <2>1. \A n \in 0 .. clientSeq : n # x
    BY <1>1, <1>2
  <2>2. \A n \in 1 .. clientSeq : n # x
    BY <1>1, <1>2
  <2> QED
    BY <2>1, <2>2 DEF Numbered
<1>11. \E g : Assigned(g)'
  <2>1. PICK g : g = [n \in Nat |-> IF n = x THEN c ELSE ch[n]]
    OBVIOUS
  <2>2. g[x] = c /\ \A n \in Nat : n # x => g[n] = ch[n]
    BY <2>1
  <2>3. ASSUME NEW e \in ToSet(log'), e.clientSeq # 0
        PROVE  g[e.clientSeq] = e.channel
    <3>1. e \in ToSet(log) /\ e.clientSeq \in Nat /\ e.clientSeq # x
      BY <1>1, <1>10, <2>3, NumbersTyped
    <3> QED
      BY <1>3, <2>2, <2>3, <3>1 DEF Assigned
  <2>4. ASSUME NEW t \in Transports, NEW m \in ToSet(toServer'[t]), m.kind = "dispatch"
        PROVE  g[m.clientSeq] = m.channel
    <3>1. CASE m = a
      BY <1>5, <2>2, <3>1
    <3>2. CASE m \in ToSet(toServer[t])
      <4>1. m.clientSeq \in Nat /\ m.clientSeq # x
        BY <1>1, <1>10, <2>4, <3>2, NumbersTyped
      <4> QED
        BY <1>3, <2>2, <2>4, <3>2, <4>1 DEF Assigned
    <3> QED
      BY <1>7, <2>4, <3>1, <3>2
  <2>5. ASSUME NEW m \in ToSet(outbox')
        PROVE  g[m.clientSeq] = m.channel
    <3>1. CASE m = a
      BY <1>5, <2>2, <3>1
    <3>2. CASE m \in ToSet(outbox)
      <4>1. m.clientSeq \in Nat /\ m.clientSeq # x
        BY <1>1, <1>10, <3>2, NumbersTyped
      <4> QED
        BY <1>3, <2>2, <3>2, <4>1 DEF Assigned
    <3> QED
      BY <1>8, <3>1, <3>2
  <2>6. ASSUME NEW d \in Channels, NEW n \in ToSet(pending'[d])
        PROVE  g[n] = d
    <3>1. CASE n = x /\ d = c
      BY <2>2, <3>1
    <3>2. CASE n \in ToSet(pending[d])
      <4>1. n \in Nat /\ n # x
        BY <1>1, <1>10, <3>2, NumbersTyped
      <4> QED
        BY <1>3, <2>2, <3>2, <4>1 DEF Assigned
    <3> QED
      BY <1>9, <3>1, <3>2
  <2>7. Assigned(g)'
    BY <2>3, <2>4, <2>5, <2>6 DEF Assigned
  <2> QED
    BY <2>7
<1>12. Queued'
  <2>1. CASE state = "connected"
    <3>1. outbox' = <<>>
      BY <1>6, <2>1 DEF Kept, Queued
    <3> QED
      BY <1>1, <3>1, QueuedSent
  <2>2. CASE state # "connected"
    <3>1. /\ outbox' = Append(outbox, a) /\ toServer' = toServer /\ state' # "connected"
      BY <1>1, <1>6, <2>2
    <3>2. PICK M \in Nat : M = Len(outbox)
      BY <1>1
    <3>3. /\ Len(outbox') = M + 1
          /\ \A i \in 1 .. M + 1 : outbox'[i] = IF i <= M THEN outbox[i] ELSE a
      BY <1>1, <1>5, <3>1, <3>2, AppendOf
    <3>4. PICK S \in Int : S = Sent /\ S = clientSeq - M
      BY <1>1, <3>2 DEF Sent
    <3>5. Sent' = S /\ M + 1 <= clientSeq' /\ S + (M + 1) = x
      <4>1. M <= clientSeq
        BY <3>2 DEF Kept, Queued
      <4>2. Sent' = clientSeq' - (M + 1)
        BY <3>3 DEF Sent
      <4> QED
        BY <1>1, <1>2, <3>4, <4>1, <4>2
    <3>6. ASSUME NEW i \in 1 .. M + 1
          PROVE  outbox'[i].clientSeq = S + i
      <4>1. CASE i <= M
        <5>1. i \in 1 .. Len(outbox) /\ outbox'[i] = outbox[i]
          BY <3>2, <3>3, <4>1
        <5> QED
          BY <3>4, <5>1 DEF Kept, Queued
      <4>2. CASE i = M + 1
        BY <1>5, <3>3, <3>5, <4>2
      <4> QED
        BY <4>1, <4>2
    <3>7. \A e \in ToSet(log') : e.clientSeq <= S
      BY <1>1, <3>4 DEF Kept, Queued
    <3>8. \A t \in Transports : \A m \in ToSet(toServer'[t]) :
             m.kind = "dispatch" => m.clientSeq <= S
      BY <3>1, <3>4 DEF Kept, Queued
    <3> QED
      BY <3>1, <3>3, <3>5, <3>6, <3>7, <3>8 DEF Queued
  <2> QED
    BY <2>1, <2>2
<1> QED
  BY <1>1, <1>9, <1>11, <1>12 DEF Kept

\* whatever becomes of its transports,
LEMMA KeptByTransport ==
    ASSUME Base, Kept, Lose \/ TransportClosed \/ AttemptReconnect
    PROVE  Kept'
<1>1. /\ TypeOK /\ transport \in Transports
      /\ UNCHANGED <<outbox, clientSeq, dispatchQueue, pending, log>>
  BY DEF Base, TypeOK, ClientTypes, Lose, TransportClosed, AttemptReconnect,
     serverVars, clientVars
<1>2. state' = "connected" => state = "connected"
  BY DEF Lose, TransportClosed, AttemptReconnect, clientVars
<1>3. \A t \in Transports : \A m \in ToSet(toServer'[t]) :
          m.kind # "dispatch" \/ \E u \in Transports : m \in ToSet(toServer[u])
  <2>1. CASE Lose \/ TransportClosed
    BY <2>1 DEF Lose, TransportClosed
  <2>2. CASE AttemptReconnect
    <3> DEFINE x == [kind |-> "reconnect", seq |-> serverSeq]
    <3>1. \A t \in Transports : toServer'[t] = toServer[t] \/ toServer'[t] = <<x>>
      BY <1>1, <2>2 DEF AttemptReconnect, TypeOK, TransportTypes
    <3>2. ToSet(<<x>>) = {x} /\ x.kind # "dispatch"
      BY DEF ToSet
    <3> HIDE DEF x
    <3> QED
      BY <3>1, <3>2
  <2> QED
    BY <2>1, <2>2
<1>4. \A e \in ToSet(log') : e \in ToSet(log)
  BY <1>1
<1> QED
  BY <1>1, <1>2, <1>3, <1>4, KeptKept

\* and lets go of what it sees answered,
LEMMA KeptByReceive ==
    ASSUME Base, Base', Numbered', Kept,
           ReceiveAction \/ ReceiveReplay \/ ReceiveSnapshots
    PROVE  Kept'
<1>1. /\ TypeOK /\ transport \in Transports /\ Resent \subseteq Channels
      /\ UNCHANGED <<log, dispatchQueue, clientSeq>>
      /\ clientSeq' \in Nat /\ pending' \in [Channels -> Seq(Nat)]
      /\ outbox \in Seq(Action)
  BY ConstantsAssumption DEF Base, TypeOK, ClientTypes, ReceiveAction, ReceiveReplay,
     ReceiveSnapshots, serverVars
<1>2. PICK ch : Assigned(ch)
  BY DEF Kept
<1>3. ASSUME NEW c \in Channels
      PROVE  Increasing(pending'[c]) /\ ToSet(pending'[c]) \subseteq ToSet(pending[c])
  BY <1>1, ReceiveIncreasing, ReceivePending DEF Kept
<1>4. \A e \in ToSet(log') : e \in ToSet(log)
  BY <1>1
<1>5. CASE ReceiveAction
  <2>1. UNCHANGED <<toServer, outbox, state>>
    BY <1>5 DEF ReceiveAction
  <2>2. \A t \in Transports : \A m \in ToSet(toServer'[t]) :
           \E u \in Transports : m \in ToSet(toServer[u])
    BY <2>1
  <2>3. Assigned(ch)'
    BY <1>1, <1>2, <1>3, <1>4, <2>1, <2>2, AssignedKept
  <2>4. Queued'
    BY <1>1, <1>4, <2>1, <2>2, QueuedKept DEF Kept
  <2> QED
    BY <1>1, <1>3, <2>3, <2>4 DEF Kept
<1>6. CASE ReceiveReplay \/ ReceiveSnapshots
  <2>1. toServer' = SentToServer(transport, Drained(pending')) /\ outbox' = <<>>
    BY <1>6 DEF ReceiveReplay, ReceiveSnapshots, DrainAfterReconnect
  <2>2. PICK p : p = pending'
    OBVIOUS
  <2>3. PICK s : s = Drained(p)
    OBVIOUS
  <2>4. /\ s \in Seq(Request)
        /\ \A m \in ToSet(s) : \/ m \in ToSet(outbox)
                               \/ m.channel \in Resent /\ m.clientSeq \in ToSet(p[m.channel])
    <3>1. p \in [Channels -> Seq(Nat)]
      BY <1>1, <2>2
    <3>2. s \in Seq(Action)
      BY <1>1, <2>3, <3>1, DrainedType
    <3>3. Seq(Action) \subseteq Seq(Request)
      BY SeqOfSuperset DEF Request
    <3> QED
      BY <1>1, <2>3, <3>1, <3>2, <3>3, DrainedMembers
  <2>5. ASSUME NEW t \in Transports, NEW m \in ToSet(toServer'[t])
        PROVE  \/ m \in ToSet(outbox)
               \/ m \in ToSet(toServer[t])
               \/ m.channel \in Resent /\ m.clientSeq \in ToSet(pending[m.channel])
    <3>1. toServer' = SentToServer(transport, s)
      BY <2>1, <2>2, <2>3
    <3>2. ToSet(SentToServer(transport, s)[t]) \subseteq ToSet(toServer[t]) \cup ToSet(s)
      BY <1>1, <2>4, WrittenMembers
    <3>3. CASE m \in ToSet(s)
      BY <1>1, <1>3, <2>2, <2>4, <3>3
    <3> QED
      BY <2>5, <3>1, <3>2, <3>3
  <2>6. \A m \in ToSet(outbox') : m \in ToSet(outbox)
    <3>1. ToSet(<<>>) = {}
      BY DEF ToSet
    <3> QED
      BY <2>1, <3>1
  <2>7. Assigned(ch)'
    <3>1. \A t \in Transports : \A m \in ToSet(toServer'[t]) :
               \/ m.kind # "dispatch" \/ m \in ToSet(outbox)
               \/ \E u \in Transports : m \in ToSet(toServer[u])
               \/ m.channel \in Resent /\ m.clientSeq \in ToSet(pending[m.channel])
      BY <2>5
    <3> QED
      BY <1>1, <1>2, <1>3, <1>4, <2>6, <3>1, AssignedKept
  <2>8. Queued'
    BY <1>1, <2>1, QueuedSent
  <2> QED
    BY <1>1, <1>3, <2>7, <2>8 DEF Kept
<1> QED
  BY <1>5, <1>6

\* so what it keeps is always right.
LEMMA KeptNext ==
    ASSUME Base, Base', OwnInv, OwnInv', Kept, [Next]_vars, ~forgotten, ~queueing'
    PROVE  Kept'
<1>1. Numbered /\ Numbered' /\ Remembered /\ TypeOK
  BY DEF OwnInv, Base
<1>2. ASSUME NEW c \in Channels, ServerAction(c) \/ ClientDispatch(c)
      PROVE  Kept'
  BY <1>1, <1>2, KeptByServer, KeptByClientDispatch
<1>3. ~QueueStep /\ ~ReceiveNotFound /\ ~ReceiveInitialized
  BY <1>1, NeverUnknown DEF QueueStep, Kept
<1>4. ASSUME \/ Forget
             \/ \E t \in Transports :
                   \/ ReceiveDispatch(t) \/ ReceiveReconnect(t)
                   \/ ReceiveInitialize(t) \/ AnswerReconnect(t) \/ ServerClosed(t)
                   \/ \E c \in Channels : RestoreChannel(t, c)
      PROVE  Kept'
  BY <1>4, KeptByServer
<1>5. ASSUME Lose \/ TransportClosed \/ AttemptReconnect
      PROVE  Kept'
  BY <1>5, KeptByTransport
<1>6. ASSUME ReceiveAction \/ ReceiveReplay \/ ReceiveSnapshots
      PROVE  Kept'
  BY <1>1, <1>6, KeptByReceive
<1>7. ASSUME UNCHANGED vars
      PROVE  Kept'
  <2>1. UNCHANGED <<dispatchQueue, log, toServer, outbox, pending, clientSeq, state>>
    BY <1>7 DEF vars
  <2> QED
    BY <2>1 DEF Kept, Assigned, Queued, Sent
<1> QED
  BY <1>2, <1>3, <1>4, <1>5, <1>6, <1>7, Steps

\* A step that neither end of the connection notices.
LEMMA QuietKept ==
    ASSUME Quiet, UNCHANGED <<log, serverSeq, transport, state>>,
           toClient'[transport] = toClient[transport],
           \A t \in Transports : toServer[t] = <<>> => toServer'[t] = <<>>
    PROVE  Quiet'
BY DEF Quiet, Incoming, Brings

\* The server numbers another envelope: one of its own when it has answered.
LEMMA EmitQuiet ==
    ASSUME Base, WarmInv, Quiet, Remembered, NEW c \in Channels, NEW n, NEW r,
           Emit(toClient, c, n, r),
           UNCHANGED <<serverSeq, transport, state, open, connections>>,
           \/ n = 0 /\ UNCHANGED toServer
           \/ \E t \in Transports : toServer[t] # <<>>
    PROVE  Quiet'
<1>1. /\ TypeOK /\ Attachments /\ transport \in Transports
      /\ Len(log) \in Nat /\ serverSeq \in 0 .. Len(log)
  BY DEF Base, TypeOK, ClientTypes, ServerTypes, WarmInv
<1>2. toClient'[transport] =
              IF open[transport] /\ Attached(transport)
              THEN Append(toClient[transport], ActionMessage(Len(log) + 1))
              ELSE toClient[transport]
  BY <1>1, EmitArrives
<1> SUFFICES ASSUME state = "reconnecting", toClient'[transport] # <<>>,
                    Head(toClient'[transport]).kind # "notFound"
             PROVE  /\ \A t \in Transports : toServer'[t] = <<>>
                    /\ \A k \in serverSeq .. Len(log') : Brings(Incoming, k)' =>
                          \A i \in k + 1 .. Len(log') : log'[i].clientSeq = 0
  BY DEF Quiet, Incoming
<1>3. toClient[transport] # <<>>
  <2> SUFFICES ASSUME toClient[transport] = <<>>
               PROVE  FALSE
    OBVIOUS
  <2>1. open[transport] /\ Attached(transport)
    BY <1>2
  <2>2. ~Live /\ ~Unknown
    BY DEF Live, Unknown
  <2>3. ~Answered
    <3> SUFFICES ASSUME Answered
                 PROVE  FALSE
      OBVIOUS
    <3>1. PICK k \in Nat, m \in Nat : k <= m /\ toClient[transport] = <<Incoming>> \o Run(k, m)
      BY <1>1 DEF Answered
    <3>2. <<Incoming>> \o Run(k, m) # <<>>
      BY <3>1, AnsweredSteps
    <3> QED
      BY <3>1, <3>2
  <2>4. Asking
    BY <2>2, <2>3 DEF WarmInv, Arriving
  <2> QED
    BY <2>1, <2>4 DEF Asking
<1>4. Incoming' = Incoming
  <2>1. toClient[transport] \in Seq(Message(Len(log)))
    BY <1>1 DEF TypeOK, TransportTypes
  <2>2. Head(Append(toClient[transport], ActionMessage(Len(log) + 1))) = Head(toClient[transport])
    BY <1>3, <2>1
  <2> QED
    BY <1>2, <2>2 DEF Incoming
<1>5. Incoming.kind # "notFound"
  <2>1. Head(toClient'[transport']).kind # "notFound"
    OBVIOUS
  <2> QED
    BY <1>4, <2>1 DEF Incoming
<1>6. /\ \A t \in Transports : toServer[t] = <<>>
      /\ \A k \in serverSeq .. Len(log) : Brings(Incoming, k) =>
            \A i \in k + 1 .. Len(log) : log[i].clientSeq = 0
  BY <1>3, <1>5 DEF Quiet
<1>7. n = 0 /\ UNCHANGED toServer
  BY <1>6
<1>8. /\ Len(log') = Len(log) + 1 /\ log'[Len(log) + 1].clientSeq = 0
      /\ \A k \in 1 .. Len(log) : log'[k] = log[k]
  <2>1. /\ Len(log') = Len(log) + 1
        /\ log'[Len(log) + 1] = [channel |-> c, clientSeq |-> n, rejected |-> r]
    BY <1>1, EmitHistory
  <2>2. log'[Len(log) + 1].clientSeq = n
    BY <2>1
  <2>3. \A k \in 1 .. Len(log) : log'[k] = log[k]
    BY <1>1, EmitKeepsLog
  <2> QED
    BY <1>7, <2>1, <2>2, <2>3
<1>9. ASSUME NEW k \in serverSeq .. Len(log'), Brings(Incoming, k)',
             NEW i \in k + 1 .. Len(log')
      PROVE  log'[i].clientSeq = 0
  <2>1. Brings(Incoming, k)
    BY <1>4, <1>9 DEF Brings
  <2>2. CASE i = Len(log) + 1
    BY <1>8, <2>2
  <2>3. CASE i # Len(log) + 1
    <3>1. k \in serverSeq .. Len(log) /\ i \in k + 1 .. Len(log) /\ i \in 1 .. Len(log)
      BY <1>1, <1>8, <2>3
    <3>2. log[i].clientSeq = 0
      BY <1>6, <2>1, <3>1
    <3> QED
      BY <1>8, <3>1, <3>2
  <2> QED
    BY <2>2, <2>3
<1> QED
  BY <1>6, <1>7, <1>9

\* An answer brings the client up to one envelope only.
LEMMA BringsOne ==
    ASSUME TypeOK, NEW a, NEW k \in serverSeq .. Len(log),
           Brings(a, k), Brings(a, Len(log))
    PROVE  k = Len(log)
<1>1. PICK N \in Nat, m \in Nat : N = Len(log) /\ m = serverSeq /\ m <= N /\ k \in m .. N
  BY DEF TypeOK, ServerTypes, ClientTypes
<1>2. CASE a.kind = "replay"
  <2>1. a.seqs = Consecutive(m, k) /\ a.seqs = Consecutive(m, N)
    BY <1>1, <1>2 DEF Brings
  <2>2. k - m \in Nat /\ N - m \in Nat
    BY <1>1
  <2>3. Len(Consecutive(m, k)) = k - m /\ Len(Consecutive(m, N)) = N - m
    BY <2>2 DEF Consecutive
  <2>4. k - m = N - m
    BY <2>1, <2>3
  <2> QED
    BY <1>1, <2>4
<1>3. CASE a.kind = "snapshot"
  <2>1. a.seqs = [c \in Channels |-> k] /\ a.seqs = [c \in Channels |-> N]
    BY <1>1, <1>3 DEF Brings
  <2>2. CASE Channels = {}
    <3>1. N = 0
      BY <1>1, <2>2 DEF TypeOK, ServerTypes, Envelope
    <3> QED
      BY <1>1, <3>1
  <2>3. CASE Channels # {}
    BY <1>1, <2>1, <2>3
  <2> QED
    BY <2>2, <2>3
<1>4. CASE a.kind = "initialized"
  <2>1. a.seq = k /\ a.seq = N
    BY <1>1, <1>4 DEF Brings
  <2> QED
    BY <1>1, <2>1
<1> QED
  BY <1>2, <1>3, <1>4 DEF Brings

\* The server answers: it has read everything that was sent before.
LEMMA ReconnectQuiet ==
    ASSUME Warm, Base, WarmInv, Quiet, Remembered, NEW t \in Transports, ReceiveReconnect(t)
    PROVE  Quiet'
<1>1. /\ TypeOK /\ Attachments /\ transport \in Transports
      /\ UNCHANGED <<log, serverSeq, transport, state, open>>
      /\ toServer[t] # <<>> /\ Head(toServer[t]).kind = "reconnect"
      /\ toServer' = [toServer EXCEPT ![t] = Tail(@)]
      /\ \A u \in 1 .. t - 1 : toServer[u] = <<>>
      /\ toClient[t] \in Seq(Message(Len(log)))
  BY DEF Warm, Base, TypeOK, TransportTypes, ClientTypes, WarmInv, ReceiveReconnect,
     ServerReads, clientVars
<1>2. PICK job : /\ toClient' = SentToClient(t, <<Answer(job, Channels)>>)
                 /\ job = [NewJob(Head(toServer[t]).seq) EXCEPT !.snapshots = Now]
  BY DEF ReceiveReconnect, Warm, Remembered, NewJob, Now
<1>3. CASE t = transport /\ open[t]
  <2>1. /\ toClient[transport] = <<>>
        /\ Tail(toServer[transport]) = <<>>
        /\ state = "reconnecting" /\ Head(toServer[transport]).seq = serverSeq
    <3>1. ServerReads(transport, "reconnect")
      BY <1>3 DEF ReceiveReconnect
    <3>2. open[transport] /\ "reconnect" # "dispatch" /\ "reconnect" # "initialize"
      BY <1>3
    <3> QED
      BY <3>1, <3>2, RequestRead
  <2>2. PICK a : a = Answer([NewJob(serverSeq) EXCEPT !.snapshots = Now], Channels)
    OBVIOUS
  <2>3. Brings(a, Len(log))
    BY <1>1, <2>1, <2>2, WarmAnswer
  <2>4. toClient'[transport] = <<a>>
    <3>1. toClient' = SentToClient(t, <<a>>)
      BY <1>2, <1>3, <2>1, <2>2
    <3>2. toClient'[transport] = toClient[transport] \o <<a>>
      BY <1>1, <1>3, <3>1, Written
    <3>3. <<>> \o <<a>> = <<a>>
      OBVIOUS
    <3> QED
      BY <2>1, <3>2, <3>3
  <2>5. Incoming' = a
    BY <1>1, <2>4 DEF Incoming
  <2>6. ASSUME NEW u \in Transports
        PROVE  toServer'[u] = <<>>
    <3>1. toServer'[u] = IF u = t THEN Tail(toServer[t]) ELSE toServer[u]
      BY <1>1, Read
    <3>2. CASE u < transport
      BY <1>1, <1>3, <3>1, <3>2 DEF Transports
    <3>3. CASE u = transport
      BY <1>3, <2>1, <3>1, <3>3
    <3>4. CASE u > transport
      BY <1>1, <1>3, <3>1, <3>4 DEF Base, InTurn, Unused, Transports
    <3> QED
      BY <1>1, <3>2, <3>3, <3>4 DEF Transports
  <2>7. ASSUME NEW k \in serverSeq .. Len(log), Brings(a, k), NEW i \in k + 1 .. Len(log)
        PROVE  FALSE
    <3>1. k = Len(log) /\ Len(log) \in Nat
      BY <1>1, <2>3, <2>7, BringsOne DEF TypeOK, ServerTypes
    <3> QED
      BY <3>1
  <2>8. \A k \in serverSeq .. Len(log) : Brings(Incoming, k)' => Brings(a, k)
    BY <1>1, <2>5 DEF Brings
  <2> QED
    BY <1>1, <2>6, <2>7, <2>8 DEF Quiet
<1>4. CASE ~(t = transport /\ open[t])
  <2>1. ~open[t]
    BY <1>4 DEF Base, InTurn
  <2>2. toClient'[transport] = toClient[transport]
    BY <1>2, <2>1 DEF SentToClient
  <2>3. \A u \in Transports : toServer[u] = <<>> => toServer'[u] = <<>>
    BY <1>1, Read
  <2> QED
    BY <1>1, <2>2, <2>3, QuietKept
<1> QED
  BY <1>3, <1>4

\* Nobody sends actions while an answer is on its way.
LEMMA QuietNext ==
    ASSUME Warm, Base, Base', WarmInv, Remembered, Kept, Quiet, [Next]_vars, ~queueing'
    PROVE  Quiet'
<1>1. TypeOK /\ transport \in Transports /\ Attachments
  BY DEF Base, TypeOK, ClientTypes, WarmInv
<1>2. ASSUME NEW c \in Channels, ServerAction(c)
      PROVE  Quiet'
  <2>1. /\ Emit(toClient, c, 0, FALSE)
        /\ UNCHANGED <<serverSeq, transport, state, open, connections, toServer>>
    BY <1>2 DEF ServerAction, clientVars
  <2> QED
    BY <2>1, EmitQuiet
<1>3. ASSUME NEW t \in Transports, ReceiveDispatch(t)
      PROVE  Quiet'
  <2> DEFINE m == Head(toServer[t])
  <2>1. /\ toServer[t] # <<>> /\ DispatchNow(toClient, m) /\ m.kind = "dispatch"
        /\ UNCHANGED <<serverSeq, transport, state, open, connections>>
    BY <1>3 DEF ReceiveDispatch, ServerReads, clientVars
  <2>2. m \in Action
    BY <1>1, <2>1, ReadTypes, RequestMembers
  <2>3. m.channel \in Channels
    BY <2>2 DEF Action
  <2>4. PICK r : Emit(toClient, m.channel, m.clientSeq, r)
    BY <2>1 DEF DispatchNow
  <2> HIDE DEF m
  <2> QED
    BY <2>1, <2>3, <2>4, EmitQuiet
<1>4. ASSUME NEW t \in Transports, ReceiveReconnect(t)
      PROVE  Quiet'
  BY <1>4, ReconnectQuiet
<1>5. ASSUME NEW t \in Transports, ServerClosed(t)
      PROVE  Quiet'
  <2>1. UNCHANGED <<log, serverSeq, transport, state, toClient>>
    BY <1>5 DEF ServerClosed, clientVars
  <2>2. \A u \in Transports : toServer[u] = <<>> => toServer'[u] = <<>>
    BY <1>1, <1>5 DEF ServerClosed, TypeOK, TransportTypes
  <2> QED
    BY <2>1, <2>2, QuietKept
<1>6. ASSUME NEW t \in Transports
      PROVE  ~AnswerReconnect(t) /\ \A c \in Channels : ~RestoreChannel(t, c)
  <2>1. restoring[t] = NoJob
    BY <1>1 DEF Attachments
  <2>2. ~restoring[t].active /\ restoring[t].todo = {}
    BY <2>1 DEF NoJob
  <2> QED
    BY <2>2 DEF AnswerReconnect, RestoreChannel
<1>7. ASSUME Forget \/ Lose \/ UNCHANGED vars
      PROVE  Quiet'
  <2>1. UNCHANGED <<log, serverSeq, transport, state, toClient, toServer>>
    BY <1>7 DEF Forget, Lose, vars, clientVars, serverVars
  <2> QED
    BY <2>1, QuietKept
<1>8. ASSUME NEW c \in Channels, ClientDispatch(c)
      PROVE  Quiet'
  <2>1. UNCHANGED <<log, serverSeq, transport, state, toClient>>
    BY <1>8 DEF ClientDispatch, serverVars
  <2>2. CASE state = "connected"
    BY <2>1, <2>2 DEF Quiet
  <2>3. CASE state # "connected"
    <3>1. UNCHANGED toServer
      BY <1>8, <2>3 DEF ClientDispatch
    <3> QED
      BY <2>1, <3>1, QuietKept
  <2> QED
    BY <2>2, <2>3
<1>9. ASSUME AttemptReconnect
      PROVE  Quiet'
  <2>1. transport' = transport + 1 /\ UNCHANGED toClient /\ transport' \in Transports
    BY <1>9 DEF AttemptReconnect, Base, TypeOK, ClientTypes
  <2>2. toClient[transport'] = <<>>
    BY <1>1, <2>1 DEF Base, InTurn, Unused, Transports
  <2> QED
    BY <2>1, <2>2 DEF Quiet
<1>10. ASSUME TransportClosed \/ ReceiveReplay \/ ReceiveSnapshots
       PROVE  Quiet'
  <2>1. state' # "reconnecting"
    BY <1>10 DEF TransportClosed, ReceiveReplay, ReceiveSnapshots, DrainAfterReconnect
  <2> QED
    BY <2>1 DEF Quiet
<1>11. ASSUME ReceiveAction
       PROVE  Quiet'
  <2>1. toClient[transport] # <<>> /\ Incoming.kind = "action" /\ UNCHANGED state
    BY <1>11 DEF ReceiveAction, ClientReads
  <2>2. ~Answered
    BY <2>1 DEF Answered, Brings
  <2>3. ~Unknown
    <3>1. ASSUME Unknown PROVE Incoming = [kind |-> "notFound"]
      BY <3>1 DEF Unknown, Incoming
    <3> QED
      BY <2>1, <3>1
  <2>4. ~Asking
    BY <2>1 DEF Asking
  <2>5. Live
    BY <2>2, <2>3, <2>4 DEF WarmInv, Arriving
  <2> QED
    BY <2>1, <2>5 DEF Live, Quiet
<1>12. /\ ~QueueStep /\ ~ReceiveNotFound /\ ~ReceiveInitialized
       /\ \A t \in Transports : ~ReceiveInitialize(t)
  BY <1>1, NeverUnknown DEF QueueStep, Kept
<1> QED
  BY <1>2, <1>3, <1>4, <1>5, <1>6, <1>7, <1>8, <1>9, <1>10, <1>11, <1>12, Steps

\* There are no actions at first.
LEMMA OrderInit == Init => OrderInv
<1> SUFFICES ASSUME Init PROVE OrderInv
  OBVIOUS
<1>1. /\ log = <<>> /\ dispatchQueue = <<>> /\ outbox = <<>> /\ clientSeq = 0
      /\ state = "connected"
      /\ \A t \in Transports : toServer[t] = <<>>
      /\ \A c \in Channels : pending[c] = <<>>
  BY DEF Init
<1>2. /\ ToSet(<<>>) = {} /\ Len(<<>>) = 0 /\ 1 .. 0 = {} /\ Increasing(<<>>)
  BY DEF ToSet, Increasing
<1>3. Resent \subseteq Channels
  BY ConstantsAssumption
<1>4. Kept
  <2>1. Assigned(<<>>)
    BY <1>1, <1>2 DEF Assigned
  <2>2. Queued
    BY <1>1, <1>2 DEF Queued, Sent
  <2> QED
    BY <1>1, <1>2, <2>1, <2>2 DEF Kept
<1>5. OrderedLog /\ OrderedStreams
  BY <1>1, <1>2 DEF OrderedLog, OrderedStreams
<1>6. Waiting /\ Quiet
  BY <1>1, <1>2, <1>3 DEF Waiting, Quiet
<1> QED
  BY <1>4, <1>5, <1>6 DEF OrderInv

\* Every step keeps the invariant.
LEMMA OrderNext ==
    ASSUME Warm, Base, Base', OwnInv, OwnInv', WarmInv, OrderInv, [Next]_vars
    PROVE  OrderInv'
<1> SUFFICES ASSUME ~forgotten', ~queueing'
             PROVE  (Kept /\ OrderedLog /\ OrderedStreams /\ Waiting /\ Quiet)'
  BY DEF OrderInv
<1>1. ~forgotten /\ ~queueing
  <2>1. ~forgotten
    BY ForgottenStays
  <2>2. queueing => queueing'
    BY QueueingStays
  <2> QED
    BY <2>1, <2>2
<1>2. Kept /\ Quiet /\ Remembered
  BY <1>1 DEF OrderInv, OwnInv
<1>3. OrderedLog' /\ OrderedStreams' /\ Waiting'
  BY OrderedNext
<1>4. Kept'
  BY <1>1, <1>2, KeptNext
<1>5. Quiet'
  BY <1>2, QuietNext
<1> QED
  BY <1>3, <1>4, <1>5

\* Actions in order are applied once each.
LEMMA OrderImplies ==
    ASSUME TypeOK, OrderInv
    PROVE  AppliedAtMostOnce /\ ActionsInOrder
<1> SUFFICES ASSUME ~forgotten, ~queueing,
                    NEW i \in 1 .. Len(log), NEW j \in 1 .. Len(log), i < j,
                    log[i].clientSeq # 0
             PROVE  /\ log[i].clientSeq # log[j].clientSeq
                    /\ log[j].clientSeq # 0 /\ log[i].channel = log[j].channel
                          => log[i].clientSeq <= log[j].clientSeq
  BY DEF AppliedAtMostOnce, ActionsInOrder
<1>1. /\ log[i] \in ToSet(log) /\ log[j] \in ToSet(log)
      /\ log[i].clientSeq \in Nat /\ log[j].clientSeq \in Nat
  <2>1. log[i] \in ToSet(log) /\ log[j] \in ToSet(log)
    BY DEF ToSet, TypeOK, ServerTypes
  <2> QED
    BY <2>1, NumbersTyped
<1>2. PICK ch : Assigned(ch)
  BY DEF OrderInv, Kept
<1>3. OrderedLog
  BY DEF OrderInv
<1>4. ASSUME log[j].clientSeq # 0, log[i].channel = log[j].channel
      PROVE  log[i].clientSeq < log[j].clientSeq
  BY <1>3, <1>4 DEF OrderedLog
<1>5. ASSUME log[i].clientSeq = log[j].clientSeq
      PROVE  FALSE
  <2>1. log[i].channel = ch[log[i].clientSeq] /\ log[j].channel = ch[log[j].clientSeq]
    BY <1>1, <1>2, <1>5 DEF Assigned
  <2>2. log[i].channel = log[j].channel /\ log[j].clientSeq # 0
    BY <1>5, <2>1
  <2> QED
    BY <1>1, <1>4, <1>5, <2>2
<1> QED
  BY <1>1, <1>4, <1>5

\* The order is always kept.
LEMMA OrderCorrect ==
    ASSUME Warm
    PROVE  Spec => [](Base /\ OrderInv)
<1>1. Init => Base /\ OwnInv /\ WarmInv /\ OrderInv
  BY BaseInit, OwnInit, WarmInit, OrderInit
<1>2. Base /\ OwnInv /\ WarmInv /\ OrderInv /\ [Next]_vars
         => (Base /\ OwnInv /\ WarmInv /\ OrderInv)'
  BY BaseNext, OwnNext, WarmNext, OrderNext
<1> QED
  BY <1>1, <1>2, PTL DEF Spec

\* The server applies an action of the client at most once, although
\* _drainAfterReconnect sends again what is pending: what the server has
\* taken
\* is confirmed by the answer to the reconnection that is read before.
THEOREM AppliedOnceWhenWarm ==
    ASSUME Warm
    PROVE  Spec => []AppliedAtMostOnce
<1>1. Base /\ OrderInv => AppliedAtMostOnce
  BY OrderImplies DEF Base
<1> QED
  BY <1>1, OrderCorrect, PTL

\* The server takes the client's actions on a channel in the order in which
\* they were dispatched, sent again or from the outbox.
THEOREM InOrderWhenWarm ==
    ASSUME Warm
    PROVE  Spec => []ActionsInOrder
<1>1. Base /\ OrderInv => ActionsInOrder
  BY OrderImplies DEF Base
<1> QED
  BY <1>1, OrderCorrect, PTL
=============================================================================
