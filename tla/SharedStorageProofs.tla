------------------------ MODULE SharedStorageProofs -------------------------
(***************************************************************************)
(* Proofs about SharedStorage, for any windows, values and bounds.         *)
(*                                                                         *)
(* Staged says what may be on the two streams of a window in each phase of *)
(* its life, Informed that a window with another value than the main       *)
(* process will be told or will send its own, and LastWriteInv follows     *)
(* the value written last as long as one window writes.                    *)
(***************************************************************************)
EXTENDS SharedStorage, SequenceTheorems, FiniteSetTheorems, TLAPS

-----------------------------------------------------------------------------
(* Streams                                                                 *)

Only(s, k) == \A i \in 1 .. Len(s) : s[i].kind = k
None(s, k) == \A i \in 1 .. Len(s) : s[i].kind # k
One(s, k) ==
    \E i \in 1 .. Len(s) :
        s[i].kind = k /\ \A j \in 1 .. Len(s) : j # i => s[j].kind # k

\* Updates, and behind them the request for the items.
Asking(s) ==
    /\ s # <<>> /\ s[Len(s)].kind = "getItems"
    /\ \A i \in 1 .. Len(s) - 1 : s[i].kind = "updateItems"

\* The items, and behind them changes.
Answering(s) ==
    /\ s # <<>> /\ s[1].kind = "items"
    /\ \A i \in 2 .. Len(s) : s[i].kind = "change"

Tells(m) == m.kind \in {"items", "change"}

\* The value a window is told last is v; it is told nothing; it is told
\* nothing but v; it is told nothing but v behind a reply.
LastTold(s, v) ==
    \E i \in 1 .. Len(s) :
        /\ Tells(s[i]) /\ s[i].value = v
        /\ \A j \in i + 1 .. Len(s) : ~Tells(s[j])
NothingTold(s) == \A i \in 1 .. Len(s) : ~Tells(s[i])
OnlyTold(s, v) == \A i \in 1 .. Len(s) : Tells(s[i]) => s[i].value = v
ToldAfterReply(s, v) ==
    \A i, j \in 1 .. Len(s) :
        s[j].kind = "reply" /\ j < i /\ Tells(s[i]) => s[i].value = v

\* The last request is an update to v.
LastSent(s, v) ==
    s # <<>> /\ s[Len(s)].kind = "updateItems" /\ s[Len(s)].value = v

\* A message behind the others.
LEMMA Appended ==
    ASSUME NEW S, NEW s \in Seq(S), NEW e \in S
    PROVE  /\ Append(s, e) \in Seq(S)
           /\ Len(Append(s, e)) = Len(s) + 1
           /\ Len(s) \in Nat
           /\ \A i \in 1 .. Len(s) : Append(s, e)[i] = s[i]
           /\ Append(s, e)[Len(s) + 1] = e
           /\ Append(s, e) # <<>>
OBVIOUS

\* The first message is read.
LEMMA Taken ==
    ASSUME NEW S, NEW s \in Seq(S), s # <<>>
    PROVE  /\ Len(s) \in Nat \ {0}
           /\ Head(s) = s[1] /\ Head(s) \in S
           /\ Tail(s) \in Seq(S)
           /\ Len(Tail(s)) = Len(s) - 1
           /\ \A i \in 1 .. Len(s) - 1 : Tail(s)[i] = s[i + 1]
           /\ Tail(s) = <<>> <=> Len(s) = 1
<1>1. /\ Len(s) \in Nat \ {0}
      /\ Head(s) = s[1] /\ Head(s) \in S
      /\ Tail(s) \in Seq(S)
      /\ Len(Tail(s)) = Len(s) - 1
      /\ \A i \in 1 .. Len(s) - 1 : Tail(s)[i] = s[i + 1]
  OBVIOUS
<1>2. \A t \in Seq(S) : t = <<>> <=> Len(t) = 0
  OBVIOUS
<1>3. Tail(s) = <<>> <=> Len(Tail(s)) = 0
  BY <1>1, <1>2
<1>4. Len(s) - 1 = 0 <=> Len(s) = 1
  BY <1>1
<1> QED
  BY <1>1, <1>3, <1>4

\* Nothing is on an empty stream.
LEMMA EmptyStream ==
    /\ \A k : Only(<<>>, k) /\ None(<<>>, k)
    /\ \A v : OnlyTold(<<>>, v) /\ ToldAfterReply(<<>>, v) /\ ~LastTold(<<>>, v)
    /\ NothingTold(<<>>)
BY DEF Only, None, OnlyTold, ToldAfterReply, NothingTold, LastTold

\* The kinds of message on a stream, when one is appended.
LEMMA AppendKinds ==
    ASSUME NEW S, NEW s \in Seq(S), NEW e \in S, NEW k
    PROVE  /\ None(s, k) /\ e.kind # k => None(Append(s, e), k)
           /\ Only(s, k) /\ e.kind = k => Only(Append(s, e), k)
           /\ None(s, k) /\ e.kind = k => One(Append(s, e), k)
           /\ One(s, k) /\ e.kind # k => One(Append(s, e), k)
<1> DEFINE t == Append(s, e)
<1>1. /\ Len(t) = Len(s) + 1 /\ Len(s) \in Nat
      /\ \A i \in 1 .. Len(s) : t[i] = s[i]
      /\ t[Len(s) + 1] = e
  BY Appended
<1> HIDE DEF t
<1>2. \A i \in 1 .. Len(t) : i \in 1 .. Len(s) \/ i = Len(s) + 1
  BY <1>1
<1>3. None(s, k) /\ e.kind # k => None(t, k)
  BY <1>1, <1>2 DEF None
<1>4. Only(s, k) /\ e.kind = k => Only(t, k)
  BY <1>1, <1>2 DEF Only
<1>5. None(s, k) /\ e.kind = k => One(t, k)
  BY <1>1, <1>2 DEF None, One
<1>6. One(s, k) /\ e.kind # k => One(t, k)
  BY <1>1, <1>2 DEF One
<1> QED
  BY <1>3, <1>4, <1>5, <1>6 DEF t

\* The kinds of message on a stream, when the first is read.
LEMMA TailKinds ==
    ASSUME NEW S, NEW s \in Seq(S), s # <<>>, NEW k
    PROVE  /\ None(s, k) => None(Tail(s), k) /\ Head(s).kind # k
           /\ Only(s, k) => Only(Tail(s), k) /\ Head(s).kind = k
           /\ One(s, k) /\ Head(s).kind # k => One(Tail(s), k)
           /\ One(s, k) /\ Head(s).kind = k => None(Tail(s), k)
<1> DEFINE t == Tail(s)
<1>1. /\ Len(t) = Len(s) - 1 /\ Len(s) \in Nat \ {0}
      /\ \A i \in 1 .. Len(s) - 1 : t[i] = s[i + 1]
      /\ Head(s) = s[1]
  BY Taken
<1> HIDE DEF t
<1>2. None(s, k) => None(t, k) /\ Head(s).kind # k
  BY <1>1 DEF None
<1>3. Only(s, k) => Only(t, k) /\ Head(s).kind = k
  BY <1>1 DEF Only
<1>4. ASSUME NEW i \in 1 .. Len(s), s[i].kind = k, Head(s).kind # k,
             \A j \in 1 .. Len(s) : j # i => s[j].kind # k
      PROVE  One(t, k)
  <2>1. i - 1 \in 1 .. Len(t) /\ t[i - 1].kind = k
    BY <1>1, <1>4
  <2>2. \A j \in 1 .. Len(t) : j # i - 1 => t[j].kind # k
    BY <1>1, <1>4
  <2> QED
    BY <2>1, <2>2 DEF One
<1>5. One(s, k) /\ Head(s).kind = k => None(t, k)
  BY <1>1 DEF One, None
<1> QED
  BY <1>2, <1>3, <1>4, <1>5 DEF t, One

\* What begins the loading of a window, and prolongs it.
LEMMA AppendPhases ==
    ASSUME NEW S, NEW s \in Seq(S), NEW e \in S
    PROVE  /\ Only(s, "updateItems") /\ e.kind = "getItems"
                => Asking(Append(s, e))
           /\ s = <<>> /\ e.kind = "items" => Answering(Append(s, e))
           /\ Answering(s) /\ e.kind = "change" => Answering(Append(s, e))
<1> DEFINE t == Append(s, e)
<1>1. /\ Len(t) = Len(s) + 1 /\ Len(s) \in Nat
      /\ \A i \in 1 .. Len(s) : t[i] = s[i]
      /\ t[Len(s) + 1] = e /\ t # <<>>
      /\ s = <<>> <=> Len(s) = 0
  BY Appended
<1> HIDE DEF t
<1>2. Only(s, "updateItems") /\ e.kind = "getItems" => Asking(t)
  BY <1>1 DEF Only, Asking
<1>3. s = <<>> /\ e.kind = "items" => Answering(t)
  BY <1>1 DEF Answering
<1>4. Answering(s) /\ e.kind = "change" => Answering(t)
  BY <1>1 DEF Answering
<1> QED
  BY <1>2, <1>3, <1>4 DEF t

\* What is read of a window that is loading.
LEMMA TailPhases ==
    ASSUME NEW S, NEW s \in Seq(S)
    PROVE  /\ Asking(s) /\ Head(s).kind = "updateItems" => Asking(Tail(s))
           /\ Asking(s) /\ Head(s).kind = "getItems" => Tail(s) = <<>>
           /\ Asking(s) => Head(s).kind \in {"getItems", "updateItems"}
           /\ Answering(s) =>
                /\ Head(s).kind = "items"
                /\ None(Tail(s), "items") /\ None(Tail(s), "reply")
<1> SUFFICES ASSUME s # <<>> PROVE
           /\ Asking(s) /\ Head(s).kind = "updateItems" => Asking(Tail(s))
           /\ Asking(s) /\ Head(s).kind = "getItems" => Tail(s) = <<>>
           /\ Asking(s) => Head(s).kind \in {"getItems", "updateItems"}
           /\ Answering(s) =>
                /\ Head(s).kind = "items"
                /\ None(Tail(s), "items") /\ None(Tail(s), "reply")
  BY DEF Asking, Answering
<1> DEFINE t == Tail(s)
<1>1. /\ Len(t) = Len(s) - 1 /\ Len(s) \in Nat \ {0}
      /\ \A i \in 1 .. Len(s) - 1 : t[i] = s[i + 1]
      /\ Head(s) = s[1]
      /\ t = <<>> <=> Len(s) = 1
  BY Taken
<1> HIDE DEF t
<1>2. Asking(s) /\ Head(s).kind = "updateItems" => Asking(t)
  <2> SUFFICES ASSUME Asking(s), Head(s).kind = "updateItems" PROVE Asking(t)
    OBVIOUS
  <2>1. Len(s) # 1
    BY <1>1 DEF Asking
  <2> QED
    BY <1>1, <2>1 DEF Asking
<1>3. Asking(s) /\ Head(s).kind = "getItems" => t = <<>>
  BY <1>1 DEF Asking
<1>4. Asking(s) => Head(s).kind \in {"getItems", "updateItems"}
  BY <1>1 DEF Asking
<1>5. Answering(s) =>
          Head(s).kind = "items" /\ None(t, "items") /\ None(t, "reply")
  BY <1>1 DEF Answering, None
<1> QED
  BY <1>2, <1>3, <1>4, <1>5 DEF t

\* What a window will be told, when a message is appended.
LEMMA AppendTold ==
    ASSUME NEW S, NEW s \in Seq(S), NEW e \in S, NEW v
    PROVE  /\ Tells(e) /\ e.value = v => LastTold(Append(s, e), v)
           /\ ~Tells(e) /\ LastTold(s, v) => LastTold(Append(s, e), v)
           /\ ~Tells(e) /\ NothingTold(s) => NothingTold(Append(s, e))
           /\ (Tells(e) => e.value = v) /\ OnlyTold(s, v)
                => OnlyTold(Append(s, e), v)
           /\ (Tells(e) => e.value = v) /\ ToldAfterReply(s, v)
                => ToldAfterReply(Append(s, e), v)
           /\ None(s, "reply") /\ e.kind = "reply"
                => ToldAfterReply(Append(s, e), v)
<1> DEFINE t == Append(s, e)
<1>1. /\ Len(t) = Len(s) + 1 /\ Len(s) \in Nat
      /\ \A i \in 1 .. Len(s) : t[i] = s[i]
      /\ t[Len(s) + 1] = e
  BY Appended
<1> HIDE DEF t
<1>2. \A i \in 1 .. Len(t) : i \in 1 .. Len(s) \/ i = Len(s) + 1
  BY <1>1
<1>3. Tells(e) /\ e.value = v => LastTold(t, v)
  BY <1>1 DEF LastTold
<1>4. ~Tells(e) /\ LastTold(s, v) => LastTold(t, v)
  BY <1>1 DEF LastTold
<1>5. ~Tells(e) /\ NothingTold(s) => NothingTold(t)
  BY <1>1, <1>2 DEF NothingTold
<1>6. (Tells(e) => e.value = v) /\ OnlyTold(s, v) => OnlyTold(t, v)
  BY <1>1, <1>2 DEF OnlyTold
<1>7. (Tells(e) => e.value = v) /\ ToldAfterReply(s, v)
         => ToldAfterReply(t, v)
  BY <1>1, <1>2 DEF ToldAfterReply
<1>8. None(s, "reply") /\ e.kind = "reply" => ToldAfterReply(t, v)
  BY <1>1, <1>2 DEF ToldAfterReply, None
<1> QED
  BY <1>3, <1>4, <1>5, <1>6, <1>7, <1>8 DEF t

\* What a window will be told, when the first message is read.
LEMMA TailTold ==
    ASSUME NEW S, NEW s \in Seq(S), s # <<>>, NEW v
    PROVE  /\ LastTold(s, v) /\ ~Tells(Head(s)) => LastTold(Tail(s), v)
           /\ LastTold(s, v) /\ Tells(Head(s)) =>
                \/ LastTold(Tail(s), v)
                \/ (NothingTold(Tail(s)) /\ Head(s).value = v)
           /\ NothingTold(s) => NothingTold(Tail(s)) /\ ~Tells(Head(s))
           /\ OnlyTold(s, v) =>
                OnlyTold(Tail(s), v) /\ (Tells(Head(s)) => Head(s).value = v)
           /\ ToldAfterReply(s, v) => ToldAfterReply(Tail(s), v)
           /\ ToldAfterReply(s, v) /\ Head(s).kind = "reply"
                => OnlyTold(Tail(s), v)
<1> DEFINE t == Tail(s)
<1>1. /\ Len(t) = Len(s) - 1 /\ Len(s) \in Nat \ {0}
      /\ \A i \in 1 .. Len(s) - 1 : t[i] = s[i + 1]
      /\ Head(s) = s[1]
  BY Taken
<1> HIDE DEF t
<1>2. ASSUME NEW i \in 1 .. Len(s), Tells(s[i]), s[i].value = v, i # 1,
             \A j \in i + 1 .. Len(s) : ~Tells(s[j])
      PROVE  LastTold(t, v)
  <2>1. i - 1 \in 1 .. Len(t) /\ t[i - 1] = s[i]
    BY <1>1, <1>2
  <2>2. \A j \in i .. Len(t) : ~Tells(t[j])
    BY <1>1, <1>2
  <2> QED
    BY <1>2, <2>1, <2>2 DEF LastTold
<1>3. ASSUME Tells(s[1]), s[1].value = v,
             \A j \in 1 + 1 .. Len(s) : ~Tells(s[j])
      PROVE  NothingTold(t) /\ Head(s).value = v /\ Tells(Head(s))
  BY <1>1, <1>3 DEF NothingTold
<1>4. LastTold(s, v) =>
          \/ LastTold(t, v)
          \/ /\ NothingTold(t)
             /\ Head(s).value = v /\ Tells(Head(s))
  <2> SUFFICES ASSUME NEW i \in 1 .. Len(s), Tells(s[i]), s[i].value = v,
                      \A j \in i + 1 .. Len(s) : ~Tells(s[j])
               PROVE  \/ LastTold(t, v)
                      \/ /\ NothingTold(t)
                         /\ Head(s).value = v /\ Tells(Head(s))
    BY DEF LastTold
  <2>1. CASE i = 1
    <3>1. /\ Tells(s[1]) /\ s[1].value = v
          /\ \A j \in 1 + 1 .. Len(s) : ~Tells(s[j])
      BY <2>1
    <3> QED
      BY <1>3, <3>1
  <2>2. CASE i # 1
    BY <1>2, <2>2
  <2> QED
    BY <2>1, <2>2
<1>5. NothingTold(s) => NothingTold(t) /\ ~Tells(Head(s))
  BY <1>1 DEF NothingTold
<1>6. OnlyTold(s, v) =>
          OnlyTold(t, v) /\ (Tells(Head(s)) => Head(s).value = v)
  BY <1>1 DEF OnlyTold
<1>7. ToldAfterReply(s, v) => ToldAfterReply(t, v)
  <2> SUFFICES ASSUME ToldAfterReply(s, v),
                      NEW i \in 1 .. Len(t), NEW j \in 1 .. Len(t),
                      t[j].kind = "reply", j < i, Tells(t[i])
               PROVE  t[i].value = v
    BY DEF ToldAfterReply
  <2>1. /\ i + 1 \in 1 .. Len(s) /\ j + 1 \in 1 .. Len(s) /\ j + 1 < i + 1
        /\ t[i] = s[i + 1] /\ t[j] = s[j + 1]
    BY <1>1
  <2> QED
    BY <2>1 DEF ToldAfterReply
<1>8. ToldAfterReply(s, v) /\ Head(s).kind = "reply" => OnlyTold(t, v)
  BY <1>1 DEF ToldAfterReply, OnlyTold
<1> QED
  BY <1>4, <1>5, <1>6, <1>7, <1>8 DEF t

\* The updates that outlive a window.
LEMMA Remaining ==
    ASSUME NEW S, NEW s \in Seq(S)
    PROVE  /\ Updates(s) \in Seq(S)
           /\ (Asking(s) \/ Only(s, "updateItems"))
                => Only(Updates(s), "updateItems")
           /\ \A k : Only(s, k) => Only(Updates(s), k)
<1>1. Len(s) \in Nat /\ (s = <<>> <=> Len(s) = 0)
  OBVIOUS
<1>2. CASE s # <<>> /\ s[Len(s)].kind = "getItems"
  <2> DEFINE n == Len(s) - 1
  <2>1. n \in Nat /\ \A i \in 1 .. n : s[i] \in S
    BY <1>1, <1>2, ElementOfSeq
  <2>2. Updates(s) = SubSeq(s, 1, n)
    BY <1>2 DEF Updates, Last, Front
  <2> HIDE DEF n
  <2>3. /\ SubSeq(s, 1, n) \in Seq(S) /\ Len(SubSeq(s, 1, n)) = n
        /\ \A i \in 1 .. n : SubSeq(s, 1, n)[i] = s[i]
    <3>1. /\ SubSeq(s, 1, n) \in Seq(S)
          /\ Len(SubSeq(s, 1, n)) = IF 1 <= n THEN n - 1 + 1 ELSE 0
          /\ \A i \in 1 .. n - 1 + 1 : SubSeq(s, 1, n)[i] = s[1 + i - 1]
      BY <2>1, SubSeqProperties
    <3>2. n - 1 + 1 = n /\ (1 <= n \/ n = 0)
      BY <2>1
    <3>3. \A i \in 1 .. n : s[1 + i - 1] = s[i]
      OBVIOUS
    <3> QED
      BY <3>1, <3>2, <3>3
  <2> QED
    BY <1>1, <1>2, <2>2, <2>3 DEF Asking, Only, n
<1>3. CASE ~(s # <<>> /\ s[Len(s)].kind = "getItems")
  BY <1>3 DEF Updates, Last, Asking
<1> QED
  BY <1>2, <1>3

-----------------------------------------------------------------------------
(* Types, and what is on the streams in each phase                         *)

Phases == {"closed", "loading", "open", "closing"}
Request ==
    [kind : {"getItems"}] \cup [kind : {"updateItems"}, value : Value]
Message ==
    [kind : {"reply"}] \cup [kind : {"items", "change"}, value : Value]

TypeOK ==
    /\ phase \in [Windows -> Phases]
    /\ cache \in [Windows -> Value]
    /\ pending \in [Windows -> Value \cup {Nothing}]
    /\ sending \subseteq Windows
    /\ toMain \in [Windows -> Seq(Request)]
    /\ toWindow \in [Windows -> Seq(Message)]
    /\ main \in Value
    /\ listening \subseteq Windows
    /\ changed \in BOOLEAN
    /\ writers \subseteq Windows
    /\ written \in Value
    /\ excused \in BOOLEAN

\* A window that is closed has nothing to save and hears nothing; its last
\* updates may still be on the way.
Closed(w) ==
    /\ pending[w] = Nothing /\ w \notin sending
    /\ w \notin listening /\ toWindow[w] = <<>>
    /\ Only(toMain[w], "updateItems")

\* A window that is loading has asked for the items, behind the updates of
\* its previous life, or they are the first that it will hear.
Loading(w) ==
    /\ pending[w] = Nothing /\ w \notin sending
    /\ \/ /\ w \notin listening /\ toWindow[w] = <<>>
          /\ Asking(toMain[w])
       \/ /\ w \in listening /\ toMain[w] = <<>>
          /\ Answering(toWindow[w])

\* A window in use has one update under way, on one of the two streams, or
\* none.
Idle(w) ==
    /\ w \notin sending /\ toMain[w] = <<>> /\ None(toWindow[w], "reply")
Sent(w) ==
    /\ w \in sending /\ None(toWindow[w], "reply")
    /\ toMain[w] # <<>> /\ Tail(toMain[w]) = <<>>
    /\ Only(toMain[w], "updateItems")
Replied(w) ==
    /\ w \in sending /\ toMain[w] = <<>> /\ One(toWindow[w], "reply")
InUse(w) ==
    /\ w \in listening
    /\ None(toWindow[w], "items")
    /\ Idle(w) \/ Sent(w) \/ Replied(w)

Staged(w) ==
    /\ phase[w] = "closed" => Closed(w)
    /\ phase[w] = "loading" => Loading(w)
    /\ phase[w] \in {"open", "closing"} => InUse(w)

\* A step of one window, or of the main process for it.
Step(w) ==
    \/ Open(w) \/ Flush(w) \/ BeginClose(w) \/ EndClose(w) \/ Die(w)
    \/ ReceiveItems(w) \/ ReceiveReply(w) \/ ReceiveChange(w)
    \/ ReceiveGetItems(w) \/ ReceiveUpdateItems(w)
    \/ \E v \in Value : Write(w, v)

Untouched(x) ==
    /\ phase'[x] = phase[x] /\ cache'[x] = cache[x]
    /\ pending'[x] = pending[x]
    /\ x \in sending' <=> x \in sending
    /\ x \in listening' <=> x \in listening
    /\ toMain'[x] = toMain[x] /\ toWindow'[x] = toWindow[x]

\* A step is an announcement or a step of one window.
LEMMA StepsAreNext ==
    ASSUME Next, ~Announce
    PROVE  \E w \in Windows : Step(w)
BY DEF Next, Step, WindowReceives, MainReceives

\* Every step keeps the types.
LEMMA TypePreserved ==
    ASSUME TypeOK, ConstantsAssumption, Next
    PROVE  TypeOK'
<1> USE DEF TypeOK, Value, Request, Message
<1>1. CASE Announce
  <2>1. toWindow' \in [Windows -> Seq(Message)]
    <3>1. [kind |-> "change", value |-> main] \in Message
      OBVIOUS
    <3>2. \A w \in Windows :
             Append(toWindow[w], [kind |-> "change", value |-> main])
                \in Seq(Message)
      BY <3>1, Appended DEF TypeOK
    <3> QED
      BY <1>1, <3>2 DEF Announce
  <2> QED
    BY <1>1, <2>1 DEF Announce, windowVars, historyVars
<1>2. ASSUME NEW w \in Windows, Open(w) PROVE TypeOK'
  BY <1>2 DEF Open, ToMain, mainVars, Phases
<1>3. ASSUME NEW w \in Windows, Flush(w) PROVE TypeOK'
  BY <1>3 DEF Flush, ToMain, historyVars, mainVars
<1>4. ASSUME NEW w \in Windows, BeginClose(w) PROVE TypeOK'
  BY <1>4 DEF BeginClose, mainVars, historyVars, Phases
<1>5. ASSUME NEW w \in Windows, EndClose(w) PROVE TypeOK'
  BY <1>5 DEF EndClose, historyVars, NotListening, Phases
<1>6. ASSUME NEW w \in Windows, Die(w) PROVE TypeOK'
  <2>1. Updates(toMain[w]) \in Seq(Request) /\ <<>> \in Seq(Request)
    BY Remaining DEF TypeOK
  <2>2. toMain' \in [Windows -> Seq(Request)]
    BY <1>6, <2>1 DEF Die
  <2>3. toWindow' \in [Windows -> Seq(Message)]
    BY <1>6 DEF Die
  <2> QED
    BY <1>6, <2>2, <2>3 DEF Die, Phases, Unsaved
<1>7. ASSUME NEW w \in Windows, ReceiveItems(w) PROVE TypeOK'
  BY <1>7 DEF ReceiveItems, Phases, WindowReads, mainVars, historyVars
<1>8. ASSUME NEW w \in Windows, ReceiveReply(w) PROVE TypeOK'
  BY <1>8 DEF ReceiveReply, WindowReads, mainVars, historyVars
<1>9. ASSUME NEW w \in Windows, ReceiveChange(w) PROVE TypeOK'
  BY <1>9 DEF ReceiveChange, WindowReads, mainVars
<1>10. ASSUME NEW w \in Windows, ReceiveGetItems(w) PROVE TypeOK'
  BY <1>10 DEF ReceiveGetItems, MainReads, ToWindow, windowVars, historyVars
<1>11. ASSUME NEW w \in Windows, ReceiveUpdateItems(w) PROVE TypeOK'
  BY <1>11
  DEF ReceiveUpdateItems, MainReads, ToWindow, Changed, windowVars, historyVars
<1>12. ASSUME NEW w \in Windows, NEW v \in Value, Write(w, v) PROVE TypeOK'
  BY <1>12 DEF Write, mainVars
<1> QED
  BY <1>1, <1>2, <1>3, <1>4, <1>5, <1>6, <1>7, <1>8, <1>9, <1>10, <1>11, <1>12
  DEF Next, WindowReceives, MainReceives

\* A step of one window leaves the others alone.
LEMMA OthersUntouched ==
    ASSUME TypeOK, NEW w \in Windows, Step(w), NEW x \in Windows \ {w}
    PROVE  Untouched(x)
<1> USE DEF TypeOK, Untouched, mainVars, historyVars, windowVars
<1>1. CASE Open(w) \/ Flush(w) \/ BeginClose(w)
  BY <1>1 DEF Open, Flush, BeginClose, ToMain
<1>2. CASE EndClose(w) \/ Die(w)
  BY <1>2 DEF EndClose, Die, NotListening
<1>3. CASE ReceiveItems(w) \/ ReceiveReply(w) \/ ReceiveChange(w)
  BY <1>3 DEF ReceiveItems, ReceiveReply, ReceiveChange, WindowReads
<1>4. CASE ReceiveGetItems(w) \/ ReceiveUpdateItems(w)
  BY <1>4 DEF ReceiveGetItems, ReceiveUpdateItems, MainReads, ToWindow
<1>5. CASE \E v \in Value : Write(w, v)
  BY <1>5 DEF Write
<1> QED
  BY <1>1, <1>2, <1>3, <1>4, <1>5 DEF Step

\* A window keeps its stage while other windows step.
LEMMA StageKept ==
    ASSUME NEW x \in Windows, Staged(x), Untouched(x)
    PROVE  Staged(x)'
BY DEF Staged, Untouched, Closed, Loading, InUse, Idle, Sent, Replied

\* An announcement reaches the windows that listen.
LEMMA AnnouncementStaged ==
    ASSUME TypeOK, NEW w \in Windows, Staged(w), Announce
    PROVE  Staged(w)'
<1> DEFINE m == [kind |-> "change", value |-> main]
           in == toWindow[w]
<1>1. m \in Message /\ m.kind = "change" /\ in \in Seq(Message)
  BY DEF TypeOK, Message
<1>2. /\ UNCHANGED <<phase, pending, sending, toMain, listening>>
      /\ toWindow'[w] = IF w \in listening THEN Append(in, m) ELSE in
  BY DEF Announce, windowVars
<1> HIDE DEF m
<1>3. /\ Answering(in) => Answering(Append(in, m))
      /\ None(in, "items") => None(Append(in, m), "items")
      /\ None(in, "reply") => None(Append(in, m), "reply")
      /\ One(in, "reply") => One(Append(in, m), "reply")
  BY <1>1, AppendKinds, AppendPhases
<1> HIDE DEF in
<1> QED
  BY <1>2, <1>3
  DEF Staged, Closed, Loading, InUse, Idle, Sent, Replied, in

\* A window goes through its stages.
LEMMA StagePreserved ==
    ASSUME TypeOK, NEW w \in Windows, Staged(w), Step(w)
    PROVE  Staged(w)'
<1> DEFINE in == toWindow[w]
           out == toMain[w]
<1>a. /\ phase \in [Windows -> Phases] /\ w \in DOMAIN phase
      /\ pending \in [Windows -> Value \cup {Nothing}]
      /\ toMain \in [Windows -> Seq(Request)]
      /\ toWindow \in [Windows -> Seq(Message)]
      /\ in \in Seq(Message) /\ out \in Seq(Request)
      /\ phase[w] \in {"closed", "loading", "open", "closing"}
  BY DEF TypeOK, Phases
<1>1. CASE Open(w)
  <2>1. /\ Closed(w) /\ phase'[w] = "loading"
        /\ toMain'[w] = Append(out, [kind |-> "getItems"])
        /\ UNCHANGED <<pending, sending, toWindow, listening>>
    BY <1>a, <1>1 DEF Open, ToMain, Staged, mainVars
  <2>2. [kind |-> "getItems"] \in Request
    BY DEF Request
  <2>3. Asking(toMain'[w])
    BY <1>a, <2>1, <2>2, AppendPhases DEF Closed
  <2> QED
    BY <2>1, <2>3 DEF Staged, Closed, Loading
<1>2. CASE Flush(w)
  <2>1. /\ pending[w] # Nothing /\ w \notin sending /\ UNCHANGED phase
        /\ toMain'[w] =
             Append(out, [kind |-> "updateItems", value |-> pending[w]])
        /\ sending' = sending \cup {w} /\ UNCHANGED <<toWindow, listening>>
    BY <1>a, <1>2 DEF Flush, ToMain, mainVars
  <2>2. InUse(w) /\ Idle(w) /\ phase[w] \in {"open", "closing"}
    BY <1>a, <2>1 DEF Staged, Closed, Loading, InUse, Sent, Replied
  <2>3. [kind |-> "updateItems", value |-> pending[w]] \in Request
    BY <1>a, <2>1 DEF Request
  <2>4. /\ toMain'[w] # <<>> /\ Tail(toMain'[w]) = <<>>
        /\ Only(toMain'[w], "updateItems")
    <3>1. out = <<>> /\ Len(out) = 0
      BY <2>2 DEF Idle
    <3>2. toMain'[w] # <<>> /\ Len(toMain'[w]) = 1
          /\ toMain'[w] \in Seq(Request)
      BY <1>a, <2>1, <2>3, <3>1, Appended
    <3>3. Tail(toMain'[w]) = <<>>
      BY <3>2, Taken
    <3>4. Only(out, "updateItems")
      BY <3>1, EmptyStream
    <3>5. \A e \in Request :
             e.kind = "updateItems" => Only(Append(out, e), "updateItems")
      BY <1>a, <3>4, AppendKinds
    <3> QED
      BY <2>1, <2>3, <3>2, <3>3, <3>5
  <2> QED
    BY <2>1, <2>2, <2>4 DEF Staged, InUse, Idle, Sent
<1>3. CASE BeginClose(w)
  BY <1>a, <1>3
  DEF BeginClose, Staged, InUse, Idle, Sent, Replied, mainVars
<1>4. CASE EndClose(w)
  <2>1. InUse(w) /\ Idle(w) /\ phase'[w] = "closed"
        /\ pending'[w] = Nothing /\ toWindow'[w] = <<>>
        /\ listening' = listening \ {w} /\ UNCHANGED <<toMain, sending>>
    BY <1>a, <1>4
    DEF EndClose, NotListening, Done, Staged, InUse, Sent, Replied
  <2> QED
    BY <2>1, EmptyStream DEF Staged, Closed, Idle
<1>5. CASE Die(w)
  <2>1. /\ toMain'[w] \in {<<>>, Updates(out)} /\ phase'[w] = "closed"
        /\ pending'[w] = Nothing /\ toWindow'[w] = <<>>
        /\ sending' = sending \ {w} /\ listening' = listening \ {w}
        /\ phase[w] # "closed"
    BY <1>a, <1>5 DEF Die
  <2>2. out = <<>> \/ Asking(out) \/ Only(out, "updateItems")
    BY <1>a, <2>1 DEF Staged, Loading, InUse, Idle, Sent, Replied
  <2>3. Only(toMain'[w], "updateItems")
    BY <1>a, <2>1, <2>2, Remaining, EmptyStream
  <2> QED
    BY <2>1, <2>3 DEF Staged, Closed
<1>6. CASE ReceiveItems(w)
  <2>1. /\ in # <<>> /\ Head(in).kind = "items" /\ toWindow'[w] = Tail(in)
        /\ phase'[w] = "open"
        /\ UNCHANGED <<pending, sending, toMain, listening>>
    BY <1>a, <1>6 DEF ReceiveItems, WindowReads, mainVars
  <2>2. ~None(in, "items")
    BY <1>a, <2>1, TailKinds
  <2>3. Loading(w) /\ w \in listening /\ out = <<>> /\ Answering(in)
    BY <1>a, <2>1, <2>2 DEF Staged, Closed, Loading, InUse
  <2>4. None(toWindow'[w], "items") /\ None(toWindow'[w], "reply")
    BY <1>a, <2>1, <2>3, TailPhases
  <2> QED
    BY <2>1, <2>3, <2>4 DEF Staged, Loading, InUse, Idle
<1>7. CASE ReceiveReply(w)
  <2>1. /\ in # <<>> /\ Head(in).kind = "reply" /\ toWindow'[w] = Tail(in)
        /\ sending' = sending \ {w}
        /\ UNCHANGED <<phase, pending, toMain, listening>>
    BY <1>a, <1>7 DEF ReceiveReply, WindowReads, mainVars
  <2>2. ~None(in, "reply") /\ (None(in, "items") => None(Tail(in), "items"))
        /\ (One(in, "reply") => None(Tail(in), "reply"))
    BY <1>a, <2>1, TailKinds
  <2>3. ~Answering(in)
    BY <1>a, <2>1, TailPhases
  <2>4. InUse(w) /\ Replied(w) /\ phase[w] \in {"open", "closing"}
    BY <1>a, <2>1, <2>2, <2>3
    DEF Staged, Closed, Loading, InUse, Idle, Sent
  <2> QED
    BY <2>1, <2>2, <2>4 DEF Staged, InUse, Idle, Replied
<1>8. CASE ReceiveChange(w)
  <2>1. /\ in # <<>> /\ Head(in).kind = "change" /\ toWindow'[w] = Tail(in)
        /\ UNCHANGED <<phase, pending, sending, toMain, listening>>
    BY <1>a, <1>8 DEF ReceiveChange, WindowReads, mainVars
  <2>2. /\ None(in, "items") => None(Tail(in), "items")
        /\ None(in, "reply") => None(Tail(in), "reply")
        /\ One(in, "reply") => One(Tail(in), "reply")
    BY <1>a, <2>1, TailKinds
  <2>3. ~Answering(in)
    BY <1>a, <2>1, TailPhases
  <2>4. InUse(w) /\ phase[w] \in {"open", "closing"}
    BY <1>a, <2>1, <2>3 DEF Staged, Closed, Loading
  <2> QED
    BY <2>1, <2>2, <2>4 DEF Staged, InUse, Idle, Sent, Replied
<1>9. CASE ReceiveGetItems(w)
  <2>1. /\ out # <<>> /\ Head(out).kind = "getItems"
        /\ toMain'[w] = Tail(out)
        /\ toWindow'[w] = Append(in, [kind |-> "items", value |-> main])
        /\ listening' = listening \cup {w}
        /\ UNCHANGED <<phase, pending, sending>>
    BY <1>a, <1>9 DEF ReceiveGetItems, MainReads, ToWindow, windowVars
  <2>2. ~Only(out, "updateItems")
    BY <1>a, <2>1, TailKinds
  <2>3. /\ Loading(w) /\ phase[w] = "loading"
        /\ Asking(out) /\ in = <<>>
    BY <1>a, <2>1, <2>2
    DEF Staged, Closed, Loading, InUse, Idle, Sent, Replied
  <2>4. [kind |-> "items", value |-> main] \in Message
    BY DEF TypeOK, Message
  <2>5. Tail(out) = <<>>
    BY <1>a, <2>1, <2>3, TailPhases
  <2>6. Answering(toWindow'[w])
    BY <1>a, <2>1, <2>3, <2>4, AppendPhases
  <2> QED
    BY <2>1, <2>3, <2>5, <2>6 DEF Staged, Loading
<1>10. CASE ReceiveUpdateItems(w)
  <2>1. /\ out # <<>> /\ Head(out).kind = "updateItems"
        /\ toMain'[w] = Tail(out)
        /\ toWindow'[w] = IF w \in sending
                         THEN Append(in, [kind |-> "reply"]) ELSE in
        /\ UNCHANGED <<phase, pending, sending, listening>>
    BY <1>a, <1>10
    DEF ReceiveUpdateItems, MainReads, ToWindow, Answered, windowVars
  <2>2. [kind |-> "reply"] \in Message
    BY DEF Message
  <2>3. /\ None(in, "items") => None(Append(in, [kind |-> "reply"]), "items")
        /\ None(in, "reply") => One(Append(in, [kind |-> "reply"]), "reply")
    BY <1>a, <2>2, AppendKinds
  <2>4. /\ Only(out, "updateItems") => Only(Tail(out), "updateItems")
        /\ Asking(out) => Asking(Tail(out))
    BY <1>a, <2>1, TailKinds, TailPhases
  <2> QED
    BY <1>a, <2>1, <2>3, <2>4
    DEF Staged, Closed, Loading, InUse, Idle, Sent, Replied
<1>11. CASE \E v \in Value : Write(w, v)
  BY <1>a, <1>11
  DEF Write, Staged, InUse, Idle, Sent, Replied, mainVars
<1> QED
  BY <1>1, <1>2, <1>3, <1>4, <1>5, <1>6, <1>7, <1>8, <1>9, <1>10, <1>11
  DEF Step

-----------------------------------------------------------------------------
(* Agreement                                                               *)

\* A window that listens will be told of the value the main process has, or
\* has it, or will send the one that it has.
WillSend(w) ==
    \/ pending[w] = cache[w]
    \/ pending[w] = Nothing /\ LastSent(toMain[w], cache[w])
Informed(w) ==
    w \in listening /\ phase[w] \in {"loading", "open"} /\ ~changed =>
        \/ LastTold(toWindow[w], main)
        \/ NothingTold(toWindow[w]) /\ (cache[w] = main \/ WillSend(w))

AgreementInv ==
    /\ TypeOK
    /\ \A w \in Windows : Staged(w) /\ Informed(w)

\* While other windows step, the main process may get another value, which
\* it will announce.
LEMMA InformedKept ==
    ASSUME NEW w \in Windows, Informed(w), Untouched(w),
           changed' \/ (main' = main /\ (changed => changed'))
    PROVE  Informed(w)'
BY DEF Informed, Untouched, WillSend

\* The main process's value changes only with a change to announce.
LEMMA MainAnnounces ==
    ASSUME TypeOK, NEW w \in Windows, Step(w)
    PROVE  changed' \/ (main' = main /\ (changed => changed'))
<1>1. CASE ReceiveUpdateItems(w)
  BY <1>1 DEF ReceiveUpdateItems, Changed
<1> QED
  BY <1>1
  DEF Step, Open, Flush, BeginClose, EndClose, Die, ReceiveItems,
      ReceiveReply, ReceiveChange, ReceiveGetItems, Write, mainVars

\* An announcement is the last that a window is told.
LEMMA AnnouncementInforms ==
    ASSUME TypeOK, NEW w \in Windows, Announce
    PROVE  Informed(w)'
<1> DEFINE m == [kind |-> "change", value |-> main]
           in == toWindow[w]
<1>1. m \in Message /\ Tells(m) /\ m.value = main /\ in \in Seq(Message)
  BY DEF TypeOK, Message, Tells
<1>2. /\ UNCHANGED <<listening, main>>
      /\ w \in listening => toWindow'[w] = Append(in, m)
  BY DEF Announce
<1> HIDE DEF m
<1>3. LastTold(Append(in, m), main)
  BY <1>1, AppendTold
<1> QED
  BY <1>2, <1>3 DEF Informed

\* What a window does, and what is done for it, keeps it informed.
LEMMA InformedPreserved ==
    ASSUME ConstantsAssumption, TypeOK, NEW w \in Windows,
           Staged(w), Informed(w), Step(w)
    PROVE  Informed(w)'
<1> DEFINE in == toWindow[w]
           out == toMain[w]
<1>a. /\ phase \in [Windows -> Phases] /\ w \in DOMAIN phase
      /\ cache \in [Windows -> Value]
      /\ pending \in [Windows -> Value \cup {Nothing}]
      /\ toMain \in [Windows -> Seq(Request)]
      /\ toWindow \in [Windows -> Seq(Message)]
      /\ in \in Seq(Message) /\ out \in Seq(Request)
      /\ phase[w] \in {"closed", "loading", "open", "closing"}
      /\ cache[w] # Nothing /\ Nothing \notin Value
  BY DEF TypeOK, Phases, ConstantsAssumption, Value
<1>1. CASE Open(w)
  <2>1. w \notin listening'
    BY <1>a, <1>1 DEF Open, Staged, Closed, mainVars
  <2> QED
    BY <2>1 DEF Informed
<1>2. CASE Flush(w)
  <2>1. /\ pending[w] # Nothing /\ pending'[w] = Nothing
        /\ toMain'[w] =
             Append(out, [kind |-> "updateItems", value |-> pending[w]])
        /\ UNCHANGED <<phase, cache, toWindow, listening, main, changed>>
    BY <1>a, <1>2 DEF Flush, ToMain, mainVars
  <2>2. [kind |-> "updateItems", value |-> pending[w]] \in Request
    BY <1>a, <2>1 DEF Request
  <2>3. LastSent(toMain'[w], pending[w])
    BY <1>a, <2>1, <2>2, Appended DEF LastSent
  <2> QED
    BY <2>1, <2>3 DEF Informed, WillSend
<1>3. CASE BeginClose(w)
  BY <1>a, <1>3 DEF BeginClose, Informed
<1>4. CASE EndClose(w) \/ Die(w)
  BY <1>a, <1>4 DEF EndClose, Die, Informed
<1>5. CASE ReceiveItems(w)
  <2>1. /\ in # <<>> /\ Head(in).kind = "items" /\ toWindow'[w] = Tail(in)
        /\ cache'[w] = Head(in).value
        /\ UNCHANGED <<listening, main, changed>>
    BY <1>a, <1>5 DEF ReceiveItems, WindowReads, mainVars
  <2>2. /\ w \in listening
        /\ phase[w] = "loading"
    <3>1. ~None(in, "items")
      BY <1>a, <2>1, TailKinds
    <3> QED
      BY <1>a, <2>1, <3>1 DEF Staged, Closed, Loading, InUse
  <2>3. /\ LastTold(in, main) =>
             LastTold(Tail(in), main)
             \/ (NothingTold(Tail(in)) /\ Head(in).value = main)
        /\ ~NothingTold(in)
    BY <1>a, <2>1, TailTold DEF Tells
  <2> QED
    BY <2>1, <2>2, <2>3 DEF Informed
<1>6. CASE ReceiveReply(w)
  <2>1. /\ in # <<>> /\ Head(in).kind = "reply" /\ toWindow'[w] = Tail(in)
        /\ UNCHANGED <<phase, cache, pending, toMain, listening, main,
                       changed>>
    BY <1>a, <1>6 DEF ReceiveReply, WindowReads, mainVars
  <2>2. /\ LastTold(in, main) => LastTold(Tail(in), main)
        /\ NothingTold(in) => NothingTold(Tail(in))
    BY <1>a, <2>1, TailTold DEF Tells
  <2> QED
    BY <2>1, <2>2 DEF Informed, WillSend
<1>7. CASE ReceiveChange(w)
  <2>1. /\ in # <<>> /\ Head(in).kind = "change" /\ toWindow'[w] = Tail(in)
        /\ phase[w] # "closing" => cache'[w] = Head(in).value
        /\ UNCHANGED <<phase, listening, main, changed>>
    BY <1>a, <1>7 DEF ReceiveChange, WindowReads, Accepts, mainVars
  <2>2. /\ LastTold(in, main) =>
             LastTold(Tail(in), main)
             \/ (NothingTold(Tail(in)) /\ Head(in).value = main)
        /\ ~NothingTold(in)
    BY <1>a, <2>1, TailTold DEF Tells
  <2> QED
    BY <2>1, <2>2 DEF Informed
<1>8. CASE ReceiveGetItems(w)
  <2>1. /\ toWindow'[w] = Append(in, [kind |-> "items", value |-> main])
        /\ UNCHANGED main
    BY <1>a, <1>8 DEF ReceiveGetItems, ToWindow
  <2>2. /\ [kind |-> "items", value |-> main] \in Message
        /\ Tells([kind |-> "items", value |-> main])
    BY DEF TypeOK, Message, Tells
  <2>3. \A e \in Message :
           Tells(e) /\ e.value = main => LastTold(Append(in, e), main)
    BY <1>a, AppendTold
  <2> QED
    BY <2>1, <2>2, <2>3 DEF Informed
<1>9. CASE ReceiveUpdateItems(w)
  <2>1. /\ out # <<>> /\ Head(out).kind = "updateItems"
        /\ toMain'[w] = Tail(out)
        /\ toWindow'[w] = IF w \in sending
                         THEN Append(in, [kind |-> "reply"]) ELSE in
        /\ main' = Head(out).value
        /\ changed' = (changed \/ main' # main)
        /\ UNCHANGED <<phase, cache, pending, sending, listening>>
    BY <1>a, <1>9
    DEF ReceiveUpdateItems, MainReads, ToWindow, Answered, Changed,
        windowVars
  <2>2. CASE changed' \/ phase[w] \notin {"loading", "open"}
               \/ w \notin listening
    BY <1>a, <2>1, <2>2 DEF Informed
  <2>3. CASE /\ ~changed /\ main' = main /\ w \in listening
             /\ phase[w] \in {"loading", "open"}
    <3>1. /\ [kind |-> "reply"] \in Message
          /\ ~Tells([kind |-> "reply"])
      BY DEF Message, Tells
    <3>2. /\ LastTold(in, main) => LastTold(toWindow'[w], main)
          /\ NothingTold(in) => NothingTold(toWindow'[w])
      <4>1. \A e \in Message :
               ~Tells(e) =>
                  /\ LastTold(in, main) => LastTold(Append(in, e), main)
                  /\ NothingTold(in) => NothingTold(Append(in, e))
        BY <1>a, AppendTold
      <4> QED
        BY <2>1, <3>1, <4>1
    <3>3. w \in sending /\ Tail(out) = <<>>
      BY <1>a, <2>1, <2>3
      DEF Staged, Loading, InUse, Idle, Sent, Replied
    <3>4. LastSent(out, cache[w]) => main = cache[w]
      BY <1>a, <2>1, <2>3, <3>3, Taken DEF LastSent
    <3> QED
      BY <2>1, <2>3, <3>2, <3>4 DEF Informed, WillSend
  <2> QED
    BY <2>1, <2>2, <2>3
<1>10. CASE \E v \in Value : Write(w, v)
  <2>1. PICK v \in Value : Write(w, v)
    BY <1>10
  <2>2. UNCHANGED <<phase, toMain, toWindow, listening, main, changed>>
    BY <2>1 DEF Write, mainVars
  <2>3. CASE v = cache[w]
    BY <2>1, <2>2, <2>3 DEF Write, Informed, WillSend
  <2>4. CASE v # cache[w]
    BY <1>a, <2>1, <2>2, <2>4 DEF Write, Informed, WillSend
  <2> QED
    BY <2>3, <2>4
<1> QED
  BY <1>1, <1>2, <1>3, <1>4, <1>5, <1>6, <1>7, <1>8, <1>9, <1>10 DEF Step

\* Init establishes the invariant.
LEMMA AgreementInit == ASSUME Init PROVE AgreementInv
<1>1. TypeOK
  BY EmptySeq DEF Init, TypeOK, Phases, Value
<1>2. ASSUME NEW w \in Windows PROVE Staged(w) /\ Informed(w)
  BY EmptyStream DEF Init, Staged, Closed, Informed
<1> QED
  BY <1>1, <1>2 DEF AgreementInv

\* Every step keeps the invariant.
LEMMA AgreementNext ==
    ASSUME ConstantsAssumption, AgreementInv, [Next]_vars
    PROVE  AgreementInv'
<1>1. CASE UNCHANGED vars
  BY <1>1
  DEF vars, AgreementInv, TypeOK, Staged, Closed, Loading, InUse, Idle,
      Sent, Replied, Informed, WillSend
<1>2. CASE Announce
  <2>1. TypeOK'
    BY <1>2, TypePreserved DEF AgreementInv, Next
  <2> QED
    BY <1>2, <2>1, AnnouncementStaged, AnnouncementInforms DEF AgreementInv
<1>3. CASE Next /\ ~Announce
  <2>1. PICK w \in Windows : Step(w)
    BY <1>3, StepsAreNext
  <2>2. TypeOK'
    BY <1>3, TypePreserved DEF AgreementInv
  <2>3. Staged(w)' /\ Informed(w)'
    BY <2>1, StagePreserved, InformedPreserved DEF AgreementInv
  <2>4. ASSUME NEW x \in Windows \ {w} PROVE Staged(x)' /\ Informed(x)'
    <3>1. Untouched(x)
      BY <2>1, OthersUntouched DEF AgreementInv
    <3>2. changed' \/ (main' = main /\ (changed => changed'))
      BY <2>1, MainAnnounces DEF AgreementInv
    <3> QED
      BY <3>1, <3>2, StageKept, InformedKept DEF AgreementInv
  <2> QED
    BY <2>2, <2>3, <2>4 DEF AgreementInv
<1> QED
  BY <1>1, <1>2, <1>3

\* The invariant implies agreement: on empty streams nothing is still to come.
LEMMA InvImpliesAgreement ==
    ASSUME ConstantsAssumption, AgreementInv PROVE Agreement
<1> SUFFICES ASSUME Quiet, NEW w \in Windows, phase[w] = "open"
             PROVE  cache[w] = main
  BY DEF Agreement
<1>1. /\ ~changed /\ pending[w] = Nothing /\ toMain[w] = <<>>
      /\ toWindow[w] = <<>>
  BY DEF Quiet, Unsaved
<1>2. w \in listening /\ cache[w] # Nothing
  BY DEF AgreementInv, TypeOK, Value, ConstantsAssumption, Staged, InUse
<1> QED
  BY <1>1, <1>2, EmptyStream
  DEF AgreementInv, Informed, WillSend, LastSent

\* Once everything is quiet the open windows have the value of the main
\* process, for any windows and values, though the announcements, the
\* updates and the opening and closing of windows cross.
THEOREM WindowsAgree == Spec => []Agreement
<1>1. Init => AgreementInv
  BY AgreementInit
<1>2. AgreementInv /\ [Next]_vars => AgreementInv'
  BY ConstantsAssumption, AgreementNext
<1>3. AgreementInv => Agreement
  BY ConstantsAssumption, InvImpliesAgreement
<1> QED
  BY <1>1, <1>2, <1>3, PTL DEF Spec

-----------------------------------------------------------------------------
(* The value written last                                                  *)

\* Whoever has not written has nothing to save.
Saved(w) ==
    w \notin writers =>
        /\ pending[w] = Nothing /\ w \notin sending
        /\ Only(toMain[w], "getItems")

\* The value the main process will have in the end, if w alone writes, is the
\* one written last.
WillBeWritten(w) ==
    /\ pending[w] \in {Nothing, written}
    /\ pending[w] = Nothing =>
          IF w \in sending /\ toMain[w] # <<>>
          THEN Head(toMain[w]).value = written ELSE main = written

\* The window shows it, and will be told nothing else once it has nothing to
\* save.
Shown(w) ==
    /\ phase[w] = "open" => cache[w] = written
    /\ w \notin sending /\ pending[w] = Nothing
          => OnlyTold(toWindow[w], main)
    /\ w \in sending => ToldAfterReply(toWindow[w], main)

Followed(w) ==
    ~excused =>
        /\ phase[w] \in {"closed", "loading"} => Only(toMain[w], "getItems")
        /\ writers \subseteq {w} => WillBeWritten(w) /\ Shown(w)

LastWriteInv ==
    /\ AgreementInv
    /\ IsFiniteSet(writers)
    /\ \A w \in Windows : Saved(w) /\ Followed(w)

\* A change that another window sends counts only if it has written.
LEMMA FollowedKept ==
    ASSUME TypeOK, NEW w \in Windows, Step(w), Saved(w),
           NEW x \in Windows \ {w}, Untouched(x), Saved(x), Followed(x)
    PROVE  Saved(x)' /\ Followed(x)'
<1>1. CASE \E v \in Value : Write(w, v)
  <2>1. PICK v \in Value : Write(w, v)
    BY <1>1
  <2>2. w \in writers' /\ ~(writers' \subseteq {x})
    BY <2>1 DEF Write
  <2>3. CASE Quiet
    <3>1. /\ pending[x] = Nothing /\ x \notin sending
          /\ Only(toMain[x], "getItems")
      BY <2>3, EmptyStream DEF Quiet, Unsaved
    <3> QED
      BY <2>2, <3>1 DEF Untouched, Saved, Followed
  <2>4. CASE ~Quiet
    <3>1. writers' = writers \cup {w} /\ excused' = excused
      BY <2>1, <2>4 DEF Write, TypeOK
    <3> QED
      BY <2>2, <3>1 DEF Untouched, Saved, Followed
  <2> QED
    BY <2>3, <2>4
<1>2. CASE ReceiveUpdateItems(w)
  <2>1. w \in writers
    <3>1. /\ toMain[w] # <<>> /\ Head(toMain[w]).kind = "updateItems"
          /\ toMain[w] \in Seq(Request)
      BY <1>2 DEF ReceiveUpdateItems, MainReads, TypeOK
    <3>2. ~Only(toMain[w], "getItems")
      BY <3>1, TailKinds
    <3> QED
      BY <3>2 DEF Saved
  <2>2. writers' = writers /\ excused' = excused /\ ~(writers \subseteq {x})
    BY <1>2, <2>1 DEF ReceiveUpdateItems, historyVars
  <2> QED
    BY <2>2 DEF Untouched, Saved, Followed
<1>3. CASE ~ReceiveUpdateItems(w) /\ ~(\E v \in Value : Write(w, v))
  <2>1. /\ UNCHANGED <<main, writers, written>>
        /\ excused => excused'
    <3>1. CASE Open(w) \/ Flush(w) \/ BeginClose(w) \/ EndClose(w)
      BY <3>1 DEF Open, Flush, BeginClose, EndClose, mainVars, historyVars
    <3>2. CASE Die(w) \/ ReceiveChange(w)
      BY <3>2 DEF Die, ReceiveChange, mainVars
    <3>3. CASE ReceiveItems(w) \/ ReceiveReply(w) \/ ReceiveGetItems(w)
      BY <3>3
      DEF ReceiveItems, ReceiveReply, ReceiveGetItems, mainVars, historyVars
    <3> QED
      BY <1>3, <3>1, <3>2, <3>3 DEF Step
  <2> QED
    BY <2>1 DEF Untouched, Saved, Followed, WillBeWritten, Shown
<1> QED
  BY <1>1, <1>2, <1>3

\* An announcement tells the value the main process has.
LEMMA AnnouncementFollowed ==
    ASSUME TypeOK, NEW w \in Windows, Announce, Saved(w), Followed(w)
    PROVE  Saved(w)' /\ Followed(w)'
<1> DEFINE m == [kind |-> "change", value |-> main]
           in == toWindow[w]
<1>1. m \in Message /\ m.value = main /\ in \in Seq(Message)
  BY DEF TypeOK, Message
<1>2. /\ UNCHANGED <<phase, cache, pending, sending, toMain, main, writers,
                     written, excused>>
      /\ toWindow'[w] = IF w \in listening THEN Append(in, m) ELSE in
  BY DEF Announce, windowVars, historyVars
<1> HIDE DEF m
<1>3. /\ OnlyTold(in, main) => OnlyTold(Append(in, m), main)
      /\ ToldAfterReply(in, main) => ToldAfterReply(Append(in, m), main)
  BY <1>1, AppendTold
<1> HIDE DEF in
<1> QED
  BY <1>2, <1>3 DEF Saved, Followed, WillBeWritten, Shown, in

\* Without a reply nothing is behind one.
LEMMA NoReply ==
    ASSUME NEW s, NEW v, None(s, "reply") PROVE ToldAfterReply(s, v)
BY DEF None, ToldAfterReply

\* A window follows the value it has written.
LEMMA FollowedPreserved ==
    ASSUME ConstantsAssumption, TypeOK, Agreement, NEW w \in Windows,
           Staged(w), Saved(w), Followed(w), Step(w)
    PROVE  Saved(w)' /\ Followed(w)'
<1> DEFINE in == toWindow[w]
           out == toMain[w]
<1>a. /\ phase \in [Windows -> Phases] /\ w \in DOMAIN phase
      /\ cache \in [Windows -> Value]
      /\ pending \in [Windows -> Value \cup {Nothing}]
      /\ toMain \in [Windows -> Seq(Request)]
      /\ toWindow \in [Windows -> Seq(Message)]
      /\ in \in Seq(Message) /\ out \in Seq(Request)
      /\ phase[w] \in {"closed", "loading", "open", "closing"}
      /\ cache[w] # Nothing /\ Nothing \notin Value
      /\ excused \in BOOLEAN
  BY DEF TypeOK, Phases, ConstantsAssumption, Value
<1>1. CASE Open(w)
  <2>1. /\ phase[w] = "closed" /\ phase'[w] = "loading"
        /\ toMain'[w] = Append(out, [kind |-> "getItems"])
        /\ UNCHANGED <<cache, pending, sending, toWindow, main, writers,
                       written, excused>>
    BY <1>a, <1>1 DEF Open, ToMain, mainVars
  <2>2. Only(out, "getItems") => Only(toMain'[w], "getItems")
    <3>1. [kind |-> "getItems"] \in Request
      BY DEF Request
    <3>2. \A e \in Request :
             e.kind = "getItems" /\ Only(out, "getItems")
                => Only(Append(out, e), "getItems")
      BY <1>a, AppendKinds
    <3> QED
      BY <2>1, <3>1, <3>2
  <2>3. w \notin sending
    BY <2>1 DEF Staged, Closed
  <2> QED
    BY <2>1, <2>2, <2>3 DEF Saved, Followed, WillBeWritten, Shown
<1>2. CASE Flush(w)
  <2>1. /\ pending[w] # Nothing /\ pending'[w] = Nothing
        /\ w \notin sending /\ sending' = sending \cup {w}
        /\ toMain'[w] =
             Append(out, [kind |-> "updateItems", value |-> pending[w]])
        /\ UNCHANGED <<phase, cache, toWindow, main, writers, written,
                       excused>>
    BY <1>a, <1>2 DEF Flush, ToMain, mainVars, historyVars
  <2>2. phase[w] \in {"open", "closing"} /\ Idle(w)
    BY <1>a, <2>1 DEF Staged, Closed, Loading, InUse, Sent, Replied
  <2>3. toMain'[w] # <<>> /\ Head(toMain'[w]).value = pending[w]
    <3>1. [kind |-> "updateItems", value |-> pending[w]] \in Request
      BY <1>a, <2>1 DEF Request
    <3>2. out = <<>> /\ Len(out) = 0
      BY <2>2 DEF Idle
    <3>3. \A e \in Request :
             Append(out, e) # <<>> /\ Head(Append(out, e)) = e
      BY <3>2
    <3> QED
      BY <2>1, <3>1, <3>3
  <2>4. ToldAfterReply(in, main)
    BY <2>2, NoReply DEF Idle
  <2>5. w \in writers
    BY <2>1 DEF Saved
  <2> QED
    BY <2>1, <2>2, <2>3, <2>4, <2>5
    DEF Saved, Followed, WillBeWritten, Shown
<1>3. CASE BeginClose(w)
  <2>1. /\ phase[w] = "open" /\ phase'[w] = "closing"
        /\ UNCHANGED <<cache, pending, sending, toMain, toWindow, main,
                       writers, written, excused>>
    BY <1>a, <1>3 DEF BeginClose, mainVars, historyVars
  <2> QED
    BY <2>1 DEF Saved, Followed, WillBeWritten, Shown
<1>4. CASE EndClose(w)
  <2>1. /\ phase[w] = "closing" /\ w \notin sending /\ phase'[w] = "closed"
        /\ pending[w] = Nothing /\ pending'[w] = Nothing
        /\ toWindow'[w] = <<>>
        /\ UNCHANGED <<cache, sending, toMain, main, writers, written,
                       excused>>
    BY <1>a, <1>4 DEF EndClose, Done, historyVars
  <2>2. out = <<>> /\ Only(out, "getItems")
    BY <2>1, EmptyStream DEF Staged, InUse, Idle, Sent, Replied
  <2> QED
    BY <2>1, <2>2, EmptyStream DEF Saved, Followed, WillBeWritten, Shown
<1>5. CASE Die(w)
  <2>1. /\ phase[w] # "closed" /\ phase'[w] = "closed"
        /\ pending'[w] = Nothing /\ w \notin sending'
        /\ toWindow'[w] = <<>>
        /\ toMain'[w] \in {<<>>, Updates(out)}
        /\ excused' = (excused \/ Unsaved(w))
        /\ UNCHANGED <<cache, main, writers, written>>
    BY <1>a, <1>5 DEF Die
  <2>2. Only(out, "getItems") => Only(toMain'[w], "getItems")
    BY <1>a, <2>1, Remaining, EmptyStream
  <2>3. Saved(w)'
    BY <2>1, <2>2 DEF Saved
  <2>4. CASE excused'
    BY <2>3, <2>4 DEF Followed
  <2>5. CASE ~excused'
    <3>1. ~excused /\ pending[w] = Nothing /\ w \notin sending
      BY <1>a, <2>1, <2>5 DEF Unsaved
    <3>2. Only(out, "getItems")
      BY <1>a, <2>1, <3>1, EmptyStream
      DEF Followed, Staged, InUse, Idle, Sent, Replied
    <3> QED
      BY <2>1, <2>2, <2>3, <3>1, <3>2, EmptyStream
      DEF Followed, WillBeWritten, Shown
  <2> QED
    BY <2>4, <2>5
<1>6. CASE ReceiveItems(w)
  <2>1. /\ in # <<>> /\ Head(in).kind = "items" /\ toWindow'[w] = Tail(in)
        /\ phase'[w] = "open" /\ cache'[w] = Head(in).value
        /\ UNCHANGED <<pending, sending, toMain, main, writers, written,
                       excused>>
    BY <1>a, <1>6 DEF ReceiveItems, WindowReads, mainVars, historyVars
  <2>2. pending[w] = Nothing /\ w \notin sending
    <3>1. ~None(in, "items")
      BY <1>a, <2>1, TailKinds
    <3> QED
      BY <1>a, <2>1, <3>1 DEF Staged, Closed, Loading, InUse
  <2>3. OnlyTold(in, main) => OnlyTold(Tail(in), main) /\ Head(in).value = main
    BY <1>a, <2>1, TailTold DEF Tells
  <2> QED
    BY <2>1, <2>2, <2>3 DEF Saved, Followed, WillBeWritten, Shown
<1>7. CASE ReceiveReply(w)
  <2>1. /\ in # <<>> /\ Head(in).kind = "reply" /\ toWindow'[w] = Tail(in)
        /\ sending' = sending \ {w}
        /\ UNCHANGED <<phase, cache, pending, toMain, main, writers, written,
                       excused>>
    BY <1>a, <1>7 DEF ReceiveReply, WindowReads, mainVars, historyVars
  <2>2. Replied(w)
    <3>1. ~None(in, "reply")
      BY <1>a, <2>1, TailKinds
    <3>2. ~Answering(in)
      BY <1>a, <2>1, TailPhases
    <3> QED
      BY <1>a, <2>1, <3>1, <3>2
      DEF Staged, Closed, Loading, InUse, Idle, Sent
  <2>3. ToldAfterReply(in, main) => OnlyTold(Tail(in), main)
    BY <1>a, <2>1, TailTold
  <2> QED
    BY <2>1, <2>2, <2>3 DEF Saved, Followed, WillBeWritten, Shown, Replied
<1>8. CASE ReceiveChange(w)
  <2>1. /\ in # <<>> /\ Head(in).kind = "change" /\ toWindow'[w] = Tail(in)
        /\ cache' # cache => cache'[w] = Head(in).value
        /\ cache' = cache /\ phase[w] = "open" => cache[w] = Head(in).value
        /\ excused' = (excused \/ (Unsaved(w) /\ cache' # cache))
        /\ UNCHANGED <<phase, pending, sending, toMain, main, writers,
                       written>>
    BY <1>a, <1>8 DEF ReceiveChange, WindowReads, Accepts, mainVars
  <2>2. /\ OnlyTold(in, main) =>
             OnlyTold(Tail(in), main) /\ Head(in).value = main
        /\ ToldAfterReply(in, main) => ToldAfterReply(Tail(in), main)
    BY <1>a, <2>1, TailTold DEF Tells
  <2>3. CASE excused'
    BY <2>1, <2>3 DEF Saved, Followed
  <2>4. CASE ~excused' /\ ~Unsaved(w)
    BY <1>a, <2>1, <2>2, <2>4
    DEF Saved, Followed, WillBeWritten, Shown, Unsaved
  <2>5. CASE ~excused' /\ Unsaved(w)
    <3>1. ~excused /\ cache' = cache
      BY <1>a, <2>1, <2>5
    <3> QED
      BY <2>1, <2>2, <3>1 DEF Saved, Followed, WillBeWritten, Shown
  <2> QED
    BY <2>3, <2>4, <2>5
<1>9. CASE ReceiveGetItems(w)
  <2>1. /\ out # <<>> /\ Head(out).kind = "getItems"
        /\ toMain'[w] = Tail(out)
        /\ toWindow'[w] = Append(in, [kind |-> "items", value |-> main])
        /\ UNCHANGED <<phase, cache, pending, sending, main, writers, written,
                       excused>>
    BY <1>a, <1>9
    DEF ReceiveGetItems, MainReads, ToWindow, windowVars, historyVars
  <2>2. /\ phase[w] = "loading" /\ w \notin sending
    <3>1. ~Only(out, "updateItems")
      BY <1>a, <2>1, TailKinds
    <3> QED
      BY <1>a, <2>1, <3>1
      DEF Staged, Closed, Loading, InUse, Idle, Sent, Replied
  <2>3. Only(out, "getItems") => Only(Tail(out), "getItems")
    BY <1>a, <2>1, TailKinds
  <2>4. OnlyTold(in, main) => OnlyTold(toWindow'[w], main)
    <3>1. /\ [kind |-> "items", value |-> main] \in Message
          /\ [kind |-> "items", value |-> main].value = main
      BY DEF TypeOK, Message
    <3>2. \A e \in Message :
             e.value = main /\ OnlyTold(in, main)
                => OnlyTold(Append(in, e), main)
      BY <1>a, AppendTold
    <3> QED
      BY <2>1, <3>1, <3>2
  <2> QED
    BY <2>1, <2>2, <2>3, <2>4 DEF Saved, Followed, WillBeWritten, Shown
<1>10. CASE ReceiveUpdateItems(w)
  <2>1. /\ out # <<>> /\ Head(out).kind = "updateItems"
        /\ toMain'[w] = Tail(out)
        /\ toWindow'[w] = IF w \in sending
                         THEN Append(in, [kind |-> "reply"]) ELSE in
        /\ main' = Head(out).value
        /\ UNCHANGED <<phase, cache, pending, sending, writers, written,
                       excused>>
    BY <1>a, <1>10
    DEF ReceiveUpdateItems, MainReads, ToWindow, Answered, windowVars,
        historyVars
  <2>2. ~Only(out, "getItems")
    BY <1>a, <2>1, TailKinds
  <2>3. Saved(w)'
    BY <2>1, <2>2 DEF Saved
  <2>4. CASE excused
    BY <2>1, <2>3, <2>4 DEF Followed
  <2>5. CASE ~excused
    <3>1. phase[w] \in {"open", "closing"} /\ Sent(w)
      BY <1>a, <2>1, <2>2, <2>5
      DEF Followed, Staged, InUse, Idle, Replied
    <3>2. ToldAfterReply(toWindow'[w], main')
      <4>1. [kind |-> "reply"] \in Message
        BY DEF Message
      <4>2. None(in, "reply") => \A e \in Message :
               e.kind = "reply" => ToldAfterReply(Append(in, e), main')
        BY <1>a, AppendTold
      <4> QED
        BY <2>1, <3>1, <4>1, <4>2 DEF Sent
    <3> QED
      BY <2>1, <2>3, <2>5, <3>1, <3>2
      DEF Followed, WillBeWritten, Shown, Sent
  <2> QED
    BY <2>4, <2>5
<1>11. CASE \E v \in Value : Write(w, v)
  <2>1. PICK v \in Value : Write(w, v)
    BY <1>11
  <2>2. /\ phase[w] = "open" /\ written' = v /\ w \in writers'
        /\ UNCHANGED <<phase, sending, toMain, toWindow, main>>
        /\ \/ v = cache[w] /\ UNCHANGED <<cache, pending>>
           \/ v # cache[w] /\ cache'[w] = v /\ pending'[w] = v
    BY <1>a, <2>1 DEF Write, mainVars
  <2>3. CASE Quiet
    <3>1. /\ cache[w] = main /\ pending[w] = Nothing /\ w \notin sending
          /\ in = <<>>
      BY <2>2, <2>3 DEF Agreement, Quiet, Unsaved
    <3> QED
      BY <1>a, <2>2, <3>1, EmptyStream
      DEF Saved, Followed, WillBeWritten, Shown
  <2>4. CASE ~Quiet
    <3>1. excused' = excused /\ writers \subseteq writers'
      BY <1>a, <2>1, <2>4 DEF Write
    <3> QED
      BY <1>a, <2>2, <3>1 DEF Saved, Followed, WillBeWritten, Shown
  <2> QED
    BY <2>3, <2>4
<1> QED
  BY <1>1, <1>2, <1>3, <1>4, <1>5, <1>6, <1>7, <1>8, <1>9, <1>10, <1>11
  DEF Step

\* Init establishes the invariant.
LEMMA LastWriteInit == ASSUME ConstantsAssumption, Init PROVE LastWriteInv
<1>1. IsFiniteSet(writers)
  BY FS_EmptySet DEF Init
<1>2. ASSUME NEW w \in Windows PROVE Saved(w) /\ Followed(w)
  BY EmptyStream DEF Init, Saved, Followed, WillBeWritten, Shown
<1> QED
  BY <1>1, <1>2, AgreementInit DEF LastWriteInv

\* Every step keeps the invariant.
LEMMA LastWriteNext ==
    ASSUME ConstantsAssumption, LastWriteInv, [Next]_vars
    PROVE  LastWriteInv'
<1>0. AgreementInv' /\ Agreement /\ TypeOK
  BY AgreementNext, InvImpliesAgreement DEF LastWriteInv, AgreementInv
<1>1. CASE UNCHANGED vars
  BY <1>0, <1>1
  DEF vars, LastWriteInv, Saved, Followed, WillBeWritten, Shown
<1>2. CASE Announce
  <2>1. writers' = writers
    BY <1>2 DEF Announce, historyVars
  <2> QED
    BY <1>0, <1>2, <2>1, AnnouncementFollowed DEF LastWriteInv
<1>3. CASE Next /\ ~Announce
  <2>1. PICK w \in Windows : Step(w)
    BY <1>3, StepsAreNext
  <2>2. Saved(w)' /\ Followed(w)'
    BY <1>0, <2>1, FollowedPreserved DEF LastWriteInv, AgreementInv
  <2>3. ASSUME NEW x \in Windows \ {w} PROVE Saved(x)' /\ Followed(x)'
    <3>1. Untouched(x)
      BY <1>0, <2>1, OthersUntouched
    <3> QED
      BY <1>0, <2>1, <3>1, FollowedKept DEF LastWriteInv
  <2>4. IsFiniteSet(writers')
    <3>1. writers' \in {writers, writers \cup {w}, {} \cup {w}}
      BY <2>1
      DEF Step, Open, Flush, BeginClose, EndClose, Die, ReceiveItems,
          ReceiveReply, ReceiveChange, ReceiveGetItems, ReceiveUpdateItems,
          Write, historyVars
    <3> QED
      BY <3>1, FS_EmptySet, FS_AddElement DEF LastWriteInv
  <2> QED
    BY <1>0, <2>2, <2>3, <2>4 DEF LastWriteInv
<1> QED
  BY <1>1, <1>2, <1>3

\* The invariant implies that the value written last stays.
LEMMA InvImpliesLastWrite ==
    ASSUME LastWriteInv PROVE LastWriteStays
<1> SUFFICES ASSUME Quiet, Cardinality(writers) = 1, ~excused
             PROVE  main = written
  BY DEF LastWriteStays
<1>1. PICK w : writers = {w}
  BY FS_Singleton DEF LastWriteInv
<1>2. w \in Windows
  BY <1>1 DEF LastWriteInv, AgreementInv, TypeOK
<1>3. pending[w] = Nothing /\ w \notin sending
  BY <1>2 DEF Quiet, Unsaved
<1> QED
  BY <1>1, <1>2, <1>3 DEF LastWriteInv, Followed, WillBeWritten

\* The value a window alone has written last is the one that stays, for any
\* number of windows that are opened, read, are closed and die meanwhile.
THEOREM TheLastWriteStays == Spec => []LastWriteStays
<1>1. Init => LastWriteInv
  BY ConstantsAssumption, LastWriteInit
<1>2. LastWriteInv /\ [Next]_vars => LastWriteInv'
  BY ConstantsAssumption, LastWriteNext
<1>3. LastWriteInv => LastWriteStays
  BY InvImpliesLastWrite
<1> QED
  BY <1>1, <1>2, <1>3, PTL DEF Spec

=============================================================================
