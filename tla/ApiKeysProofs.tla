--------------------------- MODULE ApiKeysProofs ---------------------------
(***************************************************************************)
(* Proofs about ApiKeys, for any calls, commands, keys and edits.          *)
(*                                                                         *)
(* ReadInv is about what a reply to getApiKey will find when it arrives:   *)
(* the extension host's copy of the settings is then the one there was     *)
(* when the window answered.  OneInv: a call waits for one thing at a time.*)
(* KeepInv is about removals of settings: as long as one may come, there   *)
(* is a stored key, or a command that clears the key ends after it.        *)
(***************************************************************************)
EXTENDS ApiKeys, TLAPS

-----------------------------------------------------------------------------
(* Types                                                                   *)

Places == {"new", "get", "store", "remove", "done"}
Call == [at : Places, from : Settings \cup {"env", "user"},
         key : Maybe \cup {Failed}]
Request == [call : Invocations, kind : {"get", "store"}, key : Maybe]
Removal == [call : Invocations, setting : Settings]
AnyReply == [kind : {"reply"}, call : Invocations, ok : BOOLEAN, key : Maybe]
AnyChange == [kind : {"settings"}, settings : [Settings -> Maybe]]
News == AnyReply \cup AnyChange

TypesInv ==
    /\ secret \in Maybe
    /\ settings \in [Settings -> Maybe] /\ seen \in [Settings -> Maybe]
    /\ secretOps \in Seq(Request)
    /\ settingOps \in Seq(Removal)
    /\ toExtHost \in Seq(News)
    /\ envKey \in Maybe
    /\ calls \in [Invocations -> Call]

\* What may be asked and answered when the calls are as cs says: nothing of a
\* call that has not begun, and no more than its secret of one that looks for
\* a key.
Requests(cs) ==
    {op \in Request : /\ cs[op.call].at # "new"
                      /\ op.kind = "store" => cs[op.call].at # "get"}
Removals(cs) == {op \in Removal : cs[op.call].at \notin {"new", "get"}}
Tidings(cs) == {m \in News : m.kind = "reply" => cs[m.call].at # "new"}

Begun ==
    /\ secretOps \in Seq(Requests(calls))
    /\ settingOps \in Seq(Removals(calls))
    /\ toExtHost \in Seq(Tidings(calls))

\* A call never goes back.
Onwards ==
    \A c \in Invocations :
        /\ calls[c].at # "new" => calls'[c].at # "new"
        /\ calls[c].at \notin {"new", "get"} => calls'[c].at \notin {"new", "get"}

\* What Inspect finds is a key, or none.
LEMMA InspectFinds ==
    ASSUME TypesInv, NEW s \in [Settings -> Maybe]
    PROVE  /\ Inspect(s).key \in Maybe
           /\ Inspect(s).from \in Settings \cup {"env"}
BY DEF Inspect, TypesInv, Settings

\* The key in effect is the secret, or what Inspect finds in the settings.
LEMMA EffectiveIs ==
    ASSUME TypesInv
    PROVE  Effective = IF secret # None THEN secret ELSE Inspect(settings).key
<1> DEFINE P(k) ==
        IF secret # None THEN k = secret
        ELSE IF settings["apiKey"] # None THEN k = settings["apiKey"]
        ELSE IF settings["k2ApiKey"] # None THEN k = settings["k2ApiKey"]
        ELSE k = envKey
<1>1. /\ settings["apiKey"] \in Maybe /\ settings["k2ApiKey"] \in Maybe
      /\ secret \in Maybe /\ envKey \in Maybe
  BY DEF TypesInv, Settings
<1>2. \E k \in Maybe : P(k)
  BY <1>1
<1>3. P(CHOOSE k \in Maybe : P(k))
  <2> HIDE DEF P
  <2> QED
    BY <1>2
<1>4. P(Effective)
  BY <1>3 DEF Effective
<1> QED
  BY <1>4 DEF Inspect

\* So it is after a step.
LEMMA EffectiveAfter ==
    ASSUME TypesInv, Observe, secret' \in Maybe, UNCHANGED settings
    PROVE  Effective' = IF secret' # None THEN secret'
                        ELSE Inspect(settings).key
<1> DEFINE P(k) ==
        IF secret' # None THEN k = secret'
        ELSE IF settings'["apiKey"] # None THEN k = settings'["apiKey"]
        ELSE IF settings'["k2ApiKey"] # None THEN k = settings'["k2ApiKey"]
        ELSE k = envKey'
<1>1. /\ settings'["apiKey"] \in Maybe /\ settings'["k2ApiKey"] \in Maybe
      /\ envKey' \in Maybe
  BY DEF TypesInv, Settings, Observe
<1>2. \E k \in Maybe : P(k)
  BY <1>1
<1>3. P(CHOOSE k \in Maybe : P(k))
  <2> HIDE DEF P
  <2> QED
    BY <1>2
<1>4. P(Effective')
  BY <1>3 DEF Effective
<1> QED
  BY <1>4 DEF Inspect, Observe

-----------------------------------------------------------------------------
(* What the extension host knows of the settings                           *)

Tells(m) == m.kind = "settings"

\* Once it has read n messages of q, the copy s has become v.
Knows(q, s, n, v) ==
    \/ v = s /\ \A j \in 1 .. n : ~Tells(q[j])
    \/ \E j \in 1 .. n :
          /\ Tells(q[j]) /\ q[j].settings = v
          /\ \A k \in j + 1 .. n : ~Tells(q[k])

\* A message sent later does not matter before it is read.
LEMMA KnowsSent ==
    ASSUME NEW q \in Seq(News), NEW m, NEW s, NEW n \in 0 .. Len(q), NEW v,
           Knows(Append(q, m), s, n, v)
    PROVE  Knows(q, s, n, v)
<1>1. \A j \in 1 .. n : Append(q, m)[j] = q[j]
  OBVIOUS
<1> QED
  BY <1>1 DEF Knows

\* A reply does not matter at all.
LEMMA KnowsReplySent ==
    ASSUME NEW q \in Seq(News), NEW m, ~Tells(m), NEW s, NEW v,
           Knows(Append(q, m), s, Len(q) + 1, v)
    PROVE  Knows(q, s, Len(q), v)
<1>1. /\ \A j \in 1 .. Len(q) : Append(q, m)[j] = q[j]
      /\ Append(q, m)[Len(q) + 1] = m
  OBVIOUS
<1> QED
  BY <1>1 DEF Knows

\* A change is all that matters.
LEMMA KnowsChangeSent ==
    ASSUME NEW q \in Seq(News), NEW m, Tells(m), NEW s, NEW v,
           Knows(Append(q, m), s, Len(q) + 1, v)
    PROVE  v = m.settings
<1>1. Append(q, m)[Len(q) + 1] = m
  OBVIOUS
<1>2. CASE \A j \in 1 .. Len(q) + 1 : ~Tells(Append(q, m)[j])
  BY <1>1, <1>2
<1>3. CASE \E j \in 1 .. Len(q) + 1 :
              /\ Tells(Append(q, m)[j]) /\ Append(q, m)[j].settings = v
              /\ \A k \in j + 1 .. Len(q) + 1 : ~Tells(Append(q, m)[k])
  <2> PICK j \in 1 .. Len(q) + 1 :
              /\ Tells(Append(q, m)[j]) /\ Append(q, m)[j].settings = v
              /\ \A k \in j + 1 .. Len(q) + 1 : ~Tells(Append(q, m)[k])
    BY <1>3
  <2>1. j = Len(q) + 1
    BY <1>1
  <2> QED
    BY <1>1, <2>1
<1> QED
  BY <1>2, <1>3 DEF Knows

\* Reading a reply changes nothing.
LEMMA KnowsReplyRead ==
    ASSUME NEW q \in Seq(News), q # <<>>, ~Tells(Head(q)), NEW s,
           NEW n \in 0 .. Len(q) - 1, NEW v, Knows(Tail(q), s, n, v)
    PROVE  Knows(q, s, n + 1, v)
<1>1. \A j \in 1 .. n : Tail(q)[j] = q[j + 1]
  OBVIOUS
<1>2. Head(q) = q[1]
  OBVIOUS
<1>3. CASE v = s /\ \A j \in 1 .. n : ~Tells(Tail(q)[j])
  <2> SUFFICES ASSUME NEW j \in 1 .. n + 1 PROVE ~Tells(q[j])
    BY <1>3 DEF Knows
  <2> QED
    BY <1>1, <1>2, <1>3
<1>4. CASE \E j \in 1 .. n :
              /\ Tells(Tail(q)[j]) /\ Tail(q)[j].settings = v
              /\ \A k \in j + 1 .. n : ~Tells(Tail(q)[k])
  <2> PICK j \in 1 .. n :
              /\ Tells(Tail(q)[j]) /\ Tail(q)[j].settings = v
              /\ \A k \in j + 1 .. n : ~Tells(Tail(q)[k])
    BY <1>4
  <2>1. Tells(q[j + 1]) /\ q[j + 1].settings = v
    BY <1>1
  <2>2. ASSUME NEW k \in j + 2 .. n + 1 PROVE ~Tells(q[k])
    <3>1. k - 1 \in j + 1 .. n /\ k - 1 \in 1 .. n /\ (k - 1) + 1 = k
      OBVIOUS
    <3>2. Tail(q)[k - 1] = q[k]
      BY <1>1, <3>1
    <3> QED
      BY <3>1, <3>2
  <2>3. j + 1 \in 1 .. n + 1
    OBVIOUS
  <2>4. \A k \in (j + 1) + 1 .. n + 1 : ~Tells(q[k])
    BY <2>2
  <2> QED
    BY <2>1, <2>3, <2>4 DEF Knows
<1> QED
  BY <1>3, <1>4 DEF Knows

\* Reading a change makes the copy what it tells.
LEMMA KnowsChangeRead ==
    ASSUME NEW q \in Seq(News), q # <<>>, Tells(Head(q)), NEW s,
           NEW n \in 0 .. Len(q) - 1, NEW v,
           Knows(Tail(q), Head(q).settings, n, v)
    PROVE  Knows(q, s, n + 1, v)
<1>1. \A j \in 1 .. n : Tail(q)[j] = q[j + 1]
  OBVIOUS
<1>2. Head(q) = q[1]
  OBVIOUS
<1>3. CASE v = Head(q).settings /\ \A j \in 1 .. n : ~Tells(Tail(q)[j])
  <2>1. ASSUME NEW k \in 2 .. n + 1 PROVE ~Tells(q[k])
    <3>1. k - 1 \in 1 .. n /\ (k - 1) + 1 = k
      OBVIOUS
    <3>2. Tail(q)[k - 1] = q[k]
      BY <1>1, <3>1
    <3> QED
      BY <1>3, <3>1, <3>2
  <2>2. 1 \in 1 .. n + 1 /\ \A k \in 1 + 1 .. n + 1 : ~Tells(q[k])
    BY <2>1
  <2> QED
    BY <1>2, <1>3, <2>2 DEF Knows
<1>4. CASE \E j \in 1 .. n :
              /\ Tells(Tail(q)[j]) /\ Tail(q)[j].settings = v
              /\ \A k \in j + 1 .. n : ~Tells(Tail(q)[k])
  <2> PICK j \in 1 .. n :
              /\ Tells(Tail(q)[j]) /\ Tail(q)[j].settings = v
              /\ \A k \in j + 1 .. n : ~Tells(Tail(q)[k])
    BY <1>4
  <2>1. Tells(q[j + 1]) /\ q[j + 1].settings = v
    BY <1>1
  <2>2. ASSUME NEW k \in j + 2 .. n + 1 PROVE ~Tells(q[k])
    <3>1. k - 1 \in j + 1 .. n /\ k - 1 \in 1 .. n /\ (k - 1) + 1 = k
      OBVIOUS
    <3>2. Tail(q)[k - 1] = q[k]
      BY <1>1, <3>1
    <3> QED
      BY <3>1, <3>2
  <2>3. j + 1 \in 1 .. n + 1
    OBVIOUS
  <2>4. \A k \in (j + 1) + 1 .. n + 1 : ~Tells(q[k])
    BY <2>2
  <2> QED
    BY <2>1, <2>3, <2>4 DEF Knows
<1> QED
  BY <1>3, <1>4 DEF Knows

-----------------------------------------------------------------------------
(* The invariant of reading                                                *)

\* Who has read all of q knows the settings t.
UpTo(q, s, t) ==
    \A v \in [Settings -> Maybe] : Knows(q, s, Len(q), v) => v = t

\* What getApiKey will find with the i-th message of q was in effect while it
\* looked.
Finds(q, s, i, cs, eff) ==
    LET c == q[i].call
    IN q[i].kind = "reply" /\ c \in Calls /\ cs[c].at = "get" =>
         IF q[i].key # None THEN q[i].key \in eff[c]
         ELSE \A v \in [Settings -> Maybe] :
                Knows(q, s, i - 1, v) => Inspect(v).key \in eff[c]

FindsAll(q, s, cs, eff) == \A i \in 1 .. Len(q) : Finds(q, s, i, cs, eff)

\* The command does not look for a key.
CommandsStore == \A c \in Commands : calls[c].at # "get"

ReadInv ==
    /\ TypesInv /\ Begun /\ CommandsStore
    /\ UpTo(toExtHost, seen, settings)
    /\ FindsAll(toExtHost, seen, calls, effective)

\* What is under way stays so when calls go on.
LEMMA StillBegun ==
    ASSUME TypesInv, Begun, Onwards
    PROVE  /\ secretOps \in Seq(Requests(calls'))
           /\ settingOps \in Seq(Removals(calls'))
           /\ toExtHost \in Seq(Tidings(calls'))
<1>1. /\ Requests(calls) \subseteq Requests(calls')
      /\ Removals(calls) \subseteq Removals(calls')
      /\ Tidings(calls) \subseteq Tidings(calls')
  BY DEF Onwards, Requests, Removals, Tidings, Request, Removal, News,
         AnyReply, AnyChange
<1>2. \A S, T, q : S \subseteq T /\ q \in Seq(S) => q \in Seq(T)
  OBVIOUS
<1> QED
  BY <1>1, <1>2 DEF Begun

\* What has been observed stays observed.
LEMMA StillFinds ==
    ASSUME ReadInv, Observe, Onwards
    PROVE  FindsAll(toExtHost, seen, calls', effective')
<1> SUFFICES ASSUME NEW i \in 1 .. Len(toExtHost),
                    toExtHost[i].kind = "reply", toExtHost[i].call \in Calls,
                    calls'[toExtHost[i].call].at = "get"
             PROVE  Finds(toExtHost, seen, i, calls', effective')
  BY DEF FindsAll, Finds
<1> DEFINE c == toExtHost[i].call
<1>1. toExtHost[i] \in Tidings(calls)
  BY DEF ReadInv, Begun
<1>2. calls[c].at = "get"
  BY <1>1 DEF Onwards, Tidings, Invocations
<1>3. effective[c] \subseteq effective'[c]
  BY DEF Observe
<1>4. Finds(toExtHost, seen, i, calls, effective)
  BY DEF ReadInv, FindsAll
<1> QED
  BY <1>2, <1>3, <1>4 DEF Finds

\* A message is sent.
LEMMA FindsSent ==
    ASSUME NEW q \in Seq(News), NEW s, NEW m, NEW cs, NEW eff,
           FindsAll(q, s, cs, eff),
           Finds(Append(q, m), s, Len(q) + 1, cs, eff)
    PROVE  FindsAll(Append(q, m), s, cs, eff)
<1> SUFFICES ASSUME NEW i \in 1 .. Len(q)
             PROVE  Finds(Append(q, m), s, i, cs, eff)
  BY DEF FindsAll
<1>1. Append(q, m)[i] = q[i]
  OBVIOUS
<1>2. \A v : Knows(Append(q, m), s, i - 1, v) => Knows(q, s, i - 1, v)
  BY KnowsSent
<1>3. Finds(q, s, i, cs, eff)
  BY DEF FindsAll
<1> QED
  BY <1>1, <1>2, <1>3 DEF Finds

\* A message is read.
LEMMA FindsRead ==
    ASSUME NEW q \in Seq(News), q # <<>>, NEW s, NEW t, NEW cs, NEW eff,
           FindsAll(q, s, cs, eff),
           IF Tells(Head(q)) THEN t = Head(q).settings ELSE t = s
    PROVE  FindsAll(Tail(q), t, cs, eff)
<1> SUFFICES ASSUME NEW i \in 1 .. Len(q) - 1
             PROVE  Finds(Tail(q), t, i, cs, eff)
  BY DEF FindsAll
<1>1. Tail(q)[i] = q[i + 1] /\ i + 1 \in 1 .. Len(q) /\ i - 1 \in 0 .. Len(q) - 1
  OBVIOUS
<1>2. \A v : Knows(Tail(q), t, i - 1, v) => Knows(q, s, i - 1 + 1, v)
  BY <1>1, KnowsReplyRead, KnowsChangeRead
<1>3. Finds(q, s, i + 1, cs, eff)
  BY <1>1 DEF FindsAll
<1>4. i - 1 + 1 = i /\ i + 1 - 1 = i
  OBVIOUS
<1> QED
  BY <1>1, <1>2, <1>3, <1>4 DEF Finds

\* Reading brings the copy up to date.
LEMMA UpToRead ==
    ASSUME NEW q \in Seq(News), q # <<>>, NEW s, NEW t, NEW u,
           UpTo(q, s, u),
           IF Tells(Head(q)) THEN t = Head(q).settings ELSE t = s
    PROVE  UpTo(Tail(q), t, u)
<1>1. Len(Tail(q)) = Len(q) - 1 /\ Len(q) - 1 \in 0 .. Len(q) - 1
      /\ Len(q) - 1 + 1 = Len(q)
  OBVIOUS
<1>2. \A v : Knows(Tail(q), t, Len(q) - 1, v) => Knows(q, s, Len(q) - 1 + 1, v)
  BY <1>1, KnowsReplyRead, KnowsChangeRead
<1> QED
  BY <1>1, <1>2 DEF UpTo

\* A message that is no change leaves it up to date, and a change makes it so.
LEMMA UpToSent ==
    ASSUME NEW q \in Seq(News), NEW s, NEW t, NEW m,
           IF Tells(m) THEN t = m.settings ELSE UpTo(q, s, t)
    PROVE  UpTo(Append(q, m), s, t)
<1>1. Len(Append(q, m)) = Len(q) + 1
  OBVIOUS
<1> QED
  BY <1>1, KnowsReplySent, KnowsChangeSent DEF UpTo

\* What a step has to show.
LEMMA ReadAfter ==
    ASSUME ReadInv, Observe,
           secret' \in Maybe, settings' \in [Settings -> Maybe],
           seen' \in [Settings -> Maybe], calls' \in [Invocations -> Call],
           secretOps' \in Seq(Requests(calls')),
           settingOps' \in Seq(Removals(calls')),
           toExtHost' \in Seq(Tidings(calls')),
           UpTo(toExtHost', seen', settings'),
           FindsAll(toExtHost', seen', calls', effective'),
           \A c \in Commands : calls'[c].at # "get"
    PROVE  ReadInv'
<1>1. /\ Requests(calls') \subseteq Request
      /\ Removals(calls') \subseteq Removal
      /\ Tidings(calls') \subseteq News
  BY DEF Requests, Removals, Tidings
<1>2. \A S, T, q : S \subseteq T /\ q \in Seq(S) => q \in Seq(T)
  OBVIOUS
<1>3. TypesInv'
  BY <1>1, <1>2 DEF ReadInv, TypesInv, Observe
<1>4. Begun' /\ CommandsStore'
  BY DEF Begun, CommandsStore
<1>5. UpTo(toExtHost, seen, settings)'
  BY DEF UpTo, Knows, Tells
<1>6. \A v : Inspect(v) = Inspect(v)'
  BY DEF Observe, Inspect
<1>7. FindsAll(toExtHost, seen, calls, effective)'
  BY <1>6 DEF FindsAll, Finds, Knows, Tells
<1> QED
  BY <1>3, <1>4, <1>5, <1>7 DEF ReadInv

-----------------------------------------------------------------------------
(* One lemma per step                                                      *)

\* A key in the settings, or none, is looked for.
LEMMA ReadGetApiKey ==
    \A c \in Calls : ReadInv /\ GetApiKey(c) /\ Observe => ReadInv'
<1> SUFFICES ASSUME NEW c \in Calls, ReadInv, GetApiKey(c), Observe
             PROVE  ReadInv'
  OBVIOUS
<1> DEFINE x == At("get", None)
<1>1. /\ calls[c].at = "new" /\ calls' = [calls EXCEPT ![c] = x]
      /\ secretOps' = Append(secretOps, Get(c))
      /\ UNCHANGED <<secret, settings, settingOps, toExtHost, seen>>
  BY DEF GetApiKey
<1>2. x \in Call /\ x.at = "get" /\ c \in Invocations /\ c \notin Commands
  BY ConstantsAssumption DEF Call, At, Places, Maybe, Invocations
<1> HIDE DEF x
<1>3. calls' \in [Invocations -> Call] /\ calls'[c] = x
  BY <1>1, <1>2 DEF ReadInv, TypesInv
<1>4. Onwards
  BY <1>1, <1>2 DEF Onwards, ReadInv, TypesInv
<1>5. Get(c) \in Requests(calls')
  BY <1>2, <1>3 DEF Get, Requests, Request, Maybe
<1>6. secretOps' \in Seq(Requests(calls'))
  <2>1. secretOps \in Seq(Requests(calls'))
    BY <1>4, StillBegun DEF ReadInv
  <2> QED
    BY <1>1, <1>5, <2>1
<1>7. \A d \in Commands : calls'[d].at # "get"
  BY <1>1, <1>2 DEF ReadInv, TypesInv, CommandsStore, Invocations
<1>8. FindsAll(toExtHost, seen, calls', effective')
  BY <1>4, StillFinds
<1>9. /\ settingOps' \in Seq(Removals(calls'))
      /\ toExtHost' \in Seq(Tidings(calls'))
  BY <1>1, <1>4, StillBegun DEF ReadInv
<1>10. /\ secret' \in Maybe /\ settings' \in [Settings -> Maybe]
       /\ seen' \in [Settings -> Maybe]
       /\ UpTo(toExtHost', seen', settings')
       /\ FindsAll(toExtHost', seen', calls', effective')
  BY <1>1, <1>8 DEF ReadInv, TypesInv
<1> QED
  BY <1>3, <1>6, <1>7, <1>9, <1>10, ReadAfter

\* The command stores without looking.
LEMMA ReadSetApiKey ==
    \A c \in Commands, k \in Maybe :
        ReadInv /\ SetApiKey(c, k) /\ Observe => ReadInv'
<1> SUFFICES ASSUME NEW c \in Commands, NEW k \in Maybe, ReadInv,
                    SetApiKey(c, k), Observe
             PROVE  ReadInv'
  OBVIOUS
<1> DEFINE x == [at |-> "store", from |-> "user", key |-> k]
<1>1. /\ calls[c].at = "new" /\ calls' = [calls EXCEPT ![c] = x]
      /\ secretOps' = Append(secretOps, Store(c, k))
      /\ UNCHANGED <<secret, settings, settingOps, toExtHost, seen>>
  BY DEF SetApiKey
<1>2. x \in Call /\ x.at = "store" /\ c \in Invocations
  BY DEF Call, Places, Invocations
<1> HIDE DEF x
<1>3. calls' \in [Invocations -> Call] /\ calls'[c] = x
  BY <1>1, <1>2 DEF ReadInv, TypesInv
<1>4. Onwards
  BY <1>1, <1>2 DEF Onwards, ReadInv, TypesInv
<1>5. Store(c, k) \in Requests(calls')
  BY <1>2, <1>3 DEF Store, Requests, Request
<1>6. secretOps' \in Seq(Requests(calls'))
  <2>1. secretOps \in Seq(Requests(calls'))
    BY <1>4, StillBegun DEF ReadInv
  <2> QED
    BY <1>1, <1>5, <2>1
<1>7. \A d \in Commands : calls'[d].at # "get"
  BY <1>1, <1>2 DEF ReadInv, TypesInv, CommandsStore, Invocations
<1>8. FindsAll(toExtHost, seen, calls', effective')
  BY <1>4, StillFinds
<1>9. /\ settingOps' \in Seq(Removals(calls'))
      /\ toExtHost' \in Seq(Tidings(calls'))
  BY <1>1, <1>4, StillBegun DEF ReadInv
<1>10. /\ secret' \in Maybe /\ settings' \in [Settings -> Maybe]
       /\ seen' \in [Settings -> Maybe]
       /\ UpTo(toExtHost', seen', settings')
       /\ FindsAll(toExtHost', seen', calls', effective')
  BY <1>1, <1>8 DEF ReadInv, TypesInv
<1> QED
  BY <1>3, <1>6, <1>7, <1>9, <1>10, ReadAfter

\* Where a call is after a reply, and what it asks for next.
LEMMA AfterReply ==
    ASSUME ReadInv, ReceiveReply
    PROVE  \E c \in Invocations, x \in Call :
              /\ c = Head(toExtHost).call
              /\ x.at \in {"store", "remove", "done"}
              /\ calls' = [calls EXCEPT ![c] = x]
              /\ IF x.at = "store"
                 THEN /\ x.key \in Maybe \ {None}
                      /\ secretOps' = Append(secretOps, Store(c, x.key))
                 ELSE UNCHANGED secretOps
              /\ IF x.at = "remove"
                 THEN \E s \in Settings :
                          settingOps' = Append(settingOps, Remove(c, s))
                 ELSE UNCHANGED settingOps
              /\ x.at = "remove" => calls[c].at = "store"
              /\ Head(toExtHost).ok /\ calls[c].at \in {"store", "remove"} =>
                    x.key = calls[c].key /\ x.at # "store"
              /\ ~Head(toExtHost).ok => x.at # "remove"
<1> DEFINE c == Head(toExtHost).call
           m == Head(toExtHost)
<1>1. m \in AnyReply
  BY DEF ReceiveReply, Reply, ReadInv, TypesInv, News, AnyReply, AnyChange
<1>2. c \in Invocations /\ calls[c] \in Call
  BY <1>1 DEF AnyReply, ReadInv, TypesInv
<1>3. calls[c].key \in Maybe \cup {Failed} /\ m.key \in Maybe
  BY <1>1, <1>2 DEF AnyReply, Call
<1>4. \A k \in Maybe \cup {Failed} :
          At("done", k) \in Call /\ At("done", k).at = "done"
  BY DEF At, Call, Places
<1>5. CASE calls[c].at = "get" /\ AfterGet(c) /\ UNCHANGED settingOps
  <2> DEFINE f == Inspect(seen)
             x == [at |-> "store", from |-> f.from, key |-> f.key]
  <2>1. f.key \in Maybe /\ f.from \in Settings \cup {"env"}
    BY InspectFinds DEF ReadInv, TypesInv
  <2>2. x \in Call /\ x.at = "store" /\ x.key = f.key
    BY <2>1 DEF Call, Places
  <2>3. CASE m.key # None
    BY <1>2, <1>3, <1>4, <1>5, <2>3 DEF AfterGet, Reply, Returns
  <2>4. CASE m.key = None /\ f.key = None
    <3>1. None \in Maybe
      BY DEF Maybe
    <3>2. Returns(c, None) /\ UNCHANGED secretOps
      BY <1>5, <2>4 DEF AfterGet, Reply
    <3> QED
      BY <1>2, <1>4, <1>5, <3>1, <3>2 DEF Returns
  <2>5. CASE m.key = None /\ f.key # None
    <3>1. /\ calls' = [calls EXCEPT ![c] = x]
          /\ secretOps' = Append(secretOps, Store(c, f.key))
      BY <1>5, <2>5 DEF AfterGet, Reply
    <3> QED
      BY <1>2, <1>5, <2>1, <2>2, <2>5, <3>1
  <2> QED
    BY <2>3, <2>4, <2>5
<1>6. CASE calls[c].at # "get" /\ ~m.ok /\ AfterRejection(c) /\ UNCHANGED secretOps
  BY <1>2, <1>4, <1>6 DEF AfterRejection, Returns
<1>7. CASE calls[c].at = "store" /\ m.ok /\ AfterStore(c) /\ UNCHANGED secretOps
  <2>1. CASE ToRemove(c) = {}
    <3>1. calls' = [calls EXCEPT ![c] = At("done", calls[c].key)]
          /\ UNCHANGED settingOps
      BY <1>7, <2>1 DEF AfterStore, Returns
    <3>2. At("done", calls[c].key).key = calls[c].key
      BY DEF At
    <3> QED
      BY <1>2, <1>3, <1>4, <1>7, <3>1, <3>2
  <2>2. CASE ToRemove(c) # {}
    <3> DEFINE x == [calls[c] EXCEPT !.at = "remove"]
    <3>1. /\ x \in Call /\ x.at = "remove" /\ x.key = calls[c].key
          /\ calls' = [calls EXCEPT ![c] = x]
      BY <1>2, <1>7, <2>2 DEF AfterStore, Call, Places
    <3>2. ToRemove(c) \subseteq Settings
      BY DEF ToRemove, Settings
    <3>3. \E s \in Settings : settingOps' = Append(settingOps, Remove(c, s))
      BY <1>7, <2>2, <3>2 DEF AfterStore
    <3> QED
      BY <1>2, <1>7, <3>1, <3>3
  <2> QED
    BY <2>1, <2>2
<1>8. CASE /\ calls[c].at = "remove" /\ m.ok
           /\ Returns(c, calls[c].key) /\ UNCHANGED <<secretOps, settingOps>>
  <2>1. At("done", calls[c].key).key = calls[c].key
    BY DEF At
  <2> QED
    BY <1>2, <1>3, <1>4, <1>8, <2>1 DEF Returns
<1> QED
  BY <1>5, <1>6, <1>7, <1>8 DEF ReceiveReply, Reply

\* A call goes on with what it is answered.
LEMMA ReadReceiveReply == ReadInv /\ ReceiveReply /\ Observe => ReadInv'
<1> SUFFICES ASSUME ReadInv, ReceiveReply, Observe PROVE ReadInv'
  OBVIOUS
<1>1. PICK c \in Invocations, x \in Call :
              /\ c = Head(toExtHost).call
              /\ x.at \in {"store", "remove", "done"}
              /\ calls' = [calls EXCEPT ![c] = x]
              /\ IF x.at = "store"
                 THEN /\ x.key \in Maybe \ {None}
                      /\ secretOps' = Append(secretOps, Store(c, x.key))
                 ELSE UNCHANGED secretOps
              /\ IF x.at = "remove"
                 THEN \E s \in Settings :
                          settingOps' = Append(settingOps, Remove(c, s))
                 ELSE UNCHANGED settingOps
  BY AfterReply
<1>2. /\ toExtHost # <<>> /\ toExtHost' = Tail(toExtHost)
      /\ ~Tells(Head(toExtHost))
      /\ UNCHANGED <<secret, settings, seen>>
  BY DEF ReceiveReply, Reply, Tells
<1>3. calls' \in [Invocations -> Call] /\ calls'[c] = x
  BY <1>1 DEF ReadInv, TypesInv
<1>4. Onwards
  BY <1>1 DEF Onwards, ReadInv, TypesInv
<1>5. /\ secretOps \in Seq(Requests(calls'))
      /\ settingOps \in Seq(Removals(calls'))
      /\ toExtHost \in Seq(Tidings(calls'))
  BY <1>4, StillBegun DEF ReadInv
<1>6. secretOps' \in Seq(Requests(calls'))
  <2>1. CASE /\ x.at = "store" /\ x.key \in Maybe
             /\ secretOps' = Append(secretOps, Store(c, x.key))
    <3>1. Store(c, x.key) \in Requests(calls')
      BY <1>3, <2>1 DEF Store, Requests, Request
    <3> QED
      BY <1>5, <2>1, <3>1
  <2> QED
    BY <1>1, <1>5, <2>1
<1>7. settingOps' \in Seq(Removals(calls'))
  <2>1. ASSUME NEW s \in Settings, x.at = "remove",
               settingOps' = Append(settingOps, Remove(c, s))
        PROVE  settingOps' \in Seq(Removals(calls'))
    <3>1. Remove(c, s) \in Removals(calls')
      BY <1>3, <2>1 DEF Remove, Removals, Removal
    <3> QED
      BY <1>5, <2>1, <3>1
  <2> QED
    BY <1>1, <1>5, <2>1
<1>8. toExtHost' \in Seq(Tidings(calls'))
  BY <1>2, <1>5
<1>9. \A d \in Commands : calls'[d].at # "get"
  BY <1>1 DEF ReadInv, TypesInv, CommandsStore, Invocations
<1>10. toExtHost \in Seq(News)
  BY DEF ReadInv, TypesInv
<1>11. FindsAll(toExtHost', seen', calls', effective')
  <2>1. FindsAll(toExtHost, seen, calls', effective')
    BY <1>4, StillFinds
  <2> QED
    BY <1>2, <1>10, <2>1, FindsRead
<1>12. UpTo(toExtHost', seen', settings')
  BY <1>2, <1>10, UpToRead DEF ReadInv
<1>13. /\ secret' \in Maybe /\ settings' \in [Settings -> Maybe]
       /\ seen' \in [Settings -> Maybe]
  BY <1>2 DEF ReadInv, TypesInv
<1> QED
  BY <1>3, <1>6, <1>7, <1>8, <1>9, <1>11, <1>12, <1>13, ReadAfter

\* What remains of a sequence is of the same kind.
LEMMA Shortened ==
    ASSUME NEW S, NEW q \in Seq(S), q # <<>>
    PROVE  Tail(q) \in Seq(S)
OBVIOUS

\* What the window sends while the calls stay where they are.
LEMMA ReadWindow ==
    ASSUME ReadInv, Observe, UNCHANGED <<calls, seen>>,
           secret' \in Maybe, settings' \in [Settings -> Maybe],
           \/ UNCHANGED secretOps
           \/ secretOps # <<>> /\ secretOps' = Tail(secretOps),
           \/ UNCHANGED settingOps
           \/ settingOps # <<>> /\ settingOps' = Tail(settingOps),
           toExtHost' \in Seq(Tidings(calls)),
           UpTo(toExtHost', seen, settings'),
           FindsAll(toExtHost', seen, calls, effective')
    PROVE  ReadInv'
<1>1. /\ secretOps' \in Seq(Requests(calls'))
      /\ settingOps' \in Seq(Removals(calls'))
      /\ toExtHost' \in Seq(Tidings(calls'))
  <2>1. secretOps \in Seq(Requests(calls)) /\ settingOps \in Seq(Removals(calls))
    BY DEF ReadInv, Begun
  <2>2. secretOps' \in Seq(Requests(calls)) /\ settingOps' \in Seq(Removals(calls))
    BY <2>1, Shortened
  <2> QED
    BY <2>2
<1>2. /\ calls' \in [Invocations -> Call] /\ seen' \in [Settings -> Maybe]
      /\ \A d \in Commands : calls'[d].at # "get"
      /\ UpTo(toExtHost', seen', settings')
      /\ FindsAll(toExtHost', seen', calls', effective')
  BY DEF ReadInv, TypesInv, CommandsStore
<1> QED
  BY <1>1, <1>2, ReadAfter

\* Calls that stay where they are go on.
LEMMA Staying == ASSUME UNCHANGED calls PROVE Onwards
BY DEF Onwards

\* An answer to a call that does not look for a key finds nothing.
LEMMA AnswerSent ==
    ASSUME ReadInv, Observe, UNCHANGED calls,
           NEW q \in Seq(Tidings(calls)), NEW c \in Invocations,
           NEW ok \in BOOLEAN,
           calls[c].at \notin {"new", "get"},
           UpTo(q, seen, settings'), FindsAll(q, seen, calls, effective')
    PROVE  LET r == Append(q, Answer(c, ok, None))
           IN /\ r \in Seq(Tidings(calls))
              /\ UpTo(r, seen, settings')
              /\ FindsAll(r, seen, calls, effective')
<1> DEFINE m == Answer(c, ok, None)
           r == Append(q, m)
<1>1. m \in AnyReply /\ m.call = c /\ ~Tells(m)
  BY DEF Answer, AnyReply, Maybe, Tells
<1>2. m \in Tidings(calls)
  BY <1>1 DEF Tidings, News
<1> HIDE DEF m
<1>3. q \in Seq(News) /\ r[Len(q) + 1] = m
  BY DEF Tidings
<1>4. Finds(r, seen, Len(q) + 1, calls, effective')
  BY <1>1, <1>3 DEF Finds
<1>5. FindsAll(r, seen, calls, effective')
  BY <1>3, <1>4, FindsSent
<1>6. UpTo(r, seen, settings')
  BY <1>1, <1>3, UpToSent
<1>7. r \in Seq(Tidings(calls))
  BY <1>2
<1> QED
  BY <1>5, <1>6, <1>7 DEF m

\* News of a change finds nothing, and brings the settings.
LEMMA ChangeSent ==
    ASSUME ReadInv, Observe, UNCHANGED calls,
           NEW s \in [Settings -> Maybe]
    PROVE  LET r == Append(toExtHost, Changed(s))
           IN /\ r \in Seq(Tidings(calls))
              /\ UpTo(r, seen, s)
              /\ FindsAll(r, seen, calls, effective')
<1> DEFINE m == Changed(s)
           r == Append(toExtHost, m)
<1>1. m \in AnyChange /\ m.kind = "settings" /\ m.settings = s
  BY DEF Changed, AnyChange
<1>2. m \in Tidings(calls)
  BY <1>1 DEF Tidings, News
<1> HIDE DEF m
<1>3. toExtHost \in Seq(News) /\ r[Len(toExtHost) + 1] = m
  BY DEF ReadInv, TypesInv
<1>4. Finds(r, seen, Len(toExtHost) + 1, calls, effective')
  BY <1>1, <1>3 DEF Finds
<1>5. FindsAll(toExtHost, seen, calls, effective')
  BY Staying, StillFinds
<1>6. FindsAll(r, seen, calls, effective')
  BY <1>3, <1>4, <1>5, FindsSent
<1>7. UpTo(r, seen, s)
  BY <1>1, <1>3, UpToSent DEF Tells
<1>8. r \in Seq(Tidings(calls))
  BY <1>2 DEF ReadInv, Begun
<1> QED
  BY <1>6, <1>7, <1>8 DEF m

\* The first of a sequence is of the same kind.
LEMMA HeadIn ==
    ASSUME NEW S, NEW q \in Seq(S), q # <<>> PROVE Head(q) \in S
OBVIOUS

\* One or two messages at the end.
LEMMA Joined ==
    ASSUME NEW S, NEW q \in Seq(S), NEW a \in S, NEW b \in S
    PROVE  /\ q \o (<<>> \o <<a>>) = Append(q, a)
           /\ q \o (<<a>> \o <<b>>) = Append(Append(q, a), b)
<1>1. q \o (<<>> \o <<a>>) = Append(q, a)
  OBVIOUS
<1>2. <<a>> \o <<b>> = <<a, b>>
  <2>1. /\ <<a>> \in Seq(S) /\ <<b>> \in Seq(S) /\ <<a, b>> \in Seq(S)
        /\ Len(<<a>>) = 1 /\ Len(<<b>>) = 1 /\ Len(<<a, b>>) = 2
    OBVIOUS
  <2> DEFINE r == <<a>> \o <<b>>
  <2>2. r \in Seq(S) /\ Len(r) = 2 /\ r[1] = a /\ r[2] = b
    BY <2>1
  <2> HIDE DEF r
  <2>3. r = <<a, b>>
    BY <2>1, <2>2
  <2> QED
    BY <2>3 DEF r
<1>3. q \o <<a, b>> = Append(Append(q, a), b)
  OBVIOUS
<1> QED
  BY <1>1, <1>2, <1>3

\* The copy of the settings is brought up to date.
LEMMA ReadAccept ==
    ReadInv /\ AcceptConfigurationChanged /\ Observe => ReadInv'
<1> SUFFICES ASSUME ReadInv, AcceptConfigurationChanged, Observe PROVE ReadInv'
  OBVIOUS
<1>1. /\ toExtHost # <<>> /\ toExtHost' = Tail(toExtHost)
      /\ Tells(Head(toExtHost)) /\ seen' = Head(toExtHost).settings
      /\ UNCHANGED <<secret, settings, secretOps, settingOps, calls>>
  BY DEF AcceptConfigurationChanged, Reply, Tells
<1>2. toExtHost \in Seq(News) /\ Head(toExtHost) \in News
  BY <1>1 DEF ReadInv, TypesInv
<1>3. seen' \in [Settings -> Maybe]
  BY <1>1, <1>2 DEF News, AnyReply, AnyChange, Tells
<1>4. FindsAll(toExtHost, seen, calls', effective')
  BY <1>1, Staying, StillFinds
<1>5. FindsAll(toExtHost', seen', calls', effective')
  BY <1>1, <1>2, <1>4, FindsRead
<1>6. UpTo(toExtHost', seen', settings')
  BY <1>1, <1>2, UpToRead DEF ReadInv
<1>7. /\ secretOps' \in Seq(Requests(calls'))
      /\ settingOps' \in Seq(Removals(calls'))
      /\ toExtHost' \in Seq(Tidings(calls'))
  BY <1>1 DEF ReadInv, Begun
<1>8. /\ calls' \in [Invocations -> Call] /\ secret' \in Maybe
      /\ settings' \in [Settings -> Maybe]
      /\ \A d \in Commands : calls'[d].at # "get"
  BY <1>1 DEF ReadInv, TypesInv, CommandsStore
<1> QED
  BY <1>3, <1>5, <1>6, <1>7, <1>8, ReadAfter

\* The window answers a request for a secret with what is in effect.
LEMMA ReadSecretStep == ReadInv /\ SecretStep /\ Observe => ReadInv'
<1> SUFFICES ASSUME ReadInv, SecretStep, Observe PROVE ReadInv'
  OBVIOUS
<1> DEFINE op == Head(secretOps)
           c == op.call
<1>1. /\ secretOps # <<>> /\ secretOps' = Tail(secretOps)
      /\ UNCHANGED <<settings, settingOps, seen, calls>>
  BY DEF SecretStep
<1>2. op \in Requests(calls)
  BY <1>1 DEF ReadInv, Begun
<1>3. /\ c \in Invocations /\ op.key \in Maybe /\ calls[c].at # "new"
      /\ op.kind = "store" => calls[c].at # "get"
  BY <1>2 DEF Requests, Request
<1>4. /\ FindsAll(toExtHost, seen, calls, effective')
      /\ toExtHost \in Seq(Tidings(calls)) /\ toExtHost \in Seq(News)
      /\ UpTo(toExtHost, seen, settings')
  BY <1>1, Staying, StillFinds DEF ReadInv, Begun, TypesInv
<1>5. ASSUME op.kind = "get", NEW k \in {secret, None}, secret' = k,
             toExtHost' = Append(toExtHost, Answer(c, TRUE, k))
      PROVE  ReadInv'
  <2> DEFINE m == Answer(c, TRUE, k)
  <2>1. /\ k \in Maybe /\ m \in AnyReply /\ m.call = c /\ m.key = k
        /\ m.kind = "reply" /\ ~Tells(m)
    BY <1>3 DEF Answer, AnyReply, Tells, ReadInv, TypesInv, Maybe
  <2>2. m \in Tidings(calls)
    BY <1>3, <2>1 DEF Tidings, News
  <2> HIDE DEF m
  <2>3. toExtHost' = Append(toExtHost, m)
    BY <1>5 DEF m
  <2>4. toExtHost'[Len(toExtHost) + 1] = m
    BY <1>4, <2>3
  <2>5. Effective' = IF k # None THEN k ELSE Inspect(settings).key
    BY <1>1, <1>5, <2>1, EffectiveAfter DEF ReadInv
  <2>6. c \in Calls /\ calls[c].at = "get" => Effective' \in effective'[c]
    BY <1>1 DEF Observe
  <2>7. k # None => k = Effective'
    BY <2>5
  <2>8. ASSUME k = None, NEW v \in [Settings -> Maybe],
               Knows(toExtHost', seen, Len(toExtHost), v)
        PROVE  Inspect(v).key = Effective'
    <3>1. Knows(toExtHost, seen, Len(toExtHost), v)
      BY <1>4, <2>3, <2>8, KnowsSent
    <3>2. v = settings
      BY <3>1 DEF ReadInv, UpTo
    <3> QED
      BY <2>5, <2>8, <3>2
  <2>9. Len(toExtHost) + 1 - 1 = Len(toExtHost)
    BY <1>4
  <2>10. Finds(toExtHost', seen, Len(toExtHost) + 1, calls, effective')
    BY <2>1, <2>4, <2>6, <2>7, <2>8, <2>9 DEF Finds
  <2>11. FindsAll(toExtHost', seen, calls, effective')
    BY <1>4, <2>3, <2>10, FindsSent
  <2>12. UpTo(toExtHost', seen, settings')
    BY <1>4, <2>1, <2>3, UpToSent
  <2>13. toExtHost' \in Seq(Tidings(calls))
    BY <1>4, <2>2, <2>3
  <2>14. secret' \in Maybe /\ settings' \in [Settings -> Maybe]
    BY <1>1, <1>5, <2>1 DEF ReadInv, TypesInv
  <2> QED
    BY <1>1, <2>11, <2>12, <2>13, <2>14, ReadWindow
<1>6. CASE /\ op.kind = "store" /\ secret' \in {secret, op.key}
           /\ \E ok \in BOOLEAN :
                 toExtHost' = Append(toExtHost, Answer(c, ok, None))
  <2>1. /\ toExtHost' \in Seq(Tidings(calls))
        /\ UpTo(toExtHost', seen, settings')
        /\ FindsAll(toExtHost', seen, calls, effective')
    BY <1>1, <1>3, <1>4, <1>6, AnswerSent
  <2>2. secret' \in Maybe /\ settings' \in [Settings -> Maybe]
    BY <1>1, <1>3, <1>6 DEF ReadInv, TypesInv
  <2> QED
    BY <1>1, <2>1, <2>2, ReadWindow
<1> QED
  BY <1>5, <1>6 DEF SecretStep

\* The window removes a setting, or cannot.
LEMMA ReadSettingStep == ReadInv /\ SettingStep /\ Observe => ReadInv'
<1> SUFFICES ASSUME ReadInv, SettingStep, Observe PROVE ReadInv'
  OBVIOUS
<1> DEFINE op == Head(settingOps)
           c == op.call
           s == [settings EXCEPT ![op.setting] = None]
<1>1. /\ settingOps # <<>> /\ settingOps' = Tail(settingOps)
      /\ UNCHANGED <<secret, secretOps, seen, calls>>
  BY DEF SettingStep
<1>2. op \in Removals(calls)
  BY <1>1 DEF ReadInv, Begun
<1>3. /\ c \in Invocations /\ op.setting \in Settings
      /\ calls[c].at \notin {"new", "get"}
  BY <1>2 DEF Removals, Removal
<1>4. s \in [Settings -> Maybe]
  BY <1>3 DEF ReadInv, TypesInv, Maybe
<1>5. /\ FindsAll(toExtHost, seen, calls, effective')
      /\ toExtHost \in Seq(Tidings(calls))
      /\ UpTo(toExtHost, seen, settings)
  BY <1>1, Staying, StillFinds DEF ReadInv, Begun
<1>6. CASE /\ UNCHANGED settings
           /\ \E ok \in BOOLEAN :
                 toExtHost' = Append(toExtHost, Answer(c, ok, None))
  <2>1. /\ toExtHost' \in Seq(Tidings(calls))
        /\ UpTo(toExtHost', seen, settings')
        /\ FindsAll(toExtHost', seen, calls, effective')
    BY <1>1, <1>3, <1>5, <1>6, AnswerSent
  <2>2. secret' \in Maybe /\ settings' \in [Settings -> Maybe]
    BY <1>1, <1>6 DEF ReadInv, TypesInv
  <2> QED
    BY <1>1, <2>1, <2>2, ReadWindow
<1>7. CASE /\ settings' = s
           /\ toExtHost' = Append(Append(toExtHost, Changed(s)),
                                  Answer(c, TRUE, None))
  <2> DEFINE q == Append(toExtHost, Changed(s))
  <2>1. /\ q \in Seq(Tidings(calls)) /\ UpTo(q, seen, s)
        /\ FindsAll(q, seen, calls, effective')
    BY <1>1, <1>4, ChangeSent
  <2> HIDE DEF q
  <2>2. UpTo(q, seen, settings')
    BY <1>7, <2>1
  <2>3. toExtHost' = Append(q, Answer(c, TRUE, None))
    BY <1>7 DEF q
  <2>4. /\ toExtHost' \in Seq(Tidings(calls))
        /\ UpTo(toExtHost', seen, settings')
        /\ FindsAll(toExtHost', seen, calls, effective')
    BY <1>1, <1>3, <2>1, <2>2, <2>3, AnswerSent
  <2>5. secret' \in Maybe /\ settings' \in [Settings -> Maybe]
    BY <1>1, <1>4, <1>7 DEF ReadInv, TypesInv
  <2> QED
    BY <1>1, <2>4, <2>5, ReadWindow
<1>8. CASE settings' = s /\ toExtHost' = toExtHost \o RemovalNews(op)
  <2> DEFINE m == Answer(c, TRUE, None)
             d == Changed(s)
  <2>1. toExtHost \in Seq(News) /\ m \in News /\ d \in News
    BY <1>3, <1>4 DEF ReadInv, TypesInv, News, Answer, AnyReply, Changed,
                      AnyChange, Maybe
  <2>2. CASE settings[op.setting] = None
    <3>1. s = settings
      BY <1>3, <2>2 DEF ReadInv, TypesInv
    <3>2. toExtHost' = toExtHost \o (<<>> \o <<m>>)
      BY <1>8, <2>2 DEF RemovalNews
    <3> HIDE DEF m
    <3>3. toExtHost' = Append(toExtHost, m)
      BY <2>1, <3>2, Joined
    <3> QED
      BY <1>6, <1>8, <3>1, <3>3 DEF m
  <2>3. CASE settings[op.setting] # None
    <3>1. toExtHost' = toExtHost \o (<<d>> \o <<m>>)
      BY <1>8, <2>3 DEF RemovalNews
    <3> HIDE DEF m, d
    <3>2. toExtHost' = Append(Append(toExtHost, d), m)
      BY <2>1, <3>1, Joined
    <3> QED
      BY <1>7, <1>8, <3>2 DEF m, d
  <2> QED
    BY <2>2, <2>3
<1> QED
  BY <1>6, <1>8 DEF SettingStep

\* The user edits a setting.
LEMMA ReadEdit ==
    \A s \in Settings, k \in Maybe : ReadInv /\ Edit(s, k) /\ Observe => ReadInv'
<1> SUFFICES ASSUME NEW s \in Settings, NEW k \in Maybe, ReadInv, Edit(s, k),
                    Observe
             PROVE  ReadInv'
  OBVIOUS
<1>1. /\ settings' = [settings EXCEPT ![s] = k]
      /\ toExtHost' = Append(toExtHost, Changed(settings'))
      /\ UNCHANGED <<secret, secretOps, settingOps, seen, calls>>
  BY DEF Edit
<1>2. secret' \in Maybe /\ settings' \in [Settings -> Maybe]
  BY <1>1 DEF ReadInv, TypesInv
<1>3. /\ toExtHost' \in Seq(Tidings(calls))
      /\ UpTo(toExtHost', seen, settings')
      /\ FindsAll(toExtHost', seen, calls, effective')
  BY <1>1, <1>2, ChangeSent
<1> QED
  BY <1>1, <1>2, <1>3, ReadWindow

\* Nothing is left of what was under way when the window is reloaded.
LEMMA ReadReload == ReadInv /\ Reload /\ Observe => ReadInv'
<1> SUFFICES ASSUME ReadInv, Reload, Observe PROVE ReadInv'
  OBVIOUS
<1>1. /\ secretOps' = <<>> /\ settingOps' = <<>> /\ toExtHost' = <<>>
      /\ seen' = settings /\ settings' = settings /\ secret' \in {secret, None}
      /\ calls' = [c \in Invocations |->
                     IF Under(calls[c]) THEN At("done", Failed) ELSE calls[c]]
  BY DEF Reload
<1>2. At("done", Failed) \in Call /\ At("done", Failed).at = "done"
  BY DEF At, Call, Places
<1>3. calls' \in [Invocations -> Call]
  BY <1>1, <1>2 DEF ReadInv, TypesInv
<1>4. \A c \in Commands : calls'[c].at # "get"
  BY <1>1, <1>2 DEF Under, Invocations
<1>5. secret' \in Maybe /\ settings' \in [Settings -> Maybe]
      /\ seen' \in [Settings -> Maybe]
  BY <1>1 DEF ReadInv, TypesInv, Maybe
<1>6. /\ secretOps' \in Seq(Requests(calls'))
      /\ settingOps' \in Seq(Removals(calls'))
      /\ toExtHost' \in Seq(Tidings(calls'))
  BY <1>1
<1>7. /\ UpTo(toExtHost', seen', settings')
      /\ FindsAll(toExtHost', seen', calls', effective')
  BY <1>1 DEF UpTo, Knows, FindsAll
<1> QED
  BY <1>3, <1>4, <1>5, <1>6, <1>7, ReadAfter

\* There is nothing to find at first.
LEMMA ReadInit == Init => ReadInv
<1> SUFFICES ASSUME Init PROVE ReadInv
  OBVIOUS
<1>1. At("new", None) \in Call /\ At("new", None).at = "new"
  BY DEF At, Call, Places, Maybe
<1>2. TypesInv
  BY <1>1, ConstantsAssumption DEF Init, TypesInv, Maybe
<1>3. Begun
  BY DEF Init, Begun
<1>4. CommandsStore
  BY <1>1 DEF Init, CommandsStore, Invocations
<1>5. UpTo(toExtHost, seen, settings) /\ FindsAll(toExtHost, seen, calls, effective)
  BY DEF Init, UpTo, Knows, FindsAll
<1> QED
  BY <1>2, <1>3, <1>4, <1>5 DEF ReadInv

\* Every step keeps it.
LEMMA ReadNext == ReadInv /\ [Next]_vars => ReadInv'
<1> SUFFICES ASSUME ReadInv, [Next]_vars PROVE ReadInv'
  OBVIOUS
<1>1. CASE Next
  BY <1>1, ReadGetApiKey, ReadSetApiKey, ReadReceiveReply, ReadAccept,
     ReadSecretStep, ReadSettingStep, ReadReload, ReadEdit
     DEF Next, ExtensionNext, WindowNext
<1>2. CASE UNCHANGED vars
  <2>1. UNCHANGED <<secret, settings, secretOps, settingOps, toExtHost, seen,
                    envKey, calls, effective>>
    BY <1>2 DEF vars
  <2>2. TypesInv' /\ Begun' /\ CommandsStore'
    BY <2>1 DEF ReadInv, TypesInv, Begun, CommandsStore
  <2>3. \A v : Inspect(v) = Inspect(v)'
    BY <2>1 DEF Inspect
  <2>4. /\ UpTo(toExtHost, seen, settings)'
        /\ FindsAll(toExtHost, seen, calls, effective)'
    BY <2>1, <2>3 DEF ReadInv, UpTo, FindsAll, Finds, Knows, Tells
  <2> QED
    BY <2>2, <2>4 DEF ReadInv
<1> QED
  BY <1>1, <1>2

\* What getApiKey finds at the end of its search was in effect during it.
LEMMA ReadStep ==
    ASSUME ReadInv, Next, NEW c \in Calls,
           calls[c].at = "get", calls'[c].at # "get"
    PROVE  calls'[c].key \in effective[c] \cup {Failed}
<1>1. c \in Invocations /\ c \notin Commands
  BY ConstantsAssumption DEF Invocations
<1>2. calls \in [Invocations -> Call]
  BY DEF ReadInv, TypesInv
<1>3. CASE ReceiveReply
  <2> DEFINE m == Head(toExtHost)
  <2>1. toExtHost # <<>> /\ m = toExtHost[1] /\ 1 \in 1 .. Len(toExtHost)
        /\ m \in AnyReply
    BY <1>3 DEF ReceiveReply, Reply, ReadInv, TypesInv, News, AnyReply, AnyChange
  <2>2. m.call = c
    <3>1. PICK d \in Invocations, x \in Call :
                  d = m.call /\ calls' = [calls EXCEPT ![d] = x]
      BY <1>3, AfterReply
    <3> QED
      BY <1>1, <1>2, <3>1
  <2>3. AfterGet(c)
    BY <1>3, <2>2 DEF ReceiveReply, Reply
  <2>4. Finds(toExtHost, seen, 1, calls, effective)
    BY <2>1 DEF ReadInv, FindsAll
  <2>5. Knows(toExtHost, seen, 0, seen) /\ seen \in [Settings -> Maybe]
    BY DEF Knows, ReadInv, TypesInv
  <2>6. IF m.key # None THEN m.key \in effective[c]
        ELSE Inspect(seen).key \in effective[c]
    BY <2>1, <2>2, <2>4, <2>5 DEF Finds, AnyReply
  <2>7. \A k : At("done", k).key = k
    BY DEF At
  <2>8. CASE m.key # None
    <3>1. calls' = [calls EXCEPT ![c] = At("done", m.key)]
      BY <2>3, <2>8 DEF AfterGet, Reply, Returns
    <3> QED
      BY <1>1, <1>2, <2>6, <2>7, <2>8, <3>1
  <2>9. CASE m.key = None /\ Inspect(seen).key = None
    <3>1. calls' = [calls EXCEPT ![c] = At("done", None)]
      BY <2>3, <2>9 DEF AfterGet, Reply, Returns
    <3> QED
      BY <1>1, <1>2, <2>6, <2>7, <2>9, <3>1
  <2>10. CASE m.key = None /\ Inspect(seen).key # None
    <3>1. calls' = [calls EXCEPT ![c] =
                      [at |-> "store", from |-> Inspect(seen).from,
                       key |-> Inspect(seen).key]]
      BY <2>3, <2>10 DEF AfterGet, Reply
    <3> QED
      BY <1>1, <1>2, <2>6, <2>10, <3>1
  <2> QED
    BY <2>8, <2>9, <2>10
<1>4. CASE Reload
  BY <1>1, <1>4 DEF Reload, Under, At
<1>5. \A d \in Calls : ~GetApiKey(d)
  <2> SUFFICES ASSUME NEW d \in Calls, GetApiKey(d) PROVE FALSE
    OBVIOUS
  <2>1. calls[d].at = "new" /\ calls' = [calls EXCEPT ![d] = At("get", None)]
    BY DEF GetApiKey
  <2> QED
    BY <1>1, <1>2, <2>1
<1>6. \A d \in Commands, k \in Maybe : ~SetApiKey(d, k)
  <2> SUFFICES ASSUME NEW d \in Commands, NEW k \in Maybe, SetApiKey(d, k)
               PROVE  FALSE
    OBVIOUS
  <2>1. calls[d].at = "new"
        /\ calls' = [calls EXCEPT ![d] =
                        [at |-> "store", from |-> "user", key |-> k]]
    BY DEF SetApiKey
  <2> QED
    BY <1>1, <1>2, <2>1
<1> QED
  BY <1>3, <1>4, <1>5, <1>6
     DEF Next, ExtensionNext, WindowNext, AcceptConfigurationChanged,
         SecretStep, SettingStep, Edit

\* getApiKey of extension.ts reads the secret and, awaits later, two settings
\* and the environment; what it finds or misses was in effect at some moment
\* in between, however keys are moved, entered and edited meanwhile.
THEOREM KeysAreReadAtomically == Spec => ReadsAreAtomic
<1>1. ReadInv /\ [Next]_vars =>
          [\A c \in Calls :
             calls[c].at = "get" /\ calls'[c].at # "get"
             => calls'[c].key \in effective[c] \cup {Failed}]_vars
  BY ReadStep
<1> QED
  BY <1>1, ReadInit, ReadNext, PTL DEF Spec, ReadsAreAtomic

-----------------------------------------------------------------------------
(* Every call waits for one thing                                          *)

Of(m, c) == "call" \in DOMAIN m /\ m.call = c
Free(q, c) == \A i \in 1 .. Len(q) : ~Of(q[i], c)
Unique(q) ==
    \A i, j \in 1 .. Len(q) :
        /\ "call" \in DOMAIN q[i] /\ "call" \in DOMAIN q[j]
        /\ q[i].call = q[j].call
        => i = j

\* A request to the secret storage is the one its call waits for.
Matches(op, cs) ==
    IF op.kind = "get" THEN cs[op.call].at = "get"
    ELSE cs[op.call].at = "store" /\ cs[op.call].key = op.key

\* Where the one request or reply of a call may be.
Waits(c, so, st, th, cs) ==
    /\ cs[c].at \in {"new", "done"} => Free(so, c) /\ Free(st, c) /\ Free(th, c)
    /\ cs[c].at \in {"get", "store"} =>
          Free(st, c) /\ (Free(so, c) \/ Free(th, c))
    /\ cs[c].at = "remove" => Free(so, c) /\ (Free(st, c) \/ Free(th, c))

OneEach(so, st, th, cs) ==
    /\ Unique(so) /\ Unique(st) /\ Unique(th)
    /\ \A c \in Invocations : Waits(c, so, st, th, cs)
    /\ \A i \in 1 .. Len(so) : Matches(so[i], cs)

\* A call that looks for a key, or stores one, has found one.
Found == \A c \in Calls : calls[c].at = "store" => calls[c].key # None

OneInv == ReadInv /\ OneEach(secretOps, settingOps, toExtHost, calls) /\ Found

\* Reading the next of a sequence.
LEMMA UniqueTail ==
    ASSUME NEW S, NEW q \in Seq(S), q # <<>>, Unique(q)
    PROVE  /\ Unique(Tail(q))
           /\ \A c : Of(Head(q), c) => Free(Tail(q), c) /\ ~Free(q, c)
           /\ \A c : Free(q, c) => Free(Tail(q), c)
<1>1. \A i \in 1 .. Len(Tail(q)) : /\ i + 1 \in 1 .. Len(q)
                                   /\ Tail(q)[i] = q[i + 1]
  OBVIOUS
<1>2. 1 \in 1 .. Len(q) /\ Head(q) = q[1]
  OBVIOUS
<1>3. \A i \in 1 .. Len(Tail(q)) : i + 1 # 1
  OBVIOUS
<1>4. Unique(Tail(q))
  BY <1>1 DEF Unique
<1>5. \A c : Of(Head(q), c) => Free(Tail(q), c) /\ ~Free(q, c)
  BY <1>1, <1>2, <1>3 DEF Of, Free, Unique
<1>6. \A c : Free(q, c) => Free(Tail(q), c)
  BY <1>1 DEF Free
<1> QED
  BY <1>4, <1>5, <1>6

\* Adding to a sequence.
LEMMA UniqueAppend ==
    ASSUME NEW S, NEW q \in Seq(S), NEW m \in S, Unique(q),
           \A c : Of(m, c) => Free(q, c)
    PROVE  /\ Unique(Append(q, m))
           /\ \A c : Free(q, c) /\ ~Of(m, c) => Free(Append(q, m), c)
<1>1. /\ Len(Append(q, m)) = Len(q) + 1
      /\ Append(q, m)[Len(q) + 1] = m
      /\ \A i \in 1 .. Len(q) : Append(q, m)[i] = q[i]
  OBVIOUS
<1>2. \A i \in 1 .. Len(q) + 1 : i \in 1 .. Len(q) \/ i = Len(q) + 1
  OBVIOUS
<1>3. Unique(Append(q, m))
  BY <1>1, <1>2 DEF Unique, Of, Free
<1>4. \A c : Free(q, c) /\ ~Of(m, c) => Free(Append(q, m), c)
  BY <1>1, <1>2 DEF Free
<1> QED
  BY <1>3, <1>4

\* An empty sequence holds nobody's request.
LEMMA FreeNone == Unique(<<>>) /\ \A c : Free(<<>>, c)
BY DEF Unique, Free

\* A step that concerns one call.
LEMMA OneMoves ==
    ASSUME NEW so, NEW st, NEW th, NEW cs, OneEach(so, st, th, cs),
           NEW so2, NEW st2, NEW th2, NEW cs2, NEW c \in Invocations,
           Unique(so2), Unique(st2), Unique(th2),
           \A d \in Invocations \ {c} :
               /\ cs2[d] = cs[d]
               /\ Free(so, d) => Free(so2, d)
               /\ Free(st, d) => Free(st2, d)
               /\ Free(th, d) => Free(th2, d),
           Waits(c, so2, st2, th2, cs2),
           \A i \in 1 .. Len(so2) : Matches(so2[i], cs2)
    PROVE  OneEach(so2, st2, th2, cs2)
<1>1. ASSUME NEW d \in Invocations PROVE Waits(d, so2, st2, th2, cs2)
  BY DEF OneEach, Waits
<1> QED
  BY <1>1 DEF OneEach

\* What a step has to show.
LEMMA OneAfter ==
    ASSUME ReadInv', OneEach(secretOps', settingOps', toExtHost', calls'),
           \A c \in Calls : calls'[c].at = "store" => calls'[c].key # None
    PROVE  OneInv'
BY DEF OneInv, OneEach, Unique, Waits, Matches, Free, Of, Found

\* Requests of other calls match what they matched.
LEMMA MatchesKept ==
    ASSUME NEW so \in Seq(Request), NEW cs, NEW cs2, NEW c,
           \A i \in 1 .. Len(so) : Matches(so[i], cs), Free(so, c),
           \A d \in Invocations \ {c} : cs2[d] = cs[d]
    PROVE  \A i \in 1 .. Len(so) : Matches(so[i], cs2)
<1> SUFFICES ASSUME NEW i \in 1 .. Len(so) PROVE Matches(so[i], cs2)
  OBVIOUS
<1>1. so[i] \in Request
  OBVIOUS
<1>2. so[i].call \in Invocations /\ so[i].call # c
  BY <1>1 DEF Free, Of, Request
<1> QED
  BY <1>2 DEF Matches

\* All requests match when one more does.
LEMMA MatchesAppend ==
    ASSUME NEW so \in Seq(Request), NEW cs, NEW op \in Request,
           \A i \in 1 .. Len(so) : Matches(so[i], cs), Matches(op, cs)
    PROVE  \A i \in 1 .. Len(Append(so, op)) : Matches(Append(so, op)[i], cs)
<1>1. /\ Len(Append(so, op)) = Len(so) + 1
      /\ Append(so, op)[Len(so) + 1] = op
      /\ \A i \in 1 .. Len(so) : Append(so, op)[i] = so[i]
  OBVIOUS
<1>2. \A i \in 1 .. Len(so) + 1 : i \in 1 .. Len(so) \/ i = Len(so) + 1
  OBVIOUS
<1> QED
  BY <1>1, <1>2

\* And when one is served.
LEMMA MatchesTail ==
    ASSUME NEW so \in Seq(Request), so # <<>>, NEW cs,
           \A i \in 1 .. Len(so) : Matches(so[i], cs)
    PROVE  /\ \A i \in 1 .. Len(Tail(so)) : Matches(Tail(so)[i], cs)
           /\ Matches(Head(so), cs)
<1>1. \A i \in 1 .. Len(Tail(so)) : /\ i + 1 \in 1 .. Len(so)
                                    /\ Tail(so)[i] = so[i + 1]
  OBVIOUS
<1>2. 1 \in 1 .. Len(so) /\ Head(so) = so[1]
  OBVIOUS
<1> QED
  BY <1>1, <1>2

\* A call begins, with a request to the secret storage.
LEMMA OneBegins ==
    ASSUME OneInv, NEW c \in Invocations, NEW x \in Call, NEW op \in Request,
           calls[c].at = "new", x.at \in {"get", "store"}, op.call = c,
           calls' = [calls EXCEPT ![c] = x], Matches(op, calls'),
           secretOps' = Append(secretOps, op),
           UNCHANGED <<settingOps, toExtHost>>
    PROVE  OneEach(secretOps', settingOps', toExtHost', calls')
<1>1. /\ secretOps \in Seq(Request) /\ calls \in [Invocations -> Call]
      /\ OneEach(secretOps, settingOps, toExtHost, calls)
  BY DEF OneInv, ReadInv, TypesInv
<1>2. Free(secretOps, c) /\ Free(settingOps, c) /\ Free(toExtHost, c)
  BY <1>1 DEF OneEach, Waits
<1>3. \A d : Of(op, d) => d = c
  BY DEF Of
<1>4. /\ Unique(secretOps')
      /\ \A d : d # c /\ Free(secretOps, d) => Free(secretOps', d)
  BY <1>1, <1>2, <1>3, UniqueAppend DEF OneEach
<1>5. \A d \in Invocations \ {c} : calls'[d] = calls[d]
  BY <1>1
<1>6. \A i \in 1 .. Len(secretOps') : Matches(secretOps'[i], calls')
  <2>1. \A i \in 1 .. Len(secretOps) : Matches(secretOps[i], calls')
    BY <1>1, <1>2, <1>5, MatchesKept DEF OneEach
  <2> QED
    BY <1>1, <2>1, MatchesAppend
<1>7. Waits(c, secretOps', settingOps', toExtHost', calls')
  BY <1>1, <1>2 DEF Waits
<1>8. Unique(settingOps') /\ Unique(toExtHost')
  BY <1>1 DEF OneEach
<1>9. \A d \in Invocations \ {c} :
          /\ calls'[d] = calls[d]
          /\ Free(secretOps, d) => Free(secretOps', d)
          /\ Free(settingOps, d) => Free(settingOps', d)
          /\ Free(toExtHost, d) => Free(toExtHost', d)
  BY <1>4, <1>5
<1> QED
  BY <1>1, <1>4, <1>6, <1>7, <1>8, <1>9, OneMoves

\* getApiKey begins with a look at the secret storage.
LEMMA OneGetApiKey ==
    \A c \in Calls : OneInv /\ GetApiKey(c) /\ Observe => OneInv'
<1> SUFFICES ASSUME NEW c \in Calls, OneInv, GetApiKey(c), Observe PROVE OneInv'
  OBVIOUS
<1> DEFINE x == At("get", None)
           op == Get(c)
<1>1. /\ calls[c].at = "new" /\ calls' = [calls EXCEPT ![c] = x]
      /\ secretOps' = Append(secretOps, op)
      /\ UNCHANGED <<settingOps, toExtHost>>
  BY DEF GetApiKey
<1>2. c \in Invocations /\ calls \in [Invocations -> Call]
  BY DEF Invocations, OneInv, ReadInv, TypesInv
<1>3. x \in Call /\ x.at = "get" /\ op \in Request /\ op.call = c
      /\ op.kind = "get"
  BY <1>2 DEF Call, At, Places, Maybe, Get, Request
<1> HIDE DEF x, op
<1>4. Matches(op, calls')
  BY <1>1, <1>2, <1>3 DEF Matches
<1>5. OneEach(secretOps', settingOps', toExtHost', calls')
  BY <1>1, <1>2, <1>3, <1>4, OneBegins
<1>6. \A d \in Calls : calls'[d].at = "store" => calls'[d].key # None
  BY <1>1, <1>2, <1>3 DEF OneInv, Found, Invocations
<1> QED
  BY <1>5, <1>6, ReadGetApiKey, OneAfter DEF OneInv

\* The command begins with a store.
LEMMA OneSetApiKey ==
    \A c \in Commands, k \in Maybe :
        OneInv /\ SetApiKey(c, k) /\ Observe => OneInv'
<1> SUFFICES ASSUME NEW c \in Commands, NEW k \in Maybe, OneInv,
                    SetApiKey(c, k), Observe
             PROVE  OneInv'
  OBVIOUS
<1> DEFINE x == [at |-> "store", from |-> "user", key |-> k]
           op == Store(c, k)
<1>1. /\ calls[c].at = "new" /\ calls' = [calls EXCEPT ![c] = x]
      /\ secretOps' = Append(secretOps, op)
      /\ UNCHANGED <<settingOps, toExtHost>>
  BY DEF SetApiKey
<1>2. /\ c \in Invocations /\ calls \in [Invocations -> Call]
      /\ \A d \in Calls : d # c /\ d \in Invocations
  BY ConstantsAssumption DEF Invocations, OneInv, ReadInv, TypesInv
<1>3. /\ x \in Call /\ x.at = "store" /\ x.key = k
      /\ op \in Request /\ op.call = c /\ op.kind = "store" /\ op.key = k
  BY <1>2 DEF Call, Places, Store, Request
<1> HIDE DEF x, op
<1>4. Matches(op, calls')
  BY <1>1, <1>2, <1>3 DEF Matches
<1>5. OneEach(secretOps', settingOps', toExtHost', calls')
  BY <1>1, <1>2, <1>3, <1>4, OneBegins
<1>6. \A d \in Calls : calls'[d].at = "store" => calls'[d].key # None
  BY <1>1, <1>2 DEF OneInv, Found
<1> QED
  BY <1>5, <1>6, ReadSetApiKey, OneAfter DEF OneInv

\* A reply is for the one thing its call waits for.
LEMMA OneReply ==
    ASSUME OneInv, ReceiveReply
    PROVE  LET c == Head(toExtHost).call
           IN /\ Free(secretOps, c) /\ Free(settingOps, c)
              /\ Free(Tail(toExtHost), c)
              /\ calls[c].at \in {"get", "store", "remove"}
<1> DEFINE c == Head(toExtHost).call
<1>1. /\ toExtHost # <<>> /\ toExtHost \in Seq(News)
      /\ Head(toExtHost) \in AnyReply
  BY DEF ReceiveReply, Reply, OneInv, ReadInv, TypesInv, News, AnyReply,
         AnyChange
<1>2. Of(Head(toExtHost), c) /\ c \in Invocations
  BY <1>1 DEF Of, AnyReply
<1>3. calls[c].at \in Places
  BY <1>2 DEF OneInv, ReadInv, TypesInv, Call
<1> HIDE DEF c
<1>4. Free(Tail(toExtHost), c) /\ ~Free(toExtHost, c)
  BY <1>1, <1>2, UniqueTail DEF OneInv, OneEach
<1>5. Waits(c, secretOps, settingOps, toExtHost, calls)
  BY <1>2 DEF OneInv, OneEach
<1> QED
  BY <1>3, <1>4, <1>5 DEF Waits, Places, c

\* A call goes on: it waits for one thing again, or for none.
LEMMA OneReceiveReply == OneInv /\ ReceiveReply /\ Observe => OneInv'
<1> SUFFICES ASSUME OneInv, ReceiveReply, Observe PROVE OneInv'
  OBVIOUS
<1>1. PICK c \in Invocations, x \in Call :
              /\ c = Head(toExtHost).call
              /\ x.at \in {"store", "remove", "done"}
              /\ calls' = [calls EXCEPT ![c] = x]
              /\ IF x.at = "store"
                 THEN /\ x.key \in Maybe \ {None}
                      /\ secretOps' = Append(secretOps, Store(c, x.key))
                 ELSE UNCHANGED secretOps
              /\ IF x.at = "remove"
                 THEN \E s \in Settings :
                          settingOps' = Append(settingOps, Remove(c, s))
                 ELSE UNCHANGED settingOps
  BY AfterReply DEF OneInv
<1>2. /\ toExtHost # <<>> /\ toExtHost' = Tail(toExtHost)
      /\ toExtHost \in Seq(News) /\ secretOps \in Seq(Request)
      /\ settingOps \in Seq(Removal) /\ calls \in [Invocations -> Call]
      /\ OneEach(secretOps, settingOps, toExtHost, calls)
  BY DEF ReceiveReply, OneInv, ReadInv, TypesInv
<1>3. Free(secretOps, c) /\ Free(settingOps, c) /\ Free(toExtHost', c)
  BY <1>1, <1>2, OneReply
<1>4. calls'[c] = x /\ \A d \in Invocations \ {c} : calls'[d] = calls[d]
  BY <1>1, <1>2
<1>5. /\ Unique(toExtHost')
      /\ \A d : Free(toExtHost, d) => Free(toExtHost', d)
  BY <1>2, UniqueTail DEF OneEach
<1>6. \A i \in 1 .. Len(secretOps) : Matches(secretOps[i], calls')
  BY <1>2, <1>3, <1>4, MatchesKept DEF OneEach
<1>7. /\ Unique(secretOps')
      /\ \A d : d # c /\ Free(secretOps, d) => Free(secretOps', d)
      /\ x.at # "store" => Free(secretOps', c)
      /\ \A i \in 1 .. Len(secretOps') : Matches(secretOps'[i], calls')
  <2>1. CASE UNCHANGED secretOps
    BY <1>2, <1>3, <1>6, <2>1 DEF OneEach
  <2>2. CASE /\ x.at = "store" /\ x.key \in Maybe
             /\ secretOps' = Append(secretOps, Store(c, x.key))
    <3> DEFINE op == Store(c, x.key)
    <3>1. op \in Request /\ op.call = c /\ Matches(op, calls')
      BY <1>4, <2>2 DEF Store, Request, Matches
    <3> HIDE DEF op
    <3>2. \A d : Of(op, d) => d = c
      BY <3>1 DEF Of
    <3>3. secretOps' = Append(secretOps, op)
      BY <2>2 DEF op
    <3>4. /\ Unique(secretOps')
          /\ \A d : d # c /\ Free(secretOps, d) => Free(secretOps', d)
      BY <1>2, <1>3, <3>1, <3>2, <3>3, UniqueAppend DEF OneEach
    <3>5. \A i \in 1 .. Len(secretOps') : Matches(secretOps'[i], calls')
      BY <1>2, <1>6, <3>1, <3>3, MatchesAppend
    <3> QED
      BY <2>2, <3>4, <3>5
  <2> QED
    BY <1>1, <2>1, <2>2
<1>8. /\ Unique(settingOps')
      /\ \A d : d # c /\ Free(settingOps, d) => Free(settingOps', d)
      /\ x.at # "remove" => Free(settingOps', c)
  <2>1. CASE UNCHANGED settingOps
    BY <1>2, <1>3, <2>1 DEF OneEach
  <2>2. ASSUME NEW s \in Settings, x.at = "remove",
               settingOps' = Append(settingOps, Remove(c, s))
        PROVE  /\ Unique(settingOps')
               /\ \A d : d # c /\ Free(settingOps, d) => Free(settingOps', d)
    <3> DEFINE op == Remove(c, s)
    <3>1. op \in Removal /\ op.call = c
      BY DEF Remove, Removal
    <3> HIDE DEF op
    <3>2. \A d : Of(op, d) => d = c
      BY <3>1 DEF Of
    <3>3. settingOps' = Append(settingOps, op)
      BY <2>2 DEF op
    <3> QED
      BY <1>2, <1>3, <3>1, <3>2, <3>3, UniqueAppend DEF OneEach
  <2> QED
    BY <1>1, <2>1, <2>2
<1>9. Waits(c, secretOps', settingOps', toExtHost', calls')
  BY <1>1, <1>3, <1>4, <1>7, <1>8 DEF Waits
<1>10. \A d \in Invocations \ {c} :
          /\ calls'[d] = calls[d]
          /\ Free(secretOps, d) => Free(secretOps', d)
          /\ Free(settingOps, d) => Free(settingOps', d)
          /\ Free(toExtHost, d) => Free(toExtHost', d)
  BY <1>4, <1>5, <1>7, <1>8
<1>11. OneEach(secretOps', settingOps', toExtHost', calls')
  BY <1>2, <1>5, <1>7, <1>8, <1>9, <1>10, OneMoves
<1>12. \A d \in Calls : calls'[d].at = "store" => calls'[d].key # None
  BY <1>1, <1>4 DEF OneInv, Found, Invocations
<1> QED
  BY <1>11, <1>12, ReadReceiveReply, OneAfter DEF OneInv

\* A change concerns no call.
LEMMA OneChange ==
    ASSUME OneInv, NEW s \in [Settings -> Maybe]
    PROVE  LET r == Append(toExtHost, Changed(s))
           IN /\ r \in Seq(News) /\ Unique(r)
              /\ \A c : Free(toExtHost, c) => Free(r, c)
<1> DEFINE m == Changed(s)
<1>1. m \in News /\ \A c : ~Of(m, c)
  BY DEF Changed, News, AnyChange, Of
<1> HIDE DEF m
<1>2. toExtHost \in Seq(News) /\ Unique(toExtHost)
  BY DEF OneInv, ReadInv, TypesInv, OneEach
<1>3. /\ Unique(Append(toExtHost, m))
      /\ \A c : Free(toExtHost, c) => Free(Append(toExtHost, m), c)
  BY <1>1, <1>2, UniqueAppend
<1> QED
  BY <1>1, <1>2, <1>3 DEF m

\* The extension host hears of a change.
LEMMA OneAccept == OneInv /\ AcceptConfigurationChanged /\ Observe => OneInv'
<1> SUFFICES ASSUME OneInv, AcceptConfigurationChanged, Observe PROVE OneInv'
  OBVIOUS
<1>1. /\ toExtHost # <<>> /\ toExtHost' = Tail(toExtHost)
      /\ UNCHANGED <<secretOps, settingOps, calls>>
      /\ toExtHost \in Seq(News)
      /\ OneEach(secretOps, settingOps, toExtHost, calls)
  BY DEF AcceptConfigurationChanged, OneInv, ReadInv, TypesInv
<1>2. Unique(toExtHost') /\ \A c : Free(toExtHost, c) => Free(toExtHost', c)
  BY <1>1, UniqueTail DEF OneEach
<1>3. OneEach(secretOps', settingOps', toExtHost', calls')
  BY <1>1, <1>2 DEF OneEach, Waits
<1> QED
  BY <1>1, <1>3, ReadAccept, OneAfter DEF OneInv, Found

\* The request of a call becomes the reply to it.
LEMMA OneSecretStep == OneInv /\ SecretStep /\ Observe => OneInv'
<1> SUFFICES ASSUME OneInv, SecretStep, Observe PROVE OneInv'
  OBVIOUS
<1> DEFINE op == Head(secretOps)
           c == op.call
<1>1. /\ secretOps # <<>> /\ secretOps' = Tail(secretOps)
      /\ UNCHANGED <<settingOps, calls>>
      /\ secretOps \in Seq(Request) /\ toExtHost \in Seq(News)
      /\ OneEach(secretOps, settingOps, toExtHost, calls)
      /\ secret \in Maybe
  BY DEF SecretStep, OneInv, ReadInv, TypesInv
<1>2. op \in Request /\ c \in Invocations /\ Of(op, c)
  <2>1. op \in Request
    BY <1>1, HeadIn
  <2> QED
    BY <2>1 DEF Request, Of
<1>3. PICK m \in News : /\ toExtHost' = Append(toExtHost, m)
                        /\ \A d : Of(m, d) <=> d = c
  <2>1. \E ok \in BOOLEAN, k \in {secret, None} :
            toExtHost' = Append(toExtHost, Answer(c, ok, k))
    BY DEF SecretStep
  <2>2. \A ok \in BOOLEAN, k \in {secret, None} :
            Answer(c, ok, k) \in News /\ \A d : Of(Answer(c, ok, k), d) <=> d = c
    BY <1>1, <1>2 DEF Answer, News, AnyReply, Maybe, Of
  <2> QED
    BY <2>1, <2>2
<1>4. /\ Unique(secretOps') /\ Free(secretOps', c) /\ ~Free(secretOps, c)
      /\ \A d : Free(secretOps, d) => Free(secretOps', d)
  BY <1>1, <1>2, UniqueTail DEF OneEach
<1>5. Free(settingOps, c) /\ Free(toExtHost, c) /\ calls[c].at \in {"get", "store"}
  <2>1. Waits(c, secretOps, settingOps, toExtHost, calls)
    BY <1>1, <1>2 DEF OneEach
  <2>2. calls[c].at \in Places
    BY <1>2 DEF OneInv, ReadInv, TypesInv, Call
  <2> QED
    BY <1>4, <2>1, <2>2 DEF Waits, Places
<1>6. /\ Unique(toExtHost')
      /\ \A d : d # c /\ Free(toExtHost, d) => Free(toExtHost', d)
  BY <1>1, <1>3, <1>5, UniqueAppend DEF OneEach
<1>7. \A i \in 1 .. Len(secretOps') : Matches(secretOps'[i], calls')
  BY <1>1, MatchesTail DEF OneEach
<1>8. Waits(c, secretOps', settingOps', toExtHost', calls')
  BY <1>1, <1>4, <1>5 DEF Waits
<1> HIDE DEF c
<1>9. Unique(settingOps') /\ \A d \in Invocations \ {c} :
          /\ calls'[d] = calls[d]
          /\ Free(secretOps, d) => Free(secretOps', d)
          /\ Free(settingOps, d) => Free(settingOps', d)
          /\ Free(toExtHost, d) => Free(toExtHost', d)
  BY <1>1, <1>4, <1>6 DEF OneEach
<1>10. OneEach(secretOps', settingOps', toExtHost', calls')
  BY <1>1, <1>2, <1>4, <1>6, <1>7, <1>8, <1>9, OneMoves
<1> QED
  BY <1>1, <1>10, ReadSecretStep, OneAfter DEF OneInv, Found

\* So does the removal of a setting.
LEMMA OneSettingStep == OneInv /\ SettingStep /\ Observe => OneInv'
<1> SUFFICES ASSUME OneInv, SettingStep, Observe PROVE OneInv'
  OBVIOUS
<1> DEFINE op == Head(settingOps)
           c == op.call
           s == [settings EXCEPT ![op.setting] = None]
<1>1. /\ settingOps # <<>> /\ settingOps' = Tail(settingOps)
      /\ UNCHANGED <<secretOps, calls>>
      /\ settingOps \in Seq(Removal) /\ toExtHost \in Seq(News)
      /\ OneEach(secretOps, settingOps, toExtHost, calls)
      /\ settings \in [Settings -> Maybe]
  BY DEF SettingStep, OneInv, ReadInv, TypesInv
<1>2. /\ op \in Removal /\ c \in Invocations /\ Of(op, c)
      /\ op.setting \in Settings
  <2>1. op \in Removal
    BY <1>1, HeadIn
  <2> QED
    BY <2>1 DEF Removal, Of
<1>3. s \in [Settings -> Maybe]
  BY <1>1, <1>2 DEF Maybe
<1>4. PICK q \in Seq(News), m \in News :
          /\ toExtHost' = Append(q, m) /\ \A d : Of(m, d) <=> d = c
          /\ Unique(q) /\ \A d : Free(toExtHost, d) => Free(q, d)
  <2>1. \A ok \in BOOLEAN : /\ Answer(c, ok, None) \in News
                            /\ \A d : Of(Answer(c, ok, None), d) <=> d = c
    BY <1>2 DEF Answer, News, AnyReply, Maybe, Of
  <2>2. ASSUME NEW ok \in BOOLEAN,
               toExtHost' = Append(toExtHost, Answer(c, ok, None))
        PROVE  \E q \in Seq(News), m \in News :
                  /\ toExtHost' = Append(q, m) /\ \A d : Of(m, d) <=> d = c
                  /\ Unique(q) /\ \A d : Free(toExtHost, d) => Free(q, d)
    BY <1>1, <2>1, <2>2 DEF OneEach
  <2>3. CASE toExtHost' = toExtHost \o RemovalNews(op)
    <3> DEFINE a == Answer(c, TRUE, None)
               d == Changed(s)
               q == Append(toExtHost, d)
    <3>1. d \in News
      BY <1>3 DEF Changed, News, AnyChange
    <3>2. q \in Seq(News) /\ Unique(q) /\ \A e : Free(toExtHost, e) => Free(q, e)
      BY <1>3, OneChange
    <3>3. \/ toExtHost' = toExtHost \o (<<>> \o <<a>>)
          \/ toExtHost' = toExtHost \o (<<d>> \o <<a>>)
      BY <2>3 DEF RemovalNews
    <3> HIDE DEF a, d
    <3>4. a \in News /\ \A e : Of(a, e) <=> e = c
      BY <2>1 DEF a
    <3>5. \/ toExtHost' = Append(toExtHost, a)
          \/ toExtHost' = Append(q, a)
      BY <1>1, <3>1, <3>3, <3>4, Joined
    <3> HIDE DEF q
    <3> QED
      BY <1>1, <3>2, <3>4, <3>5 DEF OneEach
  <2> QED
    BY <2>2, <2>3 DEF SettingStep
<1>5. /\ Unique(settingOps') /\ Free(settingOps', c) /\ ~Free(settingOps, c)
      /\ \A d : Free(settingOps, d) => Free(settingOps', d)
  BY <1>1, <1>2, UniqueTail DEF OneEach
<1>6. Free(secretOps, c) /\ Free(toExtHost, c) /\ calls[c].at = "remove"
  <2>1. Waits(c, secretOps, settingOps, toExtHost, calls)
    BY <1>1, <1>2 DEF OneEach
  <2>2. calls[c].at \in Places
    BY <1>2 DEF OneInv, ReadInv, TypesInv, Call
  <2> QED
    BY <1>5, <2>1, <2>2 DEF Waits, Places
<1>7. /\ Unique(toExtHost')
      /\ \A d : d # c /\ Free(toExtHost, d) => Free(toExtHost', d)
  BY <1>4, <1>6, UniqueAppend
<1>8. Waits(c, secretOps', settingOps', toExtHost', calls')
  BY <1>1, <1>5, <1>6 DEF Waits
<1> HIDE DEF c
<1>9. /\ Unique(secretOps')
      /\ \A i \in 1 .. Len(secretOps') : Matches(secretOps'[i], calls')
      /\ \A d \in Invocations \ {c} :
            /\ calls'[d] = calls[d]
            /\ Free(secretOps, d) => Free(secretOps', d)
            /\ Free(settingOps, d) => Free(settingOps', d)
            /\ Free(toExtHost, d) => Free(toExtHost', d)
  BY <1>1, <1>5, <1>7 DEF OneEach
<1>10. OneEach(secretOps', settingOps', toExtHost', calls')
  BY <1>1, <1>2, <1>5, <1>7, <1>8, <1>9, OneMoves
<1> QED
  BY <1>1, <1>10, ReadSettingStep, OneAfter DEF OneInv, Found

\* An edit concerns no call.
LEMMA OneEdit ==
    \A s \in Settings, k \in Maybe : OneInv /\ Edit(s, k) /\ Observe => OneInv'
<1> SUFFICES ASSUME NEW s \in Settings, NEW k \in Maybe, OneInv, Edit(s, k),
                    Observe
             PROVE  OneInv'
  OBVIOUS
<1>1. /\ settings' \in [Settings -> Maybe]
      /\ toExtHost' = Append(toExtHost, Changed(settings'))
      /\ UNCHANGED <<secretOps, settingOps, calls>>
      /\ OneEach(secretOps, settingOps, toExtHost, calls)
  BY DEF Edit, OneInv, ReadInv, TypesInv
<1>2. Unique(toExtHost') /\ \A c : Free(toExtHost, c) => Free(toExtHost', c)
  BY <1>1, OneChange
<1>3. OneEach(secretOps', settingOps', toExtHost', calls')
  BY <1>1, <1>2 DEF OneEach, Waits
<1> QED
  BY <1>1, <1>3, ReadEdit, OneAfter DEF OneInv, Found

\* Nobody waits for anything at first.
LEMMA OneInit == Init => OneInv
<1> SUFFICES ASSUME Init PROVE OneInv
  OBVIOUS
<1>1. OneEach(secretOps, settingOps, toExtHost, calls)
  BY FreeNone DEF Init, OneEach, Waits
<1>2. Found
  BY DEF Init, Found, At, Invocations
<1> QED
  BY <1>1, <1>2, ReadInit DEF OneInv

\* A reload leaves nothing to wait for.
LEMMA OneReload == OneInv /\ Reload /\ Observe => OneInv'
<1> SUFFICES ASSUME OneInv, Reload, Observe PROVE OneInv'
  OBVIOUS
<1>1. /\ secretOps' = <<>> /\ settingOps' = <<>> /\ toExtHost' = <<>>
      /\ calls' = [c \in Invocations |->
                     IF Under(calls[c]) THEN At("done", Failed) ELSE calls[c]]
  BY DEF Reload
<1>2. OneEach(secretOps', settingOps', toExtHost', calls')
  BY <1>1, FreeNone DEF OneEach, Waits
<1>3. \A c \in Calls : calls'[c].at # "store"
  BY <1>1 DEF Under, At, Invocations
<1> QED
  BY <1>2, <1>3, ReadReload, OneAfter DEF OneInv

-----------------------------------------------------------------------------
(* Removals are covered                                                    *)

\* m tells its call that the key is stored.
Stored(m, cs) == "call" \in DOMAIN m /\ m.ok /\ cs[m.call].at = "store"
Clears(c, cs) == c \in Commands /\ cs[c].key = None /\ cs[c].at # "new"

\* From the i-th message of q on, a command hears that it has cleared the key.
ClearedIn(q, cs, i) ==
    \E j \in i .. Len(q) : Stored(q[j], cs) /\ Clears(q[j].call, cs)

\* Whoever is to remove a setting is followed by a command that clears.
CoversNews(q, cs) ==
    \A i \in 1 .. Len(q) : Stored(q[i], cs) => ClearedIn(q, cs, i)
CoversOps(st, q, cs) ==
    \A i \in 1 .. Len(st) :
        \/ \E j \in i .. Len(st) : Clears(st[j].call, cs)
        \/ ClearedIn(q, cs, 1)

\* The key is stored, or could not be decrypted and was deleted, or has been
\* cleared, or will be when its last removal is done.
Covered ==
    \/ secret # None
    \/ lost
    \/ \E d \in Commands : calls[d].at = "done" /\ calls[d].key = None
    \/ CoversNews(toExtHost, calls) /\ CoversOps(settingOps, toExtHost, calls)

KeepInv == OneInv /\ Covered

\* A message that does not tell of a store changes nothing.
LEMMA CoverSent ==
    ASSUME NEW q \in Seq(News), NEW m \in News, NEW cs, ~Stored(m, cs),
           NEW st, CoversNews(q, cs), CoversOps(st, q, cs)
    PROVE  CoversNews(Append(q, m), cs) /\ CoversOps(st, Append(q, m), cs)
<1> DEFINE r == Append(q, m)
<1>1. /\ Len(r) = Len(q) + 1 /\ r[Len(q) + 1] = m
      /\ \A i \in 1 .. Len(q) : r[i] = q[i]
  OBVIOUS
<1> HIDE DEF r
<1>2. ASSUME NEW i \in 1 .. Len(q) + 1, ClearedIn(q, cs, i)
      PROVE  ClearedIn(r, cs, i)
  BY <1>1, <1>2 DEF ClearedIn
<1>3. \A i \in 1 .. Len(q) + 1 : i \in 1 .. Len(q) \/ i = Len(q) + 1
  OBVIOUS
<1>4. CoversNews(r, cs)
  BY <1>1, <1>2, <1>3 DEF CoversNews
<1>5. CoversOps(st, r, cs)
  BY <1>2 DEF CoversOps
<1> QED
  BY <1>4, <1>5 DEF r

\* One that tells of a clearing store covers everything.
LEMMA CoverCleared ==
    ASSUME NEW q \in Seq(News), NEW m \in News, NEW cs, Stored(m, cs),
           Clears(m.call, cs), NEW st
    PROVE  CoversNews(Append(q, m), cs) /\ CoversOps(st, Append(q, m), cs)
<1> DEFINE r == Append(q, m)
<1>1. Len(r) = Len(q) + 1 /\ r[Len(q) + 1] = m
  OBVIOUS
<1> HIDE DEF r
<1>2. \A i \in 1 .. Len(q) + 1 : ClearedIn(r, cs, i)
  BY <1>1 DEF ClearedIn
<1>3. CoversNews(r, cs) /\ CoversOps(st, r, cs)
  BY <1>1, <1>2 DEF CoversNews, CoversOps
<1> QED
  BY <1>3 DEF r

\* Reading leaves what comes after covered.
LEMMA CoverRead ==
    ASSUME NEW q \in Seq(News), q # <<>>, NEW cs, CoversNews(q, cs)
    PROVE  /\ CoversNews(Tail(q), cs)
           /\ ClearedIn(q, cs, 1) =>
                 \/ Stored(Head(q), cs) /\ Clears(Head(q).call, cs)
                 \/ ClearedIn(Tail(q), cs, 1)
<1> DEFINE r == Tail(q)
<1>1. /\ Len(r) = Len(q) - 1 /\ Len(q) \in Nat \ {0} /\ Head(q) = q[1]
      /\ \A i \in 1 .. Len(r) : r[i] = q[i + 1]
  OBVIOUS
<1> HIDE DEF r
<1>2. ASSUME NEW i \in 1 .. Len(q), NEW j \in i .. Len(q), j # 1,
             Stored(q[j], cs), Clears(q[j].call, cs)
      PROVE  ClearedIn(r, cs, IF i = 1 THEN 1 ELSE i - 1)
  <2>1. /\ j - 1 \in (IF i = 1 THEN 1 ELSE i - 1) .. Len(r)
        /\ j - 1 \in 1 .. Len(r) /\ (j - 1) + 1 = j
    BY <1>1, <1>2
  <2>2. r[j - 1] = q[j]
    BY <1>1, <2>1
  <2> QED
    BY <1>2, <2>1, <2>2 DEF ClearedIn
<1>3. ASSUME NEW i \in 1 .. Len(r), Stored(r[i], cs) PROVE ClearedIn(r, cs, i)
  <2>1. i + 1 \in 1 .. Len(q) /\ i + 1 # 1 /\ (i + 1) - 1 = i /\ r[i] = q[i + 1]
    BY <1>1
  <2>2. PICK j \in i + 1 .. Len(q) : Stored(q[j], cs) /\ Clears(q[j].call, cs)
    BY <1>3, <2>1 DEF CoversNews, ClearedIn
  <2>3. j # 1
    BY <2>2
  <2> QED
    BY <1>2, <2>1, <2>2, <2>3
<1>4. CoversNews(r, cs)
  BY <1>3 DEF CoversNews
<1>5. ASSUME ClearedIn(q, cs, 1)
      PROVE  \/ Stored(Head(q), cs) /\ Clears(Head(q).call, cs)
             \/ ClearedIn(r, cs, 1)
  <2>1. PICK j \in 1 .. Len(q) : Stored(q[j], cs) /\ Clears(q[j].call, cs)
    BY <1>5 DEF ClearedIn
  <2>2. CASE j = 1
    BY <1>1, <2>1, <2>2
  <2>3. CASE j # 1
    BY <1>1, <1>2, <2>1, <2>3
  <2> QED
    BY <2>2, <2>3
<1> QED
  BY <1>4, <1>5 DEF r

\* A call none of them is about does not matter.
LEMMA CoverOther ==
    ASSUME NEW q \in Seq(News), NEW st \in Seq(Removal), NEW cs, NEW cs2, NEW c,
           Free(q, c), Free(st, c),
           \A d \in Invocations \ {c} : cs2[d] = cs[d]
    PROVE  /\ CoversNews(q, cs) => CoversNews(q, cs2)
           /\ ClearedIn(q, cs, 1) => ClearedIn(q, cs2, 1)
           /\ CoversOps(st, q, cs) => CoversOps(st, q, cs2)
<1>1. ASSUME NEW i \in 1 .. Len(q)
      PROVE  /\ Stored(q[i], cs) <=> Stored(q[i], cs2)
             /\ Stored(q[i], cs) => (Clears(q[i].call, cs) <=> Clears(q[i].call, cs2))
  <2>1. q[i] \in News /\ ~Of(q[i], c)
    BY DEF Free
  <2>2. "call" \in DOMAIN q[i] => q[i].call \in Invocations \ {c}
    BY <2>1 DEF News, AnyReply, AnyChange, Of
  <2> QED
    BY <2>2 DEF Stored, Clears
<1>2. ASSUME NEW i \in 1 .. Len(q), ClearedIn(q, cs, i)
      PROVE  ClearedIn(q, cs2, i)
  BY <1>1, <1>2 DEF ClearedIn
<1>3. ClearedIn(q, cs, 1) => ClearedIn(q, cs2, 1)
  BY <1>1 DEF ClearedIn
<1>4. ASSUME NEW i \in 1 .. Len(st)
      PROVE  Clears(st[i].call, cs) <=> Clears(st[i].call, cs2)
  <2>1. st[i] \in Removal /\ ~Of(st[i], c)
    BY DEF Free
  <2>2. st[i].call \in Invocations \ {c}
    BY <2>1 DEF Removal, Of
  <2> QED
    BY <2>2 DEF Clears
<1>5. CoversNews(q, cs) => CoversNews(q, cs2)
  BY <1>1, <1>2 DEF CoversNews
<1>6. CoversOps(st, q, cs) => CoversOps(st, q, cs2)
  BY <1>3, <1>4 DEF CoversOps
<1> QED
  BY <1>3, <1>5, <1>6

\* What a step has to show.
LEMMA KeepAfter ==
    ASSUME OneInv',
           \/ secret' # None
           \/ lost'
           \/ \E d \in Commands : calls'[d].at = "done" /\ calls'[d].key = None
           \/ /\ CoversNews(toExtHost', calls')
              /\ CoversOps(settingOps', toExtHost', calls')
    PROVE  KeepInv'
BY DEF KeepInv, Covered, CoversNews, CoversOps, ClearedIn, Stored, Clears

\* A call that begins has nothing to remove yet.
LEMMA KeepBegins ==
    ASSUME KeepInv, OneInv', NEW c \in Invocations, NEW x,
           calls[c].at = "new", calls' = [calls EXCEPT ![c] = x],
           UNCHANGED <<secret, lost, settingOps, toExtHost>>
    PROVE  KeepInv'
<1>1. /\ toExtHost \in Seq(News) /\ settingOps \in Seq(Removal)
      /\ calls \in [Invocations -> Call]
  BY DEF KeepInv, OneInv, ReadInv, TypesInv
<1>2. Free(toExtHost, c) /\ Free(settingOps, c)
  BY DEF KeepInv, OneInv, OneEach, Waits
<1>3. \A d \in Invocations \ {c} : calls'[d] = calls[d]
  BY <1>1
<1>4. CASE secret # None \/ lost
  BY <1>4, KeepAfter
<1>5. CASE \E d \in Commands : calls[d].at = "done" /\ calls[d].key = None
  <2>1. \E d \in Commands : calls'[d].at = "done" /\ calls'[d].key = None
    BY <1>3, <1>5 DEF Invocations
  <2> QED
    BY <2>1, KeepAfter
<1>6. CASE CoversNews(toExtHost, calls) /\ CoversOps(settingOps, toExtHost, calls)
  <2>1. /\ CoversNews(toExtHost, calls')
        /\ CoversOps(settingOps, toExtHost, calls')
    BY <1>1, <1>2, <1>3, <1>6, CoverOther
  <2> QED
    BY <2>1, KeepAfter
<1> QED
  BY <1>4, <1>5, <1>6 DEF KeepInv, Covered

\* getApiKey begins with the secret.
LEMMA KeepGetApiKey ==
    \A c \in Calls : KeepInv /\ GetApiKey(c) /\ Observe => KeepInv'
<1> SUFFICES ASSUME NEW c \in Calls, KeepInv, GetApiKey(c), Observe
             PROVE  KeepInv'
  OBVIOUS
<1>1. /\ calls[c].at = "new" /\ calls' = [calls EXCEPT ![c] = At("get", None)]
      /\ UNCHANGED <<secret, lost, settingOps, toExtHost>>
  BY DEF GetApiKey
<1>2. OneInv' /\ c \in Invocations
  BY OneGetApiKey DEF KeepInv, Invocations
<1> QED
  BY <1>1, <1>2, KeepBegins

\* The command begins with what the user entered.
LEMMA KeepSetApiKey ==
    \A c \in Commands, k \in Maybe :
        KeepInv /\ SetApiKey(c, k) /\ Observe => KeepInv'
<1> SUFFICES ASSUME NEW c \in Commands, NEW k \in Maybe, KeepInv,
                    SetApiKey(c, k), Observe
             PROVE  KeepInv'
  OBVIOUS
<1> DEFINE x == [at |-> "store", from |-> "user", key |-> k]
<1>1. /\ calls[c].at = "new" /\ calls' = [calls EXCEPT ![c] = x]
      /\ UNCHANGED <<secret, lost, settingOps, toExtHost>>
  BY DEF SetApiKey
<1>2. OneInv' /\ c \in Invocations
  BY OneSetApiKey DEF KeepInv, Invocations
<1> HIDE DEF x
<1> QED
  BY <1>1, <1>2, KeepBegins

\* A call that hears its key is stored may remove a setting: the key is
\* there, or what followed it still does.
LEMMA KeepReceiveReply == KeepInv /\ ReceiveReply /\ Observe => KeepInv'
<1> SUFFICES ASSUME KeepInv, ReceiveReply, Observe PROVE KeepInv'
  OBVIOUS
<1> DEFINE m == Head(toExtHost)
<1>1. PICK c \in Invocations, x \in Call :
              /\ c = m.call
              /\ x.at \in {"store", "remove", "done"}
              /\ calls' = [calls EXCEPT ![c] = x]
              /\ IF x.at = "remove"
                 THEN \E s \in Settings :
                          settingOps' = Append(settingOps, Remove(c, s))
                 ELSE UNCHANGED settingOps
              /\ x.at = "remove" => calls[c].at = "store"
              /\ m.ok /\ calls[c].at \in {"store", "remove"} =>
                    x.key = calls[c].key /\ x.at # "store"
              /\ ~m.ok => x.at # "remove"
  BY AfterReply DEF KeepInv, OneInv
<1>2. /\ toExtHost # <<>> /\ toExtHost' = Tail(toExtHost)
      /\ toExtHost \in Seq(News) /\ settingOps \in Seq(Removal)
      /\ Tail(toExtHost) \in Seq(News) /\ UNCHANGED <<secret, lost>>
      /\ calls \in [Invocations -> Call]
  BY DEF ReceiveReply, KeepInv, OneInv, ReadInv, TypesInv
<1>3. m \in AnyReply
  BY <1>2, HeadIn DEF ReceiveReply, Reply, News, AnyReply, AnyChange
<1>4. /\ Free(settingOps, c) /\ Free(Tail(toExtHost), c)
      /\ calls[c].at \in {"get", "store", "remove"}
  BY <1>1, OneReply DEF KeepInv
<1>5. calls'[c] = x /\ \A d \in Invocations \ {c} : calls'[d] = calls[d]
  BY <1>1, <1>2
<1>6. OneInv'
  BY OneReceiveReply DEF KeepInv
<1>7. Stored(m, calls) <=> m.ok /\ calls[c].at = "store"
  BY <1>1, <1>3 DEF Stored, AnyReply
<1> HIDE DEF m
<1>8. CASE secret # None \/ lost
  BY <1>2, <1>6, <1>8, KeepAfter
<1>9. CASE \E d \in Commands : calls[d].at = "done" /\ calls[d].key = None
  <2>1. \E d \in Commands : calls'[d].at = "done" /\ calls'[d].key = None
    BY <1>4, <1>5, <1>9 DEF Invocations
  <2> QED
    BY <1>6, <2>1, KeepAfter
<1>10. CASE CoversNews(toExtHost, calls) /\ CoversOps(settingOps, toExtHost, calls)
  <2>1. /\ CoversNews(Tail(toExtHost), calls)
        /\ ClearedIn(toExtHost, calls, 1) =>
              \/ Stored(m, calls) /\ Clears(c, calls)
              \/ ClearedIn(Tail(toExtHost), calls, 1)
    BY <1>1, <1>2, <1>10, CoverRead DEF m
  <2>2. CoversNews(Tail(toExtHost), calls')
    BY <1>2, <1>4, <1>5, <2>1, CoverOther
  <2>3. CASE ~Stored(m, calls)
    <3>1. UNCHANGED settingOps
      BY <1>1, <1>7, <2>3
    <3>2. CoversOps(settingOps, Tail(toExtHost), calls)
      BY <1>10, <2>1, <2>3 DEF CoversOps
    <3>3. CoversOps(settingOps', toExtHost', calls')
      BY <1>2, <1>4, <1>5, <3>1, <3>2, CoverOther
    <3> QED
      BY <1>2, <1>6, <2>2, <3>3, KeepAfter
  <2>4. CASE Stored(m, calls) /\ Clears(c, calls)
    <3>1. c \in Commands /\ x.key = None /\ x.at \in {"remove", "done"}
      BY <1>1, <1>7, <2>4 DEF Clears
    <3>2. CASE x.at = "done"
      BY <1>5, <1>6, <3>1, <3>2, KeepAfter
    <3>3. CASE x.at = "remove"
      <4>1. PICK s \in Settings : settingOps' = Append(settingOps, Remove(c, s))
        BY <1>1, <3>3
      <4> DEFINE op == Remove(c, s)
      <4>2. op \in Removal /\ op.call = c
        BY DEF Remove, Removal
      <4> HIDE DEF op
      <4>3. settingOps' = Append(settingOps, op)
        BY <4>1 DEF op
      <4>4. /\ Len(settingOps') = Len(settingOps) + 1
            /\ settingOps'[Len(settingOps) + 1] = op
            /\ Len(settingOps) \in Nat
        BY <1>2, <4>2, <4>3
      <4>5. Clears(c, calls')
        BY <1>5, <3>1, <3>3 DEF Clears
      <4>6. CoversOps(settingOps', toExtHost', calls')
        BY <4>2, <4>4, <4>5 DEF CoversOps
      <4> QED
        BY <1>2, <1>6, <2>2, <4>6, KeepAfter
    <3> QED
      BY <3>1, <3>2, <3>3
  <2>5. CASE Stored(m, calls) /\ ~Clears(c, calls)
    <3>1. 1 \in 1 .. Len(toExtHost) /\ m = toExtHost[1]
      BY <1>2 DEF m
    <3>2. ClearedIn(toExtHost, calls, 1)
      BY <1>10, <2>5, <3>1 DEF CoversNews
    <3>3. ClearedIn(Tail(toExtHost), calls', 1)
      BY <1>2, <1>4, <1>5, <2>1, <2>5, <3>2, CoverOther
    <3>4. CoversOps(settingOps', toExtHost', calls')
      BY <1>2, <3>3 DEF CoversOps
    <3> QED
      BY <1>2, <1>6, <2>2, <3>4, KeepAfter
  <2> QED
    BY <2>3, <2>4, <2>5
<1> QED
  BY <1>8, <1>9, <1>10 DEF KeepInv, Covered

\* News of settings is of no store.
LEMMA KeepAccept == KeepInv /\ AcceptConfigurationChanged /\ Observe => KeepInv'
<1> SUFFICES ASSUME KeepInv, AcceptConfigurationChanged, Observe PROVE KeepInv'
  OBVIOUS
<1>1. /\ toExtHost # <<>> /\ toExtHost' = Tail(toExtHost)
      /\ toExtHost \in Seq(News) /\ Head(toExtHost).kind = "settings"
      /\ UNCHANGED <<secret, lost, settingOps, calls>>
  BY DEF AcceptConfigurationChanged, Reply, KeepInv, OneInv, ReadInv, TypesInv
<1>2. ~Stored(Head(toExtHost), calls)
  <2>1. Head(toExtHost) \in AnyChange
    BY <1>1, HeadIn DEF News, AnyReply, AnyChange
  <2> QED
    BY <2>1 DEF Stored, AnyChange
<1>3. CoversNews(toExtHost, calls) /\ CoversOps(settingOps, toExtHost, calls)
      => /\ CoversNews(toExtHost', calls')
         /\ CoversOps(settingOps', toExtHost', calls')
  BY <1>1, <1>2, CoverRead DEF CoversOps
<1> QED
  BY <1>1, <1>3, OneAccept, KeepAfter DEF KeepInv, Covered

\* A store of no key is a command's, which clears.
LEMMA KeepSecretStep == KeepInv /\ SecretStep /\ Observe => KeepInv'
<1> SUFFICES ASSUME KeepInv, SecretStep, Observe PROVE KeepInv'
  OBVIOUS
<1> DEFINE op == Head(secretOps)
           c == op.call
<1>1. /\ secretOps # <<>> /\ secretOps \in Seq(Request)
      /\ toExtHost \in Seq(News) /\ secret \in Maybe
      /\ \A i \in 1 .. Len(secretOps) : Matches(secretOps[i], calls)
      /\ UNCHANGED <<settingOps, calls>>
  BY DEF SecretStep, KeepInv, OneInv, OneEach, ReadInv, TypesInv
<1>2. op \in Request /\ c \in Invocations
  <2>1. op \in Request
    BY <1>1, HeadIn
  <2> QED
    BY <2>1 DEF Request
<1>3. Matches(op, calls)
  BY <1>1, MatchesTail
<1>4. OneInv'
  BY OneSecretStep DEF KeepInv
<1>5. \A ok \in BOOLEAN, k \in {secret, None} :
          LET m == Answer(c, ok, k)
          IN /\ m \in News /\ m.call = c
             /\ Stored(m, calls) <=> ok /\ calls[c].at = "store"
  BY <1>1, <1>2 DEF Answer, News, AnyReply, Maybe, Stored
<1>6. CASE /\ UNCHANGED <<secret, lost>>
           /\ \E ok \in BOOLEAN, k \in {secret, None} :
                 /\ ok => calls[c].at # "store"
                 /\ toExtHost' = Append(toExtHost, Answer(c, ok, k))
  <2>1. PICK m \in News : /\ ~Stored(m, calls)
                          /\ toExtHost' = Append(toExtHost, m)
    BY <1>5, <1>6
  <2>2. CoversNews(toExtHost, calls) /\ CoversOps(settingOps, toExtHost, calls)
        => /\ CoversNews(toExtHost', calls')
           /\ CoversOps(settingOps', toExtHost', calls')
    BY <1>1, <2>1, CoverSent
  <2> QED
    BY <1>1, <1>4, <1>6, <2>2, KeepAfter DEF KeepInv, Covered
<1>7. CASE /\ op.kind = "store" /\ secret' = op.key
           /\ toExtHost' = Append(toExtHost, Answer(c, TRUE, None))
  <2>1. calls[c].at = "store" /\ calls[c].key = op.key
    BY <1>3, <1>7 DEF Matches
  <2>2. CASE op.key # None
    BY <1>4, <1>7, <2>2, KeepAfter
  <2>3. CASE op.key = None
    <3>1. Clears(c, calls)
      BY <1>2, <2>1, <2>3 DEF Clears, Invocations, KeepInv, OneInv, Found
    <3>2. PICK m \in News : /\ Stored(m, calls) /\ Clears(m.call, calls)
                            /\ toExtHost' = Append(toExtHost, m)
      BY <1>5, <1>7, <2>1, <3>1
    <3>3. /\ CoversNews(toExtHost', calls')
          /\ CoversOps(settingOps', toExtHost', calls')
      BY <1>1, <3>2, CoverCleared
    <3> QED
      BY <1>4, <3>3, KeepAfter
  <2> QED
    BY <2>2, <2>3
<1>8. op.kind = "get" => calls[c].at # "store"
  BY <1>3 DEF Matches
<1>9. CASE lost'
  BY <1>4, <1>9, KeepAfter
<1> QED
  BY <1>6, <1>7, <1>8, <1>9 DEF SecretStep

\* A change is no answer.
LEMMA CoverChange ==
    ASSUME NEW q \in Seq(News), NEW t \in [Settings -> Maybe], NEW cs, NEW st,
           CoversNews(q, cs), CoversOps(st, q, cs)
    PROVE  LET r == Append(q, Changed(t))
           IN r \in Seq(News) /\ CoversNews(r, cs) /\ CoversOps(st, r, cs)
<1>1. Changed(t) \in News /\ ~Stored(Changed(t), cs)
  BY DEF Changed, News, AnyChange, Stored
<1>2. Append(q, Changed(t)) \in Seq(News)
  BY <1>1
<1> QED
  BY <1>1, <1>2, CoverSent

\* A removal that has been served needs no cover.
LEMMA KeepSettingStep == KeepInv /\ SettingStep /\ Observe => KeepInv'
<1> SUFFICES ASSUME KeepInv, SettingStep, Observe PROVE KeepInv'
  OBVIOUS
<1> DEFINE op == Head(settingOps)
           c == op.call
           t == [settings EXCEPT ![op.setting] = None]
           st == Tail(settingOps)
<1>1. /\ settingOps # <<>> /\ settingOps \in Seq(Removal)
      /\ settingOps' = st /\ toExtHost \in Seq(News)
      /\ settings \in [Settings -> Maybe]
      /\ UNCHANGED <<secret, lost, calls>>
  BY DEF SettingStep, KeepInv, OneInv, ReadInv, TypesInv
<1>2. op \in Removals(calls) /\ op \in Removal
  <2>1. settingOps \in Seq(Removals(calls))
    BY DEF KeepInv, OneInv, ReadInv, Begun
  <2> QED
    BY <1>1, <2>1, HeadIn
<1>3. c \in Invocations /\ t \in [Settings -> Maybe]
  BY <1>1, <1>2 DEF Removal, Maybe
<1>4. calls[c].at # "store"
  <2>1. Of(op, c) /\ ~Free(settingOps, c)
    <3>1. Of(op, c)
      BY <1>2 DEF Of, Removal
    <3> QED
      BY <1>1, <3>1, UniqueTail DEF KeepInv, OneInv, OneEach
  <2> QED
    BY <1>3, <2>1 DEF KeepInv, OneInv, OneEach, Waits
<1>5. \A ok \in BOOLEAN : /\ Answer(c, ok, None) \in News
                          /\ ~Stored(Answer(c, ok, None), calls)
  BY <1>3, <1>4 DEF Answer, News, AnyReply, Maybe, Stored
<1>6. OneInv'
  BY OneSettingStep DEF KeepInv
<1>7. CoversOps(settingOps, toExtHost, calls) => CoversOps(st, toExtHost, calls)
  <2>1. /\ Len(st) = Len(settingOps) - 1 /\ Len(settingOps) \in Nat \ {0}
        /\ \A i \in 1 .. Len(st) : st[i] = settingOps[i + 1]
    BY <1>1
  <2> HIDE DEF st
  <2>2. ASSUME NEW i \in 1 .. Len(st), NEW j \in i + 1 .. Len(settingOps),
               Clears(settingOps[j].call, calls)
        PROVE  \E k \in i .. Len(st) : Clears(st[k].call, calls)
    <3>1. /\ j - 1 \in i .. Len(st) /\ j - 1 \in 1 .. Len(st)
          /\ (j - 1) + 1 = j
      BY <2>1, <2>2
    <3>2. st[j - 1] = settingOps[j]
      BY <2>1, <3>1
    <3> QED
      BY <2>2, <3>1, <3>2
  <2>3. \A i \in 1 .. Len(st) : i + 1 \in 1 .. Len(settingOps)
    BY <2>1
  <2> QED
    BY <2>2, <2>3 DEF CoversOps
<1>8. ASSUME CoversNews(toExtHost, calls), CoversOps(settingOps, toExtHost, calls)
      PROVE  CoversNews(toExtHost', calls') /\ CoversOps(settingOps', toExtHost', calls')
  <2> HIDE DEF st
  <2>1. \A q \in Seq(News), ok \in BOOLEAN :
            CoversNews(q, calls) /\ CoversOps(st, q, calls) =>
              /\ CoversNews(Append(q, Answer(c, ok, None)), calls)
              /\ CoversOps(st, Append(q, Answer(c, ok, None)), calls)
    BY <1>5, CoverSent
  <2>2. ASSUME NEW ok \in BOOLEAN,
               toExtHost' = Append(toExtHost, Answer(c, ok, None))
        PROVE  /\ CoversNews(toExtHost', calls')
               /\ CoversOps(settingOps', toExtHost', calls')
    BY <1>1, <1>7, <1>8, <2>1, <2>2
  <2>3. CASE toExtHost' = toExtHost \o RemovalNews(op)
    <3> DEFINE a == Answer(c, TRUE, None)
               d == Changed(t)
               q == Append(toExtHost, d)
    <3>1. \/ toExtHost' = toExtHost \o (<<>> \o <<a>>)
          \/ toExtHost' = toExtHost \o (<<d>> \o <<a>>)
      BY <2>3 DEF RemovalNews
    <3>2. d \in News /\ a \in News
      BY <1>3, <1>5 DEF Changed, News, AnyChange
    <3>3. /\ q \in Seq(News) /\ CoversNews(q, calls)
          /\ CoversOps(st, q, calls)
      BY <1>1, <1>3, <1>7, <1>8, CoverChange
    <3> HIDE DEF d
    <3>4. toExtHost' = Append(toExtHost, a) \/ toExtHost' = Append(q, a)
      <4> HIDE DEF a
      <4> QED
        BY <1>1, <3>1, <3>2, Joined
    <3> HIDE DEF q
    <3>5. CASE toExtHost' = Append(toExtHost, a)
      BY <2>2, <3>5
    <3>6. CASE toExtHost' = Append(q, a)
      BY <1>1, <2>1, <3>3, <3>6
    <3> QED
      BY <3>4, <3>5, <3>6
  <2> QED
    BY <2>2, <2>3 DEF SettingStep
<1> QED
  BY <1>1, <1>6, <1>8, KeepAfter DEF KeepInv, Covered

\* Neither does an edit take the cover away.
LEMMA KeepEdit ==
    \A s \in Settings, k \in Maybe : KeepInv /\ Edit(s, k) /\ Observe => KeepInv'
<1> SUFFICES ASSUME NEW s \in Settings, NEW k \in Maybe, KeepInv, Edit(s, k),
                    Observe
             PROVE  KeepInv'
  OBVIOUS
<1>1. /\ settings' \in [Settings -> Maybe] /\ toExtHost \in Seq(News)
      /\ toExtHost' = Append(toExtHost, Changed(settings'))
      /\ UNCHANGED <<secret, lost, settingOps, calls>>
  BY DEF Edit, KeepInv, OneInv, ReadInv, TypesInv
<1>2. CoversNews(toExtHost, calls) /\ CoversOps(settingOps, toExtHost, calls)
      => /\ CoversNews(toExtHost', calls')
         /\ CoversOps(settingOps', toExtHost', calls')
  BY <1>1, CoverChange
<1> QED
  BY <1>1, <1>2, OneEdit, KeepAfter DEF KeepInv, Covered

\* Where nothing is to be removed, nothing needs cover.
LEMMA CoverNone == \A cs : CoversNews(<<>>, cs) /\ CoversOps(<<>>, <<>>, cs)
BY DEF CoversNews, CoversOps

\* A reload forgets all removals.
LEMMA KeepReload == KeepInv /\ Reload /\ Observe => KeepInv'
<1> SUFFICES ASSUME KeepInv, Reload, Observe PROVE KeepInv'
  OBVIOUS
<1>1. settingOps' = <<>> /\ toExtHost' = <<>>
  BY DEF Reload
<1> QED
  BY <1>1, CoverNone, OneReload, KeepAfter DEF KeepInv

\* There are none at first.
LEMMA KeepInit == Init => KeepInv
BY CoverNone, OneInit DEF Init, KeepInv, Covered

\* Every step keeps the cover.
LEMMA KeepNext == KeepInv /\ [Next]_vars => KeepInv'
<1> SUFFICES ASSUME KeepInv, [Next]_vars PROVE KeepInv'
  OBVIOUS
<1>1. CASE Next
  BY <1>1, KeepGetApiKey, KeepSetApiKey, KeepReceiveReply, KeepAccept,
     KeepSecretStep, KeepSettingStep, KeepReload, KeepEdit
     DEF Next, ExtensionNext, WindowNext
<1>2. CASE UNCHANGED vars
  <2>1. UNCHANGED <<secret, lost, secretOps, settingOps, toExtHost, calls>>
    BY <1>2 DEF vars
  <2>2. ReadInv'
    BY <1>2, ReadNext DEF KeepInv, OneInv
  <2>3. OneInv'
    BY <2>1, <2>2, OneAfter DEF KeepInv, OneInv, Found
  <2> QED
    BY <2>1, <2>3, KeepAfter DEF KeepInv, Covered
<1> QED
  BY <1>1, <1>2

\* With no command that clears the key, it is stored before a setting goes.
LEMMA KeepStep ==
    ASSUME Persistent, KeepInv, ExtensionNext \/ WindowNext, HasKey, ~Cleared
    PROVE  HasKey' \/ lost'
<1>1. \A c : ~Clears(c, calls)
  BY DEF Cleared, Clears
<1>2. ~\E d \in Commands : calls[d].at = "done" /\ calls[d].key = None
  BY DEF Cleared
<1>3. secret = None /\ ~lost => settingOps = <<>>
  <2> SUFFICES ASSUME secret = None, ~lost PROVE settingOps = <<>>
    OBVIOUS
  <2>1. CoversOps(settingOps, toExtHost, calls)
    BY <1>2 DEF KeepInv, Covered
  <2>2. settingOps \in Seq(Removal)
    BY DEF KeepInv, OneInv, ReadInv, TypesInv
  <2>3. settingOps # <<>> => 1 \in 1 .. Len(settingOps)
    BY <2>2
  <2> QED
    BY <1>1, <2>1, <2>3 DEF CoversOps, ClearedIn
<1>4. CASE UNCHANGED <<secret, settings>>
  BY <1>4 DEF HasKey
<1>5. CASE SecretStep
  <2> DEFINE op == Head(secretOps)
  <2>1. /\ settings' = settings
        /\ \/ secret' = secret \/ lost'
           \/ op.kind = "store" /\ secret' = op.key
    BY <1>5 DEF SecretStep
  <2>2. op.kind = "store" => op.key # None
    <3>1. /\ secretOps # <<>> /\ secretOps \in Seq(Request)
          /\ \A i \in 1 .. Len(secretOps) : Matches(secretOps[i], calls)
      BY <1>5 DEF SecretStep, KeepInv, OneInv, OneEach, ReadInv, TypesInv
    <3>2. Matches(op, calls) /\ op \in Request
      BY <3>1, MatchesTail, HeadIn
    <3> QED
      BY <1>1, <3>2 DEF Matches, Request, Invocations, Clears, KeepInv, OneInv,
                        Found
  <2> QED
    BY <2>1, <2>2 DEF HasKey
<1>6. CASE SettingStep
  <2>1. (secret # None \/ lost) /\ UNCHANGED <<secret, lost>>
    BY <1>3, <1>6 DEF SettingStep
  <2> QED
    BY <2>1 DEF HasKey
<1>7. CASE Reload
  BY <1>4, <1>7 DEF Reload
<1> QED
  BY <1>4, <1>5, <1>6, <1>7
     DEF ExtensionNext, WindowNext, GetApiKey, SetApiKey, ReceiveReply,
         AcceptConfigurationChanged

\* getApiKey and the command of extension.ts store the key before they remove
\* a setting, so that whatever write fails, whatever overlaps or is cut off by a
\* reload, the user's key is somewhere, unless the user clears it or the secret
\* storage deletes the secret because it cannot decrypt it; where the secret
\* storage survives reloads.
THEOREM TheKeyIsKept == ASSUME Persistent PROVE Spec => KeyKept
<1>1. KeepInv /\ [Next]_vars =>
          [(ExtensionNext \/ WindowNext) /\ HasKey /\ ~Cleared
             => HasKey' \/ lost']_vars
  BY KeepStep
<1> QED
  BY <1>1, KeepInit, KeepNext, PTL DEF Spec, KeyKept
=============================================================================
