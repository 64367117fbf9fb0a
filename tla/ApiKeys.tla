------------------------------ MODULE ApiKeys ------------------------------
(***************************************************************************)
(* Where the Moonshot API key lives, and how the kronos-moonshot extension *)
(* moves it (extensions/kronos-moonshot/src/extension.ts).                 *)
(*                                                                         *)
(* The extension runs in the extension host.  The secret storage and the   *)
(* settings live in the window, which the built-in @kronos agent reads     *)
(* directly.  Requests for secrets are served one after the other, removals *)
(* of settings likewise; replies and changes of settings reach the         *)
(* extension host on one FIFO stream.                                      *)
(***************************************************************************)
EXTENDS Integers, Sequences, FiniteSets

CONSTANTS
    Calls,       \* invocations of getApiKey
    Commands,    \* invocations of the Set Moonshot API Key command
    Keys,
    None,
    Failed,      \* the outcome of a call whose promise is rejected
    EnvKeys,     \* what the K2_API_KEY environment variable may be, or None
    Persistent,  \* the secret storage survives a reload of the window
    MaxEdits     \* bound: edits of the settings by the user

ASSUME ConstantsAssumption ==
    /\ Calls \cap Commands = {}
    /\ None \notin Keys /\ Failed \notin Keys \cup {None}
    /\ EnvKeys \subseteq Keys \cup {None}
    /\ Persistent \in BOOLEAN
    /\ MaxEdits \in Nat

VARIABLES
    \* the window
    secret,      \* the secret kronos.moonshot.apiKey
    settings,    \* the user's settings
    secretOps,   \* requests for secrets, MainThreadSecretState._sequencer
    settingOps,  \* removals of settings
    toExtHost,   \* messages to the extension host
    \* the extension host
    seen,        \* its copy of settings
    envKey,      \* process.env.K2_API_KEY
    calls,       \* what each invocation awaits, and what it will return
    \* history
    effective,   \* the keys in effect since a call began to look for one
    saved,       \* the key last reported as saved
    lost,        \* an undecryptable secret was deleted, and none stored since
    edits        \* bounds the user's edits

vars == <<secret, settings, secretOps, settingOps, toExtHost, seen, envKey,
          calls, effective, saved, lost, edits>>

\* kronos.moonshot.apiKey and kronosCode.k2ApiKey
Settings == {"apiKey", "k2ApiKey"}
Maybe == Keys \cup {None}
Invocations == Calls \cup Commands

\* Where a call finds a key when the secret storage has none.
InspectLegacyFirst(s) ==
    IF s["k2ApiKey"] # None THEN [from |-> "k2ApiKey", key |-> s["k2ApiKey"]]
    ELSE IF s["apiKey"] # None THEN [from |-> "apiKey", key |-> s["apiKey"]]
    ELSE [from |-> "env", key |-> envKey]
Inspect(s) ==
    IF s["apiKey"] # None THEN [from |-> "apiKey", key |-> s["apiKey"]]
    ELSE IF s["k2ApiKey"] # None
    THEN [from |-> "k2ApiKey", key |-> s["k2ApiKey"]]
    ELSE [from |-> "env", key |-> envKey]

At(place, key) == [at |-> place, from |-> "env", key |-> key]
Under(call) == call.at \notin {"new", "done"}

\* The key the user has configured, all places considered.
Effective == CHOOSE k \in Maybe :
    IF secret # None THEN k = secret
    ELSE IF settings["apiKey"] # None THEN k = settings["apiKey"]
    ELSE IF settings["k2ApiKey"] # None THEN k = settings["k2ApiKey"]
    ELSE k = envKey

\* What every step adds to the history of the calls that look for a key.  The
\* environment stays as it was when the extension host started.
Observe ==
    /\ UNCHANGED envKey
    /\ effective' = [c \in Calls |->
          IF calls'[c].at = "get" THEN effective[c] \cup {Effective'} ELSE {}]

-----------------------------------------------------------------------------
(* The extension                                                           *)

Get(c) == [call |-> c, kind |-> "get", key |-> None]
Store(c, k) == [call |-> c, kind |-> "store", key |-> k]
Remove(c, s) == [call |-> c, setting |-> s]

\* getApiKey, up to its first await.
GetApiKey(c) ==
    /\ calls[c].at = "new"
    /\ calls' = [calls EXCEPT ![c] = At("get", None)]
    /\ secretOps' = Append(secretOps, Get(c))
    /\ UNCHANGED <<secret, settings, settingOps, toExtHost, seen, saved, lost>>

\* The command, once the user has entered a key, or cleared it by entering
\* an empty one, which a getApiKey takes for no key.
SetApiKey(c, k) ==
    /\ calls[c].at = "new"
    /\ calls' = [calls EXCEPT ![c] =
                    [at |-> "store", from |-> "user", key |-> k]]
    /\ secretOps' = Append(secretOps, Store(c, k))
    /\ saved' = None
    /\ UNCHANGED <<secret, settings, settingOps, toExtHost, seen, lost>>

Reply == Head(toExtHost)
Returns(c, k) == calls' = [calls EXCEPT ![c] = At("done", k)]
Notified(c, k) == saved' = IF c \in Commands THEN k ELSE saved

\* secrets.get resolves: return what it found, or look in the settings and
\* in the environment, and store what is there.
AfterGet(c) ==
    IF Reply.key # None
    THEN /\ Returns(c, Reply.key)
         /\ UNCHANGED secretOps
    ELSE LET found == Inspect(seen)
         IN IF found.key = None
            THEN /\ Returns(c, None)
                 /\ UNCHANGED secretOps
            ELSE /\ calls' = [calls EXCEPT ![c] =
                        [at |-> "store", from |-> found.from,
                         key |-> found.key]]
                 /\ secretOps' = Append(secretOps, Store(c, found.key))

\* The setting to remove once the key is stored: the one it came from.
ToRemove(c) ==
    CASE calls[c].from = "user" /\ seen["apiKey"] # None -> {"apiKey"}
      [] calls[c].from \in Settings -> {calls[c].from}
      [] OTHER -> {}

\* secrets.store resolves: remove the setting, or be done.
AfterStore(c) ==
    IF ToRemove(c) = {}
    THEN /\ Returns(c, calls[c].key)
         /\ Notified(c, calls[c].key)
         /\ UNCHANGED settingOps
    ELSE /\ calls' = [calls EXCEPT ![c].at = "remove"]
         /\ \E s \in ToRemove(c) :
               settingOps' = Append(settingOps, Remove(c, s))
         /\ UNCHANGED saved

\* A call whose store is rejected is rejected; the setting stays.
AfterRejectionIgnored(c) == AfterStore(c)
AfterRejection(c) ==
    /\ Returns(c, Failed)
    /\ UNCHANGED <<settingOps, saved>>

ReceiveReply ==
    /\ toExtHost # <<>>
    /\ Reply.kind = "reply"
    /\ LET c == Reply.call
       IN \/ /\ calls[c].at = "get" /\ AfterGet(c)
             /\ UNCHANGED <<settingOps, saved>>
          \/ /\ calls[c].at # "get" /\ ~Reply.ok /\ AfterRejection(c)
             /\ UNCHANGED secretOps
          \/ /\ calls[c].at = "store" /\ Reply.ok /\ AfterStore(c)
             /\ UNCHANGED secretOps
          \/ /\ calls[c].at = "remove" /\ Reply.ok
             /\ Returns(c, calls[c].key)
             /\ Notified(c, calls[c].key)
             /\ UNCHANGED <<secretOps, settingOps>>
    /\ toExtHost' = Tail(toExtHost)
    /\ UNCHANGED <<secret, settings, seen, lost>>

\* $acceptConfigurationChanged
AcceptConfigurationChanged ==
    /\ toExtHost # <<>>
    /\ Reply.kind = "settings"
    /\ seen' = Reply.settings
    /\ toExtHost' = Tail(toExtHost)
    /\ UNCHANGED <<secret, settings, secretOps, settingOps, calls, saved, lost>>

-----------------------------------------------------------------------------
(* The window                                                              *)

Answer(c, ok, k) == [kind |-> "reply", call |-> c, ok |-> ok, key |-> k]
Changed(s) == [kind |-> "settings", settings |-> s]

\* The next request for a secret.  What is kept in memory is not encrypted.
\* A secret that cannot be decrypted is deleted, and a store fails when
\* encryption does.
SecretStep ==
    /\ secretOps # <<>>
    /\ secretOps' = Tail(secretOps)
    /\ LET op == Head(secretOps)
       IN \/ /\ op.kind = "get"
             /\ toExtHost' = Append(toExtHost, Answer(op.call, TRUE, secret))
             /\ UNCHANGED <<secret, lost>>
          \/ /\ op.kind = "get" /\ Persistent /\ secret # None
             /\ secret' = None /\ lost' = TRUE
             /\ toExtHost' = Append(toExtHost, Answer(op.call, TRUE, None))
          \/ /\ op.kind = "store"
             /\ secret' = op.key /\ lost' = FALSE
             /\ toExtHost' = Append(toExtHost, Answer(op.call, TRUE, None))
          \/ /\ op.kind = "store" /\ Persistent
             /\ toExtHost' = Append(toExtHost, Answer(op.call, FALSE, None))
             /\ UNCHANGED <<secret, lost>>
    /\ UNCHANGED <<settings, settingOps, seen, calls, saved>>

\* What the extension host is told of a removal: the change, if there is
\* one, and that it is done.
RemovalNewsOnChange(op) ==
    IF settings[op.setting] = None THEN <<>>
    ELSE <<Changed([settings EXCEPT ![op.setting] = None]),
           Answer(op.call, TRUE, None)>>
RemovalNews(op) ==
    (IF settings[op.setting] = None THEN <<>>
     ELSE <<Changed([settings EXCEPT ![op.setting] = None])>>)
    \o <<Answer(op.call, TRUE, None)>>

\* The next removal, which fails when settings.json cannot be written.
SettingStep ==
    /\ settingOps # <<>>
    /\ settingOps' = Tail(settingOps)
    /\ LET op == Head(settingOps)
       IN \/ /\ settings' = [settings EXCEPT ![op.setting] = None]
             /\ toExtHost' = toExtHost \o RemovalNews(op)
          \/ /\ toExtHost' = Append(toExtHost, Answer(op.call, FALSE, None))
             /\ UNCHANGED settings
    /\ UNCHANGED <<secret, secretOps, seen, calls, saved, lost>>

\* The user edits a setting.
Edit(s, k) ==
    /\ settings[s] # k
    /\ edits < MaxEdits
    /\ edits' = edits + 1
    /\ settings' = [settings EXCEPT ![s] = k]
    /\ toExtHost' = Append(toExtHost, Changed(settings'))
    /\ UNCHANGED <<secret, secretOps, settingOps, seen, calls, saved, lost>>

\* The window is reloaded: what was under way is gone, and so are secrets
\* that were kept in memory for want of a keyring.
Reload ==
    /\ secretOps' = <<>>
    /\ settingOps' = <<>>
    /\ toExtHost' = <<>>
    /\ seen' = settings
    /\ calls' = [c \in Invocations |->
                   IF Under(calls[c]) THEN At("done", Failed) ELSE calls[c]]
    /\ secret' = IF Persistent THEN secret ELSE None
    /\ UNCHANGED <<settings, saved, lost>>

-----------------------------------------------------------------------------
Init ==
    /\ secret \in Maybe
    /\ settings \in [Settings -> Maybe]
    /\ secretOps = <<>>
    /\ settingOps = <<>>
    /\ toExtHost = <<>>
    /\ seen = settings
    /\ envKey \in EnvKeys
    /\ calls = [c \in Invocations |-> At("new", None)]
    /\ effective = [c \in Calls |-> {}]
    /\ saved = None /\ lost = FALSE
    /\ edits = 0

ExtensionNext ==
    /\ UNCHANGED edits
    /\ \/ \E c \in Calls : GetApiKey(c)
       \/ \E c \in Commands, k \in Maybe : SetApiKey(c, k)
       \/ ReceiveReply
       \/ AcceptConfigurationChanged

WindowNext ==
    /\ UNCHANGED edits
    /\ SecretStep \/ SettingStep \/ Reload

Next ==
    /\ \/ ExtensionNext
       \/ WindowNext
       \/ \E s \in Settings, k \in Maybe : Edit(s, k)
    /\ Observe

Spec == Init /\ [][Next]_vars

\* Both processes go on; nothing makes the user act or the window reload.
LiveSpec ==
    /\ Spec
    /\ WF_vars(ReceiveReply /\ UNCHANGED edits /\ Observe)
    /\ WF_vars(AcceptConfigurationChanged /\ UNCHANGED edits /\ Observe)
    /\ WF_vars(SecretStep /\ UNCHANGED edits /\ Observe)
    /\ WF_vars(SettingStep /\ UNCHANGED edits /\ Observe)

-----------------------------------------------------------------------------
(* Properties                                                              *)

HasKey == secret # None \/ \E s \in Settings : settings[s] # None

\* The user has entered an empty key.
Cleared == \E c \in Commands : calls[c].at # "new" /\ calls[c].key = None

\* Moving the key around never loses it: as long as the user does not clear
\* it, there is one in the secret storage or in the settings, whatever write
\* fails and whenever the window is reloaded.  (Except that the window deletes
\* a secret that it cannot decrypt.  That takes the key when it is the only
\* copy; and until a key is stored again, a removal that follows an earlier
\* store takes the copy in a setting.)
KeyKept ==
    [][(ExtensionNext \/ WindowNext) /\ HasKey /\ ~Cleared
         => HasKey' \/ lost']_vars

\* getApiKey looks for a key as if in one step, although other calls, the
\* command and the user move keys from place to place meanwhile: what it
\* finds, or misses, was in effect at some moment while it looked.
ReadsAreAtomic ==
    [][\A c \in Calls :
         calls[c].at = "get" /\ calls'[c].at # "get"
         => calls'[c].key \in effective[c] \cup {Failed}]_vars

\* Every call returns, or is rejected.
EveryCallEnds ==
    \A c \in Invocations : Under(calls[c]) ~> calls[c].at = "done"

\* The key the user was told is saved is the one in the secret storage, as long
\* as it can be decrypted.
SavedKeyStays == saved # None /\ ~lost => secret = saved

=============================================================================
