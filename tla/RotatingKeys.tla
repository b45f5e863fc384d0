------------------------------ MODULE RotatingKeys ------------------------------
(***************************************************************************)
(* Streams of AllAnime: get_streams of app/services/channels/allanime.py   *)
(* with the key it derives by running Node, caches for a while, and        *)
(* derives anew when the site has rotated it.                              *)
(*                                                                         *)
(* The key is the number of the site's epoch.  Deriving it and asking the  *)
(* API are awaited, so calls overlap, the site rotates in between, and a   *)
(* slow derivation may overwrite the cache with an older key.              *)
(***************************************************************************)
EXTENDS Integers

CONSTANTS
  StreamCalls,   \* get_streams calls at one time
  NoSiteKey,     \* nothing is cached
  KeyTtl,        \* _KEYGEN_TTL, in ticks
  MaxRotations   \* bound: rotations of the site's key

ASSUME KeyBounds == KeyTtl \in Nat /\ MaxRotations \in Nat

CachedKeys == [epoch : 0..MaxRotations, left : 0..KeyTtl]

ASSUME NoSiteKeyIsNone == NoSiteKey \notin CachedKeys

VARIABLES
  epoch,       \* the site's key
  keyCache,    \* _keygen_cache
  call,        \* each call: [at, attempt, key]
  rotated,     \* history: calls during whose last attempt the site rotated
  upset        \* history: calls in which the site or Node failed otherwise

keyVars == <<epoch, keyCache, call, rotated, upset>>

IdleCall == [at |-> "idle", attempt |-> 0, key |-> 0]
KeyFresh == keyCache # NoSiteKey /\ keyCache.left > 0

-----------------------------------------------------------------------------
\* A bug the checks must notice: the retry takes the cached key as well.
GetKeysCached(v, attempt) ==
  call' = [call EXCEPT ![v] =
    IF KeyFresh THEN [at |-> "asking", attempt |-> attempt, key |-> keyCache.epoch]
    ELSE [at |-> "deriving", attempt |-> attempt, key |-> epoch]]

\* _get_keys: the cached key unless it is old, or this is the second attempt.
GetKeys(v, attempt) ==
  call' = [call EXCEPT ![v] =
    IF KeyFresh /\ attempt = 0 THEN [at |-> "asking", attempt |-> attempt, key |-> keyCache.epoch]
    ELSE [at |-> "deriving", attempt |-> attempt, key |-> epoch]]

\* get_streams with a well-formed reference: the first attempt.
Play(v) ==
  /\ call[v].at = "idle"
  /\ GetKeys(v, 0)
  /\ rotated' = rotated \ {v} /\ upset' = upset \ {v}
  /\ UNCHANGED <<epoch, keyCache>>

\* _run_keygen is done: the key of the moment the site was read.
Derived(v) ==
  /\ call[v].at = "deriving"
  /\ keyCache' = [epoch |-> call[v].key, left |-> KeyTtl]
  /\ call' = [call EXCEPT ![v].at = "asking"]
  /\ UNCHANGED <<epoch, rotated, upset>>

\* An attempt fails with a retryable ChannelError: once more, or the error.
Again(v) ==
  IF call[v].attempt = 0
  THEN GetKeys(v, 1) /\ rotated' = rotated \ {v}
  ELSE call' = [call EXCEPT ![v].at = "failed"] /\ UNCHANGED rotated

\* Node fails or takes too long, or the API cannot be reached or answers no
\* sources.
AttemptUpset(v) ==
  /\ call[v].at \in {"deriving", "asking"}
  /\ upset' = upset \cup {v}
  /\ Again(v)
  /\ UNCHANGED <<epoch, keyCache>>

\* There is no Node script, or the API's error is not about the key: not tried
\* again.
FailsForGood(v) ==
  /\ call[v].at \in {"deriving", "asking"}
  /\ upset' = upset \cup {v}
  /\ call' = [call EXCEPT ![v].at = "failed"]
  /\ UNCHANGED <<epoch, keyCache, rotated>>

\* The API knows the key: the sources are decrypted with it.
Answers(v) ==
  /\ call[v].at = "asking" /\ call[v].key = epoch
  /\ call' = [call EXCEPT ![v].at = "played"]
  /\ UNCHANGED <<epoch, keyCache, rotated, upset>>

\* It does not: its error names the key.
Rejects(v) ==
  /\ call[v].at = "asking" /\ call[v].key # epoch
  /\ Again(v)
  /\ UNCHANGED <<epoch, keyCache, upset>>

\* Or it lets the old key pass and seals its answer with the new one: the
\* cipher's InvalidTag is no ChannelError, so that this first failure is not
\* tried again, whatever the docstring of _fetch_sources says.
Unreadable(v) ==
  /\ call[v].at = "asking" /\ call[v].key # epoch
  /\ call' = [call EXCEPT ![v].at = "crashed"]
  /\ UNCHANGED <<epoch, keyCache, rotated, upset>>

Returns(v) ==
  /\ call[v].at \in {"played", "failed", "crashed"}
  /\ call' = [call EXCEPT ![v] = IdleCall]
  /\ UNCHANGED <<epoch, keyCache, rotated, upset>>

-----------------------------------------------------------------------------
Rotate ==
  /\ epoch < MaxRotations
  /\ epoch' = epoch + 1
  /\ rotated' = {v \in StreamCalls : v \in rotated \/ call[v].at \in {"deriving", "asking"}}
  /\ UNCHANGED <<keyCache, call, upset>>

KeyTick ==
  /\ KeyFresh
  /\ keyCache' = [keyCache EXCEPT !.left = @ - 1]
  /\ UNCHANGED <<epoch, call, rotated, upset>>

KeyInit ==
  /\ epoch = 0 /\ keyCache = NoSiteKey
  /\ call = [v \in StreamCalls |-> IdleCall]
  /\ rotated = {} /\ upset = {}

KeyNext ==
  \/ \E v \in StreamCalls :
       \/ Play(v) \/ Derived(v) \/ AttemptUpset(v) \/ FailsForGood(v)
       \/ Answers(v) \/ Rejects(v) \/ Unreadable(v) \/ Returns(v)
  \/ Rotate \/ KeyTick

KeySpec == KeyInit /\ [][KeyNext]_keyVars

-----------------------------------------------------------------------------
(***************************************************************************)
(* Properties.                                                             *)
(***************************************************************************)

KeyTypeOK ==
  /\ epoch \in 0..MaxRotations
  /\ keyCache \in CachedKeys \cup {NoSiteKey}
  /\ call \in [StreamCalls ->
                [at : {"idle", "deriving", "asking", "played", "failed", "crashed"},
                 attempt : 0..1, key : 0..MaxRotations]]
  /\ rotated \subseteq StreamCalls /\ upset \subseteq StreamCalls

\* "Retries once with a fresh key after the first failure: the per-epoch key
\* can rotate server-side between our cache window and the API call"
\* (allanime.py, lines 324 and 325): a rejected key costs no viewer the stream,
\* whichever call filled the cache with it, unless the site rotates again
\* while the fresh one is used.  (An answer that cannot be read with an old key
\* does cost it, at once: the docstring leaves this out.)
RotationsAreSurvived ==
  \A v \in StreamCalls :
    /\ call[v].at = "failed" => v \in rotated \/ v \in upset
    /\ call[v].at = "crashed" => call[v].key < epoch

================================================================================
