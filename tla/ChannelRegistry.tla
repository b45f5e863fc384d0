---------------------------- MODULE ChannelRegistry ----------------------------
(***************************************************************************)
(* The channel registry: app/services/channels/registry.py with the routes *)
(* of app/routers/watch.py that call it.                                   *)
(*                                                                         *)
(* A call awaits its provider, so calls overlap and a circuit may open or  *)
(* close under a call that is under way.  Whether a cache answers instead  *)
(* (ResponseCache, _stream_cache) is left open.  _failures is kept up to   *)
(* the threshold, which is all that is_healthy compares it with.           *)
(***************************************************************************)
EXTENDS Integers, FiniteSets

CONSTANTS
  Channels,      \* ids of the registered, enabled providers
  Calls,         \* identities of the detail and stream calls at one time
  NoCall,        \* no call
  Threshold,     \* FAILURE_THRESHOLD
  Cooldown,      \* COOLDOWN_SECONDS, in ticks
  Deadline,      \* SEARCH_AGGREGATE_TIMEOUT_SECONDS, in ticks
  Alternatives   \* the keywords a search tries per provider: at most MAX_ALTERNATIVES

ASSUME RegistryConstants ==
  /\ Threshold \in Nat \ {0} /\ Cooldown \in Nat
  /\ Deadline \in Nat \ {0} /\ Alternatives \in Nat \ {0}

ASSUME NoCallIsNoCall == NoCall \notin Channels

VARIABLES
  failures,    \* _failures, 0 for no entry
  coolingFor,  \* _cooldown_until: ticks until then, 0 for past
  calling,     \* detail and streams awaiting a provider: [Calls -> Channels or NoCall]
  search,      \* the aggregated search: [running, left]
  run,         \* _run per channel: [tried, succeeded, state]
  answered     \* channels whose hits the last finished search returned

registryVars == <<failures, coolingFor, calling, search, run, answered>>
searchVars == <<search, run, answered>>
healthVars == <<failures, coolingFor>>

-----------------------------------------------------------------------------
(***************************************************************************)
(* Health.                                                                 *)
(***************************************************************************)

\* A bug the checks must notice: only a success closes an open circuit.
HealthyUntilProved(c) == failures[c] < Threshold

IsHealthy(c) == failures[c] < Threshold \/ coolingFor[c] = 0

MarkFailure(c) ==
  /\ failures' = [failures EXCEPT ![c] = IF @ < Threshold THEN @ + 1 ELSE @]
  /\ coolingFor' = [coolingFor EXCEPT ![c] = IF failures'[c] >= Threshold THEN Cooldown ELSE @]

MarkSuccess(c) ==
  /\ failures' = [failures EXCEPT ![c] = 0]
  /\ coolingFor' = [coolingFor EXCEPT ![c] = 0]

-----------------------------------------------------------------------------
(***************************************************************************)
(* detail and streams.                                                     *)
(***************************************************************************)

\* detail answered by the response cache, a stale entry included, counts as a
\* success of the provider.  (_stream_cache serves and counts nothing.)
DetailFromCache(c) ==
  /\ IsHealthy(c)
  /\ MarkSuccess(c)
  /\ UNCHANGED <<calling, searchVars>>

\* _require_healthy, and the call awaits the provider.
Begin(i, c) ==
  /\ IsHealthy(c) /\ calling[i] = NoCall
  /\ calling' = [calling EXCEPT ![i] = c]
  /\ UNCHANGED <<searchVars, healthVars>>

CallSucceeds(i) ==
  /\ calling[i] # NoCall
  /\ MarkSuccess(calling[i])
  /\ calling' = [calling EXCEPT ![i] = NoCall]
  /\ UNCHANGED searchVars

\* ChannelError, of the upstream or of a malformed reference: counted, and
\* the route answers an empty detail or list.
CallFails(i) ==
  /\ calling[i] # NoCall
  /\ MarkFailure(calling[i])
  /\ calling' = [calling EXCEPT ![i] = NoCall]
  /\ UNCHANGED searchVars

\* Any other exception of a provider passes by the counters: 500.
CallCrashes(i) ==
  /\ calling[i] # NoCall
  /\ calling' = [calling EXCEPT ![i] = NoCall]
  /\ UNCHANGED <<searchVars, healthVars>>

-----------------------------------------------------------------------------
(***************************************************************************)
(* The aggregated search.  (One at a time here: searches share the         *)
(* counters only, which calls exercise as well.)                           *)
(***************************************************************************)

Resting == [tried |-> 0, succeeded |-> FALSE, state |-> "idle"]

\* search: a task per provider; _run returns at once for an unhealthy one.
BeginSearch ==
  /\ ~search.running
  /\ search' = [running |-> TRUE, left |-> Deadline]
  /\ run' = [c \in Channels |->
       [Resting EXCEPT !.state = IF IsHealthy(c) THEN "running" ELSE "done"]]
  /\ answered' = {}
  /\ UNCHANGED <<healthVars, calling>>

\* One alternative of _run, answered by the cache or by the provider, or failed
\* by whatever exception: the next one is tried.
TryAlternative(c) ==
  /\ search.running /\ run[c].state = "running" /\ run[c].tried < Alternatives
  /\ \E answers \in BOOLEAN :
       run' = [run EXCEPT ![c].tried = @ + 1, ![c].succeeded = @ \/ answers]
  /\ UNCHANGED <<healthVars, calling, search, answered>>

\* _run ends and counts once for all its alternatives.
RunEnds(c) ==
  /\ search.running /\ run[c].state = "running" /\ run[c].tried = Alternatives
  /\ run' = [run EXCEPT ![c].state = "done"]
  /\ IF run[c].succeeded THEN MarkSuccess(c) ELSE MarkFailure(c)
  /\ UNCHANGED <<calling, search, answered>>

AllDone == \A c \in Channels : run[c].state = "done"

\* A bug the checks must notice: the search waits for every provider.
EndSearchWhenAllDone ==
  /\ search.running /\ AllDone
  /\ answered' = {c \in Channels : run[c].succeeded}
  /\ search' = [search EXCEPT !.running = FALSE]
  /\ run' = [c \in Channels |-> Resting]
  /\ UNCHANGED <<healthVars, calling>>

\* asyncio.wait returns: what is pending is cancelled and counts neither way;
\* the hits it had found so far are in the results.
EndSearch ==
  /\ search.running /\ (AllDone \/ search.left = 0)
  /\ answered' = {c \in Channels : run[c].succeeded}
  /\ search' = [search EXCEPT !.running = FALSE]
  /\ run' = [c \in Channels |-> Resting]
  /\ UNCHANGED <<healthVars, calling>>

-----------------------------------------------------------------------------
RegistryTick ==
  /\ search.running => search.left > 0
  /\ coolingFor' = [c \in Channels |-> IF coolingFor[c] > 0 THEN coolingFor[c] - 1 ELSE 0]
  /\ search' = [search EXCEPT !.left = IF search.running THEN @ - 1 ELSE @]
  /\ UNCHANGED <<failures, calling, run, answered>>

RegistryInit ==
  /\ failures = [c \in Channels |-> 0] /\ coolingFor = [c \in Channels |-> 0]
  /\ calling = [i \in Calls |-> NoCall]
  /\ search = [running |-> FALSE, left |-> 0]
  /\ run = [c \in Channels |-> Resting]
  /\ answered = {}

RegistryNext ==
  \/ \E c \in Channels : DetailFromCache(c) \/ TryAlternative(c) \/ RunEnds(c)
  \/ \E i \in Calls, c \in Channels : Begin(i, c)
  \/ \E i \in Calls : CallSucceeds(i) \/ CallFails(i) \/ CallCrashes(i)
  \/ BeginSearch \/ EndSearch \/ RegistryTick

\* Time passes, and asyncio.wait returns when it may.
RegistrySpec ==
  /\ RegistryInit /\ [][RegistryNext]_registryVars
  /\ WF_registryVars(RegistryTick) /\ WF_registryVars(EndSearch)

-----------------------------------------------------------------------------
(***************************************************************************)
(* Properties.                                                             *)
(***************************************************************************)

RegistryTypeOK ==
  /\ failures \in [Channels -> 0..Threshold]
  /\ coolingFor \in [Channels -> 0..Cooldown]
  /\ calling \in [Calls -> Channels \cup {NoCall}]
  /\ search \in [running : BOOLEAN, left : 0..Deadline]
  /\ run \in [Channels -> [tried : 0..Alternatives, succeeded : BOOLEAN,
                           state : {"idle", "running", "done"}]]
  /\ answered \subseteq Channels

\* No channel is lost for good, whatever fails, late or again and again: its
\* circuit closes or cools down, and calls reach it again.
ChannelsComeBack == \A c \in Channels : []<>IsHealthy(c)

\* A search is answered although a provider hangs: the deadline cancels it.
SearchesAreAnswered == search.running ~> ~search.running

================================================================================
