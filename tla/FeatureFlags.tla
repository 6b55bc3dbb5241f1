---------------------------- MODULE FeatureFlags ----------------------------
(***************************************************************************)
(* One remotely controlled flag: lib/flags/remoteConfig.ts fetches the     *)
(* published override with the last-known-good cache as its fallback,      *)
(* FlagProvider.tsx shows the result of the last load that was asked for,  *)
(* evaluate.ts resolves it.  Loads overlap: a refresh cancels the load     *)
(* before it, which goes on and still writes the cache.                    *)
(***************************************************************************)
EXTENDS Integers

CONSTANTS
  RemotePayloads,   \* well-formed overrides: [value, percentage]
  EnvValues,        \* values of the build-time variable: "", "on", "off"
  DefaultValue,
  Subjects,         \* buckets a visitor may be in
  Loads,            \* fetches in flight
  FreshnessWindow, MaxClock

Unset == -1
Override == [value: {"on", "off", "unset"}, percentage: Int]
NoOverride == [value |-> "unset", percentage |-> Unset]
NoCache == [overrides |-> NoOverride, fetchedAt |-> Unset]

ASSUME PayloadsAssumption == RemotePayloads \subseteq Override /\ NoOverride \in RemotePayloads
ASSUME WindowAssumption == FreshnessWindow \in Nat /\ MaxClock \in Nat
ASSUME EnvAssumption ==
  Subjects \subseteq 0..99 /\ EnvValues \subseteq {"", "on", "off"} /\ DefaultValue \in BOOLEAN

VARIABLES
  storageWorks, env, subject,   \* the storage, the variable, the subject's bucket
  published,        \* what the endpoint answers
  cache,            \* the item in the storage
  clock,
  load,             \* [Loads -> [at, cache, now, reply]]
  current,          \* the load that is not cancelled
  overrides, flagSource, stale, flagStatus

flagView == <<overrides, flagSource, stale, flagStatus>>
flagVars == <<storageWorks, env, subject, published, cache, clock, load, current, flagView>>

NoLoad == [at |-> "idle", cache |-> NoCache, now |-> 0, reply |-> NoOverride]
\* readCache() and writeCache(): a storage that throws is an empty one.
ReadCache == IF storageWorks THEN cache ELSE NoCache
Started == [at |-> "asked", cache |-> ReadCache, now |-> clock, reply |-> NoOverride]

\* Percentages are whole here.
FlagInit ==
  /\ storageWorks \in BOOLEAN /\ env \in EnvValues /\ subject \in Subjects
  /\ published \in RemotePayloads
  /\ cache = NoCache /\ clock = 0
  /\ \E l \in Loads : current = l /\ load = [k \in Loads |-> IF k = l THEN Started ELSE NoLoad]
  /\ overrides = NoOverride /\ flagSource = "empty" /\ stale = FALSE /\ flagStatus = "loading"

Publish(o) ==
  /\ o # published
  /\ published' = o
  /\ UNCHANGED <<storageWorks, env, subject, cache, clock, load, current, flagView>>

ClockTicks ==
  /\ clock < MaxClock
  /\ clock' = clock + 1
  /\ UNCHANGED <<storageWorks, env, subject, published, cache, load, current, flagView>>

\* refresh(): the cleanup of the effect cancels the load before.
RefreshFlags(l) ==
  /\ load[l].at = "idle"
  /\ load' = [load EXCEPT ![l] = Started]
  /\ current' = l
  /\ flagStatus' = "loading"
  /\ UNCHANGED <<storageWorks, env, subject, published, cache, clock, overrides, flagSource, stale>>

\* The page is loaded again; without a storage the subject is drawn anew.
ReloadPage ==
  /\ subject' \in IF storageWorks THEN {subject} ELSE Subjects
  /\ \E l \in Loads : current' = l /\ load' = [k \in Loads |-> IF k = l THEN Started ELSE NoLoad]
  /\ overrides' = NoOverride /\ flagSource' = "empty" /\ stale' = FALSE /\ flagStatus' = "loading"
  /\ UNCHANGED <<storageWorks, env, published, cache, clock>>

\* The endpoint answers; 304 only when the etag sent is that of its payload.
EndpointAnswers(l) ==
  /\ load[l].at = "asked"
  /\ \/ load' = [load EXCEPT ![l].at = "ok", ![l].reply = published]
     \/ /\ load[l].cache # NoCache /\ load[l].cache.overrides = published
        /\ load' = [load EXCEPT ![l].at = "notModified"]
     \/ load' = [load EXCEPT ![l].at = "failed"]
  /\ UNCHANGED <<storageWorks, env, subject, published, cache, clock, current, flagView>>

IsAny(l) == l \in Loads
IsCurrent(l) == l = current

\* The then() of the effect: nothing when the load was cancelled.
ShowResult(l, result, source, isStale) ==
  IF IsCurrent(l)
    THEN overrides' = result /\ flagSource' = source /\ stale' = isStale /\ flagStatus' = "ready"
    ELSE UNCHANGED flagView

\* A usable payload; the cache is written whether or not it was cancelled.
LoadSucceeds(l) ==
  /\ load[l].at = "ok"
  /\ cache' = IF storageWorks THEN [overrides |-> load[l].reply, fetchedAt |-> load[l].now] ELSE cache
  /\ ShowResult(l, load[l].reply, "remote", FALSE)
  /\ load' = [load EXCEPT ![l] = NoLoad]
  /\ UNCHANGED <<storageWorks, env, subject, published, clock, current>>

\* fromCache(): 304, another status, a body that is no flag config, an
\* error or the timeout.
FallsBack(l) ==
  /\ load[l].at # "idle"
  /\ LET known == load[l].cache
     IN  ShowResult(l, known.overrides, IF known = NoCache THEN "empty" ELSE "cache",
                    known # NoCache /\ load[l].now - known.fetchedAt > FreshnessWindow)
  /\ load' = [load EXCEPT ![l] = NoLoad]
  /\ UNCHANGED <<storageWorks, env, subject, published, cache, clock, current>>

FlagNext ==
  \/ \E o \in RemotePayloads : Publish(o)
  \/ ClockTicks \/ ReloadPage
  \/ \E l \in Loads : RefreshFlags(l) \/ EndpointAnswers(l) \/ LoadSucceeds(l) \/ FallsBack(l)

\* resolveFlag(): remote value, environment, default; then the percentage
\* narrows what is on.
Narrowed(value, percentage) ==
  IF percentage = Unset \/ ~value THEN value
  ELSE subject < (IF percentage > 100 THEN 100 ELSE percentage)
EnabledWith(o) ==
  Narrowed(IF o.value # "unset" THEN o.value = "on"
           ELSE IF env # "" THEN env = "on" ELSE DefaultValue,
           o.percentage)

-----------------------------------------------------------------------------
(***************************************************************************)
(* Properties.                                                             *)
(***************************************************************************)

\* The variables have their types.
FlagTypeOK ==
  /\ published \in RemotePayloads /\ overrides \in RemotePayloads
  /\ cache \in [overrides: RemotePayloads, fetchedAt: {Unset} \union 0..clock]
  /\ current \in Loads
  /\ flagSource \in {"remote", "cache", "empty"} /\ stale \in BOOLEAN
  /\ flagStatus \in {"loading", "ready"}
  /\ flagStatus = "loading" <=> load[current].at # "idle"
  /\ flagSource = "empty" => overrides = NoOverride /\ ~stale

\* A flag switched off remotely is off for everybody, whatever percentage
\* was left with it, environment was built in or bucket the visitor is in:
\* "sending { value: false } turns the flag off for everyone"
\* (lib/flags/types.ts:23), and 0 percent is as good.
KillSwitchHolds ==
  overrides.value = "off" \/ overrides.percentage = 0 => ~EnabledWith(overrides)

\* While the page is open, and its storage works, no failure and no late
\* answer of a cancelled load takes the flags back to the defaults once a
\* payload was known.
NeverBackToEmpty ==
  [][storageWorks /\ flagSource # "empty" /\ ~ReloadPage => flagSource' # "empty"]_flagVars
=============================================================================
