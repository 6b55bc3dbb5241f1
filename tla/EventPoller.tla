----------------------------- MODULE EventPoller -----------------------------
(***************************************************************************)
(* The Soroban event poller of lib/soroban/events.ts: one poller object,   *)
(* from its creation by SorobanProvider to its stop().                     *)
(*                                                                         *)
(* The poller drives itself: poll() awaits the RPC server and is followed  *)
(* by scheduleNext(), whose timer calls poll() again. Such a cycle is      *)
(* called a chain here. The code has one variable, pollTimer, for the      *)
(* timer of the chain it believes to be the only one; a tab that becomes   *)
(* visible while no timer is known starts another.                         *)
(*                                                                         *)
(* The server's ledger is external. Events are numbered in ledger order,   *)
(* an event's number stands for its id, and 0 for the null cursor.         *)
(***************************************************************************)
EXTENDS Naturals

CONSTANTS
  Chains,       \* bound: polling cycles that exist at once
  MaxEvents,    \* bound: events the contract ever emits
  PageSize,     \* `limit` of getEvents
  Recognised,   \* the events normalizeEvent() knows; it drops the others
  None          \* null

ASSUME PollerAssumption ==
  /\ MaxEvents \in Nat
  /\ PageSize \in Nat \ {0}
  /\ Recognised \subseteq 1..MaxEvents
  /\ None \notin Chains \cup Nat

VARIABLES
  emitted,    \* number of events in the closed ledgers (external)
  older,      \* number of those that are older than the latest ledger (external)
  life,       \* "created", "running" (the variable running is true) or "stopped"
  visible,    \* document.visibilityState
  cursor,     \* the id of the last event received, 0 for null
  pollTimer,  \* the chain whose timer pollTimer holds, fired or not, or None
  phase,      \* where each chain is
  after,      \* the events a chain's request asks for come after this one
  upto,       \* the last event of the answer a chain is about to receive
  connected,  \* health.connected
  told,       \* the value of connected the listeners were last told
  \* history, read only by the properties:
  delivered,  \* how many times each event was given to the listeners, 2 for more
  origin,     \* the event before the first one ever received, None before that
  overlap,    \* two polls have been in flight at once
  outcome     \* how the last poll to end has ended

server  == <<emitted, older>>
health  == <<connected, told, outcome>>
history == <<delivered, origin, overlap>>
vars == <<server, life, visible, cursor, pollTimer, phase, after, upto, health, history>>

InFlight == {"latest", "events", "answered"}
Phase    == {"off", "timer"} \cup InFlight

Least(a, b) == IF a < b THEN a ELSE b

-----------------------------------------------------------------------------
Init ==
  /\ \E n \in 0..MaxEvents : emitted = n /\ older \in 0..n
  /\ life = "created"
  /\ visible \in BOOLEAN
  /\ cursor \in 0..emitted            \* getStoredCursor()
  /\ pollTimer = None
  /\ phase = [c \in Chains |-> "off"]
  /\ after = [c \in Chains |-> 0]
  /\ upto = [c \in Chains |-> 0]
  /\ connected = FALSE
  /\ told = FALSE
  /\ delivered = [e \in 1..MaxEvents |-> 0]
  /\ origin = IF cursor = 0 THEN None ELSE cursor
  /\ overlap = FALSE
  /\ outcome = "none"

Running == life = "running"

(* A ledger closes with some events of the contract (external). *)
CloseLedger ==
  /\ \E n \in 0..(MaxEvents - emitted) : emitted' = emitted + n
  /\ older' = emitted
  /\ UNCHANGED <<life, visible, cursor, pollTimer, phase, after, upto, health, history>>

(* Mutant: a poll does not reset health. *)
BeginPollKeepsHealth(c) ==
  /\ phase' = [phase EXCEPT ![c] = IF cursor = 0 THEN "latest" ELSE "events"]
  /\ after' = [after EXCEPT ![c] = cursor]
  /\ upto' = [upto EXCEPT ![c] = 0]
  /\ overlap' = (overlap \/ \E d \in Chains : phase[d] \in InFlight)
  /\ UNCHANGED connected

(* poll() up to its first await: health is reset before anything is known, *)
(* and the request is built from the cursor, or needs the latest ledger.   *)
BeginPoll(c) ==
  /\ connected' = TRUE
  /\ phase' = [phase EXCEPT ![c] = IF cursor = 0 THEN "latest" ELSE "events"]
  /\ after' = [after EXCEPT ![c] = cursor]
  /\ upto' = [upto EXCEPT ![c] = 0]
  /\ overlap' = (overlap \/ \E d \in Chains : phase[d] \in InFlight)

(* getLatestLedger() answers and getEvents() is called from that ledger on. *)
LatestLedger(c) ==
  /\ phase[c] = "latest"
  /\ phase' = [phase EXCEPT ![c] = "events"]
  /\ after' = [after EXCEPT ![c] = older]
  /\ UNCHANGED <<server, life, visible, cursor, pollTimer, upto, health, history>>

(* The server answers getEvents() with a page of the events it has now     *)
(* (external); the answer travels back for a while.                        *)
GetEvents(c) ==
  /\ phase[c] = "events"
  /\ phase' = [phase EXCEPT ![c] = "answered"]
  /\ upto' = [upto EXCEPT ![c] = Least(emitted, after[c] + PageSize)]
  /\ UNCHANGED <<server, life, visible, cursor, pollTimer, after, health, history>>

(* Mutants: no timer is ever set; one is set by a stopped poller too.      *)
ScheduleNextNever(c) ==
  /\ phase' = [phase EXCEPT ![c] = "off"]
  /\ UNCHANGED pollTimer
ScheduleNextAlways(c) ==
  /\ phase' = [phase EXCEPT ![c] = "timer"]
  /\ pollTimer' = c

(* scheduleNext(): the chain ends when the poller no longer runs. *)
ScheduleNext(c) ==
  IF Running
    THEN /\ phase' = [phase EXCEPT ![c] = "timer"]
         /\ pollTimer' = c
    ELSE /\ phase' = [phase EXCEPT ![c] = "off"]
         /\ UNCHANGED pollTimer

Page(c) == (after[c] + 1)..upto[c]

(* Mutant: the cursor is the first event of the page. *)
lastEventIsFirst(c) == after[c] + 1

(* response.events[response.events.length - 1].id *)
lastEvent(c) == upto[c]

(* poll() receives its events: the cursor moves to the last one, the       *)
(* recognised ones go to the listeners, health is told as it stands.       *)
PollSucceeds(c) ==
  /\ phase[c] = "answered"
  /\ IF Page(c) = {}
       THEN UNCHANGED <<cursor, origin>>
       ELSE /\ cursor' = lastEvent(c)
            /\ origin' = IF origin = None THEN after[c] ELSE origin
  /\ delivered' = [e \in 1..MaxEvents |->
                     IF e \in Page(c) \cap Recognised THEN Least(2, delivered[e] + 1)
                                                      ELSE delivered[e]]
  /\ told' = connected
  /\ outcome' = "success"
  /\ ScheduleNext(c)
  /\ UNCHANGED <<server, life, visible, after, upto, connected, overlap>>

(* Either request of poll() fails or its answer is lost. *)
PollFails(c) ==
  /\ phase[c] \in InFlight
  /\ connected' = FALSE
  /\ told' = FALSE
  /\ outcome' = "failure"
  /\ ScheduleNext(c)
  /\ UNCHANGED <<server, life, visible, cursor, after, upto,
                 delivered, origin, overlap>>

(* The timer of a chain fires; pollTimer keeps its value. *)
TimerFires(c) ==
  /\ phase[c] = "timer"
  /\ BeginPoll(c)
  /\ UNCHANGED <<server, life, visible, cursor, pollTimer, told, outcome,
                 delivered, origin>>

(* clearTimeout(pollTimer): nothing happens when that timer has fired. *)
ClearTimer ==
  /\ pollTimer' = None
  /\ phase' = [c \in Chains |->
                 IF c = pollTimer /\ phase[c] = "timer" THEN "off" ELSE phase[c]]

Hide ==
  /\ visible
  /\ visible' = FALSE
  /\ IF Running THEN ClearTimer ELSE UNCHANGED <<pollTimer, phase>>
  /\ UNCHANGED <<server, life, cursor, after, upto, health, history>>

(* The tab returns: without a known timer, poll at once. *)
Show ==
  /\ ~visible
  /\ visible' = TRUE
  /\ \/ /\ Running /\ pollTimer = None
        /\ \E c \in Chains :
             /\ phase[c] = "off"
             /\ BeginPoll(c)
     \/ /\ ~(Running /\ pollTimer = None)
        /\ UNCHANGED <<phase, after, upto, connected, overlap>>
  /\ UNCHANGED <<server, life, cursor, pollTimer, told, outcome,
                 delivered, origin>>

(* start(): SorobanProvider calls it once, just after creating the poller. *)
Start ==
  /\ life = "created"
  /\ life' = "running"
  /\ \/ /\ visible
        /\ \E c \in Chains : BeginPoll(c)
     \/ /\ ~visible
        /\ UNCHANGED <<phase, after, upto, connected, overlap>>
  /\ UNCHANGED <<server, visible, cursor, pollTimer, told, outcome,
                 delivered, origin>>

(* stop(): the cleanup of SorobanProvider's effect. *)
Stop ==
  /\ Running
  /\ life' = "stopped"
  /\ ClearTimer
  /\ UNCHANGED <<server, visible, cursor, after, upto, health, history>>

ChainStep(c) ==
  \/ TimerFires(c) \/ LatestLedger(c) \/ GetEvents(c) \/ PollSucceeds(c) \/ PollFails(c)

Next ==
  \/ \E c \in Chains : ChainStep(c)
  \/ Start \/ Stop \/ Hide \/ Show
  \/ CloseLedger

Spec == Init /\ [][Next]_vars

(* A timer fires, and a request is answered or fails. The user's moves and *)
(* the ledger are not obliged to anything.                                 *)
FairSpec == Spec /\ \A c \in Chains : WF_vars(ChainStep(c))

-----------------------------------------------------------------------------
(* Types of the variables. *)
TypeOK ==
  /\ emitted \in 0..MaxEvents /\ older \in 0..emitted
  /\ life \in {"created", "running", "stopped"}
  /\ visible \in BOOLEAN
  /\ cursor \in 0..MaxEvents
  /\ pollTimer \in Chains \cup {None}
  /\ phase \in [Chains -> Phase]
  /\ after \in [Chains -> 0..MaxEvents]
  /\ upto \in [Chains -> 0..MaxEvents]
  /\ connected \in BOOLEAN /\ told \in BOOLEAN
  /\ delivered \in [1..MaxEvents -> 0..2]
  /\ origin \in 0..MaxEvents \cup {None}
  /\ overlap \in BOOLEAN
  /\ outcome \in {"none", "success", "failure"}

(* The poller never falls asleep: while it runs in a visible tab, a poll   *)
(* is in flight or a timer is armed, whatever the order of hiding,         *)
(* returning, answers and failures (events.ts:210-243).                    *)
NeverAsleep == Running /\ visible => \E c \in Chains : phase[c] # "off"

(* As long as no two polls were in flight at once, the cursor loses and    *)
(* repeats nothing: every recognised event from the first one received to  *)
(* the cursor was delivered exactly once, and none beyond (events.ts:      *)
(* 173-196), through lost answers, full pages and unrecognised events.     *)
ExactlyOnce ==
  ~overlap =>
    \A e \in Recognised :
      delivered[e] = IF origin # None /\ e > origin /\ e <= cursor THEN 1 ELSE 0

(* As long as no two polls were in flight at once, stop() leaves no timer  *)
(* behind: the armed timer is the one pollTimer holds (events.ts:245-250). *)
StopDisarms ==
  ~overlap /\ life = "stopped" => \A c \in Chains : phase[c] # "timer"

(* As long as no two polls were in flight at once, the listeners' health   *)
(* tells how the last poll ended, though it is set before the poll's       *)
(* awaits and only cleared after them (events.ts:165-167, 200-206).        *)
HealthIsTrue ==
  ~overlap /\ outcome # "none" => (told <=> outcome = "success")

(* A running poller in a visible tab polls again and again. *)
KeepsPolling ==
  Running /\ visible ~> (\E c \in Chains : phase[c] \in InFlight) \/ ~Running \/ ~visible

(* After stop() all chains end, even one whose timer stop() did not know.  *)
StopQuiesces == life = "stopped" ~> [](\A c \in Chains : phase[c] = "off")

-----------------------------------------------------------------------------
(***************************************************************************)
(* The inductive invariant behind the safety properties that hold.         *)
(***************************************************************************)

(* A timer that pollTimer still knows belongs to a chain that is alive. *)
Awake ==
  /\ life = "created" => pollTimer = None /\ \A c \in Chains : phase[c] = "off"
  /\ NeverAsleep
  /\ Running /\ pollTimer # None => phase[pollTimer] # "off"

(* Until two polls overlap there is one chain, its timer is the one        *)
(* pollTimer holds, and its poll set the connected it will report.         *)
OneChain ==
  ~overlap =>
    /\ \A c, d \in Chains : phase[c] # "off" /\ phase[d] # "off" => c = d
    /\ \A c \in Chains : phase[c] = "timer" => pollTimer = c /\ Running
    /\ \A c \in Chains : phase[c] \in InFlight => connected
    /\ HealthIsTrue

(* Until two polls overlap the poll in flight asks from the cursor on.     *)
CursorHolds ==
  /\ cursor <= emitted
  /\ \A c \in Chains : after[c] <= emitted /\ upto[c] <= emitted
  /\ ~overlap =>
       /\ cursor = 0 <=> origin = None
       /\ origin # None => origin <= cursor
       /\ \A c \in Chains :
            /\ phase[c] = "latest" => cursor = 0
            /\ phase[c] \in {"events", "answered"} /\ cursor # 0 => after[c] = cursor
       /\ ExactlyOnce

PollerInv == TypeOK /\ Awake /\ OneChain /\ CursorHolds
=============================================================================
