-------------------------- MODULE EventPollerProofs --------------------------
(***************************************************************************)
(* Proofs about the event poller, for any number of chains and events, any *)
(* page size and any set of recognised events.                             *)
(***************************************************************************)
EXTENDS EventPoller, TLAPS

-----------------------------------------------------------------------------
(* Type correctness. *)

LEMMA InitType == Init => TypeOK
<1> SUFFICES ASSUME Init
             PROVE  TypeOK
  OBVIOUS
<1> USE PollerAssumption
<1>1. PICK n \in 0..MaxEvents : emitted = n /\ older \in 0..n
  BY DEF Init
<1>2. cursor \in 0..MaxEvents /\ origin \in 0..MaxEvents \cup {None}
  BY <1>1 DEF Init
<1>3. phase \in [Chains -> Phase]
  BY DEF Init, Phase
<1>4. emitted \in 0..MaxEvents /\ older \in 0..emitted
  BY <1>1
<1>5. /\ after \in [Chains -> 0..MaxEvents] /\ upto \in [Chains -> 0..MaxEvents]
      /\ delivered \in [1..MaxEvents -> 0..2]
  BY DEF Init
<1>. QED
  BY <1>2, <1>3, <1>4, <1>5 DEF Init, TypeOK

(* poll() up to its first await. *)
LEMMA BeginPollType ==
  ASSUME TypeOK, NEW c \in Chains, BeginPoll(c)
  PROVE  /\ connected' \in BOOLEAN
         /\ overlap' \in BOOLEAN
         /\ phase' \in [Chains -> Phase]
         /\ after' \in [Chains -> 0..MaxEvents]
         /\ upto' \in [Chains -> 0..MaxEvents]
BY PollerAssumption DEF BeginPoll, TypeOK, Phase, InFlight

(* The end of poll(), followed by scheduleNext(). *)
LEMMA EndPollType ==
  ASSUME TypeOK, NEW c \in Chains, ScheduleNext(c)
  PROVE  phase' \in [Chains -> Phase] /\ pollTimer' \in Chains \cup {None}
BY DEF ScheduleNext, TypeOK, Phase

LEMMA ClearTimerType ==
  ASSUME TypeOK, ClearTimer
  PROVE  phase' \in [Chains -> Phase] /\ pollTimer' \in Chains \cup {None}
BY DEF ClearTimer, TypeOK, Phase

LEMMA NextType == TypeOK /\ [Next]_vars => TypeOK'
<1> SUFFICES ASSUME TypeOK, [Next]_vars
             PROVE  TypeOK'
  OBVIOUS
<1> USE PollerAssumption DEF server, health, history
<1>1. ASSUME NEW c \in Chains, LatestLedger(c)
      PROVE  TypeOK'
  <2>1. older \in 0..MaxEvents
    BY DEF TypeOK
  <2>. QED
    BY <1>1, <2>1 DEF LatestLedger, TypeOK, Phase, InFlight
<1>2. ASSUME NEW c \in Chains, GetEvents(c)
      PROVE  TypeOK'
  <2>1. after[c] \in 0..MaxEvents /\ emitted \in 0..MaxEvents
    BY DEF TypeOK
  <2>2. Least(emitted, after[c] + PageSize) \in 0..MaxEvents
    BY <2>1 DEF Least
  <2>. QED
    BY <1>2, <2>2 DEF GetEvents, TypeOK, Phase, InFlight
<1>3. ASSUME NEW c \in Chains, PollSucceeds(c)
      PROVE  TypeOK'
  <2>1. upto[c] \in 0..MaxEvents /\ after[c] \in 0..MaxEvents
    BY DEF TypeOK
  <2>2. cursor' \in 0..MaxEvents /\ origin' \in 0..MaxEvents \cup {None}
    BY <1>3, <2>1 DEF PollSucceeds, lastEvent, TypeOK
  <2>3. delivered' \in [1..MaxEvents -> 0..2]
    <3>1. ASSUME NEW d \in 0..2
          PROVE  Least(2, d + 1) \in 0..2
      BY DEF Least
    <3>. QED
      BY <1>3, <3>1 DEF PollSucceeds, TypeOK
  <2>. QED
    BY <1>3, <2>2, <2>3, EndPollType DEF PollSucceeds, TypeOK
<1>4. ASSUME NEW c \in Chains, PollFails(c)
      PROVE  TypeOK'
  BY <1>4, EndPollType DEF PollFails, TypeOK
<1>5. ASSUME NEW c \in Chains, TimerFires(c)
      PROVE  TypeOK'
  BY <1>5, BeginPollType DEF TimerFires, TypeOK
<1>6. CASE Start
  <2>1. CASE \E c \in Chains : BeginPoll(c)
    BY <1>6, <2>1, BeginPollType DEF Start, TypeOK
  <2>2. CASE UNCHANGED <<phase, after, upto, connected, overlap>>
    BY <1>6, <2>2 DEF Start, TypeOK
  <2>. QED
    BY <1>6, <2>1, <2>2 DEF Start
<1>7. CASE Stop
  BY <1>7, ClearTimerType DEF Stop, TypeOK
<1>8. CASE Hide
  BY <1>8, ClearTimerType DEF Hide, TypeOK
<1>9. CASE Show
  <2>1. CASE \E c \in Chains : BeginPoll(c)
    BY <1>9, <2>1, BeginPollType DEF Show, TypeOK
  <2>2. CASE UNCHANGED <<phase, after, upto, connected, overlap>>
    BY <1>9, <2>2 DEF Show, TypeOK
  <2>. QED
    BY <1>9, <2>1, <2>2 DEF Show
<1>10. CASE CloseLedger
  <2>1. emitted' \in 0..MaxEvents /\ older' \in 0..emitted'
    BY <1>10 DEF CloseLedger, TypeOK
  <2>. QED
    BY <1>10, <2>1 DEF CloseLedger, TypeOK
<1>11. CASE UNCHANGED vars
  BY <1>11 DEF vars, TypeOK
<1>. QED
  BY <1>1, <1>2, <1>3, <1>4, <1>5, <1>6, <1>7, <1>8, <1>9, <1>10, <1>11 DEF Next, ChainStep

(* The variables keep their types. *)
THEOREM TypeCorrect == Spec => []TypeOK
<1>. QED
  BY InitType, NextType, PTL DEF Spec

-----------------------------------------------------------------------------
(* The poller never falls asleep. *)

LEMMA AwakeNext == TypeOK /\ Awake /\ [Next]_vars => Awake'
<1> SUFFICES ASSUME TypeOK, Awake, [Next]_vars
             PROVE  Awake'
  OBVIOUS
<1> USE PollerAssumption DEF Awake, NeverAsleep, Running, health, history, server
<1>0. phase \in [Chains -> Phase] /\ pollTimer \in Chains \cup {None}
  BY DEF TypeOK
<1>1. ASSUME NEW c \in Chains, LatestLedger(c) \/ GetEvents(c)
      PROVE  Awake'
  BY <1>0, <1>1 DEF LatestLedger, GetEvents
<1>2. ASSUME NEW c \in Chains, PollSucceeds(c) \/ PollFails(c)
      PROVE  Awake'
  <2>1. life' = life /\ life # "created" /\ visible' = visible /\ ScheduleNext(c)
    BY <1>2 DEF PollSucceeds, PollFails, InFlight
  <2>2. Running => phase'[c] # "off" /\ pollTimer' = c
    BY <1>0, <2>1 DEF ScheduleNext
  <2>. QED
    BY <2>1, <2>2
<1>3. ASSUME NEW c \in Chains, TimerFires(c)
      PROVE  Awake'
  <2>1. /\ life' = life /\ life # "created" /\ visible' = visible /\ pollTimer' = pollTimer
        /\ \A d \in Chains : phase[d] # "off" => phase'[d] # "off"
    BY <1>0, <1>3 DEF TimerFires, BeginPoll
  <2>. QED
    BY <1>0, <2>1
<1>4. CASE Start
  <2>1. life' = "running" /\ pollTimer' = None /\ visible' = visible
    BY <1>4 DEF Start
  <2>2. CASE visible
    <3>1. PICK c \in Chains : BeginPoll(c)
      BY <1>4, <2>2 DEF Start
    <3>2. phase'[c] # "off"
      BY <1>0, <3>1 DEF BeginPoll
    <3>. QED
      BY <2>1, <3>2
  <2>3. CASE ~visible
    BY <2>1, <2>3
  <2>. QED
    BY <2>2, <2>3
<1>5. CASE Stop
  BY <1>5 DEF Stop
<1>6. CASE Hide
  BY <1>6 DEF Hide, ClearTimer
<1>7. CASE Show
  <2>1. CASE Running /\ pollTimer = None
    <3>1. PICK c \in Chains : BeginPoll(c)
      BY <1>7, <2>1 DEF Show
    <3>2. phase'[c] # "off"
      BY <1>0, <3>1 DEF BeginPoll
    <3>. QED
      BY <1>7, <2>1, <3>2 DEF Show
  <2>2. CASE ~(Running /\ pollTimer = None)
    BY <1>0, <1>7, <2>2 DEF Show
  <2>. QED
    BY <2>1, <2>2
<1>8. CASE CloseLedger \/ UNCHANGED vars
  BY <1>8 DEF CloseLedger, vars
<1>. QED
  BY <1>1, <1>2, <1>3, <1>4, <1>5, <1>6, <1>7, <1>8 DEF Next, ChainStep

LEMMA InitAwake == Init => Awake
BY DEF Init, Awake, NeverAsleep, Running

(* While it runs in a visible tab the poller polls or will poll. *)
THEOREM AlwaysAwake == Spec => []NeverAsleep
<1>1. Awake => NeverAsleep
  BY DEF Awake
<1>. QED
  BY <1>1, InitType, InitAwake, NextType, AwakeNext, PTL DEF Spec

-----------------------------------------------------------------------------
(* One chain, until two polls overlap. *)

(* A poll that begins when no chain is alive, or on the only one. *)
LEMMA BeginPollAlone ==
  ASSUME TypeOK, NEW c \in Chains, BeginPoll(c),
         UNCHANGED <<told, outcome>>,
         overlap \/ HealthIsTrue,
         ~overlap => \A d \in Chains : phase[d] # "off" => phase[d] \in InFlight \/ d = c
  PROVE  OneChain'
<1>1. /\ connected' = TRUE
      /\ overlap' = (overlap \/ \E d \in Chains : phase[d] \in InFlight)
      /\ phase'[c] \in {"latest", "events"}
      /\ \A d \in Chains : d # c => phase'[d] = phase[d]
  BY DEF BeginPoll, TypeOK
<1>2. HealthIsTrue' \/ overlap'
  BY <1>1 DEF HealthIsTrue
<1>3. ASSUME ~overlap'
      PROVE  \A d \in Chains : phase'[d] # "off" => d = c
  BY <1>1, <1>3
<1>. QED
  BY <1>1, <1>2, <1>3 DEF OneChain, InFlight

LEMMA OneChainNext == TypeOK /\ Awake /\ OneChain /\ [Next]_vars => OneChain'
<1> SUFFICES ASSUME TypeOK, Awake, OneChain, [Next]_vars
             PROVE  OneChain'
  OBVIOUS
<1> USE DEF health, history, server
<1>0. phase \in [Chains -> Phase] /\ connected \in BOOLEAN /\ told \in BOOLEAN
  BY DEF TypeOK
<1>1. ASSUME NEW c \in Chains, LatestLedger(c) \/ GetEvents(c)
      PROVE  OneChain'
  <2>1. /\ phase[c] \in InFlight /\ phase'[c] \in InFlight
        /\ \A d \in Chains : d # c => phase'[d] = phase[d]
        /\ UNCHANGED <<overlap, pollTimer, life, connected, told, outcome>>
    BY <1>0, <1>1 DEF LatestLedger, GetEvents, InFlight
  <2>. QED
    BY <2>1 DEF OneChain, HealthIsTrue, Running, InFlight
<1>2. ASSUME NEW c \in Chains, PollSucceeds(c) \/ PollFails(c)
      PROVE  OneChain'
  <2>1. /\ phase[c] \in InFlight
        /\ UNCHANGED <<overlap, life>>
        /\ ScheduleNext(c)
    BY <1>2 DEF PollSucceeds, PollFails, InFlight
  <2>2. ~overlap => \A d \in Chains : d # c => phase'[d] = "off"
    BY <1>0, <2>1 DEF OneChain, ScheduleNext, InFlight
  <2>3. phase'[c] = "off" \/ (phase'[c] = "timer" /\ pollTimer' = c /\ Running')
    BY <1>0, <2>1 DEF ScheduleNext, Running
  <2>4. ~overlap => HealthIsTrue'
    BY <1>2, <2>1 DEF OneChain, PollSucceeds, PollFails, HealthIsTrue
  <2>. QED
    BY <2>1, <2>2, <2>3, <2>4 DEF OneChain, InFlight
<1>3. ASSUME NEW c \in Chains, TimerFires(c)
      PROVE  OneChain'
  <2>1. /\ BeginPoll(c) /\ phase[c] = "timer"
        /\ UNCHANGED <<told, outcome>>
    BY <1>3 DEF TimerFires
  <2>2. ~overlap => HealthIsTrue /\ \A d \in Chains : phase[d] # "off" => d = c
    BY <2>1 DEF OneChain
  <2>. QED
    BY <2>1, <2>2, BeginPollAlone
<1>4. CASE Start
  <2>1. \A c \in Chains : phase[c] = "off"
    BY <1>4 DEF Start, Awake
  <2>2. ~overlap => HealthIsTrue
    BY DEF OneChain
  <2>3. ASSUME NEW c \in Chains, BeginPoll(c)
        PROVE  OneChain'
    BY <1>4, <2>1, <2>2, <2>3, BeginPollAlone DEF Start
  <2>4. CASE UNCHANGED <<phase, connected, overlap>>
    BY <1>4, <2>1, <2>4 DEF Start, OneChain, HealthIsTrue, InFlight
  <2>. QED
    BY <1>4, <2>3, <2>4 DEF Start
<1>5. CASE ClearTimer /\ UNCHANGED <<overlap, connected, told, outcome>>
  <2>1. /\ \A c \in Chains : phase'[c] = phase[c] \/ (phase[c] = "timer" /\ phase'[c] = "off")
        /\ \A c \in Chains : phase[c] = "timer" /\ c = pollTimer => phase'[c] = "off"
    BY <1>0, <1>5 DEF ClearTimer
  <2>. QED
    BY <1>5, <2>1 DEF OneChain, HealthIsTrue, InFlight
<1>6. CASE Stop
  BY <1>5, <1>6 DEF Stop
<1>7. CASE Hide
  <2>1. CASE Running
    BY <1>5, <1>7, <2>1 DEF Hide
  <2>2. CASE ~Running
    BY <1>7, <2>2 DEF Hide, OneChain, HealthIsTrue, Running
  <2>. QED
    BY <2>1, <2>2
<1>8. CASE Show
  <2>1. ASSUME NEW c \in Chains, pollTimer = None, BeginPoll(c)
        PROVE  OneChain'
    <3>1. ~overlap => \A d \in Chains : phase[d] # "timer"
      BY <2>1, PollerAssumption DEF OneChain
    <3>2. \A d \in Chains : phase[d] # "off" /\ phase[d] # "timer" => phase[d] \in InFlight
      BY <1>0 DEF Phase
    <3>3. ~overlap => HealthIsTrue
      BY DEF OneChain
    <3>. QED
      BY <1>8, <2>1, <3>1, <3>2, <3>3, BeginPollAlone DEF Show
  <2>2. CASE UNCHANGED <<phase, connected, overlap>>
    BY <1>8, <2>2 DEF Show, OneChain, HealthIsTrue, Running
  <2>. QED
    BY <1>8, <2>1, <2>2 DEF Show
<1>9. CASE CloseLedger \/ UNCHANGED vars
  BY <1>9 DEF CloseLedger, vars, OneChain, HealthIsTrue, Running
<1>. QED
  BY <1>1, <1>2, <1>3, <1>4, <1>6, <1>7, <1>8, <1>9 DEF Next, ChainStep

LEMMA InitOneChain == Init => OneChain
BY DEF Init, OneChain, HealthIsTrue, InFlight

(* After stop() no timer is armed, while polls have not overlapped. *)
THEOREM Disarmed == Spec => []StopDisarms
<1>1. OneChain => StopDisarms
  BY DEF OneChain, StopDisarms, Running
<1>. QED
  BY <1>1, InitType, InitAwake, InitOneChain, NextType, AwakeNext, OneChainNext, PTL DEF Spec

(* The listeners' health tells how the last poll ended, while polls have   *)
(* not overlapped.                                                         *)
THEOREM HealthTrue == Spec => []HealthIsTrue
<1>1. OneChain => HealthIsTrue
  BY DEF OneChain, HealthIsTrue
<1>. QED
  BY <1>1, InitType, InitAwake, InitOneChain, NextType, AwakeNext, OneChainNext, PTL DEF Spec

-----------------------------------------------------------------------------
(* The cursor loses and repeats nothing. *)

(* A poll that begins asks from the cursor on. *)
LEMMA BeginPollCursor ==
  ASSUME TypeOK, CursorHolds, NEW c \in Chains, BeginPoll(c),
         UNCHANGED <<emitted, older, cursor, origin, delivered>>
  PROVE  CursorHolds'
<1>1. /\ overlap => overlap'
      /\ after' = [after EXCEPT ![c] = cursor]
      /\ upto' = [upto EXCEPT ![c] = 0]
      /\ after \in [Chains -> 0..MaxEvents] /\ upto \in [Chains -> 0..MaxEvents]
      /\ emitted \in Nat
      /\ phase'[c] \in {"latest", "events"}
      /\ \A d \in Chains : d # c => phase'[d] = phase[d]
  BY PollerAssumption DEF BeginPoll, TypeOK
<1>2. cursor' <= emitted'
  BY DEF CursorHolds
<1>3. \A d \in Chains : after'[d] <= emitted' /\ upto'[d] <= emitted'
  BY <1>1, <1>2 DEF CursorHolds
<1>4. ASSUME ~overlap'
      PROVE  /\ cursor' = 0 <=> origin' = None
             /\ origin' # None => origin' <= cursor'
             /\ \A d \in Chains :
                  /\ phase'[d] = "latest" => cursor' = 0
                  /\ phase'[d] \in {"events", "answered"} /\ cursor' # 0 => after'[d] = cursor'
             /\ ExactlyOnce'
  BY <1>1, <1>4 DEF BeginPoll, CursorHolds, ExactlyOnce, TypeOK
<1>. QED
  BY <1>2, <1>3, <1>4 DEF CursorHolds

(* The events of a page are delivered, once. *)
LEMMA PageDelivered ==
  ASSUME TypeOK, OneChain, CursorHolds, NEW c \in Chains, PollSucceeds(c)
  PROVE  CursorHolds'
<1> USE PollerAssumption
<1>0. /\ after[c] \in Nat /\ upto[c] \in Nat /\ cursor \in Nat /\ emitted \in Nat
      /\ after[c] <= emitted /\ upto[c] <= emitted /\ cursor <= emitted
      /\ UNCHANGED <<emitted, after, upto, overlap>>
      /\ origin \in Nat \cup {None}
  BY DEF PollSucceeds, server, TypeOK, CursorHolds
<1>1. cursor' <= emitted' /\ \A d \in Chains : after'[d] <= emitted' /\ upto'[d] <= emitted'
  BY <1>0 DEF PollSucceeds, lastEvent, CursorHolds
<1>2. ASSUME ~overlap, NEW d \in Chains
      PROVE  phase'[d] \notin {"latest", "events", "answered"}
  BY <1>2 DEF PollSucceeds, ScheduleNext, OneChain, TypeOK
<1>3. ASSUME ~overlap
      PROVE  /\ cursor # 0 => after[c] = cursor
             /\ cursor = 0 <=> origin = None
             /\ origin # None => origin <= cursor
             /\ ExactlyOnce
  BY <1>3 DEF PollSucceeds, CursorHolds
<1>4. Page(c) = {} <=> upto[c] <= after[c]
  BY <1>0 DEF Page
<1>5. CASE upto[c] <= after[c]
  <2>1. UNCHANGED <<cursor, origin>>
    BY <1>4, <1>5 DEF PollSucceeds
  <2>2. \A e \in Recognised : delivered'[e] = delivered[e]
    BY <1>4, <1>5 DEF PollSucceeds
  <2>3. ~overlap => ExactlyOnce'
    BY <1>3, <2>1, <2>2 DEF ExactlyOnce
  <2>. QED
    BY <1>0, <1>1, <1>2, <1>3, <2>1, <2>3 DEF CursorHolds
<1>6. CASE upto[c] > after[c]
  <2>1. /\ cursor' = upto[c]
        /\ origin' = IF origin = None THEN after[c] ELSE origin
    BY <1>0, <1>4, <1>6 DEF PollSucceeds, lastEvent
  <2>2. \A e \in Recognised :
          delivered'[e] = IF e \in (after[c] + 1)..upto[c] THEN Least(2, delivered[e] + 1)
                                                          ELSE delivered[e]
    BY DEF PollSucceeds, Page
  <2>3. ASSUME ~overlap
        PROVE  ExactlyOnce'
    <3> SUFFICES ASSUME NEW e \in Recognised
                 PROVE  delivered'[e] = IF origin' # None /\ e > origin' /\ e <= cursor' THEN 1 ELSE 0
      BY DEF ExactlyOnce
    <3>1. e \in Nat
      OBVIOUS
    <3>2. delivered[e] = IF origin # None /\ e > origin /\ e <= cursor THEN 1 ELSE 0
      BY <1>3, <2>3 DEF ExactlyOnce
    <3>3. CASE origin = None
      BY <1>0, <1>6, <2>1, <2>2, <3>1, <3>2, <3>3 DEF Least
    <3>4. CASE origin # None
      <4>1. after[c] = cursor /\ origin <= cursor /\ origin \in Nat
        BY <1>0, <1>3, <2>3, <3>4
      <4>. QED
        BY <1>0, <1>6, <2>1, <2>2, <3>1, <3>2, <3>4, <4>1 DEF Least
    <3>. QED
      BY <3>3, <3>4
  <2>4. ASSUME ~overlap
        PROVE  (cursor' = 0 <=> origin' = None) /\ (origin' # None => origin' <= cursor')
    BY <1>0, <1>3, <1>6, <2>1, <2>4
  <2>. QED
    BY <1>0, <1>1, <1>2, <2>3, <2>4 DEF CursorHolds
<1>. QED
  BY <1>0, <1>5, <1>6

LEMMA CursorNext == TypeOK /\ OneChain /\ CursorHolds /\ [Next]_vars => CursorHolds'
<1> SUFFICES ASSUME TypeOK, OneChain, CursorHolds, [Next]_vars
             PROVE  CursorHolds'
  OBVIOUS
<1> USE PollerAssumption DEF health, history, server
<1>1. ASSUME NEW c \in Chains, LatestLedger(c)
      PROVE  CursorHolds'
  <2>1. /\ after' = [after EXCEPT ![c] = older]
        /\ older <= emitted
        /\ phase[c] = "latest" /\ phase' = [phase EXCEPT ![c] = "events"]
        /\ UNCHANGED <<emitted, cursor, upto, origin, overlap, delivered>>
        /\ after \in [Chains -> 0..MaxEvents] /\ phase \in [Chains -> Phase]
    BY <1>1 DEF LatestLedger, TypeOK
  <2>. QED
    BY <2>1 DEF CursorHolds, ExactlyOnce
<1>2. ASSUME NEW c \in Chains, GetEvents(c)
      PROVE  CursorHolds'
  <2>1. Least(emitted, after[c] + PageSize) <= emitted
    BY DEF Least, TypeOK
  <2>2. /\ upto' = [upto EXCEPT ![c] = Least(emitted, after[c] + PageSize)]
        /\ phase[c] = "events" /\ phase' = [phase EXCEPT ![c] = "answered"]
        /\ UNCHANGED <<emitted, cursor, after, origin, overlap, delivered>>
        /\ upto \in [Chains -> 0..MaxEvents] /\ phase \in [Chains -> Phase]
    BY <1>2 DEF GetEvents, TypeOK
  <2>. QED
    BY <2>1, <2>2 DEF CursorHolds, ExactlyOnce
<1>3. ASSUME NEW c \in Chains, PollSucceeds(c)
      PROVE  CursorHolds'
  BY <1>3, PageDelivered
<1>4. CASE /\ UNCHANGED <<emitted, cursor, after, upto, origin, overlap, delivered>>
           /\ \A d \in Chains : phase'[d] \in InFlight => phase'[d] = phase[d]
  BY <1>4 DEF CursorHolds, ExactlyOnce, InFlight
<1>5. ASSUME NEW c \in Chains, PollFails(c)
      PROVE  CursorHolds'
  BY <1>4, <1>5 DEF PollFails, ScheduleNext, TypeOK, InFlight
<1>6. ASSUME NEW c \in Chains, TimerFires(c)
      PROVE  CursorHolds'
  BY <1>6, BeginPollCursor DEF TimerFires
<1>7. CASE Start
  <2>1. ASSUME NEW c \in Chains, BeginPoll(c)
        PROVE  CursorHolds'
    BY <1>7, <2>1, BeginPollCursor DEF Start
  <2>2. CASE UNCHANGED <<phase, after, upto, overlap>>
    BY <1>4, <1>7, <2>2 DEF Start
  <2>. QED
    BY <1>7, <2>1, <2>2 DEF Start
<1>8. CASE Stop
  BY <1>4, <1>8 DEF Stop, ClearTimer, InFlight
<1>9. CASE Hide
  BY <1>4, <1>9 DEF Hide, ClearTimer, InFlight
<1>10. CASE Show
  <2>1. ASSUME NEW c \in Chains, BeginPoll(c)
        PROVE  CursorHolds'
    BY <1>10, <2>1, BeginPollCursor DEF Show
  <2>2. CASE UNCHANGED <<phase, after, upto, overlap>>
    BY <1>4, <1>10, <2>2 DEF Show
  <2>. QED
    BY <1>10, <2>1, <2>2 DEF Show
<1>11. CASE CloseLedger
  <2>1. emitted' >= emitted /\ emitted' \in Nat
    BY <1>11 DEF CloseLedger, TypeOK
  <2>2. UNCHANGED <<cursor, after, upto, origin, overlap, delivered, phase>>
    BY <1>11 DEF CloseLedger
  <2>3. \A d \in Chains : after[d] \in Nat /\ upto[d] \in Nat
    BY DEF TypeOK
  <2>. QED
    BY <2>1, <2>2, <2>3 DEF CursorHolds, ExactlyOnce, TypeOK
<1>12. CASE UNCHANGED vars
  BY <1>4, <1>12 DEF vars
<1>. QED
  BY <1>1, <1>2, <1>3, <1>5, <1>6, <1>7, <1>8, <1>9, <1>10, <1>11, <1>12 DEF Next, ChainStep

LEMMA InitCursor == Init => CursorHolds
<1> SUFFICES ASSUME Init
             PROVE  CursorHolds
  OBVIOUS
<1>1. cursor \in Nat /\ emitted \in Nat /\ cursor <= emitted
  BY PollerAssumption DEF Init
<1>2. \A c \in Chains : after[c] = 0 /\ upto[c] = 0 /\ phase[c] = "off"
  BY DEF Init
<1>3. origin = IF cursor = 0 THEN None ELSE cursor
  BY DEF Init
<1>4. \A e \in Recognised : delivered[e] = 0 /\ e \in Nat
  BY PollerAssumption DEF Init
<1>5. ExactlyOnce
  BY <1>1, <1>3, <1>4 DEF ExactlyOnce
<1>. QED
  BY <1>1, <1>2, <1>3, <1>5, PollerAssumption DEF CursorHolds

(* The invariant of the poller, of which the properties are consequences.  *)
THEOREM Invariance == Spec => []PollerInv
<1>1. Init => PollerInv
  BY InitType, InitAwake, InitOneChain, InitCursor DEF PollerInv
<1>2. PollerInv /\ [Next]_vars => PollerInv'
  BY NextType, AwakeNext, OneChainNext, CursorNext DEF PollerInv
<1>. QED
  BY <1>1, <1>2, PTL DEF Spec

(* Every recognised event between the first one received and the cursor    *)
(* was delivered exactly once, while polls have not overlapped.            *)
THEOREM DeliveredOnce == Spec => []ExactlyOnce
<1>1. PollerInv => ExactlyOnce
  BY DEF PollerInv, CursorHolds, ExactlyOnce
<1>. QED
  BY <1>1, Invariance, PTL
=============================================================================
