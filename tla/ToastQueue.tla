----------------------------- MODULE ToastQueue -----------------------------
(***************************************************************************)
(* The toast queue of lib/toast/toastQueue.ts: a stack of toasts that is   *)
(* cut to maxVisible, repeats that are folded into the toast on display,   *)
(* and one dismissal timer for each toast.  components/ui/Toast.tsx shows  *)
(* the stack and calls push() and dismiss().                               *)
(*                                                                         *)
(* Time is relative: a timer holds the ticks it still has to run, and a    *)
(* key the ticks since it was last seen.  createdAt never decreases along  *)
(* the stack, so the position in the stack stands for it.                  *)
(***************************************************************************)
EXTENDS Integers, Sequences, FiniteSets, Lists

CONSTANTS
  ToastIds,      \* ids of toasts on display or with a pending timer
  ToastCalls,    \* calls of push(): [key, priority, duration, window]
  Capacities     \* values passed to setMaxVisible()

ASSUME ToastCallsAssumption ==
  ToastCalls \subseteq [key: STRING, priority: Nat, duration: Nat, window: Nat]
\* One of the windows is the longest.
ASSUME WindowsAssumption ==
  \E longest \in ToastCalls : \A c \in ToastCalls : c.window <= longest.window
ASSUME CapacitiesAssumption == Capacities \subseteq Int /\ Capacities # {}

VARIABLES
  toasts,        \* items: the stack, oldest first
  dismissals,    \* timers: ticks left, or Off
  lastSeen,      \* lastSeen: ticks since the key was pushed, up to Forgotten
  maxVisible

toastVars == <<toasts, dismissals, lastSeen, maxVisible>>

Off == -1
ToastKeys == {c.key : c \in ToastCalls}
ToastItem == [id: ToastIds, key: ToastKeys, priority: Nat, duration: Nat]
\* An age at which no call folds a repeat any more.
Forgotten == CHOOSE n \in {c.window : c \in ToastCalls} :
               \A c \in ToastCalls : c.window <= n
AtLeastOne(n) == IF n < 1 THEN 1 ELSE n

ToastInit ==
  /\ toasts = <<>>
  /\ dismissals = [i \in ToastIds |-> Off]
  /\ lastSeen = [k \in ToastKeys |-> Forgotten]
  /\ maxVisible \in {AtLeastOne(n) : n \in Capacities}

OnDisplay == IdsOf(toasts)

DroppedBeforeOldest(s, i, j) == i < j
\* The order in which an overflow drops: lowest priority, then oldest.
DroppedBefore(s, i, j) ==
  \/ s[i].priority < s[j].priority
  \/ s[i].priority = s[j].priority /\ i < j

\* enforceOverflow(): what stays of the stack s when n toasts may show.
Trimmed(s, n) ==
  LET earlier(i) == {j \in DOMAIN s : DroppedBefore(s, j, i)}
      kept == {i \in DOMAIN s : Cardinality(earlier(i)) + n >= Len(s)}
  IN  Keeping(s, {s[i].id : i \in kept})

ScheduleDismissOnce(d, item) ==
  IF item.duration <= 0 \/ \E i \in ToastIds : d[i] # Off
    THEN d ELSE [d EXCEPT ![item.id] = item.duration]
\* scheduleDismiss(), with the clearTimer() it begins with.
ScheduleDismiss(d, item) ==
  IF item.duration <= 0 THEN d ELSE [d EXCEPT ![item.id] = item.duration]
ClearTimers(d, ids) == [i \in ToastIds |-> IF i \in ids THEN Off ELSE d[i]]

Shown(key) == {i \in DOMAIN toasts : toasts[i].key = key}
Repeats(call) == lastSeen[call.key] < call.window /\ Shown(call.key) # {}

\* push() of a message that was seen a moment ago and is still on display.
Repeat(call) ==
  /\ Repeats(call)
  /\ LET first == CHOOSE i \in Shown(call.key) : \A j \in Shown(call.key) : i <= j
     IN  dismissals' = ScheduleDismiss(dismissals, toasts[first])
  /\ lastSeen' = [lastSeen EXCEPT ![call.key] = 0]
  /\ UNCHANGED <<toasts, maxVisible>>

\* push() of a new toast.  Its timer starts after the overflow was dropped,
\* also when the toast itself was dropped.
Push(call) ==
  /\ ~Repeats(call)
  /\ \E id \in {i \in ToastIds \ OnDisplay : dismissals[i] = Off} :
       LET item == [id |-> id, key |-> call.key, priority |-> call.priority,
                    duration |-> call.duration]
           full == Append(toasts, item)
           rest == Trimmed(full, maxVisible)
       IN  /\ toasts' = rest
           /\ dismissals' = ScheduleDismiss(
                ClearTimers(dismissals, IdsOf(full) \ IdsOf(rest)), item)
  /\ lastSeen' = [lastSeen EXCEPT ![call.key] = 0]
  /\ UNCHANGED maxVisible

SetMaxVisible(n) ==
  /\ maxVisible' = AtLeastOne(n)
  /\ toasts' = Trimmed(toasts, AtLeastOne(n))
  /\ dismissals' = ClearTimers(dismissals, OnDisplay \ IdsOf(toasts'))
  /\ UNCHANGED lastSeen

\* dismiss(), by the close button or the action button of the toast.
Dismiss(id) ==
  /\ id \in OnDisplay
  /\ toasts' = Keeping(toasts, OnDisplay \ {id})
  /\ dismissals' = ClearTimers(dismissals, {id})
  /\ UNCHANGED <<lastSeen, maxVisible>>

\* A timer fires: dismiss(), which returns early when the toast has gone.
DismissalFires(id) ==
  /\ dismissals[id] = 0
  /\ toasts' = Keeping(toasts, OnDisplay \ {id})
  /\ dismissals' = ClearTimers(dismissals, {id})
  /\ UNCHANGED <<lastSeen, maxVisible>>

\* clear() stops the timers of the toasts on display only.
ClearToasts ==
  /\ toasts # <<>>
  /\ toasts' = <<>>
  /\ dismissals' = ClearTimers(dismissals, OnDisplay)
  /\ UNCHANGED <<lastSeen, maxVisible>>

\* A timer that is due runs before the clock moves on.
ToastTick ==
  /\ \A i \in ToastIds : dismissals[i] # 0
  /\ \/ \E i \in ToastIds : dismissals[i] > 0
     \/ \E k \in ToastKeys : lastSeen[k] < Forgotten
  /\ dismissals' = [i \in ToastIds |->
                      IF dismissals[i] > 0 THEN dismissals[i] - 1 ELSE Off]
  /\ lastSeen' = [k \in ToastKeys |->
                    IF lastSeen[k] < Forgotten THEN lastSeen[k] + 1 ELSE Forgotten]
  /\ UNCHANGED <<toasts, maxVisible>>

ToastNext ==
  \/ \E call \in ToastCalls : Push(call) \/ Repeat(call)
  \/ \E n \in Capacities : SetMaxVisible(n)
  \/ \E id \in ToastIds : Dismiss(id) \/ DismissalFires(id)
  \/ ClearToasts
  \/ ToastTick

-----------------------------------------------------------------------------
(***************************************************************************)
(* Properties.                                                             *)
(***************************************************************************)

\* The variables have their types and the stack never holds more toasts than
\* setMaxVisible() allows (enforceOverflow() on every path that grows it).
ToastTypeOK ==
  /\ toasts \in Seq(ToastItem)
  /\ Len(toasts) <= maxVisible
  /\ Cardinality(OnDisplay) = Len(toasts)
  /\ dismissals \in [ToastIds -> Nat \union {Off}]
  /\ lastSeen \in [ToastKeys -> 0..Forgotten]
  /\ maxVisible \in Nat \ {0}

\* Overflows, repeats and dismissals of other toasts never leave a toast with
\* a duration on display without a running timer: it would stay for ever.
TimedToastEnds ==
  \A i \in DOMAIN toasts :
    toasts[i].duration > 0 => dismissals[toasts[i].id] \in 0..toasts[i].duration

\* An overflow, by a push or by a smaller maximum, never drops a toast while
\* one of lower priority stays: "high-priority (error) toasts are never
\* dropped for lower-priority ones" (lib/toast/toastQueue.ts:130).
ErrorsSurvive ==
  [][(\E call \in ToastCalls : Push(call)) \/ (\E n \in Capacities : SetMaxVisible(n))
       => \A i \in DOMAIN toasts, j \in DOMAIN toasts' :
            toasts[i].id \notin IdsOf(toasts')
              => toasts'[j].priority >= toasts[i].priority]_toastVars
=============================================================================
