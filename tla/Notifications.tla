---------------------------- MODULE Notifications ----------------------------
(***************************************************************************)
(* The notification list of lib/notifications/NotificationStore.tsx: an    *)
(* effect that runs over the whole event list of the Soroban provider each *)
(* time the list changes, and a reducer that remembers which events it has *)
(* seen.  The effect of a change runs after the change was rendered, so a  *)
(* click may come between the two.                                         *)
(***************************************************************************)
EXTENDS Integers, Sequences, FiniteSets, Lists

CONSTANTS
  ContractEvents,     \* ids of the events of the contract
  Noticed,            \* those registered or changed status, with a txId
  FeedCap,            \* events the provider keeps (200)
  MaxNotifications

ASSUME NoticedAssumption == Noticed \subseteq ContractEvents
ASSUME NoticeCapsAssumption == FeedCap \in Nat /\ MaxNotifications \in Nat \ {0}

VARIABLES
  feed,               \* events of the provider, newest batch first
  effectDue,          \* the list changed and its effect has not run
  notifications,      \* newest first: [id, read]
  seenEventIds

noticeVars == <<feed, effectDue, notifications, seenEventIds>>

NoticeInit ==
  /\ feed = <<>>
  /\ effectDue = TRUE
  /\ notifications = <<>>
  /\ seenEventIds = {}

Listed == IdsOf(notifications)

\* The provider puts the events of a poll before those it has.
FeedGrows(batch) ==
  /\ feed' = FirstOf(batch \o feed, FeedCap)
  /\ effectDue' = TRUE
  /\ UNCHANGED <<notifications, seenEventIds>>

\* Another contract or endpoint: the provider starts with an empty list, and
\* its new poller may deliver events that were delivered before.
FeedCleared ==
  /\ feed # <<>>
  /\ feed' = <<>>
  /\ effectDue' = TRUE
  /\ UNCHANGED <<notifications, seenEventIds>>

AddUnlessListed(state, e) ==
  IF \E i \in DOMAIN state.list : state.list[i].id = e THEN state
  ELSE [list |-> FirstOf(<<[id |-> e, read |-> FALSE]>> \o state.list, MaxNotifications),
        seen |-> state.seen \union {e}]
\* reducer, "ADD"
Add(state, e) ==
  IF e \in state.seen THEN state
  ELSE [list |-> FirstOf(<<[id |-> e, read |-> FALSE]>> \o state.list, MaxNotifications),
        seen |-> state.seen \union {e}]

\* The loop of the effect over the list of the provider.
AfterAll(start, list) ==
  LET state[n \in 0..Len(list)] ==
        IF n = 0 THEN start
        ELSE IF list[n] \in Noticed THEN Add(state[n - 1], list[n]) ELSE state[n - 1]
  IN  state[Len(list)]

EffectOfFeed ==
  /\ effectDue
  /\ LET after == AfterAll([list |-> notifications, seen |-> seenEventIds], feed)
     IN  notifications' = after.list /\ seenEventIds' = after.seen
  /\ effectDue' = FALSE
  /\ UNCHANGED feed

MarkAllRead ==
  /\ notifications' = [i \in DOMAIN notifications |->
                         [notifications[i] EXCEPT !.read = TRUE]]
  /\ UNCHANGED <<feed, effectDue, seenEventIds>>

DismissNotice(id) ==
  /\ notifications' = Keeping(notifications, Listed \ {id})
  /\ UNCHANGED <<feed, effectDue, seenEventIds>>

ClearNotices ==
  /\ notifications' = <<>>
  /\ UNCHANGED <<feed, effectDue, seenEventIds>>

NoticeNext ==
  \/ \E a, b \in ContractEvents : FeedGrows(IF a = b THEN <<a>> ELSE <<a, b>>)
  \/ FeedCleared
  \/ EffectOfFeed
  \/ MarkAllRead
  \/ \E id \in Listed : DismissNotice(id)
  \/ ClearNotices

-----------------------------------------------------------------------------
(***************************************************************************)
(* Properties.                                                             *)
(***************************************************************************)

\* The variables have their types; the list is capped, shows no event twice
\* and shows only events it remembers.
NoticeTypeOK ==
  /\ feed \in Seq(ContractEvents) /\ Len(feed) <= FeedCap
  /\ effectDue \in BOOLEAN
  /\ notifications \in Seq([id: Noticed, read: BOOLEAN])
  /\ Len(notifications) <= MaxNotifications
  /\ Cardinality(Listed) = Len(notifications)
  /\ seenEventIds \subseteq Noticed /\ Listed \subseteq seenEventIds

\* A notification that was dismissed, cleared or pushed out by the cap never
\* comes back, although its event stays in the provider's list, or is
\* delivered again after a change of contract (the seenEventIds check).
GoneStaysGone ==
  [][(seenEventIds \ Listed) \cap Listed' = {}]_noticeVars

\* Once the effect has run, no event of the list is left without having been
\* notified, whatever was dismissed or cleared in between.
NothingUnnoticed ==
  ~effectDue => {feed[i] : i \in DOMAIN feed} \cap Noticed \subseteq seenEventIds
=============================================================================
