-------------------------- MODULE DraftPersistence --------------------------
(***************************************************************************)
(* The draft of an admin form, lib/forms/useDraftPersistence.ts: read from *)
(* the storage when the form is mounted, written back by a debounce timer, *)
(* removed by discardDraft() and clearDraft().                             *)
(*                                                                         *)
(* The form may hand the hook the same values object until a field changes *)
(* (stableValues) or a new object on every render.                         *)
(***************************************************************************)
EXTENDS Integers

CONSTANTS
  FormValues,     \* what the fields may hold; the form starts with Blank
  Blank,
  NoDraft,
  MaxAge          \* maxAgeMs, in ticks

ASSUME BlankAssumption == Blank \in FormValues /\ NoDraft \notin FormValues
ASSUME MaxAgeAssumption == MaxAge \in Nat

VARIABLES
  stableValues,
  usesSave,       \* the form calls save(): it is not driven by values
  mounted,
  enabled,        \* the option of that name
  values,         \* the values of the last render
  valuesRef,
  timerSet,       \* the debounce timer runs
  restoredDraft,
  stored,         \* the item in the storage: NoDraft or its values
  age,            \* ticks since it was saved, up to MaxAge + 1
  submitted       \* history: cleared, and neither typed nor enabled since

draftVars == <<stableValues, usesSave, mounted, enabled, values, valuesRef, timerSet,
               restoredDraft, stored, age, submitted>>

DraftInit ==
  /\ stableValues \in BOOLEAN /\ usesSave \in BOOLEAN
  /\ mounted = FALSE /\ enabled = TRUE
  /\ values = Blank /\ valuesRef = Blank
  /\ timerSet = FALSE
  /\ restoredDraft = NoDraft
  /\ stored \in FormValues \union {NoDraft}
  /\ age \in 0..MaxAge + 1
  /\ submitted = FALSE

\* The effect on [values, enabled, schedulePersist], with the cleanup of the
\* run before it (was: that run was enabled).
Persist(was, is) == timerSet' = (IF is THEN TRUE ELSE timerSet /\ ~was)

\* readDraft() and the first run of the effect.  A draft past its age is
\* removed.  The timer of the form that was closed has run by then.
MountForm ==
  /\ ~mounted /\ ~timerSet
  /\ mounted' = TRUE
  /\ values' = Blank /\ valuesRef' = Blank
  /\ restoredDraft' = (IF age > MaxAge THEN NoDraft ELSE stored)
  /\ stored' = restoredDraft'
  /\ Persist(FALSE, enabled)
  /\ submitted' = FALSE
  /\ UNCHANGED <<stableValues, usesSave, enabled, age>>

\* Only the cleanup of an enabled run stops the timer.
UnmountForm ==
  /\ mounted
  /\ mounted' = FALSE
  /\ timerSet' = (timerSet /\ ~enabled)
  /\ UNCHANGED <<stableValues, usesSave, enabled, values, valuesRef, restoredDraft, stored, age, submitted>>

Type(v) ==
  /\ mounted
  /\ v # values
  /\ values' = v /\ valuesRef' = v
  /\ Persist(enabled, enabled)
  /\ submitted' = FALSE
  /\ UNCHANGED <<stableValues, usesSave, mounted, enabled, restoredDraft, stored, age>>

SetEnabled ==
  /\ mounted
  /\ enabled' = ~enabled
  /\ valuesRef' = values
  /\ Persist(enabled, ~enabled)
  /\ submitted' = (submitted /\ enabled)
  /\ UNCHANGED <<stableValues, usesSave, mounted, values, restoredDraft, stored, age>>

\* save(next), for forms that are not driven by values.
Save(v) ==
  /\ mounted /\ usesSave
  /\ valuesRef' = v
  /\ timerSet' = TRUE
  /\ submitted' = FALSE
  /\ UNCHANGED <<stableValues, usesSave, mounted, enabled, values, restoredDraft, stored, age>>

\* A render of the form for another reason: the ref is set back to the
\* values, and a new values object runs the effect again.
RenderForm ==
  /\ mounted
  /\ valuesRef' = values
  /\ IF stableValues THEN UNCHANGED timerSet ELSE Persist(enabled, enabled)
  /\ UNCHANGED <<stableValues, usesSave, mounted, enabled, values, restoredDraft, stored, age, submitted>>

\* The timer writes what the ref holds when it fires.
DebounceFires ==
  /\ timerSet
  /\ timerSet' = FALSE
  /\ stored' = valuesRef
  /\ age' = 0
  /\ UNCHANGED <<stableValues, usesSave, mounted, enabled, values, valuesRef, restoredDraft, submitted>>

DiscardDraft ==
  /\ mounted
  /\ restoredDraft' = NoDraft
  /\ stored' = NoDraft
  /\ UNCHANGED <<stableValues, usesSave, mounted, enabled, values, valuesRef, timerSet, age, submitted>>

ClearDraftOnly ==
  /\ mounted
  /\ restoredDraft' = NoDraft
  /\ stored' = NoDraft
  /\ submitted' = TRUE
  /\ UNCHANGED <<stableValues, usesSave, mounted, enabled, values, valuesRef, timerSet, age>>
ClearDraft ==
  /\ mounted
  /\ restoredDraft' = NoDraft
  /\ stored' = NoDraft
  /\ timerSet' = FALSE
  /\ submitted' = TRUE
  /\ UNCHANGED <<stableValues, usesSave, mounted, enabled, values, valuesRef, age>>
DraftAges ==
  /\ age <= MaxAge
  /\ age' = age + 1
  /\ UNCHANGED <<stableValues, usesSave, mounted, enabled, values, valuesRef, timerSet,
                 restoredDraft, stored, submitted>>

DraftNext ==
  \/ MountForm \/ UnmountForm \/ RenderForm \/ SetEnabled
  \/ \E v \in FormValues : Type(v) \/ Save(v)
  \/ DebounceFires
  \/ DiscardDraft \/ ClearDraft
  \/ DraftAges

-----------------------------------------------------------------------------
(***************************************************************************)
(* Properties.                                                             *)
(***************************************************************************)

\* The variables have their types, and no timer of a closed form runs unless
\* the form was disabled.
DraftTypeOK ==
  /\ {stableValues, usesSave, mounted, enabled, timerSet, submitted} \subseteq BOOLEAN
  /\ values \in FormValues /\ valuesRef \in FormValues
  /\ restoredDraft \in FormValues \union {NoDraft}
  /\ stored \in FormValues \union {NoDraft}
  /\ age \in 0..MaxAge + 1
  /\ ~mounted /\ timerSet => ~enabled

\* After clearDraft() no timer that was started before brings the draft back,
\* as long as the form neither types, saves nor enables again and keeps its
\* values object: "clears the draft automatically on successful submission"
\* (lib/forms/useDraftPersistence.ts:8).
ClearedStaysCleared == submitted /\ stableValues => stored = NoDraft

\* Once the debounce of an enabled form has run, the storage holds what the
\* form shows, or nothing: never an older state of the fields.
TypedIsStored ==
  mounted /\ enabled /\ ~timerSet /\ ~usesSave => stored \in {values, NoDraft}

\* What is stored follows the form, not a timer of its past.
StorageFollowsForm == ClearedStaysCleared /\ TypedIsStored
=============================================================================
