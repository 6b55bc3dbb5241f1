---------------------------- MODULE SigningQueue ----------------------------
(***************************************************************************)
(* The app-wide wallet signing queue of lib/wallet/signingQueue.ts.        *)
(*                                                                         *)
(* JavaScript runs a call to completion, so a step of this module is the   *)
(* code between two points where other code can run:                       *)
(*   - an `await`: build() and the wallet's signTransaction() are answered *)
(*     later, when the call stack is empty;                                *)
(*   - an emit(): the subscribed listeners run inside the call, and one of *)
(*     them may call enqueue() or cancelRemaining() before it returns.     *)
(* `stack` holds what the calls suspended in an emit() still have to do,   *)
(* innermost first; only the innermost one can go on.                      *)
(***************************************************************************)
EXTENDS Naturals, Sequences

CONSTANTS
  Requests,   \* the signing requests that are ever enqueued
  Nobody,       \* null
  MaxDepth    \* bound: calls nested in one another by listeners (1: no listener calls the queue)

ASSUME QueueAssumption ==
  /\ Nobody \notin Requests
  /\ MaxDepth \in Nat \ {0}

VARIABLES
  items,      \* this.items, in the order of enqueue()
  status,     \* the status of each request, "none" before enqueue()
  promise,    \* the promise enqueue() returns; "open" is when _resolve/_reject are set
  activeId,   \* this.activeId
  running,    \* this.running
  cancelled,  \* this.cancelled
  awaits,     \* which await of drain() a request is suspended at
  stack       \* continuations of the calls suspended in an emit(), innermost first

queueVars == <<items, status, promise, activeId, running, cancelled, awaits, stack>>

Outcomes == {"signed", "stale", "failed"}
Terminal == Outcomes \cup {"cancelled"}
Status   == {"none", "pending", "signing"} \cup Terminal
Settled  == {"resolved", "rejected"}

(* What a suspended call does next: the promise executor of enqueue(), the *)
(* body of drain()'s loop for the request it has just activated, or the    *)
(* loop's next round.                                                      *)
ExecutorFrame(r) == [pc |-> "executor", id |-> r]
BodyFrame(r)     == [pc |-> "body", id |-> r]
LoopFrame        == [pc |-> "loop", id |-> Nobody]
DrainFrame       == {LoopFrame} \cup {BodyFrame(r) : r \in Requests}
Frame            == DrainFrame \cup {ExecutorFrame(r) : r \in Requests}
Push(f, s)       == <<f>> \o s
Frames(s)        == {s[k] : k \in 1..Len(s)}

-----------------------------------------------------------------------------
QueueInit ==
  /\ items = <<>>
  /\ status = [r \in Requests |-> "none"]
  /\ promise = [r \in Requests |-> "none"]
  /\ activeId = Nobody
  /\ running = FALSE
  /\ cancelled = FALSE
  /\ awaits = [r \in Requests |-> "none"]
  /\ stack = <<>>

(* Code of the application calls the queue from the event loop, or from a  *)
(* listener of an emit() in progress.                                      *)
CanCall == Len(stack) < MaxDepth

(* Mutant of settle(): every promise is resolved. *)
SettledAsResolved(p, how) == IF p = "open" THEN "resolved" ELSE p

(* settle(): a call before the executor has run finds no handler to call.  *)
SettledAs(p, how) == IF p = "open" THEN how ELSE p

(* Mutant of the find(): a cancelled request is found too. *)
IsNextCancelled(r) ==
  \E k \in 1..Len(items) :
    /\ items[k] = r
    /\ status[r] \in {"pending", "cancelled"}
    /\ \A j \in 1..(k - 1) : status[items[j]] \notin {"pending", "cancelled"}

(* items.find(i => i.status === "pending") *)
IsNext(r) ==
  \E k \in 1..Len(items) :
    /\ items[k] = r
    /\ status[r] = "pending"
    /\ \A j \in 1..(k - 1) : status[items[j]] # "pending"

(* One round of drain()'s loop, in a call whose callers are `below`: the   *)
(* next request becomes active and is announced, or drain() ends.          *)
Round(below) ==
  \/ \E r \in Requests :
       /\ IsNext(r)
       /\ activeId' = r
       /\ running' = TRUE
       /\ status' = [status EXCEPT ![r] = "signing"]
       /\ stack' = Push(BodyFrame(r), below)
  \/ /\ \A r \in Requests : ~IsNext(r)
     /\ activeId' = Nobody
     /\ running' = FALSE
     /\ stack' = below
     /\ UNCHANGED status

(* enqueue() up to its emit(). *)
Enqueue(r) ==
  /\ CanCall
  /\ status[r] = "none"
  /\ items' = Append(items, r)
  /\ status' = [status EXCEPT ![r] = "pending"]
  /\ stack' = Push(ExecutorFrame(r), stack)
  /\ UNCHANGED <<promise, activeId, running, cancelled, awaits>>

(* enqueue() after its emit(): the handlers are stored and drain() called; *)
(* a drain() that is already running will find the request.                *)
Executor(r) ==
  /\ stack # <<>>
  /\ Head(stack) = ExecutorFrame(r)
  /\ promise' = [promise EXCEPT ![r] = "open"]
  /\ \/ /\ running
        /\ stack' = Tail(stack)
        /\ UNCHANGED <<status, activeId, running>>
     \/ /\ ~running
        /\ Round(Tail(stack))
  /\ UNCHANGED <<items, cancelled, awaits>>

(* The active request ends with an outcome and drain() emits.              *)
Finish(r, outcome, below) ==
  /\ status' = [status EXCEPT ![r] = outcome]
  /\ promise' = [promise EXCEPT ![r] =
                   SettledAs(@, IF outcome = "signed" THEN "resolved" ELSE "rejected")]
  /\ stack' = Push(LoopFrame, below)
  /\ UNCHANGED <<items, activeId, running, cancelled>>

(* isStale() answers true, or build() throws before it returns a promise.  *)
RejectAtOnce(r) ==
  /\ stack # <<>>
  /\ Head(stack) = BodyFrame(r)
  /\ \E outcome \in {"stale", "failed"} : Finish(r, outcome, Tail(stack))
  /\ UNCHANGED awaits

(* The request is not stale: build() is called and awaited. *)
StartBuild(r) ==
  /\ stack # <<>>
  /\ Head(stack) = BodyFrame(r)
  /\ awaits' = [awaits EXCEPT ![r] = "build"]
  /\ stack' = Tail(stack)
  /\ UNCHANGED <<items, status, promise, activeId, running, cancelled>>

(* build() answered: the wallet is asked to sign and its popup opens.      *)
OpenPopup(r) ==
  /\ stack = <<>>
  /\ awaits[r] = "build"
  /\ awaits' = [awaits EXCEPT ![r] = "sign"]
  /\ UNCHANGED <<items, status, promise, activeId, running, cancelled, stack>>

(* The user signed in the wallet's popup. *)
WalletSigns(r) ==
  /\ stack = <<>>
  /\ awaits[r] = "sign"
  /\ awaits' = [awaits EXCEPT ![r] = "none"]
  /\ Finish(r, "signed", stack)

(* Mutant: drain() leaves its loop when an await is rejected. *)
AwaitRejectsAndLeaves(r) ==
  /\ stack = <<>>
  /\ awaits[r] # "none"
  /\ awaits' = [awaits EXCEPT ![r] = "none"]
  /\ \E outcome \in {"stale", "failed"} : status' = [status EXCEPT ![r] = outcome]
  /\ promise' = [promise EXCEPT ![r] = SettledAs(@, "rejected")]
  /\ UNCHANGED <<items, activeId, running, cancelled, stack>>

(* build() or the wallet rejected; the message decides stale or failed.    *)
AwaitRejects(r) ==
  /\ stack = <<>>
  /\ awaits[r] # "none"
  /\ awaits' = [awaits EXCEPT ![r] = "none"]
  /\ \E outcome \in {"stale", "failed"} : Finish(r, outcome, stack)

(* drain() goes on after an emit() at the end of the loop's body. *)
NextRound ==
  /\ stack # <<>>
  /\ Head(stack) = LoopFrame
  /\ Round(Tail(stack))
  /\ UNCHANGED <<items, promise, cancelled, awaits>>

(* Mutant: the request being signed is cancelled too. *)
CancelEverything ==
  /\ CanCall
  /\ cancelled' = TRUE
  /\ status' = [r \in Requests |-> IF status[r] \in {"pending", "signing"} THEN "cancelled" ELSE status[r]]
  /\ promise' = [r \in Requests |-> IF status[r] \in {"pending", "signing"}
                                      THEN SettledAs(promise[r], "rejected")
                                      ELSE promise[r]]
  /\ UNCHANGED <<items, activeId, running, awaits, stack>>

(* cancelRemaining(): every request that has not had its turn. *)
CancelRemaining ==
  /\ CanCall
  /\ cancelled' = TRUE
  /\ status' = [r \in Requests |-> IF status[r] = "pending" THEN "cancelled" ELSE status[r]]
  /\ promise' = [r \in Requests |-> IF status[r] = "pending"
                                      THEN SettledAs(promise[r], "rejected")
                                      ELSE promise[r]]
  /\ UNCHANGED <<items, activeId, running, awaits, stack>>

(* The steps the JavaScript engine takes by itself, and the answers of     *)
(* build() and of the wallet.                                              *)
Continue == NextRound \/ \E r \in Requests : Executor(r) \/ RejectAtOnce(r) \/ StartBuild(r)
Answer   == \E r \in Requests : OpenPopup(r) \/ WalletSigns(r) \/ AwaitRejects(r)

QueueNext == Continue \/ Answer \/ CancelRemaining \/ \E r \in Requests : Enqueue(r)

QueueSpec == QueueInit /\ [][QueueNext]_queueVars

(* A suspended call is resumed when its listeners return, and an awaited   *)
(* build() or popup is answered. Nothing obliges the application to        *)
(* enqueue or to cancel.                                                   *)
QueueFairness == WF_queueVars(Continue) /\ WF_queueVars(Answer)

-----------------------------------------------------------------------------
(* Types of the variables. *)
QueueTypeOK ==
  /\ items \in Seq(Requests)
  /\ status \in [Requests -> Status]
  /\ promise \in [Requests -> {"none", "open"} \cup Settled]
  /\ activeId \in Requests \cup {Nobody}
  /\ running \in BOOLEAN
  /\ cancelled \in BOOLEAN
  /\ awaits \in [Requests -> {"none", "build", "sign"}]
  /\ stack \in Seq(Frame)

(* "Serializes every wallet-signature request so that concurrent extension *)
(* popups never collide" (signingQueue.ts:34-37): from the moment its      *)
(* build() is called, a request is alone until it ends, whatever the       *)
(* listeners do in an emit().                                              *)
OnePopup == \A r, q \in Requests : awaits[r] # "none" /\ awaits[q] # "none" => r = q

(* "Strict FIFO" (signingQueue.ts:36): once a request has had its turn, no *)
(* request enqueued before it is still waiting.                            *)
HadTurn(r) == status[r] \in Outcomes \cup {"signing"}
StrictFifo ==
  \A j, k \in 1..Len(items) :
    j < k /\ HadTurn(items[k]) => status[items[j]] # "pending"

(* No lost wake-up: a queue that is not draining holds no waiting request, *)
(* except one whose enqueue() has yet to call drain() (drain() returns at  *)
(* once while another one runs, signingQueue.ts:127).                      *)
NoLostRequest ==
  ~running =>
    \A r \in Requests : status[r] = "pending" => ExecutorFrame(r) \in Frames(stack)

(* A promise tells its caller what became of the request: a resolved one   *)
(* was signed, a rejected one was cancelled, stale or failed.              *)
PromiseTellsOutcome ==
  \A r \in Requests :
    /\ promise[r] = "resolved" => status[r] = "signed"
    /\ promise[r] = "rejected" => status[r] \in Terminal \ {"signed"}

(* The outcome of a request and a settled promise are final: a request     *)
(* that the user cancelled is never signed afterwards, nor settled twice   *)
(* when cancelRemaining() meets a popup that is answered.                  *)
OutcomeIsFinal ==
  [][\A r \in Requests :
       /\ status[r] \in Terminal => status'[r] = status[r]
       /\ promise[r] \in Settled => promise'[r] = promise[r]]_<<status, promise>>

(* enqueue() "returns a promise that resolves with the signed XDR, or      *)
(* rejects if the item was cancelled, stale, or failed"                    *)
(* (signingQueue.ts:75-78): the promise of a request that has ended is     *)
(* never left open.                                                        *)
EndedIsSettled ==
  \A r \in Requests : status[r] \in Terminal => promise[r] # "open"

(* Every request gets its turn or is cancelled, and a promise whose        *)
(* handlers are stored before its request ends is settled.                 *)
EveryRequestEnds ==
  \A r \in Requests :
    /\ status[r] = "pending" ~> status[r] \in Terminal
    /\ promise[r] = "open" /\ status[r] \notin Terminal ~> promise[r] \in Settled

(* Seen from outside the queue is the serial signer of SerialSigner: the   *)
(* order of submission and the status of each request behave as its do.    *)
Serial == INSTANCE SerialSigner WITH order <- items, state <- status
ServesSerially == Serial!Spec

-----------------------------------------------------------------------------
(***************************************************************************)
(* The inductive invariant behind the safety properties above.             *)
(***************************************************************************)

(* No call is suspended twice at the same place. *)
Distinct(s) == \A j, k \in 1..Len(s) : s[j] = s[k] => j = k

(* The drain()s that are suspended in an emit(). *)
Drains == Frames(stack) \cap DrainFrame

(* At most one drain() is alive, either suspended in an emit() or at an    *)
(* await, and none when the queue does not run.                            *)
OneDrain ==
  /\ Distinct(stack)
  /\ \A f, g \in Drains : f = g
  /\ \A r \in Requests : awaits[r] # "none" => Drains = {}
  /\ OnePopup
  /\ ~running => Drains = {} /\ \A r \in Requests : awaits[r] = "none"

(* A request is signing exactly while drain() is in its body for it. *)
SigningIsHeld ==
  \A r \in Requests :
    status[r] = "signing" <=> BodyFrame(r) \in Drains \/ awaits[r] # "none"

(* The executor of a request runs once, after its enqueue(). *)
ExecutorRunsOnce ==
  \A r \in Requests :
    /\ ExecutorFrame(r) \in Frames(stack) => status[r] # "none" /\ promise[r] = "none"
    /\ status[r] = "none" => promise[r] = "none"

(* A request is in items once, from its enqueue() on. *)
QueuedOnce ==
  /\ \A k \in 1..Len(items) : status[items[k]] # "none"
  /\ \A j, k \in 1..Len(items) : items[j] = items[k] => j = k
  /\ \A r \in Requests : status[r] = "pending" =>
       \E k \in 1..Len(items) : items[k] = r

QueueInv ==
  /\ QueueTypeOK
  /\ OneDrain
  /\ SigningIsHeld
  /\ ExecutorRunsOnce
  /\ QueuedOnce
  /\ StrictFifo
  /\ NoLostRequest
  /\ PromiseTellsOutcome

(* Without nested calls the executor runs right after its emit(), when its *)
(* request is still waiting: what EndedIsSettled needs.                    *)
ExecutorIsPrompt ==
  /\ Len(stack) <= 1
  /\ \A r \in Requests : ExecutorFrame(r) \in Frames(stack) => status[r] = "pending"
=============================================================================
