----------------------------- MODULE EventQueue -----------------------------
(***************************************************************************)
(* CoalescingEventQueue, adapters/opencode/src/queue.ts, as plugin.ts uses *)
(* it: host hooks and the workspace watcher enqueue, a timer or close()    *)
(* flushes, and one event after another is handed to the sidecar.          *)
(*                                                                         *)
(* An event without paths makes the sidecar look at the whole worktree     *)
(* (process_event calls open), an event with paths at those files only.    *)
(* latest, seen and closedAt are history: they number the calls            *)
(* of enqueue() to tell which of them the sidecar has been told about.     *)
(*                                                                         *)
(* OverflowUnmarked, TimerFieldKept and ReturnsAtOnce are no part of the   *)
(* model: each is a plausible mistake in the operator after it, swapped in *)
(* by PROJECT.json.                                                        *)
(***************************************************************************)
EXTENDS Naturals, Sequences, FiniteSets

CONSTANTS
  PathKinds,        (* Kinds enqueued with paths: file.edited, ...          *)
  BareKinds,        (* Kinds enqueued without: session.idle, ...            *)
  Paths,            (* Workspace paths.                                     *)
  MaxPathsPerKind,
  MaxEnqueues       (* Bound: calls of enqueue in a behaviour.              *)

(* No hook uses one kind both with and without paths.                      *)
ASSUME KindsAssumption == PathKinds \cap BareKinds = {}
ASSUME BoundsAssumption == MaxPathsPerKind \in Nat /\ MaxEnqueues \in Nat

Kinds == PathKinds \cup BareKinds

VARIABLES
  order,            (* Keys of the Map pending, in insertion order.         *)
  pending,          (* Its value for each kind.                             *)
  overflowed,       (* Kinds that exceeded MaxPathsPerKind.                 *)
  timer,            (* The field timer is set.                              *)
  ticking,          (* A timeout is scheduled.                              *)
  chain,            (* Flushed events that consume has not finished.        *)
  consuming,        (* consume runs on the first of them.                   *)
  closing,          (* close(): "open", "closing" or "closed".              *)
  ahead,            (* Events that have to be finished before it returns.   *)
  enqueued,         (* History: calls of enqueue so far,                    *)
  latest,           (* the last one about each item,                        *)
  seen,             (* the last one about each item consume was given,      *)
  closedAt          (* the last one before close().                         *)

batch == <<order, pending, overflowed>>
delivery == <<chain, consuming>>
close == <<closing, ahead, closedAt>>
queueVars == <<order, pending, overflowed, timer, ticking, chain, consuming, closing, ahead,
          enqueued, latest, seen, closedAt>>

(* What an event is about: single paths, or the whole worktree.            *)
Whole == "whole worktree"
Items == Paths \cup {Whole}
ItemsOf(paths) == IF paths = {} THEN {Whole} ELSE paths
Covers(paths) == IF paths = {} THEN Items ELSE paths

Count == 0..MaxEnqueues
Event == [kind : Kinds, paths : SUBSET Paths, upTo : Count]

QueueTypeOK ==
  /\ order \in Seq(Kinds)
  /\ \A k \in Kinds : Cardinality({ i \in DOMAIN order : order[i] = k }) <= 1
  /\ pending \in [Kinds -> SUBSET Paths]
  /\ \A k \in Kinds : Cardinality(pending[k]) <= MaxPathsPerKind
  /\ overflowed \subseteq Kinds
  /\ timer \in BOOLEAN /\ ticking \in BOOLEAN
  /\ chain \in Seq(Event)
  /\ consuming \in BOOLEAN
  /\ closing \in {"open", "closing", "closed"}
  /\ ahead \in 0..Len(chain)
  /\ {enqueued, closedAt} \subseteq Count
  /\ {latest, seen} \subseteq [Kinds -> [Items -> Count]]

QueueInit ==
  /\ order = <<>>
  /\ pending = [k \in Kinds |-> {}]
  /\ overflowed = {}
  /\ timer = FALSE /\ ticking = FALSE
  /\ chain = <<>> /\ consuming = FALSE
  /\ closing = "open" /\ ahead = 0
  /\ enqueued = 0 /\ closedAt = 0
  /\ latest = [k \in Kinds |-> [i \in Items |-> 0]]
  /\ seen = [k \in Kinds |-> [i \in Items |-> 0]]

(***************************************************************************)
(* enqueue                                                                 *)
(***************************************************************************)

Exceeds(paths) == Cardinality(paths) > MaxPathsPerKind

OverflowUnmarked(k) == UNCHANGED overflowed
Overflow(k) == overflowed' = overflowed \cup {k}

(* close() sets no flag: enqueue works after it as before.                 *)
Enqueue(k, paths) ==
  LET all == pending[k] \cup paths
  IN /\ enqueued < MaxEnqueues
     /\ order' = IF k \in { order[i] : i \in DOMAIN order } THEN order ELSE Append(order, k)
     /\ IF k \in overflowed
          THEN UNCHANGED <<pending, overflowed>>
          ELSE IF Exceeds(all)
            THEN /\ pending' = [pending EXCEPT ![k] = {}]
                 /\ Overflow(k)
            ELSE /\ pending' = [pending EXCEPT ![k] = all]
                 /\ UNCHANGED overflowed
     /\ timer' = TRUE
     /\ ticking' = (ticking \/ ~ timer)
     /\ enqueued' = enqueued + 1
     /\ latest' = [latest EXCEPT ![k] = [i \in Items |->
                     IF i \in ItemsOf(paths) THEN enqueued + 1 ELSE latest[k][i]]]
     /\ UNCHANGED <<delivery, close, seen>>

(***************************************************************************)
(* flush, by the timer or by close, which waits for all that was flushed.  *)
(***************************************************************************)

Batch ==
  [i \in DOMAIN order |-> [kind |-> order[i], paths |-> pending[order[i]], upTo |-> enqueued]]

OverflowReset == overflowed' = {}

TimerFieldKept == ticking' = FALSE /\ UNCHANGED timer
TimerReset == ticking' = FALSE /\ timer' = FALSE

Flush ==
  /\ TimerReset
  /\ OverflowReset
  /\ order' = <<>>
  /\ pending' = [k \in Kinds |-> {}]
  /\ chain' = chain \o Batch

TimerFires ==
  /\ ticking
  /\ Flush
  /\ UNCHANGED <<consuming, close, enqueued, latest, seen>>

ReturnsAtOnce == Len(chain)
ReturnsAfter == Len(chain) + Len(order)

Close ==
  /\ closing = "open"
  /\ Flush
  /\ closing' = "closing"
  /\ ahead' = ReturnsAfter
  /\ closedAt' = enqueued
  /\ UNCHANGED <<consuming, enqueued, latest, seen>>

CloseReturns ==
  /\ closing = "closing" /\ ahead = 0
  /\ closing' = "closed"
  /\ UNCHANGED <<batch, timer, ticking, delivery, ahead, closedAt, enqueued, latest, seen>>

(***************************************************************************)
(* The promise chain: consume is called for one event at a time.           *)
(***************************************************************************)

Consume ==
  LET event == Head(chain)
  IN /\ chain # <<>> /\ ~ consuming
     /\ consuming' = TRUE
     /\ seen' = [seen EXCEPT ![event.kind] = [i \in Items |->
                   IF i \in Covers(event.paths) THEN event.upTo ELSE seen[event.kind][i]]]
     /\ UNCHANGED <<batch, timer, ticking, chain, close, enqueued, latest>>

(* The plugin's consume catches every error, so the chain goes on.         *)
Consumed ==
  /\ consuming
  /\ consuming' = FALSE
  /\ chain' = Tail(chain)
  /\ ahead' = IF ahead = 0 THEN 0 ELSE ahead - 1
  /\ UNCHANGED <<batch, timer, ticking, closing, closedAt, enqueued, latest, seen>>

----------------------------------------------------------------------------

QueueNext ==
  \/ \E k \in PathKinds, paths \in (SUBSET Paths) \ {{}} : Enqueue(k, paths)
  \/ \E k \in BareKinds : Enqueue(k, {})
  \/ TimerFires
  \/ Close
  \/ CloseReturns
  \/ Consume
  \/ Consumed

(* A scheduled timeout fires, a due continuation runs, and a request to    *)
(* the sidecar ends: it has timeouts at every stage.  Nobody has to        *)
(* enqueue or to close.                                                    *)
QueueFairness == WF_queueVars(TimerFires) /\ WF_queueVars(CloseReturns) /\ WF_queueVars(Consume) /\ WF_queueVars(Consumed)

QueueSpec == QueueInit /\ [][QueueNext]_queueVars /\ QueueFairness

----------------------------------------------------------------------------
(* Properties.                                                             *)

Told(k, i) == seen[k][i] >= latest[k][i]

(* Whatever is coalesced, dropped for overflow and flushed in between: an  *)
(* enqueued path the sidecar has not been told about is in a waiting event *)
(* of its kind, or that event asks for the whole worktree.                 *)
NothingForgotten ==
  \A k \in Kinds, i \in Items :
    ~ Told(k, i) =>
      \/ /\ k \in { order[n] : n \in DOMAIN order }
         /\ i \in Covers(pending[k])
      \/ \E n \in DOMAIN chain :
           chain[n].kind = k /\ i \in Covers(chain[n].paths) /\ chain[n].upTo >= latest[k][i]

(* Everything that was enqueued before close() was called has been handed  *)
(* over when it returns.                                                   *)
CloseDrains ==
  closing = "closed" =>
    \A k \in Kinds, i \in Items : latest[k][i] <= closedAt => Told(k, i)

(* Every change is reported in the end, without anybody calling close.     *)
ChangesReported ==
  \A k \in Kinds : \A i \in Items : (~ Told(k, i)) ~> Told(k, i)

============================================================================
