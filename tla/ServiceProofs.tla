---------------------------- MODULE ServiceProofs ----------------------------
(***************************************************************************)
(* The service: the application and the model router.                      *)
(*                                                                         *)
(* Application.  For any files, tasks, requirements and configurations,    *)
(* however the worktree, git and other sidecars move: every answer is made *)
(* of the facts of the revision that was the head when its request began,  *)
(* the shadow plan is the plan of the signals collected so far, completion *)
(* is told only of a target that is there and verified, and where one      *)
(* sidecar may compute by itself and no queue was full the answers are of  *)
(* the worktree once its events are delivered.                             *)
(*                                                                         *)
(* The first rests on what every cache says of itself: the revision it     *)
(* names is in the store and shows what the cache holds.  The store only   *)
(* grows, so a cache that said so once says so for good, and comparing     *)
(* revision ids is enough to know whether it is of the head.               *)
(*                                                                         *)
(* ModelRouting.  For any layers, requests and adapters, whatever is lost, *)
(* refused or answered badly: source goes only where the last layer that   *)
(* speaks of it lets it go, where local fallback is not allowed no request *)
(* comes down to a local endpoint, and a session that stays open at the    *)
(* host is one of which a call was lost.                                   *)
(*                                                                         *)
(* _fallback_allowed compares a candidate with the one before only.  That  *)
(* is enough because of Descent: the candidate a request has come to is    *)
(* not local if any attempt so far was not.  Held says that the host has   *)
(* one session of which nothing was lost, and only while it is in use.     *)
(***************************************************************************)
EXTENDS Application, ModelRouting, TLAPS, SequenceTheorems, FiniteSetTheorems, WellFoundedInduction

Revision == [shows : [Paths -> Nat], source : Nat, print : Nat \X [Paths -> Nat]]

Signals == [caps : SUBSET SignalKinds, task : Tasks \cup {"none"}, changed : SUBSET Paths,
            model : {"none", "m"}, tools : BOOLEAN, checks : BOOLEAN]

WellTyped ==
  /\ tree \in [Paths -> Nat] /\ edits \in Nat /\ commit \in Nat
  /\ revisions \in Seq(Revision)
  /\ collector \in Signals

(* What x holds is a revision of the store.                                *)
IsOf(store, x) == x.id \in 0..Len(store) /\ x.shows = ShowsOf(store, x.id)

CachesAgree ==
  /\ cache # None => IsOf(revisions, cache)
  /\ analysis # None => IsOf(revisions, analysis)
  /\ symbols # None => IsOf(revisions, symbols)

CallAgrees == call # None => IsOf(revisions, call.snapshot) /\ call.snapshot.id = call.head

IInv == WellTyped /\ CachesAgree /\ CallAgrees /\ AnswersAreOfTheHead

(* A store that contains another one as its beginning.                     *)
Extends(new, old) ==
  /\ new \in Seq(Revision)
  /\ Len(old) <= Len(new)
  /\ \A id \in 1..Len(old) : new[id] = old[id]

(* What was true of the store stays true.                                  *)
LEMMA StoreGrows ==
  ASSUME NEW old \in Seq(Revision), NEW new, Extends(new, old), NEW x, IsOf(old, x)
  PROVE  IsOf(new, x)
  BY DEF IsOf, Extends, ShowsOf

LEMMA AppliedExtends ==
  ASSUME WellTyped, NEW full \in BOOLEAN, NEW ps, full \/ head > 0
  PROVE  Extends(Applied(full, ps)[1], revisions)
  <1> DEFINE shows == [p \in Paths |-> IF full \/ p \in ps THEN tree[p] ELSE revisions[head].shows[p]]
             r == [shows |-> shows, source |-> commit, print |-> Worktree]
             key == <<Worktree, full, ps>>
  <1>1. shows \in [Paths -> Nat]
    <2>1. ~full => revisions[head] \in Revision
      BY DEF WellTyped, head
    <2>2. QED
      BY <2>1 DEF WellTyped, Revision
  <1>2. r \in Revision
    BY <1>1 DEF WellTyped, Revision, Worktree
  <1>3. Extends(Append(revisions, r), revisions)
    <2> HIDE DEF r
    <2>1. QED
      BY <1>2 DEF WellTyped, Extends
  <1>4. Extends(revisions, revisions)
    BY DEF WellTyped, Extends
  <1>5. Applied(full, ps)[1] = IF key \in keys THEN revisions ELSE Append(revisions, r)
    BY DEF Applied
  <1>6. QED
    BY <1>3, <1>4, <1>5

LEMMA OpenedExtends ==
  ASSUME WellTyped
  PROVE  Extends(Opened[1], revisions) /\ Extends(OpenIfMissing[1], revisions)
  <1>1. Extends(revisions, revisions)
    BY DEF WellTyped, Extends
  <1>2. Extends(Applied(TRUE, Paths)[1], revisions)
    BY AppliedExtends
  <1>3. Extends(Opened[1], revisions)
    BY <1>1, <1>2 DEF Opened
  <1>4. QED
    BY <1>1, <1>3 DEF OpenIfMissing

LEMMA EventExtends ==
  ASSUME WellTyped, NEW ps
  PROVE  Extends(EventStore(ps)[1], revisions)
  <1>1. CASE head > 0 /\ ps # {}
    BY <1>1, AppliedExtends DEF EventStore
  <1>2. CASE ~(head > 0 /\ ps # {})
    BY <1>2, OpenedExtends DEF EventStore
  <1>3. QED
    BY <1>1, <1>2

LEMMA OtherExtends ==
  ASSUME WellTyped, OtherCommits
  PROVE  Extends(revisions', revisions)
  <1>1. CASE TwinBecomes(Opened)
    BY <1>1, OpenedExtends DEF TwinBecomes
  <1>2. ASSUME head > 0, NEW ps \in SUBSET Paths, TwinBecomes(Applied(FALSE, ps))
        PROVE  Extends(revisions', revisions)
    BY <1>2, AppliedExtends DEF TwinBecomes
  <1>3. QED
    BY <1>1, <1>2 DEF OtherCommits

(* What an event may do to the store and the caches.                       *)
LEMMA ConsumeSteps ==
  ASSUME WellTyped, NEW ps, Consume(EventStore(ps))
  PROVE  /\ Extends(revisions', revisions)
         /\ cache' = cache \/ cache' = None
         /\ analysis' = analysis \/ analysis' = None
         /\ symbols' = symbols \/ symbols' = None
  <1>1. CASE UNCHANGED <<twin, caches>>
    BY <1>1 DEF twin, caches, WellTyped, Extends
  <1>2. CASE (TwinBecomes(EventStore(ps)) \/ OtherCommits) /\ InvalidateQueryCache
    BY <1>2, EventExtends, OtherExtends DEF TwinBecomes, InvalidateQueryCache
  <1>3. QED
    BY <1>1, <1>2 DEF Consume

(***************************************************************************)
(* Steps.                                                                  *)
(***************************************************************************)

(* A step that leaves the store as it is or lets it grow, answers nothing, *)
(* and keeps or drops each cache, or reads it anew.                        *)
LEMMA QuietStep ==
  ASSUME IInv, WellTyped', Extends(revisions', revisions), answer' = None,
         cache' = cache \/ cache' = None \/ IsOf(revisions', cache'),
         analysis' = analysis \/ analysis' = None,
         symbols' = symbols \/ symbols' = None,
         call' = call \/ call' = None
           \/ (IsOf(revisions', call'.snapshot) /\ call'.snapshot.id = call'.head)
  PROVE  IInv'
  <1>1. CachesAgree'
    BY StoreGrows DEF IInv, WellTyped, CachesAgree
  <1>2. CallAgrees'
    BY StoreGrows DEF IInv, WellTyped, CallAgrees
  <1>3. AnswersAreOfTheHead'
    BY DEF AnswersAreOfTheHead
  <1>4. QED
    BY <1>1, <1>2, <1>3 DEF IInv

(* The snapshot of a store is of it, and so is a cached one that is used.  *)
LEMMA SnapshotIsOf ==
  ASSUME NEW store \in Seq(Revision)
  PROVE  IsOf(store, Snapshot(store)) /\ Snapshot(store).id = Len(store)
  BY DEF Snapshot, IsOf

LEMMA LoadedIsOf ==
  ASSUME NEW store \in Seq(Revision), cache # None => IsOf(store, cache)
  PROVE  IsOf(store, Loaded(store)) /\ Loaded(store).id = Len(store)
  BY SnapshotIsOf DEF Loaded, Cached

LEMMA LoadSnapshotAgrees ==
  ASSUME IInv, Extends(revisions', revisions), LoadSnapshot(revisions')
  PROVE  /\ cache' = cache \/ cache' = None \/ IsOf(revisions', cache')
         /\ analysis' = analysis \/ analysis' = None
         /\ symbols' = symbols \/ symbols' = None
  BY SnapshotIsOf DEF LoadSnapshot, Extends, caches

LEMMA InitHolds == Init => IInv
  <1>1. SUFFICES ASSUME Init PROVE IInv
    OBVIOUS
  <1>2. WellTyped
    BY <1>1 DEF Init, WellTyped, NoSignals, Signals
  <1>3. CachesAgree /\ CallAgrees /\ AnswersAreOfTheHead
    BY <1>1 DEF Init, CachesAgree, CallAgrees, AnswersAreOfTheHead
  <1>4. QED
    BY <1>2, <1>3 DEF IInv

(***************************************************************************)
(* One lemma for the actions of a kind.                                    *)
(***************************************************************************)

(* Signals change the collector and the plan, and keep it well typed.      *)
LEMMA CollectedTyped ==
  ASSUME NEW kind, NEW c \in Signals, collector \in Signals, Collected(kind, c)
  PROVE  collector' \in Signals
  BY DEF Collected, Collect, guide

LEMMA WorldHolds ==
  ASSUME IInv,
         \/ \E p \in Paths, v \in 0..MaxEdits + 1 : Edit(p, v)
         \/ Commit \/ OtherSidecar \/ Restart
  PROVE  IInv'
  <1>1. Extends(revisions, revisions)
    BY DEF IInv, WellTyped, Extends
  <1>2. CASE \E p \in Paths, v \in 0..MaxEdits + 1 : Edit(p, v)
    <2>1. PICK p \in Paths, v \in 0..MaxEdits + 1 : Edit(p, v)
      BY <1>2
    <2>2. WellTyped'
      BY <2>1, ApplicationAssumption DEF Edit, IInv, WellTyped, twin, guide
    <2>3. QED
      BY <1>1, <2>1, <2>2, QuietStep DEF Edit, twin, caches
  <1>3. CASE Commit
    <2>1. WellTyped'
      BY <1>3 DEF Commit, IInv, WellTyped, twin, guide
    <2>2. QED
      BY <1>1, <1>3, <2>1, QuietStep DEF Commit, twin, caches
  <1>4. CASE OtherSidecar
    <2>1. OtherCommits
      BY <1>4 DEF OtherSidecar
    <2>2. Extends(revisions', revisions)
      BY <2>1, OtherExtends DEF IInv
    <2>3. WellTyped'
      BY <1>4, <2>2 DEF OtherSidecar, IInv, WellTyped, world, guide, Extends
    <2>4. QED
      BY <1>4, <2>2, <2>3, QuietStep DEF OtherSidecar, caches
  <1>5. CASE Restart
    <2>1. WellTyped'
      BY <1>5 DEF Restart, IInv, WellTyped, world, twin, NoSignals, Signals
    <2>2. QED
      BY <1>1, <1>5, <2>1, QuietStep DEF Restart, InvalidateQueryCache, twin
  <1>6. QED
    BY <1>2, <1>3, <1>4, <1>5

LEMMA SignalHolds ==
  ASSUME IInv,
         \/ \E caps \in Declared : Connect(caps)
         \/ \E intent \in Tasks : IngestTask(intent)
         \/ \E m \in {"m"} : IngestModel(m)
  PROVE  IInv'
  <1>1. Extends(revisions', revisions)
    <2>1. revisions' = revisions
      BY DEF Connect, IngestTask, IngestModel, twin
    <2>2. QED
      BY <2>1 DEF IInv, WellTyped, Extends
  <1>2. collector' \in Signals
    <2>1. ASSUME NEW caps \in Declared, Connect(caps) PROVE collector' \in Signals
      BY <2>1, ApplicationAssumption DEF Connect, IInv, WellTyped, Signals
    <2>2. ASSUME NEW intent \in Tasks, IngestTask(intent) PROVE collector' \in Signals
      <3>1. [collector EXCEPT !.task = intent] \in Signals
        BY DEF IInv, WellTyped, Signals
      <3>2. QED
        BY <2>2, <3>1, CollectedTyped DEF IngestTask, IInv, WellTyped
    <2>3. ASSUME NEW m \in {"m"}, IngestModel(m) PROVE collector' \in Signals
      <3>1. [collector EXCEPT !.model = m] \in Signals
        BY DEF IInv, WellTyped, Signals
      <3>2. QED
        BY <2>3, <3>1, CollectedTyped DEF IngestModel, IInv, WellTyped
    <2>4. QED
      BY <2>1, <2>2, <2>3
  <1>3. WellTyped'
    BY <1>2 DEF IInv, WellTyped, Connect, IngestTask, IngestModel, world, twin
  <1>4. UNCHANGED <<caches, call>> /\ answer' = None
    BY DEF Connect, IngestTask, IngestModel
  <1>5. QED
    BY <1>1, <1>3, <1>4, QuietStep DEF caches

LEMMA EventHolds ==
  ASSUME IInv, NEW ps \in SUBSET Paths, ProcessEvent(ps)
  PROVE  IInv'
  <1>1. collector' \in Signals
    <2>1. [collector EXCEPT !.changed = ps] \in Signals
      BY DEF IInv, WellTyped, Signals
    <2>2. QED
      BY <2>1, CollectedTyped DEF ProcessEvent, IInv, WellTyped
  <1>2. Consume(EventStore(ps)) /\ call' = call /\ answer' = None /\ UNCHANGED world
    BY DEF ProcessEvent
  <1>3. WellTyped'
    BY <1>1, <1>2, ConsumeSteps DEF IInv, WellTyped, world, Extends
  <1>4. QED
    BY <1>2, <1>3, ConsumeSteps, QuietStep DEF IInv

LEMMA ToolHolds == ASSUME IInv, ToolEvent PROVE IInv'
  <1>1. Consume(EventStore({})) /\ call' = call /\ answer' = None /\ UNCHANGED <<world, guide>>
    BY DEF ToolEvent
  <1>2. WellTyped'
    BY <1>1, ConsumeSteps DEF IInv, WellTyped, world, guide, Extends
  <1>3. QED
    BY <1>1, <1>2, ConsumeSteps, QuietStep DEF IInv

LEMMA RuntimeHolds ==
  ASSUME IInv, NEW automatic \in BOOLEAN, NEW verifies \in BOOLEAN,
         IngestRuntime(automatic, verifies)
  PROVE  IInv'
  <1>1. Extends(revisions', revisions)
    BY OpenedExtends DEF IInv, IngestRuntime, TwinBecomes
  <1>2. collector' \in Signals
    <2> DEFINE tool == "tool" \in collector.caps
               check == verifies /\ "verification" \in collector.caps
               c == [collector EXCEPT !.tools = @ \/ tool, !.checks = @ \/ check]
    <2>1. c \in Signals
      BY DEF IInv, WellTyped, Signals
    <2>2. collector' = c \/ collector' = collector
      BY DEF IngestRuntime, ObservationCollected, Collect, guide
    <2>3. QED
      BY <2>1, <2>2 DEF IInv, WellTyped
  <1>3. WellTyped'
    BY <1>1, <1>2 DEF IInv, WellTyped, IngestRuntime, world, Extends
  <1>4. call' = call /\ answer' = None
    BY DEF IngestRuntime
  <1>5. QED
    BY <1>1, <1>3, <1>4, LoadSnapshotAgrees, QuietStep DEF IngestRuntime

LEMMA RequestHolds ==
  ASSUME IInv, NEW c \in Calls, Request(c)
  PROVE  IInv'
  <1>1. Extends(revisions', revisions)
    BY OpenedExtends DEF IInv, Request, TwinBecomes
  <1>2. WellTyped'
    BY <1>1 DEF IInv, WellTyped, Request, world, guide, Extends
  <1>3. IsOf(revisions', call'.snapshot) /\ call'.snapshot.id = call'.head
    <2>1. cache # None => IsOf(revisions', cache)
      BY <1>1, StoreGrows DEF IInv, WellTyped, CachesAgree
    <2>2. /\ IsOf(revisions', Loaded(revisions'))
          /\ Loaded(revisions').id = Len(revisions')
      BY <1>1, <2>1, LoadedIsOf DEF Extends
    <2>3. QED
      BY <2>2 DEF Request
  <1>4. answer' = None
    BY DEF Request
  <1>5. QED
    BY <1>1, <1>2, <1>3, <1>4, LoadSnapshotAgrees, QuietStep DEF Request

(* A step that answers from a revision and leaves the store alone.         *)
LEMMA AnsweringStep ==
  ASSUME IInv, UNCHANGED <<world, twin, guide>>,
         cache' = cache, analysis' = analysis \/ IsOf(revisions, analysis'),
         symbols' = symbols \/ IsOf(revisions, symbols'),
         call' = call \/ call' = None,
         answer'.id = answer'.head, answer'.facts = ShowsOf(revisions, answer'.head)
  PROVE  IInv'
  <1>1. WellTyped'
    BY DEF IInv, WellTyped, world, twin, guide
  <1>2. CachesAgree' /\ CallAgrees'
    BY DEF IInv, CachesAgree, CallAgrees, twin
  <1>3. AnswersAreOfTheHead'
    BY DEF AnswersAreOfTheHead, twin
  <1>4. QED
    BY <1>1, <1>2, <1>3 DEF IInv

(* An index is of the snapshot's revision, whichever of the two it was.    *)
LEMMA IndexedIsOf ==
  ASSUME NEW index, NEW snapshot, index # None => IsOf(revisions, index), IsOf(revisions, snapshot)
  PROVE  IsOf(revisions, Indexed(index, snapshot)) /\ Indexed(index, snapshot).id = snapshot.id
  BY DEF Indexed

LEMMA AnswerHolds == ASSUME IInv, Answer PROVE IInv'
  <1>1. call # None /\ IsOf(revisions, call.snapshot) /\ call.snapshot.id = call.head
    BY DEF Answer, IInv, CallAgrees
  <1>2. UNCHANGED <<world, twin, guide>> /\ call' = None
    BY DEF Answer
  <1>3. CASE Reads(call.name) = "symbols"
    <2>1. /\ symbols' = Indexed(symbols, call.snapshot)
          /\ answer' = Answered(symbols'.shows, None)
          /\ UNCHANGED <<cache, analysis>>
      BY <1>3 DEF Answer
    <2>2. IsOf(revisions, symbols') /\ symbols'.id = call.head
      BY <1>1, <2>1, IndexedIsOf DEF IInv, CachesAgree
    <2>3. QED
      BY <1>1, <1>2, <2>1, <2>2, AnsweringStep DEF Answered, IsOf
  <1>4. CASE Reads(call.name) = "analysis"
    <2>1. /\ analysis' = Indexed(analysis, call.snapshot)
          /\ answer' = Answered(analysis'.shows, None)
          /\ UNCHANGED <<cache, symbols>>
      BY <1>4 DEF Answer
    <2>2. IsOf(revisions, analysis') /\ analysis'.id = call.head
      BY <1>1, <2>1, IndexedIsOf DEF IInv, CachesAgree
    <2>3. QED
      BY <1>1, <1>2, <2>1, <2>2, AnsweringStep DEF Answered, IsOf
  <1>5. CASE Reads(call.name) = "snapshot"
    <2>1. answer' = Answered(call.snapshot.shows, None) /\ UNCHANGED caches
      BY <1>5 DEF Answer
    <2>2. QED
      BY <1>1, <1>2, <2>1, AnsweringStep DEF Answered, IsOf, caches
  <1>6. QED
    BY <1>3, <1>4, <1>5 DEF Reads


LEMMA VerifyHolds ==
  ASSUME IInv, NEW items, call # None, Verify(items)
  PROVE  IInv'
  <1>1. IsOf(revisions, call.snapshot) /\ call.snapshot.id = call.head
    BY DEF IInv, CallAgrees
  <1>2. /\ answer'.id = call.snapshot.id /\ answer'.head = call.head
        /\ answer'.facts = call.snapshot.shows
    BY DEF Verify, Answered
  <1>3. UNCHANGED <<world, twin, caches, guide>> /\ call' = None
    BY DEF Verify
  <1>4. QED
    BY <1>1, <1>2, <1>3, AnsweringStep DEF IsOf, caches

LEMMA ConvergeHolds ==
  ASSUME IInv, NEW id \in DOMAIN revisions, NEW verification, NEW flags,
         ConvergeTask(id, verification, flags)
  PROVE  IInv'
  <1>1. answer'.id = id /\ answer'.head = id /\ answer'.facts = revisions[id].shows
    BY DEF ConvergeTask
  <1>2. ShowsOf(revisions, id) = revisions[id].shows
    BY DEF ShowsOf, IInv, WellTyped
  <1>3. UNCHANGED <<world, twin, caches, guide, call>>
    BY DEF ConvergeTask
  <1>4. QED
    BY <1>1, <1>2, <1>3, AnsweringStep DEF caches

LEMMA StepHolds == IInv /\ [Next]_vars => IInv'
  <1>1. SUFFICES ASSUME IInv, [Next]_vars PROVE IInv'
    OBVIOUS
  <1>2. CASE UNCHANGED vars
    <2>1. UNCHANGED <<world, twin, caches, guide, call, answer>>
      BY <1>2 DEF vars
    <2>2. QED
      BY <1>1, <2>1 DEF IInv, WellTyped, CachesAgree, CallAgrees, AnswersAreOfTheHead,
                        world, twin, caches, guide
  <1>3. CASE Next
    <2>1. CASE \/ \E p \in Paths, v \in 0..MaxEdits + 1 : Edit(p, v)
               \/ Commit \/ OtherSidecar \/ Restart
      BY <1>1, <2>1, WorldHolds
    <2>2. CASE \/ \E caps \in Declared : Connect(caps)
               \/ \E intent \in Tasks : IngestTask(intent)
               \/ \E m \in {"m"} : IngestModel(m)
      BY <1>1, <2>2, SignalHolds
    <2>3. CASE \E ps \in SUBSET Paths : ProcessEvent(ps)
      BY <1>1, <2>3, EventHolds
    <2>10. CASE ToolEvent
      BY <1>1, <2>10, ToolHolds
    <2>4. CASE \E automatic, verifies \in BOOLEAN : IngestRuntime(automatic, verifies)
      BY <1>1, <2>4, RuntimeHolds
    <2>5. CASE \E c \in Calls : Request(c)
      BY <1>1, <2>5, RequestHolds
    <2>6. CASE Answer
      BY <1>1, <2>6, AnswerHolds
    <2>7. CASE call # None /\ \E items \in [DOMAIN Requirements -> Items] : Verify(items)
      BY <1>1, <2>7, VerifyHolds
    <2>8. CASE \E id \in DOMAIN revisions, flags \in Flags, S \in SUBSET Paths,
                 e \in [status : {"verified", "failed"}, source : 0..commit] :
                 ConvergeTask(id, [r \in S |-> e], flags)
      BY <1>1, <2>8, ConvergeHolds
    <2>9. QED
      BY <1>3, <2>1, <2>2, <2>3, <2>4, <2>5, <2>6, <2>7, <2>8, <2>10 DEF Next
  <1>4. QED
    BY <1>1, <1>2, <1>3

(* Every answer is made of the facts of the revision that was the head     *)
(* when its request began: no cache outlives the revision it was made for, *)
(* in whatever handler the head was moved (_load_snapshot, _analysis and   *)
(* _symbol_index).                                                         *)
THEOREM AnswersComeFromTheHead == Spec => []AnswersAreOfTheHead
  <1>1. IInv => AnswersAreOfTheHead
    BY DEF IInv
  <1>2. QED
    BY InitHolds, StepHolds, <1>1, PTL DEF Spec

(***************************************************************************)
(* Answers are of the worktree, where the policy lets the sidecar compute. *)
(***************************************************************************)

Automatic ==
  /\ \A c \in ProjectTruth : ComputesAutomatically(policy, c)
  /\ happens \cap {"others", "overflow"} = {}

Shown == {p \in Paths : revisions[head].shows[p] = tree[p]}

(* The paths that were read for a delta.                                   *)
Covered(key) == IF key[2] THEN Paths ELSE key[3]

(* Keys name files.                                                        *)
KeysTyped == \A key \in keys : key[2] \in BOOLEAN /\ key[3] \subseteq Paths

(* What is not pending the head shows, whatever its print says, and what   *)
(* was read of a worktree that has not changed since it shows as well, so  *)
(* that a key that is used again changes nothing.                          *)
TwinCurrent ==
  /\ KeysTyped
  /\ head = 0 => keys = {}
  /\ head > 0 =>
       /\ Paths \ pending \subseteq Shown
       /\ \E key \in keys : key[1] = revisions[head].print
       /\ \A key \in keys : key[1][2] = tree => Covered(key) \subseteq Shown

CallCurrent == call # None /\ call.fresh # None => ShowsOf(revisions, call.head) = call.fresh

Fresh == Automatic => TwinCurrent /\ CallCurrent /\ AnswersAreCurrent

(* A build, or a refresh by some of the paths that are pending, leaves the *)
(* head showing them and what it showed before.                            *)
LEMMA AppliedShows ==
  ASSUME WellTyped, TwinCurrent, NEW full \in BOOLEAN, NEW ps \in SUBSET Paths, full \/ head > 0,
         revisions' = Applied(full, ps)[1], keys' = Applied(full, ps)[2], tree' = tree,
         pending \ (IF full THEN Paths ELSE ps) \subseteq pending'
  PROVE  TwinCurrent' /\ head' > 0
  <1> DEFINE key == <<Worktree, full, ps>>
             shows == [p \in Paths |-> IF full \/ p \in ps THEN tree[p] ELSE revisions[head].shows[p]]
             r == [shows |-> shows, source |-> commit, print |-> Worktree]
  <1>1. key[1] = Worktree /\ key[1][2] = tree /\ key[2] = full /\ key[3] = ps
    BY DEF Worktree
  <1>2. Covered(key) = IF full THEN Paths ELSE ps
    BY <1>1 DEF Covered
  <1>3. CASE key \in keys
    <2>1. revisions' = revisions /\ keys' = keys
      BY <1>3 DEF Applied
    <2>2. head > 0
      BY <1>3 DEF TwinCurrent, head, WellTyped
    <2>3. Covered(key) \subseteq Shown
      BY <1>1, <1>3, <2>2 DEF TwinCurrent
    <2>4. head' = head /\ Shown' = Shown
      BY <2>1 DEF Shown, head
    <2>5. Paths \ pending' \subseteq Shown
      BY <1>2, <2>2, <2>3 DEF TwinCurrent
    <2>6. QED
      BY <2>1, <2>2, <2>4, <2>5 DEF TwinCurrent, KeysTyped
  <1>4. CASE key \notin keys
    <2>1. revisions' = Append(revisions, r) /\ keys' = keys \cup {key}
      BY <1>4 DEF Applied
    <2>2. Len(revisions') = Len(revisions) + 1 /\ Len(revisions) \in Nat /\ revisions'[Len(revisions) + 1] = r
      <3> HIDE DEF r
      <3>1. QED
        BY <2>1 DEF WellTyped
    <2>3. head' > 0 /\ revisions'[head'].shows = shows /\ revisions'[head'].print = Worktree
      BY <2>2 DEF head
    <2>4. \A p \in Paths : p \in Covered(key) => shows[p] = tree[p]
      BY <1>2
    <2>5. \A p \in Paths : head > 0 /\ p \in Shown => shows[p] = tree[p]
      BY DEF Shown
    <2> HIDE DEF shows
    <2>6. Covered(key) \subseteq Shown' /\ (head > 0 => Shown \subseteq Shown')
      BY <1>2, <2>3, <2>4, <2>5 DEF Shown
    <2> HIDE DEF key
    <2>7. KeysTyped'
      BY <1>1, <2>1 DEF KeysTyped, TwinCurrent
    <2>8. Paths \ pending' \subseteq Shown'
      BY <1>2, <2>6 DEF TwinCurrent
    <2>9. \A k \in keys' : k[1][2] = tree => Covered(k) \subseteq Shown'
      <3>1. ASSUME NEW k \in keys, k[1][2] = tree PROVE Covered(k) \subseteq Shown'
        <4>1. head > 0
          BY <3>1 DEF TwinCurrent, head, WellTyped
        <4>2. QED
          BY <2>6, <3>1, <4>1 DEF TwinCurrent
      <3>2. QED
        BY <2>1, <2>6, <3>1
    <2>10. key \in keys'
      BY <2>1
    <2>11. QED
      BY <1>1, <2>3, <2>7, <2>8, <2>9, <2>10 DEF TwinCurrent
  <1>5. QED
    BY <1>3, <1>4

LEMMA OpenedShows ==
  ASSUME WellTyped, TwinCurrent, pending' = pending,
         revisions' = Opened[1], keys' = Opened[2], tree' = tree
  PROVE  TwinCurrent' /\ head' > 0
  <1>1. CASE head > 0 /\ revisions[head].print = Worktree
    <2>1. revisions' = revisions /\ keys' = keys
      BY <1>1 DEF Opened
    <2>2. QED
      BY <1>1, <2>1 DEF TwinCurrent, Shown, KeysTyped, head
  <1>2. CASE ~ (head > 0 /\ revisions[head].print = Worktree)
    BY <1>2, AppliedShows DEF Opened
  <1>3. QED
    BY <1>1, <1>2

(* A step of the twin that reads no events leaves it current.              *)
LEMMA TwinSteps ==
  ASSUME WellTyped, TwinCurrent, tree' = tree, pending' = pending,
         \/ UNCHANGED twin
         \/ revisions' = Opened[1] /\ keys' = Opened[2]
         \/ revisions' = OpenIfMissing[1] /\ keys' = OpenIfMissing[2]
  PROVE  TwinCurrent'
  <1>1. CASE revisions' = revisions /\ keys' = keys
    BY <1>1 DEF TwinCurrent, KeysTyped, Shown, head
  <1>2. CASE revisions' = Opened[1] /\ keys' = Opened[2]
    BY <1>2, OpenedShows
  <1>3. QED
    BY <1>1, <1>2 DEF OpenIfMissing, twin

(* The store grows, so what a request has in hand stays what it shows.     *)
LEMMA CallKept ==
  ASSUME WellTyped, CallAgrees, CallCurrent, Extends(revisions', revisions), call' = call \/ call' = None
  PROVE  CallCurrent'
  BY DEF WellTyped, CallAgrees, IsOf, CallCurrent, Extends, ShowsOf

LEMMA EditFresh ==
  ASSUME IInv, TwinCurrent, NEW p \in Paths, NEW v \in 0..MaxEdits + 1, Edit(p, v)
  PROVE  TwinCurrent'
  <1>1. /\ tree' = [tree EXCEPT ![p] = v] /\ tree \in [Paths -> Nat]
        /\ v # tree[p] => \A key \in keys : key[1][2] # tree'
        /\ pending' = pending \cup {p} /\ revisions' = revisions /\ keys' = keys
    BY DEF Edit, twin, IInv, WellTyped
  <1>2. \A q \in Paths \ {p} : tree'[q] = tree[q]
    BY <1>1
  <1>3. head > 0 => Paths \ pending' \subseteq Shown'
    BY <1>1, <1>2 DEF TwinCurrent, Shown, head
  <1>4. CASE v = tree[p]
    <2>1. tree' = tree
      BY <1>1, <1>4
    <2>2. QED
      BY <1>1, <1>3, <2>1 DEF TwinCurrent, KeysTyped, Shown, head
  <1>5. CASE v # tree[p]
    BY <1>1, <1>3, <1>5 DEF TwinCurrent, KeysTyped, head
  <1>6. QED
    BY <1>4, <1>5

(* Where nothing is lost to another sidecar an event is applied.           *)
LEMMA ConsumedAlone ==
  ASSUME Automatic, NEW ps, Consume(EventStore(ps))
  PROVE  revisions' = EventStore(ps)[1] /\ keys' = EventStore(ps)[2]
  BY DEF Consume, Automatic, OtherCommits, TwinBecomes

LEMMA EventFresh ==
  ASSUME IInv, TwinCurrent, Automatic, NEW ps \in SUBSET Paths, ProcessEvent(ps)
  PROVE  TwinCurrent'
  <1>1. /\ revisions' = EventStore(ps)[1] /\ keys' = EventStore(ps)[2]
        /\ tree' = tree
    BY ConsumedAlone DEF ProcessEvent, world
  <1>2. ps # {} /\ pending' = pending \ ps
    BY DEF ProcessEvent, Automatic
  <1>3. CASE head > 0
    <2>1. revisions' = Applied(FALSE, ps)[1] /\ keys' = Applied(FALSE, ps)[2]
      BY <1>1, <1>2, <1>3 DEF EventStore
    <2>2. QED
      BY <1>1, <1>2, <1>3, <2>1, AppliedShows DEF IInv
  <1>4. CASE ~ (head > 0)
    <2>1. revisions' = Applied(TRUE, Paths)[1] /\ keys' = Applied(TRUE, Paths)[2]
      BY <1>1, <1>4 DEF EventStore, Opened
    <2>2. pending \ Paths \subseteq pending'
      BY <1>2 DEF ProcessEvent
    <2>3. QED
      BY <1>1, <2>1, <2>2, AppliedShows DEF IInv
  <1>5. QED
    BY <1>3, <1>4

LEMMA ToolFresh ==
  ASSUME IInv, TwinCurrent, Automatic, ToolEvent
  PROVE  TwinCurrent'
  <1>1. /\ revisions' = EventStore({})[1] /\ keys' = EventStore({})[2]
        /\ tree' = tree /\ pending' = pending
    BY ConsumedAlone DEF ToolEvent, world
  <1>2. QED
    BY <1>1, OpenedShows DEF EventStore, IInv

LEMMA RequestFresh ==
  ASSUME IInv, TwinCurrent, NEW c \in Calls, Request(c)
  PROVE  TwinCurrent' /\ CallCurrent'
  <1>1. /\ revisions' = OpenIfMissing[1] /\ keys' = OpenIfMissing[2] /\ tree' = tree /\ pending' = pending
        /\ call'.head = Len(revisions') /\ call'.fresh = IF pending = {} THEN tree ELSE None
    BY DEF Request, TwinBecomes, world
  <1>2. TwinCurrent'
    BY <1>1, TwinSteps DEF IInv
  <1>3. head' > 0
    <2>1. CASE head = 0
      BY <1>1, <2>1, OpenedShows DEF OpenIfMissing, IInv
    <2>2. CASE head # 0
      BY <1>1, <2>2 DEF OpenIfMissing, IInv, WellTyped, head
    <2>3. QED
      BY <2>1, <2>2
  <1>4. revisions' \in Seq(Revision) /\ tree \in [Paths -> Nat]
    BY <1>1, OpenedExtends DEF IInv, WellTyped, Extends
  <1>5. CASE pending = {}
    <2>1. \A p \in Paths : revisions'[head'].shows[p] = tree[p]
      BY <1>1, <1>2, <1>3, <1>5 DEF TwinCurrent, Shown
    <2>2. revisions'[head'].shows \in [Paths -> Nat]
      <3>1. Len(revisions') \in 1..Len(revisions')
        BY <1>3, <1>4 DEF head
      <3>2. revisions'[Len(revisions')] \in Revision
        BY <1>4, <3>1
      <3>3. QED
        BY <3>2 DEF head, Revision
    <2>3. revisions'[head'].shows = tree
      BY <1>4, <2>1, <2>2
    <2>4. ShowsOf(revisions', call'.head) = tree
      BY <1>1, <1>3, <2>3 DEF ShowsOf, head
    <2>5. QED
      BY <1>1, <1>2, <1>5, <2>4 DEF CallCurrent
  <1>6. CASE pending # {}
    BY <1>1, <1>2, <1>6 DEF CallCurrent
  <1>7. QED
    BY <1>5, <1>6

LEMMA FreshHolds == IInv /\ Fresh /\ [Next]_vars => Fresh'
  <1>1. SUFFICES ASSUME IInv, Fresh, [Next]_vars, Automatic' PROVE (TwinCurrent /\ CallCurrent /\ AnswersAreCurrent)'
    BY DEF Fresh
  <1>2. policy' = policy /\ happens' = happens
    BY <1>1 DEF vars, Next, Edit, Commit, OtherSidecar, Connect, IngestTask, IngestModel, ProcessEvent,
                ToolEvent, IngestRuntime, Request, Answer, Verify, ConvergeTask, Restart
  <1>3. TwinCurrent /\ CallCurrent /\ AnswersAreCurrent /\ Automatic
    BY <1>1, <1>2 DEF Fresh, Automatic
  <1>4. IInv'
    BY <1>1, StepHolds
  <1>5. WellTyped /\ CallAgrees /\ Extends(revisions, revisions)
    BY <1>1 DEF IInv, WellTyped, Extends
  <1>6. CASE UNCHANGED vars
    BY <1>3, <1>6 DEF vars, world, twin, TwinCurrent, KeysTyped, Shown, head, CallCurrent, AnswersAreCurrent
  <1>7. ASSUME NEW p \in Paths, NEW v \in 0..MaxEdits + 1, Edit(p, v)
        PROVE  (TwinCurrent /\ CallCurrent /\ AnswersAreCurrent)'
    <2>1. TwinCurrent'
      BY <1>1, <1>3, <1>7, EditFresh
    <2>2. CallCurrent' /\ AnswersAreCurrent'
      BY <1>3, <1>5, <1>7, CallKept DEF Edit, twin, AnswersAreCurrent
    <2>3. QED
      BY <2>1, <2>2
  <1>8. CASE \/ Commit \/ Restart
             \/ \E caps \in Declared : Connect(caps)
             \/ \E intent \in Tasks : IngestTask(intent)
             \/ \E m \in {"m"} : IngestModel(m)
             \/ \E automatic, verifies \in BOOLEAN : IngestRuntime(automatic, verifies)
    <2>1. /\ tree' = tree /\ pending' = pending /\ answer' = None
          /\ call' = call \/ call' = None
          /\ \/ UNCHANGED twin
             \/ revisions' = Opened[1] /\ keys' = Opened[2]
             \/ revisions' = OpenIfMissing[1] /\ keys' = OpenIfMissing[2]
      BY <1>8 DEF Commit, Restart, Connect, IngestTask, IngestModel, IngestRuntime,
                  TwinBecomes, world
    <2>2. Extends(revisions', revisions)
      BY <1>5, <2>1, OpenedExtends DEF twin
    <2>3. TwinCurrent'
      BY <1>3, <1>5, <2>1, TwinSteps
    <2>4. CallCurrent'
      BY <1>3, <1>5, <2>1, <2>2, CallKept
    <2>5. QED
      BY <2>1, <2>3, <2>4 DEF AnswersAreCurrent
  <1>9. ASSUME NEW ps \in SUBSET Paths, ProcessEvent(ps)
        PROVE  (TwinCurrent /\ CallCurrent /\ AnswersAreCurrent)'
    <2>1. TwinCurrent'
      BY <1>1, <1>3, <1>9, EventFresh
    <2>2. Extends(revisions', revisions) /\ call' = call /\ answer' = None
      BY <1>5, <1>9, ConsumeSteps DEF ProcessEvent
    <2>3. QED
      BY <1>3, <1>5, <2>1, <2>2, CallKept DEF AnswersAreCurrent
  <1>13. CASE ToolEvent
    <2>1. TwinCurrent'
      BY <1>1, <1>3, <1>13, ToolFresh
    <2>2. Extends(revisions', revisions) /\ call' = call /\ answer' = None
      BY <1>5, <1>13, ConsumeSteps DEF ToolEvent
    <2>3. QED
      BY <1>3, <1>5, <2>1, <2>2, CallKept DEF AnswersAreCurrent
  <1>14. ~ OtherSidecar
    BY <1>3 DEF Automatic, OtherSidecar, OtherCommits
  <1>10. ASSUME NEW c \in Calls, Request(c)
         PROVE  (TwinCurrent /\ CallCurrent /\ AnswersAreCurrent)'
    <2>1. answer' = None
      BY <1>10 DEF Request
    <2>2. QED
      BY <1>1, <1>3, <1>10, <2>1, RequestFresh DEF AnswersAreCurrent
  <1>11. CASE Answer \/ (call # None /\ \E items \in [DOMAIN Requirements -> Items] : Verify(items))
    <2>1. /\ UNCHANGED <<world, twin, pending>> /\ call # None /\ call' = None
          /\ answer'.head = call.head /\ answer'.fresh = call.fresh
      <3>1. CASE Answer
        <4>1. UNCHANGED <<world, twin, pending>> /\ call # None /\ call' = None
          BY <3>1 DEF Answer
        <4>2. \E facts : answer' = Answered(facts, None)
          BY <3>1 DEF Answer, Reads
        <4>3. QED
          BY <4>1, <4>2 DEF Answered
      <3>2. CASE call # None /\ \E items \in [DOMAIN Requirements -> Items] : Verify(items)
        BY <3>2 DEF Verify, Answered
      <3>3. QED
        BY <1>11, <3>1, <3>2
    <2>2. TwinCurrent' /\ CallCurrent'
      BY <1>3, <2>1 DEF world, twin, TwinCurrent, KeysTyped, Shown, head, CallCurrent
    <2>3. answer' # None /\ answer'.fresh # None => answer'.facts = answer'.fresh
      BY <1>3, <1>4, <2>1 DEF IInv, AnswersAreOfTheHead, CallCurrent, twin
    <2>4. QED
      BY <2>2, <2>3 DEF AnswersAreCurrent
  <1>12. CASE \E id \in DOMAIN revisions, flags \in Flags, S \in SUBSET Paths,
                e \in [status : {"verified", "failed"}, source : 0..commit] :
                ConvergeTask(id, [r \in S |-> e], flags)
    <2>1. UNCHANGED <<world, twin, pending, call>> /\ answer'.fresh = None
      BY <1>12 DEF ConvergeTask
    <2>2. QED
      BY <1>3, <2>1 DEF world, twin, TwinCurrent, KeysTyped, Shown, head, CallCurrent, AnswersAreCurrent
  <1>15. QED
    BY <1>1, <1>6, <1>7, <1>8, <1>9, <1>10, <1>11, <1>12, <1>13, <1>14 DEF Next

(* Where the policy lets the sidecar compute by itself, and it is the only *)
(* one of its project and no queue was full, every answer is of the        *)
(* worktree once the plugin has delivered every change of it: for any      *)
(* files, edits, commits and batches, although a refresh by a batch is     *)
(* stamped with the whole worktree.  (process_event with refresh and open, *)
(* _snapshot.)                                                             *)
THEOREM ActiveAnswersStayCurrent == Spec => []ActiveAnswersAreCurrent
  <1>1. Init => Fresh
    BY DEF Init, Fresh, TwinCurrent, KeysTyped, head, CallCurrent, AnswersAreCurrent
  <1>2. Fresh => ActiveAnswersAreCurrent
    BY DEF Fresh, Automatic, ActiveAnswersAreCurrent
  <1>3. QED
    BY InitHolds, StepHolds, FreshHolds, <1>1, <1>2, PTL DEF Spec

(***************************************************************************)
(* The shadow plan.                                                        *)
(***************************************************************************)

(* What a runtime negotiated is no part of the plan.                       *)
LEMMA CapsUnplanned ==
  ASSUME NEW s \in Signals, NEW caps, NEW p
  PROVE  IntelligencePlan([s EXCEPT !.caps = caps], p) = IntelligencePlan(s, p)
  <1> DEFINE t == [s EXCEPT !.caps = caps]
  <1>1. /\ t.task = s.task /\ t.changed = s.changed /\ t.model = s.model
        /\ t.tools = s.tools /\ t.checks = s.checks
    BY DEF Signals
  <1> HIDE DEF t
  <1>2. IntelligencePlan(t, p) = IntelligencePlan(s, p)
    BY <1>1, Zenon DEF IntelligencePlan
  <1>3. QED
    BY <1>2 DEF t

(* No intent of a task is mistaken for the lack of a task.                 *)
LEMMA TasksAreIntents == "none" \notin Tasks
  <1>1. "none" \notin Intents
    BY DEF Intents, Wants
  <1>2. QED
    BY <1>1, ApplicationAssumption

(* Collecting replans, unless there is no task to plan for.                *)
LEMMA CollectFollows ==
  ASSUME PlanFollowsSignals, UNCHANGED policy, NEW c, c.task = collector.task \/ c.task # "none",
         Collect(c) \/ UNCHANGED guide
  PROVE  PlanFollowsSignals'
  BY DEF PlanFollowsSignals, Collect, Planned, guide

LEMMA PlanStep == IInv /\ PlanFollowsSignals /\ [Next]_vars => PlanFollowsSignals'
  <1>1. SUFFICES ASSUME IInv, PlanFollowsSignals, [Next]_vars PROVE PlanFollowsSignals'
    OBVIOUS
  <1>2. collector \in Signals
    BY <1>1 DEF IInv, WellTyped
  <1>3. ASSUME UNCHANGED <<policy, guide>> PROVE PlanFollowsSignals'
    BY <1>1, <1>3 DEF PlanFollowsSignals, guide
  <1>4. ASSUME NEW caps \in Declared, Connect(caps) PROVE PlanFollowsSignals'
    <2>1. collector' = [collector EXCEPT !.caps = caps] /\ UNCHANGED <<policy, plan>>
      BY <1>4 DEF Connect
    <2>2. collector'.task = collector.task
      BY <1>2, <2>1 DEF Signals
    <2>3. IntelligencePlan(collector', policy') = IntelligencePlan(collector, policy)
      BY <1>2, <2>1, CapsUnplanned
    <2>4. QED
      BY <1>1, <2>1, <2>2, <2>3 DEF PlanFollowsSignals
  <1>5. ASSUME NEW intent \in Tasks, IngestTask(intent) PROVE PlanFollowsSignals'
    <2> DEFINE c == [collector EXCEPT !.task = intent]
    <2>1. c.task # "none"
      BY <1>2, TasksAreIntents DEF Signals
    <2>2. (Collect(c) \/ UNCHANGED guide) /\ UNCHANGED policy
      BY <1>5 DEF IngestTask, Collected
    <2>3. QED
      BY <1>1, <2>1, <2>2, CollectFollows
  <1>6. ASSUME NEW m \in {"m"}, IngestModel(m) PROVE PlanFollowsSignals'
    <2> DEFINE c == [collector EXCEPT !.model = m]
    <2>1. c.task = collector.task
      BY <1>2 DEF Signals
    <2>2. (Collect(c) \/ UNCHANGED guide) /\ UNCHANGED policy
      BY <1>6 DEF IngestModel, Collected
    <2>3. QED
      BY <1>1, <2>1, <2>2, CollectFollows
  <1>7. ASSUME NEW ps \in SUBSET Paths, ProcessEvent(ps) PROVE PlanFollowsSignals'
    <2> DEFINE c == [collector EXCEPT !.changed = ps]
    <2>1. c.task = collector.task
      BY <1>2 DEF Signals
    <2>2. (Collect(c) \/ UNCHANGED guide) /\ UNCHANGED policy
      BY <1>7 DEF ProcessEvent, Collected
    <2>3. QED
      BY <1>1, <2>1, <2>2, CollectFollows
  <1>8. ASSUME NEW automatic \in BOOLEAN, NEW verifies \in BOOLEAN,
               IngestRuntime(automatic, verifies)
        PROVE  PlanFollowsSignals'
    <2> DEFINE tool == "tool" \in collector.caps
               check == verifies /\ "verification" \in collector.caps
               c == [collector EXCEPT !.tools = @ \/ tool, !.checks = @ \/ check]
    <2>1. c.task = collector.task
      BY <1>2 DEF Signals
    <2>2. (Collect(c) \/ UNCHANGED guide) /\ UNCHANGED policy
      BY <1>8 DEF IngestRuntime, ObservationCollected
    <2>3. QED
      BY <1>1, <2>1, <2>2, CollectFollows
  <1>9. ASSUME Restart PROVE PlanFollowsSignals'
    BY <1>9 DEF Restart, PlanFollowsSignals, NoSignals
  <1>10. CASE UNCHANGED vars
    BY <1>3, <1>10 DEF vars, guide
  <1>11. CASE Next
    <2>1. CASE \/ \E p \in Paths, v \in 0..MaxEdits + 1 : Edit(p, v)
               \/ Commit \/ OtherSidecar \/ ToolEvent
      BY <1>3, <2>1 DEF Edit, Commit, OtherSidecar, ToolEvent
    <2>2. CASE (\E c \in Calls : Request(c)) \/ Answer
      BY <1>3, <2>2 DEF Request, Answer
    <2>3. CASE call # None /\ \E items \in [DOMAIN Requirements -> Items] : Verify(items)
      BY <1>3, <2>3 DEF Verify
    <2>4. CASE \E id \in DOMAIN revisions, flags \in Flags, S \in SUBSET Paths,
                 e \in [status : {"verified", "failed"}, source : 0..commit] :
                 ConvergeTask(id, [r \in S |-> e], flags)
      BY <1>3, <2>4 DEF ConvergeTask
    <2>5. QED
      BY <1>4, <1>5, <1>6, <1>7, <1>8, <1>9, <1>11, <2>1, <2>2, <2>3, <2>4 DEF Next
  <1>12. QED
    BY <1>1, <1>10, <1>11

(* The shadow plan is the one build_intelligence_plan makes of all signals *)
(* collected so far, whichever handler collected the last one and whether  *)
(* a task was known by then (_refresh_shadow_plan).                        *)
THEOREM PlanStaysCurrent == Spec => []PlanFollowsSignals
  <1>1. Init => PlanFollowsSignals
    BY DEF Init, PlanFollowsSignals, NoSignals
  <1>2. QED
    BY InitHolds, StepHolds, <1>1, PlanStep, PTL DEF Spec

-----------------------------------------------------------------------------
(***************************************************************************)
(* Completion.                                                             *)
(***************************************************************************)

States == {"blocked", "absent", "partial", "materialized", "unverified", "divergent",
           "observed", "verified", "stale"}

(* decide_convergence completes only what it has nothing left to say of.   *)
LEMMA CompleteStates ==
  ASSUME NEW elements, NEW actual, NEW verification, NEW flags,
         EvaluateConvergence(elements, actual, verification, flags).decision = "complete",
         NEW i \in DOMAIN elements
  PROVE  StateOf(elements[i], actual, verification) \in {"materialized", "verified"}
  <1> DEFINE states == [n \in DOMAIN elements |-> StateOf(elements[n], actual, verification)]
  <1>1. states[i] \in States
    BY DEF StateOf, States, VerifiedState
  <1>2. Decide(elements, states, flags).decision = "complete"
    BY DEF EvaluateConvergence
  <1> HIDE DEF states
  <1>3. \A n \in DOMAIN states :
          states[n] \notin {"divergent", "absent", "blocked", "partial", "observed", "stale",
                            "unverified"}
    BY <1>2 DEF Decide
  <1>4. i \in DOMAIN states /\ states[i] = StateOf(elements[i], actual, verification)
    BY DEF states
  <1>5. QED
    BY <1>1, <1>3, <1>4 DEF States

(* What _element_result asks before an element counts.                     *)
LEMMA ElementStands ==
  ASSUME NEW element, NEW actual, NEW verification,
         StateOf(element, actual, verification) \in {"materialized", "verified"}
  PROVE  /\ \A k \in DOMAIN element.expects : element.expects[k] \in actual.refs
         /\ element.verify =>
              \E k \in DOMAIN element.expects :
                /\ element.expects[k] \in DOMAIN verification
                /\ verification[element.expects[k]].status = "verified"
                /\ verification[element.expects[k]].source = actual.source
  <1> DEFINE found == EvidenceFor(element, verification)
             matched == { k \in DOMAIN element.expects : element.expects[k] \in actual.refs }
  <1>1. matched = DOMAIN element.expects
    BY DEF StateOf
  <1>2. ASSUME element.verify
        PROVE  \E e \in found : e.status = "verified" /\ e.source = actual.source
    <2> DEFINE e == CHOOSE x \in found : TRUE
    <2>1. found # {} /\ e \in found
      BY <1>2 DEF StateOf
    <2>2. e.status = "verified" /\ VerifiedState(e, actual) = "verified"
      BY <1>2 DEF StateOf, VerifiedState
    <2>3. e.source = actual.source
      BY <2>2 DEF VerifiedState
    <2>4. QED
      BY <2>1, <2>2, <2>3
  <1>3. QED
    BY <1>1, <1>2 DEF EvidenceFor

(* A set of indices has a last.                                            *)
LEMMA Greatest ==
  ASSUME NEW n \in Nat, NEW S, S \subseteq 1..n, S # {}
  PROVE  \E i \in S : \A j \in S : j <= i
  <1> DEFINE Final == {m..n : m \in S}
  <1>1. \A m \in S : m..n \in FiniteSubsetsOf(Nat)
    BY FS_Interval DEF FiniteSubsetsOf
  <1>2. Final \subseteq FiniteSubsetsOf(Nat) /\ Final # {}
    BY <1>1
  <1>3. PICK f \in Final : \A g \in Final : ~ (<<g, f>> \in StrictSubsetOrdering(Nat))
    <2> HIDE DEF Final
    <2>1. QED
      BY <1>2, FS_StrictSubsetOrderingWellFounded, WFMin
  <1>4. PICK i \in S : f = i..n
    OBVIOUS
  <1>5. ASSUME NEW j \in S, ~ (j <= i) PROVE FALSE
    <2>1. i \in Nat /\ j \in Nat /\ i < j /\ j <= n
      BY <1>5
    <2>2. j..n \subseteq i..n /\ i \in i..n /\ i \notin j..n
      BY <2>1
    <2>3. <<j..n, i..n>> \in StrictSubsetOrdering(Nat)
      BY <2>1, <2>2 DEF StrictSubsetOrdering
    <2>4. QED
      BY <1>3, <1>4, <2>3
  <1>6. QED
    BY <1>5

(* Evidence of a ref is that of an item that speaks of it and was given.   *)
LEMMA EvidenceIsGiven ==
  ASSUME NEW n \in Nat, NEW items, DOMAIN items = 1..n, NEW source,
         NEW ref \in DOMAIN VerificationOf(items, source),
         VerificationOf(items, source)[ref].status = "verified",
         VerificationOf(items, source)[ref].source = source
  PROVE  \E i \in DOMAIN items :
           /\ items[i].given /\ ~ items[i].external /\ ref \in items[i].refs
           /\ "verified" \in items[i].statuses /\ items[i].source = source
  <1> DEFINE speaks == { i \in DOMAIN items : items[i].given /\ ref \in items[i].refs }
             last == CHOOSE i \in speaks : \A j \in speaks : j <= i
  <1>1. speaks \subseteq 1..n /\ speaks # {}
    BY DEF VerificationOf
  <1>2. \E i \in speaks : \A j \in speaks : j <= i
    <2> HIDE DEF speaks
    <2>1. QED
      BY <1>1, Greatest
  <1>3. last \in speaks
    BY <1>2
  <1>4. /\ StatusOf(items[last], source) = "verified" /\ items[last].source = source
    BY DEF VerificationOf
  <1>5. ~ items[last].external /\ "verified" \in items[last].statuses
    BY <1>4 DEF StatusOf
  <1>6. QED
    BY <1>3, <1>4, <1>5

(* What is complete is supported by the items given.                       *)
LEMMA SupportedBy ==
  ASSUME NEW elements, NEW actual, NEW verification, NEW flags, NEW given,
         EvaluateConvergence(elements, actual, verification, flags).decision = "complete",
         \A ref \in DOMAIN verification :
           verification[ref].status = "verified" /\ verification[ref].source = actual.source =>
             \E item \in given : /\ "verified" \in item.statuses /\ item.source = actual.source
                                 /\ ref \in item.refs
  PROVE  Supported(elements, given, actual)
  <1>1. SUFFICES ASSUME NEW i \in DOMAIN elements
                 PROVE  LET expects == { elements[i].expects[k] : k \in DOMAIN elements[i].expects }
                        IN  /\ expects \subseteq actual.refs
                            /\ elements[i].verify =>
                                 \E item \in given :
                                   /\ "verified" \in item.statuses /\ item.source = actual.source
                                   /\ expects \cap item.refs # {}
    BY DEF Supported
  <1>2. StateOf(elements[i], actual, verification) \in {"materialized", "verified"}
    BY CompleteStates
  <1>3. /\ \A k \in DOMAIN elements[i].expects : elements[i].expects[k] \in actual.refs
        /\ elements[i].verify =>
             \E k \in DOMAIN elements[i].expects :
               /\ elements[i].expects[k] \in DOMAIN verification
               /\ verification[elements[i].expects[k]].status = "verified"
               /\ verification[elements[i].expects[k]].source = actual.source
    BY <1>2, ElementStands
  <1>4. QED
    BY <1>3

LEMMA VerifyCompletes ==
  ASSUME NEW items \in [DOMAIN Requirements -> Items], Verify(items)
  PROVE  CompleteIsVerified'
  <1> DEFINE actual == [ActualOf(call.snapshot.id) EXCEPT !.refs = Refs(call.snapshot.shows)]
             given == { items[i] : i \in { j \in DOMAIN items : items[j].given /\ ~ items[j].external } }
             verification == VerificationOf(items, actual.source)
             decision == EvaluateRequirements(Requirements, actual, items).decision
  <1>1. answer' = Answered(call.snapshot.shows, Verdict(decision, Requirements, given, actual))
    BY DEF Verify
  <1>2. DOMAIN items = 1..Len(Requirements) /\ Len(Requirements) \in Nat
    BY ApplicationAssumption DEF ApplicationAssumption
  <1>3. \A ref \in DOMAIN verification :
          verification[ref].status = "verified" /\ verification[ref].source = actual.source =>
            \E item \in given : /\ "verified" \in item.statuses /\ item.source = actual.source
                                /\ ref \in item.refs
    <2> HIDE DEF actual
    <2>1. QED
      BY <1>2, EvidenceIsGiven
  <1>4. decision = EvaluateConvergence(Requirements, actual, verification, NoFlags).decision
    BY DEF EvaluateRequirements
  <1> HIDE DEF actual, given, verification
  <1>5. decision = "complete" => Supported(Requirements, given, actual)
    BY <1>3, <1>4, SupportedBy
  <1>6. answer'.verdict.decision = decision /\ answer'.verdict.supported = Supported(Requirements, given, actual)
    BY <1>1 DEF Answered, Verdict
  <1>7. QED
    BY <1>5, <1>6 DEF CompleteIsVerified, Complete

LEMMA ConvergeCompletes ==
  ASSUME NEW id, NEW verification, NEW flags, ConvergeTask(id, verification, flags)
  PROVE  CompleteIsVerified'
  <1> DEFINE actual == ActualOf(id)
             given == { [refs |-> {r}, statuses |-> {verification[r].status},
                         source |-> verification[r].source] : r \in DOMAIN verification }
             decision == EvaluateConvergence(Target, actual, verification, flags).decision
  <1>1. answer'.verdict = Verdict(decision, Target, given, actual)
    BY DEF ConvergeTask
  <1>2. \A ref \in DOMAIN verification :
          verification[ref].status = "verified" /\ verification[ref].source = actual.source =>
            \E item \in given : /\ "verified" \in item.statuses /\ item.source = actual.source
                                /\ ref \in item.refs
    <2>1. SUFFICES ASSUME NEW ref \in DOMAIN verification,
                          verification[ref].status = "verified",
                          verification[ref].source = actual.source
                   PROVE  \E item \in given : /\ "verified" \in item.statuses
                                             /\ item.source = actual.source /\ ref \in item.refs
      OBVIOUS
    <2> DEFINE item == [refs |-> {ref}, statuses |-> {verification[ref].status},
                        source |-> verification[ref].source]
    <2>2. item \in given /\ ref \in item.refs
      OBVIOUS
    <2>3. "verified" \in item.statuses /\ item.source = actual.source
      BY <2>1
    <2>4. QED
      BY <2>2, <2>3
  <1> HIDE DEF actual, given
  <1>3. decision = "complete" => Supported(Target, given, actual)
    BY <1>2, SupportedBy
  <1>4. answer'.verdict.decision = decision /\ answer'.verdict.supported = Supported(Target, given, actual)
    BY <1>1 DEF Verdict
  <1>5. QED
    BY <1>3, <1>4 DEF CompleteIsVerified, Complete

(* COMPLETE is told only of a target that is there and verified, for any   *)
(* elements, evidence, flags and history (decide_convergence and           *)
(* evaluate_project_requirements).                                         *)
THEOREM CompletionIsEarned == Spec => []CompleteIsVerified
  <1>1. Init => CompleteIsVerified
    BY DEF Init, CompleteIsVerified, Complete
  <1>2. CompleteIsVerified /\ [Next]_vars => CompleteIsVerified'
    <2>1. SUFFICES ASSUME CompleteIsVerified, [Next]_vars PROVE CompleteIsVerified'
      OBVIOUS
    <2>2. CASE UNCHANGED vars
      BY <2>1, <2>2 DEF vars, CompleteIsVerified, Complete
    <2>3. ASSUME NEW items \in [DOMAIN Requirements -> Items], Verify(items)
          PROVE  CompleteIsVerified'
      BY <2>3, VerifyCompletes
    <2>4. ASSUME NEW id, NEW verification, NEW flags, ConvergeTask(id, verification, flags)
          PROVE  CompleteIsVerified'
      BY <2>4, ConvergeCompletes
    <2>5. CASE Answer
      <3>1. answer'.verdict = None
        <4>1. CASE Reads(call.name) = "symbols"
          BY <2>5, <4>1 DEF Answer, Answered
        <4>2. CASE Reads(call.name) = "analysis"
          BY <2>5, <4>2 DEF Answer, Answered
        <4>3. CASE Reads(call.name) = "snapshot"
          BY <2>5, <4>3 DEF Answer, Answered
        <4>4. QED
          BY <4>1, <4>2, <4>3 DEF Reads
      <3>2. QED
        BY <3>1 DEF CompleteIsVerified, Complete
    <2>6. ASSUME answer' = None PROVE CompleteIsVerified'
      BY <2>6 DEF CompleteIsVerified, Complete
    <2>7. CASE \/ \E p \in Paths, v \in 0..MaxEdits + 1 : Edit(p, v)
               \/ Commit \/ OtherSidecar
               \/ \E caps \in Declared : Connect(caps)
               \/ \E intent \in Tasks : IngestTask(intent)
               \/ \E m \in {"m"} : IngestModel(m)
               \/ \E ps \in SUBSET Paths : ProcessEvent(ps)
               \/ ToolEvent
               \/ \E automatic, verifies \in BOOLEAN : IngestRuntime(automatic, verifies)
               \/ \E c \in Calls : Request(c)
               \/ Restart
      <3>1. answer' = None
        BY <2>7 DEF Edit, Commit, OtherSidecar, Connect, IngestTask, IngestModel, ProcessEvent,
                    ToolEvent, IngestRuntime, Request, Restart
      <3>2. QED
        BY <3>1, <2>6
    <2>8. QED
      BY <2>1, <2>2, <2>3, <2>4, <2>5, <2>7 DEF Next
  <1>3. QED
    BY <1>1, <1>2, PTL DEF Spec

-----------------------------------------------------------------------------
(* The model router.                                                       *)

Fields == {"step", "request", "candidates", "index", "tries", "attempts", "good"}
Steps == {"endpoint", "attempt", "message", "history", "release"}

(* What a request under way looks like; its candidates stay the same.      *)
Candidate == {exchange.candidates[n] : n \in Nat}

Underway ==
  exchange # Idle =>
    /\ models # Unresolved /\ DOMAIN exchange = Fields
    /\ exchange.step \in Steps /\ exchange.index \in Nat /\ exchange.index >= 1
    /\ exchange.attempts \in Seq(Candidate)
    /\ exchange.step \in {"message", "history", "release"} => Len(exchange.attempts) > 0

NoFallback == ~ (models # Unresolved /\ models.allow_local_fallback)

(* The property of one list of attempts, and where it leaves the request.  *)
Level(attempts) ==
  \A m, n \in DOMAIN attempts :
    m < n /\ Locality(attempts[m]) # "local" => Locality(attempts[n]) # "local"

Descent ==
  NoFallback =>
    /\ exchange = Idle => Level(response.attempts)
    /\ exchange # Idle =>
         /\ Level(exchange.attempts)
         /\ \A m \in DOMAIN exchange.attempts : Locality(exchange.attempts[m]) # "local" =>
              IF exchange.step = "endpoint"
              THEN exchange.index > 1 /\ Locality(exchange.candidates[exchange.index - 1]) # "local"
              ELSE Locality(exchange.candidates[exchange.index]) # "local"

Held ==
  /\ \A s \in sessions : DOMAIN s = {"id", "lost"}
  /\ \A s \in sessions : s.lost = "none" =>
       exchange # Idle /\ exchange.step \in {"message", "history", "release"} /\ s.id = Session

RoutingInv == Underway /\ Descent /\ Held

USE DEF Idle, Steps

LEMMA RoutingStarts == RoutingInit => RoutingInv
  BY DEF RoutingInit, RoutingInv, Underway, Descent, Level, Held, Unavailable

LEMMA ExecuteHolds ==
  ASSUME RoutingInv, NEW request \in Requests, Execute(request)
  PROVE  RoutingInv'
  <1>1. /\ models' = models /\ sessions' = sessions /\ response' = Unavailable /\ exchange = Idle
        /\ \/ exchange' = Idle
           \/ /\ exchange'.step = "endpoint" /\ exchange'.index = 1 /\ exchange'.attempts = <<>>
              /\ exchange' # Idle /\ DOMAIN exchange' = Fields /\ models # Unresolved
    BY DEF Execute, Fields
  <1>2. Underway'
    <2>1. <<>> \in Seq(Candidate')
      OBVIOUS
    <2>2. CASE exchange' = Idle
      BY <2>2 DEF Underway
    <2>3. CASE exchange' # Idle
      <3>1. exchange'.step \in Steps /\ exchange'.index \in Nat /\ exchange'.index >= 1
            /\ exchange'.step \notin {"message", "history", "release"}
        BY <1>1, <2>3
      <3>2. models' # Unresolved /\ DOMAIN exchange' = Fields /\ exchange'.attempts \in Seq(Candidate')
        BY <1>1, <2>1, <2>3
      <3>3. QED
        BY <3>1, <3>2 DEF Underway
    <2>4. QED
      BY <2>2, <2>3
  <1>3. Descent'
    BY <1>1 DEF Descent, Level, Unavailable
  <1>4. Held'
    BY <1>1 DEF RoutingInv, Held
  <1>5. QED
    BY <1>2, <1>3, <1>4 DEF RoutingInv

(***************************************************************************)
(* The steps of a request.  Each ends it, keeps its place, goes on to the  *)
(* next candidate, or makes an attempt where it stands.                    *)
(***************************************************************************)

Ends(c) == exchange' = Idle /\ response'.attempts = c.attempts

(* The call as it is, or with one attempt at the current candidate more.   *)
Attempted(c) ==
  /\ DOMAIN c = Fields /\ c.candidates = exchange.candidates /\ c.index = exchange.index /\ c # Idle
  /\ c.attempts = exchange.attempts \/ c.attempts = Append(exchange.attempts, Current)

LEMMA AttemptKept ==
  ASSUME RoutingInv, exchange # Idle, NEW c, Attempted(c),
         (exchange.step = "endpoint" /\ NoFallback /\ exchange.index > 1 /\ Locality(Current) = "local")
           => Locality(exchange.candidates[exchange.index - 1]) = "local"
  PROVE  /\ c.attempts \in Seq(Candidate)
         /\ NoFallback =>
              /\ Level(c.attempts)
              /\ \A m \in DOMAIN c.attempts : Locality(c.attempts[m]) # "local" =>
                   Locality(Current) # "local"
  <1> DEFINE a == exchange.attempts
  <1>1. a \in Seq(Candidate) /\ Current \in Candidate
    BY DEF RoutingInv, Underway, Candidate, Current
  <1>2. NoFallback =>
          /\ Level(a)
          /\ \A m \in DOMAIN a : Locality(a[m]) # "local" => Locality(Current) # "local"
    BY DEF RoutingInv, Descent, Current
  <1>3. CASE c.attempts = a
    BY <1>1, <1>2, <1>3
  <1>4. CASE c.attempts = Append(a, Current)
    <2>1. /\ c.attempts \in Seq(Candidate) /\ Len(c.attempts) = Len(a) + 1
          /\ DOMAIN a = 1..Len(a) /\ DOMAIN c.attempts = 1..Len(a) + 1 /\ Len(a) \in Nat
          /\ c.attempts[Len(a) + 1] = Current
          /\ \A n \in 1..Len(a) : c.attempts[n] = a[n]
      BY <1>1, <1>4
    <2>2. ASSUME NoFallback
          PROVE  \A m \in DOMAIN c.attempts : Locality(c.attempts[m]) # "local" =>
                   Locality(Current) # "local"
      BY <1>2, <2>1, <2>2
    <2>3. ASSUME NoFallback PROVE Level(c.attempts)
      <3>1. SUFFICES ASSUME NEW m \in DOMAIN c.attempts, NEW n \in DOMAIN c.attempts, m < n,
                            Locality(c.attempts[m]) # "local"
                     PROVE  Locality(c.attempts[n]) # "local"
        BY DEF Level
      <3>2. m \in DOMAIN a /\ c.attempts[m] = a[m]
        BY <2>1, <3>1
      <3>3. CASE n \in DOMAIN a
        BY <1>2, <2>1, <2>3, <3>1, <3>2, <3>3 DEF Level
      <3>4. CASE n \notin DOMAIN a
        BY <1>2, <2>1, <2>3, <3>1, <3>2, <3>4
      <3>5. QED
        BY <3>3, <3>4
    <2>4. QED
      BY <2>1, <2>2, <2>3
  <1>5. QED
    BY <1>3, <1>4 DEF Attempted

(* Where a step leaves the call: over, at the next candidate, or here.     *)
LEMMA OnwardHolds ==
  ASSUME RoutingInv, exchange # Idle, models' = models, NEW c, Attempted(c),
         (exchange.step = "endpoint" /\ NoFallback /\ exchange.index > 1 /\ Locality(Current) = "local")
           => Locality(exchange.candidates[exchange.index - 1]) = "local",
         \/ Ends(c)
         \/ /\ exchange' # Idle /\ DOMAIN exchange' = Fields /\ exchange'.step \in Steps
            /\ exchange'.candidates = c.candidates /\ exchange'.attempts = c.attempts
            /\ exchange'.step \in {"message", "history", "release"} => Len(c.attempts) > 0
            /\ \/ exchange'.index = c.index + 1 /\ exchange'.step = "endpoint"
               \/ exchange'.index = c.index /\ exchange'.step # "endpoint"
  PROVE  Underway' /\ Descent'
  <1>1. /\ c.attempts \in Seq(Candidate)
        /\ NoFallback =>
              /\ Level(c.attempts)
              /\ \A m \in DOMAIN c.attempts : Locality(c.attempts[m]) # "local" =>
                   Locality(Current) # "local"
    BY AttemptKept
  <1>2. CASE Ends(c)
    BY <1>1, <1>2 DEF Ends, Underway, Descent, NoFallback, Level, Locality
  <1>3. CASE ~ Ends(c)
    <2>1. /\ exchange'.candidates = exchange.candidates /\ exchange'.attempts = c.attempts
          /\ exchange.index \in Nat /\ exchange.index >= 1 /\ c.index = exchange.index
      BY <1>3 DEF Attempted, RoutingInv, Underway
    <2>2. Candidate' = Candidate
      BY <2>1 DEF Candidate
    <2>3. Underway'
      BY <1>1, <1>3, <2>1, <2>2 DEF RoutingInv, Underway
    <2>4. exchange'.index = exchange.index + 1 => exchange'.candidates[exchange'.index - 1] = Current
      BY <2>1 DEF Current
    <2>5. exchange'.index = exchange.index => exchange'.candidates[exchange'.index] = Current
      BY <2>1 DEF Current
    <2>6. ASSUME NoFallback
          PROVE  /\ Level(exchange'.attempts)
                 /\ \A m \in DOMAIN exchange'.attempts : Locality(exchange'.attempts[m]) # "local" =>
                      IF exchange'.step = "endpoint"
                      THEN exchange'.index > 1 /\ Locality(exchange'.candidates[exchange'.index - 1]) # "local"
                      ELSE Locality(exchange'.candidates[exchange'.index]) # "local"
      BY <1>1, <1>3, <2>1, <2>4, <2>5, <2>6
    <2>7. Descent'
      BY <1>3, <2>6 DEF Descent, NoFallback, Level, Locality
    <2>8. QED
      BY <2>3, <2>7
  <1>4. QED
    BY <1>2, <1>3

LEMMA TurnHolds ==
  ASSUME RoutingInv, Turn
  PROVE  RoutingInv'
  <1>1. exchange # Idle /\ exchange.step = "endpoint" /\ models' = models /\ sessions' = sessions
    BY DEF Turn
  <1>2. models # Unresolved /\ DOMAIN exchange = Fields /\ exchange.index \in Nat /\ exchange.index >= 1
        /\ exchange.attempts \in Seq(Candidate)
    BY <1>1 DEF RoutingInv, Underway
  <1>3. Held'
    BY <1>1 DEF RoutingInv, Held
  <1>4. CASE Raised
    <2>1. exchange' = Idle /\ response'.attempts = exchange.attempts
      BY <1>4 DEF Raised, Unavailable
    <2>2. Underway' /\ Descent'
      BY <1>1, <2>1 DEF RoutingInv, Underway, Descent, NoFallback, Level, Locality
    <2>3. QED
      BY <1>3, <2>2 DEF RoutingInv
  <1>5. CASE ~ Raised
    <2>1. /\ exchange.index > 1 => FallbackAllowed(exchange.candidates[exchange.index - 1], Current)
          /\ \/ exchange' = Following(Tried)
             \/ exchange' = [exchange EXCEPT !.step = "attempt"]
      BY <1>5 DEF Turn, Forbidden, Continues
    <2>2. NoFallback /\ exchange.index > 1 /\ Locality(Current) = "local"
            => Locality(exchange.candidates[exchange.index - 1]) = "local"
      BY <1>2, <2>1 DEF FallbackAllowed, NoFallback
    <2>3. CASE exchange' = Following(Tried)
      <3>1. Attempted(Tried)
        BY <1>1, <1>2 DEF Attempted, Tried, Fields
      <3>2. /\ exchange' # Idle /\ DOMAIN exchange' = Fields /\ exchange'.step = "endpoint"
            /\ exchange'.candidates = Tried.candidates /\ exchange'.attempts = Tried.attempts
            /\ exchange'.index = Tried.index + 1
        BY <1>2, <2>3 DEF Following, Tried, Fields
      <3>3. QED
        BY <1>1, <1>3, <2>2, <3>1, <3>2, OnwardHolds DEF RoutingInv
    <2>4. CASE exchange' = [exchange EXCEPT !.step = "attempt"]
      <3>1. Attempted(exchange)
        BY <1>1, <1>2 DEF Attempted
      <3>2. /\ exchange' # Idle /\ DOMAIN exchange' = Fields /\ exchange'.step = "attempt"
            /\ exchange'.candidates = exchange.candidates /\ exchange'.attempts = exchange.attempts
            /\ exchange'.index = exchange.index
        BY <1>2, <2>4 DEF Fields
      <3>3. QED
        BY <1>1, <1>3, <2>2, <3>1, <3>2, OnwardHolds DEF RoutingInv
    <2>5. QED
      BY <2>1, <2>3, <2>4
  <1>6. QED
    BY <1>4, <1>5

(* An attempt that failed is made again, or the next candidate is tried.   *)
LEMMA FailedOnward ==
  ASSUME RoutingInv, exchange # Idle, exchange.step # "endpoint", models' = models, NEW c, Attempted(c),
         exchange' = Failed(c)
  PROVE  Underway' /\ Descent' /\ exchange' # Idle
  <1>1. DOMAIN c = Fields
    BY DEF Attempted
  <1>2. CASE exchange' = [c EXCEPT !.tries = @ + 1, !.step = "attempt"]
    <2>1. /\ exchange' # Idle /\ DOMAIN exchange' = Fields /\ exchange'.step = "attempt"
          /\ exchange'.candidates = c.candidates /\ exchange'.attempts = c.attempts
          /\ exchange'.index = c.index
      BY <1>1, <1>2 DEF Fields
    <2>2. QED
      BY <2>1, OnwardHolds
  <1>3. CASE exchange' = Following(c)
    <2>1. /\ exchange' # Idle /\ DOMAIN exchange' = Fields /\ exchange'.step = "endpoint"
          /\ exchange'.candidates = c.candidates /\ exchange'.attempts = c.attempts
          /\ exchange'.index = c.index + 1
      BY <1>1, <1>3 DEF Fields, Following
    <2>2. QED
      BY <2>1, OnwardHolds
  <1>4. QED
    BY <1>2, <1>3 DEF Failed

(* The two forms the call can be in when a step goes on from it.           *)
LEMMA Forms ==
  ASSUME RoutingInv, exchange # Idle
  PROVE  /\ Attempted(exchange) /\ Attempted(Tried) /\ Len(Tried.attempts) > 0
         /\ DOMAIN exchange = Fields /\ DOMAIN Tried = Fields
  <1>1. DOMAIN exchange = Fields /\ exchange.attempts \in Seq(Candidate) /\ Current \in Candidate
    BY DEF RoutingInv, Underway, Candidate, Current
  <1>2. /\ DOMAIN Tried = Fields /\ Tried.attempts = Append(exchange.attempts, Current)
        /\ Tried.candidates = exchange.candidates /\ Tried.index = exchange.index /\ Tried # Idle
    BY <1>1 DEF Tried, Fields
  <1>3. Len(Append(exchange.attempts, Current)) > 0
    BY <1>1
  <1>4. Attempted(exchange) /\ Attempted(Tried)
    BY <1>1, <1>2 DEF Attempted
  <1>5. QED
    BY <1>1, <1>2, <1>3, <1>4

LEMMA CompleteHolds ==
  ASSUME RoutingInv, NEW outcome \in Outcomes, NEW arrives \in BOOLEAN, CompleteOpenAI(outcome, arrives)
  PROVE  RoutingInv'
  <1>1. /\ exchange # Idle /\ exchange.step = "attempt" /\ models' = models /\ sessions' = sessions
        /\ \/ Ends(Tried)
           \/ exchange' = Failed(Tried)
    BY DEF CompleteOpenAI, Responded, Continues, Ends
  <1>2. Underway' /\ Descent'
    BY <1>1, Forms, FailedOnward, OnwardHolds
  <1>3. Held'
    BY <1>1 DEF RoutingInv, Held
  <1>4. QED
    BY <1>2, <1>3 DEF RoutingInv

LEMMA CreateSessionHolds ==
  ASSUME RoutingInv, NEW outcome \in Outcomes, NEW arrives \in BOOLEAN, CreateSession(outcome, arrives)
  PROVE  RoutingInv'
  <1>1. /\ exchange # Idle /\ exchange.step = "attempt" /\ models' = models /\ asked' = asked
        /\ \A s \in sessions' : DOMAIN s = {"id", "lost"}
        /\ \A s \in sessions' :
             \/ s \in sessions \/ s.lost = "create"
             \/ outcome = "good" /\ s.id = <<asked, Len(Tried.attempts)>>
    BY DEF CreateSession, RoutingInv, Held
  <1>2. \A s \in sessions : s.lost # "none"
    BY <1>1 DEF RoutingInv, Held
  <1>3. CASE outcome = "good"
    <2>1. exchange' = [Tried EXCEPT !.step = "message"]
      BY <1>3 DEF CreateSession, Continues
    <2>2. /\ exchange' # Idle /\ DOMAIN exchange' = Fields /\ exchange'.step = "message"
          /\ exchange'.candidates = Tried.candidates /\ exchange'.attempts = Tried.attempts
          /\ exchange'.index = Tried.index
      BY <1>1, <2>1, Forms DEF Fields
    <2>3. Underway' /\ Descent'
      BY <1>1, <2>2, Forms, OnwardHolds
    <2>4. Held'
      BY <1>1, <1>2, <2>2 DEF Held, Session
    <2>5. QED
      BY <2>3, <2>4 DEF RoutingInv
  <1>4. CASE outcome # "good"
    <2>1. exchange' = Failed(Tried)
      BY <1>4 DEF CreateSession, Continues
    <2>2. Underway' /\ Descent'
      BY <1>1, <2>1, Forms, FailedOnward
    <2>3. Held'
      BY <1>1, <1>2, <1>4 DEF Held
    <2>4. QED
      BY <2>2, <2>3 DEF RoutingInv
  <1>5. QED
    BY <1>3, <1>4

(* A call about the session that is lost leaves none that was not.         *)
LEMMA LostIsLost ==
  ASSUME RoutingInv, NEW which \in {"message", "delete"}
  PROVE  \A s \in Lost(which) : DOMAIN s = {"id", "lost"} /\ s.lost # "none"
  <1>1. \A s \in sessions : DOMAIN s = {"id", "lost"} /\ (s.lost = "none" => s.id = Session)
    BY DEF RoutingInv, Held
  <1>2. \A s \in sessions : DOMAIN [s EXCEPT !.lost = which] = {"id", "lost"}
                            /\ [s EXCEPT !.lost = which].lost = which
    BY <1>1
  <1>3. QED
    BY <1>1, <1>2 DEF Lost

LEMMA SendMessageHolds ==
  ASSUME RoutingInv, NEW outcome \in Outcomes, NEW arrives \in BOOLEAN, SendMessage(outcome, arrives)
  PROVE  RoutingInv'
  <1>1. /\ exchange # Idle /\ exchange.step = "message" /\ models' = models /\ asked' = asked
        /\ Len(exchange.attempts) > 0
    BY DEF SendMessage, RoutingInv, Underway
  <1>2. CASE outcome = "lost"
    <2>1. exchange' = Failed(exchange) /\ sessions' = Lost("message")
      BY <1>2 DEF SendMessage, Continues
    <2>2. Underway' /\ Descent'
      BY <1>1, <2>1, Forms, FailedOnward
    <2>3. Held'
      BY <2>1, LostIsLost DEF Held
    <2>4. QED
      BY <2>2, <2>3 DEF RoutingInv
  <1>3. CASE outcome # "lost"
    <2>1. /\ sessions' = sessions
          /\ \/ exchange' = [exchange EXCEPT !.step = "history"]
             \/ exchange' = [exchange EXCEPT !.step = "release", !.good = FALSE]
      BY <1>3 DEF SendMessage, Continues, Releasing, Outcomes
    <2>2. /\ exchange' # Idle /\ DOMAIN exchange' = Fields /\ exchange'.step \in {"history", "release"}
          /\ exchange'.candidates = exchange.candidates /\ exchange'.attempts = exchange.attempts
          /\ exchange'.index = exchange.index
      BY <1>1, <2>1, Forms DEF Fields
    <2>3. Underway' /\ Descent'
      BY <1>1, <2>2, Forms, OnwardHolds
    <2>4. Held'
      BY <1>1, <2>1, <2>2 DEF RoutingInv, Held, Session
    <2>5. QED
      BY <2>3, <2>4 DEF RoutingInv
  <1>4. QED
    BY <1>2, <1>3

LEMMA ReadHistoryHolds ==
  ASSUME RoutingInv, NEW outcome \in Outcomes, ReadHistory(outcome)
  PROVE  RoutingInv'
  <1>1. /\ exchange # Idle /\ exchange.step = "history" /\ models' = models /\ asked' = asked
        /\ sessions' = sessions /\ Len(exchange.attempts) > 0
        /\ exchange' = [exchange EXCEPT !.step = "release", !.good = (outcome = "good")]
    BY DEF ReadHistory, Continues, RoutingInv, Underway
  <1>2. /\ exchange' # Idle /\ DOMAIN exchange' = Fields /\ exchange'.step = "release"
        /\ exchange'.candidates = exchange.candidates /\ exchange'.attempts = exchange.attempts
        /\ exchange'.index = exchange.index
    BY <1>1, Forms DEF Fields
  <1>3. Underway' /\ Descent'
    BY <1>1, <1>2, Forms, OnwardHolds
  <1>4. Held'
    BY <1>1, <1>2 DEF RoutingInv, Held, Session
  <1>5. QED
    BY <1>3, <1>4 DEF RoutingInv

LEMMA DeleteSessionHolds ==
  ASSUME RoutingInv, NEW outcome \in Outcomes, DeleteSession(outcome)
  PROVE  RoutingInv'
  <1>1. /\ exchange # Idle /\ exchange.step = "release" /\ models' = models
        /\ \/ Ends(exchange)
           \/ exchange' = Failed(exchange)
    BY DEF DeleteSession, Responded, Continues, Ends
  <1>2. Underway' /\ Descent'
    BY <1>1, Forms, FailedOnward, OnwardHolds
  <1>3. \A s \in sessions' : DOMAIN s = {"id", "lost"} /\ s.lost # "none"
    <2>1. CASE outcome = "good"
      BY <2>1 DEF DeleteSession, RoutingInv, Held
    <2>2. CASE outcome # "good"
      BY <2>2, LostIsLost DEF DeleteSession
    <2>3. QED
      BY <2>1, <2>2
  <1>4. QED
    BY <1>2, <1>3 DEF RoutingInv, Held

LEMMA RoutingNextHolds == RoutingInv /\ [RoutingNext]_routingVars => RoutingInv'
  <1>1. SUFFICES ASSUME RoutingInv, [RoutingNext]_routingVars PROVE RoutingInv'
    OBVIOUS
  <1>2. CASE UNCHANGED routingVars
    BY <1>1, <1>2 DEF routingVars, RoutingInv, Underway, Descent, Held, Candidate, NoFallback, Level,
                      Locality, Session
  <1>3. ASSUME NEW request \in Requests, Execute(request) PROVE RoutingInv'
    BY <1>1, <1>3, ExecuteHolds
  <1>4. CASE Turn
    BY <1>1, <1>4, TurnHolds
  <1>5. ASSUME NEW outcome \in Outcomes, NEW arrives \in BOOLEAN,
               CompleteOpenAI(outcome, arrives) \/ CreateSession(outcome, arrives)
                 \/ SendMessage(outcome, arrives)
        PROVE  RoutingInv'
    BY <1>1, <1>5, CompleteHolds, CreateSessionHolds, SendMessageHolds
  <1>6. ASSUME NEW outcome \in Outcomes, ReadHistory(outcome) \/ DeleteSession(outcome)
        PROVE  RoutingInv'
    BY <1>1, <1>6, ReadHistoryHolds, DeleteSessionHolds
  <1>7. QED
    BY <1>1, <1>2, <1>3, <1>4, <1>5, <1>6 DEF RoutingNext

(* The inductive invariant holds in every reachable state: a request keeps *)
(* its form, its attempts never come down to a local endpoint that         *)
(* configuration forbids, and a session is open only while it is in use.   *)
THEOREM RoutingInvariance == RoutingSpec => []RoutingInv
  BY RoutingStarts, RoutingNextHolds, PTL DEF RoutingSpec

(* execute never comes down to a local endpoint from another one when      *)
(* allow_local_fallback is off, for any number of candidates and retries,  *)
(* although _fallback_allowed looks at two neighbours only.                *)
THEOREM FallbackStaysForbidden == RoutingSpec => []NoForbiddenFallback
  <1>1. RoutingInv => NoForbiddenFallback
    BY DEF RoutingInv, Descent, Level, NoFallback, NoForbiddenFallback
  <1>2. QED
    BY <1>1, RoutingInvariance, PTL

(* OpenCodeHostAdapter.complete leaves no session behind at the host but   *)
(* one of which a call was lost, for any requests and outcomes.            *)
THEOREM SessionsAreReleased == RoutingSpec => []SessionsAreClosed
  <1>1. RoutingInv => SessionsAreClosed
    BY DEF RoutingInv, Held, SessionsAreClosed
  <1>2. QED
    BY <1>1, RoutingInvariance, PTL

-----------------------------------------------------------------------------
(***************************************************************************)
(* The layers.  Recursions over a list are led through the set of places   *)
(* that they reach.                                                        *)
(***************************************************************************)
LEMMA Reaches ==
  ASSUME NEW n \in Nat, NEW S, 0 \in S, \A k \in 1..n : k - 1 \in S => k \in S
  PROVE  \A k \in 0..n : k \in S
  <1> DEFINE Done == {m \in 1..n + 1 : \A k \in 0..m - 1 : k \in S}
  <1>1. Done \subseteq 1..n + 1 /\ 1 \in Done /\ n + 1 \in Nat
    OBVIOUS
  <1>2. PICK g \in Done : \A m \in Done : m <= g
    <2> HIDE DEF Done
    <2>1. QED
      BY <1>1, Greatest
  <1>3. CASE g = n + 1
    BY <1>3
  <1>4. CASE g # n + 1
    <2>1. g \in 1..n /\ g - 1 \in S /\ g + 1 \in 1..n + 1
      BY <1>4
    <2>2. g \in S
      BY <2>1
    <2>3. \A k \in 0..g + 1 - 1 : k \in S
      BY <2>1, <2>2
    <2>4. g + 1 \in Done
      BY <2>1, <2>3
    <2>5. QED
      BY <1>2, <2>1, <2>4
  <1>5. QED
    BY <1>3, <1>4

(* The merge of resolve is the one that its recursion describes.           *)
LEMMA MergeExists ==
  ASSUME NEW stack, NEW n \in Nat
  PROVE  \E f : f = [k \in 0..n |-> IF k = 0 THEN Defaults ELSE Merge(f[k - 1], stack[k])]
  <1> DEFINE S == {m \in 0..n : \E f :
                     f = [k \in 0..m |-> IF k = 0 THEN Defaults ELSE Merge(f[k - 1], stack[k])]}
  <1>1. 0 \in S
    <2>1. [k \in {0} |-> Defaults]
            = [k \in 0..0 |-> IF k = 0 THEN Defaults
                              ELSE Merge([l \in {0} |-> Defaults][k - 1], stack[k])]
      <3>1. 0..0 = {0}
        OBVIOUS
      <3>2. QED
        BY <3>1
    <2>2. \E f : f = [k \in 0..0 |-> IF k = 0 THEN Defaults ELSE Merge(f[k - 1], stack[k])]
      BY <2>1
    <2>3. QED
      BY <2>2
  <1>2. ASSUME NEW m \in 1..n, m - 1 \in S PROVE m \in S
    <2>1. PICK g : g = [k \in 0..m - 1 |-> IF k = 0 THEN Defaults ELSE Merge(g[k - 1], stack[k])]
      BY <1>2
    <2> DEFINE f == [k \in 0..m |-> IF k = m THEN Merge(g[m - 1], stack[m]) ELSE g[k]]
    <2>2. \A k \in 0..m - 1 : f[k] = g[k] /\ k # m
      OBVIOUS
    <2>3. \A k \in 0..m :
            f[k] = IF k = 0 THEN Defaults ELSE Merge(f[k - 1], stack[k])
      <3>1. TAKE k \in 0..m
      <3>2. CASE k = m
        BY <2>2, <3>2
      <3>3. CASE k # m
        <4>1. k \in 0..m - 1 /\ f[k] = g[k]
          BY <2>2, <3>3
        <4>2. k # 0 => k - 1 \in 0..m - 1 /\ f[k - 1] = g[k - 1]
          BY <2>2, <4>1
        <4>3. g[k] = IF k = 0 THEN Defaults ELSE Merge(g[k - 1], stack[k])
          BY <2>1, <4>1
        <4>4. QED
          BY <4>1, <4>2, <4>3
      <3>4. QED
        BY <3>2, <3>3
    <2>4. f = [k \in 0..m |-> IF k = 0 THEN Defaults ELSE Merge(f[k - 1], stack[k])]
      <3>1. f = [k \in 0..m |-> f[k]]
        OBVIOUS
      <3> HIDE DEF f
      <3>2. QED
        BY <2>3, <3>1
    <2>5. \E h : h = [k \in 0..m |-> IF k = 0 THEN Defaults ELSE Merge(h[k - 1], stack[k])]
      <3> HIDE DEF f
      <3>1. QED
        BY <2>4, Zenon
    <2>6. QED
      BY <2>5
  <1>3. n \in S
    <2> HIDE DEF S
    <2>1. QED
      BY <1>1, <1>2, Reaches
  <1>4. QED
    BY <1>3

LEMMA MergedStepwise ==
  ASSUME NEW stack, Len(stack) \in Nat
  PROVE  \E f : /\ f[0] = Defaults /\ f[Len(stack)] = Merged(stack)
                /\ \A k \in 1..Len(stack) : f[k] = Merge(f[k - 1], stack[k])
  <1> DEFINE n == Len(stack)
             f == CHOOSE f : f = [k \in 0..n |-> IF k = 0 THEN Defaults ELSE Merge(f[k - 1], stack[k])]
  <1>1. f = [k \in 0..n |-> IF k = 0 THEN Defaults ELSE Merge(f[k - 1], stack[k])]
    BY MergeExists
  <1>2. f[n] = Merged(stack)
    BY DEF Merged
  <1> HIDE DEF f
  <1>3. f[0] = Defaults /\ \A k \in 1..n : f[k] = Merge(f[k - 1], stack[k])
    BY <1>1
  <1>4. QED
    BY <1>2, <1>3

(* What the layers up to one of them say of a setting.                     *)
SaidBy(stack, n, setting) == {k \in 1..n : setting \in DOMAIN stack[k].models}

(* A merged setting is what the last layer that speaks of it says.         *)
LEMMA LastWordStands ==
  ASSUME NEW stack, IsList(stack), NEW setting \in DOMAIN Defaults.models
  PROVE  LET says == SaidBy(stack, Len(stack), setting) IN
         IF says = {} THEN Merged(stack).models[setting] = Defaults.models[setting]
         ELSE \E k \in says : /\ \A j \in says : j <= k
                              /\ Merged(stack).models[setting] = stack[k].models[setting]
  <1> DEFINE n == Len(stack)
  <1>1. n \in Nat
    BY DEF IsList
  <1>2. PICK f : /\ f[0] = Defaults /\ f[n] = Merged(stack)
                 /\ \A k \in 1..n : f[k] = Merge(f[k - 1], stack[k])
    BY <1>1, MergedStepwise
  <1> DEFINE Stands(m) ==
        /\ setting \in DOMAIN f[m].models
        /\ IF SaidBy(stack, m, setting) = {} THEN f[m].models[setting] = Defaults.models[setting]
           ELSE \E k \in SaidBy(stack, m, setting) :
                  /\ \A j \in SaidBy(stack, m, setting) : j <= k
                  /\ f[m].models[setting] = stack[k].models[setting]
             S == {m \in 0..n : Stands(m)}
  <1>3. Stands(0)
    <2>1. SaidBy(stack, 0, setting) = {}
      BY DEF SaidBy
    <2>2. QED
      BY <1>2, <2>1
  <1>4. ASSUME NEW m \in 1..n, Stands(m - 1) PROVE Stands(m)
    <2>1. f[m] = Merge(f[m - 1], stack[m])
      BY <1>2
    <2>2. f[m].models = Override(f[m - 1].models, stack[m].models)
      BY <2>1 DEF Merge
    <2>3. setting \in DOMAIN f[m - 1].models
      BY <1>4
    <2>4. /\ setting \in DOMAIN f[m].models
          /\ f[m].models[setting] = IF setting \in DOMAIN stack[m].models THEN stack[m].models[setting]
                                    ELSE f[m - 1].models[setting]
      BY <2>2, <2>3 DEF Override
    <2>5. CASE setting \in DOMAIN stack[m].models
      <3>1. m \in SaidBy(stack, m, setting) /\ \A j \in SaidBy(stack, m, setting) : j <= m
        BY <2>5 DEF SaidBy
      <3>2. QED
        BY <2>4, <2>5, <3>1
    <2>6. CASE setting \notin DOMAIN stack[m].models
      <3>1. SaidBy(stack, m, setting) = SaidBy(stack, m - 1, setting)
        BY <2>6 DEF SaidBy
      <3>2. QED
        BY <1>4, <2>4, <2>6, <3>1
    <2>7. QED
      BY <2>5, <2>6
  <1>5. \A m \in 0..n : m \in S
    <2>1. 0 \in S
      BY <1>1, <1>3
    <2>2. \A m \in 1..n : m - 1 \in S => m \in S
      BY <1>1, <1>4
    <2> HIDE DEF S
    <2>3. QED
      BY <1>1, <2>1, <2>2, Reaches
  <1>6. Stands(n)
    BY <1>1, <1>5
  <1>7. QED
    BY <1>2, <1>6

(* The endpoints of a role stay a list.                                    *)
LEMMA RolesAreLists ==
  ASSUME NEW stack \in Stacks
  PROVE  \A role \in DOMAIN Merged(stack).roles : IsList(Merged(stack).roles[role])
  <1> DEFINE n == Len(stack)
  <1>1. n \in Nat /\ DOMAIN stack = 1..n
    BY RoutingAssumption DEF IsList
  <1>2. PICK f : /\ f[0] = Defaults /\ f[n] = Merged(stack)
                 /\ \A k \in 1..n : f[k] = Merge(f[k - 1], stack[k])
    BY <1>1, MergedStepwise
  <1> DEFINE Listed(m) == \A role \in DOMAIN f[m].roles : IsList(f[m].roles[role])
             S == {m \in 0..n : Listed(m)}
  <1>3. Listed(0)
    BY <1>2 DEF Defaults, Nothing
  <1>4. ASSUME NEW m \in 1..n, Listed(m - 1) PROVE Listed(m)
    <2>1. f[m] = Merge(f[m - 1], stack[m])
      BY <1>2
    <2>2. f[m].roles = Override(f[m - 1].roles, stack[m].roles)
      BY <2>1 DEF Merge
    <2>3. \A role \in DOMAIN stack[m].roles : IsList(stack[m].roles[role])
      BY <1>1, RoutingAssumption
    <2>4. QED
      BY <1>4, <2>2, <2>3 DEF Override
  <1>5. \A m \in 0..n : m \in S
    <2>1. 0 \in S
      BY <1>1, <1>3
    <2>2. \A m \in 1..n : m - 1 \in S => m \in S
      BY <1>1, <1>4
    <2> HIDE DEF S
    <2>3. QED
      BY <1>1, <2>1, <2>2, Reaches
  <1>6. Listed(n)
    BY <1>1, <1>5
  <1>7. QED
    BY <1>2, <1>6

(* route takes the candidates one by one.                                  *)
Selects(f, request, ordered, n) ==
  f = [k \in 0..n |-> IF k = 0 THEN <<>>
                      ELSE IF Rejected(request, models.endpoints[ordered[k]]) THEN f[k - 1]
                      ELSE Append(f[k - 1], ordered[k])]

LEMMA RouteExists ==
  ASSUME NEW request, NEW ordered, NEW n \in Nat
  PROVE  \E f : Selects(f, request, ordered, n)
  <1> DEFINE Select(v, k) == IF Rejected(request, models.endpoints[ordered[k]]) THEN v
                           ELSE Append(v, ordered[k])
             S == {m \in 0..n : \E f : f = [k \in 0..m |-> IF k = 0 THEN <<>> ELSE Select(f[k - 1], k)]}
  <1> HIDE DEF Select
  <1>1. 0 \in S
    <2>1. [k \in {0} |-> <<>>]
            = [k \in 0..0 |-> IF k = 0 THEN <<>> ELSE Select([l \in {0} |-> <<>>][k - 1], k)]
      <3>1. 0..0 = {0}
        OBVIOUS
      <3>2. QED
        BY <3>1
    <2>2. \E f : f = [k \in 0..0 |-> IF k = 0 THEN <<>> ELSE Select(f[k - 1], k)]
      BY <2>1
    <2>3. QED
      BY <2>2
  <1>2. ASSUME NEW m \in 1..n, m - 1 \in S PROVE m \in S
    <2>1. PICK g : g = [k \in 0..m - 1 |-> IF k = 0 THEN <<>> ELSE Select(g[k - 1], k)]
      BY <1>2
    <2> DEFINE f == [k \in 0..m |-> IF k = m THEN Select(g[m - 1], m) ELSE g[k]]
    <2>2. \A k \in 0..m - 1 : f[k] = g[k] /\ k # m
      OBVIOUS
    <2>3. \A k \in 0..m : f[k] = IF k = 0 THEN <<>> ELSE Select(f[k - 1], k)
      <3>1. TAKE k \in 0..m
      <3>2. CASE k = m
        BY <2>2, <3>2
      <3>3. CASE k # m
        <4>1. k \in 0..m - 1 /\ f[k] = g[k]
          BY <2>2, <3>3
        <4>2. k # 0 => k - 1 \in 0..m - 1 /\ f[k - 1] = g[k - 1]
          BY <2>2, <4>1
        <4>3. g[k] = IF k = 0 THEN <<>> ELSE Select(g[k - 1], k)
          BY <2>1, <4>1
        <4>4. QED
          BY <4>1, <4>2, <4>3
      <3>4. QED
        BY <3>2, <3>3
    <2>4. f = [k \in 0..m |-> IF k = 0 THEN <<>> ELSE Select(f[k - 1], k)]
      <3>1. f = [k \in 0..m |-> f[k]]
        OBVIOUS
      <3> HIDE DEF f
      <3>2. QED
        BY <2>3, <3>1
    <2>5. \E h : h = [k \in 0..m |-> IF k = 0 THEN <<>> ELSE Select(h[k - 1], k)]
      <3> HIDE DEF f
      <3>1. QED
        BY <2>4, Zenon
    <2>6. QED
      BY <2>5
  <1>3. n \in S
    <2> HIDE DEF S
    <2>1. QED
      BY <1>1, <1>2, Reaches
  <1>4. QED
    BY <1>3 DEF Select, Selects

(* What is asked of the configuration when a request is executed.          *)
Configured == layers \in Stacks /\ models = Resolved(layers)

LEMMA CandidatesAreAList ==
  ASSUME Configured, models # Unresolved, NEW request
  PROVE  IsList(OrderedCandidates(request))
  <1>1. models.roles = Merged(layers).roles
    BY DEF Configured, Resolved, Models
  <1> DEFINE configured == IF request.role \in DOMAIN models.roles THEN models.roles[request.role]
                           ELSE <<>>
  <1>2. IsList(configured)
    <2>1. IsList(<<>>)
      BY DEF IsList
    <2>2. QED
      BY <1>1, <2>1, RolesAreLists DEF Configured
  <1>3. IsList(Ordered(configured))
    <2>1. PICK order : Ordered(configured) = [n \in DOMAIN configured |-> configured[order[n]]]
      BY Zenon DEF Ordered
    <2>2. DOMAIN configured = 1..Len(configured) /\ Len(configured) \in Nat
      BY <1>2 DEF IsList
    <2> HIDE DEF configured
    <2> DEFINE list == [n \in 1..Len(configured) |-> configured[order[n]]]
    <2>3. \A n \in 1..Len(configured) : list[n] \in ToSet(list)
      BY DEF ToSet
    <2>4. list \in [1..Len(configured) -> ToSet(list)]
      BY <2>3
    <2>5. list \in Seq(ToSet(list))
      <3> HIDE DEF list
      <3>1. QED
        BY <2>2, <2>4
    <2>6. QED
      BY <2>1, <2>2, <2>5 DEF IsList
  <1>4. IsList(<<request.requested>>) /\ IsList(<<>>)
    BY DEF IsList, ToSet
  <1>5. QED
    BY <1>2, <1>3, <1>4 DEF OrderedCandidates

(* No candidate of a route was rejected.                                   *)
LEMMA RouteIsPermitted ==
  ASSUME Configured, models # Unresolved, NEW request
  PROVE  /\ Len(Route(request)) \in Nat /\ DOMAIN Route(request) = 1..Len(Route(request))
         /\ \A n \in DOMAIN Route(request) : ~ Rejected(request, models.endpoints[Route(request)[n]])
  <1> DEFINE ordered == OrderedCandidates(request)
             n == Len(ordered)
             f == CHOOSE f : Selects(f, request, ordered, n)
  <1>1. IsList(ordered)
    BY CandidatesAreAList
  <1> HIDE DEF ordered
  <1>2. n \in Nat /\ \A k \in 1..n : ordered[k] \in ToSet(ordered)
    BY <1>1 DEF IsList
  <1>3. Selects(f, request, ordered, n)
    <2>1. \E g : Selects(g, request, ordered, n)
      BY <1>2, RouteExists
    <2>2. QED
      BY <2>1, Zenon
  <1>4. Route(request) = f[n]
    BY DEF Route, ordered, Selects
  <1> HIDE DEF f
  <1>5. /\ f[0] = <<>>
        /\ \A k \in 1..n : f[k] = IF Rejected(request, models.endpoints[ordered[k]]) THEN f[k - 1]
                                  ELSE Append(f[k - 1], ordered[k])
    <2>1. \A k \in 0..n : f[k] = IF k = 0 THEN <<>>
                               ELSE IF Rejected(request, models.endpoints[ordered[k]]) THEN f[k - 1]
                               ELSE Append(f[k - 1], ordered[k])
      <3> HIDE DEF n
      <3>1. QED
        BY <1>3, Zenon DEF Selects
    <2>2. 0 \in 0..n /\ \A k \in 1..n : k \in 0..n /\ k # 0
      BY <1>2
    <2> HIDE DEF n
    <2>3. QED
      BY <2>1, <2>2, Zenon
  <1> DEFINE Permits(m) ==
        /\ f[m] \in Seq(ToSet(ordered))
        /\ \A k \in 1..Len(f[m]) : ~ Rejected(request, models.endpoints[f[m][k]])
             S == {m \in 0..n : Permits(m)}
  <1>6. Permits(0)
    BY <1>5
  <1>7. ASSUME NEW m \in 1..n, Permits(m - 1) PROVE Permits(m)
    <2>1. CASE Rejected(request, models.endpoints[ordered[m]])
      BY <1>5, <1>7, <2>1
    <2>2. CASE ~ Rejected(request, models.endpoints[ordered[m]])
      <3>1. f[m] = Append(f[m - 1], ordered[m])
        BY <1>5, <2>2
      <3>2. ordered[m] \in ToSet(ordered) /\ f[m - 1] \in Seq(ToSet(ordered))
        BY <1>2, <1>7
      <3>3. /\ f[m] \in Seq(ToSet(ordered)) /\ Len(f[m]) = Len(f[m - 1]) + 1
            /\ f[m][Len(f[m])] = ordered[m]
            /\ \A k \in 1..Len(f[m - 1]) : f[m][k] = f[m - 1][k]
        BY <3>1, <3>2
      <3>4. \A k \in 1..Len(f[m]) : k = Len(f[m]) \/ k \in 1..Len(f[m - 1])
        BY <3>2, <3>3
      <3>5. QED
        BY <1>7, <2>2, <3>3, <3>4
    <2>3. QED
      BY <2>1, <2>2
  <1>8. \A m \in 0..n : m \in S
    <2>1. 0 \in S
      BY <1>2, <1>6
    <2>2. \A m \in 1..n : m - 1 \in S => m \in S
      BY <1>2, <1>7
    <2> HIDE DEF S
    <2>3. QED
      BY <1>2, <2>1, <2>2, Reaches
  <1>9. Permits(n)
    BY <1>2, <1>8
  <1>10. QED
    BY <1>4, <1>9

-----------------------------------------------------------------------------
(* Which endpoints hear a request.                                         *)

(* No candidate was rejected, and a call is made to a candidate.           *)
CandidatesPermitted ==
  exchange # Idle =>
    /\ Len(exchange.candidates) \in Nat
    /\ DOMAIN exchange.candidates = 1..Len(exchange.candidates)
    /\ exchange.step # "endpoint" => exchange.index \in DOMAIN exchange.candidates
    /\ \A n \in DOMAIN exchange.candidates :
         ~ Rejected(exchange.request, models.endpoints[exchange.candidates[n]])

HeardPermitted ==
  \A h \in heard : models # Unresolved /\ ~ Rejected(h.request, models.endpoints[h.endpoint])

Permitting == Configured /\ CandidatesPermitted /\ HeardPermitted

LEMMA RejectedStays ==
  ASSUME models' = models, NEW request, NEW endpoint
  PROVE  Rejected(request, endpoint)' <=> Rejected(request, endpoint)
  BY DEF Rejected, RequiredReasoning, RemoteSourceAllowed

(* A step of a request keeps its candidates, and leaves the place between  *)
(* two of them only for one that there is.                                 *)
Onward ==
  \/ exchange' = Idle
  \/ /\ exchange'.candidates = exchange.candidates /\ exchange'.request = exchange.request
     /\ \/ exchange'.step = "endpoint"
        \/ /\ exchange'.index = exchange.index
           /\ exchange.step # "endpoint" \/ exchange.index <= Len(exchange.candidates)

LEMMA FailedIsOnward ==
  ASSUME RoutingInv, exchange # Idle, exchange.step # "endpoint", NEW c, DOMAIN c = Fields,
         c.candidates = exchange.candidates, c.request = exchange.request, c.index = exchange.index,
         exchange' = Failed(c)
  PROVE  Onward
  <1>1. CASE exchange' = [c EXCEPT !.tries = @ + 1, !.step = "attempt"]
    BY <1>1 DEF Onward, Fields
  <1>2. CASE exchange' = [c EXCEPT !.index = @ + 1, !.tries = 0, !.step = "endpoint"]
    BY <1>2 DEF Onward, Fields
  <1>3. QED
    BY <1>1, <1>2 DEF Failed, Following

LEMMA StepsOnward ==
  ASSUME RoutingInv, exchange # Idle,
         NEW outcome \in Outcomes, NEW arrives \in BOOLEAN,
         \/ Turn \/ CompleteOpenAI(outcome, arrives) \/ CreateSession(outcome, arrives)
         \/ SendMessage(outcome, arrives) \/ ReadHistory(outcome) \/ DeleteSession(outcome)
  PROVE  /\ UNCHANGED <<layers, models>>
         /\ \/ heard' = heard
            \/ /\ exchange.step # "endpoint"
               /\ heard' = heard \cup {[endpoint |-> Current, request |-> exchange.request]}
         /\ Onward
  <1>1. /\ DOMAIN exchange = Fields /\ DOMAIN Tried = Fields
        /\ Tried.candidates = exchange.candidates /\ Tried.request = exchange.request
        /\ Tried.index = exchange.index
    BY Forms DEF Tried, Fields
  <1>2. exchange.index \in Nat
    BY DEF RoutingInv, Underway
  <1>3. CASE Turn
    <2>1. UNCHANGED <<layers, models, heard>>
      BY <1>3 DEF Turn
    <2>2. CASE exchange' = Idle
      BY <2>1, <2>2 DEF Onward
    <2>3. CASE exchange' = Following(Tried)
      <3>1. /\ exchange'.candidates = exchange.candidates /\ exchange'.request = exchange.request
            /\ exchange'.step = "endpoint"
        BY <1>1, <2>3 DEF Following, Fields
      <3>2. QED
        BY <2>1, <3>1 DEF Onward
    <2>4. CASE exchange' = [exchange EXCEPT !.step = "attempt"] /\ ~ (exchange.index > Len(exchange.candidates))
      <3>1. /\ exchange'.candidates = exchange.candidates /\ exchange'.request = exchange.request
            /\ exchange'.index = exchange.index
        BY <1>1, <2>4 DEF Fields
      <3>2. exchange.index <= Len(exchange.candidates)
        BY <1>2, <2>4
      <3>3. QED
        BY <2>1, <3>1, <3>2 DEF Onward
    <2>5. QED
      BY <1>3, <2>2, <2>3, <2>4 DEF Turn, Raised, Forbidden, Continues
  <1>4. CASE CompleteOpenAI(outcome, arrives)
    <2>1. /\ UNCHANGED <<layers, models>> /\ exchange.step = "attempt"
          /\ exchange' = Idle \/ exchange' = Failed(Tried)
          /\ heard' = heard \/ heard' = heard \cup {[endpoint |-> Current, request |-> exchange.request]}
      BY <1>4 DEF CompleteOpenAI, Hears, Responded, Continues
    <2>2. Onward
      BY <1>1, <2>1, FailedIsOnward DEF Onward
    <2>3. QED
      BY <2>1, <2>2
  <1>5. CASE CreateSession(outcome, arrives)
    <2>1. /\ UNCHANGED <<layers, models, heard>> /\ exchange.step = "attempt"
          /\ exchange' = [Tried EXCEPT !.step = "message"] \/ exchange' = Failed(Tried)
      BY <1>5 DEF CreateSession, Continues
    <2>2. CASE exchange' = [Tried EXCEPT !.step = "message"]
      BY <1>1, <2>1, <2>2 DEF Onward, Fields
    <2>3. CASE exchange' = Failed(Tried)
      BY <1>1, <2>1, <2>3, FailedIsOnward
    <2>4. QED
      BY <2>1, <2>2, <2>3
  <1>6. CASE SendMessage(outcome, arrives)
    <2>1. /\ UNCHANGED <<layers, models>> /\ exchange.step = "message"
          /\ heard' = heard \/ heard' = heard \cup {[endpoint |-> Current, request |-> exchange.request]}
          /\ \/ exchange' = [exchange EXCEPT !.step = "history"]
             \/ exchange' = [exchange EXCEPT !.step = "release", !.good = FALSE]
             \/ exchange' = Failed(exchange)
      BY <1>6 DEF SendMessage, Hears, Continues, Releasing, Outcomes
    <2>2. CASE exchange' = [exchange EXCEPT !.step = "history"]
      BY <1>1, <2>1, <2>2 DEF Onward, Fields
    <2>3. CASE exchange' = [exchange EXCEPT !.step = "release", !.good = FALSE]
      BY <1>1, <2>1, <2>3 DEF Onward, Fields
    <2>4. CASE exchange' = Failed(exchange)
      BY <1>1, <2>1, <2>4, FailedIsOnward
    <2>5. QED
      BY <2>1, <2>2, <2>3, <2>4
  <1>7. CASE ReadHistory(outcome)
    <2>1. /\ UNCHANGED <<layers, models, heard>> /\ exchange.step = "history"
          /\ exchange' = [exchange EXCEPT !.step = "release", !.good = (outcome = "good")]
      BY <1>7 DEF ReadHistory, Continues
    <2>2. QED
      BY <1>1, <2>1 DEF Onward, Fields
  <1>8. CASE DeleteSession(outcome)
    <2>1. /\ UNCHANGED <<layers, models, heard>> /\ exchange.step = "release"
          /\ exchange' = Idle \/ exchange' = Failed(exchange)
      BY <1>8 DEF DeleteSession, Responded, Continues
    <2>2. CASE exchange' = Idle
      BY <2>1, <2>2 DEF Onward
    <2>3. CASE exchange' = Failed(exchange)
      BY <1>1, <2>1, <2>3, FailedIsOnward
    <2>4. QED
      BY <2>1, <2>2, <2>3
  <1>9. QED
    BY <1>3, <1>4, <1>5, <1>6, <1>7, <1>8

LEMMA PermittingHolds == RoutingInv /\ Permitting /\ [RoutingNext]_routingVars => Permitting'
  <1>1. SUFFICES ASSUME RoutingInv, Permitting, [RoutingNext]_routingVars PROVE Permitting'
    OBVIOUS
  <1>2. UNCHANGED <<layers, models>>
    <2>1. CASE UNCHANGED routingVars
      BY <2>1 DEF routingVars
    <2>2. CASE RoutingNext
      BY <2>2 DEF RoutingNext, Execute, Turn, CompleteOpenAI, CreateSession, SendMessage, ReadHistory,
                  DeleteSession
    <2>3. QED
      BY <1>1, <2>1, <2>2
  <1>3. Configured'
    BY <1>1, <1>2 DEF Permitting, Configured, Resolved
  <1>4. \A request, endpoint : Rejected(request, endpoint)' <=> Rejected(request, endpoint)
    BY <1>2, RejectedStays
  <1>5. CASE UNCHANGED routingVars
    BY <1>1, <1>3, <1>4, <1>5 DEF routingVars, Permitting, CandidatesPermitted, HeardPermitted
  <1>6. ASSUME NEW request \in Requests, Execute(request) PROVE Permitting'
    <2>1. models # Unresolved /\ heard' = heard
      BY <1>6 DEF Execute
    <2>2. CASE exchange' = Idle
      BY <1>1, <1>2, <1>3, <1>4, <2>1, <2>2 DEF Permitting, CandidatesPermitted, HeardPermitted
    <2>3. CASE exchange' # Idle
      <3>1. exchange'.candidates = Route(request) /\ exchange'.request = request /\ exchange'.step = "endpoint"
        BY <1>6, <2>3 DEF Execute
      <3>2. /\ Len(Route(request)) \in Nat /\ DOMAIN Route(request) = 1..Len(Route(request))
            /\ \A n \in DOMAIN Route(request) : ~ Rejected(request, models.endpoints[Route(request)[n]])
        BY <1>1, <2>1, RouteIsPermitted DEF Permitting
      <3>3. CandidatesPermitted'
        BY <1>2, <1>4, <3>1, <3>2 DEF CandidatesPermitted
      <3>4. QED
        BY <1>1, <1>2, <1>3, <1>4, <2>1, <3>3 DEF Permitting, HeardPermitted
    <2>4. QED
      BY <2>2, <2>3
  <1>7. ASSUME exchange # Idle,
               NEW outcome \in Outcomes, NEW arrives \in BOOLEAN,
               \/ Turn \/ CompleteOpenAI(outcome, arrives) \/ CreateSession(outcome, arrives)
               \/ SendMessage(outcome, arrives) \/ ReadHistory(outcome) \/ DeleteSession(outcome)
        PROVE  Permitting'
    <2>1. /\ Onward
          /\ \/ heard' = heard
             \/ /\ exchange.step # "endpoint"
                /\ heard' = heard \cup {[endpoint |-> Current, request |-> exchange.request]}
      BY <1>1, <1>7, StepsOnward
    <2>2. /\ Len(exchange.candidates) \in Nat
          /\ DOMAIN exchange.candidates = 1..Len(exchange.candidates)
          /\ exchange.step # "endpoint" => exchange.index \in DOMAIN exchange.candidates
          /\ \A n \in DOMAIN exchange.candidates :
               ~ Rejected(exchange.request, models.endpoints[exchange.candidates[n]])
          /\ models # Unresolved /\ exchange.index \in Nat /\ exchange.index >= 1
      BY <1>1, <1>7 DEF Permitting, CandidatesPermitted, RoutingInv, Underway
    <2>3. CandidatesPermitted'
      <3>1. CASE exchange' = Idle
        BY <3>1 DEF CandidatesPermitted
      <3>2. CASE exchange' # Idle
        <4>1. exchange'.candidates = exchange.candidates /\ exchange'.request = exchange.request
          BY <2>1, <3>2 DEF Onward
        <4>2. exchange'.step # "endpoint" => exchange'.index \in DOMAIN exchange'.candidates
          BY <2>1, <2>2, <3>2, <4>1 DEF Onward
        <4>3. QED
          BY <1>2, <1>4, <2>2, <4>1, <4>2 DEF CandidatesPermitted
      <3>3. QED
        BY <3>1, <3>2
    <2>4. HeardPermitted'
      <3>1. \A h \in heard : models # Unresolved /\ ~ Rejected(h.request, models.endpoints[h.endpoint])
        BY <1>1 DEF Permitting, HeardPermitted
      <3>2. exchange.step # "endpoint" => ~ Rejected(exchange.request, models.endpoints[Current])
        BY <2>2 DEF Current
      <3>3. \A h \in heard' : models # Unresolved /\ ~ Rejected(h.request, models.endpoints[h.endpoint])
        BY <2>1, <2>2, <3>1, <3>2
      <3>4. QED
        BY <1>2, <1>4, <3>3 DEF HeardPermitted
    <2>5. QED
      BY <1>3, <2>3, <2>4 DEF Permitting
  <1>8. ASSUME NEW outcome \in Outcomes, NEW arrives \in BOOLEAN,
               \/ Turn \/ CompleteOpenAI(outcome, arrives) \/ CreateSession(outcome, arrives)
               \/ SendMessage(outcome, arrives) \/ ReadHistory(outcome) \/ DeleteSession(outcome)
        PROVE  exchange # Idle
    <2>1. exchange.step # "idle"
      BY <1>8 DEF Turn, CompleteOpenAI, CreateSession, SendMessage, ReadHistory, DeleteSession
    <2>2. QED
      BY <2>1
  <1>9. "good" \in Outcomes /\ TRUE \in BOOLEAN
    BY DEF Outcomes
  <1>10. QED
    BY <1>1, <1>5, <1>6, <1>7, <1>8, <1>9 DEF RoutingNext

(* What the layers say of a setting is what the configuration says of it.  *)
LEMMA SaidIsConfigured ==
  ASSUME Configured, models # Unresolved, NEW setting \in DOMAIN Defaults.models
  PROVE  Said(setting) = Merged(layers).models[setting]
  <1> DEFINE says == SaidBy(layers, Len(layers), setting)
  <1>1. IsList(layers) /\ DOMAIN layers = 1..Len(layers) /\ Len(layers) \in Nat
    BY RoutingAssumption DEF Configured, IsList
  <1>2. says = {n \in DOMAIN layers : setting \in DOMAIN layers[n].models}
    BY <1>1 DEF SaidBy
  <1>3. IF says = {} THEN Merged(layers).models[setting] = Defaults.models[setting]
        ELSE \E k \in says : /\ \A j \in says : j <= k
                             /\ Merged(layers).models[setting] = layers[k].models[setting]
    BY <1>1, LastWordStands
  <1>4. CASE says = {}
    BY <1>2, <1>3, <1>4 DEF Said
  <1>5. CASE says # {}
    <2>1. PICK k \in says : /\ \A j \in says : j <= k
                            /\ Merged(layers).models[setting] = layers[k].models[setting]
      BY <1>3, <1>5
    <2>2. says \subseteq Nat
      BY <1>1, <1>2
    <2> HIDE DEF says
    <2>3. \A j \in says : k >= j
      BY <2>1, <2>2
    <2>4. PICK m : m = Max(says) /\ m \in says /\ \A j \in says : m >= j
      BY <2>3, Zenon DEF Max
    <2>5. Max(says) = k
      <3>1. m \in Nat /\ k \in Nat /\ m >= k /\ k >= m
        BY <2>1, <2>2, <2>3, <2>4
      <3>2. QED
        BY <2>4, <3>1
    <2>6. Said(setting) = layers[Max(says)].models[setting]
      <3>1. {n \in DOMAIN layers : setting \in DOMAIN layers[n].models} # {}
        BY <1>2, <1>5
      <3>2. Said(setting)
              = layers[Max({n \in DOMAIN layers : setting \in DOMAIN layers[n].models})].models[setting]
        BY <3>1, Zenon DEF Said
      <3>3. QED
        BY <1>2, <3>2, Zenon
    <2>7. QED
      BY <2>1, <2>5, <2>6
  <1>6. QED
    BY <1>4, <1>5

(* A remote endpoint hears a request only where the last layer that speaks *)
(* of it allows escalation, and one with source code only where the last   *)
(* layer that speaks of that allows it or this was approved: for any number *)
(* of layers, any endpoints, routing mode, retries and fallbacks.          *)
(* (resolve of core/config/resolver.py with route and execute of           *)
(* core/model_routing/router.py.)                                          *)
THEOREM SourceGoesWherePermitted == RoutingSpec => []SourceStaysPermitted
  <1>1. RoutingInit => Permitting
    BY DEF RoutingInit, Permitting, Configured, CandidatesPermitted, HeardPermitted
  <1>2. Permitting => SourceStaysPermitted
    <2>1. SUFFICES ASSUME Permitting, NEW h \in heard, Locality(h.endpoint) = "remote"
                   PROVE  /\ Said("allow_remote_escalation")
                          /\ h.request.source => \/ Said("remote_code_policy") = "allow"
                                                \/ /\ Said("remote_code_policy") = "selected_context"
                                                   /\ h.request.approved
      BY DEF SourceStaysPermitted
    <2>2. models # Unresolved /\ ~ Rejected(h.request, models.endpoints[h.endpoint])
      BY <2>1 DEF Permitting, HeardPermitted
    <2>3. /\ models.allow_remote_escalation
          /\ h.request.source => RemoteSourceAllowed(h.request)
      BY <2>1, <2>2 DEF Rejected, Locality
    <2>4. /\ models.allow_remote_escalation = Merged(layers).models.allow_remote_escalation
          /\ models.remote_code_policy = Merged(layers).models.remote_code_policy
      BY <2>1, <2>2 DEF Permitting, Configured, Resolved, Models
    <2>5. {"allow_remote_escalation", "remote_code_policy"} \subseteq DOMAIN Defaults.models
      BY DEF Defaults
    <2>6. /\ Said("allow_remote_escalation") = models.allow_remote_escalation
          /\ Said("remote_code_policy") = models.remote_code_policy
      BY <2>1, <2>2, <2>4, <2>5, SaidIsConfigured DEF Permitting
    <2>7. QED
      BY <2>3, <2>6 DEF RemoteSourceAllowed
  <1>3. QED
    BY <1>1, <1>2, RoutingInvariance, PermittingHolds, PTL DEF RoutingSpec

=============================================================================
