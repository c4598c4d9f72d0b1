------------------------------ MODULE TwinProofs ------------------------------
(***************************************************************************)
(* The twin, and the impact analysis of a change to it.                    *)
(*                                                                         *)
(* Twin.  For any files, imports, sidecars and edits: no revision is made  *)
(* of the facts of another one than it replaces, and a full build leaves   *)
(* nothing of it; a refresh turns nothing back; once one undisturbed       *)
(* sidecar has handled every event, what is shown of each file is what a   *)
(* rebuild would show, with the dependencies and directories it would have.*)
(*                                                                         *)
(* Ordered says which head a call has read at each of its steps.  Known    *)
(* says how the worktree, the head, the log of keys and the sources that   *)
(* the one sidecar has read follow each other: what is shown is of the     *)
(* worktree but for the paths its events, or its current closure, owe.     *)
(* Aged says that what was read of a file is no newer than the file, and   *)
(* that a refresh read its sources after the facts it may replace.         *)
(*                                                                         *)
(* Impact.  For any graphs, equivalences, depth and thresholds: what is    *)
(* reported is exact, and each change leaves an obligation.                *)
(*                                                                         *)
(* Reaching says that whatever is reached is still listed, or its edges    *)
(* were looked at and what is known of their sources is no worse.          *)
(* Spreading says that the effects are visited in the order of their       *)
(* distance, which the code does not keep: some function d is it.          *)
(***************************************************************************)
EXTENDS Twin, Impact, TLAPS, FiniteSetTheorems, SequenceTheorems, WellFoundedInduction

Fields == {"full", "source", "expected", "prev", "paths", "put"}

(* The facts of a file, and a set of facts as revisions and analyses hold. *)
FactsOf(p) == [hash : Versions \ {Absent}, seen : [Reads(p) -> Versions]]
WellMade(shown) ==
  \A x \in shown : x = <<x[1], x[2]>> /\ x[1] \in Paths /\ x[2] \in FactsOf(x[1])

CallTyped(call) ==
  /\ DOMAIN call = Fields
  /\ call.full \in BOOLEAN /\ call.source \in Trees
  /\ call.expected \in 0..head /\ call.prev \in 0..head
  /\ call.paths \subseteq Paths /\ DOMAIN call.put \subseteq Paths
  /\ \A p \in DOMAIN call.put : call.put[p] \in FactsOf(p)

Typed ==
  /\ scenario \in Scenarios /\ tree \in Trees /\ edits \in 0..MaxEdits
  /\ events \in [Processes -> SUBSET Paths]
  /\ head \in 0..MaxRevisions /\ DOMAIN shows = 1..head /\ prints \in [1..head -> Trees]
  /\ shared \in [1..head -> Shares]
  /\ \A id \in DOMAIN shows : WellMade(shows[id])
  /\ log \subseteq Trees \X Modes \X SUBSET Paths
  /\ pc \in [Processes -> Steps] /\ DOMAIN local = Processes
  /\ \A c \in Processes : CallTyped(local[c])

(***************************************************************************)
(* What a build reads and what a commit makes of it.                       *)
(***************************************************************************)
LEMMA FactMade ==
  ASSUME NEW source \in Trees, NEW t \in Trees, NEW p \in Files(source)
  PROVE  /\ p \in Paths /\ FactOf(p, source, t) \in FactsOf(p)
         /\ FactOf(p, source, t).hash = source[p]
         /\ \A q \in Reads(p) : q \in Paths /\ FactOf(p, source, t).seen[q] = t[q]
  BY ImportsAssumption DEF Files, FactOf, FactsOf, Reads, Trees

LEMMA AnalysisMade ==
  ASSUME NEW ps \in SUBSET Paths, NEW source \in Trees, NEW t \in Trees
  PROVE  /\ DOMAIN Analysis(ps, source, t) = ps \cap Files(source)
         /\ \A p \in ps \cap Files(source) :
              /\ Analysis(ps, source, t)[p] = FactOf(p, source, t)
              /\ Analysis(ps, source, t)[p] \in FactsOf(p)
  BY FactMade DEF Analysis

LEMMA RebuildMade == ASSUME NEW t \in Trees PROVE WellMade(Rebuild(t))
  BY FactMade DEF WellMade, Rebuild

(* Every dependency of ps has an owner in ps that imports it.              *)
LEMMA OwnersMade ==
  ASSUME NEW ps \in SUBSET Paths
  PROVE  /\ DOMAIN Owners(ps) = UNION { Uses[p] : p \in ps }
         /\ \A x \in DOMAIN Owners(ps) : Owners(ps)[x] \in ps /\ x \in Uses[Owners(ps)[x]]
         /\ \A p \in ps : Uses[p] \subseteq DOMAIN Owners(ps)
         /\ Owners(ps) \in [DOMAIN Owners(ps) -> Paths]
  <1>1. DOMAIN Owners(ps) = UNION { Uses[p] : p \in ps }
    BY DEF Owners
  <1>2. ASSUME NEW x \in DOMAIN Owners(ps)
        PROVE  Owners(ps)[x] \in ps /\ x \in Uses[Owners(ps)[x]]
    <2>1. \E p \in ps : x \in Uses[p]
      BY <1>1
    <2>2. Owners(ps)[x] = CHOOSE p \in ps : x \in Uses[p]
      BY DEF Owners
    <2>3. QED
      BY <2>1, <2>2
  <1>3. Owners(ps) \in [DOMAIN Owners(ps) -> Paths]
    <2>1. Owners(ps) = [x \in DOMAIN Owners(ps) |-> Owners(ps)[x]]
      BY DEF Owners
    <2>2. QED
      BY <1>2, <2>1
  <1>4. QED
    BY <1>1, <1>2, <1>3

LEMMA OwnerTyped ==
  ASSUME NEW xs, xs \subseteq UNION { Uses[p] : p \in Paths }, NEW owner \in [xs -> Paths],
         NEW ds, ds \subseteq UNION { Above[p] : p \in Paths }
  PROVE  [directories |-> ds, owner |-> owner] \in Shares
  <1> DEFINE all == UNION { Uses[p] : p \in Paths }
  <1>1. owner \in UNION { [ys -> Paths] : ys \in SUBSET all }
    <2>1. xs \in SUBSET all
      OBVIOUS
    <2> HIDE DEF all
    <2>2. QED
      BY <2>1
  <1>2. QED
    BY <1>1 DEF Shares

LEMMA RebuildSharesMade == ASSUME NEW t \in Trees PROVE RebuildShares(t) \in Shares
  <1>1. Files(t) \in SUBSET Paths
    BY DEF Files
  <1>2. DOMAIN Owners(Files(t)) \subseteq UNION { Uses[p] : p \in Paths }
    BY <1>1, OwnersMade
  <1>3. Directories(Files(t)) \subseteq UNION { Above[p] : p \in Paths }
    BY <1>1 DEF Directories
  <1>4. Owners(Files(t)) \in [DOMAIN Owners(Files(t)) -> Paths]
    BY <1>1, OwnersMade
  <1>5. QED
    BY <1>2, <1>3, <1>4, OwnerTyped DEF RebuildShares

LEMMA SharesMade ==
  ASSUME NEW sh \in Shares
  PROVE  /\ sh = [directories |-> sh.directories, owner |-> sh.owner]
         /\ sh.directories \subseteq UNION { Above[p] : p \in Paths }
         /\ DOMAIN sh.owner \subseteq UNION { Uses[p] : p \in Paths }
         /\ \A x \in DOMAIN sh.owner : sh.owner[x] \in Paths
  <1>1. sh.owner \in UNION { [ys -> Paths] : ys \in SUBSET UNION { Uses[p] : p \in Paths } }
    BY DEF Shares
  <1>2. PICK ys \in SUBSET UNION { Uses[p] : p \in Paths } : sh.owner \in [ys -> Paths]
    BY <1>1
  <1>3. QED
    BY <1>2 DEF Shares

(* A commit: what Apply does when no key was seen and nothing conflicts.   *)
Committed(c) ==
  /\ head < MaxRevisions /\ head' = head + 1
  /\ shows' = [id \in DOMAIN shows \cup {head + 1} |->
                 IF id = head + 1 THEN History!Carried(local[c].put, Invalidations(c)) ELSE shows[id]]
  /\ shared' = [id \in 1..head + 1 |-> IF id > head THEN NextShares(c) ELSE shared[id]]
  /\ prints' = [id \in 1..head + 1 |-> IF id > head THEN local[c].source ELSE prints[id]]
  /\ log' = log \cup {KeyOf(local[c].source, local[c].full, local[c].paths)}

LEMMA ApplyForms ==
  ASSUME NEW c \in Processes, Apply(c)
  PROVE  /\ pc[c] = "apply" /\ pc' = [pc EXCEPT ![c] = "idle"]
         /\ local' = [local EXCEPT ![c] = NoLocal]
         /\ UNCHANGED <<scenario, tree, edits, events>>
         /\ \/ /\ UNCHANGED store
               /\ \/ Seen(KeyOf(local[c].source, local[c].full, local[c].paths))
                  \/ Conflicts(c)
            \/ /\ ~ Seen(KeyOf(local[c].source, local[c].full, local[c].paths))
               /\ ~ Conflicts(c) /\ Committed(c)
  BY DEF Apply, Goto, Committed, History!Commit

(* The facts of the head.                                                  *)
LEMMA HeadShows ==
  ASSUME Typed
  PROVE  ShownBy(head) = History!HeadShows /\ WellMade(ShownBy(head))
  BY DEF Typed, ShownBy, NoRevision, History!HeadShows, History!None, WellMade

LEMMA NextSharesMade ==
  ASSUME Typed, NEW c \in Processes PROVE NextShares(c) \in Shares
  <1> DEFINE put == local[c].put
             parsed == { p \in DOMAIN put : put[p].seen[p] # Absent }
             found == Owners(parsed)
             read == SharedBy(local[c].prev).owner
             dropped == { x \in DOMAIN read : local[c].full \/ read[x] \in local[c].paths }
             old == SharedBy(head).owner
             xs == (DOMAIN old \ dropped) \cup DOMAIN found
  <1>1. DOMAIN put \subseteq Paths /\ parsed \in SUBSET Paths
    BY DEF Typed, CallTyped
  <1>2. NoTree \in Trees
    BY BoundsAssumption DEF NoTree, Trees, Versions, Absent, First
  <1>3. SharedBy(head) \in Shares
    BY <1>2, RebuildSharesMade, BoundsAssumption DEF SharedBy, Typed, NoRevision
  <1>4. /\ DOMAIN found \subseteq UNION { Uses[p] : p \in Paths } /\ \A x \in DOMAIN found : found[x] \in Paths
        /\ DOMAIN old \subseteq UNION { Uses[p] : p \in Paths } /\ \A x \in DOMAIN old : old[x] \in Paths
    <2> HIDE DEF parsed
    <2>1. /\ DOMAIN found \subseteq UNION { Uses[p] : p \in Paths } /\ \A x \in DOMAIN found : found[x] \in Paths
      BY <1>1, OwnersMade
    <2>2. QED
      BY <1>3, <2>1, SharesMade
  <1>5. NextDirectories(c) \subseteq UNION { Above[p] : p \in Paths }
    <2>1. Directories(DOMAIN put) \subseteq UNION { Above[p] : p \in Paths }
      BY <1>1 DEF Directories
    <2>2. SharedBy(head).directories \subseteq UNION { Above[p] : p \in Paths }
      BY <1>3, SharesMade
    <2>3. QED
      BY <2>1, <2>2 DEF NextDirectories
  <1>6. NextOwner(c) = [x \in xs |-> IF x \in DOMAIN found THEN found[x] ELSE old[x]]
    BY DEF NextOwner
  <1> HIDE DEF found, old, dropped, parsed, put
  <1>7. xs \subseteq UNION { Uses[p] : p \in Paths } /\ NextOwner(c) \in [xs -> Paths]
    BY <1>4, <1>6
  <1>8. QED
    BY <1>5, <1>7, OwnerTyped DEF NextShares

LEMMA CarriedMade ==
  ASSUME Typed, NEW c \in Processes, NEW drop
  PROVE  WellMade(History!Carried(local[c].put, drop))
  BY HeadShows DEF Typed, CallTyped, WellMade, History!Carried

(***************************************************************************)
(* Types.                                                                  *)
(***************************************************************************)
LEMMA NoLocalTyped ==
  /\ DOMAIN NoLocal = Fields /\ NoLocal.full \in BOOLEAN /\ ~ NoLocal.full /\ NoLocal.source \in Trees
  /\ NoLocal.expected = 0 /\ NoLocal.prev = 0 /\ NoLocal.paths = {} /\ DOMAIN NoLocal.put = {}
  BY BoundsAssumption DEF NoLocal, Fields, NoTree, Trees, Versions, Absent, First, NoRevision

LEMMA NoCallTyped == ASSUME head \in Nat PROVE CallTyped(NoLocal)
  BY NoLocalTyped DEF CallTyped

LEMMA NoTreeMade == NoTree \in Trees
  BY BoundsAssumption DEF NoTree, Trees, Versions, Absent, First

LEMMA InitTyped == Init => Typed
  <1> SUFFICES ASSUME Init PROVE Typed
    OBVIOUS
  <1>1. /\ scenario \in Scenarios /\ tree \in Trees /\ edits \in 0..MaxEdits
        /\ events \in [Processes -> SUBSET Paths]
        /\ pc \in [Processes -> Steps] /\ DOMAIN local = Processes
    BY BoundsAssumption DEF Init, Steps
  <1>2. ASSUME NEW c \in Processes PROVE local[c] = NoLocal
    BY DEF Init
  <1>3. CASE "first" \in scenario.happens
    <2>1. /\ head = 0 /\ shows = [id \in {} |-> {}] /\ prints = [id \in {} |-> NoTree] /\ log = {}
          /\ shared = [id \in {} |-> RebuildShares(NoTree)]
      BY <1>3 DEF Init, History!Init, History!None
    <2>2. DOMAIN shows = 1..head /\ prints \in [1..head -> Trees] /\ shared \in [1..head -> Shares]
      <3>1. 1..head = {}
        BY <2>1
      <3>2. DOMAIN shows = {} /\ prints \in [{} -> Trees] /\ shared \in [{} -> Shares]
        BY <2>1
      <3>3. QED
        BY <3>1, <3>2
    <2>3. head \in 0..MaxRevisions /\ \A id \in DOMAIN shows : WellMade(shows[id])
      BY <2>1, BoundsAssumption
    <2>4. log \subseteq Trees \X Modes \X SUBSET Paths
      BY <2>1
    <2>5. \A c \in Processes : CallTyped(local[c])
      BY <1>2, <2>1, NoCallTyped
    <2>6. QED
      BY <1>1, <2>2, <2>3, <2>4, <2>5 DEF Typed
  <1>4. CASE "first" \notin scenario.happens
    <2>1. /\ head = 1 /\ shows = [id \in {1} |-> Rebuild(tree)] /\ prints = [id \in {1} |-> tree]
          /\ log = {KeyOf(tree, TRUE, Files(tree))} /\ shared = [id \in {1} |-> RebuildShares(tree)]
      BY <1>4 DEF Init
    <2>2. DOMAIN shows = 1..head /\ prints \in [1..head -> Trees] /\ shared \in [1..head -> Shares]
      <3>1. 1..head = {1}
        BY <2>1
      <3>2. DOMAIN shows = {1} /\ prints \in [{1} -> Trees] /\ shared \in [{1} -> Shares]
        BY <1>1, <2>1, RebuildSharesMade
      <3>3. QED
        BY <3>1, <3>2
    <2>3. \A id \in DOMAIN shows : WellMade(shows[id])
      BY <1>1, <2>1, RebuildMade
    <2>4. log \subseteq Trees \X Modes \X SUBSET Paths
      BY <1>1, <2>1 DEF KeyOf, Modes, Files
    <2>5. head \in 0..MaxRevisions
      BY <2>1, BoundsAssumption
    <2>6. \A c \in Processes : CallTyped(local[c])
      BY <1>2, <2>1, NoCallTyped
    <2>7. QED
      BY <1>1, <2>2, <2>3, <2>4, <2>5, <2>6 DEF Typed
  <1>5. QED
    BY <1>3, <1>4

(* A process whose call becomes the given one, while the store stays.      *)
LEMMA CallMoves ==
  ASSUME Typed, UNCHANGED <<scenario, tree, edits, store>>, pc' \in [Processes -> Steps],
         events' \in [Processes -> SUBSET Paths],
         NEW c \in Processes, NEW call, CallTyped(call), local' = [local EXCEPT ![c] = call]
  PROVE  Typed'
  <1>1. UNCHANGED <<shows, shared, head, prints, log>>
    BY DEF store
  <1>2. \A d \in Processes : CallTyped(local'[d])
    BY DEF Typed
  <1>3. DOMAIN local' = Processes /\ \A d \in Processes : CallTyped(local[d])'
    BY <1>1, <1>2 DEF Typed, CallTyped
  <1>4. QED
    BY <1>1, <1>3 DEF Typed, WellMade

LEMMA EditTyped ==
  ASSUME Typed, NEW p \in Paths, NEW v \in Versions, Edit(p, v) PROVE Typed'
  <1>1. UNCHANGED <<scenario, shows, shared, head, prints, log, pc, local>>
    BY DEF Edit, store
  <1>2. edits' \in 0..MaxEdits
    <2>1. edits \in Nat /\ scenario.edits \in 0..MaxEdits /\ edits < scenario.edits /\ edits' = edits + 1
      BY ScenariosAssumption, BoundsAssumption DEF Edit, Typed
    <2>2. QED
      BY <2>1, BoundsAssumption
  <1>3. tree' \in Trees /\ events' \in [Processes -> SUBSET Paths]
    BY DEF Edit, Typed, Trees
  <1>4. QED
    BY <1>1, <1>2, <1>3 DEF Typed, CallTyped, WellMade

LEMMA PutTyped ==
  ASSUME NEW call, CallTyped(call), NEW ps \in SUBSET Paths, NEW source \in Trees, NEW t \in Trees
  PROVE  CallTyped([call EXCEPT !.put = Analysis(ps, source, t)])
  <1> DEFINE put == Analysis(ps, source, t)
  <1>1. DOMAIN put \subseteq Paths /\ \A p \in DOMAIN put : put[p] \in FactsOf(p)
    BY AnalysisMade
  <1> HIDE DEF put
  <1>2. CallTyped([call EXCEPT !.put = put])
    BY <1>1 DEF CallTyped, Fields
  <1>3. QED
    BY <1>2 DEF put

(* What the call of c becomes.                                             *)
Listing(batch) == [NoLocal EXCEPT !.expected = head, !.paths = batch]
Sourced(c) == [local[c] EXCEPT !.source = tree]
Opening == [NoLocal EXCEPT !.full = TRUE, !.source = tree]
Checked(c) == [local[c] EXCEPT !.expected = head]
Expanded(c, full, paths) == [local[c] EXCEPT !.prev = head, !.full = full, !.paths = paths]
Parsed(c) == [local[c] EXCEPT !.put = Analysis(local[c].paths, local[c].source, tree)]

LEMMA BatchTyped ==
  ASSUME Typed, NEW c \in Processes, NEW batch \in SUBSET events[c]
  PROVE  CallTyped(Listing(batch))
  <1>1. batch \subseteq Paths /\ head \in Nat
    BY BoundsAssumption DEF Typed
  <1>2. QED
    BY <1>1, NoCallTyped DEF Listing, CallTyped, Fields

(* The call of each step that only reads.                                  *)
LEMMA CallsTyped ==
  ASSUME Typed, NEW c \in Processes
  PROVE  /\ CallTyped(NoLocal)
         /\ CallTyped(Sourced(c))
         /\ CallTyped(Opening)
         /\ CallTyped(Checked(c))
         /\ \A full \in BOOLEAN, ps \in SUBSET Paths :
              CallTyped(Expanded(c, full, ps))
         /\ CallTyped(Parsed(c))
  <1> USE DEF CallTyped
  <1>1. head \in Nat /\ CallTyped(local[c]) /\ tree \in Trees /\ events[c] \subseteq Paths
    BY BoundsAssumption DEF Typed
  <1>2. CallTyped(NoLocal)
    BY <1>1, NoCallTyped
  <1>4. CallTyped(Opening)
    BY <1>1, <1>2 DEF Opening, Fields
  <1>5. CallTyped(Sourced(c)) /\ CallTyped(Checked(c))
    BY <1>1 DEF Sourced, Checked, Fields
  <1>6. ASSUME NEW full \in BOOLEAN, NEW ps \in SUBSET Paths
        PROVE  CallTyped(Expanded(c, full, ps))
    BY <1>1 DEF Expanded, Fields
  <1>7. CallTyped(Parsed(c))
    BY <1>1, PutTyped DEF Parsed
  <1>8. QED
    BY <1>2, <1>4, <1>5, <1>6, <1>7

LEMMA ApplyTyped ==
  ASSUME Typed, NEW c \in Processes, Apply(c) PROVE Typed'
  <1>1. /\ pc' \in [Processes -> Steps] /\ UNCHANGED <<scenario, tree, edits, events>>
        /\ local' = [local EXCEPT ![c] = NoLocal]
    BY ApplyForms DEF Typed, Steps
  <1>2. CASE UNCHANGED store
    <2>1. CallTyped(NoLocal) /\ events' \in [Processes -> SUBSET Paths]
      BY <1>1, CallsTyped DEF Typed
    <2>2. QED
      BY <1>1, <1>2, <2>1, CallMoves
  <1>3. CASE Committed(c)
    <2>1. head \in Nat /\ head' = head + 1 /\ head' \in 0..MaxRevisions
      BY <1>3, BoundsAssumption DEF Committed, Typed
    <2>2. DOMAIN shows' = 1..head'
      BY <1>3, <2>1 DEF Committed, Typed
    <2>3. \A id \in DOMAIN shows' : WellMade(shows'[id])
      <3>1. WellMade(History!Carried(local[c].put, Invalidations(c)))
        BY CarriedMade
      <3>2. QED
        BY <1>3, <2>1, <3>1 DEF Committed, Typed
    <2>4. prints' \in [1..head' -> Trees] /\ shared' \in [1..head' -> Shares]
      BY <1>3, <2>1, NextSharesMade DEF Committed, Typed, CallTyped
    <2>5. log' \subseteq Trees \X Modes \X SUBSET Paths
      BY <1>3 DEF Committed, Typed, CallTyped, KeyOf, Modes
    <2>6. DOMAIN local' = Processes /\ \A d \in Processes : CallTyped(local[d])'
      BY <1>1, <2>1, NoLocalTyped DEF Typed, CallTyped
    <2>7. QED
      BY <1>1, <2>1, <2>2, <2>3, <2>4, <2>5, <2>6 DEF Typed, WellMade
  <1>4. QED
    BY ApplyForms, <1>2, <1>3

LEMMA ExpandForms ==
  ASSUME Typed, NEW c \in Processes, Expand(c)
  PROVE  \E full \in BOOLEAN, paths \in SUBSET Paths :
           /\ pc[c] = "expand" /\ pc' = [pc EXCEPT ![c] = "analyze"]
           /\ UNCHANGED <<scenario, tree, edits, events, store>>
           /\ local' = [local EXCEPT ![c] = Expanded(c, full, paths)]
           /\ IF full
                THEN paths = Files(local[c].source)
                ELSE /\ ~ local[c].full
                     /\ paths = DependentPaths(ShownBy(head), SharedBy(head).owner, local[c].paths, Files(local[c].source))
  <1> DEFINE deps == DependentPaths(ShownBy(head), SharedBy(head).owner, local[c].paths, Files(local[c].source))
             full == local[c].full \/ PreferFullRefresh(ShownBy(head), deps)
             paths == IF full THEN Files(local[c].source) ELSE deps
  <1>1. full \in BOOLEAN /\ paths \in SUBSET Paths
    BY DEF DependentPaths, Files
  <1>2. IF full THEN paths = Files(local[c].source) ELSE ~ local[c].full /\ paths = deps
    OBVIOUS
  <1>3. /\ local' = [local EXCEPT ![c].prev = head, ![c].expected = local[c].expected,
                                   ![c].full = full, ![c].paths = paths]
        /\ pc[c] = "expand" /\ pc' = [pc EXCEPT ![c] = "analyze"]
        /\ UNCHANGED <<scenario, tree, edits, events, store>>
    BY DEF Expand, Expected, Goto
  <1> HIDE DEF full, paths
  <1>4. local' = [local EXCEPT ![c] = Expanded(c, full, paths)]
    BY <1>3 DEF Typed, CallTyped, Fields, Expanded
  <1> HIDE DEF deps
  <1>5. \E f \in BOOLEAN, ps \in SUBSET Paths :
          /\ pc[c] = "expand" /\ pc' = [pc EXCEPT ![c] = "analyze"]
          /\ UNCHANGED <<scenario, tree, edits, events, store>>
          /\ local' = [local EXCEPT ![c] = Expanded(c, f, ps)]
          /\ IF f THEN ps = Files(local[c].source) ELSE ~ local[c].full /\ ps = deps
    BY <1>1, <1>2, <1>3, <1>4
  <1>6. QED
    BY <1>5 DEF deps

Moves(c) ==
  \/ \E batch \in SUBSET Paths : Refresh(c, batch)
  \/ \E rest \in SUBSET Paths : Open(c, rest)
  \/ RefreshSource(c) \/ OpenReady(c) \/ OpenBuild(c) \/ Expand(c) \/ Analyze(c)
  \/ Apply(c) \/ Restart(c)

LEMMA StepTyped == Typed /\ [Next]_vars => Typed'
  <1> SUFFICES ASSUME Typed, [Next]_vars PROVE Typed'
    OBVIOUS
  <1>1. ASSUME NEW p \in Paths, NEW v \in Versions, Edit(p, v) PROVE Typed'
    BY <1>1, EditTyped
  <1>2. ASSUME NEW c \in scenario.sidecars, Moves(c)
        PROVE  Typed'
    <2>1. c \in Processes /\ c \in DOMAIN local
      BY ScenariosAssumption DEF Typed
    <2>2. ASSUME UNCHANGED <<scenario, tree, edits, store>>, pc' \in [Processes -> Steps],
                 events' \in [Processes -> SUBSET Paths],
                 NEW call, CallTyped(call), local' = [local EXCEPT ![c] = call]
          PROVE  Typed'
      BY <2>1, <2>2, CallMoves
    <2>a. pc \in [Processes -> Steps] /\ events \in [Processes -> SUBSET Paths]
      BY DEF Typed
    <2>b. /\ CallTyped(NoLocal) /\ CallTyped(Opening)
          /\ CallTyped(Sourced(c)) /\ CallTyped(Checked(c))
      BY <2>1, CallsTyped
    <2>3. ASSUME NEW batch \in SUBSET Paths, Refresh(c, batch) PROVE Typed'
      <3>1. /\ pc' = [pc EXCEPT ![c] = "source"] /\ UNCHANGED <<scenario, tree, edits, store>>
            /\ events' = [events EXCEPT ![c] = @ \ batch] /\ batch \in SUBSET events[c]
            /\ local' = [local EXCEPT ![c] = Listing(batch)]
        BY <2>3 DEF Refresh, Goto, Listing
      <3>2. CallTyped(Listing(batch))
        BY <2>1, <3>1, BatchTyped
      <3>3. pc' \in [Processes -> Steps] /\ events' \in [Processes -> SUBSET Paths]
        BY <2>1, <2>a, <3>1 DEF Steps
      <3>4. QED
        BY <2>2, <3>1, <3>2, <3>3
    <2>4. CASE RefreshSource(c)
      <3>1. local' = [local EXCEPT ![c] = Sourced(c)]
        BY <2>1, <2>4 DEF RefreshSource, Sourced
      <3>2. QED
        BY <2>2, <2>4, <2>a, <2>b, <3>1 DEF RefreshSource, Goto, Steps
    <2>5. ASSUME NEW rest \in SUBSET Paths, Open(c, rest) PROVE Typed'
      <3>1. /\ pc' = [pc EXCEPT ![c] = "match"] /\ UNCHANGED <<scenario, tree, edits, store>>
            /\ events' = [events EXCEPT ![c] = rest]
            /\ local' = [local EXCEPT ![c] = Opening]
        BY <2>5 DEF Open, Goto, Opening
      <3>2. pc' \in [Processes -> Steps] /\ events' \in [Processes -> SUBSET Paths]
        BY <2>1, <2>a, <3>1 DEF Steps
      <3>3. QED
        BY <2>2, <2>b, <3>1, <3>2
    <2>6. CASE OpenReady(c)
      BY <2>2, <2>6, <2>a, <2>b DEF OpenReady, Goto, Steps
    <2>7. CASE OpenBuild(c)
      <3>1. local' = [local EXCEPT ![c] = Checked(c)]
        BY <2>1, <2>7 DEF OpenBuild, Checked
      <3>2. QED
        BY <2>2, <2>7, <2>a, <2>b, <3>1 DEF OpenBuild, Goto, Steps
    <2>8. CASE Expand(c)
      <3>1. PICK full \in BOOLEAN, paths \in SUBSET Paths :
              /\ pc' = [pc EXCEPT ![c] = "analyze"] /\ UNCHANGED <<scenario, tree, edits, events, store>>
              /\ local' = [local EXCEPT ![c] = Expanded(c, full, paths)]
        BY <2>1, <2>8, ExpandForms
      <3>2. CallTyped(Expanded(c, full, paths))
        BY <2>1, CallsTyped
      <3>3. QED
        BY <2>2, <2>a, <3>1, <3>2 DEF Steps
    <2>9. CASE Analyze(c)
      <3>1. CallTyped(Parsed(c)) /\ local' = [local EXCEPT ![c] = Parsed(c)]
        BY <2>1, <2>9, CallsTyped DEF Analyze, Parsed
      <3>2. QED
        BY <2>2, <2>9, <2>a, <3>1 DEF Analyze, Goto, Steps
    <2>10. CASE Apply(c)
      BY <2>1, <2>10, ApplyTyped
    <2>11. CASE Restart(c)
      BY <2>2, <2>11, <2>a, <2>b DEF Restart, Steps
    <2>12. QED
      BY <1>2, <2>3, <2>4, <2>5, <2>6, <2>7, <2>8, <2>9, <2>10, <2>11 DEF Moves
  <1>3. CASE UNCHANGED vars
    BY <1>3 DEF vars, Typed, CallTyped, WellMade
  <1>4. QED
    BY <1>1, <1>2, <1>3 DEF Next, Moves

LEMMA TypedAlways == Spec => []Typed
  BY InitTyped, StepTyped, PTL DEF Spec

LEMMA TypedIsTypeOK == Typed => TypeOK
  <1> SUFFICES ASSUME Typed PROVE TypeOK
    OBVIOUS
  <1>1. ASSUME NEW p \in Paths PROVE FactsOf(p) \subseteq Fact
    BY DEF FactsOf, Fact
  <1>2. \A id \in DOMAIN shows : shows[id] \subseteq Paths \X Fact
    BY <1>1 DEF Typed, WellMade
  <1>3. QED
    BY <1>2 DEF Typed, TypeOK, CallTyped

(* Every revision, call, event and key is what its comment says.           *)
THEOREM TypesHold == Spec => []TypeOK
  BY TypedAlways, TypedIsTypeOK, PTL

(***************************************************************************)
(* The order in which a call reads the head.                               *)
(***************************************************************************)

(* A store that starts empty has one sidecar, which builds the first twin. *)
OneBuilder ==
  \A s \in Scenarios : "first" \in s.happens => \A c, d \in s.sidecars : c = d

Applying == {"analyze", "apply"}

InOrder(c) ==
  /\ pc[c] # "idle" => c \in scenario.sidecars
  /\ pc[c] = "source" => ~ local[c].full
  /\ pc[c] = "match" => local[c].full
  /\ pc[c] \in {"source", "expand"} \cup Applying /\ local[c].expected = NoRevision
       => "first" \in scenario.happens
  /\ pc[c] \in Applying =>
       /\ local[c].expected <= local[c].prev
       /\ OneBuilder /\ "first" \in scenario.happens => local[c].prev = head
       /\ local[c].full => local[c].paths = Files(local[c].source)
  /\ pc[c] = "apply" => \E t \in Trees :
       local[c].put = Analysis(local[c].paths, local[c].source, t)

Ordered ==
  /\ head = NoRevision => "first" \in scenario.happens
  /\ \A c \in Processes : InOrder(c)

LEMMA InitOrdered == Init => Ordered
  <1> SUFFICES ASSUME Init PROVE Ordered
    OBVIOUS
  <1>1. ASSUME NEW c \in Processes PROVE pc[c] = "idle"
    BY DEF Init
  <1>2. head = NoRevision => "first" \in scenario.happens
    <2>1. "first" \notin scenario.happens => head = 1
      BY DEF Init
    <2>2. QED
      BY <2>1 DEF NoRevision
  <1>3. QED
    BY <1>1, <1>2 DEF Ordered, InOrder, Applying

LEMMA CallOrdered ==
  ASSUME Typed, Ordered, UNCHANGED <<scenario, store>>, NEW c \in Processes, NEW call, NEW step,
         local' = [local EXCEPT ![c] = call], pc' = [pc EXCEPT ![c] = step], InOrder(c)'
  PROVE  Ordered'
  <1>1. UNCHANGED <<scenario, head>>
    BY DEF store
  <1>2. ASSUME NEW d \in Processes PROVE InOrder(d)'
    <2>1. CASE d = c
      BY <2>1
    <2>2. CASE d # c
      <3>1. pc'[d] = pc[d] /\ local'[d] = local[d]
        BY <2>2 DEF Typed
      <3>2. QED
        BY <1>1, <3>1 DEF Ordered, InOrder
    <2>3. QED
      BY <2>1, <2>2
  <1>3. QED
    BY <1>1, <1>2 DEF Ordered

LEMMA ApplyOrdered ==
  ASSUME Typed, Ordered, NEW c \in Processes, Apply(c) PROVE Ordered'
  <1>1. /\ pc[c] = "apply" /\ pc' = [pc EXCEPT ![c] = "idle"] /\ local' = [local EXCEPT ![c] = NoLocal]
        /\ UNCHANGED scenario
    BY ApplyForms
  <1>2. InOrder(c)'
    BY <1>1 DEF InOrder, Typed, Applying
  <1>3. CASE UNCHANGED store
    BY <1>1, <1>2, <1>3, CallOrdered
  <1>4. CASE Committed(c)
    <2>1. head' = head + 1 /\ head \in Nat /\ head' # NoRevision
      BY <1>4, BoundsAssumption DEF Committed, Typed, NoRevision
    <2>2. ASSUME NEW d \in Processes, d # c PROVE InOrder(d)'
      <3>1. pc'[d] = pc[d] /\ local'[d] = local[d]
        BY <1>1, <2>2 DEF Typed
      <3>2. pc[d] # "idle" /\ OneBuilder => "first" \notin scenario.happens
        BY <1>1, <2>2 DEF OneBuilder, Typed, Ordered, InOrder
      <3>3. QED
        BY <1>1, <3>1, <3>2 DEF Ordered, InOrder, Applying
    <2>3. QED
      BY <1>2, <2>1, <2>2 DEF Ordered
  <1>5. QED
    BY ApplyForms, <1>3, <1>4

LEMMA StepOrdered ==
  ASSUME Typed, Ordered, [Next]_vars PROVE Ordered'
  <1>1. ASSUME NEW p \in Paths, NEW v \in Versions, Edit(p, v) PROVE Ordered'
    BY <1>1 DEF Edit, store, Ordered, InOrder
  <1>2. ASSUME NEW c \in scenario.sidecars, Moves(c)
        PROVE  Ordered'
    <2>1. /\ c \in Processes /\ c \in DOMAIN local /\ c \in DOMAIN pc /\ CallTyped(local[c])
          /\ InOrder(c) /\ head \in Nat /\ (head = NoRevision => "first" \in scenario.happens)
      BY ScenariosAssumption, BoundsAssumption DEF Typed, Ordered
    <2>2. ASSUME UNCHANGED <<scenario, store>>, NEW call, NEW step,
                 local' = [local EXCEPT ![c] = call], pc' = [pc EXCEPT ![c] = step], InOrder(c)'
          PROVE  Ordered'
      BY <2>1, <2>2, CallOrdered
    <2>a. UNCHANGED store => UNCHANGED head
      BY DEF store
    <2> USE NoLocalTyped DEF Goto, InOrder, Applying, NoRevision
    <2>3. ASSUME NEW batch \in SUBSET Paths, Refresh(c, batch) PROVE Ordered'
      <3>1. InOrder(c)'
        BY <1>2, <2>1, <2>3, <2>a DEF Refresh, Typed, Fields
      <3>2. QED
        BY <2>2, <2>3, <3>1 DEF Refresh
    <2>4. CASE RefreshSource(c)
      <3>1. local' = [local EXCEPT ![c] = [local[c] EXCEPT !.source = tree]]
        BY <2>1, <2>4 DEF RefreshSource
      <3>2. InOrder(c)'
        BY <1>2, <2>1, <2>4, <2>a, <3>1 DEF RefreshSource, CallTyped, Fields
      <3>3. QED
        BY <2>2, <2>4, <3>1, <3>2 DEF RefreshSource
    <2>5. ASSUME NEW rest \in SUBSET Paths, Open(c, rest) PROVE Ordered'
      <3>1. InOrder(c)'
        BY <1>2, <2>1, <2>5, <2>a DEF Open, Fields
      <3>2. QED
        BY <2>2, <2>5, <3>1 DEF Open
    <2>6. CASE OpenReady(c)
      BY <2>1, <2>2, <2>6, <2>a DEF OpenReady
    <2>7. CASE OpenBuild(c)
      <3>1. local' = [local EXCEPT ![c] = [local[c] EXCEPT !.expected = head]]
        BY <2>1, <2>7 DEF OpenBuild
      <3>2. InOrder(c)'
        BY <1>2, <2>1, <2>7, <2>a, <3>1 DEF OpenBuild, CallTyped, Fields
      <3>3. QED
        BY <2>2, <2>7, <3>1, <3>2 DEF OpenBuild
    <2>8. CASE Expand(c)
      <3>1. PICK full \in BOOLEAN, paths \in SUBSET Paths :
              /\ pc[c] = "expand" /\ pc' = [pc EXCEPT ![c] = "analyze"]
              /\ UNCHANGED <<scenario, tree, edits, events, store>>
              /\ local' = [local EXCEPT ![c] = Expanded(c, full, paths)]
              /\ full => paths = Files(local[c].source)
        BY <2>1, <2>8, ExpandForms
      <3>2. /\ pc'[c] = "analyze" /\ local'[c].expected = local[c].expected /\ local'[c].prev = head
            /\ local'[c].full = full /\ local'[c].paths = paths /\ local'[c].source = local[c].source
        BY <2>1, <3>1 DEF Expanded, CallTyped, Fields
      <3>3. local[c].expected <= head
        BY <2>1 DEF CallTyped
      <3>4. InOrder(c)'
        BY <1>2, <2>1, <2>a, <3>1, <3>2, <3>3
      <3>5. QED
        BY <2>2, <3>1, <3>4
    <2>9. CASE Analyze(c)
      <3> DEFINE put == Analysis(local[c].paths, local[c].source, tree)
      <3>1. /\ local' = [local EXCEPT ![c] = [local[c] EXCEPT !.put = put]] /\ tree \in Trees
            /\ pc[c] = "analyze" /\ pc' = [pc EXCEPT ![c] = "apply"] /\ UNCHANGED <<scenario, store>>
        BY <2>1, <2>9 DEF Analyze, Typed
      <3>2. \E t \in Trees : put = Analysis(local[c].paths, local[c].source, t)
        BY <3>1
      <3> HIDE DEF put
      <3>3. InOrder(c)'
        BY <1>2, <2>1, <2>a, <3>1, <3>2 DEF CallTyped, Fields
      <3>4. QED
        BY <2>2, <3>1, <3>3
    <2>10. CASE Apply(c)
      BY <2>1, <2>10, ApplyOrdered
    <2>11. CASE Restart(c)
      BY <2>1, <2>2, <2>11, <2>a DEF Restart
    <2>12. QED
      BY <1>2, <2>3, <2>4, <2>5, <2>6, <2>7, <2>8, <2>9, <2>10, <2>11 DEF Moves
  <1>3. CASE UNCHANGED vars
    BY <1>3 DEF vars, Ordered, InOrder
  <1>4. QED
    BY <1>1, <1>2, <1>3 DEF Next, Moves

LEMMA OrderedAlways == Spec => [](Typed /\ Ordered)
  <1>1. Init => Typed /\ Ordered
    BY InitTyped, InitOrdered
  <1>2. Typed /\ Ordered /\ [Next]_vars => (Typed /\ Ordered)'
    BY StepTyped, StepOrdered
  <1>3. QED
    BY <1>1, <1>2, PTL DEF Spec

LEMMA StoreKept ==
  ASSUME NEW c, Moves(c), ~ Apply(c) PROVE UNCHANGED store
  <1>1. \A batch : Refresh(c, batch) => UNCHANGED store
    BY DEF Refresh
  <1>2. \A rest : Open(c, rest) => UNCHANGED store
    BY DEF Open
  <1>3. RefreshSource(c) => UNCHANGED store
    BY DEF RefreshSource
  <1>4. (OpenReady(c) => UNCHANGED store) /\ (OpenBuild(c) => UNCHANGED store)
    BY DEF OpenReady, OpenBuild
  <1>5. (Expand(c) => UNCHANGED store) /\ (Analyze(c) => UNCHANGED store)
    BY DEF Expand, Analyze
  <1>6. Restart(c) => UNCHANGED store
    BY DEF Restart
  <1>7. QED
    BY <1>1, <1>2, <1>3, <1>4, <1>5, <1>6 DEF Moves

LEMMA ScenarioKept ==
  ASSUME NEW c, Moves(c) PROVE scenario' = scenario
  <1>1. \A batch : Refresh(c, batch) => scenario' = scenario
    BY DEF Refresh
  <1>2. \A rest : Open(c, rest) => scenario' = scenario
    BY DEF Open
  <1>3. RefreshSource(c) => scenario' = scenario
    BY DEF RefreshSource
  <1>4. (OpenReady(c) => scenario' = scenario) /\ (OpenBuild(c) => scenario' = scenario)
    BY DEF OpenReady, OpenBuild
  <1>5. (Expand(c) => scenario' = scenario) /\ (Analyze(c) => scenario' = scenario)
    BY DEF Expand, Analyze
  <1>6. (Apply(c) => scenario' = scenario) /\ (Restart(c) => scenario' = scenario)
    BY DEF Apply, Restart
  <1>7. QED
    BY <1>1, <1>2, <1>3, <1>4, <1>5, <1>6 DEF Moves

(* Only a commit moves the head.                                           *)
LEMMA HeadMoves ==
  ASSUME Typed, [Next]_vars, head' # head
  PROVE  \E c \in Processes : /\ Apply(c) /\ Committed(c) /\ ~ Conflicts(c)
                             /\ \A d \in Processes \ {c} : pc'[d] = pc[d]
  <1>a. ~ UNCHANGED vars /\ \A p \in Paths, v \in Versions : ~ Edit(p, v)
    BY DEF vars, Edit, store
  <1>b. PICK c \in scenario.sidecars : Moves(c)
    BY <1>a DEF Next, Moves
  <1>1. Apply(c)
    BY <1>b, StoreKept DEF store
  <1>2. c \in Processes
    BY ScenariosAssumption DEF Typed
  <1>3. Committed(c) /\ ~ Conflicts(c) /\ pc' = [pc EXCEPT ![c] = "idle"]
    BY <1>1, <1>2, ApplyForms DEF store
  <1>4. \A d \in Processes \ {c} : pc'[d] = pc[d]
    BY <1>3 DEF Typed
  <1>5. QED
    BY <1>1, <1>2, <1>3, <1>4

LEMMA PrevIsHead ==
  ASSUME OneBuilder, Typed, Ordered, NEW c \in Processes, Apply(c), ~ Conflicts(c)
  PROVE  local[c].prev = head
  <1>1. /\ local[c].expected \in Nat /\ local[c].prev \in 0..head /\ head \in Nat
        /\ InOrder(c) /\ pc[c] = "apply"
    BY ApplyForms, BoundsAssumption DEF Typed, CallTyped, Ordered
  <1>2. CASE local[c].expected = NoRevision
    BY <1>1, <1>2 DEF InOrder, Applying
  <1>3. CASE local[c].expected = head
    BY <1>1, <1>3 DEF InOrder, Applying
  <1>4. QED
    BY <1>2, <1>3 DEF Conflicts

(* No revision is built on another one than the head it replaces, however  *)
(* many sidecars refresh the same store: nothing that was committed in the *)
(* meantime is lost.  A store that starts empty must have one sidecar: two *)
(* first builds expect no head, and the second is built on what is gone.   *)
THEOREM RevisionsBuildOnTheHead == ASSUME OneBuilder PROVE Spec => BuiltOnTheHead
  <1>1. ASSUME Typed, Ordered, [Next]_vars, head' # head
        PROVE  \E c \in Processes : pc[c] = "apply" /\ pc'[c] # "apply" /\ local[c].prev = head
    <2>1. PICK c \in Processes : Apply(c) /\ ~ Conflicts(c)
      BY <1>1, HeadMoves
    <2>2. pc[c] = "apply" /\ pc'[c] # "apply"
      BY <1>1, <2>1, ApplyForms DEF Typed
    <2>3. QED
      BY <1>1, <2>1, <2>2, PrevIsHead
  <1>2. Typed /\ Ordered /\ [Next]_vars =>
          [head' # head => \E c \in Processes : /\ pc[c] = "apply" /\ pc'[c] # "apply"
                                                /\ local[c].prev = head]_vars
    BY <1>1
  <1>3. QED
    BY <1>2, OrderedAlways, PTL DEF Spec, BuiltOnTheHead

(***************************************************************************)
(* What a commit shows.                                                    *)
(***************************************************************************)

(* The facts after a build of paths, listed by source and found in t.      *)
Renewed(shown, full, paths, source, t) ==
  { x \in shown : ~ full /\ x[1] \notin paths }
    \cup { <<p, FactOf(p, source, t)>> : p \in paths \cap Files(source) }

LEMMA CommitRenews ==
  ASSUME Typed, NEW c \in Processes, local[c].prev = head, NEW t \in Trees,
         local[c].put = Analysis(local[c].paths, local[c].source, t)
  PROVE  History!Carried(local[c].put, Invalidations(c))
           = Renewed(ShownBy(head), local[c].full, local[c].paths, local[c].source, t)
  <1> DEFINE paths == local[c].paths
             source == local[c].source
             put == local[c].put
             full == local[c].full
             shown == ShownBy(head)
             drop == Invalidations(c)
  <1>1. paths \in SUBSET Paths /\ source \in Trees
    BY DEF Typed, CallTyped
  <1>2. DOMAIN put = paths \cap Files(source) /\ \A p \in DOMAIN put : put[p] = FactOf(p, source, t)
    <2>1. /\ DOMAIN Analysis(paths, source, t) = paths \cap Files(source)
          /\ \A p \in paths \cap Files(source) : Analysis(paths, source, t)[p] = FactOf(p, source, t)
      <3> HIDE DEF paths, source
      <3>1. QED
        BY <1>1, AnalysisMade
    <2>2. put = Analysis(paths, source, t)
      OBVIOUS
    <2> HIDE DEF put, paths, source
    <2>3. QED
      BY <2>1, <2>2
  <1>3. drop = { x[1] : x \in { y \in shown : full \/ y[1] \in paths } } \ DOMAIN put
    BY DEF Invalidations
  <1>4. History!Carried(put, drop)
          = { x \in shown : x[1] \notin DOMAIN put \cup drop } \cup { <<p, put[p]>> : p \in DOMAIN put \ drop }
    BY HeadShows DEF History!Carried
  <1> HIDE DEF shown, put, drop, paths, source, full
  <1>5. { <<p, put[p]>> : p \in DOMAIN put \ drop } = { <<p, FactOf(p, source, t)>> : p \in paths \cap Files(source) }
    <2>1. DOMAIN put \ drop = paths \cap Files(source)
      BY <1>2, <1>3
    <2>2. QED
      BY <1>2, <2>1
  <1>6. { x \in shown : x[1] \notin DOMAIN put \cup drop } = { x \in shown : ~ full /\ x[1] \notin paths }
    BY <1>2, <1>3
  <1>7. QED
    BY <1>4, <1>5, <1>6 DEF Renewed, shown, put, drop, paths, source, full

(* A full build, however many sidecars refresh the same store, leaves no   *)
(* fact of a file that it did not list and misses none that it listed.     *)
THEOREM FullBuildsReplaceAll == ASSUME OneBuilder PROVE Spec => FullBuildReplacesAll
  <1> DEFINE Replaced(c) ==
        head' # head /\ pc[c] = "apply" /\ pc'[c] # "apply" /\ local[c].full
          => { pair[1] : pair \in shows'[head'] } = Files(local[c].source)
  <1>1. ASSUME Typed, Ordered, [Next]_vars, NEW c \in Processes, head' # head,
               pc[c] = "apply", pc'[c] # "apply", local[c].full
        PROVE  { pair[1] : pair \in shows'[head'] } = Files(local[c].source)
    <2>1. Apply(c) /\ Committed(c) /\ ~ Conflicts(c)
      BY <1>1, HeadMoves
    <2>2. InOrder(c) /\ local[c].prev = head
      BY <1>1, <2>1, PrevIsHead DEF Ordered
    <2>3. PICK t \in Trees : local[c].put = Analysis(local[c].paths, local[c].source, t)
      BY <1>1, <2>2 DEF InOrder
    <2>4. local[c].paths = Files(local[c].source)
      BY <1>1, <2>2 DEF InOrder, Applying
    <2>5. shows'[head'] = Renewed(ShownBy(head), TRUE, Files(local[c].source), local[c].source, t)
      <3>1. shows'[head'] = History!Carried(local[c].put, Invalidations(c))
        BY <2>1 DEF Committed
      <3>2. local[c].full = TRUE
        BY <1>1 DEF Typed, CallTyped
      <3>3. QED
        BY <1>1, <2>2, <2>3, <2>4, <3>1, <3>2, CommitRenews
    <2>6. shows'[head'] = { <<p, FactOf(p, local[c].source, t)>> : p \in Files(local[c].source) }
      BY <2>5 DEF Renewed
    <2> DEFINE files == Files(local[c].source)
               fact(p) == FactOf(p, local[c].source, t)
    <2> HIDE DEF files, fact
    <2>7. shows'[head'] = { <<p, fact(p)>> : p \in files }
      BY <2>6 DEF files, fact
    <2>8. { pair[1] : pair \in shows'[head'] } = files
      <3>1. ASSUME NEW p \in files PROVE p \in { pair[1] : pair \in shows'[head'] }
        <4>1. <<p, fact(p)>> \in shows'[head'] /\ <<p, fact(p)>>[1] = p
          BY <2>7
        <4>2. QED
          BY <4>1
      <3>2. ASSUME NEW pair \in shows'[head'] PROVE pair[1] \in files
        BY <2>7
      <3>3. QED
        BY <3>1, <3>2
    <2>9. QED
      BY <2>8 DEF files
  <1>2. Typed /\ Ordered /\ [Next]_vars => [\A c \in Processes : Replaced(c)]_vars
    BY <1>1
  <1>3. QED
    BY <1>2, OrderedAlways, PTL DEF Spec, FullBuildReplacesAll

(***************************************************************************)
(* What one undisturbed sidecar knows.  A file only ever moves on to a new *)
(* content, and once gone it stays away.                                   *)
(***************************************************************************)
Older(v, w) == v = w \/ (v # Absent /\ (w = Absent \/ v < w))
Precedes(t, u) == \A p \in Paths : Older(t[p], u[p])

(* The facts shown are of the worktree t, but for what the paths E owe.    *)
Sound(shown, t, E) ==
  /\ \A x, y \in shown : x[1] = y[1] => x = y
  /\ \A x \in shown : x[2].hash # t[x[1]] => x[1] \in E
  /\ \A x \in shown : t[x[1]] # Absent =>
       \A q \in Reads(x[1]) : /\ Older(x[2].seen[q], t[q])
                              /\ x[2].seen[q] # t[q] => q \in E
                              /\ x[2].seen[q] # Absent => q \in Modules(shown)
  /\ \A p \in Files(t) : \E x \in shown : x[1] = p

(* No shared node is of a file that is not shown or does not import it,    *)
(* and none is missing.                                                    *)
SharesSound(shown, sh, t) ==
  /\ \A x \in DOMAIN sh.owner : sh.owner[x] \in Modules(shown) /\ x \in Uses[sh.owner[x]]
  /\ \A p \in Files(t) : Uses[p] \subseteq DOMAIN sh.owner /\ Above[p] \subseteq sh.directories

(* The facts of p are those a build of t from scratch would find.          *)
Right(shown, p, t) ==
  /\ t[p] # Absent => <<p, FactOf(p, t, t)>> \in shown
  /\ \A x \in shown : x[1] = p => t[p] # Absent /\ x = <<p, FactOf(p, t, t)>>

(* The build of a key did all that it would do if it were made again.      *)
Held(shown, key, t) ==
  \A p \in Paths : key[2] = "full" \/ p \in key[3] => Right(shown, p, t)

HeadFollows == head # NoRevision => Precedes(prints[head], tree)

Logged ==
  \A key \in log : /\ head # NoRevision /\ Precedes(key[1], prints[head])
                   /\ key[1] = tree => Held(shows[head], key, tree)

(* What a call listed and what it parsed are of the way from then to now.  *)
BuildReads(source, t, u, E) ==
  /\ Precedes(source, t) /\ Precedes(t, u)
  /\ \A q \in Paths : source[q] # u[q] \/ t[q] # u[q] => q \in E

(* The sources that a call has read, and what the worktree is by now.      *)
SourceFollows(c) ==
  pc[c] \in {"match", "expand"} \cup Applying =>
    /\ BuildReads(local[c].source, local[c].source, tree, events[c])
    /\ head # NoRevision => Precedes(prints[head], local[c].source)
    /\ \A key \in log : key[1] = local[c].source => Held(shows[head], key, local[c].source)

Analyzed(c) ==
  pc[c] = "apply" =>
    \E t \in Trees : /\ local[c].put = Analysis(local[c].paths, local[c].source, t)
                     /\ BuildReads(local[c].source, t, tree, events[c])
                     /\ ~ local[c].full => Files(t) \subseteq Modules(shows[head])

(* The affected paths are closed under importers and owners.               *)
Closed(shown, owner, ps, files) ==
  Dependents(shown, ps, files) \subseteq ps /\ Sharers(shown, owner, ps, files) \subseteq ps

CallSound(c) ==
  /\ pc[c] \in {"idle", "match"} /\ head # NoRevision => Sound(shows[head], tree, events[c])
  /\ pc[c] \in {"source", "expand"} \cup Applying =>
       /\ local[c].expected = head
       /\ ~ local[c].full =>
            head # NoRevision /\ Sound(shows[head], tree, events[c] \cup local[c].paths)
  /\ pc[c] \in Applying =>
       /\ local[c].prev = head
       /\ ~ local[c].full =>
            Closed(shows[head], shared[head].owner, local[c].paths, Files(local[c].source))

(* The one sidecar of an undisturbed project.                              *)
Alone(c) == scenario.sidecars = {c} /\ scenario.happens \subseteq {"first", "open"}

Known(c) ==
  /\ \A p \in Paths : tree[p] <= First + edits
  /\ HeadFollows /\ Logged /\ SourceFollows(c) /\ Analyzed(c) /\ CallSound(c)
  /\ head # NoRevision => SharesSound(shows[head], shared[head], tree)

KeepsUp == \A c \in Processes : Alone(c) => Known(c)

LEMMA VersionsAreNat == Versions \subseteq Nat /\ \A t \in Trees, p \in Paths : t[p] \in Versions
  BY BoundsAssumption DEF Versions, Trees, Absent, First

LEMMA OlderOrder ==
  /\ \A v \in Versions : Older(v, v)
  /\ \A u, v, w \in Versions : Older(u, v) /\ Older(v, w) => Older(u, w)
  /\ \A v, w \in Versions : Older(v, w) /\ Older(w, v) => v = w
  BY VersionsAreNat DEF Older

LEMMA PrecedesOrder ==
  /\ \A t \in Trees : Precedes(t, t)
  /\ \A s, t, u \in Trees : Precedes(s, t) /\ Precedes(t, u) => Precedes(s, u)
  /\ \A t, u \in Trees : Precedes(t, u) /\ Precedes(u, t) => t = u
  <1>1. \A t \in Trees : Precedes(t, t)
    BY OlderOrder, VersionsAreNat DEF Precedes
  <1>2. \A s, t, u \in Trees : Precedes(s, t) /\ Precedes(t, u) => Precedes(s, u)
    BY OlderOrder, VersionsAreNat DEF Precedes
  <1>3. ASSUME NEW t \in Trees, NEW u \in Trees, Precedes(t, u), Precedes(u, t) PROVE t = u
    <2>1. \A p \in Paths : t[p] = u[p]
      BY <1>3, OlderOrder, VersionsAreNat DEF Precedes
    <2>2. QED
      BY <2>1 DEF Trees
  <1>4. QED
    BY <1>1, <1>2, <1>3

(* A file that is still there was there before.                            *)
LEMMA FilesPrecede ==
  ASSUME NEW t \in Trees, NEW u \in Trees, Precedes(t, u) PROVE Files(u) \subseteq Files(t)
  BY DEF Precedes, Older, Files

(* A file that the analysis finds saw itself as the disk had it.           *)
LEMMA FactSees ==
  ASSUME NEW source \in Trees, NEW t \in Trees, NEW p \in Files(source)
  PROVE  p \in Paths /\ FactOf(p, source, t).seen[p] = t[p]
  <1>1. p \in Paths /\ p \in Reads(p)
    BY DEF Files, Reads
  <1>2. QED
    BY <1>1, FactMade

LEMMA AnalysisSees ==
  ASSUME NEW paths \in SUBSET Paths, NEW source \in Trees, NEW t \in Trees
  PROVE  LET put == Analysis(paths, source, t)
         IN  /\ DOMAIN put = paths \cap Files(source)
             /\ \A p : p \in DOMAIN put /\ put[p].seen[p] # Absent
                       <=> p \in paths \cap Files(source) \cap Files(t)
  <1> DEFINE put == Analysis(paths, source, t)
  <1>1. DOMAIN put = paths \cap Files(source) /\ \A p \in DOMAIN put : put[p] = FactOf(p, source, t)
    BY DEF Analysis
  <1>2. \A p \in DOMAIN put : p \in Paths /\ put[p].seen[p] = t[p]
    BY <1>1, FactSees
  <1> HIDE DEF put
  <1>3. \A p : p \in DOMAIN put /\ put[p].seen[p] # Absent <=> p \in paths \cap Files(source) \cap Files(t)
    BY <1>1, <1>2 DEF Files
  <1>4. QED
    BY <1>1, <1>3 DEF put

(***************************************************************************)
(* The closure over importers.                                             *)
(***************************************************************************)
LEMMA ClosureClosed ==
  ASSUME NEW shown, WellMade(shown), NEW owner, NEW changed \in SUBSET Paths, NEW files \in SUBSET Paths
  PROVE  LET ps == DependentPaths(shown, owner, changed, files)
         IN  ps \subseteq Paths /\ changed \subseteq ps /\ Closed(shown, owner, ps, files)
  <1> DEFINE ps == DependentPaths(shown, owner, changed, files)
             Complete(S) == /\ changed \subseteq S /\ Dependents(shown, S, files) \subseteq S
                            /\ Sharers(shown, owner, S, files) \subseteq S
  <1>1. \A p : p \in ps <=> p \in Paths /\ \A S \in SUBSET Paths : Complete(S) => p \in S
    BY DEF DependentPaths
  <1> HIDE DEF ps
  <1>2. ps \subseteq Paths /\ changed \subseteq ps
    BY <1>1
  <1>3. ASSUME NEW p \in Dependents(shown, ps, files) \cup Sharers(shown, owner, ps, files) PROVE p \in ps
    <2>1. p \in Paths
      BY DEF Dependents, Sharers
    <2>2. ASSUME NEW S \in SUBSET Paths, Complete(S) PROVE p \in S
      <3>1. ps \subseteq S
        BY <1>1, <2>2
      <3>2. p \in Dependents(shown, S, files) \cup Sharers(shown, owner, S, files)
        BY <3>1 DEF Dependents, Sharers
      <3>3. QED
        BY <2>2, <3>2
    <2>3. QED
      BY <1>1, <2>1, <2>2
  <1>4. QED
    BY <1>2, <1>3 DEF ps, Closed

(* A file whose fact saw a changed one is refreshed with it.               *)
LEMMA DependentIn ==
  ASSUME NEW shown, NEW ps, NEW files, NEW x \in shown, WellMade(shown),
         Dependents(shown, ps, files) \subseteq ps, x[1] \in Modules(shown) \cap files,
         NEW q \in ps \cap Modules(shown), q \in Reads(x[1]), x[2].seen[q] # Absent
  PROVE  x[1] \in ps
  <1>1. q \in DOMAIN x[2].seen
    BY DEF WellMade, FactsOf
  <1>2. CASE q = x[1]
    BY <1>2
  <1>3. CASE q # x[1]
    BY <1>1, <1>3 DEF Dependents
  <1>4. QED
    BY <1>2, <1>3

(***************************************************************************)
(* Facts of a worktree, but for what is still owed.                        *)
(***************************************************************************)
LEMMA ModulesShow ==
  ASSUME NEW shown, NEW p
  PROVE  p \in Modules(shown) <=> \E x \in shown : x[1] = p /\ x[2].seen[p] # Absent
  BY DEF Modules

(* The files there are are modules of sound facts.                         *)
LEMMA SoundModules ==
  ASSUME NEW shown, WellMade(shown), NEW t \in Trees, NEW E, Sound(shown, t, E)
  PROVE  /\ Files(t) \subseteq Modules(shown)
         /\ \A x \in shown : t[x[1]] # Absent => x[2].seen[x[1]] # Absent
  <1>1. ASSUME NEW x \in shown, t[x[1]] # Absent PROVE x[2].seen[x[1]] # Absent
    <2>1. x[1] \in Paths /\ x[1] \in Reads(x[1]) /\ Older(x[2].seen[x[1]], t[x[1]])
      BY <1>1 DEF Sound, WellMade, Reads
    <2>2. QED
      BY <1>1, <2>1 DEF Older
  <1>2. Files(t) \subseteq Modules(shown)
    BY <1>1, ModulesShow DEF Sound, Files
  <1>3. QED
    BY <1>1, <1>2

LEMMA SoundRebuild ==
  ASSUME NEW t \in Trees, NEW u \in Trees, NEW E, Precedes(t, u),
         \A q \in Paths : t[q] # u[q] => q \in E
  PROVE  Sound(Rebuild(t), u, E)
  <1> DEFINE shown == Rebuild(t)
  <1>1. \A x : x \in shown <=> \E p \in Files(t) : x = <<p, FactOf(p, t, t)>>
    BY DEF Rebuild
  <1>2. \A p \in Files(t) : /\ p \in Paths /\ t[p] # Absent /\ FactOf(p, t, t).hash = t[p]
                           /\ \A q \in Reads(p) : q \in Paths /\ FactOf(p, t, t).seen[q] = t[q]
    BY FactMade DEF Files
  <1> HIDE DEF shown
  <1>3. \A x \in shown : /\ x[1] \in Files(t) /\ x = <<x[1], FactOf(x[1], t, t)>>
                        /\ x[2].hash = t[x[1]] /\ \A q \in Reads(x[1]) : x[2].seen[q] = t[q]
    BY <1>1, <1>2
  <1>4. Files(t) \subseteq Modules(shown)
    <2>1. ASSUME NEW p \in Files(t) PROVE p \in Modules(shown)
      <3> DEFINE x == <<p, FactOf(p, t, t)>>
      <3>1. x \in shown /\ x[1] = p /\ x[2].seen[p] = t[p]
        BY <1>1, <1>2 DEF Reads
      <3>2. QED
        BY <1>2, <3>1, ModulesShow
    <2>2. QED
      BY <2>1
  <1>5. ASSUME NEW x \in shown, NEW q \in Reads(x[1])
        PROVE  /\ Older(x[2].seen[q], u[q]) /\ (x[2].seen[q] # u[q] => q \in E)
               /\ (x[2].seen[q] # Absent => q \in Modules(shown))
    BY <1>2, <1>3, <1>4 DEF Precedes, Files
  <1>6. \A x, y \in shown : x[1] = y[1] => x = y
    BY <1>3
  <1>7. \A x \in shown : x[2].hash # u[x[1]] => x[1] \in E
    BY <1>2, <1>3
  <1>8. \A p \in Files(u) : \E x \in shown : x[1] = p
    <2>1. ASSUME NEW p \in Files(t) PROVE \E x \in shown : x[1] = p
      <3>1. <<p, FactOf(p, t, t)>> \in shown /\ <<p, FactOf(p, t, t)>>[1] = p
        BY <1>1
      <3>2. QED
        BY <3>1
    <2>2. QED
      BY <2>1, FilesPrecede
  <1>9. QED
    BY <1>5, <1>6, <1>7, <1>8 DEF Sound, shown

(* Facts that owe nothing are those of a rebuild.                          *)
LEMMA SoundSettles ==
  ASSUME NEW shown, WellMade(shown), NEW t \in Trees, Sound(shown, t, {}) PROVE shown = Rebuild(t)
  <1>1. ASSUME NEW x \in shown PROVE x[1] \in Files(t) /\ x = <<x[1], FactOf(x[1], t, t)>>
    <2>1. x[1] \in Paths /\ x[2].hash = t[x[1]] /\ x[2].hash # Absent /\ x = <<x[1], x[2]>>
      BY DEF WellMade, FactsOf, Sound
    <2>2. x[1] \in Files(t) /\ \A q \in Reads(x[1]) : x[2].seen[q] = t[q]
      BY <2>1 DEF Sound, Files
    <2>3. x[2].seen = [q \in Reads(x[1]) |-> t[q]]
      BY <2>2 DEF WellMade, FactsOf
    <2>4. x[2] = FactOf(x[1], t, t)
      BY <2>1, <2>3 DEF WellMade, FactsOf, FactOf
    <2>5. QED
      BY <2>1, <2>2, <2>4
  <1>2. ASSUME NEW p \in Files(t) PROVE <<p, FactOf(p, t, t)>> \in shown
    BY <1>1 DEF Sound
  <1>3. QED
    BY <1>1, <1>2 DEF Rebuild

(* An edit is owed by who has not handled it.                              *)
LEMMA SoundEdit ==
  ASSUME NEW shown, WellMade(shown), NEW t \in Trees, NEW E, Sound(shown, t, E),
         NEW u \in Trees, Precedes(t, u), NEW D, E \subseteq D,
         \A q \in Paths : t[q] # u[q] => q \in D
  PROVE  Sound(shown, u, D)
  <1>1. ASSUME NEW x \in shown, u[x[1]] # Absent, NEW q \in Reads(x[1])
        PROVE  /\ Older(x[2].seen[q], u[q]) /\ (x[2].seen[q] # u[q] => q \in D)
               /\ (x[2].seen[q] # Absent => q \in Modules(shown))
    <2>1. x[1] \in Paths /\ q \in Paths /\ x[2].seen[q] \in Versions /\ t[q] \in Versions /\ u[q] \in Versions
      BY ImportsAssumption DEF WellMade, FactsOf, Reads, Trees
    <2>2. t[x[1]] # Absent
      BY <1>1, <2>1 DEF Precedes, Older
    <2>3. /\ Older(x[2].seen[q], t[q]) /\ (x[2].seen[q] # t[q] => q \in E)
          /\ (x[2].seen[q] # Absent => q \in Modules(shown))
      BY <2>2 DEF Sound
    <2>4. Older(x[2].seen[q], u[q])
      BY <2>1, <2>3, OlderOrder DEF Precedes
    <2>5. QED
      BY <2>1, <2>3, <2>4
  <1>2. \A x \in shown : x[2].hash # u[x[1]] => x[1] \in D
    BY DEF Sound, WellMade
  <1>3. \A p \in Files(u) : \E x \in shown : x[1] = p
    BY FilesPrecede DEF Sound
  <1>4. QED
    BY <1>1, <1>2, <1>3 DEF Sound

(* A fact that a build of paths put.                                       *)
Put(x, paths, source, t) ==
  /\ x[1] \in paths \cap Files(source) /\ x = <<x[1], FactOf(x[1], source, t)>>
  /\ x[2].hash = source[x[1]] /\ \A q \in Reads(x[1]) : x[2].seen[q] = t[q]

LEMMA RenewedFacts ==
  ASSUME NEW shown, WellMade(shown), NEW full \in BOOLEAN, NEW paths \in SUBSET Paths,
         NEW source \in Trees, NEW t \in Trees
  PROVE  /\ WellMade(Renewed(shown, full, paths, source, t))
         /\ \A x \in Renewed(shown, full, paths, source, t) :
              (x \in shown /\ ~ full /\ x[1] \notin paths) \/ Put(x, paths, source, t)
         /\ \A x \in shown : ~ full /\ x[1] \notin paths => x \in Renewed(shown, full, paths, source, t)
         /\ \A p \in paths \cap Files(source) :
              <<p, FactOf(p, source, t)>> \in Renewed(shown, full, paths, source, t)
  <1> DEFINE new == Renewed(shown, full, paths, source, t)
  <1>1. \A x : x \in new <=> \/ x \in shown /\ ~ full /\ x[1] \notin paths
                           \/ \E p \in paths \cap Files(source) : x = <<p, FactOf(p, source, t)>>
    BY DEF Renewed
  <1> HIDE DEF new
  <1>2. \A p \in Files(source) : /\ p \in Paths /\ FactOf(p, source, t) \in FactsOf(p)
                                /\ FactOf(p, source, t).hash = source[p]
                                /\ \A q \in Reads(p) : FactOf(p, source, t).seen[q] = t[q]
    BY FactMade
  <1>3. \A x \in new : (x \in shown /\ ~ full /\ x[1] \notin paths) \/ Put(x, paths, source, t)
    BY <1>1, <1>2 DEF Put
  <1>4. WellMade(new)
    BY <1>1, <1>2 DEF WellMade
  <1>5. QED
    BY <1>1, <1>3, <1>4 DEF new

LEMMA SoundCommit ==
  ASSUME NEW shown, WellMade(shown), NEW full \in BOOLEAN, NEW paths \in SUBSET Paths,
         NEW source \in Trees, NEW t \in Trees, NEW u \in Trees, NEW E,
         BuildReads(source, t, u, E), full => paths = Files(source),
         ~ full => /\ Sound(shown, u, E \cup paths) /\ Files(t) \subseteq Modules(shown)
                   /\ Dependents(shown, paths, Files(source)) \subseteq paths
  PROVE  Sound(Renewed(shown, full, paths, source, t), u, E)
  <1> DEFINE new == Renewed(shown, full, paths, source, t)
             Kept(x) == x \in shown /\ ~ full /\ x[1] \notin paths
  <1>1. /\ \A x \in new : Kept(x) \/ Put(x, paths, source, t)
        /\ \A x \in shown : ~ full /\ x[1] \notin paths => x \in new
        /\ \A p \in paths \cap Files(source) : <<p, FactOf(p, source, t)>> \in new
        /\ WellMade(new)
    BY RenewedFacts
  <1>2. /\ Precedes(source, t) /\ Precedes(t, u) /\ Precedes(source, u)
        /\ Files(u) \subseteq Files(t) /\ Files(t) \subseteq Files(source)
        /\ \A q \in Paths : source[q] # u[q] \/ t[q] # u[q] => q \in E
    BY PrecedesOrder, FilesPrecede DEF BuildReads
  <1> HIDE DEF new
  <1> USE DEF Put
  <1>3. \A x \in new : x[1] \in Paths /\ \A q \in Reads(x[1]) : q \in Paths
    BY <1>1, ImportsAssumption DEF WellMade, Reads
  <1>4. \A x, y \in new : x[1] = y[1] => x = y
    BY <1>1 DEF Sound
  <1>5. ASSUME NEW x \in new, x[2].hash # u[x[1]] PROVE x[1] \in E
    <2>1. CASE Kept(x)
      BY <1>5, <2>1 DEF Sound
    <2>2. CASE Put(x, paths, source, t)
      BY <1>2, <1>3, <1>5, <2>2
    <2>3. QED
      BY <1>1, <2>1, <2>2
  <1>6. \A q \in Files(t) : q \in paths => q \in Modules(new)
    <2>1. ASSUME NEW q \in Files(t), q \in paths PROVE q \in Modules(new)
      <3> DEFINE x == <<q, FactOf(q, source, t)>>
      <3>1. x \in new /\ x[1] = q /\ t[q] # Absent /\ q \in Files(source)
        BY <1>1, <1>2, <2>1 DEF Files
      <3>2. x[2].seen[q] = t[q]
        BY <1>1, <2>1, <3>1 DEF Reads
      <3>3. QED
        BY <3>1, <3>2, ModulesShow
    <2>2. QED
      BY <2>1
  <1>7. ~ full => \A q \in Modules(shown) : q \notin paths => q \in Modules(new)
    BY <1>1, ModulesShow
  <1>8. ASSUME NEW x \in new, u[x[1]] # Absent, NEW q \in Reads(x[1])
        PROVE  /\ Older(x[2].seen[q], u[q]) /\ (x[2].seen[q] # u[q] => q \in E)
               /\ (x[2].seen[q] # Absent => q \in Modules(new))
    <2>1. CASE Kept(x)
      <3>1. /\ Older(x[2].seen[q], u[q]) /\ (x[2].seen[q] # u[q] => q \in E \cup paths)
            /\ (x[2].seen[q] # Absent => q \in Modules(shown))
        BY <1>8, <2>1 DEF Sound
      <3>2. x[1] \in Modules(shown) \cap Files(source)
        BY <1>2, <1>3, <1>8, <2>1, SoundModules DEF Files
      <3>3. q \in paths => x[2].seen[q] = Absent
        BY <2>1, <3>1, <3>2, DependentIn
      <3>4. x[2].seen[q] = Absent => u[q] = Absent
        BY <3>1 DEF Older
      <3>5. QED
        BY <1>7, <2>1, <3>1, <3>3, <3>4
    <2>2. CASE Put(x, paths, source, t)
      <3>1. q \in Paths /\ x[2].seen[q] = t[q]
        BY <1>3, <2>2
      <3>2. t[q] # Absent => q \in Files(t)
        BY <3>1 DEF Files
      <3>3. q \in Files(t) => q \in Modules(new)
        BY <1>2, <1>6, <1>7
      <3>4. QED
        BY <1>2, <3>1, <3>2, <3>3 DEF Precedes
    <2>3. QED
      BY <1>1, <2>1, <2>2
  <1>9. ASSUME NEW p \in Files(u) PROVE \E x \in new : x[1] = p
    BY <1>2, <1>6, <1>7, ModulesShow
  <1>10. QED
    BY <1>4, <1>5, <1>8, <1>9 DEF Sound, new

(* The shared nodes after a build, as CommitRenews has its facts.          *)
RenewedOwner(owner, full, paths, parsed) ==
  [x \in { y \in DOMAIN owner : ~ full /\ owner[y] \notin paths } \cup DOMAIN Owners(parsed) |->
     IF x \in DOMAIN Owners(parsed) THEN Owners(parsed)[x] ELSE owner[x]]

RenewedShares(sh, full, paths, source, t) ==
  [directories |-> IF full THEN Directories(paths \cap Files(source)) ELSE sh.directories,
   owner |-> RenewedOwner(sh.owner, full, paths, paths \cap Files(source) \cap Files(t))]

LEMMA CommitShares ==
  ASSUME Typed, NEW c \in Processes, local[c].prev = head, NEW t \in Trees,
         local[c].put = Analysis(local[c].paths, local[c].source, t)
  PROVE  NextShares(c) = RenewedShares(SharedBy(head), local[c].full, local[c].paths, local[c].source, t)
  <1> DEFINE paths == local[c].paths
             source == local[c].source
             put == local[c].put
             full == local[c].full
             parsed == { p \in DOMAIN put : put[p].seen[p] # Absent }
             sh == SharedBy(head)
             found == Owners(parsed)
             dropped == { x \in DOMAIN sh.owner : full \/ sh.owner[x] \in paths }
  <1>1. paths \in SUBSET Paths /\ source \in Trees
    BY DEF Typed, CallTyped
  <1>2. DOMAIN put = paths \cap Files(source) /\ parsed = paths \cap Files(source) \cap Files(t)
    <2> HIDE DEF paths, source
    <2> DEFINE analysis == Analysis(paths, source, t)
    <2>1. /\ DOMAIN analysis = paths \cap Files(source)
          /\ \A p : p \in DOMAIN analysis /\ analysis[p].seen[p] # Absent
                    <=> p \in paths \cap Files(source) \cap Files(t)
      BY <1>1, AnalysisSees
    <2>2. put = analysis
      BY DEF paths, source
    <2> HIDE DEF put, analysis
    <2>3. QED
      BY <2>1, <2>2
  <1>4. NextDirectories(c) = IF full THEN Directories(paths \cap Files(source)) ELSE sh.directories
    <2>1. NextDirectories(c) = IF full THEN (sh.directories \ sh.directories) \cup Directories(DOMAIN put)
                                       ELSE sh.directories
      BY DEF NextDirectories
    <2> HIDE DEF put, paths, source, sh, full
    <2>2. QED
      BY <1>2, <2>1
  <1>5. NextOwner(c) = [x \in (DOMAIN sh.owner \ dropped) \cup DOMAIN found |->
                          IF x \in DOMAIN found THEN found[x] ELSE sh.owner[x]]
    BY DEF NextOwner
  <1> HIDE DEF put, paths, source, sh, full, parsed
  <1>6. NextOwner(c) = RenewedOwner(sh.owner, full, paths, parsed)
    <2>1. DOMAIN sh.owner \ dropped = { x \in DOMAIN sh.owner : ~ full /\ sh.owner[x] \notin paths }
      OBVIOUS
    <2>2. QED
      BY <1>5, <2>1 DEF RenewedOwner
  <1>7. QED
    BY <1>2, <1>4, <1>6 DEF NextShares, RenewedShares, put, paths, source, sh, full

LEMMA SharesCommit ==
  ASSUME NEW shown, WellMade(shown), NEW sh, NEW full \in BOOLEAN, NEW paths \in SUBSET Paths,
         NEW source \in Trees, NEW t \in Trees, NEW u \in Trees,
         Precedes(source, t), Precedes(t, u), full => paths = Files(source),
         ~ full => /\ SharesSound(shown, sh, u) /\ Files(t) \subseteq Modules(shown)
                   /\ Sharers(shown, sh.owner, paths, Files(source)) \subseteq paths
  PROVE  SharesSound(Renewed(shown, full, paths, source, t), RenewedShares(sh, full, paths, source, t), u)
  <1> DEFINE new == Renewed(shown, full, paths, source, t)
             parsed == paths \cap Files(source) \cap Files(t)
             found == Owners(parsed)
             kept == { y \in DOMAIN sh.owner : ~ full /\ sh.owner[y] \notin paths }
             next == RenewedShares(sh, full, paths, source, t)
  <1>1. /\ \A x \in shown : ~ full /\ x[1] \notin paths => x \in new
        /\ \A p \in paths \cap Files(source) : <<p, FactOf(p, source, t)>> \in new
    BY RenewedFacts
  <1>2. Files(u) \subseteq Files(t) /\ Files(t) \subseteq Files(source) /\ Files(t) \subseteq Paths
    BY FilesPrecede DEF Files
  <1>3. /\ DOMAIN next.owner = kept \cup DOMAIN found
        /\ \A x \in DOMAIN next.owner : next.owner[x] = IF x \in DOMAIN found THEN found[x] ELSE sh.owner[x]
        /\ next.directories = IF full THEN Directories(paths \cap Files(source)) ELSE sh.directories
    BY DEF RenewedShares, RenewedOwner
  <1>4. /\ \A x \in DOMAIN found : found[x] \in parsed /\ x \in Uses[found[x]]
        /\ \A p \in parsed : Uses[p] \subseteq DOMAIN found
    <2>1. parsed \in SUBSET Paths
      OBVIOUS
    <2> HIDE DEF parsed
    <2>2. QED
      BY <2>1, OwnersMade
  <1>5. \A p \in parsed : p \in Modules(new)
    <2> SUFFICES ASSUME NEW p \in parsed PROVE p \in Modules(new)
      OBVIOUS
    <2> DEFINE x == <<p, FactOf(p, source, t)>>
    <2>1. x \in new /\ x[1] = p /\ x[2] = FactOf(p, source, t) /\ p \in Files(source) /\ t[p] # Absent
      BY <1>1 DEF Files
    <2>2. x[2].seen[p] = t[p]
      BY <2>1, FactSees
    <2> HIDE DEF x, new
    <2>3. QED
      BY <2>1, <2>2, ModulesShow
  <1>6. ASSUME NEW p \in Modules(shown), ~ full, p \notin paths PROVE p \in Modules(new)
    <2>1. PICK x \in shown : x[1] = p /\ x[2].seen[p] # Absent
      BY ModulesShow
    <2>2. x \in new
      BY <1>1, <1>6, <2>1
    <2> HIDE DEF new
    <2>3. QED
      BY <2>1, <2>2, ModulesShow
  <1>7. ASSUME NEW x \in DOMAIN next.owner
        PROVE  next.owner[x] \in Modules(new) /\ x \in Uses[next.owner[x]]
    <2>1. CASE x \in DOMAIN found
      <3> HIDE DEF parsed, found, new, next
      <3>1. QED
        BY <1>3, <1>4, <1>5, <1>7, <2>1
    <2>2. CASE x \notin DOMAIN found
      <3>1. x \in kept /\ next.owner[x] = sh.owner[x]
        BY <1>3, <1>7, <2>2
      <3>2. /\ ~ full /\ sh.owner[x] \notin paths
            /\ sh.owner[x] \in Modules(shown) /\ x \in Uses[sh.owner[x]]
        BY <3>1 DEF SharesSound
      <3> HIDE DEF new, next
      <3>3. QED
        BY <1>6, <3>1, <3>2
    <2>3. QED
      BY <2>1, <2>2
  <1>8. ASSUME NEW p \in Files(u)
        PROVE  Uses[p] \subseteq DOMAIN next.owner /\ Above[p] \subseteq next.directories
    <2>1. CASE p \in paths
      <3>1. p \in parsed /\ p \in paths \cap Files(source)
        BY <1>2, <2>1
      <3>2. Uses[p] \subseteq DOMAIN next.owner
        BY <1>3, <1>4, <3>1
      <3>3. Above[p] \subseteq Directories(paths \cap Files(source))
        BY <3>1 DEF Directories
      <3>4. ~ full => Above[p] \subseteq sh.directories
        BY <1>8 DEF SharesSound
      <3>5. QED
        BY <1>3, <3>2, <3>3, <3>4
    <2>2. CASE p \notin paths
      <3>1. ~ full /\ SharesSound(shown, sh, u) /\ p \in Modules(shown) \cap Files(source)
        BY <1>2, <2>2
      <3>2. Uses[p] \subseteq DOMAIN sh.owner /\ Above[p] \subseteq sh.directories
        BY <3>1 DEF SharesSound
      <3>3. ASSUME NEW x \in Uses[p] PROVE sh.owner[x] \notin paths
        BY <2>2, <3>1, <3>2 DEF Sharers
      <3>4. QED
        BY <1>3, <3>1, <3>2, <3>3
    <2>3. QED
      BY <2>1, <2>2
  <1>9. QED
    BY <1>7, <1>8 DEF SharesSound

LEMMA SharesRebuild ==
  ASSUME NEW t \in Trees PROVE SharesSound(Rebuild(t), RebuildShares(t), t)
  <1>1. Files(t) \in SUBSET Paths
    BY DEF Files
  <1>2. Files(t) \subseteq Modules(Rebuild(t))
    <2> SUFFICES ASSUME NEW p \in Files(t) PROVE p \in Modules(Rebuild(t))
      OBVIOUS
    <2> DEFINE x == <<p, FactOf(p, t, t)>>
    <2>1. x \in Rebuild(t) /\ x[1] = p /\ x[2] = FactOf(p, t, t) /\ t[p] # Absent
      BY DEF Rebuild, Files
    <2>2. x[2].seen[p] = t[p]
      BY <2>1, FactSees
    <2> HIDE DEF x
    <2>3. QED
      BY <2>1, <2>2, ModulesShow
  <1>3. /\ RebuildShares(t).owner = Owners(Files(t))
        /\ RebuildShares(t).directories = Directories(Files(t))
    BY DEF RebuildShares
  <1>4. \A p \in Files(t) : Above[p] \subseteq Directories(Files(t))
    BY DEF Directories
  <1>5. QED
    BY <1>1, <1>2, <1>3, <1>4, OwnersMade DEF SharesSound

(* A build that was made before has nothing to do.                         *)
LEMMA SoundReplay ==
  ASSUME NEW shown, WellMade(shown), NEW paths \in SUBSET Paths,
         NEW source \in Trees, NEW u \in Trees, NEW E, Precedes(source, u),
         \A q \in Paths : source[q] # u[q] => q \in E,
         Sound(shown, u, E \cup paths), Dependents(shown, paths, Files(source)) \subseteq paths,
         \A p \in paths : Right(shown, p, source)
  PROVE  Sound(shown, u, E)
  <1>1. \A x \in shown : x[1] \in Paths /\ \A q \in Reads(x[1]) : q \in Paths
    BY ImportsAssumption DEF WellMade, Reads
  <1>2. ASSUME NEW x \in shown, x[1] \in paths
        PROVE  x[2].hash = source[x[1]] /\ \A q \in Reads(x[1]) : x[2].seen[q] = source[q]
    <2>1. x[1] \in Files(source) /\ x = <<x[1], FactOf(x[1], source, source)>>
      BY <1>1, <1>2 DEF Right, Files
    <2>2. QED
      BY <2>1, FactMade
  <1>3. ASSUME NEW x \in shown, x[2].hash # u[x[1]] PROVE x[1] \in E
    BY <1>1, <1>2, <1>3 DEF Sound
  <1>4. ASSUME NEW x \in shown, u[x[1]] # Absent, NEW q \in Reads(x[1]), x[2].seen[q] # u[q]
        PROVE  q \in E
    <2>1. /\ Older(x[2].seen[q], u[q]) /\ q \in E \cup paths
          /\ (x[2].seen[q] # Absent => q \in Modules(shown))
      BY <1>4 DEF Sound
    <2>2. x[1] \in Modules(shown) \cap Files(source)
      BY <1>1, <1>4, FilesPrecede, SoundModules DEF Files
    <2>3. q \in paths /\ x[1] \notin paths => x[2].seen[q] = Absent
      BY <2>1, <2>2, DependentIn
    <2>4. x[2].seen[q] # Absent
      BY <1>4, <2>1 DEF Older
    <2>5. x[1] \in paths => q \in E
      BY <1>1, <1>2, <1>4
    <2>6. QED
      BY <2>1, <2>3, <2>4, <2>5
  <1>5. QED
    BY <1>3, <1>4 DEF Sound

LEMMA RightIsRebuild ==
  ASSUME NEW shown, WellMade(shown), NEW t \in Trees, \A p \in Paths : Right(shown, p, t)
  PROVE  shown = Rebuild(t)
  BY DEF WellMade, Right, Rebuild, Files

LEMMA RebuildIsRight ==
  ASSUME NEW t \in Trees, NEW p \in Paths PROVE Right(Rebuild(t), p, t)
  BY DEF Right, Rebuild, Files

(* The facts of a build whose worktree did not move are right.             *)
LEMMA RenewedIsRight ==
  ASSUME NEW shown, WellMade(shown), NEW full \in BOOLEAN, NEW paths \in SUBSET Paths,
         NEW t \in Trees, full => paths = Files(t), NEW p \in Paths,
         full \/ p \in paths \/ Right(shown, p, t)
  PROVE  Right(Renewed(shown, full, paths, t, t), p, t)
  BY DEF Right, Renewed, Files

(***************************************************************************)
(* One undisturbed sidecar keeps up.                                       *)
(***************************************************************************)
LEMMA KeepsUpFrom ==
  ASSUME NEW c \in Processes, Typed, pc[c] = "idle",
         \A p \in Paths : tree[p] <= First + edits, HeadFollows, Logged,
         head # NoRevision => Sound(shows[head], tree, events[c]),
         head # NoRevision => SharesSound(shows[head], shared[head], tree)
  PROVE  Known(c)
  BY DEF Known, SourceFollows, Analyzed, CallSound, Applying

LEMMA InitKeepsUp == Init => KeepsUp
  <1> SUFFICES ASSUME Init, NEW c \in Processes, Alone(c) PROVE Known(c)
    BY DEF KeepsUp
  <1>1. Typed /\ tree \in Trees /\ pc[c] = "idle"
    BY InitTyped DEF Init
  <1>2. \A p \in Paths : tree[p] <= First + edits
    BY DEF Init, First, Absent
  <1>3. CASE "first" \in scenario.happens
    <2>1. head = NoRevision /\ log = {}
      BY <1>3 DEF Init, History!Init, History!None, NoRevision
    <2>2. QED
      BY <1>1, <1>2, <2>1, KeepsUpFrom DEF HeadFollows, Logged
  <1>4. CASE "first" \notin scenario.happens
    <2>1. /\ head = 1 /\ shows[head] = Rebuild(tree) /\ prints[head] = tree
          /\ shared[head] = RebuildShares(tree) /\ log = {KeyOf(tree, TRUE, Files(tree))}
      BY <1>4 DEF Init
    <2>2. /\ Precedes(tree, tree) /\ Sound(Rebuild(tree), tree, events[c])
          /\ SharesSound(Rebuild(tree), RebuildShares(tree), tree)
      BY <1>1, PrecedesOrder, SoundRebuild, SharesRebuild
    <2>3. Held(Rebuild(tree), KeyOf(tree, TRUE, Files(tree)), tree)
      BY <1>1, RebuildIsRight DEF Held
    <2>4. HeadFollows /\ Logged
      BY <2>1, <2>2, <2>3 DEF HeadFollows, Logged, KeyOf, NoRevision
    <2>5. QED
      BY <1>1, <1>2, <2>1, <2>2, <2>4, KeepsUpFrom
  <1>5. QED
    BY <1>3, <1>4

LEMMA HeadMade ==
  ASSUME Typed, head # NoRevision
  PROVE  /\ shows[head] = ShownBy(head) /\ WellMade(shows[head]) /\ prints[head] \in Trees
         /\ shared[head] = SharedBy(head)
  BY BoundsAssumption DEF Typed, ShownBy, SharedBy, NoRevision

(* An edit moves the worktree on, and the sidecar will hear of it.         *)
LEMMA EditMoves ==
  ASSUME Typed, NEW c \in Processes, Alone(c), \A q \in Paths : tree[q] <= First + edits,
         NEW p \in Paths, NEW v \in Versions, Edit(p, v)
  PROVE  /\ tree' \in Trees /\ Precedes(tree, tree')
         /\ \A q \in Paths : tree'[q] <= First + edits'
         /\ events[c] \subseteq events'[c] /\ \A q \in Paths : tree[q] # tree'[q] => q \in events'[c]
         /\ UNCHANGED <<scenario, shows, shared, head, prints, log, pc, local>>
  <1>1. /\ tree' = [tree EXCEPT ![p] = v] /\ edits' = edits + 1 /\ v \in NewVersions(p) \cup {tree[p]}
        /\ events' = [d \in Processes |-> events[d] \cup {p}]
        /\ (tree[p] = Absent /\ v # Absent => "create" \in scenario.happens)
        /\ UNCHANGED <<scenario, shows, shared, head, prints, log, pc, local>>
    BY DEF Edit, store
  <1>a. tree \in Trees /\ edits \in Nat
    BY BoundsAssumption DEF Typed
  <1>2. tree \in Trees /\ edits \in Nat /\ \A q \in Paths : tree[q] \in Nat
    BY <1>a, VersionsAreNat
  <1>3. v = tree[p] \/ (tree[p] # Absent /\ (v = Absent \/ v = First + edits + 1))
    BY <1>1 DEF NewVersions, Alone
  <1>4. tree' \in Trees /\ tree'[p] = v /\ \A q \in Paths \ {p} : tree'[q] = tree[q]
    BY <1>1, <1>2 DEF Trees
  <1>5. Older(tree[p], v) /\ v <= First + edits'
    BY <1>1, <1>2, <1>3 DEF Older, First, Absent
  <1>6. Precedes(tree, tree') /\ \A q \in Paths : tree'[q] <= First + edits'
    BY <1>1, <1>2, <1>4, <1>5 DEF Precedes, Older, First
  <1>7. QED
    BY <1>1, <1>4, <1>6

LEMMA SharesEdit ==
  ASSUME NEW shown, NEW sh, NEW t \in Trees, NEW u \in Trees, Precedes(t, u), SharesSound(shown, sh, t)
  PROVE  SharesSound(shown, sh, u)
  BY FilesPrecede DEF SharesSound

LEMMA EditKeepsUp ==
  ASSUME Typed, NEW c \in Processes, Alone(c), Known(c),
         NEW p \in Paths, NEW v \in Versions, Edit(p, v)
  PROVE  Known(c)'
  <1>1. /\ tree \in Trees /\ tree' \in Trees /\ Precedes(tree, tree')
        /\ \A q \in Paths : tree'[q] <= First + edits'
        /\ events[c] \subseteq events'[c] /\ \A q \in Paths : tree[q] # tree'[q] => q \in events'[c]
        /\ UNCHANGED <<shows, shared, head, prints, log, pc, local>>
        /\ (head # NoRevision => WellMade(shows[head]) /\ prints[head] \in Trees)
        /\ local[c].source \in Trees
    BY EditMoves, HeadMade DEF Known, Typed, CallTyped
  <1>2. HeadFollows'
    BY <1>1, PrecedesOrder DEF Known, HeadFollows
  <1>3. Logged'
    <2>1. ASSUME NEW key \in log
          PROVE  /\ head # NoRevision /\ Precedes(key[1], prints[head])
                 /\ key[1] = tree' => tree' = tree /\ Held(shows[head], key, tree)
      <3>1. head # NoRevision /\ Precedes(key[1], prints[head]) /\ Precedes(prints[head], tree)
        BY <2>1 DEF Known, Logged, HeadFollows
      <3>2. key[1] \in Trees
        BY DEF Typed
      <3>3. Precedes(key[1], tree)
        BY <1>1, <3>1, <3>2, PrecedesOrder
      <3>4. key[1] = tree' => tree' = tree
        BY <1>1, <3>3, PrecedesOrder
      <3>5. QED
        BY <2>1, <3>1, <3>4 DEF Known, Logged
    <2>2. QED
      BY <1>1, <2>1 DEF Logged
  <1>4. \A source, t \in Trees : BuildReads(source, t, tree, events[c]) => BuildReads(source, t, tree', events'[c])
    BY <1>1, PrecedesOrder DEF BuildReads
  <1>5. SourceFollows(c)' /\ Analyzed(c)'
    <2>1. SourceFollows(c)'
      BY <1>1, <1>4 DEF Known, SourceFollows
    <2>2. Analyzed(c)'
      BY <1>1, <1>4 DEF Known, Analyzed
    <2>3. QED
      BY <2>1, <2>2
  <1>6. \A ps : head # NoRevision /\ Sound(shows[head], tree, events[c] \cup ps)
                 => Sound(shows[head], tree', events'[c] \cup ps)
    BY <1>1, SoundEdit
  <1>7. head # NoRevision /\ Sound(shows[head], tree, events[c]) => Sound(shows[head], tree', events'[c])
    BY <1>1, SoundEdit
  <1>8. CallSound(c)'
    BY <1>1, <1>6, <1>7 DEF Known, CallSound
  <1>9. head # NoRevision => SharesSound(shows[head], shared[head], tree')
    BY <1>1, SharesEdit DEF Known
  <1>10. QED
    BY <1>1, <1>2, <1>3, <1>5, <1>8, <1>9 DEF Known

(* The steps of a call that only read: what must be shown of each.         *)
LEMMA ReadKeepsUp ==
  ASSUME Typed, NEW c \in Processes, Known(c), UNCHANGED <<tree, edits, store>>,
         SourceFollows(c)', Analyzed(c)', CallSound(c)'
  PROVE  Known(c)'
  BY DEF Known, HeadFollows, Logged, store

LEMMA OwedPaths ==
  ASSUME Typed, NEW E, NEW D, E \subseteq D, head # NoRevision, Sound(shows[head], tree, E)
  PROVE  Sound(shows[head], tree, D)
  BY HeadMade, SoundEdit, PrecedesOrder DEF Typed

LEMMA RefreshForms ==
  ASSUME NEW c \in Processes, NEW batch, Refresh(c, batch)
  PROVE  /\ pc[c] = "idle" /\ pc' = [pc EXCEPT ![c] = "source"] /\ head # NoRevision
         /\ local' = [local EXCEPT ![c] = Listing(batch)]
         /\ events' = [events EXCEPT ![c] = @ \ batch]
         /\ UNCHANGED <<scenario, tree, edits, store>>
  BY DEF Refresh, Goto, Listing

LEMMA OpenForms ==
  ASSUME NEW c \in Processes, NEW rest, Open(c, rest)
  PROVE  /\ pc[c] = "idle" /\ pc' = [pc EXCEPT ![c] = "match"]
         /\ head # NoRevision => rest = events[c] \/ "overflow" \in scenario.happens
         /\ local' = [local EXCEPT ![c] = Opening] /\ events' = [events EXCEPT ![c] = rest]
         /\ UNCHANGED <<scenario, tree, edits, store>>
  BY DEF Open, Goto, Opening

LEMMA ListKeepsUp ==
  ASSUME Typed, NEW c \in Processes, Alone(c), Known(c), Ordered,
         \/ \E batch \in SUBSET Paths : Refresh(c, batch)
         \/ \E rest \in SUBSET Paths : Open(c, rest)
         \/ RefreshSource(c) \/ OpenReady(c) \/ OpenBuild(c)
  PROVE  Known(c)'
  <1>1. /\ UNCHANGED <<tree, edits, store, shows, shared, head, prints, log>> /\ InOrder(c) /\ CallTyped(local[c])
        /\ c \in DOMAIN pc /\ c \in DOMAIN local /\ c \in DOMAIN events
    <2>1. /\ \A batch : Refresh(c, batch) => UNCHANGED <<tree, edits, store>>
          /\ \A rest : Open(c, rest) => UNCHANGED <<tree, edits, store>>
      BY RefreshForms, OpenForms
    <2>2. /\ RefreshSource(c) => UNCHANGED <<tree, edits, store>>
          /\ OpenReady(c) => UNCHANGED <<tree, edits, store>>
          /\ OpenBuild(c) => UNCHANGED <<tree, edits, store>>
      BY DEF RefreshSource, OpenReady, OpenBuild
    <2>3. UNCHANGED <<tree, edits, store>>
      BY <2>1, <2>2
    <2>4. UNCHANGED <<shows, shared, head, prints, log>>
      BY <2>3 DEF store
    <2>5. InOrder(c) /\ CallTyped(local[c]) /\ c \in DOMAIN pc /\ c \in DOMAIN local /\ c \in DOMAIN events
      BY DEF Ordered, Typed
    <2>6. QED
      BY <2>3, <2>4, <2>5
  <1>2. \A E : BuildReads(tree, tree, tree, E)
    BY PrecedesOrder DEF Typed, BuildReads
  <1> USE NoLocalTyped DEF Goto, Applying
  <1>3. ASSUME NEW batch \in SUBSET Paths, Refresh(c, batch) PROVE Known(c)'
    <2>1. /\ pc[c] = "idle" /\ pc'[c] = "source" /\ local'[c].expected = head /\ ~ local'[c].full
          /\ local'[c].paths = batch /\ head # NoRevision /\ events'[c] = events[c] \ batch
      <3>1. /\ Listing(batch).expected = head /\ ~ Listing(batch).full /\ Listing(batch).paths = batch
        BY DEF Listing, Fields
      <3>2. /\ local' = [local EXCEPT ![c] = Listing(batch)] /\ head # NoRevision
            /\ pc[c] = "idle" /\ pc' = [pc EXCEPT ![c] = "source"]
            /\ events' = [events EXCEPT ![c] = @ \ batch]
        BY <1>3, RefreshForms
      <3>3. QED
        BY <1>1, <3>1, <3>2
    <2>2. Sound(shows[head], tree, events'[c] \cup local'[c].paths)
      BY <2>1, OwedPaths DEF Known, CallSound
    <2>3. SourceFollows(c)' /\ Analyzed(c)' /\ CallSound(c)'
      BY <1>1, <2>1, <2>2 DEF SourceFollows, Analyzed, CallSound
    <2>4. QED
      BY <1>1, <2>3, ReadKeepsUp
  <1>4. CASE RefreshSource(c)
    <2>1. /\ pc[c] = "source" /\ pc'[c] = "expand" /\ local'[c].expected = local[c].expected
          /\ local'[c].full = local[c].full /\ local'[c].paths = local[c].paths
          /\ local'[c].source = tree /\ events' = events
      BY <1>1, <1>4 DEF RefreshSource, CallTyped, Fields
    <2>2. SourceFollows(c)'
      BY <1>1, <1>2, <2>1 DEF SourceFollows, Known, HeadFollows, Logged
    <2>3. Analyzed(c)' /\ CallSound(c)'
      BY <1>1, <2>1 DEF Analyzed, CallSound, Known
    <2>4. QED
      BY <1>1, <2>2, <2>3, ReadKeepsUp
  <1>5. ASSUME NEW rest \in SUBSET Paths, Open(c, rest) PROVE Known(c)'
    <2>1. /\ pc[c] = "idle" /\ pc'[c] = "match" /\ local'[c].source = tree /\ events'[c] = rest
          /\ (head # NoRevision => rest = events[c])
      <3>1. Opening.source = tree
        BY DEF Opening, Fields
      <3>2. /\ local' = [local EXCEPT ![c] = Opening] /\ events' = [events EXCEPT ![c] = rest]
            /\ pc[c] = "idle" /\ pc' = [pc EXCEPT ![c] = "match"]
        BY <1>5, OpenForms
      <3>3. head # NoRevision => rest = events[c]
        BY <1>5, OpenForms DEF Alone
      <3>4. QED
        BY <1>1, <3>1, <3>2, <3>3
    <2>2. SourceFollows(c)'
      BY <1>1, <1>2, <2>1 DEF SourceFollows, Known, HeadFollows, Logged
    <2>3. Analyzed(c)' /\ CallSound(c)'
      BY <1>1, <2>1 DEF Analyzed, CallSound, Known
    <2>4. QED
      BY <1>1, <2>2, <2>3, ReadKeepsUp
  <1>6. CASE OpenReady(c)
    <2>1. pc[c] = "match" /\ pc'[c] = "idle" /\ events' = events
      BY <1>1, <1>6 DEF OpenReady
    <2>2. SourceFollows(c)' /\ Analyzed(c)' /\ CallSound(c)'
      BY <1>1, <2>1 DEF SourceFollows, Analyzed, CallSound, Known
    <2>3. QED
      BY <1>1, <2>2, ReadKeepsUp
  <1>7. CASE OpenBuild(c)
    <2>1. /\ pc[c] = "match" /\ pc'[c] = "expand" /\ local'[c].expected = head
          /\ local'[c].full = local[c].full /\ local'[c].source = local[c].source /\ events' = events
      BY <1>1, <1>7 DEF OpenBuild, CallTyped, Fields
    <2>2. SourceFollows(c)' /\ Analyzed(c)'
      BY <1>1, <2>1 DEF SourceFollows, Analyzed, Known
    <2>3. CallSound(c)'
      BY <1>1, <2>1 DEF CallSound, InOrder
    <2>4. QED
      BY <1>1, <2>2, <2>3, ReadKeepsUp
  <1>8. QED
    BY <1>3, <1>4, <1>5, <1>6, <1>7

LEMMA ExpandKeepsUp ==
  ASSUME Typed, NEW c \in Processes, Known(c), Expand(c) PROVE Known(c)'
  <1>1. PICK full \in BOOLEAN, paths \in SUBSET Paths :
          /\ pc[c] = "expand" /\ pc' = [pc EXCEPT ![c] = "analyze"]
          /\ UNCHANGED <<scenario, tree, edits, events, store>>
          /\ local' = [local EXCEPT ![c] = Expanded(c, full, paths)]
          /\ ~ full =>
               /\ ~ local[c].full
               /\ paths = DependentPaths(ShownBy(head), SharedBy(head).owner, local[c].paths, Files(local[c].source))
    BY ExpandForms
  <1>2. UNCHANGED <<shows, shared, head, prints, log>> /\ CallTyped(local[c])
    BY <1>1 DEF store, Typed
  <1>3. /\ pc'[c] = "analyze" /\ local'[c].expected = local[c].expected /\ local'[c].prev = head
        /\ local'[c].full = full /\ local'[c].paths = paths /\ local'[c].source = local[c].source
    BY <1>1, <1>2 DEF Expanded, CallTyped, Fields, Typed
  <1>4. ASSUME ~ full
        PROVE  /\ head # NoRevision /\ Sound(shows[head], tree, events[c] \cup paths)
               /\ Closed(shows[head], shared[head].owner, paths, Files(local[c].source))
    <2>1. head # NoRevision /\ Sound(shows[head], tree, events[c] \cup local[c].paths)
      BY <1>1, <1>4 DEF Known, CallSound
    <2>2. WellMade(shows[head]) /\ ShownBy(head) = shows[head] /\ SharedBy(head) = shared[head]
      BY <2>1, HeadMade
    <2>3. local[c].paths \in SUBSET Paths /\ Files(local[c].source) \in SUBSET Paths
      BY <1>2 DEF CallTyped, Files
    <2>4. local[c].paths \subseteq paths /\ Closed(shows[head], shared[head].owner, paths, Files(local[c].source))
      BY <1>1, <1>4, <2>2, <2>3, ClosureClosed
    <2>5. QED
      BY <2>1, <2>4, OwedPaths
  <1>5. SourceFollows(c)' /\ Analyzed(c)'
    BY <1>1, <1>2, <1>3 DEF SourceFollows, Analyzed, Known
  <1>6. CallSound(c)'
    BY <1>1, <1>2, <1>3, <1>4 DEF CallSound, Known, Applying
  <1>7. QED
    BY <1>1, <1>5, <1>6, ReadKeepsUp

LEMMA AnalyzeKeepsUp ==
  ASSUME Typed, NEW c \in Processes, Known(c), Analyze(c) PROVE Known(c)'
  <1> DEFINE put == Analysis(local[c].paths, local[c].source, tree)
  <1>1. /\ local' = [local EXCEPT ![c] = [local[c] EXCEPT !.put = put]]
        /\ pc[c] = "analyze" /\ pc'[c] = "apply" /\ UNCHANGED <<tree, edits, events, store>>
        /\ UNCHANGED <<shows, shared, head, prints, log>> /\ CallTyped(local[c]) /\ tree \in Trees
    BY DEF Analyze, Goto, Typed, store
  <1> HIDE DEF put
  <1>2. /\ local'[c].expected = local[c].expected /\ local'[c].prev = local[c].prev
        /\ local'[c].full = local[c].full /\ local'[c].paths = local[c].paths
        /\ local'[c].source = local[c].source /\ local'[c].put = put
    BY <1>1 DEF CallTyped, Fields, Typed
  <1>3. SourceFollows(c)' /\ CallSound(c)'
    BY <1>1, <1>2 DEF SourceFollows, CallSound, Known, Applying
  <1>4. BuildReads(local[c].source, tree, tree, events[c])
    BY <1>1, PrecedesOrder DEF SourceFollows, BuildReads, Known, Applying
  <1>5. ~ local[c].full => Files(tree) \subseteq Modules(shows[head])
    BY <1>1, HeadMade, SoundModules DEF CallSound, Known, Applying
  <1>6. Analyzed(c)'
    BY <1>1, <1>2, <1>4, <1>5 DEF Analyzed, put
  <1>7. QED
    BY <1>1, <1>3, <1>6, ReadKeepsUp

(* A call that reaches apply: nothing was committed since it read the head.*)
LEMMA ApplyKnown ==
  ASSUME Typed, NEW c \in Processes, Known(c), Ordered, pc[c] = "apply"
  PROVE  /\ ~ Conflicts(c) /\ local[c].prev = head /\ CallTyped(local[c])
         /\ local[c].full => local[c].paths = Files(local[c].source)
         /\ ~ local[c].full =>
              /\ head # NoRevision /\ Sound(shows[head], tree, events[c] \cup local[c].paths)
              /\ Closed(shows[head], shared[head].owner, local[c].paths, Files(local[c].source))
         /\ BuildReads(local[c].source, local[c].source, tree, events[c])
         /\ head # NoRevision => Precedes(prints[head], local[c].source)
         /\ \A key \in log : /\ head # NoRevision /\ Precedes(key[1], prints[head])
                             /\ key[1] = local[c].source => Held(shows[head], key, local[c].source)
         /\ \E t \in Trees : /\ local[c].put = Analysis(local[c].paths, local[c].source, t)
                             /\ BuildReads(local[c].source, t, tree, events[c])
                             /\ ~ local[c].full => Files(t) \subseteq Modules(shows[head])
  <1>1. CallSound(c) /\ SourceFollows(c) /\ Analyzed(c) /\ Logged /\ InOrder(c) /\ CallTyped(local[c])
    BY DEF Known, Ordered, Typed
  <1>2. ~ Conflicts(c) /\ local[c].prev = head
    BY <1>1 DEF CallSound, Conflicts, Applying
  <1>3. QED
    BY <1>1, <1>2 DEF CallSound, SourceFollows, Analyzed, Logged, InOrder, Applying

(* A build whose key was used is what the head already shows.              *)
LEMMA ReplayKeepsUp ==
  ASSUME Typed, NEW c \in Processes, Known(c), Ordered, Apply(c), UNCHANGED store PROVE Known(c)'
  <1> DEFINE source == local[c].source
             key == KeyOf(source, local[c].full, local[c].paths)
  <1>1. /\ pc[c] = "apply" /\ pc'[c] = "idle" /\ UNCHANGED <<tree, edits, events>>
        /\ UNCHANGED <<shows, shared, head, prints, log>>
        /\ (Seen(key) \/ Conflicts(c) \/ Committed(c)) /\ head \in Nat
    BY ApplyForms, BoundsAssumption DEF Typed, store
  <1>2. Seen(key)
    <2>1. ~ Conflicts(c)
      BY <1>1, ApplyKnown
    <2>2. ~ Committed(c)
      BY <1>1 DEF Committed
    <2>3. QED
      BY <1>1, <2>1, <2>2
  <1>3. head # NoRevision /\ Held(shows[head], key, source)
    BY <1>1, <1>2, ApplyKnown DEF Seen, KeyOf
  <1>4. /\ WellMade(shows[head]) /\ tree \in Trees /\ source \in Trees /\ local[c].paths \in SUBSET Paths
        /\ Precedes(source, tree) /\ \A q \in Paths : source[q] # tree[q] => q \in events[c]
    BY <1>1, <1>3, HeadMade, ApplyKnown DEF Typed, CallTyped, BuildReads
  <1>5. CASE local[c].full
    <2>1. shows[head] = Rebuild(source)
      BY <1>3, <1>4, <1>5, RightIsRebuild DEF Held, KeyOf
    <2>2. Sound(shows[head], tree, events[c])
      BY <1>4, <2>1, SoundRebuild
    <2>3. SourceFollows(c)' /\ Analyzed(c)' /\ CallSound(c)'
      BY <1>1, <2>2 DEF SourceFollows, Analyzed, CallSound, Applying
    <2>4. QED
      BY <1>1, <2>3, ReadKeepsUp
  <1>6. CASE ~ local[c].full
    <2>1. \A p \in local[c].paths : Right(shows[head], p, source)
      BY <1>3, <1>4 DEF Held, KeyOf
    <2>2. /\ Sound(shows[head], tree, events[c] \cup local[c].paths)
          /\ Dependents(shows[head], local[c].paths, Files(source)) \subseteq local[c].paths
      BY <1>1, <1>6, ApplyKnown DEF Closed
    <2> HIDE DEF source
    <2>3. Sound(shows[head], tree, events[c])
      BY <1>4, <2>1, <2>2, SoundReplay
    <2>4. SourceFollows(c)' /\ Analyzed(c)' /\ CallSound(c)'
      BY <1>1, <2>3 DEF SourceFollows, Analyzed, CallSound, Applying
    <2>5. QED
      BY <1>1, <2>4, ReadKeepsUp
  <1>7. QED
    BY <1>5, <1>6

LEMMA CommitKeepsUp ==
  ASSUME Typed, Typed', NEW c \in Processes, Known(c), Ordered, Apply(c), Committed(c) PROVE Known(c)'
  <1> DEFINE source == local[c].source
             full == local[c].full
             paths == local[c].paths
             key == KeyOf(source, full, paths)
  <1>1. /\ pc[c] = "apply" /\ pc'[c] = "idle" /\ UNCHANGED <<tree, edits, events>> /\ tree \in Trees
        /\ head' = head + 1 /\ head \in Nat /\ head' # NoRevision
        /\ prints'[head'] = source /\ log' = log \cup {key}
        /\ shows'[head'] = History!Carried(local[c].put, Invalidations(c))
        /\ shared'[head'] = NextShares(c)
    BY ApplyForms, BoundsAssumption DEF Typed, Committed, NoRevision
  <1>2. /\ source \in Trees /\ full \in BOOLEAN /\ paths \in SUBSET Paths /\ local[c].prev = head
        /\ (full => paths = Files(source))
        /\ (~ full => /\ Sound(ShownBy(head), tree, events[c] \cup paths)
                      /\ Dependents(ShownBy(head), paths, Files(source)) \subseteq paths
                      /\ Sharers(ShownBy(head), SharedBy(head).owner, paths, Files(source)) \subseteq paths
                      /\ SharesSound(ShownBy(head), SharedBy(head), tree))
        /\ (head # NoRevision => prints[head] \in Trees /\ Precedes(prints[head], source))
        /\ Precedes(source, tree)
    BY <1>1, ApplyKnown, HeadMade DEF CallTyped, BuildReads, Closed, Known
  <1>3. PICK t \in Trees : /\ local[c].put = Analysis(paths, source, t)
                           /\ BuildReads(source, t, tree, events[c])
                           /\ ~ full => Files(t) \subseteq Modules(ShownBy(head))
    BY <1>1, ApplyKnown, HeadMade
  <1>4. /\ shows'[head'] = Renewed(ShownBy(head), full, paths, source, t)
        /\ shared'[head'] = RenewedShares(SharedBy(head), full, paths, source, t)
    BY <1>1, <1>2, <1>3, CommitRenews, CommitShares
  <1>5. WellMade(ShownBy(head))
    BY HeadShows
  <1> HIDE DEF source, full, paths
  <1>6. Sound(shows'[head'], tree, events[c])
    <2> DEFINE shown == ShownBy(head)
    <2> HIDE DEF shown
    <2>1. /\ WellMade(shown)
          /\ ~ full => /\ Sound(shown, tree, events[c] \cup paths) /\ Files(t) \subseteq Modules(shown)
                       /\ Dependents(shown, paths, Files(source)) \subseteq paths
      BY <1>2, <1>3, <1>5 DEF shown
    <2>2. Sound(Renewed(shown, full, paths, source, t), tree, events[c])
      BY <1>1, <1>2, <1>3, <2>1, SoundCommit
    <2>3. QED
      BY <1>4, <2>2 DEF shown
  <1>7. ASSUME NEW k \in log PROVE Precedes(k[1], source) /\ k[1] \in Trees /\ head # NoRevision
    <2>1. k[1] \in Trees /\ head # NoRevision /\ Precedes(k[1], prints[head])
      BY DEF Known, Logged, Typed
    <2>2. QED
      BY <1>2, <2>1, PrecedesOrder
  <1>8. ASSUME NEW k \in log', k[1] = tree PROVE Held(shows'[head'], k, tree)
    <2>1. source = tree
      BY <1>1, <1>2, <1>7, <1>8, PrecedesOrder DEF KeyOf
    <2>2. t = tree
      BY <1>1, <1>3, <2>1, PrecedesOrder DEF BuildReads
    <2>3. ASSUME NEW p \in Paths, k[2] = "full" \/ p \in k[3] PROVE Right(shows'[head'], p, tree)
      <3>1. CASE k \in log
        <4>1. Right(ShownBy(head), p, tree)
          BY <1>7, <1>8, <2>3, <3>1, HeadMade DEF Known, Logged, Held
        <4>2. QED
          BY <1>1, <1>2, <1>4, <1>5, <2>1, <2>2, <4>1, RenewedIsRight
      <3>2. CASE k = key
        <4>1. full \/ p \in paths
          BY <2>3, <3>2 DEF KeyOf
        <4>2. QED
          BY <1>1, <1>2, <1>4, <1>5, <2>1, <2>2, <4>1, RenewedIsRight
      <3>3. QED
        BY <1>1, <3>1, <3>2
    <2>4. QED
      BY <2>3 DEF Held
  <1>9. \A k \in log' : Precedes(k[1], source)
    BY <1>1, <1>2, <1>7, PrecedesOrder DEF KeyOf
  <1>10. HeadFollows' /\ Logged'
    BY <1>1, <1>2, <1>8, <1>9 DEF HeadFollows, Logged
  <1>11. SourceFollows(c)' /\ Analyzed(c)' /\ CallSound(c)'
    BY <1>1, <1>6 DEF SourceFollows, Analyzed, CallSound, Applying
  <1>12. \A p \in Paths : tree'[p] <= First + edits'
    BY <1>1 DEF Known
  <1>13. SharesSound(shows'[head'], shared'[head'], tree)
    <2> DEFINE shown == ShownBy(head)
               sh == SharedBy(head)
    <2>1. /\ WellMade(shown) /\ Precedes(source, t) /\ Precedes(t, tree)
          /\ ~ full => /\ SharesSound(shown, sh, tree) /\ Files(t) \subseteq Modules(shown)
                       /\ Sharers(shown, sh.owner, paths, Files(source)) \subseteq paths
      BY <1>2, <1>3, <1>5 DEF BuildReads
    <2> HIDE DEF shown, sh
    <2>2. SharesSound(Renewed(shown, full, paths, source, t), RenewedShares(sh, full, paths, source, t), tree)
      BY <1>1, <1>2, <2>1, SharesCommit
    <2>3. QED
      BY <1>4, <2>2 DEF shown, sh
  <1>14. QED
    BY <1>1, <1>10, <1>11, <1>12, <1>13 DEF Known

LEMMA StepKeepsUp ==
  ASSUME Typed, Typed', Ordered, KeepsUp, [Next]_vars PROVE KeepsUp'
  <1> SUFFICES ASSUME NEW c \in Processes, Alone(c)' PROVE Known(c)'
    BY DEF KeepsUp
  <1>a. \A p \in Paths, v \in Versions : Edit(p, v) => scenario' = scenario
    BY DEF Edit
  <1>b. \A d : Moves(d) => scenario' = scenario
    BY ScenarioKept
  <1>1. scenario' = scenario
    BY <1>a, <1>b DEF Next, Moves, vars
  <1>2. Alone(c) /\ Known(c)
    BY <1>1 DEF Alone, KeepsUp
  <1>3. CASE \E p \in Paths, v \in Versions : Edit(p, v)
    BY <1>2, <1>3, EditKeepsUp
  <1>4. ASSUME NEW d \in scenario.sidecars, Moves(d)
        PROVE  Known(c)'
    <2>1. d = c
      BY <1>2 DEF Alone
    <2>2. ~ Restart(c)
      BY <1>2 DEF Alone, Restart
    <2>3. Apply(c) => Known(c)'
      BY <1>2, ApplyForms, ReplayKeepsUp, CommitKeepsUp
    <2>4. QED
      BY <1>2, <1>4, <2>1, <2>2, <2>3, ListKeepsUp, ExpandKeepsUp, AnalyzeKeepsUp DEF Moves
  <1>5. CASE UNCHANGED vars
    BY <1>2, <1>5, ReadKeepsUp DEF vars, store, Known, SourceFollows, Analyzed, CallSound
  <1>6. QED
    BY <1>3, <1>4, <1>5 DEF Next, Moves

LEMMA KeepsUpAlways == Spec => [](Typed /\ Ordered /\ KeepsUp)
  <1>1. Init => Typed /\ Ordered /\ KeepsUp
    BY InitTyped, InitOrdered, InitKeepsUp
  <1>2. Typed /\ Ordered /\ KeepsUp /\ [Next]_vars => (Typed /\ Ordered /\ KeepsUp)'
    BY StepTyped, StepOrdered, StepKeepsUp
  <1>3. QED
    BY <1>1, <1>2, PTL DEF Spec

(* With one sidecar that is not restarted, and files that are edited,      *)
(* reported again and deleted but not created, the analysed facts of the   *)
(* head are what a rebuild from source would find as soon as every event   *)
(* is handled, and no dependency is missing or left over, nor a directory  *)
(* missing: for any imports between the files and any dependencies they    *)
(* share, in whichever batches the paths arrive, whichever edit falls into *)
(* whichever refresh, and whether the refreshes are incremental, full, or  *)
(* answered from the idempotency log.                                      *)
THEOREM SettledTwinIsCurrent == Spec => []Settled
  <1>1. Typed /\ KeepsUp => Settled
    <2> SUFFICES ASSUME Typed, KeepsUp, Undisturbed, Quiet, head # NoRevision
                 PROVE  /\ shows[head] = Rebuild(tree)
                        /\ DOMAIN shared[head].owner = DOMAIN Owners(Files(tree))
                        /\ Directories(Files(tree)) \subseteq shared[head].directories
      BY DEF Settled, Current
    <2>1. PICK c \in Processes : Alone(c)
      BY DEF Undisturbed, Alone
    <2>2. pc[c] = "idle" /\ events[c] = {}
      BY <2>1 DEF Quiet, Alone
    <2>3. Sound(shows[head], tree, {}) /\ SharesSound(shows[head], shared[head], tree)
      BY <2>1, <2>2 DEF KeepsUp, Known, CallSound
    <2>4. shows[head] = Rebuild(tree) /\ tree \in Trees
      BY <2>3, HeadMade, SoundSettles DEF Typed
    <2>5. Modules(shows[head]) \subseteq Files(tree) /\ Files(tree) \in SUBSET Paths
      BY <2>4 DEF Modules, Rebuild, Files
    <2>6. DOMAIN Owners(Files(tree)) = UNION { Uses[p] : p \in Files(tree) }
      BY <2>5, OwnersMade
    <2>7. DOMAIN shared[head].owner = UNION { Uses[p] : p \in Files(tree) }
      BY <2>3, <2>5 DEF SharesSound
    <2>8. Directories(Files(tree)) \subseteq shared[head].directories
      BY <2>3 DEF SharesSound, Directories
    <2>9. QED
      BY <2>4, <2>6, <2>7, <2>8
  <1>2. QED
    BY <1>1, KeepsUpAlways, PTL

(***************************************************************************)
(* Nothing goes back.  Whatever was read of a file is Late: no newer edit  *)
(* made it, and what the file is now is not older.                         *)
(***************************************************************************)
Late(v, p, t, n) == v <= First + n /\ Past(v, t[p])

HeadAged ==
  /\ \A x, y \in ShownBy(head) : x[1] = y[1] => x = y
  /\ \A x \in ShownBy(head) : /\ Late(x[2].hash, x[1], tree, edits)
                              /\ \A q \in Reads(x[1]) : Late(x[2].seen[q], q, tree, edits)

(* The sources a call has read, and the analysis it has made of them.      *)
ReadsLate(c) ==
  /\ pc[c] \in {"match", "expand"} \cup Applying =>
       \A p \in Paths : Late(local[c].source[p], p, tree, edits)
  /\ pc[c] = "apply" => \A p \in DOMAIN local[c].put :
       /\ p \in Files(local[c].source) /\ local[c].put[p].hash = local[c].source[p]
       /\ \A q \in Reads(p) : Late(local[c].put[p].seen[q], q, tree, edits)

(* A refresh knows its head from before it read the sources, so that they  *)
(* are no older than the facts of that head, for as long as it is the head.*)
Overtakes(c) ==
  /\ ~ local[c].full /\ pc[c] \in {"source", "expand"} \cup Applying => local[c].expected # NoRevision
  /\ ~ local[c].full /\ pc[c] \in {"expand"} \cup Applying /\ local[c].expected = head =>
       \A x \in ShownBy(head) : Past(x[2].hash, local[c].source[x[1]])
  /\ ~ local[c].full /\ pc[c] = "apply" /\ local[c].expected = head =>
       \A x \in ShownBy(head) : x[1] \in DOMAIN local[c].put =>
         \A q \in Reads(x[1]) : Past(x[2].seen[q], local[c].put[x[1]].seen[q])

Aged ==
  "return" \notin scenario.happens =>
    /\ \A p \in Paths : tree[p] <= First + edits
    /\ HeadAged
    /\ \A c \in Processes : ReadsLate(c) /\ Overtakes(c)

LEMMA LateTree ==
  ASSUME Typed, \A p \in Paths : tree[p] <= First + edits, NEW p \in Paths
  PROVE  Late(tree[p], p, tree, edits)
  <1>1. tree[p] \in Nat
    BY VersionsAreNat DEF Typed
  <1>2. QED
    BY <1>1 DEF Late, Past

LEMMA InitAged == Init => Aged
  <1> SUFFICES ASSUME Init PROVE Aged
    OBVIOUS
  <1>1. Typed /\ edits = 0 /\ \A p \in Paths : tree[p] <= First + edits
    <2>1. edits = 0 /\ \A p \in Paths : tree[p] = First \/ tree[p] = Absent
      BY DEF Init
    <2>2. QED
      BY <2>1, InitTyped DEF First, Absent
  <1>2. \A c \in Processes : ReadsLate(c) /\ Overtakes(c)
    BY DEF Init, ReadsLate, Overtakes, Applying
  <1>3. CASE "first" \in scenario.happens
    <2>1. ShownBy(head) = {}
      BY <1>3 DEF Init, History!Init, History!None, ShownBy, NoRevision
    <2>2. QED
      BY <1>1, <1>2, <2>1 DEF Aged, HeadAged
  <1>4. CASE "first" \notin scenario.happens
    <2>1. ShownBy(head) = Rebuild(tree)
      BY <1>4 DEF Init, ShownBy, NoRevision
    <2>2. \A x : x \in ShownBy(head) <=> \E p \in Files(tree) : x = <<p, FactOf(p, tree, tree)>>
      BY <2>1 DEF Rebuild
    <2>3. tree \in Trees
      BY <1>1 DEF Typed
    <2>4. \A p \in Files(tree) : /\ p \in Paths /\ FactOf(p, tree, tree).hash = tree[p]
                                /\ \A q \in Reads(p) : q \in Paths /\ FactOf(p, tree, tree).seen[q] = tree[q]
      BY <2>3, FactMade
    <2>5. ASSUME NEW x \in ShownBy(head)
          PROVE  /\ Late(x[2].hash, x[1], tree, edits)
                 /\ \A q \in Reads(x[1]) : Late(x[2].seen[q], q, tree, edits)
      <3>1. PICK p \in Files(tree) : x = <<p, FactOf(p, tree, tree)>>
        BY <2>2
      <3>2. x[1] = p /\ x[2] = FactOf(p, tree, tree)
        BY <3>1
      <3>3. QED
        BY <1>1, <2>4, <3>2, LateTree
    <2>6. \A x, y \in ShownBy(head) : x[1] = y[1] => x = y
      BY <2>2
    <2>7. QED
      BY <1>1, <1>2, <2>5, <2>6 DEF Aged, HeadAged
  <1>5. QED
    BY <1>3, <1>4

(* What was late before an edit is late after it.                          *)
LEMMA LateMoves ==
  ASSUME Typed, "return" \notin scenario.happens, \A q \in Paths : tree[q] <= First + edits,
         NEW p \in Paths, NEW v \in Versions, Edit(p, v)
  PROVE  /\ \A q \in Paths : tree'[q] <= First + edits'
         /\ \A q \in Paths, w \in Nat : Late(w, q, tree, edits) => Late(w, q, tree', edits')
  <1>1. tree \in Trees /\ edits \in Nat
    BY BoundsAssumption DEF Typed
  <1>2. \A q \in Paths : tree[q] \in Nat
    BY <1>1, VersionsAreNat
  <1>3. /\ tree' = [tree EXCEPT ![p] = v] /\ edits' = edits + 1
        /\ v = tree[p] \/ v = Absent \/ v = First + edits + 1
    BY DEF Edit, NewVersions
  <1>4. tree'[p] = v /\ \A q \in Paths \ {p} : tree'[q] = tree[q]
    BY <1>1, <1>3 DEF Trees
  <1>5. \A q \in Paths : tree'[q] = tree[q] \/ tree'[q] = Absent \/ tree'[q] = First + edits + 1
    BY <1>3, <1>4
  <1>6. QED
    BY <1>1, <1>2, <1>3, <1>5 DEF Late, Past, First, Absent

(* What is shown, listed and found are versions.                           *)
LEMMA ReadVersions ==
  ASSUME Typed
  PROVE  /\ \A x \in ShownBy(head) : /\ x[1] \in Paths /\ x[2].hash \in Nat
                                     /\ \A q \in Reads(x[1]) : q \in Paths /\ x[2].seen[q] \in Nat
         /\ \A c \in Processes :
              /\ local[c].source \in Trees /\ \A p \in Paths : local[c].source[p] \in Nat
              /\ \A p \in DOMAIN local[c].put :
                   /\ p \in Paths /\ \A q \in Reads(p) : q \in Paths /\ local[c].put[p].seen[q] \in Nat
  <1>1. \A p \in Paths : \A q \in Reads(p) : q \in Paths
    BY ImportsAssumption DEF Reads
  <1>2. ASSUME NEW p \in Paths, NEW f \in FactsOf(p)
        PROVE  f.hash \in Nat /\ \A q \in Reads(p) : f.seen[q] \in Nat
    BY VersionsAreNat DEF FactsOf
  <1>3. WellMade(ShownBy(head))
    BY HeadShows
  <1>4. \A x \in ShownBy(head) : x[1] \in Paths /\ x[2] \in FactsOf(x[1])
    BY <1>3 DEF WellMade
  <1>5. ASSUME NEW c \in Processes
        PROVE  /\ local[c].source \in Trees /\ DOMAIN local[c].put \subseteq Paths
               /\ \A p \in DOMAIN local[c].put : local[c].put[p] \in FactsOf(p)
    BY DEF Typed, CallTyped
  <1>6. QED
    BY <1>1, <1>2, <1>4, <1>5, VersionsAreNat

LEMMA EditAged ==
  ASSUME Typed, Aged, NEW p \in Paths, NEW v \in Versions, Edit(p, v) PROVE Aged'
  <1>1. UNCHANGED <<scenario, shows, head, pc, local>>
    BY DEF Edit, store
  <1>2. SUFFICES ASSUME "return" \notin scenario.happens PROVE Aged'
    BY <1>1 DEF Aged
  <1>3. /\ \A q \in Paths : tree[q] <= First + edits
        /\ HeadAged /\ \A c \in Processes : ReadsLate(c) /\ Overtakes(c)
    BY <1>2 DEF Aged
  <1>4. /\ \A q \in Paths : tree'[q] <= First + edits'
        /\ \A q \in Paths, w \in Nat : Late(w, q, tree, edits) => Late(w, q, tree', edits')
    BY <1>2, <1>3, LateMoves
  <1>5. ShownBy(head)' = ShownBy(head)
    BY <1>1 DEF ShownBy
  <1>6. HeadAged'
    BY <1>3, <1>4, <1>5, ReadVersions DEF HeadAged
  <1>7. ASSUME NEW c \in Processes PROVE ReadsLate(c)' /\ Overtakes(c)'
    <2>1. ReadsLate(c)'
      BY <1>1, <1>3, <1>4, ReadVersions DEF ReadsLate
    <2>2. Overtakes(c)'
      BY <1>1, <1>3, <1>5 DEF Overtakes
    <2>3. QED
      BY <2>1, <2>2
  <1>8. QED
    BY <1>4, <1>6, <1>7 DEF Aged

(* A call that only reads: what must be shown of it.                       *)
LEMMA CallAged ==
  ASSUME Typed, Aged, UNCHANGED <<scenario, tree, edits, store>>, NEW c \in Processes,
         NEW call, NEW step, local' = [local EXCEPT ![c] = call], pc' = [pc EXCEPT ![c] = step],
         "return" \notin scenario.happens => ReadsLate(c)' /\ Overtakes(c)'
  PROVE  Aged'
  <1>1. UNCHANGED <<shows, head>>
    BY DEF store
  <1>2. ShownBy(head)' = ShownBy(head)
    BY <1>1 DEF ShownBy
  <1>3. SUFFICES ASSUME "return" \notin scenario.happens PROVE Aged'
    BY DEF Aged
  <1>4. HeadAged'
    BY <1>2, <1>3 DEF Aged, HeadAged
  <1>5. ASSUME NEW d \in Processes, d # c PROVE ReadsLate(d)' /\ Overtakes(d)'
    <2>1. pc'[d] = pc[d] /\ local'[d] = local[d]
      BY <1>5 DEF Typed
    <2>2. QED
      BY <1>1, <1>2, <1>3, <2>1 DEF Aged, ReadsLate, Overtakes
  <1>6. QED
    BY <1>3, <1>4, <1>5 DEF Aged

LEMMA ListAged ==
  ASSUME Typed, Ordered, Aged, NEW c \in Processes,
         \/ \E batch \in SUBSET Paths : Refresh(c, batch)
         \/ \E rest \in SUBSET Paths : Open(c, rest)
         \/ RefreshSource(c) \/ OpenReady(c) \/ OpenBuild(c) \/ Restart(c)
  PROVE  Aged'
  <1>1. /\ CallTyped(local[c]) /\ c \in DOMAIN pc /\ c \in DOMAIN local /\ InOrder(c)
        /\ DOMAIN local[c] = Fields
    BY DEF Typed, Ordered, CallTyped
  <1>2. "return" \notin scenario.happens =>
          /\ ReadsLate(c) /\ Overtakes(c) /\ HeadAged
          /\ \A p \in Paths : Late(tree[p], p, tree, edits)
    BY LateTree DEF Aged
  <1> USE DEF Goto, Applying
  <1>3. ASSUME NEW batch \in SUBSET Paths, Refresh(c, batch) PROVE Aged'
    <2>1. /\ pc' = [pc EXCEPT ![c] = "source"] /\ local' = [local EXCEPT ![c] = Listing(batch)]
          /\ head # NoRevision /\ UNCHANGED <<scenario, tree, edits, store>>
      BY <1>3, RefreshForms
    <2>2. pc'[c] = "source" /\ local'[c].expected = head
      BY <1>1, <2>1, NoLocalTyped DEF Listing, Fields
    <2>3. ReadsLate(c)' /\ Overtakes(c)'
      BY <2>1, <2>2 DEF ReadsLate, Overtakes
    <2>4. QED
      BY <2>1, <2>3, CallAged
  <1>4. ASSUME NEW rest \in SUBSET Paths, Open(c, rest) PROVE Aged'
    <2>1. /\ pc' = [pc EXCEPT ![c] = "match"] /\ local' = [local EXCEPT ![c] = Opening]
          /\ UNCHANGED <<scenario, tree, edits, store>>
      BY <1>4, OpenForms
    <2>2. pc'[c] = "match" /\ local'[c].source = tree
      BY <1>1, <2>1, NoLocalTyped DEF Opening, Fields
    <2>3. "return" \notin scenario.happens => ReadsLate(c)' /\ Overtakes(c)'
      BY <1>2, <2>1, <2>2 DEF ReadsLate, Overtakes
    <2>4. QED
      BY <2>1, <2>3, CallAged
  <1>5. CASE RefreshSource(c)
    <2>1. /\ pc[c] = "source" /\ pc' = [pc EXCEPT ![c] = "expand"]
          /\ local' = [local EXCEPT ![c] = Sourced(c)] /\ UNCHANGED <<scenario, tree, edits, store>>
      BY <1>1, <1>5 DEF RefreshSource, Sourced
    <2>2. /\ pc'[c] = "expand" /\ local'[c].source = tree
          /\ local'[c].full = local[c].full /\ local'[c].expected = local[c].expected
      BY <1>1, <2>1 DEF Sourced, Fields
    <2>3. ShownBy(head)' = ShownBy(head) /\ head' = head
      BY <2>1 DEF store, ShownBy
    <2>4. "return" \notin scenario.happens => ReadsLate(c)'
      BY <1>2, <2>1, <2>2 DEF ReadsLate
    <2>5. "return" \notin scenario.happens => \A x \in ShownBy(head) : Past(x[2].hash, tree[x[1]])
      BY <1>2 DEF HeadAged, Late
    <2>6. "return" \notin scenario.happens => Overtakes(c)'
      BY <1>2, <2>1, <2>2, <2>3, <2>5 DEF Overtakes
    <2>7. QED
      BY <2>1, <2>4, <2>6, CallAged
  <1>6. CASE OpenReady(c)
    <2>1. /\ pc' = [pc EXCEPT ![c] = "idle"] /\ local' = [local EXCEPT ![c] = NoLocal]
          /\ UNCHANGED <<scenario, tree, edits, store>>
      BY <1>6 DEF OpenReady
    <2>2. ReadsLate(c)' /\ Overtakes(c)'
      BY <1>1, <2>1 DEF ReadsLate, Overtakes
    <2>3. QED
      BY <2>1, <2>2, CallAged
  <1>7. CASE OpenBuild(c)
    <2>1. /\ pc[c] = "match" /\ pc' = [pc EXCEPT ![c] = "expand"]
          /\ local' = [local EXCEPT ![c] = Checked(c)] /\ UNCHANGED <<scenario, tree, edits, store>>
      BY <1>1, <1>7 DEF OpenBuild, Checked
    <2>2. /\ pc'[c] = "expand" /\ local'[c].source = local[c].source /\ local'[c].full = local[c].full
          /\ local[c].full
      BY <1>1, <2>1 DEF Checked, Fields, InOrder
    <2>3. "return" \notin scenario.happens => ReadsLate(c)' /\ Overtakes(c)'
      BY <1>2, <2>1, <2>2 DEF ReadsLate, Overtakes
    <2>4. QED
      BY <2>1, <2>3, CallAged
  <1>8. CASE Restart(c)
    <2>1. /\ pc' = [pc EXCEPT ![c] = "idle"] /\ local' = [local EXCEPT ![c] = NoLocal]
          /\ UNCHANGED <<scenario, tree, edits, store>>
      BY <1>8 DEF Restart
    <2>2. ReadsLate(c)' /\ Overtakes(c)'
      BY <1>1, <2>1 DEF ReadsLate, Overtakes
    <2>3. QED
      BY <2>1, <2>2, CallAged
  <1>9. QED
    BY <1>3, <1>4, <1>5, <1>6, <1>7, <1>8

LEMMA ExpandAged == ASSUME Typed, Aged, NEW c \in Processes, Expand(c) PROVE Aged'
  <1>1. PICK full \in BOOLEAN, paths \in SUBSET Paths :
          /\ pc[c] = "expand" /\ pc' = [pc EXCEPT ![c] = "analyze"]
          /\ UNCHANGED <<scenario, tree, edits, store>>
          /\ local' = [local EXCEPT ![c] = Expanded(c, full, paths)]
          /\ ~ full => ~ local[c].full
    BY ExpandForms
  <1>2. /\ pc'[c] = "analyze" /\ local'[c].expected = local[c].expected
        /\ local'[c].full = full /\ local'[c].source = local[c].source
    BY <1>1 DEF Expanded, CallTyped, Fields, Typed
  <1>3. ShownBy(head)' = ShownBy(head) /\ head' = head
    BY <1>1 DEF store, ShownBy
  <1>4. "return" \notin scenario.happens => ReadsLate(c)' /\ Overtakes(c)'
    BY <1>1, <1>2, <1>3 DEF Aged, ReadsLate, Overtakes, Applying
  <1>5. QED
    BY <1>1, <1>4, CallAged

LEMMA AnalyzeAged == ASSUME Typed, Aged, NEW c \in Processes, Analyze(c) PROVE Aged'
  <1> DEFINE put == Analysis(local[c].paths, local[c].source, tree)
  <1>1. /\ pc[c] = "analyze" /\ pc' = [pc EXCEPT ![c] = "apply"]
        /\ local' = [local EXCEPT ![c] = Parsed(c)] /\ UNCHANGED <<scenario, tree, edits, store>>
    BY DEF Analyze, Goto, Parsed, Typed
  <1>2. /\ pc'[c] = "apply" /\ local'[c].expected = local[c].expected /\ local'[c].put = put
        /\ local'[c].full = local[c].full /\ local'[c].source = local[c].source
    BY <1>1 DEF Parsed, CallTyped, Fields, Typed
  <1>3. /\ DOMAIN put = local[c].paths \cap Files(local[c].source)
        /\ \A p \in DOMAIN put : /\ p \in Files(local[c].source) /\ put[p].hash = local[c].source[p]
                                  /\ \A q \in Reads(p) : q \in Paths /\ put[p].seen[q] = tree[q]
    <2>1. local[c].paths \in SUBSET Paths /\ local[c].source \in Trees /\ tree \in Trees
      BY DEF Typed, CallTyped
    <2>2. DOMAIN put = local[c].paths \cap Files(local[c].source)
      BY DEF Analysis
    <2>3. \A p \in DOMAIN put : put[p] = FactOf(p, local[c].source, tree)
      BY DEF Analysis
    <2> HIDE DEF put
    <2>4. QED
      BY <2>1, <2>2, <2>3, FactMade
  <1> HIDE DEF put
  <1>4. ShownBy(head)' = ShownBy(head) /\ head' = head
    BY <1>1 DEF store, ShownBy
  <1>5. SUFFICES ASSUME "return" \notin scenario.happens PROVE ReadsLate(c)' /\ Overtakes(c)'
    BY <1>1, CallAged
  <1>6. /\ ReadsLate(c) /\ Overtakes(c) /\ HeadAged
        /\ \A p \in Paths : Late(tree[p], p, tree, edits)
    BY <1>5, LateTree DEF Aged
  <1>7. ReadsLate(c)'
    BY <1>1, <1>2, <1>3, <1>6 DEF ReadsLate, Applying
  <1>8. ASSUME NEW x \in ShownBy(head), x[1] \in DOMAIN put, NEW q \in Reads(x[1])
        PROVE  Past(x[2].seen[q], put[x[1]].seen[q])
    BY <1>3, <1>6, <1>8 DEF HeadAged, Late
  <1>9. Overtakes(c)'
    BY <1>1, <1>2, <1>4, <1>6, <1>8 DEF Overtakes, Applying
  <1>10. QED
    BY <1>7, <1>9

(* What a new head shows: what was analysed, and of the rest what it had.  *)
LEMMA CommitShows ==
  ASSUME Typed, NEW c \in Processes, Committed(c), NEW y \in shows'[head']
  PROVE  \/ y \in ShownBy(head) /\ y[1] \notin DOMAIN local[c].put
         \/ y[1] \in DOMAIN local[c].put /\ y = <<y[1], local[c].put[y[1]]>>
  <1> DEFINE put == local[c].put
  <1>1. head \in Nat
    BY BoundsAssumption DEF Typed
  <1>2. shows'[head'] = History!Carried(put, Invalidations(c))
    BY <1>1 DEF Committed
  <1> HIDE DEF put
  <1>3. QED
    BY <1>2, HeadShows DEF History!Carried, put

LEMMA CommitAged ==
  ASSUME Typed, Aged, NEW c \in Processes, Apply(c), Committed(c) PROVE Aged'
  <1>1. /\ UNCHANGED <<scenario, tree, edits>> /\ pc[c] = "apply" /\ pc' = [pc EXCEPT ![c] = "idle"]
        /\ local' = [local EXCEPT ![c] = NoLocal]
    BY ApplyForms
  <1>2. SUFFICES ASSUME "return" \notin scenario.happens PROVE Aged'
    BY <1>1 DEF Aged
  <1>3. /\ \A p \in Paths : tree[p] <= First + edits
        /\ HeadAged /\ \A d \in Processes : ReadsLate(d) /\ Overtakes(d)
    BY <1>2 DEF Aged
  <1>4. head' = head + 1 /\ head \in Nat
    BY BoundsAssumption DEF Committed, Typed
  <1>5. ShownBy(head)' = shows'[head']
    BY <1>4 DEF ShownBy, NoRevision
  <1>6. HeadAged'
    <2> DEFINE put == local[c].put
    <2>1. \A p \in DOMAIN put : /\ p \in Paths /\ put[p].hash = local[c].source[p]
                                 /\ Late(local[c].source[p], p, tree, edits)
                                 /\ \A q \in Reads(p) : Late(put[p].seen[q], q, tree, edits)
      BY <1>1, <1>3 DEF ReadsLate, Applying, Typed, CallTyped
    <2> HIDE DEF put
    <2>2. \A y \in shows'[head'] : \/ y \in ShownBy(head) /\ y[1] \notin DOMAIN put
                                   \/ y[1] \in DOMAIN put /\ y = <<y[1], put[y[1]]>>
      BY CommitShows DEF put
    <2>3. ASSUME NEW y \in shows'[head']
          PROVE  /\ Late(y[2].hash, y[1], tree, edits)
                 /\ \A q \in Reads(y[1]) : Late(y[2].seen[q], q, tree, edits)
      <3>1. CASE y \in ShownBy(head)
        BY <1>3, <3>1 DEF HeadAged
      <3>2. CASE y[1] \in DOMAIN put /\ y = <<y[1], put[y[1]]>>
        <4>1. y[2] = put[y[1]]
          BY <3>2
        <4>2. QED
          BY <2>1, <3>2, <4>1
      <3>3. QED
        BY <2>2, <3>1, <3>2
    <2>4. \A x, y \in shows'[head'] : x[1] = y[1] => x = y
      BY <1>3, <2>2 DEF HeadAged
    <2>5. QED
      BY <1>1, <1>5, <2>3, <2>4 DEF HeadAged
  <1>7. ASSUME NEW d \in Processes PROVE ReadsLate(d)' /\ Overtakes(d)'
    <2>1. CASE d = c
      <3>1. pc'[d] = "idle"
        BY <1>1, <2>1 DEF Typed
      <3>2. QED
        BY <3>1 DEF ReadsLate, Overtakes, Applying
    <2>2. CASE d # c
      <3>1. /\ pc'[d] = pc[d] /\ local'[d] = local[d]
            /\ local[d].expected \in 0..head
        BY <1>1, <2>2 DEF Typed, CallTyped
      <3>2. local'[d].expected # head'
        BY <1>4, <3>1
      <3>3. QED
        BY <1>1, <1>3, <3>1, <3>2 DEF ReadsLate, Overtakes
    <2>3. QED
      BY <2>1, <2>2
  <1>8. QED
    BY <1>1, <1>3, <1>6, <1>7 DEF Aged

LEMMA StepAged == ASSUME Typed, Ordered, Aged, [Next]_vars PROVE Aged'
  <1>1. ASSUME NEW p \in Paths, NEW v \in Versions, Edit(p, v) PROVE Aged'
    BY <1>1, EditAged
  <1>2. ASSUME NEW c \in scenario.sidecars, Moves(c) PROVE Aged'
    <2>1. c \in Processes
      BY ScenariosAssumption DEF Typed
    <2>2. CASE Apply(c)
      <3>1. CASE Committed(c)
        BY <2>1, <2>2, <3>1, CommitAged
      <3>2. CASE UNCHANGED store
        <4>1. /\ UNCHANGED <<scenario, tree, edits>> /\ pc' = [pc EXCEPT ![c] = "idle"]
              /\ local' = [local EXCEPT ![c] = NoLocal]
          BY <2>1, <2>2, ApplyForms
        <4>2. ReadsLate(c)' /\ Overtakes(c)'
          BY <2>1, <4>1 DEF ReadsLate, Overtakes, Typed, Applying
        <4>3. QED
          BY <2>1, <3>2, <4>1, <4>2, CallAged
      <3>3. QED
        BY <2>1, <2>2, <3>1, <3>2, ApplyForms
    <2>3. QED
      BY <1>2, <2>1, <2>2, ListAged, ExpandAged, AnalyzeAged DEF Moves
  <1>3. CASE UNCHANGED vars
    <2>1. ShownBy(head)' = ShownBy(head)
      BY <1>3 DEF vars, ShownBy
    <2>2. QED
      BY <1>3, <2>1 DEF vars, Aged, HeadAged, ReadsLate, Overtakes
  <1>4. QED
    BY <1>1, <1>2, <1>3 DEF Next, Moves

LEMMA CommitTurnsNothingBack ==
  ASSUME Typed, Aged, NEW c \in Processes, Apply(c), Committed(c), ~ Conflicts(c),
         "return" \notin scenario.happens, ~ local[c].full,
         NEW x \in ShownBy(head), NEW y \in shows'[head'], x[1] = y[1]
  PROVE  x[2].hash <= y[2].hash /\ \A q \in Reads(x[1]) : Past(x[2].seen[q], y[2].seen[q])
  <1> DEFINE put == local[c].put
  <1>1. pc[c] = "apply" /\ HeadAged /\ ReadsLate(c) /\ Overtakes(c)
    BY ApplyForms DEF Aged
  <1>2. local[c].expected = head
    BY <1>1 DEF Overtakes, Conflicts, Applying
  <1>3. /\ x[1] \in Paths /\ x[2].hash \in Nat
        /\ \A q \in Reads(x[1]) : x[2].seen[q] \in Nat
    BY ReadVersions
  <1>4. CASE y \in ShownBy(head)
    <2>1. x = y
      BY <1>1, <1>4 DEF HeadAged
    <2>2. QED
      BY <1>3, <2>1 DEF Past
  <1>5. CASE y[1] \in DOMAIN put /\ y = <<y[1], put[y[1]]>>
    <2>1. /\ x[1] \in Files(local[c].source) /\ put[x[1]].hash = local[c].source[x[1]]
      BY <1>1, <1>5 DEF ReadsLate
    <2>2. Past(x[2].hash, local[c].source[x[1]]) /\ local[c].source[x[1]] # Absent
      BY <1>1, <1>2, <2>1 DEF Overtakes, Applying, Files
    <2>3. \A q \in Reads(x[1]) : Past(x[2].seen[q], put[x[1]].seen[q])
      BY <1>1, <1>2, <1>5 DEF Overtakes
    <2>4. y[2] = put[x[1]]
      BY <1>5
    <2> HIDE DEF put
    <2>5. x[2].hash <= put[x[1]].hash
      BY <2>1, <2>2 DEF Past
    <2>6. QED
      BY <2>3, <2>4, <2>5
  <1>6. QED
    BY <1>4, <1>5, CommitShows

(* For any sidecars that share a store, any imports and any edits that     *)
(* make new contents, an incremental refresh that takes puts no file back  *)
(* to an older content than the head had of it, nor what was seen of a     *)
(* file that it imports.  Unlike the two theorems above this one lets two  *)
(* sidecars race for the first twin, and lets them restart at any step.    *)
THEOREM RefreshesTurnNothingBack == Spec => RefreshNeverTurnsBack
  <1> DEFINE Kept(c) == "return" \notin scenario.happens /\ ~ local[c].full => TurnsNothingBack(c)
  <1>1. ASSUME Typed, Aged, [Next]_vars, NEW c \in Processes, "return" \notin scenario.happens,
               ~ local[c].full, pc[c] = "apply", pc'[c] # "apply", head' # head,
               NEW x \in ShownBy(head), NEW y \in shows'[head'], x[1] = y[1]
        PROVE  x[2].hash <= y[2].hash /\ \A q \in Reads(x[1]) : Past(x[2].seen[q], y[2].seen[q])
    <2>1. Apply(c) /\ Committed(c) /\ ~ Conflicts(c)
      BY <1>1, HeadMoves
    <2>2. QED
      BY <1>1, <2>1, CommitTurnsNothingBack
  <1>2. Typed /\ Aged /\ [Next]_vars => [\A c \in Processes : Kept(c)]_vars
    BY <1>1 DEF TurnsNothingBack
  <1>3. Init => Typed /\ Ordered /\ Aged
    BY InitTyped, InitOrdered, InitAged
  <1>4. Typed /\ Ordered /\ Aged /\ [Next]_vars => (Typed /\ Ordered /\ Aged)'
    BY StepTyped, StepOrdered, StepAged
  <1>5. QED
    BY <1>2, <1>3, <1>4, PTL DEF Spec, RefreshNeverTurnsBack

(***************************************************************************)
(* Impact analysis: what SetToSeq, Tail, \o and Append make of a work list. *)
(***************************************************************************)

LEMMA ListOfSet ==
  ASSUME NEW S, IsFiniteSet(S)
  PROVE  SetToSeq(S) \in Seq(S) /\ ToSet(SetToSeq(S)) = S
  <1> DEFINE n == Cardinality(S)
             f == SetToSeq(S)
  <1>1. n \in Nat /\ ExistsBijection(1..n, S)
    BY FS_CardinalityType
  <1>2. \E g \in [1..n -> S] : IsInjective(g)
    BY <1>1 DEF ExistsBijection, Bijection, Injection, IsInjective
  <1>3. f \in [1..n -> S] /\ IsInjective(f)
    BY <1>2, Zenon DEF SetToSeq
  <1>4. f \in Surjection(1..n, S)
    <2>1. f \in Injection(1..n, S)
      BY <1>3 DEF Injection, IsInjective
    <2>2. Cardinality(1..n) = n
      BY <1>1, FS_Interval
    <2>3. QED
      BY <2>1, <2>2, FS_Injection
  <1>5. f \in Seq(S) /\ DOMAIN f = 1..n
    BY <1>1, <1>3
  <1> HIDE DEF f, n
  <1>6. ToSet(f) = S
    BY <1>4, <1>5 DEF ToSet, Surjection
  <1>7. QED
    BY <1>5, <1>6 DEF f

LEMMA Member ==
  ASSUME NEW S, NEW s \in Seq(S)
  PROVE  \A x : x \in ToSet(s) <=> \E i \in 1..Len(s) : s[i] = x
  <1>1. DOMAIN s = 1..Len(s)
    BY LenProperties
  <1>2. QED
    BY <1>1, Zenon DEF ToSet

LEMMA HeadOfList ==
  ASSUME NEW S, NEW s \in Seq(S), s # <<>>
  PROVE  /\ Len(s) \in Nat \ {0} /\ Head(s) \in S /\ Head(s) = s[1]
         /\ Tail(s) \in Seq(S) /\ Len(Tail(s)) = Len(s) - 1
         /\ \A i \in 1..Len(s) - 1 : Tail(s)[i] = s[i + 1]
         /\ ToSet(s) = {Head(s)} \cup ToSet(Tail(s))
  <1>1. /\ Len(s) \in Nat \ {0} /\ DOMAIN s = 1..Len(s)
        /\ Head(s) \in S /\ Head(s) = s[1]
        /\ Tail(s) \in Seq(S) /\ Len(Tail(s)) = Len(s) - 1
        /\ \A i \in 1..Len(s) - 1 : Tail(s)[i] = s[i + 1]
    BY HeadTailProperties, LenProperties, EmptySeq
  <1> DEFINE t == Tail(s)
  <1>3. \A x : x \in ToSet(t) <=> \E i \in 1..Len(s) - 1 : t[i] = x
    <2>1. t \in Seq(S) /\ Len(t) = Len(s) - 1
      BY <1>1
    <2> HIDE DEF t
    <2>2. \A x : x \in ToSet(t) <=> \E i \in 1..Len(t) : t[i] = x
      BY <2>1, Member
    <2>3. QED
      BY <2>1, <2>2
  <1>4. \A x : x \in ToSet(s) <=> \E i \in 1..Len(s) : s[i] = x
    BY Member
  <1>5. \A i \in 1..Len(s) - 1 : t[i] = s[i + 1]
    BY <1>1
  <1> HIDE DEF t
  <1>6. \A x : x \in ToSet(s) <=> x = s[1] \/ x \in ToSet(t)
    <2> SUFFICES ASSUME NEW x PROVE x \in ToSet(s) <=> x = s[1] \/ x \in ToSet(t)
      OBVIOUS
    <2>1. CASE x \in ToSet(s)
      <3>1. PICK i \in 1..Len(s) : s[i] = x
        BY <2>1, <1>4
      <3>2. i = 1 \/ (i - 1 \in 1..Len(s) - 1 /\ t[i - 1] = s[i])
        BY <1>1, <1>5
      <3>3. QED
        BY <3>1, <3>2, <1>3, <2>1
    <2>2. CASE x = s[1]
      BY <2>2, <1>1, <1>4
    <2>3. CASE x \in ToSet(t)
      <3>1. PICK i \in 1..Len(s) - 1 : t[i] = x
        BY <2>3, <1>3
      <3>2. i + 1 \in 1..Len(s) /\ s[i + 1] = x
        BY <3>1, <1>1, <1>5
      <3>3. QED
        BY <3>2, <1>4, <2>3
    <2>4. QED
      BY <2>1, <2>2, <2>3
  <1>7. ToSet(s) = {Head(s)} \cup ToSet(t)
    BY <1>1, <1>6
  <1>8. QED
    BY <1>1, <1>7 DEF t

LEMMA JoinOfLists ==
  ASSUME NEW S, NEW s \in Seq(S), NEW t \in Seq(S)
  PROVE  s \o t \in Seq(S) /\ ToSet(s \o t) = ToSet(s) \cup ToSet(t)
  <1>1. /\ s \o t \in Seq(S) /\ Len(s \o t) = Len(s) + Len(t)
        /\ Len(s) \in Nat /\ Len(t) \in Nat
        /\ DOMAIN s = 1..Len(s) /\ DOMAIN t = 1..Len(t)
        /\ \A i \in 1..Len(s) + Len(t) :
             (s \o t)[i] = IF i <= Len(s) THEN s[i] ELSE t[i - Len(s)]
    BY ConcatProperties, LenProperties
  <1> DEFINE u == s \o t
  <1> HIDE DEF u
  <1>3. /\ \A x : x \in ToSet(s) <=> \E i \in 1..Len(s) : s[i] = x
        /\ \A x : x \in ToSet(t) <=> \E i \in 1..Len(t) : t[i] = x
    BY Member
  <1>4. \A x : x \in ToSet(u) <=> \E i \in 1..Len(s) + Len(t) : u[i] = x
    BY <1>1, Member DEF u
  <1>5. \A i \in 1..Len(s) + Len(t) : u[i] = IF i <= Len(s) THEN s[i] ELSE t[i - Len(s)]
    BY <1>1 DEF u
  <1>6. \A x : x \in ToSet(u) <=> x \in ToSet(s) \/ x \in ToSet(t)
    <2> SUFFICES ASSUME NEW x PROVE x \in ToSet(u) <=> x \in ToSet(s) \/ x \in ToSet(t)
      OBVIOUS
    <2>1. CASE x \in ToSet(u)
      <3>1. PICK i \in 1..Len(s) + Len(t) : u[i] = x
        BY <2>1, <1>4
      <3>2. \/ i \in 1..Len(s) /\ s[i] = x
            \/ i - Len(s) \in 1..Len(t) /\ t[i - Len(s)] = x
        BY <3>1, <1>1, <1>5
      <3>3. QED
        BY <3>2, <1>3, <2>1
    <2>2. CASE x \in ToSet(s)
      <3>1. PICK i \in 1..Len(s) : s[i] = x
        BY <2>2, <1>3
      <3>2. i \in 1..Len(s) + Len(t) /\ u[i] = x
        BY <3>1, <1>1, <1>5
      <3>3. QED
        BY <3>2, <1>4, <2>2
    <2>3. CASE x \in ToSet(t)
      <3>1. PICK i \in 1..Len(t) : t[i] = x
        BY <2>3, <1>3
      <3>2. Len(s) + i \in 1..Len(s) + Len(t) /\ u[Len(s) + i] = x
        BY <3>1, <1>1, <1>5
      <3>3. QED
        BY <3>2, <1>4, <2>3
    <2>4. QED
      BY <2>1, <2>2, <2>3
  <1>7. ToSet(u) = ToSet(s) \cup ToSet(t)
    BY <1>6
  <1>8. QED
    BY <1>1, <1>7 DEF u

LEMMA AppendToList ==
  ASSUME NEW S, NEW s \in Seq(S), NEW x \in S
  PROVE  /\ Append(s, x) \in Seq(S) /\ Len(s) \in Nat /\ Len(Append(s, x)) = Len(s) + 1
         /\ \A i \in 1..Len(s) : Append(s, x)[i] = s[i]
         /\ Append(s, x)[Len(s) + 1] = x
         /\ ToSet(Append(s, x)) = ToSet(s) \cup {x}
  <1> DEFINE u == Append(s, x)
  <1>1. /\ u \in Seq(S) /\ Len(u) = Len(s) + 1 /\ Len(s) \in Nat
        /\ DOMAIN s = 1..Len(s) /\ DOMAIN u = 1..Len(s) + 1
        /\ \A i \in 1..Len(s) : u[i] = s[i]
        /\ u[Len(s) + 1] = x
    BY AppendProperties, LenProperties
  <1> HIDE DEF u
  <1>2. \A y : y \in ToSet(s) <=> \E i \in 1..Len(s) : s[i] = y
    BY Member
  <1>3. \A y : y \in ToSet(u) <=> \E i \in 1..Len(s) + 1 : u[i] = y
    BY <1>1, Member
  <1>4. \A y : y \in ToSet(u) <=> y \in ToSet(s) \/ y = x
    <2>1. \A i \in 1..Len(s) + 1 : i \in 1..Len(s) \/ i = Len(s) + 1
      BY <1>1
    <2>2. Len(s) + 1 \in 1..Len(s) + 1 /\ \A i \in 1..Len(s) : i \in 1..Len(s) + 1
      BY <1>1
    <2>3. QED
      BY <1>1, <1>2, <1>3, <2>1, <2>2, Zenon
  <1>5. QED
    BY <1>1, <1>4 DEF u

(* The references the graphs of the change are over.                       *)
Refs == DOMAIN Graph.same

LEMMA ChangedIsOver ==
  ASSUME change \in Changes
  PROVE  Changed(change) \subseteq Refs
  <1> DEFINE base == change.base.node
             candidate == Node
  <1>1. DOMAIN base \subseteq Refs /\ DOMAIN candidate \subseteq Refs
    BY ImpactAssumption DEF GraphOver, Refs, Graph, Node
  <1>2. \A ref, entry, op : EntityChange(ref, entry, op).ref = ref
    BY DEF EntityChange
  <1> HIDE DEF base, candidate
  <1>3. \A x \in EntityChanges(base, candidate) : x.ref \in Refs
    BY <1>1, <1>2 DEF EntityChanges
  <1>4. \A y \in ExpandUncertainty(EntityChanges(base, candidate), candidate) : y.ref \in Refs
    <2> SUFFICES ASSUME NEW y \in ExpandUncertainty(EntityChanges(base, candidate), candidate),
                        y \notin EntityChanges(base, candidate)
                 PROVE  y.ref \in Refs
      BY <1>3
    <2>1. PICK ref \in DOMAIN candidate :
            y = [EntityChange(ref, candidate[ref], "changed") EXCEPT
                   !.confidence = Weaker(@, 5), !.inferred = TRUE]
      BY DEF ExpandUncertainty
    <2>2. y.ref = ref
      BY <2>1 DEF EntityChange
    <2>3. QED
      BY <2>2, <1>1
  <1>5. Entities(change) = ExpandUncertainty(EntityChanges(base, candidate), candidate)
    BY DEF Entities, base, candidate, Node, Graph
  <1>6. QED
    BY <1>4, <1>5 DEF Changed

LEMMA GraphIsOver ==
  ASSUME change \in Changes
  PROVE  /\ IsFiniteSet(Refs) /\ DOMAIN Node \subseteq Refs
         /\ \A e \in Graph.edges : /\ e.from \in Refs /\ e.to \in Refs
                                   /\ e.confidence \in 0..10 /\ e.inferred \in BOOLEAN
         /\ \A ref \in Refs : Same(ref) \subseteq Refs
         /\ Seeds \subseteq Refs
  <1>1. IsFiniteSet(Refs) /\ GraphOver(Graph, Refs)
    BY ImpactAssumption DEF Refs, Graph
  <1>2. /\ DOMAIN Node \subseteq Refs
        /\ \A e \in Graph.edges : /\ e.from \in Refs /\ e.to \in Refs
                                  /\ e.confidence \in 0..10 /\ e.inferred \in BOOLEAN
        /\ \A ref \in Refs : Same(ref) \subseteq Refs
    BY <1>1 DEF GraphOver, Node, Same
  <1>3. Seeds \subseteq Refs
    BY <1>2, ChangedIsOver DEF Seeds
  <1>4. QED
    BY <1>1, <1>2, <1>3

-----------------------------------------------------------------------------
(* What is said of a reference explains it.                                *)
ExplainedAs(r, ref) ==
  /\ r.depth \in 1..MaxDepth /\ r.path \in Seq(Graph.edges) /\ Len(r.path) = r.depth
  /\ Way(r.path, ref)
  /\ Lowest(r.confidence, r.path)
  /\ r.inferred = \E i \in DOMAIN r.path : r.path[i].inferred

Root == [depth |-> 0, confidence |-> Certain, inferred |-> FALSE, path |-> <<>>]

Explained(ref) ==
  IF ref \in DOMAIN roots THEN reached[ref] = Root ELSE ExplainedAs(reached[ref], ref)

(* One edge more explains what it leads to.                                *)
LEMMA CandidateExplains ==
  ASSUME change \in Changes, current \in DOMAIN reached, Explained(current),
         reached[current].depth < MaxDepth, NEW e \in In(current),
         NEW ref, LeadsTo(e, ref)
  PROVE  /\ ExplainedAs(Candidate(e), ref)
         /\ Candidate(e).depth = reached[current].depth + 1
         /\ Candidate(e).confidence = Weaker(reached[current].confidence, e.confidence)
         /\ reached[current].depth \in Nat /\ reached[current].confidence \in 0..10
  <1> DEFINE r == reached[current]
             c == Candidate(e)
  <1>1. e \in Graph.edges /\ e.to = current /\ e.confidence \in 0..10 /\ e.inferred \in BOOLEAN
    BY GraphIsOver DEF In
  <1>2. /\ c.depth = r.depth + 1
        /\ c.confidence = Weaker(r.confidence, e.confidence)
        /\ c.inferred = (r.inferred \/ e.inferred)
        /\ c.path = Append(r.path, e)
    BY Zenon DEF Candidate
  <1>3. CASE current \in DOMAIN roots
    <2>1. r.depth = 0 /\ r.confidence = 10 /\ r.inferred = FALSE /\ r.path = <<>>
      BY <1>3 DEF Explained, Root, Certain
    <2> HIDE DEF r, c
    <2>2. c.path = Append(<<>>, e) /\ c.depth = 1 /\ c.confidence = e.confidence
      BY <1>1, <1>2, <2>1 DEF Weaker
    <2>3. /\ c.path \in Seq(Graph.edges) /\ Len(c.path) = 1
          /\ DOMAIN c.path = {1} /\ c.path[1] = e
      <3>1. <<>> \in Seq(Graph.edges) /\ Len(<<>>) = 0
        BY EmptySeq
      <3>2. c.path \in Seq(Graph.edges) /\ Len(c.path) = 1 /\ c.path[1] = e
        <4>1. /\ Append(<<>>, e) \in Seq(Graph.edges) /\ Len(Append(<<>>, e)) = Len(<<>>) + 1
              /\ Append(<<>>, e)[Len(<<>>) + 1] = e
          <5>1. PICK E : E = Graph.edges
            OBVIOUS
          <5>2. <<>> \in Seq(E) /\ e \in E
            BY <5>1, <3>1, <1>1
          <5>3. /\ Append(<<>>, e) \in Seq(E) /\ Len(Append(<<>>, e)) = Len(<<>>) + 1
                /\ Append(<<>>, e)[Len(<<>>) + 1] = e
            BY <5>2, AppendToList
          <5>4. QED
            BY <5>1, <5>3
        <4>2. QED
          BY <4>1, <3>1, <2>2
      <3>3. DOMAIN c.path = 1..1
        BY <3>2, LenProperties
      <3>4. QED
        BY <3>2, <3>3
    <2>4. Way(c.path, ref)
      BY <2>3, <1>1, <1>3 DEF Way
    <2>5. Lowest(c.confidence, c.path)
      BY <2>2, <2>3, <1>1 DEF Lowest, Certain
    <2>6. c.inferred = \E i \in DOMAIN c.path : c.path[i].inferred
      <3>1. c.inferred = e.inferred
        BY <1>1, <1>2, <2>1
      <3>2. QED
        BY <3>1, <2>3, <1>1
    <2>7. 1 \in 1..MaxDepth
      BY <2>1, ImpactAssumption DEF r
    <2>8. ExplainedAs(c, ref)
      BY <2>2, <2>3, <2>4, <2>5, <2>6, <2>7 DEF ExplainedAs
    <2>9. r.depth \in Nat /\ r.confidence \in 0..10
      BY <2>1
    <2>10. QED
      BY <1>2, <2>8, <2>9 DEF r, c
  <1>4. CASE current \notin DOMAIN roots
    <2>1. ExplainedAs(r, current)
      BY <1>4 DEF Explained
    <2>a. r.depth < MaxDepth
      OBVIOUS
    <2> HIDE DEF r, c
    <2> DEFINE n == r.depth
    <2>2. /\ n \in 1..MaxDepth /\ n < MaxDepth /\ r.path \in Seq(Graph.edges) /\ Len(r.path) = n
          /\ DOMAIN r.path = 1..n
      BY <2>1, <2>a, LenProperties DEF ExplainedAs
    <2>3. /\ c.path \in Seq(Graph.edges) /\ Len(c.path) = n + 1 /\ DOMAIN c.path = 1..n + 1
          /\ \A i \in 1..n : c.path[i] = r.path[i]
          /\ c.path[n + 1] = e
      <3>1. /\ c.path \in Seq(Graph.edges) /\ Len(c.path) = n + 1
            /\ \A i \in 1..n : c.path[i] = r.path[i]
            /\ c.path[n + 1] = e
        <4> DEFINE q == r.path
        <4>1. /\ Append(q, e) \in Seq(Graph.edges) /\ Len(Append(q, e)) = Len(q) + 1
              /\ \A i \in 1..Len(q) : Append(q, e)[i] = q[i]
              /\ Append(q, e)[Len(q) + 1] = e
          <5>1. q \in Seq(Graph.edges) /\ e \in Graph.edges
            BY <1>1, <2>2
          <5> HIDE DEF q
          <5>2. QED
            BY <5>1, AppendToList
        <4>2. c.path = Append(q, e) /\ Len(q) = n
          BY <1>2, <2>2
        <4> HIDE DEF q
        <4>3. /\ c.path \in Seq(Graph.edges) /\ Len(c.path) = n + 1
              /\ \A i \in 1..n : c.path[i] = q[i]
              /\ c.path[n + 1] = e
          BY <4>1, <4>2
        <4>4. QED
          BY <4>3 DEF q
      <3>2. QED
        BY <3>1, LenProperties
    <2>4. Way(c.path, ref)
      <3>1. c.path[1].to \in DOMAIN roots
        BY <2>1, <2>2, <2>3 DEF ExplainedAs, Way
      <3>2. ASSUME NEW i \in 1..n PROVE LeadsTo(c.path[i], c.path[i + 1].to)
        <4>1. CASE i = n
          BY <4>1, <2>1, <2>2, <2>3, <1>1 DEF ExplainedAs, Way
        <4>2. CASE i # n
          <5>1. i \in 1..n - 1 /\ i + 1 \in 1..n
            BY <4>2, <2>2
          <5>2. LeadsTo(r.path[i], r.path[i + 1].to)
            BY <5>1, <2>1, <2>2 DEF ExplainedAs, Way
          <5>3. QED
            BY <5>1, <5>2, <2>3
        <4>3. QED
          BY <4>1, <4>2
      <3>3. QED
        BY <3>1, <3>2, <2>2, <2>3 DEF Way
    <2>5. Lowest(c.confidence, c.path) /\ r.confidence \in 0..10
      <3>1. r.confidence \in {10} \cup {r.path[i].confidence : i \in 1..n}
        BY <2>1, <2>2 DEF ExplainedAs, Lowest, Certain
      <3>2. r.confidence <= 10 /\ \A i \in 1..n : r.confidence <= r.path[i].confidence
        BY <2>1, <2>2 DEF ExplainedAs, Lowest, Certain
      <3>3. \A i \in 1..n : r.path[i].confidence \in 0..10
        BY <2>2, GraphIsOver
      <3>4. r.confidence \in 0..10
        BY <3>1, <3>3
      <3>5. \A i \in 1..n + 1 : i \in 1..n \/ i = n + 1
        BY <2>2
      <3>6. c.confidence \in {10} \cup {c.path[i].confidence : i \in 1..n + 1}
        <4>1. CASE c.confidence = e.confidence
          <5>1. n + 1 \in 1..n + 1 /\ c.path[n + 1].confidence = c.confidence
            BY <4>1, <2>2, <2>3
          <5>2. QED
            BY <5>1
        <4>2. CASE c.confidence = r.confidence /\ r.confidence # 10
          <5>1. PICK i \in 1..n : r.confidence = r.path[i].confidence
            BY <4>2, <3>1
          <5>2. i \in 1..n + 1 /\ c.path[i].confidence = c.confidence
            BY <5>1, <4>2, <2>2, <2>3
          <5>3. QED
            BY <5>2
        <4>3. CASE c.confidence = 10
          BY <4>3
        <4>4. QED
          BY <4>1, <4>2, <4>3, <1>2 DEF Weaker
      <3>7. /\ c.confidence <= 10
            /\ \A i \in 1..n + 1 : c.confidence <= c.path[i].confidence
        <4>1. c.confidence <= r.confidence /\ c.confidence <= e.confidence /\ c.confidence \in 0..10
          BY <1>1, <1>2, <3>4 DEF Weaker
        <4>2. ASSUME NEW i \in 1..n + 1 PROVE c.confidence <= c.path[i].confidence
          <5>1. CASE i = n + 1
            BY <5>1, <4>1, <2>3
          <5>2. CASE i \in 1..n
            <6>1. /\ c.path[i] = r.path[i] /\ r.confidence <= r.path[i].confidence
                  /\ r.path[i].confidence \in 0..10
              BY <5>2, <3>2, <3>3, <2>3
            <6>2. QED
              BY <6>1, <4>1, <3>4
          <5>3. QED
            BY <5>1, <5>2, <3>5
        <4>3. QED
          BY <4>1, <4>2
      <3>8. QED
        BY <3>4, <3>6, <3>7, <2>3 DEF Lowest, Certain
    <2>6. c.inferred = \E i \in DOMAIN c.path : c.path[i].inferred
      <3>1. r.inferred = \E i \in 1..n : r.path[i].inferred
        BY <2>1, <2>2 DEF ExplainedAs
      <3>2. (\E i \in 1..n + 1 : c.path[i].inferred) <=> (\E i \in 1..n : r.path[i].inferred) \/ e.inferred
        <4>1. \A i \in 1..n + 1 : i \in 1..n \/ i = n + 1
          BY <2>2
        <4>2. n + 1 \in 1..n + 1 /\ \A i \in 1..n : i \in 1..n + 1
          BY <2>2
        <4>3. QED
          BY <4>1, <4>2, <2>3, Zenon
      <3>3. QED
        BY <3>1, <3>2, <1>2, <2>3, Zenon
    <2>7. c.depth \in 1..MaxDepth /\ Len(c.path) = c.depth /\ r.depth \in Nat
      BY <1>2, <2>2, <2>3, ImpactAssumption
    <2>8. ExplainedAs(c, ref)
      BY <2>3, <2>4, <2>5, <2>6, <2>7 DEF ExplainedAs
    <2>9. QED
      BY <1>2, <2>5, <2>7, <2>8 DEF r, c
  <1>5. QED
    BY <1>3, <1>4

-----------------------------------------------------------------------------
(* What holds while the dependents of the change are sought.               *)
Begun ==
  /\ change \in Changes /\ DOMAIN roots \subseteq Refs /\ Seeds \subseteq DOMAIN roots
  /\ phase \in {"forward", "reverse", "effects", "done"}
  /\ phase = "forward" => queue \in Seq(Refs) /\ ToSet(queue) \subseteq DOMAIN roots /\ work = {}

Explains ==
  phase # "forward" =>
    /\ DOMAIN roots \subseteq DOMAIN reached /\ DOMAIN reached \subseteq Refs
    /\ \A ref \in DOMAIN reached : Explained(ref)

(* An edge has been looked at and what is known of its source is no worse. *)
Explored(e) ==
  /\ e.from \in DOMAIN reached
  /\ \/ reached[e.from].depth <= reached[e.to].depth
     \/ /\ reached[e.from].depth = reached[e.to].depth + 1
        /\ reached[e.from].confidence >= Weaker(reached[e.to].confidence, e.confidence)

(* What is reached is still listed or its edges have been looked at.       *)
OnTheList ==
  phase = "reverse" =>
    /\ queue \in Seq(Refs) /\ ToSet(queue) \subseteq DOMAIN reached
    /\ work # {} => /\ current \in DOMAIN reached /\ reached[current].depth < MaxDepth
                    /\ work \subseteq In(current)
    /\ \A ref \in DOMAIN reached :
         reached[ref].depth < MaxDepth =>
           \/ ref \in ToSet(queue)
           \/ \A e \in In(ref) : Explored(e) \/ (ref = current /\ e \in work)

Finished ==
  phase \in {"effects", "done"} =>
    \A ref \in DOMAIN reached :
      reached[ref].depth < MaxDepth => \A e \in In(ref) : Explored(e)

Reaching == Begun /\ Explains /\ OnTheList /\ Finished

LEMMA SameGraph ==
  ASSUME change' = change
  PROVE  /\ Graph' = Graph /\ Refs' = Refs /\ Seeds' = Seeds
         /\ \A ref : In(ref)' = In(ref) /\ Out(ref)' = Out(ref)
         /\ \A ref : Same(ref)' = Same(ref) /\ Kind(ref)' = Kind(ref)
         /\ \A e, ref : LeadsTo(e, ref)' = LeadsTo(e, ref)
  <1>1. Graph' = Graph
    BY DEF Graph
  <1>2. Node' = Node
    BY <1>1 DEF Node
  <1>3. Refs' = Refs
    BY <1>1 DEF Refs
  <1>4. Changed(change)' = Changed(change)
    BY DEF Changed, Entities
  <1>5. \A ref : Same(ref)' = Same(ref)
    BY <1>1 DEF Same
  <1>6. Seeds' = Seeds
    BY <1>4, <1>1 DEF Seeds, Same
  <1>7. \A ref : In(ref)' = In(ref) /\ Out(ref)' = Out(ref)
    BY <1>1 DEF In, Out
  <1>8. \A ref : Kind(ref)' = Kind(ref)
    BY <1>2 DEF Kind
  <1>9. \A e, ref : LeadsTo(e, ref)' = LeadsTo(e, ref)
    BY <1>5 DEF LeadsTo
  <1>10. QED
    BY <1>1, <1>3, <1>5, <1>6, <1>7, <1>8, <1>9

LEMMA SameExplanation ==
  ASSUME change' = change, roots' = roots
  PROVE  \A r, ref : ExplainedAs(r, ref)' = ExplainedAs(r, ref)
  <1>1. \A path, ref : Way(path, ref)' = Way(path, ref)
    BY SameGraph DEF Way
  <1>2. Graph' = Graph
    BY SameGraph
  <1>3. QED
    BY <1>1, <1>2 DEF ExplainedAs, Lowest

LEMMA ReachingInit == ASSUME ImpactInit PROVE Reaching
  <1> USE DEF ImpactInit
  <1>1. DOMAIN roots = Seeds /\ Seeds \subseteq Refs /\ IsFiniteSet(Refs)
    BY GraphIsOver
  <1>2. queue \in Seq(Seeds) /\ ToSet(queue) = Seeds
    BY <1>1, FS_Subset, ListOfSet
  <1>3. queue \in Seq(Refs)
    BY <1>1, <1>2, SeqMonotonic
  <1>4. QED
    BY <1>1, <1>2, <1>3 DEF Reaching, Begun, Explains, OnTheList, Finished

LEMMA ReachingForward == ASSUME Reaching, Forward PROVE Reaching'
  <1>1. /\ phase = "forward" /\ phase' = "forward" /\ queue # <<>>
        /\ change' = change /\ work' = work
    BY DEF Forward, Reaching, Begun
  <1>2. Begun'
    <2> DEFINE ref == Head(queue)
               targets == {e.to : e \in {f \in Out(ref) : /\ f.type = "handled_by"
                                                          /\ roots[ref] < MaxDepth}} \ DOMAIN roots
    <2>1. targets \subseteq Refs /\ IsFiniteSet(targets)
      <3>1. targets \subseteq Refs
        BY GraphIsOver DEF Out, Reaching, Begun
      <3>2. QED
        BY <3>1, GraphIsOver, FS_Subset DEF Reaching, Begun
    <2>2. SetToSeq(targets) \in Seq(Refs) /\ ToSet(SetToSeq(targets)) = targets
      <3> HIDE DEF targets
      <3>1. SetToSeq(targets) \in Seq(targets) /\ ToSet(SetToSeq(targets)) = targets
        BY <2>1, ListOfSet
      <3>2. QED
        BY <3>1, <2>1, SeqMonotonic
    <2>3. Tail(queue) \in Seq(Refs) /\ ToSet(Tail(queue)) \subseteq DOMAIN roots
      <3>1. queue \in Seq(Refs) /\ ToSet(queue) \subseteq DOMAIN roots
        BY <1>1 DEF Reaching, Begun
      <3>2. QED
        BY <3>1, <1>1, HeadOfList
    <2>4. DOMAIN roots' = DOMAIN roots \cup targets
      BY DEF Forward
    <2>5. queue' = Tail(queue) \o SetToSeq(targets)
      BY DEF Forward
    <2> HIDE DEF targets
    <2>6. queue' \in Seq(Refs) /\ ToSet(queue') = ToSet(Tail(queue)) \cup targets
      <3>1. PICK s, t : s = Tail(queue) /\ t = SetToSeq(targets)
        OBVIOUS
      <3>2. s \in Seq(Refs) /\ t \in Seq(Refs) /\ ToSet(t) = targets /\ queue' = s \o t
        BY <3>1, <2>2, <2>3, <2>5
      <3>3. s \o t \in Seq(Refs) /\ ToSet(s \o t) = ToSet(s) \cup ToSet(t)
        BY <3>2, JoinOfLists
      <3>4. QED
        BY <3>1, <3>2, <3>3
    <2>7. Refs' = Refs /\ Seeds' = Seeds
      BY <1>1, SameGraph
    <2>8. QED
      BY <1>1, <2>1, <2>3, <2>4, <2>6, <2>7 DEF Reaching, Begun
  <1>3. QED
    BY <1>1, <1>2 DEF Reaching, Explains, OnTheList, Finished

LEMMA ReachingTurnBack == ASSUME Reaching, TurnBack PROVE Reaching'
  <1>1. /\ phase = "forward" /\ phase' = "reverse" /\ change' = change /\ roots' = roots
        /\ work' = work /\ work = {} /\ queue' = SetToSeq(DOMAIN roots)
        /\ reached' = [ref \in DOMAIN roots |-> Root]
    BY DEF TurnBack, Reaching, Begun, Root
  <1>2. Refs' = Refs /\ Seeds' = Seeds
    BY <1>1, SameGraph
  <1>3. queue' \in Seq(Refs) /\ ToSet(queue') = DOMAIN roots
    <2>1. DOMAIN roots \subseteq Refs /\ IsFiniteSet(DOMAIN roots)
      BY GraphIsOver, FS_Subset DEF Reaching, Begun
    <2>2. queue' \in Seq(DOMAIN roots) /\ ToSet(queue') = DOMAIN roots
      BY <2>1, <1>1, ListOfSet
    <2>3. QED
      BY <2>1, <2>2, SeqMonotonic
  <1>4. Begun'
    BY <1>1, <1>2 DEF Reaching, Begun
  <1>5. Explains'
    BY <1>1, <1>2, <1>4 DEF Explains, Begun, Explained
  <1>6. OnTheList'
    BY <1>1, <1>2, <1>3 DEF OnTheList
  <1>7. QED
    BY <1>1, <1>4, <1>5, <1>6 DEF Reaching, Finished

LEMMA ReachingDequeue == ASSUME Reaching, Dequeue PROVE Reaching'
  <1>1. /\ phase = "reverse" /\ phase' = phase /\ change' = change /\ roots' = roots
        /\ reached' = reached /\ work = {} /\ queue # <<>>
        /\ current' = Head(queue) /\ queue' = Tail(queue)
        /\ work' = IF reached[current'].depth < MaxDepth THEN In(current') ELSE {}
    BY DEF Dequeue
  <1>2. /\ Refs' = Refs /\ Seeds' = Seeds /\ \A ref : In(ref)' = In(ref)
        /\ \A r, ref : ExplainedAs(r, ref)' = ExplainedAs(r, ref)
    BY <1>1, SameGraph, SameExplanation
  <1>3. /\ queue' \in Seq(Refs) /\ current' \in Refs
        /\ ToSet(queue) = {current'} \cup ToSet(queue')
    BY <1>1, HeadOfList DEF Reaching, OnTheList
  <1>4. Begun' /\ Explains'
    BY <1>1, <1>2 DEF Reaching, Begun, Explains, Explained
  <1>5. OnTheList'
    <2>1. ToSet(queue') \subseteq DOMAIN reached /\ current' \in DOMAIN reached
      BY <1>1, <1>3 DEF Reaching, OnTheList
    <2>2. ASSUME NEW ref \in DOMAIN reached, reached[ref].depth < MaxDepth
          PROVE  \/ ref \in ToSet(queue')
                 \/ \A e \in In(ref) : Explored(e)' \/ (ref = current' /\ e \in work')
      <3>1. \A e : Explored(e)' = Explored(e)
        BY <1>1 DEF Explored
      <3>2. CASE ref \in ToSet(queue')
        BY <3>2
      <3>3. CASE ref = current'
        BY <3>3, <2>2, <1>1
      <3>4. CASE ref \notin ToSet(queue)
        BY <3>4, <3>1, <2>2, <1>1 DEF Reaching, OnTheList
      <3>5. QED
        BY <3>2, <3>3, <3>4, <1>3
    <2>3. work' # {} => reached[current'].depth < MaxDepth /\ work' \subseteq In(current')
      BY <1>1
    <2>4. QED
      BY <1>1, <1>2, <1>3, <2>1, <2>2, <2>3 DEF OnTheList
  <1>6. QED
    BY <1>1, <1>4, <1>5 DEF Reaching, Finished

LEMMA Measured ==
  ASSUME Reaching, phase # "forward"
  PROVE  \A ref \in DOMAIN reached : /\ reached[ref].depth \in Nat
                                     /\ reached[ref].confidence \in 0..10
  <1> SUFFICES ASSUME NEW ref \in DOMAIN reached
               PROVE  reached[ref].depth \in Nat /\ reached[ref].confidence \in 0..10
    OBVIOUS
  <1>1. Explained(ref) /\ change \in Changes
    BY DEF Reaching, Begun, Explains
  <1>2. CASE ref \in DOMAIN roots
    BY <1>1, <1>2 DEF Explained, Root, Certain
  <1>3. CASE ref \notin DOMAIN roots
    <2>1. ExplainedAs(reached[ref], ref)
      BY <1>1, <1>3 DEF Explained
    <2> DEFINE path == reached[ref].path
    <2>2. path \in Seq(Graph.edges) /\ Lowest(reached[ref].confidence, path)
          /\ reached[ref].depth \in Nat
      BY <2>1 DEF ExplainedAs
    <2> HIDE DEF path
    <2>3. \A i \in DOMAIN path : path[i].confidence \in 0..10
      <3>1. \A i \in DOMAIN path : path[i] \in Graph.edges
        BY <2>2, LenProperties, ElementOfSeq
      <3>2. QED
        BY <1>1, <3>1, GraphIsOver
    <2>4. QED
      BY <2>2, <2>3 DEF Lowest, Certain
  <1>4. QED
    BY <1>2, <1>3

(* What Relax learns: its candidate explains whatever it is written to.    *)
LEMMA Relaxed ==
  ASSUME Reaching, NEW e \in work, Relax(e), ~ KnownBetter(e)
  PROVE  LET new == Same(e.from) \ (DOMAIN reached \cup {e.from}) IN
         /\ e \in Graph.edges /\ e.to = current /\ current \in DOMAIN reached
         /\ {e.from} \cup new \subseteq Refs
         /\ ({e.from} \cup new) \cap (DOMAIN roots \cup {current}) = {}
         /\ DOMAIN reached' = DOMAIN reached \cup {e.from} \cup new
         /\ \A ref \in DOMAIN reached' :
              reached'[ref] = IF ref \in {e.from} \cup new THEN Candidate(e) ELSE reached[ref]
         /\ \A ref \in {e.from} \cup new : ExplainedAs(Candidate(e), ref)
         /\ queue' \in Seq(Refs) /\ ToSet(queue') = ToSet(queue) \cup {e.from} \cup new
         /\ Candidate(e).depth = reached[current].depth + 1
         /\ Candidate(e).confidence = Weaker(reached[current].confidence, e.confidence)
         /\ reached[current].depth \in Nat /\ Candidate(e).confidence \in 0..10
  <1> DEFINE new == Same(e.from) \ (DOMAIN reached \cup {e.from})
             upd == {e.from} \cup new
             c == Candidate(e)
  <1>1. /\ phase = "reverse" /\ e \in In(current) /\ current \in DOMAIN reached
        /\ reached[current].depth < MaxDepth /\ change \in Changes
        /\ DOMAIN roots \subseteq DOMAIN reached /\ DOMAIN reached \subseteq Refs
        /\ Explained(current) /\ queue \in Seq(Refs)
    BY DEF Reaching, Begun, Explains, OnTheList, Relax
  <1>2. /\ e \in Graph.edges /\ e.to = current /\ e.from \in Refs /\ e.confidence \in 0..10
    BY <1>1, GraphIsOver DEF In
  <1>3. new \subseteq Refs /\ IsFiniteSet(new)
    BY <1>1, <1>2, GraphIsOver, FS_Subset
  <1>4. LeadsTo(e, e.from) /\ \A ref \in new : LeadsTo(e, ref)
    BY DEF LeadsTo
  <1>5. \A ref \in upd : ExplainedAs(c, ref)
    BY <1>1, <1>4, CandidateExplains
  <1>6. /\ c.depth = reached[current].depth + 1
        /\ c.confidence = Weaker(reached[current].confidence, e.confidence)
        /\ reached[current].depth \in Nat /\ reached[current].confidence \in 0..10
    BY <1>1, <1>4, CandidateExplains
  <1>7. c.confidence \in 0..10
    BY <1>2, <1>6 DEF Weaker
  <1>8. /\ reached' = [ref \in DOMAIN reached \cup upd |-> IF ref \in upd THEN c ELSE reached[ref]]
        /\ queue' = Append(queue, e.from) \o SetToSeq(new)
    BY Zenon DEF Relax
  <1>9. e.from \notin DOMAIN roots \cup {current}
    <2>1. CASE e.from = current
      <3>1. reached[e.from].depth < c.depth
        BY <2>1, <1>6
      <3>2. QED
        BY <3>1, <2>1, <1>1 DEF KnownBetter
    <2>2. CASE e.from \in DOMAIN roots
      <3>1. Explained(e.from)
        BY <2>2, <1>1 DEF Reaching, Explains
      <3>2. reached[e.from].depth < c.depth
        BY <2>2, <3>1, <1>6 DEF Explained, Root
      <3>3. QED
        BY <3>2, <2>2, <1>1 DEF KnownBetter
    <2>3. QED
      BY <2>1, <2>2
  <1>10. upd \cap (DOMAIN roots \cup {current}) = {}
    BY <1>1, <1>9
  <1>11. queue' \in Seq(Refs) /\ ToSet(queue') = ToSet(queue) \cup {e.from} \cup new
    <2> HIDE DEF new
    <2>1. SetToSeq(new) \in Seq(new) /\ ToSet(SetToSeq(new)) = new
      BY <1>3, ListOfSet
    <2>2. PICK s, t : s = Append(queue, e.from) /\ t = SetToSeq(new)
      OBVIOUS
    <2>3. s \in Seq(Refs) /\ ToSet(s) = ToSet(queue) \cup {e.from}
      BY <2>2, <1>1, <1>2, AppendToList
    <2>4. t \in Seq(Refs) /\ ToSet(t) = new
      BY <2>1, <2>2, <1>3, SeqMonotonic
    <2>5. s \o t \in Seq(Refs) /\ ToSet(s \o t) = ToSet(s) \cup ToSet(t)
      BY <2>3, <2>4, JoinOfLists
    <2>6. queue' = s \o t
      BY <2>2, <1>8
    <2>7. QED
      BY <2>3, <2>4, <2>5, <2>6
  <1> HIDE DEF c, new
  <1>12. /\ DOMAIN reached' = DOMAIN reached \cup {e.from} \cup new
         /\ \A ref \in DOMAIN reached' :
              reached'[ref] = IF ref \in {e.from} \cup new THEN c ELSE reached[ref]
    BY <1>8
  <1>13. {e.from} \cup new \subseteq Refs
    BY <1>2, <1>3
  <1>14. QED
    BY <1>1, <1>2, <1>5, <1>6, <1>7, <1>10, <1>11, <1>12, <1>13 DEF c, new

LEMMA ReachingRelax == ASSUME Reaching, NEW e \in work, Relax(e) PROVE Reaching'
  <1>1. /\ phase = "reverse" /\ phase' = phase /\ change' = change /\ roots' = roots
        /\ current' = current /\ work' = work \ {e}
    BY DEF Relax
  <1>2. /\ Refs' = Refs /\ Seeds' = Seeds /\ \A ref : In(ref)' = In(ref)
        /\ \A r, ref : ExplainedAs(r, ref)' = ExplainedAs(r, ref)
    BY <1>1, SameGraph, SameExplanation
  <1>3. /\ current \in DOMAIN reached /\ reached[current].depth < MaxDepth
        /\ work \subseteq In(current) /\ queue \in Seq(Refs)
        /\ DOMAIN roots \subseteq DOMAIN reached /\ DOMAIN reached \subseteq Refs
        /\ ToSet(queue) \subseteq DOMAIN reached
    BY <1>1 DEF Reaching, Begun, Explains, OnTheList
  <1>4. Begun'
    BY <1>1, <1>2 DEF Reaching, Begun
  <1>5. Finished'
    BY <1>1 DEF Finished
  <1>6. CASE KnownBetter(e)
    <2>1. reached' = reached /\ queue' = queue
      BY <1>6 DEF Relax
    <2>2. Explains'
      BY <1>1, <1>2, <2>1 DEF Reaching, Explains, Explained
    <2>3. Explored(e)
      <3>1. e.to = current
        BY <1>3 DEF In
      <3>2. /\ Candidate(e).depth = reached[current].depth + 1
            /\ Candidate(e).confidence = Weaker(reached[current].confidence, e.confidence)
            /\ reached[current].depth \in Nat
        <4>1. change \in Changes /\ Explained(current) /\ LeadsTo(e, e.from) /\ e \in In(current)
          BY <1>1, <1>3 DEF Reaching, Begun, Explains, LeadsTo
        <4>2. QED
          BY <4>1, <1>3, CandidateExplains
      <3>3. e.from \in DOMAIN reached /\ reached[e.from].depth \in Nat
        <4>1. e.from \in DOMAIN reached
          BY <1>6 DEF KnownBetter
        <4>2. QED
          BY <4>1, <1>1, Measured
      <3>4. QED
        BY <1>6, <3>1, <3>2, <3>3 DEF KnownBetter, Explored
    <2>4. \A f : Explored(f)' = Explored(f)
      BY <2>1 DEF Explored
    <2>5. ASSUME NEW ref \in DOMAIN reached, reached[ref].depth < MaxDepth
          PROVE  \/ ref \in ToSet(queue)
                 \/ \A f \in In(ref) : Explored(f) \/ (ref = current /\ f \in work')
      <3>1. \/ ref \in ToSet(queue)
            \/ \A f \in In(ref) : Explored(f) \/ (ref = current /\ f \in work)
        BY <2>5, <1>1 DEF Reaching, OnTheList
      <3>2. \A f \in work : f = e \/ f \in work'
        BY <1>1
      <3>3. QED
        BY <3>1, <3>2, <2>3
    <2>6. OnTheList'
      BY <1>1, <1>2, <1>3, <2>1, <2>4, <2>5 DEF OnTheList
    <2>7. QED
      BY <1>4, <1>5, <2>2, <2>6 DEF Reaching
  <1>7. CASE ~ KnownBetter(e)
    <2> DEFINE new == Same(e.from) \ (DOMAIN reached \cup {e.from})
               upd == {e.from} \cup new
               c == Candidate(e)
    <2>1. /\ e \in Graph.edges /\ e.to = current
          /\ upd \subseteq Refs
          /\ upd \cap (DOMAIN roots \cup {current}) = {}
          /\ DOMAIN reached' = DOMAIN reached \cup upd
          /\ \A ref \in DOMAIN reached' : reached'[ref] = IF ref \in upd THEN c ELSE reached[ref]
          /\ \A ref \in upd : ExplainedAs(c, ref)
          /\ queue' \in Seq(Refs) /\ ToSet(queue') = ToSet(queue) \cup upd
          /\ c.depth = reached[current].depth + 1
          /\ c.confidence = Weaker(reached[current].confidence, e.confidence)
          /\ reached[current].depth \in Nat /\ c.confidence \in 0..10
      BY <1>7, Relaxed
    <2>2. new \cap DOMAIN reached = {} /\ e.from \in upd /\ \A ref \in upd : ref = e.from \/ ref \in new
      OBVIOUS
    <2>3. e.from \in DOMAIN reached =>
            ~ (\/ reached[e.from].depth < c.depth
               \/ reached[e.from].depth = c.depth /\ reached[e.from].confidence >= c.confidence)
      BY <1>7 DEF KnownBetter
    <2>4. \A ref \in DOMAIN reached : /\ reached[ref].depth \in Nat
                                      /\ reached[ref].confidence \in 0..10
      BY <1>1, Measured
    <2> HIDE DEF c, new
    <2>5. Explains'
      <3>1. \A ref \in DOMAIN reached' : IF ref \in DOMAIN roots THEN reached'[ref] = Root
                                         ELSE ExplainedAs(reached'[ref], ref)
        <4> SUFFICES ASSUME NEW ref \in DOMAIN reached'
                     PROVE  IF ref \in DOMAIN roots THEN reached'[ref] = Root
                            ELSE ExplainedAs(reached'[ref], ref)
          OBVIOUS
        <4>1. CASE ref \in upd
          BY <4>1, <2>1
        <4>2. CASE ref \notin upd
          <5>1. ref \in DOMAIN reached /\ reached'[ref] = reached[ref]
            BY <4>2, <2>1
          <5>2. Explained(ref)
            BY <5>1, <1>1 DEF Reaching, Explains
          <5>3. QED
            BY <5>1, <5>2 DEF Explained
        <4>3. QED
          BY <4>1, <4>2
      <3>2. Root' = Root
        BY DEF Root
      <3>3. \A ref \in DOMAIN reached' : Explained(ref)'
        BY <3>1, <3>2, <1>1, <1>2 DEF Explained
      <3>4. QED
        BY <3>3, <2>1, <1>1, <1>2, <1>3 DEF Explains
    <2>6. ASSUME NEW f, Explored(f), f.to \in DOMAIN reached, f.to \notin upd,
                 f.confidence \in 0..10
          PROVE  Explored(f)'
      <3>1. reached'[f.to] = reached[f.to] /\ f.from \in DOMAIN reached /\ f.from \in DOMAIN reached'
        BY <2>1, <2>6 DEF Explored
      <3>2. CASE f.from \notin upd
        <4>1. reached'[f.from] = reached[f.from]
          BY <3>1, <3>2, <2>1
        <4>2. QED
          BY <3>1, <4>1, <2>6 DEF Explored
      <3>3. CASE f.from \in upd
        <4>1. f.from = e.from
          BY <3>1, <3>3, <2>2
        <4>2. reached'[f.from] = c
          BY <3>1, <3>3, <2>1
        <4>3. c.depth \in Nat
          BY <2>1
        <4>4. \/ c.depth < reached[f.from].depth
              \/ c.depth = reached[f.from].depth /\ c.confidence > reached[f.from].confidence
          <5>1. PICK known : known = reached[e.from]
            OBVIOUS
          <5>2. /\ known.depth \in Nat /\ known.confidence \in 0..10
                /\ ~ (known.depth < c.depth \/ (known.depth = c.depth /\ known.confidence >= c.confidence))
            BY <5>1, <4>1, <3>1, <2>3, <2>4
          <5>3. c.confidence \in 0..10
            BY <2>1
          <5>4. \/ c.depth < known.depth
                \/ c.depth = known.depth /\ c.confidence > known.confidence
            BY <5>2, <5>3, <4>3
          <5>5. QED
            BY <5>1, <5>4, <4>1
        <4>5. Weaker(reached[f.to].confidence, f.confidence) \in 0..10
          BY <2>4, <2>6 DEF Weaker
        <4>6. reached[f.from].depth \in Nat /\ reached[f.to].depth \in Nat
              /\ reached[f.from].confidence \in 0..10
          BY <3>1, <2>4, <2>6
        <4>7. \/ c.depth <= reached[f.to].depth
              \/ /\ c.depth = reached[f.to].depth + 1
                 /\ c.confidence >= Weaker(reached[f.to].confidence, f.confidence)
          <5>1. PICK d, k, n, w : /\ d = reached[f.from].depth /\ k = reached[f.from].confidence
                                  /\ n = reached[f.to].depth
                                  /\ w = Weaker(reached[f.to].confidence, f.confidence)
            OBVIOUS
          <5>2. d <= n \/ (d = n + 1 /\ k >= w)
            BY <5>1, <2>6 DEF Explored
          <5>3. c.depth < d \/ (c.depth = d /\ c.confidence > k)
            BY <5>1, <4>4
          <5>4. d \in Nat /\ k \in 0..10 /\ n \in Nat /\ w \in 0..10 /\ c.depth \in Nat
                /\ c.confidence \in 0..10
            BY <5>1, <4>3, <4>5, <4>6, <2>1
          <5>5. c.depth <= n \/ (c.depth = n + 1 /\ c.confidence >= w)
            BY <5>2, <5>3, <5>4
          <5>6. QED
            BY <5>1, <5>5
        <4>8. QED
          BY <3>1, <4>2, <4>7 DEF Explored
      <3>4. QED
        BY <3>2, <3>3
    <2>7. Explored(e)'
      <3>1. /\ e.from \in DOMAIN reached' /\ reached'[e.from] = c
            /\ reached'[current] = reached[current]
        BY <2>1, <2>2, <1>3
      <3>2. c.confidence >= Weaker(reached[current].confidence, e.confidence)
        BY <2>1
      <3>3. QED
        BY <3>1, <3>2, <2>1 DEF Explored
    <2>8. ASSUME NEW ref \in DOMAIN reached', reached'[ref].depth < MaxDepth
          PROVE  \/ ref \in ToSet(queue')
                 \/ \A f \in In(ref) : Explored(f)' \/ (ref = current /\ f \in work')
      <3>1. CASE ref \in upd \/ ref \in ToSet(queue)
        BY <3>1, <2>1
      <3>2. CASE ref \notin upd /\ ref \notin ToSet(queue)
        <4>1. ref \in DOMAIN reached /\ reached'[ref] = reached[ref]
          BY <3>2, <2>1
        <4>2. \A f \in In(ref) : Explored(f) \/ (ref = current /\ f \in work)
          BY <4>1, <3>2, <2>8, <1>1 DEF Reaching, OnTheList
        <4>3. \A f \in In(ref) : f.to = ref /\ f.confidence \in 0..10
          BY GraphIsOver DEF In, Reaching, Begun
        <4>4. \A f \in work : f = e \/ f \in work'
          BY <1>1
        <4>5. ASSUME NEW f \in In(ref) PROVE Explored(f)' \/ (ref = current /\ f \in work')
          <5>1. CASE Explored(f)
            BY <5>1, <4>1, <4>3, <3>2, <2>6
          <5>2. CASE ref = current /\ f \in work
            BY <5>2, <4>4, <2>7
          <5>3. QED
            BY <5>1, <5>2, <4>2
        <4>6. QED
          BY <4>5
      <3>3. QED
        BY <3>1, <3>2
    <2>9. OnTheList'
      <3>1. ToSet(queue') \subseteq DOMAIN reached'
        BY <2>1, <1>3
      <3>2. current \in DOMAIN reached' /\ reached'[current].depth < MaxDepth
        BY <2>1, <1>3
      <3>3. work' \subseteq In(current)
        BY <1>1, <1>3
      <3>4. queue' \in Seq(Refs)
        BY <2>1
      <3>5. QED
        BY <3>1, <3>2, <3>3, <3>4, <2>8, <1>1, <1>2 DEF OnTheList
    <2>10. QED
      BY <1>4, <1>5, <2>5, <2>9 DEF Reaching
  <1>8. QED
    BY <1>6, <1>7

LEMMA ReachingStep == ASSUME Reaching, [ImpactNext]_impactVars PROVE Reaching'
  <1>1. ASSUME change' = change, roots' = roots, reached' = reached,
               phase # "forward", phase' \in {"effects", "done"},
               phase' # "done" => phase \in {"reverse", "effects"} /\ (phase = "reverse" => work = {} /\ queue = <<>>),
               phase' = "done" => phase \in {"effects", "done"}
        PROVE  Reaching'
    <2>1. /\ Refs' = Refs /\ Seeds' = Seeds /\ \A ref : In(ref)' = In(ref)
          /\ \A r, ref : ExplainedAs(r, ref)' = ExplainedAs(r, ref)
      BY <1>1, SameGraph, SameExplanation
    <2>2. Begun' /\ Explains' /\ OnTheList'
      BY <1>1, <2>1 DEF Reaching, Begun, Explains, OnTheList, Explained
    <2>3. \A e : Explored(e)' = Explored(e)
      BY <1>1 DEF Explored
    <2>4. \A ref \in DOMAIN reached :
            reached[ref].depth < MaxDepth => \A e \in In(ref) : Explored(e)
      <3>1. CASE phase \in {"effects", "done"}
        BY <3>1 DEF Reaching, Finished
      <3>2. CASE phase = "reverse"
        <4>1. work = {} /\ queue = <<>>
          BY <3>2, <1>1
        <4>2. ToSet(queue) = {}
          BY <4>1 DEF ToSet
        <4>3. QED
          BY <3>2, <4>1, <4>2 DEF Reaching, OnTheList
      <3>3. QED
        BY <3>1, <3>2, <1>1
    <2>5. QED
      BY <2>2, <2>1, <2>3, <2>4, <1>1 DEF Reaching, Finished
  <1>2. CASE Forward
    BY <1>2, ReachingForward
  <1>3. CASE TurnBack
    BY <1>3, ReachingTurnBack
  <1>4. CASE Dequeue
    BY <1>4, ReachingDequeue
  <1>5. CASE SeekEffects
    BY <1>5, <1>1 DEF SeekEffects
  <1>6. CASE Effect
    BY <1>6, <1>1 DEF Effect
  <1>7. CASE Conclude
    BY <1>7, <1>1 DEF Conclude
  <1>8. ASSUME NEW e \in work, Relax(e) PROVE Reaching'
    BY <1>8, ReachingRelax
  <1>9. ASSUME NEW e \in work, Follow(e) PROVE Reaching'
    BY <1>9, <1>1 DEF Follow
  <1>10. CASE UNCHANGED impactVars
    <2>1. /\ change' = change /\ phase' = phase /\ queue' = queue /\ current' = current
          /\ work' = work /\ roots' = roots /\ reached' = reached
      BY <1>10 DEF impactVars
    <2>2. /\ Refs' = Refs /\ Seeds' = Seeds /\ \A ref : In(ref)' = In(ref)
          /\ \A r, ref : ExplainedAs(r, ref)' = ExplainedAs(r, ref)
          /\ \A e : Explored(e)' = Explored(e)
      BY <2>1, SameGraph, SameExplanation DEF Explored
    <2>3. QED
      BY <2>1, <2>2 DEF Reaching, Begun, Explains, OnTheList, Finished, Explained
  <1>11. QED
    BY <1>2, <1>3, <1>4, <1>5, <1>6, <1>7, <1>8, <1>9, <1>10 DEF ImpactNext

(* The work list is in the order of the depths, which never differ by more *)
(* than one, and nothing is further away than what it says is next.        *)
Levels ==
  phase = "reverse" =>
    /\ \A i, j \in 1..Len(queue) :
         i <= j => reached[queue[i]].depth <= reached[queue[j]].depth
    /\ \A i \in 1..Len(queue), ref \in DOMAIN reached :
         reached[ref].depth <= reached[queue[i]].depth + 1
    /\ work # {} =>
         /\ \A i \in 1..Len(queue) : reached[current].depth <= reached[queue[i]].depth
         /\ \A ref \in DOMAIN reached : reached[ref].depth <= reached[current].depth + 1

Together(ref) ==
  \A other \in Alike(ref) : other \in DOMAIN reached /\ reached[other].depth <= reached[ref].depth

Leveled == Levels /\ (phase # "forward" => \A ref \in DOMAIN reached : Together(ref))

LEMMA LeveledInit == ASSUME ImpactInit PROVE Leveled
  BY DEF ImpactInit, Leveled, Levels

LEMMA LeveledTurnBack == ASSUME Reaching, TurnBack PROVE Leveled'
  <1>1. /\ phase' = "reverse" /\ work' = {} /\ queue' = SetToSeq(DOMAIN roots)
        /\ DOMAIN reached' = DOMAIN roots
        /\ \A ref \in DOMAIN roots : reached'[ref].depth = 0 /\ reached'[ref].path = <<>>
    BY DEF TurnBack, Reaching, Begun
  <1>2. IsFiniteSet(DOMAIN roots)
    BY GraphIsOver, FS_Subset DEF Reaching, Begun
  <1>3. \A i \in 1..Len(queue') : queue'[i] \in DOMAIN roots
    <2>1. queue' \in Seq(DOMAIN roots)
      BY <1>1, <1>2, ListOfSet
    <2>2. QED
      BY <2>1, ElementOfSeq
  <1>4. Levels'
    BY <1>1, <1>3 DEF Levels
  <1>5. \A ref \in DOMAIN reached' : Together(ref)'
    BY <1>1 DEF Together, Alike
  <1>6. QED
    BY <1>4, <1>5 DEF Leveled

LEMMA LeveledDequeue == ASSUME Reaching, Leveled, Dequeue PROVE Leveled'
  <1>1. /\ phase = "reverse" /\ phase' = phase /\ change' = change /\ reached' = reached
        /\ work = {} /\ queue # <<>> /\ current' = Head(queue) /\ queue' = Tail(queue)
    BY DEF Dequeue
  <1>2. /\ Len(queue) \in Nat \ {0} /\ current' = queue[1] /\ Len(queue') = Len(queue) - 1
        /\ \A i \in 1..Len(queue) - 1 : queue'[i] = queue[i + 1]
    BY <1>1, HeadOfList DEF Reaching, OnTheList
  <1>3. /\ 1 \in 1..Len(queue)
        /\ \A i \in 1..Len(queue') : /\ i \in Nat /\ i + 1 \in 1..Len(queue) /\ 1 <= i + 1
                                     /\ queue'[i] = queue[i + 1]
    BY <1>2
  <1>4. Levels
    BY DEF Leveled
  <1>5. Levels'
    <2>1. ASSUME NEW i \in 1..Len(queue'), NEW j \in 1..Len(queue'), i <= j
          PROVE  reached[queue'[i]].depth <= reached[queue'[j]].depth
      <3>1. i + 1 <= j + 1
        BY <1>3, <2>1
      <3>2. QED
        BY <1>1, <1>3, <1>4, <3>1 DEF Levels
    <2>2. \A i \in 1..Len(queue'), ref \in DOMAIN reached :
            reached[ref].depth <= reached[queue'[i]].depth + 1
      BY <1>1, <1>3, <1>4 DEF Levels
    <2>3. \A i \in 1..Len(queue') : reached[current'].depth <= reached[queue'[i]].depth
      BY <1>1, <1>2, <1>3, <1>4 DEF Levels
    <2>4. \A ref \in DOMAIN reached : reached[ref].depth <= reached[current'].depth + 1
      BY <1>1, <1>2, <1>3, <1>4 DEF Levels
    <2>5. QED
      BY <1>1, <2>1, <2>2, <2>3, <2>4 DEF Levels
  <1>6. \A ref \in DOMAIN reached : Together(ref)'
    BY <1>1, SameGraph DEF Leveled, Together, Alike
  <1>7. QED
    BY <1>1, <1>5, <1>6 DEF Leveled

LEMMA ListRelaxed ==
  ASSUME Reaching, NEW e \in work, Relax(e), ~ KnownBetter(e)
  PROVE  LET new == Same(e.from) \ (DOMAIN reached \cup {e.from}) IN
         /\ Len(queue) \in Nat /\ Len(queue') \in Nat
         /\ \A i \in 1..Len(queue') :
              \/ i \in 1..Len(queue) /\ queue'[i] = queue[i]
              \/ i > Len(queue) /\ queue'[i] \in {e.from} \cup new
  <1> DEFINE new == Same(e.from) \ (DOMAIN reached \cup {e.from})
  <1>1. /\ e.from \in Refs /\ new \subseteq Refs /\ queue \in Seq(Refs)
        /\ IsFiniteSet(Refs)
        /\ queue' = Append(queue, e.from) \o SetToSeq(new)
    <2>1. {e.from} \cup new \subseteq Refs
      BY Relaxed
    <2>2. queue \in Seq(Refs) /\ change \in Changes
      BY DEF Reaching, Begun, OnTheList, Relax
    <2>3. queue' = Append(queue, e.from) \o SetToSeq(new)
      BY Zenon DEF Relax
    <2>4. QED
      BY <2>1, <2>2, <2>3, GraphIsOver
  <1>2. IsFiniteSet(new)
    BY <1>1, FS_Subset
  <1> HIDE DEF new
  <1>3. PICK s, t : s = Append(queue, e.from) /\ t = SetToSeq(new)
    OBVIOUS
  <1>4. /\ s \in Seq(Refs) /\ Len(s) = Len(queue) + 1 /\ Len(queue) \in Nat
        /\ \A i \in 1..Len(queue) : s[i] = queue[i]
        /\ s[Len(queue) + 1] = e.from
    BY <1>1, <1>3, AppendToList
  <1>5. t \in Seq(new)
    BY <1>2, <1>3, ListOfSet
  <1>6. t \in Seq(Refs) /\ \A i \in 1..Len(t) : t[i] \in new
    BY <1>1, <1>5, SeqMonotonic, ElementOfSeq
  <1>7. /\ Len(s \o t) = Len(s) + Len(t) /\ Len(t) \in Nat
        /\ \A i \in 1..Len(s) + Len(t) : (s \o t)[i] = IF i <= Len(s) THEN s[i] ELSE t[i - Len(s)]
    BY <1>4, <1>6, ConcatProperties, LenProperties
  <1>8. queue' = s \o t
    BY <1>1, <1>3
  <1>9. Len(queue') = Len(queue) + 1 + Len(t)
    BY <1>4, <1>7, <1>8
  <1>10. ASSUME NEW i \in 1..Len(queue')
         PROVE  \/ i \in 1..Len(queue) /\ queue'[i] = queue[i]
                \/ i > Len(queue) /\ queue'[i] \in {e.from} \cup new
    <2>1. CASE i <= Len(queue)
      <3>1. i \in 1..Len(queue) /\ i <= Len(s) /\ i \in 1..Len(s) + Len(t)
        BY <2>1, <1>4, <1>7, <1>9
      <3>2. QED
        BY <3>1, <1>4, <1>7, <1>8
    <2>2. CASE i = Len(queue) + 1
      <3>1. i <= Len(s) /\ i \in 1..Len(s) + Len(t) /\ i > Len(queue)
        BY <2>2, <1>4, <1>7, <1>9
      <3>2. QED
        BY <2>2, <3>1, <1>4, <1>7, <1>8
    <2>3. CASE i > Len(queue) + 1
      <3>1. ~(i <= Len(s)) /\ i \in 1..Len(s) + Len(t) /\ i > Len(queue) /\ i - Len(s) \in 1..Len(t)
        BY <2>3, <1>4, <1>7, <1>9
      <3>2. queue'[i] = t[i - Len(s)]
        BY <3>1, <1>7, <1>8
      <3>3. QED
        BY <3>1, <3>2, <1>6
    <2>4. QED
      BY <2>1, <2>2, <2>3, <1>4, <1>9
  <1>11. QED
    BY <1>4, <1>7, <1>9, <1>10 DEF new

LEMMA LeveledRelax == ASSUME Reaching, Leveled, NEW e \in work, Relax(e) PROVE Leveled'
  <1>1. /\ phase = "reverse" /\ phase' = phase /\ change' = change
        /\ current' = current /\ work' = work \ {e} /\ work # {}
    BY DEF Relax
  <1>2. CASE KnownBetter(e)
    <2>1. reached' = reached /\ queue' = queue
      BY <1>2 DEF Relax
    <2>2. \A ref \in DOMAIN reached : Together(ref)' <=> Together(ref)
      BY <1>1, <2>1, SameGraph DEF Together, Alike
    <2>3. QED
      BY <1>1, <2>1, <2>2 DEF Leveled, Levels
  <1>3. CASE ~ KnownBetter(e)
    <2> DEFINE new == Same(e.from) \ (DOMAIN reached \cup {e.from})
               upd == {e.from} \cup new
               c == Candidate(e)
    <2>1. /\ current \in DOMAIN reached
          /\ upd \cap {current} = {}
          /\ DOMAIN reached' = DOMAIN reached \cup upd
          /\ \A ref \in DOMAIN reached' : reached'[ref] = IF ref \in upd THEN c ELSE reached[ref]
          /\ c.depth = reached[current].depth + 1
          /\ reached[current].depth \in Nat
      BY <1>3, Relaxed
    <2>2. /\ Len(queue) \in Nat /\ Len(queue') \in Nat
          /\ \A i \in 1..Len(queue') : \/ i \in 1..Len(queue) /\ queue'[i] = queue[i]
                                       \/ i > Len(queue) /\ queue'[i] \in upd
      BY <1>3, ListRelaxed
    <2>3. \A ref \in DOMAIN reached : reached[ref].depth \in Nat
      BY <1>1, Measured
    <2>4. Levels
      BY DEF Leveled
    <2>5. \A ref \in DOMAIN reached : reached[ref].depth <= c.depth
      BY <1>1, <2>1, <2>4 DEF Levels
    <2>6. e.from \in DOMAIN reached => ~ (reached[e.from].depth < c.depth)
      BY <1>3 DEF KnownBetter
    <2>7. \A i \in 1..Len(queue) : queue[i] \in DOMAIN reached
      <3>1. queue \in Seq(Refs) /\ ToSet(queue) \subseteq DOMAIN reached
        BY <1>1 DEF Reaching, OnTheList
      <3>2. QED
        BY <3>1, Member
    <2>8. \A ref \in upd : ref \in DOMAIN reached => ref = e.from
      OBVIOUS
    <2>9. Same(e.from) \subseteq DOMAIN reached \cup upd
      OBVIOUS
    <2> HIDE DEF c, new
    <2>10. \A ref \in DOMAIN reached : ref \in DOMAIN reached' /\ reached'[ref].depth = reached[ref].depth
      <3> SUFFICES ASSUME NEW ref \in DOMAIN reached
                   PROVE  ref \in DOMAIN reached' /\ reached'[ref].depth = reached[ref].depth
        OBVIOUS
      <3>1. CASE ref \in upd
        <4>1. ref = e.from /\ reached'[ref] = c
          BY <3>1, <2>1, <2>8
        <4>2. reached[ref].depth = c.depth
          BY <4>1, <2>1, <2>3, <2>5, <2>6
        <4>3. QED
          BY <4>1, <4>2, <2>1
      <3>2. CASE ref \notin upd
        BY <3>2, <2>1
      <3>3. QED
        BY <3>1, <3>2
    <2>11. \A ref \in upd : ref \in DOMAIN reached' /\ reached'[ref] = c
      BY <2>1
    <2>12. \A ref \in DOMAIN reached' : reached'[ref].depth \in Nat /\ reached'[ref].depth <= c.depth
      <3> SUFFICES ASSUME NEW ref \in DOMAIN reached'
                   PROVE  reached'[ref].depth \in Nat /\ reached'[ref].depth <= c.depth
        OBVIOUS
      <3>1. CASE ref \in upd
        BY <3>1, <2>1, <2>11
      <3>2. CASE ref \in DOMAIN reached
        BY <3>2, <2>3, <2>5, <2>10
      <3>3. QED
        BY <3>1, <3>2, <2>1
    <2>13. PICK n \in Nat : n = reached[current].depth /\ n = reached'[current].depth /\ c.depth = n + 1
      BY <2>1, <2>10
    <2>14. ASSUME NEW i \in 1..Len(queue')
           PROVE  /\ reached'[queue'[i]].depth \in Nat /\ n <= reached'[queue'[i]].depth
                  /\ i > Len(queue) => reached'[queue'[i]].depth = n + 1
                  /\ i \in 1..Len(queue) \/ i > Len(queue)
                  /\ i \in 1..Len(queue) => queue'[i] = queue[i]
      <3>1. CASE i \in 1..Len(queue) /\ queue'[i] = queue[i]
        <4>1. n <= reached[queue[i]].depth
          BY <1>1, <2>4, <2>13, <3>1 DEF Levels
        <4>2. ~(i > Len(queue))
          BY <2>2, <3>1
        <4>3. QED
          BY <3>1, <4>1, <4>2, <2>3, <2>7, <2>10
      <3>2. CASE i > Len(queue) /\ queue'[i] \in upd
        <4>1. i \notin 1..Len(queue)
          BY <2>2, <3>2
        <4>2. PICK d \in Nat : d = reached'[queue'[i]].depth /\ d = n + 1
          BY <3>2, <2>11, <2>13
        <4>3. n <= d
          BY <4>2
        <4>4. QED
          BY <3>2, <4>1, <4>2, <4>3
      <3>3. QED
        BY <3>1, <3>2, <2>2
    <2>15. Levels'
      <3>1. ASSUME NEW i \in 1..Len(queue'), NEW j \in 1..Len(queue'), i <= j
            PROVE  reached'[queue'[i]].depth <= reached'[queue'[j]].depth
        <4>1. CASE j \in 1..Len(queue)
          <5>1. i \in 1..Len(queue) /\ queue'[i] = queue[i] /\ queue'[j] = queue[j]
            BY <3>1, <4>1, <2>2, <2>14
          <5>2. reached[queue[i]].depth <= reached[queue[j]].depth
            BY <1>1, <2>4, <3>1, <4>1, <5>1 DEF Levels
          <5>3. QED
            BY <5>1, <5>2, <4>1, <2>7, <2>10
        <4>2. CASE j > Len(queue)
          <5>1. reached'[queue'[j]].depth = c.depth
            BY <4>2, <2>13, <2>14
          <5>2. queue'[i] \in DOMAIN reached'
            BY <2>2, <2>7, <2>10, <2>11
          <5>3. QED
            BY <5>1, <5>2, <2>12
        <4>3. QED
          BY <4>1, <4>2, <2>14
      <3>2. \A i \in 1..Len(queue'), ref \in DOMAIN reached' :
              reached'[ref].depth <= reached'[queue'[i]].depth + 1
        BY <2>12, <2>13, <2>14
      <3>3. \A i \in 1..Len(queue') : reached'[current].depth <= reached'[queue'[i]].depth
        BY <2>13, <2>14
      <3>4. \A ref \in DOMAIN reached' : reached'[ref].depth <= reached'[current].depth + 1
        BY <2>12, <2>13
      <3>5. QED
        BY <1>1, <3>1, <3>2, <3>3, <3>4 DEF Levels
    <2>16. ASSUME NEW ref \in DOMAIN reached' PROVE Together(ref)'
      <3>1. CASE ref = e.from
        <4>1. \A other \in Same(ref) : other \in DOMAIN reached'
          BY <3>1, <2>1, <2>9
        <4>2. reached'[ref].depth = c.depth
          BY <3>1, <2>11
        <4>3. \A other \in Alike(ref)' : other \in Same(ref)
          BY <1>1, SameGraph DEF Alike
        <4>4. QED
          BY <4>1, <4>2, <4>3, <2>12 DEF Together
      <3>2. CASE ref \in new
        <4>1. reached'[ref] = c /\ ref # e.from
          BY <3>2, <2>11 DEF new
        <4>2. c.path[Len(c.path)] = e
          <5>1. c.path = Append(reached[current].path, e)
            BY DEF c, Candidate
          <5>2. reached[current].path \in Seq(Graph.edges) /\ e \in Graph.edges
            <6>1. Explained(current)
              BY <1>1, <2>1 DEF Reaching, Explains
            <6>2. e \in Graph.edges
              BY <1>3, Relaxed
            <6>3. CASE current \in DOMAIN roots
              <7>1. reached[current].path = <<>>
                BY <6>1, <6>3 DEF Explained, Root
              <7>2. <<>> \in Seq(Graph.edges)
                BY EmptySeq
              <7>3. QED
                BY <6>2, <7>1, <7>2
            <6>4. CASE current \notin DOMAIN roots
              BY <6>1, <6>2, <6>4 DEF Explained, ExplainedAs
            <6>5. QED
              BY <6>3, <6>4
          <5>3. QED
            BY <5>1, <5>2, AppendToList
        <4>3. Alike(ref)' = {}
          BY <4>1, <4>2 DEF Alike
        <4>4. QED
          BY <4>3 DEF Together
      <3>3. CASE ref \notin upd
        <4>1. ref \in DOMAIN reached /\ reached'[ref] = reached[ref]
          BY <3>3, <2>1
        <4>2. Alike(ref)' = Alike(ref)
          BY <4>1, <1>1, SameGraph DEF Alike
        <4>3. Together(ref)
          BY <4>1, <1>1 DEF Leveled
        <4>4. QED
          BY <4>1, <4>2, <4>3, <2>10 DEF Together
      <3>4. QED
        BY <3>1, <3>2, <3>3
    <2>17. QED
      BY <1>1, <2>15, <2>16 DEF Leveled
  <1>4. QED
    BY <1>2, <1>3

LEMMA LeveledStep == ASSUME Reaching, Leveled, [ImpactNext]_impactVars PROVE Leveled'
  <1>1. ASSUME change' = change, reached' = reached, phase # "forward", phase' \in {"effects", "done"}
        PROVE  Leveled'
    <2>1. \A ref \in DOMAIN reached : Together(ref)' <=> Together(ref)
      BY <1>1, SameGraph DEF Together, Alike
    <2>2. QED
      BY <1>1, <2>1 DEF Leveled, Levels
  <1>2. CASE Forward
    BY <1>2 DEF Forward, Leveled, Levels
  <1>3. CASE TurnBack
    BY <1>3, LeveledTurnBack
  <1>4. CASE Dequeue
    BY <1>4, LeveledDequeue
  <1>5. CASE SeekEffects
    BY <1>5, <1>1 DEF SeekEffects
  <1>6. CASE Effect
    BY <1>6, <1>1 DEF Effect
  <1>7. CASE Conclude
    BY <1>7, <1>1 DEF Conclude
  <1>8. ASSUME NEW e \in work, Relax(e) PROVE Leveled'
    BY <1>8, LeveledRelax
  <1>9. ASSUME NEW e \in work, Follow(e) PROVE Leveled'
    BY <1>9, <1>1 DEF Follow
  <1>10. CASE UNCHANGED impactVars
    <2>1. /\ change' = change /\ phase' = phase /\ queue' = queue /\ current' = current
          /\ work' = work /\ reached' = reached
      BY <1>10 DEF impactVars
    <2>2. \A ref : Together(ref)' <=> Together(ref)
      BY <2>1, SameGraph DEF Together, Alike
    <2>3. QED
      BY <2>1, <2>2 DEF Leveled, Levels
  <1>11. QED
    BY <1>2, <1>3, <1>4, <1>5, <1>6, <1>7, <1>8, <1>9, <1>10 DEF ImpactNext

LEMMA ReachingIsExact == ASSUME Reaching, Leveled PROVE ImpactIsExact
  <1>1. SUFFICES ASSUME phase = "done" PROVE ImpactIsExact
    BY DEF ImpactIsExact
  <1>2. ASSUME NEW e \in Graph.edges, Meets(e), e.to \in DOMAIN reached,
               reached[e.to].depth < MaxDepth
        PROVE  Explored(e)
    <2>1. e \in In(e.to)
      BY <1>2 DEF In
    <2>2. QED
      BY <2>1, <1>2, <1>1 DEF Reaching, Finished
  <1>3. ASSUME NEW ref \in DOMAIN reached \ DOMAIN roots
        PROVE  ExplainedAs(reached[ref], ref)
    BY <1>1, <1>3 DEF Reaching, Explains, Explained
  <1>4. \A ref \in DOMAIN reached : Together(ref)
    BY <1>1 DEF Leveled
  <1>5. QED
    BY <1>1, <1>2, <1>3, <1>4 DEF ImpactIsExact, Explored, ExplainedAs, Together

(* For any graphs, equivalences, depth and thresholds, in whatever order   *)
(* edges are looked at, nothing that assess_impact should reach within the *)
(* depth is missed: what an edge comes from is neither further away nor    *)
(* less sure than what it leads to makes it, equivalents are reached with  *)
(* their reference and no further away, and each item is explained by a    *)
(* way to it.                                                              *)
THEOREM ReportsAreExact == ImpactSpec => []ImpactIsExact
  <1>1. ImpactInit => Reaching /\ Leveled
    BY ReachingInit, LeveledInit
  <1>2. Reaching /\ Leveled /\ [ImpactNext]_impactVars => Reaching' /\ Leveled'
    BY ReachingStep, LeveledStep
  <1>3. Reaching /\ Leveled => ImpactIsExact
    BY ReachingIsExact
  <1>4. QED
    BY <1>1, <1>2, <1>3, PTL DEF ImpactSpec

-----------------------------------------------------------------------------
(* What holds while the effects are sought.                                *)
Ways == [ref : Refs, depth : Nat, confidence : Nat, inferred : BOOLEAN]
Visited == DOMAIN effects.visited

(* d is how far away each reference is when it is first visited, which is  *)
(* no state of the code.                                                   *)
Followed(d, ref, e) ==
  /\ e.to \in Visited /\ d[e.to] <= d[ref] + 1
  /\ Kind(e.to) \in SideEffects => e.to \in DOMAIN effects.found

(* The work list is in the order of the depths, which never differ by more *)
(* than one, and nothing has been visited further away than it is next.    *)
LevelByLevel(d) ==
  /\ \A i, j \in 1..Len(queue) :
       /\ i <= j => queue[i].depth <= queue[j].depth
       /\ queue[j].depth <= queue[i].depth + 1
  /\ \A i \in 1..Len(queue), ref \in Visited : d[ref] <= queue[i].depth + 1

AtWork(d) ==
  work # {} =>
    /\ current \in Ways /\ current.depth < MaxDepth /\ work \subseteq Out(current.ref)
    /\ \A i \in 1..Len(queue) : /\ current.depth <= queue[i].depth
                                /\ queue[i].depth <= current.depth + 1
    /\ \A ref \in Visited : d[ref] <= current.depth + 1

Pending(d, ref) == \E i \in 1..Len(queue) : queue[i].ref = ref /\ queue[i].depth = d[ref]

Spread(d) ==
  /\ d \in [Visited -> Nat] /\ queue \in Seq(Ways)
  /\ \A ref \in Seeds : ref \in Visited /\ d[ref] = 0
  /\ LevelByLevel(d) /\ AtWork(d)
  /\ \A ref \in Visited :
       d[ref] < MaxDepth =>
         \/ Pending(d, ref)
         \/ \A e \in Out(ref) : \/ Followed(d, ref, e)
                                \/ current.ref = ref /\ current.depth = d[ref] /\ e \in work

Spreading ==
  /\ phase \in {"effects", "done"} => \E d : Spread(d)
  /\ phase = "done" => work = {} /\ queue = <<>>

LEMMA SpreadBegins == ASSUME Reaching, SeekEffects PROVE Spreading'
  <1> DEFINE way(ref) == [ref |-> ref, depth |-> 0, confidence |-> Certain, inferred |-> FALSE]
             ways == {way(ref) : ref \in EffectRoots}
  <1>d. PICK d : d = [ref \in EffectRoots |-> 0]
    OBVIOUS
  <1>1. /\ phase = "reverse" /\ phase' = "effects" /\ work' = {} /\ change' = change
        /\ queue' = SetToSeq(ways)
        /\ effects' = [visited |-> [ref \in EffectRoots |-> Certain], found |-> <<>>]
    BY DEF SeekEffects
  <1>2. EffectRoots \subseteq Refs /\ Seeds \subseteq EffectRoots /\ IsFiniteSet(EffectRoots)
    <2>1. EffectRoots \subseteq Refs /\ Seeds \subseteq EffectRoots
      BY <1>1 DEF Reaching, Begun, Explains, EffectRoots
    <2>2. QED
      BY <2>1, GraphIsOver, FS_Subset DEF Reaching, Begun
  <1>3. Visited' = EffectRoots /\ Refs' = Refs /\ Seeds' = Seeds
    BY <1>1, SameGraph DEF Visited
  <1>4. ways \subseteq Ways /\ IsFiniteSet(ways)
    <2>1. ways \subseteq Ways
      <3>1. ASSUME NEW ref \in EffectRoots PROVE way(ref) \in Ways
        <4>1. PICK b \in BOOLEAN : b = FALSE
          OBVIOUS
        <4>2. [ref |-> ref, depth |-> 0, confidence |-> 10, inferred |-> b] \in Ways
          BY <1>2 DEF Ways
        <4>3. QED
          BY <4>1, <4>2, Zenon DEF Certain
      <3>2. QED
        BY <3>1
    <2>2. [ref \in EffectRoots |-> way(ref)] \in Surjection(EffectRoots, ways)
      BY DEF Surjection
    <2>3. IsFiniteSet(ways)
      <3> HIDE DEF ways, way
      <3>1. QED
        BY <2>2, <1>2, FS_Surjection
    <2>4. QED
      BY <2>1, <2>3
  <1>5. queue' \in Seq(ways) /\ ToSet(queue') = ways
    <2> HIDE DEF ways
    <2>1. QED
      BY <1>1, <1>4, ListOfSet
  <1>6. queue' \in Seq(Ways)
    <2> HIDE DEF ways
    <2>1. QED
      BY <1>4, <1>5, SeqMonotonic
  <1>7. \A i \in 1..Len(queue') : queue'[i].depth = 0
    <2>1. \A i \in 1..Len(queue') : queue'[i] \in ways
      <3> HIDE DEF ways
      <3>1. QED
        BY <1>5, ElementOfSeq
    <2>2. \A w \in ways : w.depth = 0
      OBVIOUS
    <2> HIDE DEF ways
    <2>3. QED
      BY <2>1, <2>2
  <1>8. \A ref \in EffectRoots : Pending(d, ref)'
    <2> SUFFICES ASSUME NEW ref \in EffectRoots
                 PROVE  \E i \in 1..Len(queue') : queue'[i].ref = ref /\ queue'[i].depth = d[ref]
      BY Zenon DEF Pending
    <2>1. way(ref) \in ways /\ way(ref).ref = ref /\ way(ref).depth = 0
      OBVIOUS
    <2> HIDE DEF ways, way
    <2>2. PICK i \in 1..Len(queue') : queue'[i] = way(ref)
      BY <1>5, <2>1, Member
    <2>3. QED
      BY <2>1, <2>2, <1>d
  <1>9. LevelByLevel(d)'
    <2>1. \A ref \in Visited' : d[ref] = 0
      BY <1>d, <1>3
    <2>2. \A i, j \in 1..Len(queue') :
            /\ i <= j => queue'[i].depth <= queue'[j].depth
            /\ queue'[j].depth <= queue'[i].depth + 1
      BY <1>7
    <2>3. \A i \in 1..Len(queue'), ref \in Visited' : d[ref] <= queue'[i].depth + 1
      BY <1>7, <2>1
    <2>4. QED
      BY <2>2, <2>3 DEF LevelByLevel
  <1>10. AtWork(d)'
    BY <1>1 DEF AtWork
  <1>11. /\ \A ref \in Seeds' : ref \in Visited' /\ d[ref] = 0
         /\ d \in [Visited' -> Nat]
    BY <1>d, <1>2, <1>3
  <1>12. Ways' = Ways
    BY <1>3 DEF Ways
  <1>13. Spread(d)'
    BY <1>3, <1>6, <1>8, <1>9, <1>10, <1>11, <1>12 DEF Spread
  <1>14. QED
    BY <1>1, <1>13 DEF Spreading

LEMMA SpreadTakes == ASSUME Reaching, Spreading, Effect PROVE Spreading'
  <1>1. /\ phase = "effects" /\ phase' = phase /\ change' = change /\ effects' = effects
        /\ work = {} /\ queue # <<>> /\ current' = Head(queue) /\ queue' = Tail(queue)
        /\ work' = IF current'.depth < MaxDepth THEN Out(current'.ref) ELSE {}
    BY DEF Effect
  <1>2. PICK d : Spread(d)
    BY <1>1 DEF Spreading
  <1>3. /\ Visited' = Visited /\ Seeds' = Seeds /\ Ways' = Ways
        /\ \A ref : Out(ref)' = Out(ref) /\ Kind(ref)' = Kind(ref)
        /\ \A ref, e : Followed(d, ref, e)' = Followed(d, ref, e)
    <2>1. /\ Refs' = Refs /\ Seeds' = Seeds
          /\ \A ref : Out(ref)' = Out(ref) /\ Kind(ref)' = Kind(ref)
      BY <1>1, SameGraph
    <2>2. QED
      BY <2>1, <1>1 DEF Visited, Ways, Followed
  <1>4. /\ Len(queue) \in Nat \ {0} /\ current' \in Ways /\ current' = queue[1]
        /\ queue' \in Seq(Ways) /\ Len(queue') = Len(queue) - 1
        /\ \A i \in 1..Len(queue) - 1 : queue'[i] = queue[i + 1]
    BY <1>1, <1>2, HeadOfList DEF Spread
  <1>5. \A i \in 1..Len(queue') : /\ i + 1 \in 1..Len(queue) /\ queue'[i] = queue[i + 1]
                                  /\ queue'[i].depth \in Nat
    <2>1. \A i \in 1..Len(queue') : queue'[i].depth \in Nat
      <3>1. \A i \in 1..Len(queue') : queue'[i] \in Ways
        BY <1>4, ElementOfSeq
      <3>2. QED
        BY <3>1 DEF Ways
    <2>2. QED
      BY <1>4, <2>1
  <1>6. 1 \in 1..Len(queue) /\ current'.depth \in Nat
    BY <1>4 DEF Ways
  <1>7. LevelByLevel(d)'
    <2>1. LevelByLevel(d)
      BY <1>2 DEF Spread
    <2>2. \A i, j \in 1..Len(queue') :
            /\ i <= j => queue'[i].depth <= queue'[j].depth
            /\ queue'[j].depth <= queue'[i].depth + 1
      <3> SUFFICES ASSUME NEW i \in 1..Len(queue'), NEW j \in 1..Len(queue')
                   PROVE  /\ i <= j => queue'[i].depth <= queue'[j].depth
                          /\ queue'[j].depth <= queue'[i].depth + 1
        OBVIOUS
      <3>1. /\ queue'[i] = queue[i + 1] /\ queue'[j] = queue[j + 1]
            /\ i + 1 \in 1..Len(queue) /\ j + 1 \in 1..Len(queue)
            /\ i <= j => i + 1 <= j + 1
        <4>1. i \in Nat /\ j \in Nat
          BY <1>4
        <4>2. QED
          BY <4>1, <1>5
      <3>2. QED
        BY <2>1, <3>1 DEF LevelByLevel
    <2>3. \A i \in 1..Len(queue'), ref \in Visited : d[ref] <= queue'[i].depth + 1
      BY <2>1, <1>5 DEF LevelByLevel
    <2>4. QED
      BY <2>2, <2>3, <1>3 DEF LevelByLevel
  <1>8. AtWork(d)'
    <2>1. LevelByLevel(d)
      BY <1>2 DEF Spread
    <2>2. \A i \in 1..Len(queue') : /\ current'.depth <= queue'[i].depth
                                    /\ queue'[i].depth <= current'.depth + 1
      <3> SUFFICES ASSUME NEW i \in 1..Len(queue')
                   PROVE  /\ current'.depth <= queue'[i].depth
                          /\ queue'[i].depth <= current'.depth + 1
        OBVIOUS
      <3>1. i + 1 \in 1..Len(queue) /\ 1 <= i + 1 /\ queue'[i] = queue[i + 1]
        BY <1>4, <1>5
      <3>2. QED
        BY <2>1, <3>1, <1>4, <1>6 DEF LevelByLevel
    <2>3. \A ref \in Visited : d[ref] <= current'.depth + 1
      BY <2>1, <1>4, <1>6 DEF LevelByLevel
    <2>4. work' # {} => current'.depth < MaxDepth /\ work' \subseteq Out(current'.ref)
      BY <1>1
    <2>5. QED
      BY <2>2, <2>3, <2>4, <1>3, <1>4 DEF AtWork
  <1>9. ASSUME NEW ref \in Visited, d[ref] < MaxDepth
        PROVE  \/ Pending(d, ref)'
               \/ \A e \in Out(ref) : \/ Followed(d, ref, e)
                                      \/ current'.ref = ref /\ current'.depth = d[ref] /\ e \in work'
    <2>1. CASE Pending(d, ref)
      <3>1. PICK i \in 1..Len(queue) : queue[i].ref = ref /\ queue[i].depth = d[ref]
        BY <2>1 DEF Pending
      <3>2. CASE i = 1
        BY <3>1, <3>2, <1>1, <1>4, <1>9
      <3>3. CASE i # 1
        <4>1. i - 1 \in 1..Len(queue') /\ queue'[i - 1] = queue[i]
          BY <3>3, <1>4
        <4>2. QED
          BY <3>1, <4>1 DEF Pending
      <3>4. QED
        BY <3>2, <3>3
    <2>2. CASE ~ Pending(d, ref)
      BY <2>2, <1>1, <1>2, <1>9 DEF Spread
    <2>3. QED
      BY <2>1, <2>2
  <1>10. Spread(d)'
    BY <1>2, <1>3, <1>4, <1>7, <1>8, <1>9 DEF Spread
  <1>11. QED
    BY <1>1, <1>10 DEF Spreading

LEMMA SpreadFollows == ASSUME Reaching, Spreading, NEW e \in work, Follow(e) PROVE Spreading'
  <1> DEFINE way == [ref |-> e.to, depth |-> current.depth + 1,
                     confidence |-> Weaker(current.confidence, e.confidence),
                     inferred |-> current.inferred \/ e.inferred]
             surer == e.to \notin Visited \/ effects.visited[e.to] < way.confidence
  <1>1. /\ phase = "effects" /\ phase' = phase /\ change' = change /\ current' = current
        /\ work' = work \ {e}
        /\ queue' = IF surer THEN Append(queue, way) ELSE queue
    BY DEF Follow, Visited
  <1>2. /\ Visited' = Visited \cup {e.to}
        /\ DOMAIN effects'.found = DOMAIN effects.found
                                     \cup (IF Kind(e.to) \in SideEffects THEN {e.to} ELSE {})
    BY DEF Follow, Visited
  <1>3. PICK d : Spread(d)
    BY <1>1 DEF Spreading
  <1>4. /\ Seeds' = Seeds /\ Ways' = Ways
        /\ \A ref : Out(ref)' = Out(ref) /\ Kind(ref)' = Kind(ref)
    BY <1>1, SameGraph DEF Ways
  <1>5. /\ current \in Ways /\ current.depth < MaxDepth /\ current.depth \in Nat
        /\ work \subseteq Out(current.ref)
        /\ \A i \in 1..Len(queue) : /\ current.depth <= queue[i].depth
                                    /\ queue[i].depth <= current.depth + 1
        /\ \A ref \in Visited : d[ref] <= current.depth + 1
        /\ queue \in Seq(Ways) /\ Len(queue) \in Nat /\ d \in [Visited -> Nat]
    BY <1>3, LenProperties DEF Spread, AtWork, Ways
  <1>6. way \in Ways /\ way.ref = e.to /\ way.depth = current.depth + 1
    <2>1. /\ e \in Graph.edges /\ e.to \in Refs /\ e.confidence \in Nat /\ e.inferred \in BOOLEAN
      BY <1>5, GraphIsOver DEF Out, Reaching, Begun
    <2>2. current.confidence \in Nat /\ current.inferred \in BOOLEAN
      BY <1>5 DEF Ways
    <2>3. Weaker(current.confidence, e.confidence) \in Nat /\ (current.inferred \/ e.inferred) \in BOOLEAN
      BY <2>1, <2>2 DEF Weaker
    <2>4. QED
      BY <2>1, <2>3, <1>5 DEF Ways
  <1> HIDE DEF way
  <1>7. surer => /\ Append(queue, way) \in Seq(Ways)
                 /\ Len(Append(queue, way)) = Len(queue) + 1
                 /\ \A i \in 1..Len(queue) : Append(queue, way)[i] = queue[i]
                 /\ Append(queue, way)[Len(queue) + 1] = way
    BY <1>5, <1>6, AppendToList
  <1>8. /\ queue' \in Seq(Ways) /\ Len(queue') \in {Len(queue), Len(queue) + 1}
        /\ surer => Len(queue') = Len(queue) + 1
        /\ \A i \in 1..Len(queue) : queue'[i] = queue[i]
        /\ Len(queue') = Len(queue) + 1 => queue'[Len(queue) + 1] = way
    <2>1. Len(queue) # Len(queue) + 1
      BY <1>5
    <2>2. CASE surer
      BY <2>2, <1>1, <1>7
    <2>3. CASE ~ surer
      BY <2>3, <2>1, <1>1, <1>5
    <2>4. QED
      BY <2>2, <2>3
  <1>9. e.to \notin Visited => Len(queue') = Len(queue) + 1
    BY <1>8
  <1> HIDE DEF surer
  <1>10. \A i \in 1..Len(queue') : \/ i \in 1..Len(queue) /\ queue'[i] = queue[i]
                                   \/ i = Len(queue) + 1 /\ queue'[i] = way
    BY <1>5, <1>8
  <1>11. 1..Len(queue) \subseteq 1..Len(queue')
    BY <1>5, <1>8
  <1>12. \A i \in 1..Len(queue) : queue[i].depth \in Nat
    <2>1. \A i \in 1..Len(queue) : queue[i] \in Ways
      BY <1>5, ElementOfSeq
    <2>2. QED
      BY <2>1 DEF Ways
  <1>13. PICK n \in Nat : n = current.depth
    BY <1>5
  <1>f. PICK far : far = [ref \in Visited \cup {e.to} |-> IF ref \in Visited THEN d[ref] ELSE n + 1]
    OBVIOUS
  <1>14. /\ far \in [Visited' -> Nat]
         /\ \A ref \in Visited : far[ref] = d[ref]
         /\ \A ref \in Visited' : far[ref] \in Nat /\ far[ref] <= n + 1
         /\ e.to \notin Visited => far[e.to] = n + 1
    BY <1>f, <1>2, <1>5, <1>13
  <1>15. \A i \in 1..Len(queue') : /\ queue'[i].depth \in Nat /\ n <= queue'[i].depth
                                   /\ queue'[i].depth <= n + 1
    BY <1>5, <1>6, <1>10, <1>12, <1>13
  <1>16. LevelByLevel(far)'
    <2>1. LevelByLevel(d)
      BY <1>3 DEF Spread
    <2>2. ASSUME NEW i \in 1..Len(queue'), NEW j \in 1..Len(queue')
          PROVE  /\ i <= j => queue'[i].depth <= queue'[j].depth
                 /\ queue'[j].depth <= queue'[i].depth + 1
      <3>1. queue'[j].depth <= queue'[i].depth + 1
        <4>1. PICK x, y : x = queue'[i].depth /\ y = queue'[j].depth
          OBVIOUS
        <4>2. x \in Nat /\ y \in Nat /\ n <= x /\ y <= n + 1
          BY <4>1, <1>15
        <4>3. y <= x + 1
          BY <4>2
        <4>4. QED
          BY <4>1, <4>3
      <3>2. ASSUME i <= j PROVE queue'[i].depth <= queue'[j].depth
        <4>1. CASE j \in 1..Len(queue)
          <5>1. i \in 1..Len(queue) /\ queue'[i] = queue[i] /\ queue'[j] = queue[j]
            BY <3>2, <4>1, <1>5, <1>8
          <5>2. QED
            BY <5>1, <4>1, <3>2, <2>1 DEF LevelByLevel
        <4>2. CASE queue'[j] = way
          BY <4>2, <1>5, <1>6, <1>13, <1>15
        <4>3. QED
          BY <4>1, <4>2, <1>10
      <3>3. QED
        BY <3>1, <3>2
    <2>3. \A i \in 1..Len(queue'), ref \in Visited' : far[ref] <= queue'[i].depth + 1
      BY <1>5, <1>13, <1>14, <1>15
    <2>4. QED
      BY <2>2, <2>3 DEF LevelByLevel
  <1>17. AtWork(far)'
    BY <1>1, <1>4, <1>5, <1>13, <1>14, <1>15 DEF AtWork
  <1>18. ASSUME NEW ref \in Visited, NEW f, Followed(d, ref, f)
         PROVE  Followed(far, ref, f)'
    <2>1. f.to \in Visited /\ d[f.to] <= d[ref] + 1
      BY <1>18 DEF Followed
    <2>2. far[f.to] <= far[ref] + 1 /\ f.to \in Visited'
      BY <2>1, <1>2, <1>14
    <2>3. Kind(f.to)' \in SideEffects => f.to \in DOMAIN effects'.found
      BY <1>18, <1>2, <1>4 DEF Followed
    <2>4. QED
      BY <2>2, <2>3 DEF Followed, SideEffects
  <1>19. ASSUME NEW ref \in Visited, d[ref] = current.depth
         PROVE  Followed(far, ref, e)'
    <2>1. e.to \in Visited' /\ far[e.to] <= far[ref] + 1
      BY <1>19, <1>2, <1>13, <1>14
    <2>2. Kind(e.to)' \in SideEffects => e.to \in DOMAIN effects'.found
      BY <1>2, <1>4
    <2>3. QED
      BY <2>1, <2>2 DEF Followed, SideEffects
  <1>20. ASSUME NEW ref \in Visited', far[ref] < MaxDepth
         PROVE  \/ Pending(far, ref)'
                \/ \A f \in Out(ref) : \/ Followed(far, ref, f)'
                                       \/ current.ref = ref /\ current.depth = far[ref] /\ f \in work'
    <2>1. CASE ref \notin Visited
      <3>1. ref = e.to /\ far[ref] = n + 1 /\ Len(queue') = Len(queue) + 1
        BY <2>1, <1>2, <1>9, <1>14
      <3>2. /\ Len(queue) + 1 \in 1..Len(queue') /\ queue'[Len(queue) + 1].ref = ref
            /\ queue'[Len(queue) + 1].depth = far[ref]
        BY <3>1, <1>5, <1>6, <1>8, <1>13
      <3>3. QED
        BY <3>2 DEF Pending
    <2>2. CASE ref \in Visited
      <3>1. d[ref] < MaxDepth /\ far[ref] = d[ref]
        BY <2>2, <1>14, <1>20
      <3>2. CASE Pending(d, ref)
        <4>1. PICK i \in 1..Len(queue) : queue[i].ref = ref /\ queue[i].depth = d[ref]
          BY <3>2 DEF Pending
        <4>2. i \in 1..Len(queue') /\ queue'[i] = queue[i]
          BY <1>8, <1>11
        <4>3. QED
          BY <3>1, <4>1, <4>2 DEF Pending
      <3>3. CASE ~ Pending(d, ref)
        <4>1. \A f \in Out(ref) : \/ Followed(d, ref, f)
                                  \/ current.ref = ref /\ current.depth = d[ref] /\ f \in work
          BY <2>2, <3>1, <3>3, <1>3 DEF Spread
        <4>2. ASSUME NEW f \in Out(ref)
              PROVE  \/ Followed(far, ref, f)'
                     \/ current.ref = ref /\ current.depth = far[ref] /\ f \in work'
          <5>1. CASE Followed(d, ref, f)
            BY <5>1, <2>2, <1>18
          <5>2. CASE f = e /\ current.depth = d[ref]
            BY <5>2, <2>2, <1>19
          <5>3. CASE f # e /\ current.ref = ref /\ current.depth = d[ref] /\ f \in work
            BY <5>3, <3>1, <1>1
          <5>4. QED
            BY <4>1, <5>1, <5>2, <5>3
        <4>3. QED
          BY <4>2
      <3>4. QED
        BY <3>2, <3>3
    <2>3. QED
      BY <2>1, <2>2
  <1>21. \A ref \in Seeds' : ref \in Visited' /\ far[ref] = 0
    BY <1>2, <1>3, <1>4, <1>14 DEF Spread
  <1>22. Spread(far)'
    BY <1>1, <1>4, <1>8, <1>14, <1>16, <1>17, <1>20, <1>21 DEF Spread
  <1>23. QED
    BY <1>1, <1>22 DEF Spreading

LEMMA SpreadStep ==
  ASSUME Reaching, Spreading, [ImpactNext]_impactVars
  PROVE  Spreading'
  <1>1. CASE Forward
    BY <1>1 DEF Forward, Spreading
  <1>2. CASE TurnBack
    BY <1>2 DEF TurnBack, Spreading
  <1>3. CASE Dequeue
    BY <1>3 DEF Dequeue, Spreading
  <1>4. CASE SeekEffects
    BY <1>4, SpreadBegins
  <1>5. CASE Effect
    BY <1>5, SpreadTakes
  <1>6. ASSUME NEW e \in work, Relax(e) PROVE Spreading'
    BY <1>6 DEF Relax, Spreading
  <1>7. ASSUME NEW e \in work, Follow(e) PROVE Spreading'
    BY <1>7, SpreadFollows
  <1>8. ASSUME change' = change, queue' = queue, current' = current, work' = work,
               effects' = effects, phase' = phase \/ (phase = "effects" /\ work = {} /\ queue = <<>>)
        PROVE  Spreading'
    <2>1. /\ Refs' = Refs /\ Seeds' = Seeds
          /\ \A ref : Out(ref)' = Out(ref) /\ Kind(ref)' = Kind(ref)
      BY <1>8, SameGraph
    <2>2. Visited' = Visited /\ Ways' = Ways
      BY <1>8, <2>1 DEF Visited, Ways
    <2>3. \A d, ref, e : Followed(d, ref, e)' = Followed(d, ref, e)
      BY <1>8, <2>1, <2>2 DEF Followed
    <2>4. \A d, ref : Pending(d, ref)' = Pending(d, ref)
      BY <1>8 DEF Pending
    <2>5. ASSUME NEW d, Spread(d) PROVE Spread(d)'
      BY <1>8, <2>1, <2>2, <2>3, <2>4, <2>5 DEF Spread, LevelByLevel, AtWork
    <2>6. phase' \in {"effects", "done"} => \E d : Spread(d)'
      BY <1>8, <2>5 DEF Spreading
    <2>7. phase' = "done" => work' = {} /\ queue' = <<>>
      BY <1>8 DEF Spreading
    <2>8. QED
      BY <2>6, <2>7 DEF Spreading
  <1>9. CASE Conclude
    BY <1>9, <1>8 DEF Conclude
  <1>10. CASE UNCHANGED impactVars
    BY <1>10, <1>8 DEF impactVars
  <1>11. QED
    BY <1>1, <1>2, <1>3, <1>4, <1>5, <1>6, <1>7, <1>9, <1>10 DEF ImpactNext

-----------------------------------------------------------------------------
(* Upstream and Downstream, which are defined by recursion, are what their *)
(* equations say: the walks of n steps, or as many that stand, satisfy     *)
(* them.                                                                   *)
Walk(S, R, p, n) ==
  p[0] \in S /\ \A i \in 0..n - 1 : p[i + 1] = p[i] \/ <<p[i], p[i + 1]>> \in R

Ends(V, S, R, n) == {y \in V : \E p \in [0..n -> V] : Walk(S, R, p, n) /\ p[n] = y}
Beyond(V, R, T) == {y \in V : \E x \in T : <<x, y>> \in R}
Layered(V, S, R, f) ==
  f = [n \in Nat |-> IF n = 0 THEN S ELSE f[n - 1] \cup Beyond(V, R, f[n - 1])]

LEMMA WalksStart ==
  ASSUME NEW V, NEW S \in SUBSET V, NEW R
  PROVE  Ends(V, S, R, 0) = S
  <1>1. ASSUME NEW y \in S PROVE y \in Ends(V, S, R, 0)
    <2>1. PICK p : p = [i \in 0..0 |-> y]
      OBVIOUS
    <2>2. p \in [0..0 -> V] /\ p[0] = y
      BY <2>1
    <2>3. Walk(S, R, p, 0)
      BY <2>2 DEF Walk
    <2>4. QED
      BY <2>2, <2>3 DEF Ends
  <1>2. Ends(V, S, R, 0) \subseteq S
    BY DEF Ends, Walk
  <1>3. QED
    BY <1>1, <1>2

LEMMA WalksGoOn ==
  ASSUME NEW V, NEW S \in SUBSET V, NEW R, NEW n \in Nat \ {0}
  PROVE  Ends(V, S, R, n) = Ends(V, S, R, n - 1) \cup Beyond(V, R, Ends(V, S, R, n - 1))
  <1>n. n - 1 \in Nat /\ n - 1 \in 0..n /\ n \in 0..n /\ 0 \in 0..n - 1
    OBVIOUS
  <1>1. ASSUME NEW y \in Ends(V, S, R, n)
        PROVE  y \in Ends(V, S, R, n - 1) \/ \E x \in Ends(V, S, R, n - 1) : <<x, y>> \in R
    <2>1. PICK p \in [0..n -> V] : Walk(S, R, p, n) /\ p[n] = y
      BY DEF Ends
    <2>2. PICK q : q = [i \in 0..n - 1 |-> p[i]]
      OBVIOUS
    <2>3. /\ q \in [0..n - 1 -> V] /\ q[n - 1] = p[n - 1]
          /\ \A i \in 0..n - 1 : q[i] = p[i]
      BY <2>2
    <2>4. Walk(S, R, q, n - 1)
      <3>1. q[0] \in S
        BY <2>1, <2>3, <1>n DEF Walk
      <3>2. ASSUME NEW i \in 0..(n - 1) - 1
            PROVE  q[i + 1] = q[i] \/ <<q[i], q[i + 1]>> \in R
        <4>1. i \in 0..n - 1 /\ i + 1 \in 0..n - 1
          OBVIOUS
        <4>2. p[i + 1] = p[i] \/ <<p[i], p[i + 1]>> \in R
          BY <4>1, <2>1 DEF Walk
        <4>3. q[i] = p[i] /\ q[i + 1] = p[i + 1]
          BY <4>1, <2>3
        <4>4. QED
          BY <4>2, <4>3
      <3>3. QED
        BY <3>1, <3>2 DEF Walk
    <2>5. p[n - 1] \in Ends(V, S, R, n - 1)
      BY <2>1, <2>3, <2>4, <1>n DEF Ends
    <2>6. p[(n - 1) + 1] = p[n - 1] \/ <<p[n - 1], p[(n - 1) + 1]>> \in R
      <3>1. n - 1 \in 0..n - 1
        OBVIOUS
      <3>2. QED
        BY <3>1, <2>1 DEF Walk
    <2>7. (n - 1) + 1 = n
      OBVIOUS
    <2>8. QED
      BY <2>1, <2>5, <2>6, <2>7
  <1>2. ASSUME NEW y \in V, NEW x \in Ends(V, S, R, n - 1), y = x \/ <<x, y>> \in R
        PROVE  y \in Ends(V, S, R, n)
    <2>1. PICK q \in [0..n - 1 -> V] : Walk(S, R, q, n - 1) /\ q[n - 1] = x
      BY DEF Ends
    <2>2. PICK p : p = [i \in 0..n |-> IF i = n THEN y ELSE q[i]]
      OBVIOUS
    <2>3. /\ p \in [0..n -> V] /\ p[n] = y
          /\ \A i \in 0..n - 1 : p[i] = q[i]
      <3>1. \A i \in 0..n - 1 : i \in 0..n /\ i # n
        OBVIOUS
      <3>2. \A i \in 0..n : i = n \/ i \in 0..n - 1
        OBVIOUS
      <3>3. QED
        BY <3>1, <3>2, <2>2, <1>n
    <2>4. Walk(S, R, p, n)
      <3>1. p[0] \in S
        BY <2>1, <2>3, <1>n DEF Walk
      <3>2. ASSUME NEW i \in 0..n - 1
            PROVE  p[i + 1] = p[i] \/ <<p[i], p[i + 1]>> \in R
        <4>1. CASE i = n - 1
          <5>1. i + 1 = n /\ p[i] = x
            BY <4>1, <2>1, <2>3
          <5>2. QED
            BY <5>1, <2>3, <1>2
        <4>2. CASE i # n - 1
          <5>1. i \in 0..(n - 1) - 1 /\ i + 1 \in 0..n - 1
            BY <4>2
          <5>2. q[i + 1] = q[i] \/ <<q[i], q[i + 1]>> \in R
            BY <5>1, <2>1 DEF Walk
          <5>3. p[i] = q[i] /\ p[i + 1] = q[i + 1]
            BY <5>1, <2>3
          <5>4. QED
            BY <5>2, <5>3
        <4>3. QED
          BY <4>1, <4>2
      <3>3. QED
        BY <3>1, <3>2 DEF Walk
    <2>5. QED
      BY <2>3, <2>4 DEF Ends
  <1>3. Ends(V, S, R, n) \subseteq V /\ Ends(V, S, R, n - 1) \subseteq V
    BY DEF Ends
  <1>4. QED
    BY <1>1, <1>2, <1>3 DEF Beyond

LEMMA Layers ==
  ASSUME NEW V, NEW S \in SUBSET V, NEW R
  PROVE  \E f : Layered(V, S, R, f)
  <1>1. PICK f : f = [n \in Nat |-> Ends(V, S, R, n)]
    OBVIOUS
  <1>2. f[0] = S
    BY <1>1, WalksStart
  <1>3. ASSUME NEW n \in Nat, n # 0
        PROVE  f[n] = f[n - 1] \cup Beyond(V, R, f[n - 1])
    <2>1. n - 1 \in Nat /\ n \in Nat \ {0}
      BY <1>3
    <2>2. f[n] = Ends(V, S, R, n) /\ f[n - 1] = Ends(V, S, R, n - 1)
      BY <1>1, <2>1
    <2>3. QED
      BY <2>1, <2>2, WalksGoOn
  <1>4. QED
    BY <1>1, <1>2, <1>3 DEF Layered

LEMMA UpstreamGrows ==
  ASSUME change \in Changes
  PROVE  /\ Upstream[0] = Seeds
         /\ \A n \in Nat \ {0} :
              Upstream[n] = Upstream[n - 1] \cup {e.from : e \in UNION {In(ref) : ref \in Upstream[n - 1]}}
  <1>1. PICK R : R = {<<e.to, e.from>> : e \in {f \in Graph.edges : Meets(f)}}
    OBVIOUS
  <1>2. PICK f : Layered(Refs, Seeds, R, f)
    BY GraphIsOver, Layers
  <1>3. \A T : Beyond(Refs, R, T) = {e.from : e \in UNION {In(ref) : ref \in T}}
    BY <1>1, GraphIsOver DEF In, Beyond
  <1>4. f = [n \in Nat |->
               IF n = 0 THEN Seeds
               ELSE f[n - 1] \cup {e.from : e \in UNION {In(ref) : ref \in f[n - 1]}}]
    BY <1>2, <1>3, Zenon DEF Layered
  <1>5. Upstream = [n \in Nat |->
                      IF n = 0 THEN Seeds
                      ELSE Upstream[n - 1] \cup {e.from : e \in UNION {In(ref) : ref \in Upstream[n - 1]}}]
    BY <1>4, Zenon DEF Upstream
  <1>6. QED
    BY <1>5

LEMMA DownstreamGrows ==
  ASSUME change \in Changes
  PROVE  /\ Downstream[0] = Seeds
         /\ \A n \in Nat \ {0} :
              Downstream[n] = Downstream[n - 1]
                                \cup {e.to : e \in UNION {Out(ref) : ref \in Downstream[n - 1]}}
  <1>1. PICK R : R = {<<e.from, e.to>> : e \in {f \in Graph.edges : Meets(f)}}
    OBVIOUS
  <1>2. PICK f : Layered(Refs, Seeds, R, f)
    BY GraphIsOver, Layers
  <1>3. \A T : Beyond(Refs, R, T) = {e.to : e \in UNION {Out(ref) : ref \in T}}
    BY <1>1, GraphIsOver DEF Out, Beyond
  <1>4. f = [n \in Nat |->
               IF n = 0 THEN Seeds
               ELSE f[n - 1] \cup {e.to : e \in UNION {Out(ref) : ref \in f[n - 1]}}]
    BY <1>2, <1>3, Zenon DEF Layered
  <1>5. Downstream = [n \in Nat |->
                        IF n = 0 THEN Seeds
                        ELSE Downstream[n - 1]
                               \cup {e.to : e \in UNION {Out(ref) : ref \in Downstream[n - 1]}}]
    BY <1>4, Zenon DEF Downstream
  <1>6. QED
    BY <1>5

(* A set of numbers has a least: 1..n is a least finite set.               *)
LEMMA LeastNumber ==
  ASSUME NEW S, S \subseteq Nat, S # {}
  PROVE  \E n \in S : \A m \in S : n <= m
  <1> DEFINE Initial == {1..m : m \in S}
  <1>1. Initial \subseteq FiniteSubsetsOf(Nat) /\ Initial # {}
    <2>1. \A m \in S : 1..m \in FiniteSubsetsOf(Nat)
      BY FS_Interval DEF FiniteSubsetsOf
    <2>2. QED
      BY <2>1
  <1>2. PICK i \in Initial : \A j \in Initial : ~ (<<j, i>> \in StrictSubsetOrdering(Nat))
    <2> HIDE DEF Initial
    <2>1. QED
      BY <1>1, FS_StrictSubsetOrderingWellFounded, WFMin
  <1>3. PICK n \in S : i = 1..n
    BY <1>2
  <1>4. ASSUME NEW m \in S, m < n PROVE FALSE
    <2>1. 1..m \in Initial /\ 1..m \subseteq 1..n /\ 1..m # 1..n /\ 1..n \in FiniteSubsetsOf(Nat)
      BY <1>1, <1>3, <1>4
    <2>2. <<1..m, 1..n>> \in StrictSubsetOrdering(Nat)
      BY <1>1, <2>1 DEF StrictSubsetOrdering
    <2>3. QED
      BY <1>2, <1>3, <2>1, <2>2
  <1>5. QED
    BY <1>4

(* Whatever depends on the change within the depth is reached, no further  *)
(* away than it is.                                                        *)
LEMMA UpstreamIsReached ==
  ASSUME Reaching, phase = "done"
  PROVE  Upstream[MaxDepth] \subseteq DOMAIN reached
  <1> DEFINE near(n) == \A ref \in Upstream[n] : ref \in DOMAIN reached /\ reached[ref].depth <= n
             far == {n \in Nat : n <= MaxDepth /\ ~ near(n)}
  <1>m. MaxDepth \in Nat /\ change \in Changes
    BY ImpactAssumption DEF Reaching, Begun
  <1>1. near(0)
    <2>1. ASSUME NEW ref \in Seeds PROVE ref \in DOMAIN reached /\ reached[ref].depth = 0
      <3>1. ref \in DOMAIN roots /\ ref \in DOMAIN reached /\ Explained(ref)
        BY DEF Reaching, Begun, Explains
      <3>2. QED
        BY <3>1 DEF Explained, Root
    <2>2. QED
      BY <2>1, <1>m, UpstreamGrows
  <1>2. ASSUME NEW n \in Nat \ {0}, n <= MaxDepth, near(n - 1)
        PROVE  near(n)
    <2>1. ASSUME NEW ref \in Upstream[n - 1], NEW e \in In(ref)
          PROVE  e.from \in DOMAIN reached /\ reached[e.from].depth <= n
      <3>1. ref \in DOMAIN reached /\ reached[ref].depth <= n - 1
        BY <1>2
      <3>2. \A r \in DOMAIN reached : reached[r].depth \in Nat
        BY Measured
      <3>3. e.to = ref /\ Explored(e)
        <4>1. e.to = ref
          BY DEF In
        <4>2. reached[ref].depth < MaxDepth
          BY <3>1, <3>2, <1>2, <1>m
        <4>3. QED
          BY <4>1, <4>2, <3>1 DEF Reaching, Finished
      <3>4. QED
        BY <3>1, <3>2, <3>3 DEF Explored
    <2>2. ASSUME NEW ref \in Upstream[n - 1]
          PROVE  ref \in DOMAIN reached /\ reached[ref].depth <= n
      <3>1. ref \in DOMAIN reached /\ reached[ref].depth <= n - 1 /\ reached[ref].depth \in Nat
        BY <1>2, Measured
      <3>2. QED
        BY <3>1
    <2>3. Upstream[n] = Upstream[n - 1] \cup {e.from : e \in UNION {In(ref) : ref \in Upstream[n - 1]}}
      BY <1>m, UpstreamGrows
    <2>4. QED
      BY <2>1, <2>2, <2>3
  <1>3. far = {}
    <2> SUFFICES ASSUME far # {} PROVE FALSE
      OBVIOUS
    <2>1. PICK n \in far : \A m \in far : n <= m
      <3>1. far \subseteq Nat
        OBVIOUS
      <3> HIDE DEF far
      <3>2. QED
        BY <3>1, LeastNumber
    <2>2. n \in Nat \ {0} /\ n <= MaxDepth /\ ~ near(n)
      BY <2>1, <1>1
    <2>3. near(n - 1)
      <3>1. n - 1 \in Nat /\ n - 1 <= MaxDepth /\ ~ (n <= n - 1)
        BY <2>2, <1>m
      <3>2. n - 1 \notin far
        <4> HIDE DEF far
        <4>1. QED
          BY <2>1, <3>1
      <3>3. QED
        BY <3>1, <3>2
    <2> HIDE DEF near
    <2>4. QED
      BY <2>2, <2>3, <1>2
  <1>4. near(MaxDepth)
    BY <1>3, <1>m
  <1>5. QED
    BY <1>4

(* Whatever the change leads to within the depth is visited, and if it is  *)
(* a side effect it is found.                                              *)
LEMMA DownstreamIsFound ==
  ASSUME Reaching, Spreading, phase = "done"
  PROVE  \A ref \in Downstream[MaxDepth] \ Seeds : Kind(ref) \in SideEffects => ref \in Found
  <1>m. MaxDepth \in Nat /\ change \in Changes
    BY ImpactAssumption DEF Reaching, Begun
  <1>d. PICK d : Spread(d)
    BY DEF Spreading
  <1>t. \A ref \in Visited : d[ref] \in Nat
    BY <1>d DEF Spread
  <1>s. ASSUME NEW ref \in Visited, d[ref] < MaxDepth, NEW e \in Out(ref)
        PROVE  Followed(d, ref, e)
    <2>1. work = {} /\ queue = <<>> /\ 1..Len(queue) = {}
      BY DEF Spreading
    <2>2. QED
      BY <1>s, <1>d, <2>1 DEF Spread, Pending
  <1> DEFINE near(n) == \A ref \in Downstream[n] :
                          /\ ref \in Visited /\ d[ref] <= n
                          /\ ref \notin Seeds /\ Kind(ref) \in SideEffects => ref \in DOMAIN effects.found
             far == {n \in Nat : n <= MaxDepth /\ ~ near(n)}
  <1>1. near(0)
    <2>1. \A ref \in Seeds : ref \in Visited /\ d[ref] = 0
      BY <1>d DEF Spread
    <2>2. QED
      BY <2>1, <1>m, DownstreamGrows
  <1>2. ASSUME NEW n \in Nat \ {0}, n <= MaxDepth, near(n - 1)
        PROVE  near(n)
    <2>1. ASSUME NEW ref \in Downstream[n - 1], NEW e \in Out(ref)
          PROVE  /\ e.to \in Visited /\ d[e.to] <= n
                 /\ Kind(e.to) \in SideEffects => e.to \in DOMAIN effects.found
      <3>1. ref \in Visited /\ d[ref] <= n - 1 /\ d[ref] \in Nat
        BY <1>2, <1>t
      <3>2. d[ref] < MaxDepth
        BY <3>1, <1>2, <1>m
      <3>3. Followed(d, ref, e)
        BY <3>1, <3>2, <1>s
      <3>4. e.to \in Visited /\ d[e.to] <= d[ref] + 1 /\ d[e.to] \in Nat
        BY <3>3, <1>t DEF Followed
      <3>5. d[e.to] <= n
        BY <3>1, <3>4
      <3>6. QED
        BY <3>3, <3>4, <3>5 DEF Followed
    <2>2. ASSUME NEW ref \in Downstream[n - 1]
          PROVE  /\ ref \in Visited /\ d[ref] <= n
                 /\ ref \notin Seeds /\ Kind(ref) \in SideEffects => ref \in DOMAIN effects.found
      <3>1. /\ ref \in Visited /\ d[ref] <= n - 1 /\ d[ref] \in Nat
            /\ ref \notin Seeds /\ Kind(ref) \in SideEffects => ref \in DOMAIN effects.found
        BY <1>2, <1>t
      <3>2. d[ref] <= n
        BY <3>1
      <3>3. QED
        BY <3>1, <3>2
    <2>3. Downstream[n] = Downstream[n - 1]
                            \cup {e.to : e \in UNION {Out(ref) : ref \in Downstream[n - 1]}}
      BY <1>m, DownstreamGrows
    <2>4. ASSUME NEW r \in Downstream[n]
          PROVE  /\ r \in Visited /\ d[r] <= n
                 /\ r \notin Seeds /\ Kind(r) \in SideEffects => r \in DOMAIN effects.found
      <3>1. CASE r \in Downstream[n - 1]
        BY <3>1, <2>2
      <3>2. CASE r \notin Downstream[n - 1]
        <4>1. PICK ref \in Downstream[n - 1] : \E e \in Out(ref) : r = e.to
          BY <3>2, <2>3, <2>4
        <4>2. PICK e \in Out(ref) : r = e.to
          BY <4>1
        <4>3. QED
          BY <4>2, <2>1
      <3>3. QED
        BY <3>1, <3>2
    <2>5. QED
      BY <2>4
  <1>3. far = {}
    <2> SUFFICES ASSUME far # {} PROVE FALSE
      OBVIOUS
    <2>1. PICK n \in far : \A m \in far : n <= m
      <3>1. far \subseteq Nat
        OBVIOUS
      <3> HIDE DEF far
      <3>2. QED
        BY <3>1, LeastNumber
    <2>2. n \in Nat \ {0} /\ n <= MaxDepth /\ ~ near(n)
      BY <2>1, <1>1
    <2>3. near(n - 1)
      <3>1. n - 1 \in Nat /\ n - 1 <= MaxDepth /\ ~ (n <= n - 1)
        BY <2>2, <1>m
      <3>2. n - 1 \notin far
        <4> HIDE DEF far
        <4>1. QED
          BY <2>1, <3>1
      <3>3. QED
        BY <3>1, <3>2
    <2> HIDE DEF near
    <2>4. QED
      BY <2>2, <2>3, <1>2
  <1>4. near(MaxDepth)
    BY <1>3, <1>m
  <1>5. QED
    BY <1>4 DEF Found

(* Whatever a rewritten file declares may have changed.                    *)
LEMMA DeclarationsAreChanged ==
  ASSUME NEW ref \in DOMAIN Node, Kind(ref) \notin Containers,
         NEW file \in Rewritten, Node[ref].file = Node[file].file
  PROVE  \E x \in Entities(change) : x.ref = ref
  <1> DEFINE base == change.base.node
             entities == EntityChanges(base, Node)
  <1>1. Entities(change) = ExpandUncertainty(entities, Node)
    BY DEF Entities, Node, Graph
  <1>2. PICK x \in entities : x.kind = "file" /\ x.op = "changed" /\ x.file = Node[ref].file
    <2>1. file \in DOMAIN base \cap DOMAIN Node /\ base[file] # Node[file] /\ Node[file].kind = "file"
      BY DEF Rewritten, Kind
    <2>2. EntityChange(file, Node[file], "changed") \in entities
      BY <2>1 DEF EntityChanges
    <2>3. QED
      BY <2>1, <2>2 DEF EntityChange
  <1>3. CASE \E y \in entities : y.ref = ref
    <2> HIDE DEF entities
    <2>1. ASSUME NEW y \in entities PROVE y \in ExpandUncertainty(entities, Node)
      BY Zenon DEF ExpandUncertainty
    <2>2. QED
      BY <1>1, <1>3, <2>1
  <1>4. CASE \A y \in entities : y.ref # ref
    <2> DEFINE y == [EntityChange(ref, Node[ref], "changed") EXCEPT
                       !.confidence = Weaker(@, 5), !.inferred = TRUE]
    <2>1. Node[ref].kind \notin Containers
      BY DEF Kind
    <2>2. y \in ExpandUncertainty(entities, Node)
      <3> HIDE DEF entities
      <3>1. QED
        BY <1>2, <1>4, <2>1, Zenon DEF ExpandUncertainty
    <2>3. y.ref = ref
      BY DEF EntityChange
    <2>4. QED
      BY <1>1, <2>2, <2>3
  <1>5. QED
    BY <1>3, <1>4

LEMMA SpreadingObliges ==
  ASSUME Reaching, Spreading
  PROVE  NothingUnobliged
  <1> SUFFICES ASSUME phase = "done" PROVE NothingUnobliged
    BY DEF NothingUnobliged
  <1>1. ASSUME NEW ref \in DOMAIN Node, Kind(ref) \notin Containers,
               Node[ref].file \in {Node[file].file : file \in Rewritten}
        PROVE  Obliged({"local_behavior", "public_contract", "test_intent"}, ref)
    <2>1. PICK file \in Rewritten : Node[ref].file = Node[file].file
      BY <1>1
    <2>2. PICK x \in Entities(change) : x.ref = ref
      BY <1>1, <2>1, DeclarationsAreChanged
    <2>3. ObligationOf(x) \in Obligations
      BY DEF Obligations
    <2>4. /\ ObligationOf(x).ref = ref
          /\ ObligationOf(x).type \in {"local_behavior", "public_contract", "test_intent"}
      BY <2>2 DEF ObligationOf
    <2>5. QED
      BY <2>3, <2>4 DEF Obliged
  <1>2. ASSUME NEW ref \in (Upstream[MaxDepth] \cap DOMAIN Node) \ Seeds
        PROVE  /\ Kind(ref) \notin Containers \cup Tests => Obliged({"consumer_behavior"}, ref)
               /\ Kind(ref) = "test" => ref \in RecommendedTests
    <2>1. ref \in DOMAIN reached
      BY UpstreamIsReached
    <2>2. ref \in (DOMAIN reached \ DOMAIN roots) \cup Implementations
      BY <2>1 DEF Implementations
    <2>3. Kind(ref) \notin Containers => ref \in Items
      BY <2>2 DEF Items
    <2>4. Items = Impacted
      BY DEF Impacted, Transitive, Direct
    <2>5. ASSUME Kind(ref) \notin Containers \cup Tests
          PROVE  Obliged({"consumer_behavior"}, ref)
      <3>1. ref \in {r \in Impacted : Kind(r) \notin Tests}
        BY <2>3, <2>4, <2>5
      <3> DEFINE o == [type |-> "consumer_behavior", ref |-> ref, uncertain |-> ShownInferred(ref)]
      <3>2. o \in Obligations
        BY <3>1, Zenon DEF Obligations
      <3>3. o.type \in {"consumer_behavior"} /\ o.ref = ref
        OBVIOUS
      <3> HIDE DEF o
      <3>4. QED
        BY <3>2, <3>3 DEF Obliged
    <2>6. ASSUME Kind(ref) = "test" PROVE ref \in RecommendedTests
      <3>1. Kind(ref) \notin Containers
        BY <2>6 DEF Containers
      <3>2. QED
        BY <3>1, <2>3, <2>6 DEF RecommendedTests
    <2>7. QED
      BY <2>5, <2>6
  <1>3. ASSUME NEW ref \in Downstream[MaxDepth] \ Seeds, Kind(ref) \in SideEffects
        PROVE  Obliged({"side_effect"}, ref)
    <2>1. ref \in Found
      BY <1>3, DownstreamIsFound
    <2> DEFINE o == [type |-> "side_effect", ref |-> ref, uncertain |-> FALSE]
    <2>2. o \in Obligations
      BY <2>1, Zenon DEF Obligations
    <2>3. o.type \in {"side_effect"} /\ o.ref = ref
      OBVIOUS
    <2> HIDE DEF o
    <2>4. QED
      BY <2>2, <2>3 DEF Obliged
  <1>4. \A o \in Obligations : Accepted(o) # {} \/ o \in Uncovered
    BY DEF Uncovered
  <1>5. QED
    BY <1>1, <1>2, <1>3, <1>4 DEF NothingUnobliged

(* For any graphs, equivalences, depth and thresholds: whatever a          *)
(* rewritten file declares, whatever depends on the change within the      *)
(* depth and every side effect it leads to there leaves one, and every     *)
(* test among the dependents is selected.                                  *)
THEOREM ChangesAreObliged == ImpactSpec => []NothingUnobliged
  <1>1. ImpactInit => Reaching /\ Spreading
    BY ReachingInit DEF ImpactInit, Spreading
  <1>2. (Reaching /\ Spreading) /\ [ImpactNext]_impactVars => (Reaching /\ Spreading)'
    BY ReachingStep, SpreadStep
  <1>3. Reaching /\ Spreading => NothingUnobliged
    BY SpreadingObliges
  <1>4. QED
    BY <1>1, <1>2, <1>3, PTL DEF ImpactSpec
=============================================================================
