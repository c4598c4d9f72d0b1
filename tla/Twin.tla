-------------------------------- MODULE Twin --------------------------------
(***************************************************************************)
(* TwinService, src/src/extendcodeagent/twin/lifecycle.py, as the sidecars *)
(* of one project drive it: a worktree that keeps changing, the change     *)
(* events each sidecar still has to handle, and the revisions they build   *)
(* in the shared store.  A refresh is five steps, because the worktree and *)
(* the store move under it: read the head, read the sources, read the head *)
(* again and the facts to replace, parse the files from disk, apply.       *)
(*                                                                         *)
(* The store is RevisionHistory, which GraphStore implements, plus the log *)
(* of idempotency keys.  The facts whose source_ref is a file are one fact *)
(* of it: the content hash of its file node, and what its analysis saw of  *)
(* the file and of the files it imports.  The nodes that files share are   *)
(* kept apart, as their source_ref says less: a directory, which only a    *)
(* full build writes, and a dependency, which belongs to whichever of its  *)
(* importers an analysis meets first.  What a file imports is fixed, and   *)
(* every present file is assumed to define what its importers name.        *)
(* Reading all sources is one step, and so is parsing them.                *)
(*                                                                         *)
(* DependentPathsDirect, ReadAgain, InvalidationsOfPaths and               *)
(* ConflictsNever are no part of the model: each is a plausible mistake in *)
(* the operator after it, swapped in by PROJECT.json.                      *)
(***************************************************************************)
EXTENDS Naturals, FiniteSets

CONSTANTS
  Processes,      (* Sidecars.                                              *)
  Paths,          (* Files.                                                 *)
  Imports,        (* Pairs <<importer, imported>>.                          *)
  Uses,           (* Path -> dependencies from outside that it imports.     *)
  Above,          (* Path -> directories above it.                          *)
  OtherModules,   (* How many modules the project has that never change,    *)
                  (* and import nothing the others do.                      *)
  Scenarios,      (* What happens in a behaviour: records [sidecars, files, *)
                  (* happens, edits] of the sidecars that share the store,  *)
                  (* the files that change, the events below that occur,    *)
                  (* and a bound on the edits.                              *)
  MaxEdits,       (* Bound: the edits of any scenario.                      *)
  MaxRevisions    (* Bound: revisions in a behaviour.                       *)

(* "first": the store starts empty; "open": an event without paths;        *)
(* "overflow": one that stands for paths that a full queue has dropped;    *)
(* "create": a missing file appears; "return": a file gets a content it    *)
(* had; "restart": a process dies with its events.                         *)
Happenings == {"first", "open", "overflow", "create", "return", "restart"}

ASSUME ImportsAssumption == Imports \subseteq Paths \X Paths
ASSUME SharesAssumption == DOMAIN Uses = Paths /\ DOMAIN Above = Paths
ASSUME BoundsAssumption ==
  MaxEdits \in Nat /\ MaxRevisions \in Nat \ {0} /\ OtherModules \in Nat
ASSUME ScenariosAssumption ==
  Scenarios \subseteq [sidecars : SUBSET Processes, files : SUBSET Paths,
                       happens : SUBSET Happenings, edits : 0..MaxEdits]

Absent == 0
First == 1
Versions == Absent..(First + MaxEdits)
Trees == [Paths -> Versions]
Files(t) == { p \in Paths : t[p] # Absent }
NoRevision == 0

VARIABLES
  scenario,       (* What may happen in this behaviour.                     *)
  tree,           (* The worktree: the content version of every file.       *)
  edits,          (* How many edits there were.                             *)
  events,         (* Process -> changed paths it has not handled.           *)
  shows,          (* Revision id -> its facts, as <<path, fact>> pairs.     *)
  shared,         (* Revision id -> the nodes that files share.             *)
  head,           (* The current revision.                                  *)
  prints,         (* Revision id -> the worktree its fingerprint is of.     *)
  log,            (* Idempotency keys applied so far.                       *)
  pc,             (* What each process does next.                           *)
  local           (* What its current call has read so far.                 *)

store == <<shows, shared, head, prints, log>>
vars == <<scenario, tree, edits, events, shows, shared, head, prints, log, pc, local>>

Reads(p) == {p} \cup { q \in Paths : <<p, q>> \in Imports }
Fact == [hash : Versions \ {Absent}, seen : UNION {[Reads(p) -> Versions] : p \in Paths}]
Modes == {"full", "incremental"}

(* The directories there are nodes of, and whose each dependency node is.  *)
Shares ==
  [directories : SUBSET UNION { Above[p] : p \in Paths },
   owner : UNION { [xs -> Paths] : xs \in SUBSET UNION { Uses[p] : p \in Paths } }]

History ==
  INSTANCE RevisionHistory WITH Facts <- Paths, Payloads <- Fact, Ids <- 1..MaxRevisions

Steps == {"idle", "source", "match", "expand", "analyze", "apply"}
NoTree == [p \in Paths |-> Absent]
NoLocal ==
  [full |-> FALSE, source |-> NoTree, expected |-> NoRevision, prev |-> NoRevision,
   paths |-> {}, put |-> [p \in {} |-> Absent]]

TypeOK ==
  /\ scenario \in Scenarios
  /\ tree \in Trees
  /\ edits \in 0..MaxEdits
  /\ events \in [Processes -> SUBSET Paths]
  /\ head \in 0..MaxRevisions
  /\ DOMAIN shows = 1..head
  /\ \A id \in DOMAIN shows : shows[id] \subseteq Paths \X Fact
  /\ shared \in [1..head -> Shares]
  /\ prints \in [1..head -> Trees]
  /\ log \subseteq Trees \X Modes \X SUBSET Paths
  /\ pc \in [Processes -> Steps]
  /\ \A c \in Processes :
       /\ local[c].full \in BOOLEAN
       /\ local[c].source \in Trees
       /\ local[c].expected \in 0..head /\ local[c].prev \in 0..head
       /\ local[c].paths \subseteq Paths
       /\ DOMAIN local[c].put \subseteq Paths

(***************************************************************************)
(* What analysis makes of the sources.                                     *)
(***************************************************************************)

(* The fact of p when source lists its hash and the disk holds t.          *)
FactOf(p, source, t) == [hash |-> source[p], seen |-> [q \in Reads(p) |-> t[q]]]
Analysis(ps, source, t) == [p \in ps \cap Files(source) |-> FactOf(p, source, t)]

(* Every dependency of ps, with the first of ps that imports it; which of  *)
(* two files comes first is left open.                                     *)
Owners(ps) == [x \in UNION { Uses[p] : p \in ps } |-> CHOOSE p \in ps : x \in Uses[p]]
Directories(ps) == UNION { Above[p] : p \in ps }

(* A build from scratch of t while nothing moves.                          *)
Rebuild(t) == { <<p, FactOf(p, t, t)>> : p \in Files(t) }
RebuildShares(t) == [directories |-> Directories(Files(t)), owner |-> Owners(Files(t))]

ShownBy(id) == IF id = NoRevision THEN {} ELSE shows[id]
SharedBy(id) == IF id = NoRevision THEN RebuildShares(NoTree) ELSE shared[id]

(* The paths whose file parsed, and so has a module node and edges.        *)
Modules(shown) == { pair[1] : pair \in { x \in shown : x[2].seen[x[1]] # Absent } }

KeyOf(source, full, paths) ==
  <<source, IF full THEN "full" ELSE "incremental", paths>>

Init ==
  /\ scenario \in Scenarios
  /\ tree \in { t \in Trees :
                \A p \in Paths :
                  IF p \in scenario.files
                    THEN t[p] = First \/ ("create" \in scenario.happens /\ t[p] = Absent)
                    ELSE t[p] = Absent }
  /\ edits = 0
  /\ events = [c \in Processes |-> {}]
  /\ IF "first" \in scenario.happens
       THEN /\ History!Init
            /\ shared = [id \in {} |-> RebuildShares(NoTree)]
            /\ prints = [id \in {} |-> NoTree]
            /\ log = {}
       ELSE /\ shows = [id \in {1} |-> Rebuild(tree)]
            /\ shared = [id \in {1} |-> RebuildShares(tree)]
            /\ head = 1
            /\ prints = [id \in {1} |-> tree]
            /\ log = {KeyOf(tree, TRUE, Files(tree))}
  /\ pc = [c \in Processes |-> "idle"]
  /\ local = [c \in Processes |-> NoLocal]

(***************************************************************************)
(* The world: edits reach the event queue of every process.  An edit that  *)
(* changes nothing is a path reported again, as an event of another kind.  *)
(***************************************************************************)

NewVersions(p) ==
  (IF "return" \in scenario.happens THEN {First, First + 1} ELSE {First + edits + 1}) \cup {Absent}

Edit(p, v) ==
  /\ edits < scenario.edits
  /\ p \in scenario.files
  /\ v \in NewVersions(p) \cup {tree[p]}
  /\ tree[p] = Absent /\ v # Absent => "create" \in scenario.happens
  /\ tree' = [tree EXCEPT ![p] = v]
  /\ edits' = edits + 1
  /\ events' = [c \in Processes |-> events[c] \cup {p}]
  /\ UNCHANGED <<scenario, store, pc, local>>

(* A process dies and comes back: what it had not handled is forgotten.    *)
Restart(c) ==
  /\ "restart" \in scenario.happens
  /\ pc[c] # "idle" \/ events[c] # {}
  /\ events' = [events EXCEPT ![c] = {}]
  /\ pc' = [pc EXCEPT ![c] = "idle"]
  /\ local' = [local EXCEPT ![c] = NoLocal]
  /\ UNCHANGED <<scenario, tree, edits, store>>

(***************************************************************************)
(* process_event, open and refresh.                                        *)
(***************************************************************************)

Goto(c, from, to) == pc[c] = from /\ pc' = [pc EXCEPT ![c] = to]

(* process_event with paths and a head: refresh, which reads the head and  *)
(* then the sources.  The queue sends the paths of each kind of event in a *)
(* batch of their own.                                                     *)
Refresh(c, batch) ==
  /\ batch # {} /\ batch \subseteq events[c]
  /\ head # NoRevision
  /\ Goto(c, "idle", "source")
  /\ local' = [local EXCEPT ![c] = [NoLocal EXCEPT !.expected = head, !.paths = batch]]
  /\ events' = [events EXCEPT ![c] = @ \ batch]
  /\ UNCHANGED <<scenario, tree, edits, store>>

RefreshSource(c) ==
  /\ Goto(c, "source", "expand")
  /\ local' = [local EXCEPT ![c].source = tree]
  /\ UNCHANGED <<scenario, tree, edits, events, store>>

(* open: process_event without paths or without a head, and the first      *)
(* query.  It reads the sources and then the head.  An event without paths *)
(* is a tool call or, when a queue was full, all there is of its paths.    *)
Open(c, rest) ==
  /\ rest \subseteq events[c]
  /\ head # NoRevision => /\ scenario.happens \cap {"open", "overflow"} # {}
                          /\ rest = events[c] \/ "overflow" \in scenario.happens
  /\ Goto(c, "idle", "match")
  /\ local' = [local EXCEPT ![c] = [NoLocal EXCEPT !.full = TRUE, !.source = tree]]
  /\ events' = [events EXCEPT ![c] = rest]
  /\ UNCHANGED <<scenario, tree, edits, store>>

Matches(c) == head # NoRevision /\ prints[head] = local[c].source

OpenReady(c) ==
  /\ Matches(c)
  /\ Goto(c, "match", "idle")
  /\ local' = [local EXCEPT ![c] = NoLocal]
  /\ UNCHANGED <<scenario, tree, edits, events, store>>

OpenBuild(c) ==
  /\ ~ Matches(c)
  /\ Goto(c, "match", "expand")
  /\ local' = [local EXCEPT ![c].expected = head]
  /\ UNCHANGED <<scenario, tree, edits, events, store>>

(***************************************************************************)
(* _apply.                                                                 *)
(***************************************************************************)

(* The files whose edges point into ps, according to the facts shown.      *)
Dependents(shown, ps, files) ==
  { p \in Modules(shown) \cap files :
      \E pair \in shown : pair[1] = p /\ \E q \in ps \cap Modules(shown) \cap DOMAIN pair[2].seen :
                            q # p /\ pair[2].seen[q] # Absent }

(* Those whose edges point to a dependency node that belongs to one of ps. *)
Sharers(shown, owner, ps, files) ==
  { p \in Modules(shown) \cap files : \E x \in Uses[p] \cap DOMAIN owner : owner[x] \in ps }

DependentPathsDirect(shown, owner, changed, files) == changed

(* _dependent_paths: the smallest superset of changed closed under both.   *)
DependentPaths(shown, owner, changed, files) ==
  { p \in Paths : \A S \in SUBSET Paths :
                    /\ changed \subseteq S
                    /\ Dependents(shown, S, files) \subseteq S
                    /\ Sharers(shown, owner, S, files) \subseteq S
                    => p \in S }

(* _prefer_full_refresh: at least 40% of the modules are affected.         *)
PreferFullRefresh(shown, paths) ==
  LET all == Cardinality(Modules(shown)) + OtherModules
  IN  all > 0 /\ 10 * Cardinality(Modules(shown) \cap paths) >= 4 * all

ReadAgain(c) == head

(* What _apply replaces is what its caller read, not what it reads itself. *)
Expected(c) == local[c].expected

Expand(c) ==
  LET source == local[c].source
      paths == DependentPaths(ShownBy(head), SharedBy(head).owner, local[c].paths, Files(source))
      full == local[c].full \/ PreferFullRefresh(ShownBy(head), paths)
  IN /\ Goto(c, "expand", "analyze")
     /\ local' = [local EXCEPT ![c].prev = head, ![c].expected = Expected(c), ![c].full = full,
                               ![c].paths = IF full THEN Files(source) ELSE paths]
     /\ UNCHANGED <<scenario, tree, edits, events, store>>

Analyze(c) ==
  /\ Goto(c, "analyze", "apply")
  /\ local' = [local EXCEPT ![c].put = Analysis(local[c].paths, local[c].source, tree)]
  /\ UNCHANGED <<scenario, tree, edits, events, store>>

InvalidationsOfPaths(c) ==
  { pair[1] : pair \in { x \in ShownBy(local[c].prev) : x[1] \in local[c].paths } }
    \ DOMAIN local[c].put

(* Facts of the revision read by Expand that the analysis did not yield    *)
(* again: of the affected paths, or of all in a full build.                *)
Invalidations(c) ==
  { pair[1] : pair \in { x \in ShownBy(local[c].prev) : local[c].full \/ x[1] \in local[c].paths } }
    \ DOMAIN local[c].put

(* The shared nodes of the next revision.  Directories are written and     *)
(* replaced by full builds only.                                           *)
NextDirectories(c) ==
  IF local[c].full
    THEN (SharedBy(head).directories \ SharedBy(local[c].prev).directories)
           \cup Directories(DOMAIN local[c].put)
    ELSE SharedBy(head).directories

(* A dependency found goes to its first importer among the files analysed; *)
(* one not found goes if it belonged to an affected path.                  *)
NextOwner(c) ==
  LET parsed == { p \in DOMAIN local[c].put : local[c].put[p].seen[p] # Absent }
      found == Owners(parsed)
      read == SharedBy(local[c].prev).owner
      dropped == { x \in DOMAIN read : local[c].full \/ read[x] \in local[c].paths }
      old == SharedBy(head).owner
  IN  [x \in (DOMAIN old \ dropped) \cup DOMAIN found |->
         IF x \in DOMAIN found THEN found[x] ELSE old[x]]

NextShares(c) == [directories |-> NextDirectories(c), owner |-> NextOwner(c)]

Seen(key) == key \in log

ConflictsNever(c) == FALSE

(* An expected head that is no longer the head.                            *)
Conflicts(c) == local[c].expected # NoRevision /\ local[c].expected # head

(* store.apply.  A key that was seen answers READY with the revision it    *)
(* made then; a conflict answers DEGRADED, and nobody tries again.         *)
Apply(c) ==
  LET key == KeyOf(local[c].source, local[c].full, local[c].paths)
  IN /\ Goto(c, "apply", "idle")
     /\ local' = [local EXCEPT ![c] = NoLocal]
     /\ IF Seen(key) \/ Conflicts(c)
          THEN UNCHANGED store
          ELSE /\ head < MaxRevisions
               /\ History!Commit(head + 1, local[c].put, Invalidations(c))
               /\ shared' = [id \in 1..head + 1 |-> IF id > head THEN NextShares(c) ELSE shared[id]]
               /\ prints' = [id \in 1..head + 1 |-> IF id > head THEN local[c].source ELSE prints[id]]
               /\ log' = log \cup {key}
     /\ UNCHANGED <<scenario, tree, edits, events>>

Next ==
  \/ \E p \in Paths, v \in Versions : Edit(p, v)
  \/ \E c \in scenario.sidecars :
       \/ \E batch \in SUBSET Paths : Refresh(c, batch)
       \/ RefreshSource(c)
       \/ \E rest \in SUBSET Paths : Open(c, rest)
       \/ OpenReady(c)
       \/ OpenBuild(c)
       \/ Expand(c)
       \/ Analyze(c)
       \/ Apply(c)
       \/ Restart(c)

Spec == Init /\ [][Next]_vars

----------------------------------------------------------------------------
(* Properties.                                                             *)

Quiet == \A c \in scenario.sidecars : pc[c] = "idle" /\ events[c] = {}

(* What was analysed is as a rebuild from source would have it, and no     *)
(* dependency or directory that it would have is missing or left over, but *)
(* for directories without files.                                          *)
Current ==
  head # NoRevision =>
    /\ shows[head] = Rebuild(tree)
    /\ DOMAIN shared[head].owner = DOMAIN Owners(Files(tree))
    /\ Directories(Files(tree)) \subseteq shared[head].directories

(* One sidecar that outlives its project's edits to files it has seen.     *)
Undisturbed ==
  /\ \E c \in Processes : scenario.sidecars = {c}
  /\ scenario.happens \subseteq {"first", "open"}

(* Once every event is handled, the head is Current: whatever was edited   *)
(* while a refresh was under way, in whichever batches the paths arrived   *)
(* and whichever events without paths fell between them, and however the   *)
(* closure over importers and the switch to a full refresh fell out.       *)
Settled == Undisturbed /\ Quiet => Current

(* "Rebuild-from-source" of all there is: it would not have the directory  *)
(* whose last file was deleted, and may find another owner of a dependency *)
(* than the last refresh did, see the README.                              *)
SettledShares ==
  Undisturbed /\ Quiet /\ head # NoRevision => shared[head] = RebuildShares(tree)

(* A revision is computed from exactly the one it replaces: the head read  *)
(* first, the facts read later and the head replaced are the same.         *)
BuiltOnTheHead ==
  [][head' # head => \E c \in Processes : /\ pc[c] = "apply" /\ pc'[c] # "apply"
                                          /\ local[c].prev = head]_vars

(* A full build leaves nothing behind: what the new head shows is what the *)
(* build listed and analysed, and nothing of an older revision.            *)
FullBuildReplacesAll ==
  [][\A c \in Processes :
       head' # head /\ pc[c] = "apply" /\ pc'[c] # "apply" /\ local[c].full
         => { pair[1] : pair \in shows'[head'] } = Files(local[c].source)]_vars

(* w may be what a file is after it was v: each content is newer than the  *)
(* one before, and a file that is gone may be.                             *)
Past(v, w) == w = Absent \/ v <= w

(* What c replaces the facts of a file by is no older than what it found.  *)
TurnsNothingBack(c) ==
  pc[c] = "apply" /\ pc'[c] # "apply" /\ head' # head =>
    \A x \in ShownBy(head), y \in shows'[head'] :
      x[1] = y[1] => /\ x[2].hash <= y[2].hash
                     /\ \A q \in Reads(x[1]) : Past(x[2].seen[q], y[2].seen[q])

(* However many sidecars share the store, and whatever is created, lost or *)
(* restarted in between, an incremental refresh that takes puts no file    *)
(* back to a content older than the head had, nor what was seen of the     *)
(* files it imports: the head it may replace was read before its sources.  *)
(* Only where contents come back is there no older and newer to tell.      *)
RefreshNeverTurnsBack ==
  [][\A c \in Processes :
       "return" \notin scenario.happens /\ ~ local[c].full => TurnsNothingBack(c)]_vars

(* The same of every build.  open reads the sources before the head, so it *)
(* may replace newer facts by older ones, see the README.                  *)
BuildNeverTurnsBack ==
  [][\A c \in Processes : "return" \notin scenario.happens => TurnsNothingBack(c)]_vars

(* The content of every file, as the facts of a revision have it.          *)
Listed(id) == { <<pair[1], pair[2].hash>> : pair \in ShownBy(id) }

(* After a full build the head lists the files that the build listed.      *)
Takes(c) ==
  Apply(c) /\ local[c].full /\ ~ Conflicts(c)
    => Listed(head)' = { <<p, local[c].source[p]>> : p \in Files(local[c].source) }

(* "Rebuild-from-source": every full build takes.  The twin does not do it *)
(* once a content has come back, see the README.                           *)
FullBuildTakes == [][\A c \in Processes : Takes(c)]_vars

(* "Stale detection": when the fingerprint of the head says that the head  *)
(* is current, so that open answers READY without a build, its facts are.  *)
(* They need not be when a file is created, see the README.                *)
StaleIsDetectable == Quiet /\ head # NoRevision /\ prints[head] = tree => Current

============================================================================
