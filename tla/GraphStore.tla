----------------------------- MODULE GraphStore -----------------------------
(***************************************************************************)
(* SqliteGraphStore, src/src/extendcodeagent/storage/sqlite.py: the tables *)
(* of one (project, workspace) scope and the operations that several       *)
(* connections (the sidecars of a plugin and of an MCP server, tools) run  *)
(* against one database file.                                              *)
(*                                                                         *)
(* A write runs inside BEGIN IMMEDIATE .. COMMIT and is one step; a reader *)
(* runs one autocommitted SELECT after another and each is a step of its   *)
(* own, and so is what prune and import_snapshot read before they open     *)
(* their transaction.  A connection that dies inside a transaction leaves  *)
(* nothing behind, and one that dies between two steps takes no more.      *)
(*                                                                         *)
(* Left out: the payload of a fact beyond "which version of it", the       *)
(* status column (no query of the store reads it), SQL indexes, and the    *)
(* scope column, on which every statement filters.                         *)
(*                                                                         *)
(* CloseOneLate, SeenLast and ParentAsExpected are no part of the model:   *)
(* each is a plausible mistake in the operator after it, swapped in by     *)
(* PROJECT.json.                                                           *)
(***************************************************************************)
EXTENDS Naturals, FiniteSets

CONSTANTS
  Connections,    (* Open SqliteGraphStore objects.                         *)
  Nodes,          (* Canonical refs; a node_id is a function of the ref.    *)
  Edges,          (* Edge ids.                                              *)
  Payloads,       (* Versions of a fact.                                    *)
  Evidence,       (* Evidence ids.                                          *)
  Keys,           (* Idempotency keys of deltas.                            *)
  MaxRevisions    (* Bound: revisions committed in a behaviour.             *)

ASSUME MaxRevisionsAssumption == MaxRevisions \in Nat

Facts == Nodes \cup Edges

(* SQL NULL in valid_to, and the absence of a head: sequences and revision *)
(* ids start at 1.                                                         *)
Null == 0

VARIABLES
  revisions,      (* Table revisions: records [id, seq, parent].            *)
  head,           (* projects.head_revision_id.                             *)
  facts,          (* Tables nodes and edges: [fact, payload, from, to].     *)
  evidence,       (* Table evidence: records [item, seq].                   *)
  log,            (* Table delta_log: records [key, id].                    *)
  issued,         (* uuid4 values handed out: an id is never drawn twice.   *)
  file,           (* The snapshot file export_snapshot last wrote.          *)
  pc,             (* What each connection does next.                        *)
  local           (* What its current call has read so far.                 *)

tables == <<revisions, head, facts, evidence, log, issued>>
vars == <<revisions, head, facts, evidence, log, issued, file, pc, local>>

Revision == [id : Nat, seq : Nat, parent : Nat]
FactRow == [fact : Facts, payload : Payloads, from : Nat, to : Nat]

(* sha256 of an exported snapshot: its revision (which fixes the facts)    *)
(* and the evidence that was exported with it.                             *)
ImportKeys == Nat \X SUBSET Evidence

Steps == {"idle", "sequence", "nodes", "edges", "evidence", "answer", "delete", "import"}

(* The locals of a call: the revision it is about, the head an import goes *)
(* on top of, the sequence read (the cutoff of a prune), the facts and     *)
(* evidence read, the ids a prune deletes.                                 *)
Locals ==
  [id : Nat, base : Nat, seq : Nat, got : SUBSET (Facts \X Payloads), items : SUBSET Evidence,
   doomed : SUBSET Nat]
NoLocals == [id |-> Null, base |-> Null, seq |-> 0, got |-> {}, items |-> {}, doomed |-> {}]
NoFile == [id |-> Null, got |-> {}, items |-> {}]

TypeOK ==
  /\ revisions \subseteq Revision
  /\ head \in Nat
  /\ facts \subseteq FactRow
  /\ evidence \subseteq [item : Evidence, seq : Nat]
  /\ log \subseteq [key : Keys \cup ImportKeys, id : Nat]
  /\ issued \in Nat
  /\ file \in [id : Nat, got : SUBSET (Facts \X Payloads), items : SUBSET Evidence]
  /\ pc \in [Connections -> Steps]
  /\ local \in [Connections -> Locals]

Init ==
  /\ revisions = {}
  /\ head = Null
  /\ facts = {}
  /\ evidence = {}
  /\ log = {}
  /\ issued = 0
  /\ file = NoFile
  /\ pc = [c \in Connections |-> "idle"]
  /\ local = [c \in Connections |-> NoLocals]

(* A delta: the facts it writes (TwinService builds them in a dictionary,  *)
(* one per identity), those it invalidates, its evidence, its key and the  *)
(* head it expects, Null when the caller passes None.                      *)
Delta ==
  [put : UNION {[S -> Payloads] : S \in SUBSET Facts}, drop : SUBSET Facts,
   items : SUBSET Evidence, key : Keys \cup ImportKeys, expected : Nat]

LiveIds == { r.id : r \in revisions }
SeqOf(id) == (CHOOSE r \in revisions : r.id = id).seq

(***************************************************************************)
(* Reading a revision.                                                     *)
(***************************************************************************)

ValidAt(row, seq) == row.from <= seq /\ (row.to = Null \/ row.to > seq)
ShownAt(seq, wanted) ==
  { <<row.fact, row.payload>> : row \in { x \in facts : x.fact \in wanted /\ ValidAt(x, seq) } }
EvidenceAt(seq) == { e.item : e \in { x \in evidence : x.seq <= seq } }

(***************************************************************************)
(* apply.                                                                  *)
(***************************************************************************)

NextSequence ==
  IF revisions = {} THEN 1
  ELSE (CHOOSE r \in revisions : \A s \in revisions : s.seq <= r.seq).seq + 1

CloseOneLate(rows, closed, seq) ==
  { IF row.fact \in closed /\ row.to = Null THEN [row EXCEPT !.to = seq + 1] ELSE row :
      row \in rows }

(* UPDATE .. SET valid_to=seq WHERE fact IN closed AND valid_to IS NULL.   *)
Close(rows, closed, seq) ==
  { IF row.fact \in closed /\ row.to = Null THEN [row EXCEPT !.to = seq] ELSE row : row \in rows }

Insert(rows, put, seq) ==
  Close(rows, DOMAIN put, seq)
    \cup { [fact |-> f, payload |-> put[f], from |-> seq, to |-> Null] : f \in DOMAIN put }

SeenLast(d) == \E entry \in log : entry.key = d.key /\ entry.id = head

Seen(d) == \E entry \in log : entry.key = d.key
Conflicts(d) == d.expected # Null /\ d.expected # head

ParentAsExpected(d) == d.expected
Parent(d) == head

(* The transaction of a delta that is neither a replay nor a conflict.     *)
CommitDelta(d) ==
  LET seq == NextSequence
      id == issued + 1
  IN /\ issued < MaxRevisions
     /\ issued' = id
     /\ facts' = Close(Insert(facts, d.put, seq), d.drop, seq)
     /\ evidence' = evidence \cup { [item |-> e, seq |-> seq] : e \in d.items }
     /\ revisions' = revisions \cup {[id |-> id, seq |-> seq, parent |-> Parent(d)]}
     /\ head' = id
     /\ log' = log \cup {[key |-> d.key, id |-> id]}

(* A replayed key answers with the revision it made, and RevisionConflict  *)
(* rolls back: neither changes a table.                                    *)
ApplyDelta(d) ==
  IF Seen(d) \/ Conflicts(d) THEN UNCHANGED tables ELSE CommitDelta(d)

(* What the callers hand over: any delta, on the head they read, on one    *)
(* that has been overtaken, or with no expectation.                        *)
Apply(c) ==
  /\ pc[c] = "idle"
  /\ \E S, drop \in SUBSET Facts, items \in SUBSET Evidence, k \in Keys,
        expected \in 0..issued :
       \E put \in [S -> Payloads] :
         ApplyDelta([put |-> put, drop |-> drop, items |-> items,
                     key |-> k, expected |-> expected])
  /\ UNCHANGED <<file, pc, local>>

(***************************************************************************)
(* snapshot and export_snapshot: five SELECTs outside any transaction.     *)
(***************************************************************************)

Goto(c, from, to) == pc[c] = from /\ pc' = [pc EXCEPT ![c] = to]

SnapshotRevision(c, id) ==
  /\ Goto(c, "idle", "sequence")
  /\ id \in LiveIds
  /\ local' = [local EXCEPT ![c] = [NoLocals EXCEPT !.id = id]]
  /\ UNCHANGED <<tables, file>>

SnapshotSequence(c) ==
  /\ local[c].id \in LiveIds
  /\ Goto(c, "sequence", "nodes")
  /\ local' = [local EXCEPT ![c].seq = SeqOf(local[c].id)]
  /\ UNCHANGED <<tables, file>>

(* StoreError("revision not found"): a prune came in between.              *)
SnapshotLost(c) ==
  /\ local[c].id \notin LiveIds
  /\ Goto(c, "sequence", "idle")
  /\ local' = [local EXCEPT ![c] = NoLocals]
  /\ UNCHANGED <<tables, file>>

SnapshotNodes(c) ==
  /\ Goto(c, "nodes", "edges")
  /\ local' = [local EXCEPT ![c].got = ShownAt(local[c].seq, Nodes)]
  /\ UNCHANGED <<tables, file>>

SnapshotEdges(c) ==
  /\ Goto(c, "edges", "evidence")
  /\ local' = [local EXCEPT ![c].got = @ \cup ShownAt(local[c].seq, Edges)]
  /\ UNCHANGED <<tables, file>>

SnapshotEvidence(c) ==
  /\ Goto(c, "evidence", "answer")
  /\ local' = [local EXCEPT ![c].items = EvidenceAt(local[c].seq)]
  /\ UNCHANGED <<tables, file>>

SnapshotAnswer(c) ==
  /\ Goto(c, "answer", "idle")
  /\ local' = [local EXCEPT ![c] = NoLocals]
  /\ UNCHANGED <<tables, file>>

ExportSnapshot(c) ==
  /\ Goto(c, "answer", "idle")
  /\ file' = [id |-> local[c].id, got |-> local[c].got, items |-> local[c].items]
  /\ local' = [local EXCEPT ![c] = NoLocals]
  /\ UNCHANGED tables

(***************************************************************************)
(* import_snapshot: the head is read first, the delta applied on it later. *)
(***************************************************************************)

ImportRead(c) ==
  /\ file.id # Null
  /\ Goto(c, "idle", "import")
  /\ local' = [local EXCEPT ![c] = [NoLocals EXCEPT !.id = file.id, !.base = head,
                                                   !.got = file.got, !.items = file.items]]
  /\ UNCHANGED <<tables, file>>

ImportDelta(c) ==
  [put |-> [f \in { p[1] : p \in local[c].got } |->
              CHOOSE v \in Payloads : <<f, v>> \in local[c].got],
   drop |-> {}, items |-> local[c].items,
   key |-> <<local[c].id, local[c].items>>, expected |-> local[c].base]

ImportApply(c) ==
  /\ Goto(c, "import", "idle")
  /\ ApplyDelta(ImportDelta(c))
  /\ local' = [local EXCEPT ![c] = NoLocals]
  /\ UNCHANGED file

(***************************************************************************)
(* prune: what to remove is read first, and removed later.                 *)
(***************************************************************************)

NewerThan(seq) == { r \in revisions : r.seq > seq }

(* rows[keep:] and its first sequence: all but the newest keep revisions.  *)
PruneSelect(c, keep) ==
  /\ Goto(c, "idle", "delete")
  /\ \E r \in revisions :
       /\ Cardinality(NewerThan(r.seq)) = keep
       /\ local' = [local EXCEPT ![c] = [NoLocals EXCEPT !.seq = r.seq,
                       !.doomed = { s.id : s \in revisions \ NewerThan(r.seq) }]]
  /\ UNCHANGED <<tables, file>>

(* DELETE .. WHERE valid_to IS NOT NULL AND valid_to<=cutoff.              *)
Expired(row, cutoff) == row.to # Null /\ row.to <= cutoff

PruneDelete(c) ==
  /\ Goto(c, "delete", "idle")
  /\ evidence' = { e \in evidence : e.seq > local[c].seq }
  /\ facts' = { row \in facts : ~ Expired(row, local[c].seq) }
  /\ log' = { entry \in log : entry.id \notin local[c].doomed }
  /\ revisions' = { r \in revisions : r.id \notin local[c].doomed }
  /\ local' = [local EXCEPT ![c] = NoLocals]
  /\ UNCHANGED <<head, issued, file>>

(* The process dies between two of its steps; SQLite has nothing to undo.  *)
Crash(c) ==
  /\ pc[c] # "idle"
  /\ pc' = [pc EXCEPT ![c] = "idle"]
  /\ local' = [local EXCEPT ![c] = NoLocals]
  /\ UNCHANGED <<tables, file>>

----------------------------------------------------------------------------

Next ==
  \E c \in Connections :
    \/ Apply(c)
    \/ \E id \in LiveIds : SnapshotRevision(c, id)
    \/ SnapshotSequence(c)
    \/ SnapshotLost(c)
    \/ SnapshotNodes(c)
    \/ SnapshotEdges(c)
    \/ SnapshotEvidence(c)
    \/ SnapshotAnswer(c)
    \/ ExportSnapshot(c)
    \/ ImportRead(c)
    \/ ImportApply(c)
    \/ \E keep \in 1..MaxRevisions : PruneSelect(c, keep)
    \/ PruneDelete(c)
    \/ Crash(c)

Spec == Init /\ [][Next]_vars

----------------------------------------------------------------------------
(* Properties.                                                             *)

(* The head is a revision that is still kept, and no kept revision has a   *)
(* higher sequence: what MAX(sequence)+1 and rows[keep:] rely on.          *)
HeadIsLatest ==
  IF revisions = {} THEN head = Null
  ELSE \E h \in revisions : h.id = head /\ \A r \in revisions \ {h} : r.seq < h.seq

(* A node or edge has at most one open row, so that one UPDATE .. WHERE    *)
(* valid_to IS NULL closes all there is and no revision shows two versions *)
(* of a fact, whatever the order of writes, invalidations and prunes.      *)
OneVersionPerFact ==
  \A x, y \in facts :
    x.fact = y.fact /\ x # y
      => \A r \in revisions : ~ (ValidAt(x, r.seq) /\ ValidAt(y, r.seq))

(* A replayed key is answered with get_revision: the revision it names has *)
(* to exist for as long as the key does, and one key never names two.      *)
ReplayIsAnswered ==
  /\ \A entry \in log : entry.id \in LiveIds
  /\ \A x, y \in log : x.key = y.key => x = y

(* Kept revisions form one chain: each one's parent is the revision just   *)
(* before it, or has been pruned and then nothing kept is older.           *)
SingleLineage ==
  \A r \in revisions :
    LET older == { s \in revisions : s.seq < r.seq }
    IN  older # {} => \E p \in older : p.id = r.parent /\ \A s \in older : s.seq <= p.seq

(* A snapshot put together from separate SELECTs shows exactly the nodes   *)
(* and edges of its revision, although other connections commit and prune  *)
(* in between, if the revision is still there when it is handed over.      *)
SnapshotReadsAgree ==
  \A c \in Connections :
    pc[c] = "answer" /\ local[c].id \in LiveIds
      => local[c].got = ShownAt(SeqOf(local[c].id), Facts)

(* The head only ever moves to a revision that did not exist before: never *)
(* back to an old one, not even when an old delta is replayed.             *)
HeadAdvances == [][head' # head => head' \notin LiveIds /\ head' > head]_vars

(* The store implements a plain history of immutable revisions.            *)
History ==
  INSTANCE RevisionHistory WITH
    Ids <- 1..MaxRevisions,
    shows <- [id \in LiveIds |-> ShownAt(SeqOf(id), Facts)]
ImplementsHistory == History!Spec

============================================================================
