------------------------------- MODULE Runtime -------------------------------
(***************************************************************************)
(* Runtime evidence on its way from a tool call to a verdict: the plugin's *)
(* tool.execute.after hook, two attempts of SidecarClient.request, one     *)
(* sidecar after another (adapters/local_sidecar.py and                    *)
(* service/application.py), put_observation of storage/sqlite.py, and the  *)
(* collector and reconcile_observations of runtime/service.py.             *)
(*                                                                         *)
(* A sidecar serves one request at a time, but a request may be served     *)
(* after its client has given up on it, and a sidecar that stop() has      *)
(* signalled may serve a while beside its successor.  Each SQL statement   *)
(* outside a transaction is a step.  All results are about one ref.        *)
(*                                                                         *)
(* Left out: how a refresh computes its facts (Twin), and the fields of    *)
(* SidecarClient: a failed attempt ends the sidecar in use and starts the  *)
(* next one, at once.                                                      *)
(*                                                                         *)
(* ExistingIgnored, InsertUnchecked, SameSidecar and PassedFirst are no    *)
(* part of the model: each is a plausible mistake in the operator after    *)
(* it, swapped in by PROJECT.json.                                         *)
(***************************************************************************)
EXTENDS Naturals

CONSTANTS
  Results,        (* Finished tool calls; the call id makes the observation *)
                  (* id.                                                    *)
  Status,         (* The status of each: a function on Results.             *)
  MaxContent,     (* Bound: versions of the worktree.                       *)
  MaxSidecars     (* Bound: sidecars started.                               *)

Statuses == {"failed", "passed", "unavailable", "observed"}

ASSUME StatusAssumption == Status \in [Results -> Statuses]
ASSUME BoundsAssumption == {MaxContent, MaxSidecars} \subseteq Nat \ {0}

Sidecars == 1..MaxSidecars
Contents == 1..MaxContent
None == 0

VARIABLES
  content,        (* Version of the worktree.                               *)
  source,         (* Its source revision: the version last committed.       *)
  dirty,          (* A change event is queued.                              *)
  head,           (* The twin's head: its content and source revision.      *)
  table,          (* runtime_observations: records [id, source].            *)
  current,        (* The sidecar in use; older ones were signalled.         *)
  alive,          (* Sidecars that run.                                     *)
  connected,      (* Those that have negotiated capabilities.               *)
  cache,          (* Per sidecar, source revision of its cached snapshot.   *)
  counted,        (* Per sidecar, how often it has collected each result.   *)
  backlog,        (* Per sidecar, requests it has been sent.                *)
  job,            (* Per sidecar, what it is doing.                         *)
  pc,             (* Per result, where its request is.                      *)
  at,             (* The sidecar its attempt was sent to.                   *)
  told,           (* The source revision it was answered with.              *)
  ranOn,          (* History: the content a tool call finished on           *)
  sentAt          (* and the source revision of the head by then.           *)

twin == <<content, source, dirty, head>>
sidecars == <<current, alive, connected>>
memory == <<cache, counted>>
requests == <<pc, at, told, ranOn, sentAt>>
vars == <<content, source, dirty, head, table, current, alive, connected, cache, counted,
          backlog, job, pc, at, told, ranOn, sentAt>>

Idle == [step |-> "idle"]
Job ==
  {Idle}
    \cup [step : {"lookup", "insert", "collect"}, id : Results, source : Contents]
    \cup [step : {"refresh"}, base : Contents \X Contents, read : Contents \X Contents]

TypeOK ==
  /\ content \in Contents /\ source \in 1..content
  /\ dirty \in BOOLEAN
  /\ head \in [content : 1..content, source : 1..source]
  /\ table \subseteq [id : Results, source : 1..head.source]
  /\ current \in Sidecars
  /\ alive \subseteq 1..current /\ connected \subseteq {1}
  /\ cache \in [Sidecars -> {None} \cup Contents]
  /\ counted \in [Sidecars -> [Results -> 0..2]]
  /\ backlog \in [Sidecars -> SUBSET Results]
  /\ job \in [Sidecars -> Job]
  /\ \A s \in Sidecars \ alive : job[s] = Idle /\ backlog[s] = {}
  /\ pc \in [Results -> {"running", "first", "second", "answered", "failed"}]
  /\ at \in [Results -> 0..current]
  /\ told \in [Results -> {None} \cup Contents]
  /\ ranOn \in [Results -> {None} \cup Contents]
  /\ sentAt \in [Results -> {None} \cup Contents]

(* runtime_connect is sent once, when the plugin starts, and an error is   *)
(* ignored.                                                                *)
Init ==
  /\ content = 1 /\ source = 1 /\ dirty = FALSE
  /\ head = [content |-> 1, source |-> 1]
  /\ table = {}
  /\ current = 1 /\ alive = {1} /\ connected \in {{}, {1}}
  /\ cache = [s \in Sidecars |-> None]
  /\ counted = [s \in Sidecars |-> [r \in Results |-> 0]]
  /\ backlog = [s \in Sidecars |-> {}]
  /\ job = [s \in Sidecars |-> Idle]
  /\ pc = [r \in Results |-> "running"]
  /\ at = [r \in Results |-> None]
  /\ told = [r \in Results |-> None]
  /\ ranOn = [r \in Results |-> None]
  /\ sentAt = [r \in Results |-> None]

----------------------------------------------------------------------------
(* The project and the plugin.                                             *)

(* The source revision is the commit that git has checked out.  Without    *)
(* git it is a hash of the contents: Edit with Commit right behind it.     *)
Edit ==
  /\ content < MaxContent
  /\ content' = content + 1
  /\ dirty' = TRUE
  /\ UNCHANGED <<source, head, table, sidecars, memory, backlog, job, requests>>

Commit ==
  /\ source # content
  /\ source' = content
  /\ dirty' = TRUE
  /\ UNCHANGED <<content, head, table, sidecars, memory, backlog, job, requests>>

(* tool.execute.after: the observation is sent at once.                    *)
Finish(r) ==
  /\ pc[r] = "running"
  /\ pc' = [pc EXCEPT ![r] = "first"]
  /\ at' = [at EXCEPT ![r] = current]
  /\ backlog' = IF current \in alive THEN [backlog EXCEPT ![current] = @ \cup {r}] ELSE backlog
  /\ ranOn' = [ranOn EXCEPT ![r] = content]
  /\ sentAt' = [sentAt EXCEPT ![r] = head.source]
  /\ UNCHANGED <<twin, table, sidecars, memory, job, told>>

SameSidecar == current
NextSidecar == current + 1

(* An attempt fails: no answer in time, a dropped connection, no server.   *)
(* request() ends the sidecar in use, whichever that is by now, and sends  *)
(* the same parameters to a new one.                                       *)
Retry(r) ==
  /\ pc[r] = "first"
  /\ current < MaxSidecars
  /\ current' = NextSidecar
  /\ alive' = alive \cup {NextSidecar}
  /\ pc' = [pc EXCEPT ![r] = "second"]
  /\ at' = [at EXCEPT ![r] = NextSidecar]
  /\ backlog' = [backlog EXCEPT ![NextSidecar] = @ \cup {r}]
  /\ UNCHANGED <<twin, table, connected, memory, job, told, ranOn, sentAt>>

(* The second failure is ignored by the plugin.                            *)
GiveUp(r) ==
  /\ pc[r] = "second"
  /\ pc' = [pc EXCEPT ![r] = "failed"]
  /\ UNCHANGED <<twin, table, sidecars, memory, backlog, job, at, told, ranOn, sentAt>>

(* The request that carries the change event meets a dead sidecar.         *)
Respawn ==
  /\ dirty /\ current \notin alive
  /\ current < MaxSidecars
  /\ current' = current + 1
  /\ alive' = alive \cup {current + 1}
  /\ UNCHANGED <<twin, table, connected, memory, backlog, job, requests>>

----------------------------------------------------------------------------
(* A sidecar.                                                              *)

Begin(s, j) == s \in alive /\ job[s] = Idle /\ job' = [job EXCEPT ![s] = j]
Goto(s, from, to) ==
  /\ job[s].step = from
  /\ job' = [job EXCEPT ![s] = IF to = "idle" THEN Idle ELSE [@ EXCEPT !.step = to]]

(* _load_snapshot: the cached snapshot if it is still the head's.          *)
Loaded(s) == IF cache[s] = head.source THEN cache[s] ELSE head.source

(* The change event, which is sent again if the sidecar has been given up. *)
Refresh(s) ==
  /\ dirty
  /\ Begin(s, [step |-> "refresh", base |-> <<head.content, head.source>>,
               read |-> <<content, source>>])
  /\ dirty' = (s # current)
  /\ cache' = [cache EXCEPT ![s] = Loaded(s)]
  /\ UNCHANGED <<content, source, head, table, sidecars, counted, backlog, requests>>

(* store.apply refuses a head that has been overtaken, which the refresh   *)
(* reports as a diagnostic; process_event then drops the query cache.      *)
RefreshApply(s) ==
  /\ Goto(s, "refresh", "idle")
  /\ head' = IF job[s].base = <<head.content, head.source>>
               THEN [content |-> job[s].read[1], source |-> job[s].read[2]]
               ELSE head
  /\ cache' = [cache EXCEPT ![s] = None]
  /\ UNCHANGED <<content, source, dirty, table, sidecars, counted, backlog, requests>>

(* ingest_runtime up to put_observation.                                   *)
Ingest(s, r) ==
  /\ r \in backlog[s]
  /\ Begin(s, [step |-> "lookup", id |-> r, source |-> Loaded(s)])
  /\ cache' = [cache EXCEPT ![s] = Loaded(s)]
  /\ backlog' = [backlog EXCEPT ![s] = @ \ {r}]
  /\ UNCHANGED <<twin, table, sidecars, counted, requests>>

RowsOf(r) == { row \in table : row.id = r }

(* The payload holds the source revision, so a result that is sent again   *)
(* after the head has moved is another payload.                            *)
ExistingIgnored(s) == FALSE
Collides(s) == \E row \in RowsOf(job[s].id) : row.source # job[s].source

(* An exception drops the connection: no answer.                           *)
Break(s, from) ==
  /\ Goto(s, from, "idle")
  /\ UNCHANGED <<twin, table, sidecars, memory, backlog, requests>>

Lookup(s) ==
  \/ /\ job[s].step = "lookup" /\ RowsOf(job[s].id) = {}
     /\ Goto(s, "lookup", "insert")
     /\ UNCHANGED <<twin, table, sidecars, memory, backlog, requests>>
  \/ /\ job[s].step = "lookup" /\ RowsOf(job[s].id) # {} /\ ~ Collides(s)
     /\ Goto(s, "lookup", "collect")
     /\ UNCHANGED <<twin, table, sidecars, memory, backlog, requests>>
  \/ /\ job[s].step = "lookup" /\ RowsOf(job[s].id) # {} /\ Collides(s)
     /\ Break(s, "lookup")

InsertUnchecked(s) == TRUE
PrimaryKeyFree(s) == RowsOf(job[s].id) = {}

Insert(s) ==
  \/ /\ job[s].step = "insert" /\ PrimaryKeyFree(s)
     /\ Goto(s, "insert", "collect")
     /\ table' = table \cup {[id |-> job[s].id, source |-> job[s].source]}
     /\ UNCHANGED <<twin, sidecars, memory, backlog, requests>>
  \/ /\ job[s].step = "insert" /\ ~ PrimaryKeyFree(s)
     /\ Break(s, "insert")

(* collect_observation, whether the row was inserted or found, and the     *)
(* answer, if somebody still waits for it.                                 *)
Collect(s) ==
  LET r == job[s].id
  IN /\ Goto(s, "collect", "idle")
     /\ counted' = IF s \in connected THEN [counted EXCEPT ![s][r] = @ + 1] ELSE counted
     /\ IF pc[r] \in {"first", "second"} /\ at[r] = s
          THEN /\ pc' = [pc EXCEPT ![r] = "answered"]
               /\ told' = [told EXCEPT ![r] = job[s].source]
          ELSE UNCHANGED <<pc, told>>
     /\ UNCHANGED <<twin, table, sidecars, cache, backlog, at, ranOn, sentAt>>

(* A crash, SIGKILL, or the end of a sidecar that was signalled.  A change *)
(* event that is lost with it is sent again.                               *)
Die(s) ==
  /\ s \in alive
  /\ alive' = alive \ {s}
  /\ job' = [job EXCEPT ![s] = Idle]
  /\ backlog' = [backlog EXCEPT ![s] = {}]
  /\ dirty' = (dirty \/ job[s].step = "refresh")
  /\ UNCHANGED <<content, source, head, table, current, connected, memory, requests>>

----------------------------------------------------------------------------

Next ==
  \/ Edit
  \/ Commit
  \/ Respawn
  \/ \E r \in Results : Finish(r) \/ Retry(r) \/ GiveUp(r)
  \/ \E s \in Sidecars :
       \/ Refresh(s)
       \/ RefreshApply(s)
       \/ \E r \in Results : Ingest(s, r)
       \/ Lookup(s)
       \/ Insert(s)
       \/ Collect(s)
       \/ Die(s)

Spec == Init /\ [][Next]_vars

----------------------------------------------------------------------------
(* reconcile_observations and summarize_observations over a set of rows.   *)

Has(rows, status) == \E row \in rows : Status[row.id] = status

PassedFirst == <<"passed", "failed", "unavailable", "observed">>

(* The first status that a fresh observation has decides.                  *)
Precedence == <<"failed", "passed", "unavailable", "observed">>
Decides ==
  [failed |-> "contradicted", passed |-> "verified",
   unavailable |-> "unavailable", observed |-> "observed"]

Fresh(rows, revision) == { row \in rows : row.source = revision }

Reconcile(rows, revision) ==
  IF rows = {} THEN "not_observed"
  ELSE IF Fresh(rows, revision) = {} THEN "stale"
  ELSE LET i == CHOOSE i \in 1..4 :
                  /\ Has(Fresh(rows, revision), Precedence[i])
                  /\ \A j \in 1..i - 1 : ~ Has(Fresh(rows, revision), Precedence[j])
       IN  Decides[Precedence[i]]

Successful(rows) == Has(rows, "passed") /\ ~ Has(rows, "failed") /\ ~ Has(rows, "unavailable")

----------------------------------------------------------------------------
(* Properties.                                                             *)

(* An observation is recorded once, however often it is sent and whichever *)
(* sidecars serve it side by side.                                         *)
RecordedOnce == \A x, y \in table : x.id = y.id => x = y

(* No sidecar collects a result twice, although collect_observation does   *)
(* not ask whether the row was new.                                        *)
CountedOnce == \A s \in Sidecars, r \in Results : counted[s][r] <= 1

(* A result whose request was answered is recorded under the revision that *)
(* the answer names.                                                       *)
AnsweredAsRecorded ==
  \A r \in Results : pc[r] = "answered" => [id |-> r, source |-> told[r]] \in table

(* The revision an observation is recorded under was the head's at some    *)
(* time after the tool call finished: a cached snapshot or a late attempt  *)
(* never dates it back.                                                    *)
NotBackdated == \A row \in table : sentAt[row.id] <= row.source /\ row.source <= head.source

(* A ref that fresh evidence contradicts does not become verified by more  *)
(* evidence: only another source revision lifts a failure.                 *)
FailureSticks ==
  [][Reconcile(table, head.source) = "contradicted" /\ head'.source = head.source
      => Reconcile(table, head.source)' = "contradicted"]_vars

(* The rollup of the fresh evidence calls nothing a success that is not    *)
(* verified.                                                               *)
RollupIsTruthful ==
  Successful(Fresh(table, head.source)) => Reconcile(table, head.source) = "verified"

(* "Stale evidence never treated fresh": some of the evidence that         *)
(* verifies the head was obtained on contents no older than the head's.    *)
StaleNeverFresh ==
  Reconcile(table, head.source) = "verified"
    => \E row \in Fresh(table, head.source) :
         Status[row.id] = "passed" /\ ranOn[row.id] >= head.content

============================================================================
