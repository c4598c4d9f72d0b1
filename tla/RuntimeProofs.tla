---------------------------- MODULE RuntimeProofs ----------------------------
(***************************************************************************)
(* For any results, any number of sidecars side by side and any edits,     *)
(* commits, crashes and retries: an observation is recorded once, collected *)
(* once by each sidecar, answered as it was recorded and never dated back, *)
(* and evidence of a failure is only lifted by another source revision.    *)
(*                                                                         *)
(* The table alone is not inductive: what is recorded and answered next is *)
(* in the jobs and backlogs of sidecars, old ones included.  Sent says     *)
(* that whoever holds a result got it after it was finished, Dated that    *)
(* the revision a job will record lies between the one of then and the     *)
(* head's, and Once that the connected sidecar meets each result once.     *)
(***************************************************************************)
EXTENDS Runtime, TLAPS

(* What sidecar s is about to record or to collect.                        *)
Working(s, r) == job[s].step \in {"lookup", "insert", "collect"} /\ job[s].id = r
Holding(s, r) == r \in backlog[s] \/ Working(s, r)

(* Nobody has heard of a tool call that is still running.                  *)
Sent ==
  \A r \in Results : pc[r] = "running" =>
    /\ \A s \in Sidecars : ~ Holding(s, r) /\ counted[s][r] = 0
    /\ \A row \in table : row.id # r

(* A job that will collect has its row in the table.                       *)
Collecting ==
  \A s \in Sidecars : job[s].step = "collect" =>
    [id |-> job[s].id, source |-> job[s].source] \in table

(* The revisions that will be recorded, and the head that is to come.      *)
Dated ==
  /\ \A r \in Results : pc[r] # "running" => sentAt[r] # None /\ sentAt[r] <= head.source
  /\ \A s \in Sidecars :
    /\ \A r \in backlog[s] : sentAt[r] # None /\ sentAt[r] <= head.source
    /\ \A r \in Results : Working(s, r) =>
         sentAt[r] # None /\ sentAt[r] <= job[s].source /\ job[s].source <= head.source
    /\ job[s].step = "refresh" =>
         /\ job[s].base[2] <= job[s].read[2]
         /\ job[s].read[2] <= source /\ job[s].read[1] <= content
         /\ job[s].read[2] <= job[s].read[1]

(* Only the first sidecar is connected, and it is sent a result once.      *)
Once ==
  \A s \in Sidecars, r \in Results :
    /\ s # 1 => counted[s][r] = 0
    /\ Holding(s, r) /\ s = 1 => counted[s][r] = 0
    /\ r \in backlog[s] /\ s = 1 => ~ Working(s, r)

IInv ==
  /\ TypeOK /\ Sent /\ Collecting /\ Dated /\ Once
  /\ RecordedOnce /\ CountedOnce /\ AnsweredAsRecorded /\ NotBackdated

USE DEF None

(* What the types of the records mean for their fields.                    *)
JobsTyped ==
  \A s \in Sidecars :
    /\ job[s].step \in {"lookup", "insert", "collect"} =>
         job[s].id \in Results /\ job[s].source \in Contents
    /\ job[s].step = "refresh" =>
         /\ job[s].base[1] \in Contents /\ job[s].base[2] \in Contents
         /\ job[s].read[1] \in Contents /\ job[s].read[2] \in Contents

LEMMA FieldTypes ==
  ASSUME TypeOK
  PROVE  /\ JobsTyped
         /\ content \in Nat /\ source \in Nat /\ head.source \in Nat /\ head.content \in Nat
         /\ 1 <= head.source /\ head.source <= source /\ source <= content
         /\ 1 <= head.content /\ head.content <= content /\ content <= MaxContent
         /\ {MaxContent, MaxSidecars} \subseteq Nat /\ current \in Nat /\ 1 <= current /\ current <= MaxSidecars
         /\ \A row \in table : row.id \in Results /\ row.source \in Nat
                              /\ row.source <= head.source
  <1> USE BoundsAssumption DEF TypeOK, Contents, Sidecars
  <1>1. JobsTyped
    BY DEF JobsTyped, Job, Idle
  <1>2. content \in Nat /\ source \in Nat /\ source <= content /\ content <= MaxContent
    OBVIOUS
  <1>3. /\ head.source \in Nat /\ 1 <= head.source /\ head.source <= source
        /\ head.content \in Nat /\ 1 <= head.content /\ head.content <= content
    BY <1>2
  <1>4. \A row \in table : row.id \in Results /\ row.source \in Nat /\ row.source <= head.source
    BY <1>3
  <1>5. QED
    BY <1>1, <1>2, <1>3, <1>4

LEMMA InitHolds == Init => IInv
  <1> SUFFICES ASSUME Init PROVE IInv
    OBVIOUS
  <1> USE BoundsAssumption DEF Init, Sidecars, Contents
  <1>1. TypeOK
    <2>1. job \in [Sidecars -> Job]
      BY DEF Job
    <2>2. head \in [content : 1..content, source : 1..source]
      OBVIOUS
    <2>3. /\ counted \in [Sidecars -> [Results -> 0..2]]
          /\ backlog \in [Sidecars -> SUBSET Results]
          /\ pc \in [Results -> {"running", "first", "second", "answered", "failed"}]
      OBVIOUS
    <2>4. at \in [Results -> 0..current]
      OBVIOUS
    <2>5. /\ told \in [Results -> {None} \cup Contents]
          /\ ranOn \in [Results -> {None} \cup Contents]
          /\ sentAt \in [Results -> {None} \cup Contents]
      OBVIOUS
    <2>6. cache \in [Sidecars -> {None} \cup Contents]
      OBVIOUS
    <2>7. /\ content \in Contents /\ source \in 1..content /\ dirty \in BOOLEAN
          /\ table \subseteq [id : Results, source : 1..head.source]
          /\ current \in Sidecars
      <3>1. content \in Contents /\ source \in 1..content
        OBVIOUS
      <3>2. dirty \in BOOLEAN
        OBVIOUS
      <3>3. current \in Sidecars
        OBVIOUS
      <3>4. table = {}
        OBVIOUS
      <3>5. QED
        BY <3>1, <3>2, <3>3, <3>4
    <2>8. alive \subseteq 1..current /\ connected \subseteq {1}
      <3>1. 1 \in 1..current
        OBVIOUS
      <3>2. QED
        BY <3>1
    <2>9. \A s \in Sidecars \ alive : job[s] = Idle /\ backlog[s] = {}
      OBVIOUS
    <2> HIDE DEF Init
    <2> QED
      BY <2>1, <2>2, <2>3, <2>4, <2>5, <2>6, <2>7, <2>8, <2>9 DEF TypeOK
  <1>2. Sent /\ Collecting /\ Dated /\ Once
    BY DEF Sent, Collecting, Dated, Once, Holding, Working, Idle
  <1>3. RecordedOnce /\ CountedOnce /\ AnsweredAsRecorded /\ NotBackdated
    BY DEF RecordedOnce, CountedOnce, AnsweredAsRecorded, NotBackdated
  <1>4. QED
    BY <1>1, <1>2, <1>3 DEF IInv

(***************************************************************************)
(* The project: only the bounds of the revisions move.                     *)
(***************************************************************************)
LEMMA ProjectHolds ==
  ASSUME IInv, Edit \/ Commit
  PROVE  IInv'
  <1> USE DEF IInv, Edit, Commit, sidecars, memory, requests
  <1>1. TypeOK'
    <2>1. content' \in Contents /\ source' \in 1..content'
      BY FieldTypes DEF Contents, TypeOK
    <2>2. head' \in [content : 1..content', source : 1..source']
      BY FieldTypes, <2>1 DEF Contents, TypeOK
    <2>3. QED
      BY <2>1, <2>2 DEF TypeOK
  <1>2. Sent' /\ Collecting' /\ Once'
    BY DEF Sent, Collecting, Once, Holding, Working
  <1>3. Dated'
    BY FieldTypes DEF Dated, Working, JobsTyped, Contents
  <1>4. (RecordedOnce /\ CountedOnce /\ AnsweredAsRecorded /\ NotBackdated)'
    BY DEF RecordedOnce, CountedOnce, AnsweredAsRecorded, NotBackdated
  <1>5. QED
    BY <1>1, <1>2, <1>3, <1>4

(***************************************************************************)
(* The plugin.                                                             *)
(***************************************************************************)
LEMMA FinishHolds ==
  ASSUME IInv, NEW r \in Results, Finish(r)
  PROVE  IInv'
  <1> USE DEF IInv, Finish, twin, sidecars, memory
  <1>1. TypeOK'
    <2>1. /\ at' \in [Results -> 0..current] /\ backlog' \in [Sidecars -> SUBSET Results]
          /\ pc' \in [Results -> {"running", "first", "second", "answered", "failed"}]
      BY FieldTypes DEF TypeOK
    <2>2. /\ ranOn' \in [Results -> {None} \cup Contents]
          /\ sentAt' \in [Results -> {None} \cup Contents]
      BY FieldTypes DEF TypeOK, Contents
    <2>3. \A s \in Sidecars \ alive : job'[s] = Idle /\ backlog'[s] = {}
      BY DEF TypeOK
    <2>4. QED
      BY <2>1, <2>2, <2>3 DEF TypeOK
  <1>2. Sent'
    BY DEF Sent, Holding, Working, TypeOK
  <1>3. Collecting' /\ Once'
    BY DEF Collecting, Once, Sent, Holding, Working, TypeOK
  <1>4. Dated'
    <2>1. /\ sentAt'[r] # None /\ sentAt'[r] <= head.source
          /\ \A x \in Results : x # r => sentAt'[x] = sentAt[x] /\ pc'[x] = pc[x]
      BY FieldTypes DEF TypeOK
    <2>2. \A s \in Sidecars : ~ Holding(s, r)
      BY DEF Sent
    <2>3. \A s \in Sidecars, x \in Results : x # r => (x \in backlog'[s] => x \in backlog[s])
      BY DEF TypeOK
    <2>4. QED
      BY <2>1, <2>2, <2>3 DEF Dated, Holding, Working, TypeOK
  <1>5. (RecordedOnce /\ CountedOnce /\ AnsweredAsRecorded)'
    BY DEF RecordedOnce, CountedOnce, AnsweredAsRecorded, TypeOK
  <1>6. NotBackdated'
    BY DEF NotBackdated, Sent, TypeOK
  <1>7. QED
    BY <1>1, <1>2, <1>3, <1>4, <1>5, <1>6

LEMMA RetryHolds ==
  ASSUME IInv, NEW r \in Results, Retry(r)
  PROVE  IInv'
  <1> USE DEF IInv, Retry, NextSidecar, twin, memory
  <1>0. current + 1 \in Sidecars /\ current + 1 # 1
    BY FieldTypes DEF Sidecars
  <1>1. TypeOK'
    <2>1. /\ at' \in [Results -> 0..current'] /\ backlog' \in [Sidecars -> SUBSET Results]
          /\ pc' \in [Results -> {"running", "first", "second", "answered", "failed"}]
      BY <1>0, FieldTypes DEF TypeOK
    <2>2. \A s \in Sidecars \ alive' : job'[s] = Idle /\ backlog'[s] = {}
      BY <1>0 DEF TypeOK
    <2>3. alive' \subseteq 1..current'
      <3>1. \A s \in 1..current : s \in 1..current'
        BY FieldTypes
      <3>2. current' \in 1..current'
        BY FieldTypes
      <3>3. QED
        BY <3>1, <3>2 DEF TypeOK
    <2>4. QED
      BY <1>0, <2>1, <2>2, <2>3 DEF TypeOK
  <1>2. Sent'
    BY DEF Sent, Holding, Working, TypeOK
  <1>3. Collecting' /\ Once'
    BY <1>0 DEF Collecting, Once, Holding, Working, TypeOK
  <1>4. Dated'
    BY DEF Dated, Holding, Working, TypeOK
  <1>5. (RecordedOnce /\ CountedOnce /\ AnsweredAsRecorded /\ NotBackdated)'
    BY DEF RecordedOnce, CountedOnce, AnsweredAsRecorded, NotBackdated, TypeOK
  <1>6. QED
    BY <1>1, <1>2, <1>3, <1>4, <1>5

LEMMA PluginHolds ==
  ASSUME IInv, Respawn \/ \E r \in Results : GiveUp(r)
  PROVE  IInv'
  <1> USE DEF IInv, Respawn, GiveUp, twin, sidecars, memory, requests
  <1>1. TypeOK'
    <2>1. current' \in Sidecars /\ current <= current'
      BY FieldTypes DEF Sidecars, TypeOK
    <2>2. alive' \subseteq 1..current' /\ at' \in [Results -> 0..current']
      <3>1. /\ \A s \in 1..current : s \in 1..current'
            /\ \A s \in 0..current : s \in 0..current'
            /\ current' \in 1..current'
        BY FieldTypes, <2>1 DEF Sidecars
      <3>2. at' \in [Results -> 0..current']
        BY <3>1 DEF TypeOK
      <3>3. alive' \subseteq alive \cup {current'} /\ alive \subseteq 1..current
        BY DEF TypeOK
      <3>4. QED
        BY <3>1, <3>2, <3>3
    <2>3. pc' \in [Results -> {"running", "first", "second", "answered", "failed"}]
      BY DEF TypeOK
    <2>4. QED
      BY <2>1, <2>2, <2>3 DEF TypeOK
  <1>2. Sent' /\ Collecting' /\ Once' /\ Dated'
    BY DEF Sent, Collecting, Once, Dated, Holding, Working, TypeOK
  <1>3. (RecordedOnce /\ CountedOnce /\ AnsweredAsRecorded /\ NotBackdated)'
    BY DEF RecordedOnce, CountedOnce, AnsweredAsRecorded, NotBackdated, TypeOK
  <1>4. QED
    BY <1>1, <1>2, <1>3

(***************************************************************************)
(* A sidecar.  A snapshot it uses is always the head's, cached or not.     *)
(***************************************************************************)
LEMMA LoadedIsHead == \A s \in Sidecars : Loaded(s) = head.source
  BY DEF Loaded

LEMMA RefreshHolds ==
  ASSUME IInv, NEW s \in Sidecars, Refresh(s)
  PROVE  IInv'
  <1> DEFINE j == [step |-> "refresh", base |-> <<head.content, head.source>>,
                   read |-> <<content, source>>]
  <1> USE DEF IInv, Refresh, Begin, sidecars, requests
  <1>1. job' = [job EXCEPT ![s] = j] /\ s \in alive /\ job[s] = Idle
    OBVIOUS
  <1>2. j \in Job
    BY FieldTypes DEF Job, Contents
  <1>3. j.step = "refresh" /\ j.base[2] = head.source /\ j.read[1] = content /\ j.read[2] = source
    OBVIOUS
  <1> HIDE DEF j
  <1>4. TypeOK'
    <2>1. job' \in [Sidecars -> Job]
      BY <1>1, <1>2 DEF TypeOK
    <2>2. cache' \in [Sidecars -> {None} \cup Contents]
      BY LoadedIsHead, FieldTypes DEF TypeOK, Contents
    <2>3. \A x \in Sidecars \ alive : job'[x] = Idle /\ backlog'[x] = {}
      BY <1>1 DEF TypeOK
    <2>4. QED
      BY <2>1, <2>2, <2>3 DEF TypeOK
  <1>5. \A x \in Sidecars : job'[x] = IF x = s THEN j ELSE job[x]
    BY <1>1 DEF TypeOK
  <1>6. \A x \in Sidecars, r \in Results : Working(x, r)' => Working(x, r)
    BY <1>3, <1>5 DEF Working
  <1>7. Sent' /\ Collecting' /\ Once'
    BY <1>3, <1>5, <1>6 DEF Sent, Collecting, Once, Holding
  <1>8. Dated'
    BY <1>3, <1>5, <1>6, FieldTypes DEF Dated, Working
  <1>9. (RecordedOnce /\ CountedOnce /\ AnsweredAsRecorded /\ NotBackdated)'
    BY DEF RecordedOnce, CountedOnce, AnsweredAsRecorded, NotBackdated
  <1>10. QED
    BY <1>4, <1>7, <1>8, <1>9

LEMMA RefreshApplyHolds ==
  ASSUME IInv, NEW s \in Sidecars, RefreshApply(s)
  PROVE  IInv'
  <1> USE DEF IInv, RefreshApply, Goto, sidecars, requests
  <1>1. job[s].step = "refresh" /\ job' = [job EXCEPT ![s] = Idle]
    OBVIOUS
  <1>2. \A x \in Sidecars : job'[x] = IF x = s THEN Idle ELSE job[x]
    BY <1>1 DEF TypeOK
  <1>3. /\ head' \in [content : 1..content, source : 1..source]
        /\ head.source <= head'.source
    <2>1. CASE job[s].base = <<head.content, head.source>>
      <3>1. job[s].base[2] = head.source
        BY <2>1
      <3>2. head' = [content |-> job[s].read[1], source |-> job[s].read[2]]
        BY <2>1
      <3>3. QED
        BY <1>1, <3>1, <3>2, FieldTypes DEF Dated, JobsTyped, Contents
    <2>2. CASE job[s].base # <<head.content, head.source>>
      BY <2>2, FieldTypes DEF TypeOK
    <2>3. QED
      BY <2>1, <2>2
  <1>4. TypeOK'
    <2>1. job' \in [Sidecars -> Job]
      BY <1>1 DEF TypeOK, Job
    <2>2. \A x \in Sidecars \ alive : job'[x] = Idle /\ backlog'[x] = {}
      BY <1>2 DEF TypeOK
    <2>3. \A n \in 1..head.source : n \in 1..head'.source
      BY <1>3, FieldTypes
    <2>4. table' \subseteq [id : Results, source : 1..head'.source]
      BY <2>3 DEF TypeOK
    <2>5. cache' \in [Sidecars -> {None} \cup Contents]
      BY DEF TypeOK
    <2>6. QED
      BY <1>3, <2>1, <2>2, <2>4, <2>5 DEF TypeOK
  <1>5. \A x \in Sidecars, r \in Results :
          Working(x, r)' => Working(x, r) /\ job'[x] = job[x]
    BY <1>2 DEF Working, Idle
  <1>6. Sent' /\ Collecting' /\ Once'
    BY <1>2, <1>5 DEF Sent, Collecting, Once, Holding, Idle
  <1>7. Dated'
    <2>1. \A n \in Nat : n <= head.source => n <= head'.source
      BY <1>3, FieldTypes
    <2>2. \A r \in Results : sentAt[r] \in Nat
      BY DEF TypeOK, Contents
    <2>3. \A x \in Sidecars, r \in Results : Working(x, r) => job[x].source \in Nat
      BY FieldTypes DEF Working, JobsTyped, Contents
    <2>4. \A x \in Sidecars : \A r \in backlog[x] : r \in Results
      BY DEF TypeOK
    <2>5. QED
      BY <1>2, <1>5, <2>1, <2>2, <2>3, <2>4 DEF Dated, Idle
  <1>8. (RecordedOnce /\ CountedOnce /\ AnsweredAsRecorded)'
    BY DEF RecordedOnce, CountedOnce, AnsweredAsRecorded
  <1>9. NotBackdated'
    BY <1>3, FieldTypes DEF NotBackdated
  <1>10. QED
    BY <1>4, <1>6, <1>7, <1>8, <1>9

LEMMA IngestHolds ==
  ASSUME IInv, NEW s \in Sidecars, NEW r \in Results, Ingest(s, r)
  PROVE  IInv'
  <1> DEFINE j == [step |-> "lookup", id |-> r, source |-> head.source]
  <1> USE DEF IInv, Ingest, Begin, twin, sidecars, requests
  <1>1. /\ job' = [job EXCEPT ![s] = j] /\ s \in alive /\ job[s] = Idle /\ r \in backlog[s]
        /\ backlog' = [backlog EXCEPT ![s] = @ \ {r}]
    BY LoadedIsHead
  <1>2. j \in Job
    BY FieldTypes DEF Job, Contents
  <1>3. j.step = "lookup" /\ j.id = r /\ j.source = head.source
    OBVIOUS
  <1> HIDE DEF j
  <1>4. TypeOK'
    <2>1. job' \in [Sidecars -> Job]
      BY <1>1, <1>2 DEF TypeOK
    <2>2. cache' \in [Sidecars -> {None} \cup Contents]
      BY LoadedIsHead, FieldTypes DEF TypeOK, Contents
    <2>3. \A x \in Sidecars \ alive : job'[x] = Idle /\ backlog'[x] = {}
      BY <1>1 DEF TypeOK
    <2>4. backlog' \in [Sidecars -> SUBSET Results]
      BY <1>1 DEF TypeOK
    <2>5. QED
      BY <2>1, <2>2, <2>3, <2>4 DEF TypeOK
  <1>5. \A x \in Sidecars :
          /\ job'[x] = IF x = s THEN j ELSE job[x]
          /\ backlog'[x] = IF x = s THEN backlog[x] \ {r} ELSE backlog[x]
    BY <1>1 DEF TypeOK
  <1>6. \A x \in Sidecars, q \in Results :
          Working(x, q)' <=> IF x = s THEN q = r ELSE Working(x, q)
    BY <1>3, <1>5 DEF Working
  <1>7. Sent'
    BY <1>1, <1>5, <1>6 DEF Sent, Holding
  <1>8. Collecting' /\ Once'
    BY <1>1, <1>3, <1>5, <1>6 DEF Collecting, Once, Holding
  <1>9. Dated'
    <2>1. sentAt[r] # None /\ sentAt[r] <= head.source
      BY <1>1 DEF Dated
    <2>2. \A x \in Sidecars : backlog'[x] \subseteq backlog[x]
      BY <1>5
    <2>3. \A x \in Sidecars : job'[x].step = "refresh" => job'[x] = job[x] /\ x # s
      BY <1>3, <1>5
    <2>4. \A x \in Sidecars, q \in Results : Working(x, q)' =>
            /\ sentAt[q] # None /\ sentAt[q] <= job'[x].source /\ job'[x].source <= head.source
      <3>1. SUFFICES ASSUME NEW x \in Sidecars, NEW q \in Results, Working(x, q)'
                     PROVE  /\ sentAt[q] # None /\ sentAt[q] <= job'[x].source
                            /\ job'[x].source <= head.source
        OBVIOUS
      <3>2. CASE x = s
        BY <1>3, <1>5, <1>6, <2>1, <3>1, <3>2, FieldTypes
      <3>3. CASE x # s
        BY <1>5, <1>6, <3>1, <3>3 DEF Dated
      <3>4. QED
        BY <3>2, <3>3
    <2>5. QED
      BY <2>2, <2>3, <2>4 DEF Dated
  <1>10. (RecordedOnce /\ CountedOnce /\ AnsweredAsRecorded /\ NotBackdated)'
    BY DEF RecordedOnce, CountedOnce, AnsweredAsRecorded, NotBackdated
  <1>11. QED
    BY <1>4, <1>7, <1>8, <1>9, <1>10

LEMMA LookupHolds ==
  ASSUME IInv, NEW s \in Sidecars, Lookup(s)
  PROVE  IInv'
  <1> USE DEF IInv, Lookup, Goto, Break, twin, sidecars, memory, requests
  <1>1. PICK j : /\ job' = [job EXCEPT ![s] = j]
                 /\ \/ j = Idle
                    \/ /\ j = [job[s] EXCEPT !.step = "insert"]
                       /\ job[s].step = "lookup"
                    \/ /\ j = [job[s] EXCEPT !.step = "collect"]
                       /\ job[s].step = "lookup" /\ RowsOf(job[s].id) # {} /\ ~ Collides(s)
    OBVIOUS
  <1>2. s \in alive /\ job[s].step = "lookup"
    BY DEF TypeOK, Idle
  <1>3. job[s] \in [step : {"lookup", "insert", "collect"}, id : Results, source : Contents]
    BY <1>2 DEF TypeOK, Job, Idle
  <1>4. \/ j = Idle
        \/ j.step \in {"insert", "collect"} /\ j.id = job[s].id /\ j.source = job[s].source
    BY <1>1, <1>3
  <1>5. j \in Job
    BY <1>1, <1>3 DEF Job
  <1>6. j # Idle /\ j.step = "collect" => [id |-> job[s].id, source |-> job[s].source] \in table
    <2>1. SUFFICES ASSUME j # Idle, j.step = "collect"
                   PROVE  [id |-> job[s].id, source |-> job[s].source] \in table
      OBVIOUS
    <2>2. RowsOf(job[s].id) # {} /\ ~ Collides(s)
      BY <1>1, <1>3, <2>1
    <2>3. PICK row \in table : row.id = job[s].id /\ row.source = job[s].source
      BY <2>2 DEF RowsOf, Collides
    <2>4. row = [id |-> row.id, source |-> row.source]
      BY DEF TypeOK
    <2>5. QED
      BY <2>3, <2>4
  <1>7. UNCHANGED <<twin, table, sidecars, memory, backlog, requests>>
    OBVIOUS
  <1>8. TypeOK'
    <2>1. job' \in [Sidecars -> Job]
      BY <1>1, <1>5 DEF TypeOK
    <2>2. \A x \in Sidecars \ alive : job'[x] = Idle /\ backlog'[x] = {}
      BY <1>1, <1>2, <1>7 DEF TypeOK
    <2>3. QED
      BY <1>7, <2>1, <2>2 DEF TypeOK
  <1>9. \A x \in Sidecars : job'[x] = IF x = s THEN j ELSE job[x]
    BY <1>1 DEF TypeOK
  <1>10. \A x \in Sidecars, r \in Results :
           Working(x, r)' => Working(x, r) /\ job'[x].source = job[x].source
    BY <1>2, <1>4, <1>9 DEF Working, Idle
  <1>11. \A x \in Sidecars : job'[x].step = "refresh" => job'[x] = job[x]
    BY <1>4, <1>9 DEF Idle
  <1> HIDE DEF Lookup, Goto, Break
  <1>12. Sent' /\ Once'
    BY <1>7, <1>10 DEF Sent, Once, Holding
  <1>13. Collecting'
    BY <1>4, <1>6, <1>7, <1>9 DEF Collecting, Idle
  <1>14. Dated'
    BY <1>7, <1>10, <1>11 DEF Dated
  <1>15. (RecordedOnce /\ CountedOnce /\ AnsweredAsRecorded /\ NotBackdated)'
    BY <1>7 DEF RecordedOnce, CountedOnce, AnsweredAsRecorded, NotBackdated
  <1>16. QED
    BY <1>8, <1>12, <1>13, <1>14, <1>15

LEMMA InsertHolds ==
  ASSUME IInv, NEW s \in Sidecars, Insert(s)
  PROVE  IInv'
  <1> DEFINE row == [id |-> job[s].id, source |-> job[s].source]
  <1> USE DEF IInv, Insert, Goto, Break, twin, sidecars, memory, requests
  <1>1. PICK j : /\ job' = [job EXCEPT ![s] = j]
                 /\ \/ j = Idle /\ table' = table
                    \/ /\ j = [job[s] EXCEPT !.step = "collect"]
                       /\ PrimaryKeyFree(s) /\ table' = table \cup {row}
    OBVIOUS
  <1>2. s \in alive /\ job[s].step = "insert"
    BY DEF TypeOK, Idle
  <1>3. job[s] \in [step : {"lookup", "insert", "collect"}, id : Results, source : Contents]
    BY <1>2 DEF TypeOK, Job, Idle
  <1>4. \/ j = Idle /\ table' = table
        \/ /\ j.step = "collect" /\ j.id = job[s].id /\ j.source = job[s].source
           /\ table' = table \cup {row} /\ \A x \in table : x.id # job[s].id
    BY <1>1, <1>3 DEF PrimaryKeyFree, RowsOf
  <1>5. j \in Job
    BY <1>1, <1>3 DEF Job
  <1>6. /\ sentAt[job[s].id] # None /\ sentAt[job[s].id] <= job[s].source
        /\ job[s].source <= head.source
        /\ pc[job[s].id] # "running"
    BY <1>2, <1>3 DEF Dated, Sent, Holding, Working
  <1>7. UNCHANGED <<twin, sidecars, memory, backlog, requests>>
    OBVIOUS
  <1>8. TypeOK'
    <2>1. job' \in [Sidecars -> Job]
      BY <1>1, <1>5 DEF TypeOK
    <2>2. \A x \in Sidecars \ alive : job'[x] = Idle /\ backlog'[x] = {}
      BY <1>1, <1>2, <1>7 DEF TypeOK
    <2>3. row \in [id : Results, source : 1..head.source]
      BY <1>3, <1>6, FieldTypes DEF Contents
    <2>4. table' \subseteq [id : Results, source : 1..head.source]
      BY <1>4, <2>3 DEF TypeOK
    <2>5. QED
      BY <1>7, <2>1, <2>2, <2>4 DEF TypeOK
  <1>9. \A x \in Sidecars : job'[x] = IF x = s THEN j ELSE job[x]
    BY <1>1 DEF TypeOK
  <1>10. \A x \in Sidecars, r \in Results :
           Working(x, r)' => Working(x, r) /\ job'[x].source = job[x].source
    BY <1>2, <1>4, <1>9 DEF Working, Idle
  <1>11. \A x \in Sidecars : job'[x].step = "refresh" => job'[x] = job[x]
    BY <1>4, <1>9 DEF Idle
  <1> HIDE DEF Insert, Goto, Break
  <1>12. Sent' /\ Once'
    BY <1>4, <1>6, <1>7, <1>10 DEF Sent, Once, Holding
  <1>13. Collecting'
    BY <1>4, <1>7, <1>9 DEF Collecting, Idle
  <1>14. Dated'
    BY <1>7, <1>10, <1>11 DEF Dated
  <1>15. RecordedOnce'
    BY <1>4 DEF RecordedOnce
  <1>16. NotBackdated'
    BY <1>4, <1>6, <1>7 DEF NotBackdated
  <1>17. (CountedOnce /\ AnsweredAsRecorded)'
    BY <1>4, <1>7 DEF CountedOnce, AnsweredAsRecorded
  <1>18. QED
    BY <1>8, <1>12, <1>13, <1>14, <1>15, <1>16, <1>17

LEMMA CollectHolds ==
  ASSUME IInv, NEW s \in Sidecars, Collect(s)
  PROVE  IInv'
  <1> DEFINE q == job[s].id
  <1> USE DEF IInv, Collect, Goto, twin, sidecars
  <1>1. /\ job' = [job EXCEPT ![s] = Idle] /\ job[s].step = "collect"
        /\ UNCHANGED <<twin, table, sidecars, cache, backlog, at, ranOn, sentAt>>
    OBVIOUS
  <1>2. counted' = counted \/ (counted' = [counted EXCEPT ![s][q] = @ + 1] /\ s = 1)
    BY DEF TypeOK
  <1>3. \/ pc' = pc /\ told' = told
        \/ /\ pc[q] # "running"
           /\ pc' = [pc EXCEPT ![q] = "answered"] /\ told' = [told EXCEPT ![q] = job[s].source]
    OBVIOUS
  <1> HIDE DEF Collect, Goto
  <1>4. /\ Working(s, q) /\ q \in Results /\ job[s].source \in Contents
        /\ [id |-> q, source |-> job[s].source] \in table
    BY <1>1, FieldTypes DEF Working, Collecting, JobsTyped
  <1>5. \A x \in Sidecars : job'[x] = IF x = s THEN Idle ELSE job[x]
    BY <1>1 DEF TypeOK
  <1>6. \A x \in Sidecars, r \in Results :
          /\ Working(x, r)' => Working(x, r) /\ job'[x] = job[x]
          /\ ~ Working(s, r)'
    BY <1>5 DEF Working, Idle
  <1>7. \A x \in Sidecars, r \in Results :
          \/ counted'[x][r] = counted[x][r]
          \/ x = 1 /\ s = 1 /\ r = q /\ counted[x][r] = 0 /\ counted'[x][r] = 1
    BY <1>2, <1>4 DEF TypeOK, Once, Holding
  <1>8. \A r \in Results :
          \/ pc'[r] = pc[r] /\ told'[r] = told[r]
          \/ r = q /\ pc[q] # "running" /\ pc'[r] = "answered" /\ told'[r] = job[s].source
    BY <1>3 DEF TypeOK
  <1>9. TypeOK'
    <2>1. job' \in [Sidecars -> Job]
      BY <1>1 DEF TypeOK, Job
    <2>2. \A x \in Sidecars \ alive : job'[x] = Idle /\ backlog'[x] = {}
      BY <1>1, <1>5 DEF TypeOK
    <2>3. counted' \in [Sidecars -> [Results -> 0..2]]
      <3>1. CASE counted' = counted
        BY <3>1 DEF TypeOK
      <3>2. CASE counted' = [counted EXCEPT ![s][q] = @ + 1] /\ s = 1
        <4>1. counted[s][q] + 1 \in 0..2
          BY <1>4, <3>2 DEF Once, Holding
        <4>2. QED
          BY <1>4, <3>2, <4>1 DEF TypeOK
      <3>3. QED
        BY <1>2, <3>1, <3>2
    <2>4. /\ pc' \in [Results -> {"running", "first", "second", "answered", "failed"}]
          /\ told' \in [Results -> {None} \cup Contents]
      BY <1>3, <1>4 DEF TypeOK
    <2>5. QED
      BY <1>1, <2>1, <2>2, <2>3, <2>4 DEF TypeOK
  <1>10. Sent'
    <2>1. \A r \in Results : pc'[r] = "running" => pc[r] = "running" /\ r # q
      BY <1>4, <1>8 DEF Sent, Holding
    <2>2. QED
      BY <1>1, <1>6, <1>7, <2>1 DEF Sent, Holding
  <1>11. Collecting'
    BY <1>1, <1>5 DEF Collecting, Idle
  <1>12. Once'
    BY <1>1, <1>4, <1>6, <1>7 DEF Once, Holding
  <1>13. Dated'
    BY <1>1, <1>5, <1>6, <1>8 DEF Dated, Idle
  <1>14. CountedOnce'
    BY <1>7 DEF CountedOnce
  <1>15. AnsweredAsRecorded'
    BY <1>1, <1>4, <1>8 DEF AnsweredAsRecorded
  <1>16. (RecordedOnce /\ NotBackdated)'
    BY <1>1 DEF RecordedOnce, NotBackdated
  <1>17. QED
    BY <1>9, <1>10, <1>11, <1>12, <1>13, <1>14, <1>15, <1>16

LEMMA DieHolds ==
  ASSUME IInv, NEW s \in Sidecars, Die(s)
  PROVE  IInv'
  <1> USE DEF IInv, Die, memory, requests
  <1>1. /\ job' = [job EXCEPT ![s] = Idle] /\ backlog' = [backlog EXCEPT ![s] = {}]
        /\ alive' = alive \ {s} /\ dirty' \in BOOLEAN
        /\ UNCHANGED <<content, source, head, table, current, connected, memory, requests>>
    BY DEF TypeOK
  <1> HIDE DEF Die
  <1>2. \A x \in Sidecars :
          /\ job'[x] = IF x = s THEN Idle ELSE job[x]
          /\ backlog'[x] \subseteq backlog[x]
    BY <1>1 DEF TypeOK
  <1>3. TypeOK'
    <2>1. job' \in [Sidecars -> Job] /\ backlog' \in [Sidecars -> SUBSET Results]
      BY <1>1 DEF TypeOK, Job
    <2>2. \A x \in Sidecars \ alive' : job'[x] = Idle /\ backlog'[x] = {}
      BY <1>1 DEF TypeOK
    <2>3. QED
      BY <1>1, <2>1, <2>2 DEF TypeOK
  <1>4. \A x \in Sidecars, r \in Results :
          Working(x, r)' => Working(x, r) /\ job'[x] = job[x]
    BY <1>2 DEF Working, Idle
  <1>5. Sent' /\ Once'
    BY <1>1, <1>2, <1>4 DEF Sent, Once, Holding
  <1>6. Collecting' /\ Dated'
    BY <1>1, <1>2, <1>4 DEF Collecting, Dated, Idle
  <1>7. (RecordedOnce /\ CountedOnce /\ AnsweredAsRecorded /\ NotBackdated)'
    BY <1>1 DEF RecordedOnce, CountedOnce, AnsweredAsRecorded, NotBackdated
  <1>8. QED
    BY <1>3, <1>5, <1>6, <1>7

(***************************************************************************)
(* The theorems about the table and the answers.                           *)
(***************************************************************************)

(* The inductive invariant of the way from a tool call to the table.       *)
THEOREM Invariance == Spec => []IInv
  <1>1. IInv /\ [Next]_vars => IInv'
    <2>1. SUFFICES ASSUME IInv, [Next]_vars PROVE IInv'
      OBVIOUS
    <2>2. CASE UNCHANGED vars
      BY <2>1, <2>2 DEF vars, IInv, TypeOK, Sent, Collecting, Dated, Once, Holding, Working,
         RecordedOnce, CountedOnce, AnsweredAsRecorded, NotBackdated
    <2>3. CASE Edit \/ Commit
      BY <2>1, <2>3, ProjectHolds
    <2>4. CASE Respawn
      BY <2>1, <2>4, PluginHolds
    <2>5. CASE \E r \in Results : Finish(r) \/ Retry(r) \/ GiveUp(r)
      BY <2>1, <2>5, FinishHolds, RetryHolds, PluginHolds
    <2>6. CASE \E s \in Sidecars :
                 \/ Refresh(s) \/ RefreshApply(s)
                 \/ \E r \in Results : Ingest(s, r)
                 \/ Lookup(s) \/ Insert(s) \/ Collect(s) \/ Die(s)
      BY <2>1, <2>6, RefreshHolds, RefreshApplyHolds, IngestHolds, LookupHolds, InsertHolds,
         CollectHolds, DieHolds
    <2>7. QED
      BY <2>1, <2>2, <2>3, <2>4, <2>5, <2>6 DEF Next
  <1>2. QED
    BY InitHolds, <1>1, PTL DEF Spec

(* Jobs, tables, answers and revisions keep their types.                   *)
THEOREM TypesHold == Spec => []TypeOK
  BY Invariance, PTL DEF IInv

(* put_observation records an observation once, whichever sidecars serve   *)
(* it at the same time.                                                    *)
THEOREM ObservationsRecordedOnce == Spec => []RecordedOnce
  BY Invariance, PTL DEF IInv

(* No sidecar hands a result to its collector twice.                       *)
THEOREM ResultsCountedOnce == Spec => []CountedOnce
  BY Invariance, PTL DEF IInv

(* An answer names the revision under which the observation is recorded.   *)
THEOREM AnswersAsRecorded == Spec => []AnsweredAsRecorded
  BY Invariance, PTL DEF IInv

(* No cached snapshot and no late attempt dates an observation back.       *)
THEOREM NeverBackdated == Spec => []NotBackdated
  BY Invariance, PTL DEF IInv

(***************************************************************************)
(* Verdicts.                                                               *)
(***************************************************************************)

(* What the order of Precedence makes of a set of observations.            *)
LEMMA VerdictOf ==
  ASSUME NEW rows, NEW revision, \A row \in rows : Status[row.id] \in Statuses
  PROVE  /\ Has(Fresh(rows, revision), "failed") <=> Reconcile(rows, revision) = "contradicted"
         /\ (/\ ~ Has(Fresh(rows, revision), "failed")
             /\ Has(Fresh(rows, revision), "passed"))
              => Reconcile(rows, revision) = "verified"
  <1> DEFINE F == Fresh(rows, revision)
             First(i) == /\ Has(F, Precedence[i])
                         /\ \A j \in 1..i - 1 : ~ Has(F, Precedence[j])
             k == CHOOSE i \in 1..4 : First(i)
  <1>1. /\ Precedence[1] = "failed" /\ Precedence[2] = "passed"
        /\ Precedence[3] = "unavailable" /\ Precedence[4] = "observed"
    BY DEF Precedence
  <1>2. /\ Decides["failed"] = "contradicted" /\ Decides["passed"] = "verified"
        /\ Decides["unavailable"] = "unavailable" /\ Decides["observed"] = "observed"
    BY DEF Decides
  <1>3. F \subseteq rows
    BY DEF Fresh
  <1>4. Has(F, "failed") => rows # {} /\ F # {}
    BY <1>3 DEF Has
  <1>5. Has(F, "passed") => rows # {} /\ F # {}
    BY <1>3 DEF Has
  <1>6. rows # {} /\ F # {} => Reconcile(rows, revision) = Decides[Precedence[k]]
    BY DEF Reconcile
  <1> HIDE DEF F
  <1>7. ASSUME Has(F, "failed") PROVE k = 1
    <2>1. First(1)
      BY <1>1, <1>7
    <2>2. \A i \in 1..4 : First(i) => i = 1
      BY <1>1, <1>7
    <2>3. QED
      BY <2>1, <2>2
  <1>8. ASSUME ~ Has(F, "failed"), Has(F, "passed") PROVE k = 2
    <2>1. First(2)
      BY <1>1, <1>8
    <2>2. \A i \in 1..4 : First(i) => i = 2
      BY <1>1, <1>8
    <2>3. QED
      BY <2>1, <2>2
  <1>9. ASSUME rows # {}, F # {} PROVE k \in 1..4 /\ First(k)
    <2>1. PICK row \in F : Status[row.id] \in Statuses
      BY <1>3, <1>9
    <2>2. \E i \in 1..4 : Has(F, Precedence[i])
      BY <1>1, <2>1 DEF Has, Statuses
    <2>3. First(1) \/ First(2) \/ First(3) \/ First(4)
      <3>1. \/ Has(F, Precedence[1]) \/ Has(F, Precedence[2])
            \/ Has(F, Precedence[3]) \/ Has(F, Precedence[4])
        BY <2>2
      <3>2. /\ 1..1 - 1 = {} /\ 1..2 - 1 = {1} /\ 1..3 - 1 = {1, 2} /\ 1..4 - 1 = {1, 2, 3}
        OBVIOUS
      <3>3. QED
        BY <3>1, <3>2
    <2>4. \E i \in 1..4 : First(i)
      BY <2>3
    <2>5. QED
      BY <2>4
  <1>10. ASSUME Reconcile(rows, revision) = "contradicted" PROVE Has(F, "failed")
    <2>1. rows # {} /\ F # {}
      BY <1>10 DEF Reconcile, F
    <2>2. k \in 1..4 /\ First(k) /\ Decides[Precedence[k]] = "contradicted"
      BY <1>6, <1>9, <1>10, <2>1
    <2> HIDE DEF k
    <2>3. k = 1
      BY <1>1, <1>2, <2>2
    <2>4. QED
      BY <1>1, <2>2, <2>3
  <1>11. Has(F, "failed") => Reconcile(rows, revision) = "contradicted"
    BY <1>1, <1>2, <1>4, <1>6, <1>7
  <1>12. ~ Has(F, "failed") /\ Has(F, "passed") => Reconcile(rows, revision) = "verified"
    BY <1>1, <1>2, <1>5, <1>6, <1>8
  <1>13. QED
    BY <1>10, <1>11, <1>12 DEF F

LEMMA StatusesKnown ==
  ASSUME TypeOK
  PROVE  \A row \in table : Status[row.id] \in Statuses
  BY FieldTypes, StatusAssumption

(* What the rollup calls a success is verified.                            *)
THEOREM RollupTruthful == Spec => []RollupIsTruthful
  <1>1. IInv => RollupIsTruthful
    <2>1. SUFFICES ASSUME TypeOK, Successful(Fresh(table, head.source))
                   PROVE  Reconcile(table, head.source) = "verified"
      BY DEF IInv, RollupIsTruthful
    <2>2. Has(Fresh(table, head.source), "passed") /\ ~ Has(Fresh(table, head.source), "failed")
      BY <2>1 DEF Successful
    <2>3. QED
      BY <2>1, <2>2, VerdictOf, StatusesKnown
  <1>2. QED
    BY Invariance, <1>1, PTL

(* The table only grows, so a failure is fresh as long as its revision is. *)
LEMMA TableGrows == IInv /\ [Next]_vars => table \subseteq table'
  BY DEF Next, vars, Edit, Commit, Respawn, Finish, Retry, GiveUp, Refresh, RefreshApply, Ingest,
     Lookup, Break, Insert, Collect, Die

(* More evidence never makes a contradicted ref a verified one.            *)
THEOREM FailuresStick == Spec => FailureSticks
  <1> DEFINE Sticks ==
        Reconcile(table, head.source) = "contradicted" /\ head'.source = head.source
          => Reconcile(table, head.source)' = "contradicted"
  <1>1. IInv /\ IInv' /\ [Next]_vars => [Sticks]_vars
    <2>1. SUFFICES ASSUME IInv, IInv', [Next]_vars,
                          Reconcile(table, head.source) = "contradicted",
                          head'.source = head.source
                   PROVE  Reconcile(table', head'.source) = "contradicted"
      OBVIOUS
    <2>2. \A row \in table : Status[row.id] \in Statuses
      BY <2>1, StatusesKnown DEF IInv
    <2>3. Has(Fresh(table, head.source), "failed")
      BY <2>1, <2>2, VerdictOf
    <2>4. Has(Fresh(table', head'.source), "failed")
      BY <2>1, <2>3, TableGrows DEF Has, Fresh
    <2>5. \A row \in table' : Status[row.id] \in Statuses
      BY <2>1, StatusAssumption DEF IInv, TypeOK
    <2>6. QED
      BY <2>4, <2>5, VerdictOf
  <1>2. QED
    BY Invariance, <1>1, PTL DEF Spec, FailureSticks

=============================================================================
