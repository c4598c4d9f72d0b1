-------------------------- MODULE GraphStoreProofs --------------------------
(***************************************************************************)
(* Proofs about GraphStore, for any connections, facts, keys and bound.    *)
(***************************************************************************)
EXTENDS GraphStore, FiniteSetTheorems, TLAPS

(* Facts of the base tables that every operation maintains. *)
IdsAndSequences ==
  /\ \A r \in revisions : r.id # Null /\ r.id <= issued /\ r.seq # 0
  /\ \A r, s \in revisions : r.id = s.id \/ r.seq = s.seq => r = s

(* A row lives in an interval of sequences that have been handed out. *)
RowsBounded ==
  \A x \in facts :
    /\ x.from # 0
    /\ x.to # Null => x.from <= x.to
    /\ \E h \in revisions : h.id = head /\ x.from <= h.seq /\ x.to <= h.seq

Before(x, y) == x.to # Null /\ x.to <= y.from
IntervalsDisjoint ==
  \A x, y \in facts : x.fact = y.fact /\ x # y => Before(x, y) \/ Before(y, x)

(* A prune that has chosen what to delete still means the same set: all    *)
(* that is at or below its cutoff, which the head is not.                  *)
PruneReady(c) ==
  pc[c] = "delete" =>
    /\ \A i \in local[c].doomed : i <= issued
    /\ \A r \in revisions : r.seq <= local[c].seq <=> r.id \in local[c].doomed
    /\ \E h \in revisions : h.id = head /\ h.seq > local[c].seq
PendingPrunes == \A c \in Connections : PruneReady(c)

(* A snapshot under way has read what its revision shows, if the revision  *)
(* is still there.                                                         *)
ReadReady(c) ==
  /\ pc[c] \in {"sequence", "nodes", "edges", "evidence", "answer"} => local[c].id <= issued
  /\ \A r \in revisions : r.id = local[c].id =>
       /\ pc[c] \in {"nodes", "edges", "evidence", "answer"} => local[c].seq = r.seq
       /\ pc[c] = "edges" => local[c].got = ShownAt(r.seq, Nodes)
       /\ pc[c] \in {"evidence", "answer"} => local[c].got = ShownAt(r.seq, Facts)
PendingReads == \A c \in Connections : ReadReady(c)

IInv ==
  /\ TypeOK
  /\ IdsAndSequences
  /\ HeadIsLatest
  /\ RowsBounded
  /\ IntervalsDisjoint
  /\ ReplayIsAnswered
  /\ SingleLineage
  /\ PendingPrunes
  /\ PendingReads

----------------------------------------------------------------------------
(* The helpers.                                                            *)

(* SeqOf finds the row of an id that is there. *)
LEMMA SeqOfId ==
  ASSUME IdsAndSequences, NEW r \in revisions
  PROVE  SeqOf(r.id) = r.seq
  BY DEF IdsAndSequences, SeqOf

(* MAX(sequence)+1 is one above the head, hence above every kept revision. *)
LEMMA NextSequenceIsFresh ==
  ASSUME TypeOK, HeadIsLatest
  PROVE  /\ NextSequence \in Nat
         /\ NextSequence # 0
         /\ \A r \in revisions : r.seq < NextSequence
<1>1. CASE revisions = {}
  BY <1>1 DEF NextSequence
<1>2. CASE revisions # {}
  <2>1. PICK h \in revisions : \A r \in revisions \ {h} : r.seq < h.seq
    BY <1>2 DEF HeadIsLatest
  <2>2. \A r \in revisions : r.seq \in Nat
    BY DEF TypeOK, Revision
  <2>3. \A r \in revisions : r.seq <= h.seq
    BY <2>1, <2>2
  <2>4. PICK m \in revisions :
          /\ m = (CHOOSE r \in revisions : \A s \in revisions : s.seq <= r.seq)
          /\ \A s \in revisions : s.seq <= m.seq
    BY <2>3
  <2>5. NextSequence = m.seq + 1
    BY <1>2, <2>4 DEF NextSequence
  <2>. QED BY <2>2, <2>4, <2>5
<1>. QED BY <1>1, <1>2

(* The rows after a commit: those that were there, closed if the delta     *)
(* touches them and they were open, and one new row per fact written.      *)
Aged(x, d, n) ==
  IF x.fact \in DOMAIN d.put \cup d.drop /\ x.to = Null THEN [x EXCEPT !.to = n] ELSE x
Fresh(f, d, n) ==
  [fact |-> f, payload |-> d.put[f], from |-> n, to |-> IF f \in d.drop THEN n ELSE Null]

LEMMA RowsAfterCommit ==
  ASSUME TypeOK, NEW d \in Delta, NEW n \in Nat, n # 0
  PROVE  Close(Insert(facts, d.put, n), d.drop, n)
           = { Aged(x, d, n) : x \in facts } \cup { Fresh(f, d, n) : f \in DOMAIN d.put }
<1> DEFINE New == { [fact |-> f, payload |-> d.put[f], from |-> n, to |-> Null] : f \in DOMAIN d.put }
           Shut(row, closed) ==
             IF row.fact \in closed /\ row.to = Null THEN [row EXCEPT !.to = n] ELSE row
<1>1. Close(Insert(facts, d.put, n), d.drop, n)
        = { Shut(y, d.drop) : y \in { Shut(x, DOMAIN d.put) : x \in facts } \cup New }
  BY DEF Close, Insert
<1>2. \A x \in facts : Shut(Shut(x, DOMAIN d.put), d.drop) = Aged(x, d, n)
  BY DEF Aged, TypeOK, FactRow, Null
<1>3. \A f \in DOMAIN d.put :
        Shut([fact |-> f, payload |-> d.put[f], from |-> n, to |-> Null], d.drop) = Fresh(f, d, n)
  BY DEF Fresh
<1> DEFINE Opened(f) == [fact |-> f, payload |-> d.put[f], from |-> n, to |-> Null]
           F(x) == Shut(x, DOMAIN d.put)
           G(x) == Shut(x, d.drop)
           A(x) == Aged(x, d, n)
           E(f) == Fresh(f, d, n)
<1>4. /\ \A x \in facts : G(F(x)) = A(x)
      /\ \A f \in DOMAIN d.put : G(Opened(f)) = E(f)
  BY <1>2, <1>3
<1>5. Close(Insert(facts, d.put, n), d.drop, n)
        = { G(y) : y \in { F(x) : x \in facts } \cup { Opened(f) : f \in DOMAIN d.put } }
  BY <1>1
<1> HIDE DEF F, G, A, E, Opened, Shut, New
<1>6. { G(y) : y \in { F(x) : x \in facts } \cup { Opened(f) : f \in DOMAIN d.put } }
        = { A(x) : x \in facts } \cup { E(f) : f \in DOMAIN d.put }
  BY <1>4
<1>. QED BY <1>5, <1>6 DEF A, E

(* Ageing a row changes nothing but its end. *)
LEMMA AgedRow ==
  ASSUME NEW x \in FactRow, NEW d \in Delta, NEW n \in Nat
  PROVE  /\ Aged(x, d, n) \in FactRow
         /\ Aged(x, d, n).fact = x.fact
         /\ Aged(x, d, n).payload = x.payload
         /\ Aged(x, d, n).from = x.from
         /\ Aged(x, d, n).to = IF x.fact \in DOMAIN d.put \cup d.drop /\ x.to = Null
                                 THEN n ELSE x.to
  BY DEF FactRow, Aged

LEMMA FreshRow ==
  ASSUME NEW d \in Delta, NEW f \in DOMAIN d.put, NEW n \in Nat
  PROVE  Fresh(f, d, n) \in FactRow /\ f \in Facts /\ d.put[f] \in Payloads
<1>1. PICK S \in SUBSET Facts : d.put \in [S -> Payloads]
  BY DEF Delta
<1>. QED BY <1>1 DEF FactRow, Fresh, Null

(* What a commit makes of the rows, in one place. *)
LEMMA CommitRows ==
  ASSUME TypeOK, HeadIsLatest, NEW d \in Delta, CommitDelta(d)
  PROVE  facts' = { Aged(x, d, NextSequence) : x \in facts }
                    \cup { Fresh(f, d, NextSequence) : f \in DOMAIN d.put }
  BY NextSequenceIsFresh, RowsAfterCommit DEF CommitDelta

(* No commit changes what an earlier sequence shows. *)
LEMMA CommitKeepsOldViews ==
  ASSUME TypeOK, HeadIsLatest, NEW d \in Delta, CommitDelta(d),
         NEW s \in Nat, s < NextSequence, NEW W
  PROVE  ShownAt(s, W)' = ShownAt(s, W)
<1> DEFINE n == NextSequence
           A(x) == Aged(x, d, n)
           E(f) == Fresh(f, d, n)
<1>1. n \in Nat /\ n # 0
  BY NextSequenceIsFresh
<1>2. \A x \in facts : /\ A(x).fact = x.fact /\ A(x).payload = x.payload
                       /\ ValidAt(A(x), s) <=> ValidAt(x, s)
  <2> TAKE x \in facts
  <2>1. x \in FactRow
    BY DEF TypeOK
  <2>2. /\ A(x).fact = x.fact /\ A(x).payload = x.payload /\ A(x).from = x.from
        /\ A(x).to = x.to \/ (x.to = Null /\ A(x).to = n)
    BY <1>1, <2>1, AgedRow
  <2>3. x.from \in Nat /\ x.to \in Nat
    BY <2>1 DEF FactRow
  <2> HIDE DEF A, n
  <2>4. s < n
    BY DEF n
  <2>. QED BY <1>1, <2>2, <2>3, <2>4 DEF ValidAt, Null
<1>3. \A f \in DOMAIN d.put : ~ ValidAt(E(f), s)
  BY <1>1 DEF ValidAt, Fresh
<1>4. facts' = { A(x) : x \in facts } \cup { E(f) : f \in DOMAIN d.put }
  BY CommitRows
<1> HIDE DEF A, E
<1>5. ShownAt(s, W)' = { <<y.fact, y.payload>> : y \in { x \in facts' : x.fact \in W /\ ValidAt(x, s) } }
  BY DEF ShownAt, ValidAt
<1>6. { <<y.fact, y.payload>> : y \in { x \in facts' : x.fact \in W /\ ValidAt(x, s) } }
        = { <<y.fact, y.payload>> : y \in { x \in facts : x.fact \in W /\ ValidAt(x, s) } }
  <2> DEFINE Seen1 == { x \in facts' : x.fact \in W /\ ValidAt(x, s) }
             Seen0 == { x \in facts : x.fact \in W /\ ValidAt(x, s) }
  <2>1. \A y \in Seen1 : \E x \in Seen0 : x.fact = y.fact /\ x.payload = y.payload
    <3> TAKE y \in Seen1
    <3>1. y \in facts' /\ y.fact \in W /\ ValidAt(y, s)
      OBVIOUS
    <3>2. PICK x \in facts : y = A(x)
      BY <3>1, <1>3, <1>4
    <3>3. x \in Seen0
      BY <3>1, <3>2, <1>2 DEF ValidAt
    <3>. QED BY <3>2, <3>3, <1>2
  <2>2. \A x \in Seen0 : \E y \in Seen1 : y.fact = x.fact /\ y.payload = x.payload
    <3> TAKE x \in Seen0
    <3>1. A(x) \in Seen1 /\ A(x).fact = x.fact /\ A(x).payload = x.payload
      BY <1>2, <1>4
    <3>. QED BY <3>1
  <2> HIDE DEF Seen1, Seen0
  <2> DEFINE Pair(y) == <<y.fact, y.payload>>
  <2>4. /\ \A y \in Seen1 : \E x \in Seen0 : Pair(y) = Pair(x)
        /\ \A x \in Seen0 : \E y \in Seen1 : Pair(y) = Pair(x)
    BY <2>1, <2>2
  <2> HIDE DEF Pair
  <2>5. { Pair(y) : y \in Seen1 } = { Pair(x) : x \in Seen0 }
    BY <2>4
  <2>3. { <<y.fact, y.payload>> : y \in Seen1 } = { <<y.fact, y.payload>> : y \in Seen0 }
    BY <2>5 DEF Pair
  <2>. QED BY <2>3 DEF Seen1, Seen0
<1>. QED BY <1>5, <1>6 DEF ShownAt

(* What the new revision shows: the head's facts where the delta is        *)
(* silent, and what it writes and does not invalidate.                     *)
HeadShown == IF head = Null THEN {} ELSE ShownAt(SeqOf(head), Facts)
Carried(d) ==
  { p \in HeadShown : p[1] \notin DOMAIN d.put \cup d.drop }
    \cup { <<f, d.put[f]>> : f \in DOMAIN d.put \ d.drop }

(* The head shows exactly the rows that are open. *)
LEMMA HeadShowsOpenRows ==
  ASSUME TypeOK, IdsAndSequences, HeadIsLatest, RowsBounded
  PROVE  HeadShown = { <<x.fact, x.payload>> : x \in { y \in facts : y.to = Null } }
<1>1. CASE revisions = {}
  <2>1. head = Null
    BY <1>1 DEF HeadIsLatest
  <2>2. facts = {}
    BY <1>1 DEF RowsBounded
  <2>. QED BY <2>1, <2>2 DEF HeadShown
<1>2. CASE revisions # {}
  <2>1. PICK h \in revisions : h.id = head
    BY <1>2 DEF HeadIsLatest
  <2>2. head # Null /\ SeqOf(head) = h.seq /\ h.seq \in Nat
    BY <2>1, SeqOfId DEF IdsAndSequences, TypeOK, Revision
  <2>3. \A x \in facts : x.fact \in Facts /\ x.from \in Nat /\ x.to \in Nat
    BY DEF TypeOK, FactRow
  <2>4. \A x \in facts : x.from <= h.seq /\ x.to <= h.seq
    BY <2>1 DEF RowsBounded, IdsAndSequences
  <2>5. { y \in facts : y.fact \in Facts /\ ValidAt(y, h.seq) } = { y \in facts : y.to = Null }
    BY <2>2, <2>3, <2>4 DEF ValidAt, Null
  <2>. QED BY <2>2, <2>5 DEF HeadShown, ShownAt
<1>. QED BY <1>1, <1>2

LEMMA CommitShowsDelta ==
  ASSUME TypeOK, IdsAndSequences, HeadIsLatest, RowsBounded, NEW d \in Delta, CommitDelta(d),
         NEW n, n = NextSequence
  PROVE  ShownAt(n, Facts)' = Carried(d)
<1> DEFINE A(x) == Aged(x, d, n)
           E(f) == Fresh(f, d, n)
           Touched == DOMAIN d.put \cup d.drop
           Kept == { x \in facts : x.to = Null /\ x.fact \notin Touched }
           New == DOMAIN d.put \ d.drop
           Pair(x) == <<x.fact, x.payload>>
<1>1. n \in Nat /\ n # 0
  BY NextSequenceIsFresh
<1>2. facts' = { A(x) : x \in facts } \cup { E(f) : f \in DOMAIN d.put }
  BY CommitRows
<1>3. \A x \in facts : /\ A(x).fact = x.fact
                       /\ A(x).payload = x.payload
                       /\ x.fact \in Facts
                       /\ ValidAt(A(x), n) <=> x \in Kept
  <2> TAKE x \in facts
  <2>1. x \in FactRow
    BY DEF TypeOK
  <2>2. x.from \in Nat /\ x.to \in Nat /\ x.fact \in Facts
    BY <2>1 DEF FactRow
  <2>3. x.from < n /\ x.to < n
    BY <1>1, <2>2, NextSequenceIsFresh DEF RowsBounded, TypeOK, Revision
  <2>4. /\ A(x).fact = x.fact
        /\ A(x).payload = x.payload
        /\ A(x).from = x.from
        /\ A(x).to = IF x.fact \in Touched /\ x.to = Null THEN n ELSE x.to
    BY <1>1, <2>1, AgedRow
  <2>5. x \in Kept <=> x.to = Null /\ x.fact \notin Touched
    OBVIOUS
  <2> HIDE DEF A, Kept, Touched
  <2>6. ValidAt(A(x), n) <=> x \in Kept
    BY <1>1, <2>2, <2>3, <2>4, <2>5 DEF ValidAt, Null
  <2>. QED BY <2>2, <2>4, <2>6
<1>4. \A f \in DOMAIN d.put : /\ E(f).fact = f
                              /\ E(f).payload = d.put[f]
                              /\ f \in Facts
                              /\ ValidAt(E(f), n) <=> f \in New
  <2> TAKE f \in DOMAIN d.put
  <2>1. f \in Facts
    BY <1>1, FreshRow
  <2>2. ValidAt(E(f), n) <=> f \in New
    BY <1>1 DEF ValidAt, Fresh, Null
  <2>. QED BY <2>1, <2>2 DEF Fresh
<1>5. ShownAt(n, Facts)' = { Pair(y) : y \in { x \in facts' : x.fact \in Facts /\ ValidAt(x, n) } }
  BY DEF ShownAt, ValidAt, Facts
<1>6. Carried(d) = { Pair(x) : x \in Kept } \cup { <<f, d.put[f]>> : f \in New }
  <2>1. HeadShown = { Pair(x) : x \in { y \in facts : y.to = Null } }
    BY HeadShowsOpenRows
  <2>2. \A x : Pair(x)[1] = x.fact
    OBVIOUS
  <2>3. { p \in HeadShown : p[1] \notin Touched } = { Pair(x) : x \in Kept }
    <3> HIDE DEF Pair, Touched
    <3>. QED BY <2>1, <2>2
  <2>. QED BY <2>3 DEF Carried
<1> DEFINE Seen1 == { x \in facts' : x.fact \in Facts /\ ValidAt(x, n) }
<1>7. \A y \in Seen1 : \/ \E x \in Kept : y = A(x)
                      \/ \E f \in New : y = E(f)
  <2> HIDE DEF A, E, Kept, New
  <2>. QED BY <1>2, <1>3, <1>4 DEF ValidAt
<1>8. /\ \A x \in Kept : A(x) \in Seen1
      /\ \A f \in New : E(f) \in Seen1
  <2>1. Kept \subseteq facts /\ New \subseteq DOMAIN d.put
    OBVIOUS
  <2> HIDE DEF A, E, Kept, New
  <2>. QED BY <2>1, <1>2, <1>3, <1>4 DEF ValidAt
<1>9. /\ \A x \in Kept : Pair(A(x)) = Pair(x)
      /\ \A f \in New : Pair(E(f)) = <<f, d.put[f]>>
  <2>1. Kept \subseteq facts /\ New \subseteq DOMAIN d.put
    OBVIOUS
  <2> HIDE DEF A, E, Kept, New
  <2>. QED BY <2>1, <1>3, <1>4
<1> HIDE DEF A, E, Kept, New, Pair, Seen1
<1>10. { Pair(y) : y \in Seen1 } = { Pair(x) : x \in Kept } \cup { <<f, d.put[f]>> : f \in New }
  BY <1>7, <1>8, <1>9
<1>. QED BY <1>5, <1>6, <1>10 DEF Seen1

----------------------------------------------------------------------------
(* A commit keeps the invariant.                                           *)

(* A step leaves a connection alone, or leaves it where it has read        *)
(* nothing that a later step relies on.                                    *)
Quiet ==
  \A c \in Connections :
    \/ pc'[c] = pc[c] /\ local'[c] = local[c]
    \/ pc'[c] \in {"idle", "import"}

LEMMA CommitIds ==
  ASSUME IInv, NEW d \in Delta, CommitDelta(d)
  PROVE  IdsAndSequences' /\ HeadIsLatest' /\ SingleLineage'
<1> DEFINE n == NextSequence
           new == [id |-> issued + 1, seq |-> n, parent |-> head]
<1>1. /\ n \in Nat /\ n # 0
      /\ \A r \in revisions : r.seq < n
  BY NextSequenceIsFresh DEF IInv
<1>2. revisions' = revisions \cup {new} /\ head' = issued + 1 /\ issued' = issued + 1
  BY DEF CommitDelta, Parent
<1>3. \A r \in revisions : r.id \in Nat /\ r.seq \in Nat /\ r.id <= issued /\ r.id # Null
  BY DEF IInv, TypeOK, Revision, IdsAndSequences
<1>4. issued \in Nat
  BY DEF IInv, TypeOK
<1>5. new.id = issued + 1 /\ new.seq = n /\ new.parent = head
  OBVIOUS
<1> HIDE DEF n, new
<1>6. IdsAndSequences'
  BY <1>1, <1>2, <1>3, <1>4, <1>5 DEF IInv, IdsAndSequences, Null
<1>7. HeadIsLatest'
  BY <1>1, <1>2, <1>3, <1>4, <1>5 DEF HeadIsLatest
<1>8. SingleLineage'
  <2> SUFFICES ASSUME NEW r \in revisions', NEW s \in revisions', s.seq < r.seq
               PROVE  \E p \in revisions' : /\ p.seq < r.seq /\ p.id = r.parent
                                            /\ \A q \in revisions' : q.seq < r.seq => q.seq <= p.seq
    BY DEF SingleLineage
  <2>1. CASE r = new
    <3>1. s \in revisions
      BY <1>1, <1>2, <1>5, <2>1
    <3>2. PICK h \in revisions : h.id = head /\ \A q \in revisions \ {h} : q.seq < h.seq
      BY <3>1 DEF IInv, HeadIsLatest
    <3>. QED BY <1>1, <1>2, <1>3, <1>5, <2>1, <3>2
  <2>2. CASE r \in revisions
    <3>1. r.seq < n /\ s # new
      BY <1>1, <1>3, <1>5, <2>2
    <3>2. s \in revisions
      BY <1>2, <3>1
    <3>3. PICK p \in revisions : /\ p.seq < r.seq /\ p.id = r.parent
                                /\ \A q \in revisions : q.seq < r.seq => q.seq <= p.seq
      BY <2>2, <3>2 DEF IInv, SingleLineage
    <3>. QED BY <1>1, <1>2, <1>3, <1>5, <2>2, <3>1, <3>3
  <2>. QED BY <1>2, <2>1, <2>2
<1>. QED BY <1>6, <1>7, <1>8

LEMMA CommitIntervals ==
  ASSUME IInv, NEW d \in Delta, CommitDelta(d)
  PROVE  RowsBounded' /\ IntervalsDisjoint'
<1> DEFINE n == NextSequence
           A(x) == Aged(x, d, n)
           E(f) == Fresh(f, d, n)
           Touched == DOMAIN d.put \cup d.drop
<1>1. /\ n \in Nat /\ n # 0
      /\ \A r \in revisions : r.seq < n
  BY NextSequenceIsFresh DEF IInv
<1>2. facts' = { A(x) : x \in facts } \cup { E(f) : f \in DOMAIN d.put }
  BY CommitRows DEF IInv
<1>3. \A x \in facts : /\ A(x).fact = x.fact
                       /\ A(x).from = x.from
                       /\ A(x).to = IF x.fact \in Touched /\ x.to = Null THEN n ELSE x.to
                       /\ x.from \in Nat /\ x.to \in Nat
                       /\ x.from # 0 /\ x.from < n /\ x.to < n
                       /\ x.to # Null => x.from <= x.to
  <2> TAKE x \in facts
  <2>1. x \in FactRow
    BY DEF IInv, TypeOK
  <2>2. x.from \in Nat /\ x.to \in Nat
    BY <2>1 DEF FactRow
  <2>3. x.from < n /\ x.to < n /\ x.from # 0 /\ (x.to # Null => x.from <= x.to)
    BY <1>1, <2>2 DEF IInv, RowsBounded, TypeOK, Revision
  <2>. QED BY <1>1, <2>1, <2>2, <2>3, AgedRow
<1>4. \A f \in DOMAIN d.put : E(f).fact = f /\ E(f).from = n /\ E(f).to \in {Null, n}
  BY DEF Fresh
<1>5. \E h \in revisions' : h.id = head' /\ h.seq = n
  <2> DEFINE new == [id |-> issued + 1, seq |-> n, parent |-> Parent(d)]
  <2>1. new \in revisions' /\ head' = issued + 1
    BY DEF CommitDelta
  <2>. QED BY <2>1
<1>6. \A y \in facts' : \/ \E x \in facts : y = A(x)
                        \/ \E f \in DOMAIN d.put : y = E(f)
  BY <1>2
<1>7. \A f \in DOMAIN d.put : f \in Touched
  OBVIOUS
<1> HIDE DEF n, A, E, Touched
<1>8. RowsBounded'
  <2> SUFFICES ASSUME NEW y \in facts'
               PROVE  /\ y.from # 0
                      /\ y.to # Null => y.from <= y.to
                      /\ y.from <= n /\ y.to <= n
    BY <1>5 DEF RowsBounded
  <2>1. CASE \E x \in facts : y = A(x)
    <3>1. PICK x \in facts : y = A(x)
      BY <2>1
    <3>. QED BY <1>1, <1>3, <3>1 DEF Null
  <2>2. CASE \E f \in DOMAIN d.put : y = E(f)
    BY <1>1, <1>4, <2>2 DEF Null
  <2>. QED BY <1>6, <2>1, <2>2
<1>9. IntervalsDisjoint'
  <2> SUFFICES ASSUME NEW y \in facts', NEW z \in facts', y.fact = z.fact, y # z
               PROVE  Before(y, z) \/ Before(z, y)
    BY DEF IntervalsDisjoint, Before
  <2>1. ASSUME NEW x \in facts, NEW f \in DOMAIN d.put, x.fact = f
        PROVE  Before(A(x), E(f))
    <3>1. A(x).to # Null /\ A(x).to <= n
      BY <1>1, <1>3, <1>7, <2>1 DEF Null
    <3>. QED BY <3>1, <1>4 DEF Before
  <2>2. ASSUME NEW x \in facts, NEW w \in facts, x.fact = w.fact, A(x) # A(w)
        PROVE  Before(A(x), A(w)) \/ Before(A(w), A(x))
    <3>1. Before(x, w) \/ Before(w, x)
      BY <2>2 DEF IInv, IntervalsDisjoint
    <3>2. Before(x, w) => Before(A(x), A(w))
      BY <1>3 DEF Before
    <3>3. Before(w, x) => Before(A(w), A(x))
      BY <1>3 DEF Before
    <3>. QED BY <3>1, <3>2, <3>3
  <2>3. CASE \E x, w \in facts : y = A(x) /\ z = A(w)
    BY <2>2, <2>3, <1>3
  <2>4. CASE \E x \in facts, f \in DOMAIN d.put : y = A(x) /\ z = E(f)
    BY <2>1, <2>4, <1>3, <1>4
  <2>5. CASE \E x \in facts, f \in DOMAIN d.put : z = A(x) /\ y = E(f)
    BY <2>1, <2>5, <1>3, <1>4
  <2>6. CASE \E f, g \in DOMAIN d.put : y = E(f) /\ z = E(g)
    BY <2>6, <1>4
  <2>. QED BY <1>6, <2>3, <2>4, <2>5, <2>6
<1>. QED BY <1>8, <1>9

LEMMA CommitLog ==
  ASSUME IInv, NEW d \in Delta, ~ Seen(d), CommitDelta(d)
  PROVE  ReplayIsAnswered'
<1> DEFINE entry == [key |-> d.key, id |-> issued + 1]
           new == [id |-> issued + 1, seq |-> NextSequence, parent |-> Parent(d)]
<1>1. log' = log \cup {entry} /\ revisions' = revisions \cup {new}
  BY DEF CommitDelta
<1>2. entry.key = d.key /\ entry.id = issued + 1 /\ new.id = issued + 1
  OBVIOUS
<1>3. \A x \in log : x.key # d.key
  BY DEF Seen
<1> HIDE DEF entry, new
<1>4. \A x \in log' : x.id \in LiveIds'
  BY <1>1, <1>2 DEF IInv, ReplayIsAnswered, LiveIds
<1>5. \A x, y \in log' : x.key = y.key => x = y
  BY <1>1, <1>2, <1>3 DEF IInv, ReplayIsAnswered
<1>. QED BY <1>4, <1>5 DEF ReplayIsAnswered

LEMMA CommitPending ==
  ASSUME IInv, NEW d \in Delta, CommitDelta(d), Quiet
  PROVE  PendingPrunes' /\ PendingReads'
<1> DEFINE n == NextSequence
           new == [id |-> issued + 1, seq |-> n, parent |-> head]
<1>1. /\ n \in Nat
      /\ \A r \in revisions : r.seq < n
  BY NextSequenceIsFresh DEF IInv
<1>2. revisions' = revisions \cup {new} /\ head' = issued + 1 /\ issued' = issued + 1
  BY DEF CommitDelta, Parent
<1>3. /\ issued \in Nat
      /\ \A r \in revisions : r.id \in Nat /\ r.seq \in Nat /\ r.id <= issued
  BY DEF IInv, TypeOK, Revision, IdsAndSequences
<1>4. new.id = issued + 1 /\ new.seq = n
  OBVIOUS
<1>5. \A c \in Connections : /\ local[c].id \in Nat /\ local[c].seq \in Nat
                             /\ local[c].doomed \subseteq Nat
  BY DEF IInv, TypeOK, Locals
<1>6. \A r \in revisions : /\ ShownAt(r.seq, Nodes)' = ShownAt(r.seq, Nodes)
                           /\ ShownAt(r.seq, Facts)' = ShownAt(r.seq, Facts)
  BY <1>1, <1>3, CommitKeepsOldViews DEF IInv, Facts
<1> HIDE DEF n, new
<1>7. PendingPrunes'
  <2> SUFFICES ASSUME NEW c \in Connections, pc'[c] = "delete"
               PROVE  /\ \A i \in local'[c].doomed : i <= issued'
                      /\ \A r \in revisions' : r.seq <= local'[c].seq <=> r.id \in local'[c].doomed
                      /\ \E h \in revisions' : h.id = head' /\ h.seq > local'[c].seq
    BY DEF PendingPrunes, PruneReady
  <2>1. pc[c] = "delete" /\ local'[c] = local[c]
    BY DEF Quiet
  <2>2. /\ \A i \in local[c].doomed : i <= issued
        /\ \A r \in revisions : r.seq <= local[c].seq <=> r.id \in local[c].doomed
        /\ \E h \in revisions : h.id = head /\ h.seq > local[c].seq
    BY <2>1 DEF IInv, PendingPrunes, PruneReady
  <2>3. n > local[c].seq
    BY <1>1, <1>3, <1>5, <2>2
  <2>4. \A i \in local[c].doomed : i <= issued + 1
    BY <1>3, <1>5, <2>2
  <2>5. issued + 1 \notin local[c].doomed
    BY <1>3, <2>2
  <2>6. \A r \in revisions' : r.seq <= local[c].seq <=> r.id \in local[c].doomed
    BY <1>1, <1>2, <1>4, <1>5, <2>2, <2>3, <2>5
  <2>. QED BY <1>2, <1>4, <2>1, <2>3, <2>4, <2>6
<1>8. PendingReads'
  <2> SUFFICES ASSUME NEW c \in Connections,
                      pc'[c] \in {"sequence", "nodes", "edges", "evidence", "answer"}
               PROVE  /\ local'[c].id <= issued'
                      /\ \A r \in revisions' : r.id = local'[c].id =>
                           /\ pc'[c] \in {"nodes", "edges", "evidence", "answer"}
                                => local'[c].seq = r.seq
                           /\ pc'[c] = "edges" => local'[c].got = ShownAt(r.seq, Nodes)'
                           /\ pc'[c] \in {"evidence", "answer"}
                                => local'[c].got = ShownAt(r.seq, Facts)'
    BY DEF PendingReads, ReadReady
  <2>1. pc'[c] = pc[c] /\ local'[c] = local[c]
    BY DEF Quiet
  <2>2. /\ local[c].id <= issued
        /\ \A r \in revisions : r.id = local[c].id =>
             /\ pc[c] \in {"nodes", "edges", "evidence", "answer"} => local[c].seq = r.seq
             /\ pc[c] = "edges" => local[c].got = ShownAt(r.seq, Nodes)
             /\ pc[c] \in {"evidence", "answer"} => local[c].got = ShownAt(r.seq, Facts)
    BY <2>1 DEF IInv, PendingReads, ReadReady
  <2>3. \A r \in revisions' : r.id = local[c].id => r \in revisions
    BY <1>2, <1>3, <1>4, <1>5, <2>2
  <2>. QED BY <1>2, <1>3, <1>5, <1>6, <2>1, <2>2, <2>3
<1>. QED BY <1>7, <1>8

(* The whole of apply: a replay or a conflict changes no table at all. *)
LEMMA ApplyKeepsInvariant ==
  ASSUME IInv, TypeOK', NEW d \in Delta, ApplyDelta(d), Quiet
  PROVE  IInv'
<1>1. CASE ~ Seen(d) /\ CommitDelta(d)
  BY <1>1, CommitIds, CommitIntervals, CommitLog, CommitPending DEF IInv
<1>2. CASE UNCHANGED tables
  <2>1. IdsAndSequences' /\ HeadIsLatest' /\ RowsBounded' /\ IntervalsDisjoint'
        /\ ReplayIsAnswered' /\ SingleLineage'
    BY <1>2 DEF tables, IInv, IdsAndSequences, HeadIsLatest, RowsBounded, IntervalsDisjoint,
                Before, ReplayIsAnswered, LiveIds, SingleLineage
  <2>2. PendingPrunes'
    BY <1>2 DEF tables, IInv, PendingPrunes, PruneReady, Quiet
  <2>3. \A s, W : ShownAt(s, W)' = ShownAt(s, W)
    BY <1>2 DEF tables, ShownAt, ValidAt
  <2>4. PendingReads'
    BY <1>2, <2>3 DEF tables, IInv, PendingReads, ReadReady, Quiet
  <2>. QED BY <2>1, <2>2, <2>4 DEF IInv
<1>. QED BY <1>1, <1>2 DEF ApplyDelta

----------------------------------------------------------------------------
(* A retention pass keeps the invariant.                                   *)

(* What prune deletes was shown by no revision that it keeps. *)
LEMMA PruneKeepsViews ==
  ASSUME TypeOK, NEW c \in Connections, PruneDelete(c), NEW s \in Nat, s > local[c].seq, NEW W
  PROVE  ShownAt(s, W)' = ShownAt(s, W)
<1>1. \A x \in facts : ValidAt(x, s) => ~ Expired(x, local[c].seq)
  BY DEF TypeOK, FactRow, Locals, ValidAt, Expired, Null
<1>2. { x \in facts' : x.fact \in W /\ ValidAt(x, s) } = { x \in facts : x.fact \in W /\ ValidAt(x, s) }
  BY <1>1 DEF PruneDelete
<1>3. ShownAt(s, W)'
        = { <<row.fact, row.payload>> : row \in { x \in facts' : x.fact \in W /\ ValidAt(x, s) } }
  BY DEF ShownAt, ValidAt
<1>. QED BY <1>2, <1>3 DEF ShownAt

LEMMA PruneKeepsInvariant ==
  ASSUME IInv, TypeOK', NEW c \in Connections, PruneDelete(c)
  PROVE  IInv'
<1> DEFINE cut == local[c].seq
<1>1. /\ \A r \in revisions : r.id \in Nat /\ r.seq \in Nat
      /\ cut \in Nat
  BY DEF IInv, TypeOK, Revision, Locals
<1>2. PICK h \in revisions : h.id = head /\ h.seq > cut
  BY DEF IInv, PendingPrunes, PruneReady, PruneDelete, Goto
<1>3. revisions' = { r \in revisions : r.seq > cut }
  <2>1. \A r \in revisions : r.seq <= cut <=> r.id \in local[c].doomed
    BY DEF IInv, PendingPrunes, PruneReady, PruneDelete, Goto
  <2>. QED BY <1>1, <2>1 DEF PruneDelete
<1>4. /\ head' = head /\ issued' = issued
      /\ facts' \subseteq facts
      /\ log' = { entry \in log : entry.id \notin local[c].doomed }
      /\ \A k \in Connections : k # c => pc'[k] = pc[k] /\ local'[k] = local[k]
      /\ pc'[c] = "idle"
  BY DEF PruneDelete, Goto, IInv, TypeOK
<1>5. h \in revisions' /\ \A r \in revisions \ {h} : r.seq < h.seq
  BY <1>2, <1>3 DEF IInv, HeadIsLatest, IdsAndSequences
<1> HIDE DEF cut
<1>6. IdsAndSequences'
  BY <1>3, <1>4 DEF IInv, IdsAndSequences
<1>7. HeadIsLatest'
  BY <1>2, <1>3, <1>4, <1>5 DEF HeadIsLatest
<1>8. RowsBounded'
  BY <1>2, <1>4, <1>5 DEF IInv, RowsBounded, IdsAndSequences
<1>9. IntervalsDisjoint'
  BY <1>4 DEF IInv, IntervalsDisjoint, Before
<1>10. ReplayIsAnswered'
  <2>1. \A entry \in log' : entry.id \in LiveIds'
    BY <1>4 DEF IInv, ReplayIsAnswered, LiveIds, PruneDelete
  <2>. QED BY <1>4, <2>1 DEF IInv, ReplayIsAnswered
<1>11. SingleLineage'
  <2> SUFFICES ASSUME NEW r \in revisions', NEW s \in revisions', s.seq < r.seq
               PROVE  \E p \in revisions' : /\ p.seq < r.seq /\ p.id = r.parent
                                            /\ \A q \in revisions' : q.seq < r.seq => q.seq <= p.seq
    BY DEF SingleLineage
  <2>1. PICK p \in revisions : /\ p.seq < r.seq /\ p.id = r.parent
                               /\ \A q \in revisions : q.seq < r.seq => q.seq <= p.seq
    BY <1>3 DEF IInv, SingleLineage
  <2>. QED BY <1>1, <1>3, <2>1
<1>12. PendingPrunes'
  BY <1>2, <1>3, <1>4, <1>5 DEF IInv, PendingPrunes, PruneReady, IdsAndSequences
<1>13. PendingReads'
  <2>1. \A r \in revisions' : /\ ShownAt(r.seq, Nodes)' = ShownAt(r.seq, Nodes)
                             /\ ShownAt(r.seq, Facts)' = ShownAt(r.seq, Facts)
    BY <1>1, <1>3, PruneKeepsViews DEF IInv, cut, Facts
  <2>. QED BY <1>3, <1>4, <2>1 DEF IInv, PendingReads, ReadReady
<1>. QED BY <1>6, <1>7, <1>8, <1>9, <1>10, <1>11, <1>12, <1>13 DEF IInv

----------------------------------------------------------------------------
(* Steps that change no table.                                             *)

LEMMA LocalStepKeepsInvariant ==
  ASSUME IInv, TypeOK', UNCHANGED tables, NEW c \in Connections,
         \A k \in Connections \ {c} : pc'[k] = pc[k] /\ local'[k] = local[k],
         PruneReady(c)', ReadReady(c)'
  PROVE  IInv'
<1>1. IdsAndSequences' /\ HeadIsLatest' /\ RowsBounded' /\ IntervalsDisjoint'
        /\ ReplayIsAnswered' /\ SingleLineage'
  BY DEF tables, IInv, IdsAndSequences, HeadIsLatest, RowsBounded, IntervalsDisjoint,
         Before, ReplayIsAnswered, LiveIds, SingleLineage
<1>2. PendingPrunes'
  BY DEF tables, IInv, PendingPrunes, PruneReady
<1>3. \A s, W : ShownAt(s, W)' = ShownAt(s, W)
  BY DEF tables, ShownAt, ValidAt
<1>4. PendingReads'
  BY <1>3 DEF tables, IInv, PendingReads, ReadReady
<1>. QED BY <1>1, <1>2, <1>4 DEF IInv

(* A connection that goes back to idle, or only reads the head for an      *)
(* import, has nothing pending.                                            *)
LEMMA RestingStep ==
  ASSUME IInv, TypeOK', UNCHANGED tables, NEW c \in Connections,
         \A k \in Connections \ {c} : pc'[k] = pc[k] /\ local'[k] = local[k],
         pc'[c] \in {"idle", "import"}
  PROVE  IInv'
<1>1. PruneReady(c)' /\ ReadReady(c)'
  BY DEF PruneReady, ReadReady
<1>. QED BY <1>1, LocalStepKeepsInvariant

(* What rows[keep:] leaves out are keep >= 1 newer revisions, so the head  *)
(* is above the cutoff.                                                    *)
LEMMA PruneSelectReady ==
  ASSUME IInv, NEW c \in Connections, NEW keep \in 1..MaxRevisions, PruneSelect(c, keep)
  PROVE  PruneReady(c)'
<1>1. PICK r \in revisions :
        /\ Cardinality(NewerThan(r.seq)) = keep
        /\ local' = [local EXCEPT ![c] = [NoLocals EXCEPT !.seq = r.seq,
                       !.doomed = { s.id : s \in revisions \ NewerThan(r.seq) }]]
  BY DEF PruneSelect
<1>2. local'[c].seq = r.seq /\ local'[c].doomed = { s.id : s \in revisions \ NewerThan(r.seq) }
  BY <1>1 DEF IInv, TypeOK, NoLocals
<1>3. \A s \in revisions : s.id \in Nat /\ s.seq \in Nat
  BY DEF IInv, TypeOK, Revision
<1>4. PICK q \in revisions : q.seq > r.seq
  <2>1. keep # 0
    BY MaxRevisionsAssumption
  <2>2. NewerThan(r.seq) # {}
    BY <1>1, <2>1, FS_EmptySet
  <2>. QED BY <2>2 DEF NewerThan
<1>5. PICK h \in revisions : h.id = head /\ \A s \in revisions \ {h} : s.seq < h.seq
  BY <1>1 DEF IInv, HeadIsLatest
<1>6. h.seq > r.seq
  BY <1>3, <1>4, <1>5
<1>7. \A i \in local'[c].doomed : i <= issued
  BY <1>2 DEF IInv, IdsAndSequences
<1>8. \A s \in revisions : s.seq <= local'[c].seq <=> s.id \in local'[c].doomed
  BY <1>2, <1>3 DEF IInv, IdsAndSequences, NewerThan
<1>9. UNCHANGED tables
  BY DEF PruneSelect
<1>. QED BY <1>2, <1>5, <1>6, <1>7, <1>8, <1>9 DEF PruneReady, tables

LEMMA ShownInFacts ==
  ASSUME TypeOK, NEW s, NEW W \in SUBSET Facts
  PROVE  ShownAt(s, W) \in SUBSET (Facts \X Payloads)
  BY DEF TypeOK, FactRow, ShownAt

LEMMA ShownByTables ==
  ASSUME TypeOK, NEW s
  PROVE  ShownAt(s, Nodes) \cup ShownAt(s, Edges) = ShownAt(s, Facts)
  BY DEF ShownAt, Facts

(* A delta made of an exported file is one that apply accepts. *)
LEMMA ImportDeltaIsDelta ==
  ASSUME TypeOK, NEW c \in Connections
  PROVE  ImportDelta(c) \in Delta
<1> DEFINE S == { p[1] : p \in local[c].got }
           put == [f \in S |-> CHOOSE v \in Payloads : <<f, v>> \in local[c].got]
<1>1. /\ local[c].got \in SUBSET (Facts \X Payloads)
      /\ local[c].items \in SUBSET Evidence
      /\ local[c].id \in Nat
      /\ local[c].base \in Nat
  BY DEF TypeOK, Locals
<1>2. S \in SUBSET Facts
  BY <1>1
<1>3. \A f \in S : \E v \in Payloads : <<f, v>> \in local[c].got
  <2> TAKE f \in S
  <2>1. PICK p \in local[c].got : f = p[1]
    OBVIOUS
  <2>2. p = <<p[1], p[2]>> /\ p[2] \in Payloads
    BY <1>1
  <2>. QED BY <2>1, <2>2
<1>4. put \in [S -> Payloads]
  BY <1>3
<1>5. <<local[c].id, local[c].items>> \in Nat \X SUBSET Evidence
  BY <1>1
<1>6. ImportDelta(c) = [put |-> put, drop |-> {}, items |-> local[c].items,
                        key |-> <<local[c].id, local[c].items>>, expected |-> local[c].base]
  BY DEF ImportDelta
<1> HIDE DEF S, put
<1>. QED BY <1>1, <1>2, <1>4, <1>5, <1>6 DEF Delta, ImportKeys

----------------------------------------------------------------------------
(* Types.                                                                  *)

TablesTyped ==
  /\ revisions \subseteq Revision
  /\ head \in Nat
  /\ facts \subseteq FactRow
  /\ evidence \subseteq [item : Evidence, seq : Nat]
  /\ log \subseteq [key : Keys \cup ImportKeys, id : Nat]
  /\ issued \in Nat

LEMMA ApplyKeepsTypes ==
  ASSUME TypeOK, HeadIsLatest, NEW d \in Delta, ApplyDelta(d)
  PROVE  TablesTyped'
<1>1. CASE UNCHANGED tables
  BY <1>1 DEF TypeOK, tables, TablesTyped
<1>2. CASE CommitDelta(d)
  <2> DEFINE n == NextSequence
  <2>1. n \in Nat
    BY NextSequenceIsFresh
  <2>2. facts' \subseteq FactRow
    <3>1. facts' = { Aged(x, d, n) : x \in facts } \cup { Fresh(f, d, n) : f \in DOMAIN d.put }
      BY <1>2, CommitRows
    <3> HIDE DEF n
    <3>. QED BY <2>1, <3>1, AgedRow, FreshRow DEF TypeOK
  <2>3. d.items \in SUBSET Evidence /\ d.key \in Keys \cup ImportKeys
    BY DEF Delta
  <2> HIDE DEF n
  <2>4. evidence' \subseteq [item : Evidence, seq : Nat]
    <3>1. evidence' = evidence \cup { [item |-> e, seq |-> n] : e \in d.items }
      BY <1>2 DEF CommitDelta, n
    <3>. QED BY <2>1, <2>3, <3>1 DEF TypeOK
  <2>5. log' \subseteq [key : Keys \cup ImportKeys, id : Nat]
    BY <1>2, <2>3 DEF CommitDelta, TypeOK
  <2>6. revisions' \subseteq Revision
    <3>1. revisions' = revisions \cup {[id |-> issued + 1, seq |-> n, parent |-> head]}
      BY <1>2 DEF CommitDelta, Parent, n
    <3>. QED BY <2>1, <3>1 DEF TypeOK, Revision
  <2>7. head' \in Nat /\ issued' \in Nat
    BY <1>2 DEF CommitDelta, TypeOK
  <2>. QED BY <2>2, <2>4, <2>5, <2>6, <2>7 DEF TablesTyped
<1>. QED BY <1>1, <1>2 DEF ApplyDelta

(* A step that changes no table keeps the types if what it puts into the   *)
(* locals of its connection is typed.                                      *)
LEMMA LocalStepKeepsTypes ==
  ASSUME TypeOK, UNCHANGED tables, NEW c \in Connections, NEW l \in Locals, NEW to \in Steps,
         local' = [local EXCEPT ![c] = l], pc' = [pc EXCEPT ![c] = to],
         file' \in [id : Nat, got : SUBSET (Facts \X Payloads), items : SUBSET Evidence]
  PROVE  /\ TypeOK'
         /\ pc'[c] = to /\ local'[c] = l
         /\ \A k \in Connections \ {c} : pc'[k] = pc[k] /\ local'[k] = local[k]
  BY DEF TypeOK, tables

LEMMA NoLocalsTyped == NoLocals \in Locals
  BY DEF NoLocals, Locals, Null

----------------------------------------------------------------------------
(* The invariant holds initially and every step keeps it.                  *)

LEMMA InitEstablishes == Init => IInv
<1> SUFFICES ASSUME Init PROVE IInv
  OBVIOUS
<1>1. TypeOK
  BY NoLocalsTyped DEF Init, TypeOK, Steps, NoFile, Null
<1>2. IdsAndSequences /\ HeadIsLatest /\ RowsBounded /\ IntervalsDisjoint
        /\ ReplayIsAnswered /\ SingleLineage /\ PendingPrunes /\ PendingReads
  BY DEF Init, IdsAndSequences, HeadIsLatest, RowsBounded, IntervalsDisjoint, ReplayIsAnswered,
         SingleLineage, PendingPrunes, PruneReady, PendingReads, ReadReady
<1>. QED BY <1>1, <1>2 DEF IInv

LEMMA WriteKeepsInvariant ==
  ASSUME IInv, NEW c \in Connections, Apply(c) \/ ImportApply(c)
  PROVE  IInv'
<1>1. CASE Apply(c)
  <2>1. PICK S \in SUBSET Facts, drop \in SUBSET Facts, items \in SUBSET Evidence, k \in Keys,
             expected \in 0..issued : \E put \in [S -> Payloads] :
               ApplyDelta([put |-> put, drop |-> drop, items |-> items,
                           key |-> k, expected |-> expected])
    BY <1>1 DEF Apply
  <2>2. PICK put \in [S -> Payloads] :
               ApplyDelta([put |-> put, drop |-> drop, items |-> items,
                           key |-> k, expected |-> expected])
    BY <2>1
  <2> DEFINE d == [put |-> put, drop |-> drop, items |-> items, key |-> k, expected |-> expected]
  <2>3. d \in Delta
    BY DEF Delta, IInv, TypeOK
  <2>4. ApplyDelta(d)
    BY <2>2
  <2> HIDE DEF d
  <2>5. TypeOK'
    BY <1>1, <2>3, <2>4, ApplyKeepsTypes DEF Apply, TablesTyped, IInv, TypeOK
  <2>6. Quiet
    BY <1>1 DEF Apply, Quiet
  <2>. QED BY <2>3, <2>4, <2>5, <2>6, ApplyKeepsInvariant
<1>2. CASE ImportApply(c)
  <2>1. ImportDelta(c) \in Delta /\ ApplyDelta(ImportDelta(c))
    BY <1>2, ImportDeltaIsDelta DEF ImportApply, IInv
  <2>2. TypeOK'
    BY <1>2, <2>1, ApplyKeepsTypes, NoLocalsTyped
       DEF ImportApply, Goto, Steps, TablesTyped, IInv, TypeOK
  <2>3. Quiet
    BY <1>2 DEF ImportApply, Goto, Quiet, IInv, TypeOK
  <2>. QED BY <2>1, <2>2, <2>3, ApplyKeepsInvariant
<1>. QED BY <1>1, <1>2

LEMMA ReadKeepsInvariant ==
  ASSUME IInv, NEW c \in Connections,
         \/ \E id \in LiveIds : SnapshotRevision(c, id)
         \/ SnapshotSequence(c)
         \/ SnapshotNodes(c)
         \/ SnapshotEdges(c)
         \/ SnapshotEvidence(c)
  PROVE  IInv'
<1>1. /\ local[c] \in Locals
      /\ \A r \in revisions : r.id \in Nat /\ r.seq \in Nat /\ r.id <= issued
  BY DEF IInv, TypeOK, Revision, IdsAndSequences
<1>2. \A s, W : ShownAt(s, W)' = ShownAt(s, W)
  BY DEF ShownAt, ValidAt, SnapshotRevision, SnapshotSequence, SnapshotNodes, SnapshotEdges,
         SnapshotEvidence, tables
<1>3. UNCHANGED tables /\ UNCHANGED file
  BY DEF SnapshotRevision, SnapshotSequence, SnapshotNodes, SnapshotEdges, SnapshotEvidence, tables
<1>4. file' \in [id : Nat, got : SUBSET (Facts \X Payloads), items : SUBSET Evidence]
  BY <1>3 DEF IInv, TypeOK
<1>5. ASSUME NEW id \in LiveIds, SnapshotRevision(c, id)
      PROVE  IInv'
  <2> DEFINE l == [NoLocals EXCEPT !.id = id]
  <2>1. id \in Nat /\ id <= issued
    BY <1>1 DEF LiveIds
  <2>2. l \in Locals /\ l.id = id
    BY <2>1 DEF NoLocals, Locals, Null
  <2>3. local' = [local EXCEPT ![c] = l] /\ pc' = [pc EXCEPT ![c] = "sequence"]
    BY <1>5 DEF SnapshotRevision, Goto
  <2> HIDE DEF l
  <2>4. /\ TypeOK'
        /\ pc'[c] = "sequence" /\ local'[c] = l
        /\ \A k \in Connections \ {c} : pc'[k] = pc[k] /\ local'[k] = local[k]
    BY <1>3, <1>4, <2>2, <2>3, LocalStepKeepsTypes DEF IInv, Steps
  <2>5. PruneReady(c)' /\ ReadReady(c)'
    BY <1>3, <2>1, <2>2, <2>4 DEF PruneReady, ReadReady, tables
  <2>. QED BY <1>3, <2>4, <2>5, LocalStepKeepsInvariant
<1>6. CASE SnapshotSequence(c)
  <2>1. PICK r \in revisions : r.id = local[c].id
    BY <1>6 DEF SnapshotSequence, LiveIds
  <2> DEFINE l == [local[c] EXCEPT !.seq = r.seq]
  <2>2. l \in Locals /\ l.id = r.id /\ l.seq = r.seq
    BY <1>1, <2>1 DEF Locals
  <2>3. SeqOf(local[c].id) = r.seq
    BY <2>1, SeqOfId DEF IInv
  <2>4. local' = [local EXCEPT ![c] = l] /\ pc' = [pc EXCEPT ![c] = "nodes"]
    BY <1>6, <2>3 DEF SnapshotSequence, Goto
  <2> HIDE DEF l
  <2>5. /\ TypeOK'
        /\ pc'[c] = "nodes" /\ local'[c] = l
        /\ \A k \in Connections \ {c} : pc'[k] = pc[k] /\ local'[k] = local[k]
    BY <1>3, <1>4, <2>2, <2>4, LocalStepKeepsTypes DEF IInv, Steps
  <2>6. PruneReady(c)' /\ ReadReady(c)'
    BY <1>1, <1>3, <2>2, <2>5 DEF PruneReady, ReadReady, tables, IInv, IdsAndSequences
  <2>. QED BY <1>3, <2>5, <2>6, LocalStepKeepsInvariant
<1>7. CASE SnapshotNodes(c)
  <2> DEFINE l == [local[c] EXCEPT !.got = ShownAt(local[c].seq, Nodes)]
  <2>1. ShownAt(local[c].seq, Nodes) \in SUBSET (Facts \X Payloads)
    BY ShownInFacts DEF IInv, Facts
  <2>2. /\ l \in Locals /\ l.id = local[c].id /\ l.seq = local[c].seq
        /\ l.got = ShownAt(local[c].seq, Nodes)
    BY <1>1, <2>1 DEF Locals
  <2>3. local' = [local EXCEPT ![c] = l] /\ pc' = [pc EXCEPT ![c] = "edges"] /\ pc[c] = "nodes"
    BY <1>7 DEF SnapshotNodes, Goto
  <2> HIDE DEF l
  <2>4. /\ TypeOK'
        /\ pc'[c] = "edges" /\ local'[c] = l
        /\ \A k \in Connections \ {c} : pc'[k] = pc[k] /\ local'[k] = local[k]
    BY <1>3, <1>4, <2>2, <2>3, LocalStepKeepsTypes DEF IInv, Steps
  <2>5. PruneReady(c)' /\ ReadReady(c)'
    BY <1>2, <1>3, <2>2, <2>3, <2>4 DEF PruneReady, ReadReady, tables, IInv, PendingReads
  <2>. QED BY <1>3, <2>4, <2>5, LocalStepKeepsInvariant
<1>8. CASE SnapshotEdges(c)
  <2> DEFINE got == local[c].got \cup ShownAt(local[c].seq, Edges)
             l == [local[c] EXCEPT !.got = got]
  <2>1. got \in SUBSET (Facts \X Payloads)
    BY <1>1, ShownInFacts DEF IInv, Facts, Locals
  <2>2. l \in Locals /\ l.id = local[c].id /\ l.seq = local[c].seq /\ l.got = got
    BY <1>1, <2>1 DEF Locals
  <2>3. local' = [local EXCEPT ![c] = l] /\ pc' = [pc EXCEPT ![c] = "evidence"] /\ pc[c] = "edges"
    BY <1>8 DEF SnapshotEdges, Goto, IInv, TypeOK
  <2>4. \A r \in revisions : r.id = local[c].id => local[c].seq = r.seq /\ got = ShownAt(r.seq, Facts)
    BY <2>3, ShownByTables DEF IInv, PendingReads, ReadReady
  <2> HIDE DEF l, got
  <2>5. /\ TypeOK'
        /\ pc'[c] = "evidence" /\ local'[c] = l
        /\ \A k \in Connections \ {c} : pc'[k] = pc[k] /\ local'[k] = local[k]
    BY <1>3, <1>4, <2>2, <2>3, LocalStepKeepsTypes DEF IInv, Steps
  <2>6. PruneReady(c)' /\ ReadReady(c)'
    BY <1>2, <1>3, <2>2, <2>3, <2>4, <2>5 DEF PruneReady, ReadReady, tables, IInv, PendingReads
  <2>. QED BY <1>3, <2>5, <2>6, LocalStepKeepsInvariant
<1>9. CASE SnapshotEvidence(c)
  <2> DEFINE l == [local[c] EXCEPT !.items = EvidenceAt(local[c].seq)]
  <2>1. EvidenceAt(local[c].seq) \in SUBSET Evidence
    BY DEF EvidenceAt, IInv, TypeOK
  <2>2. l \in Locals /\ l.id = local[c].id /\ l.seq = local[c].seq /\ l.got = local[c].got
    BY <1>1, <2>1 DEF Locals
  <2>3. local' = [local EXCEPT ![c] = l] /\ pc' = [pc EXCEPT ![c] = "answer"] /\ pc[c] = "evidence"
    BY <1>9 DEF SnapshotEvidence, Goto
  <2> HIDE DEF l
  <2>4. /\ TypeOK'
        /\ pc'[c] = "answer" /\ local'[c] = l
        /\ \A k \in Connections \ {c} : pc'[k] = pc[k] /\ local'[k] = local[k]
    BY <1>3, <1>4, <2>2, <2>3, LocalStepKeepsTypes DEF IInv, Steps
  <2>5. PruneReady(c)' /\ ReadReady(c)'
    BY <1>2, <1>3, <2>2, <2>3, <2>4 DEF PruneReady, ReadReady, tables, IInv, PendingReads
  <2>. QED BY <1>3, <2>4, <2>5, LocalStepKeepsInvariant
<1>. QED BY <1>5, <1>6, <1>7, <1>8, <1>9

LEMMA RestKeepsInvariant ==
  ASSUME IInv, NEW c \in Connections,
         SnapshotLost(c) \/ SnapshotAnswer(c) \/ ExportSnapshot(c) \/ ImportRead(c) \/ Crash(c)
  PROVE  IInv'
<1>1. local[c] \in Locals
  BY DEF IInv, TypeOK
<1>2. UNCHANGED tables
  BY DEF SnapshotLost, SnapshotAnswer, ExportSnapshot, ImportRead, Crash, tables
<1>3. file' \in [id : Nat, got : SUBSET (Facts \X Payloads), items : SUBSET Evidence]
  BY <1>1 DEF SnapshotLost, SnapshotAnswer, ExportSnapshot, ImportRead, Crash, IInv, TypeOK, Locals
<1>4. \E l \in Locals, to \in {"idle", "import"} :
        local' = [local EXCEPT ![c] = l] /\ pc' = [pc EXCEPT ![c] = to]
  <2>1. CASE ImportRead(c)
    <3> DEFINE l == [NoLocals EXCEPT !.id = file.id, !.base = head,
                                    !.got = file.got, !.items = file.items]
    <3>1. l \in Locals
      BY DEF IInv, TypeOK, NoLocals, Locals, Null
    <3>2. local' = [local EXCEPT ![c] = l] /\ pc' = [pc EXCEPT ![c] = "import"]
      BY <2>1 DEF ImportRead, Goto
    <3> HIDE DEF l
    <3>. QED BY <3>1, <3>2
  <2>2. CASE SnapshotLost(c) \/ SnapshotAnswer(c) \/ ExportSnapshot(c) \/ Crash(c)
    <3>1. local' = [local EXCEPT ![c] = NoLocals] /\ pc' = [pc EXCEPT ![c] = "idle"]
      BY <2>2 DEF SnapshotLost, SnapshotAnswer, ExportSnapshot, Crash, Goto
    <3>. QED BY <3>1, NoLocalsTyped
  <2>. QED BY <2>1, <2>2
<1>5. PICK l \in Locals, to \in {"idle", "import"} :
        local' = [local EXCEPT ![c] = l] /\ pc' = [pc EXCEPT ![c] = to]
  BY <1>4
<1>6. /\ TypeOK'
      /\ pc'[c] = to
      /\ \A k \in Connections \ {c} : pc'[k] = pc[k] /\ local'[k] = local[k]
  BY <1>2, <1>3, <1>5, LocalStepKeepsTypes DEF IInv, Steps
<1>. QED BY <1>2, <1>5, <1>6, RestingStep

LEMMA PruneStepsKeepInvariant ==
  ASSUME IInv, NEW c \in Connections,
         (\E keep \in 1..MaxRevisions : PruneSelect(c, keep)) \/ PruneDelete(c)
  PROVE  IInv'
<1>1. ASSUME NEW keep \in 1..MaxRevisions, PruneSelect(c, keep)
      PROVE  IInv'
  <2>1. PICK r \in revisions :
          local' = [local EXCEPT ![c] = [NoLocals EXCEPT !.seq = r.seq,
                       !.doomed = { s.id : s \in revisions \ NewerThan(r.seq) }]]
    BY <1>1 DEF PruneSelect
  <2> DEFINE old == { s.id : s \in revisions \ NewerThan(r.seq) }
             l == [NoLocals EXCEPT !.seq = r.seq, !.doomed = old]
  <2>2. l \in Locals
    <3>1. r.seq \in Nat /\ old \in SUBSET Nat
      BY DEF IInv, TypeOK, Revision
    <3> HIDE DEF old
    <3>. QED BY <3>1 DEF NoLocals, Locals, Null
  <2>3. local' = [local EXCEPT ![c] = l] /\ pc' = [pc EXCEPT ![c] = "delete"]
    BY <1>1, <2>1 DEF PruneSelect, Goto
  <2> HIDE DEF l
  <2>4. UNCHANGED tables
    BY <1>1 DEF PruneSelect, tables
  <2>5. file' \in [id : Nat, got : SUBSET (Facts \X Payloads), items : SUBSET Evidence]
    BY <1>1 DEF PruneSelect, IInv, TypeOK
  <2>6. /\ TypeOK'
        /\ pc'[c] = "delete"
        /\ \A k \in Connections \ {c} : pc'[k] = pc[k] /\ local'[k] = local[k]
    BY <2>2, <2>3, <2>4, <2>5, LocalStepKeepsTypes DEF IInv, Steps
  <2>7. PruneReady(c)'
    BY <1>1, PruneSelectReady
  <2>8. ReadReady(c)'
    <3>1. local'[c].id = Null
      BY <2>1 DEF NoLocals, IInv, TypeOK
    <3>2. \A r2 \in revisions' : r2.id # Null
      BY <2>4 DEF tables, IInv, IdsAndSequences
    <3>. QED BY <2>6, <3>1, <3>2 DEF ReadReady
  <2>. QED BY <2>4, <2>6, <2>7, <2>8, LocalStepKeepsInvariant
<1>2. CASE PruneDelete(c)
  <2>1. TypeOK'
    BY <1>2, NoLocalsTyped DEF PruneDelete, Goto, Steps, IInv, TypeOK
  <2>. QED BY <1>2, <2>1, PruneKeepsInvariant
<1>. QED BY <1>1, <1>2

LEMMA StepKeepsInvariant == IInv /\ [Next]_vars => IInv'
<1> SUFFICES ASSUME IInv, [Next]_vars PROVE IInv'
  OBVIOUS
<1>1. CASE Next
  <2>1. PICK c \in Connections :
          \/ Apply(c) \/ ImportApply(c)
          \/ \E id \in LiveIds : SnapshotRevision(c, id)
          \/ SnapshotSequence(c) \/ SnapshotNodes(c) \/ SnapshotEdges(c) \/ SnapshotEvidence(c)
          \/ SnapshotLost(c) \/ SnapshotAnswer(c) \/ ExportSnapshot(c) \/ ImportRead(c) \/ Crash(c)
          \/ \E keep \in 1..MaxRevisions : PruneSelect(c, keep)
          \/ PruneDelete(c)
    BY <1>1 DEF Next
  <2>. QED BY <2>1, WriteKeepsInvariant, ReadKeepsInvariant, RestKeepsInvariant,
              PruneStepsKeepInvariant
<1>2. CASE UNCHANGED vars
  <2>1. UNCHANGED tables /\ TypeOK' /\ pc' = pc /\ local' = local
    BY <1>2 DEF vars, tables, IInv, TypeOK
  <2>2. IdsAndSequences' /\ HeadIsLatest' /\ RowsBounded' /\ IntervalsDisjoint'
        /\ ReplayIsAnswered' /\ SingleLineage'
    BY <2>1 DEF tables, IInv, IdsAndSequences, HeadIsLatest, RowsBounded, IntervalsDisjoint,
                Before, ReplayIsAnswered, LiveIds, SingleLineage
  <2>3. PendingPrunes'
    BY <2>1 DEF tables, IInv, PendingPrunes, PruneReady
  <2>4. \A s, W : ShownAt(s, W)' = ShownAt(s, W)
    BY <2>1 DEF tables, ShownAt, ValidAt
  <2>5. PendingReads'
    BY <2>1, <2>4 DEF tables, IInv, PendingReads, ReadReady
  <2>. QED BY <2>1, <2>2, <2>3, <2>5 DEF IInv
<1>. QED BY <1>1, <1>2

(* The inductive invariant of the store. *)
THEOREM Invariance == Spec => []IInv
  BY InitEstablishes, StepKeepsInvariant, PTL DEF Spec

----------------------------------------------------------------------------
(* What follows from it, for any number of connections, facts and keys.    *)

(* Every table and local keeps its type. *)
THEOREM TypesHold == Spec => []TypeOK
<1>1. IInv => TypeOK
  BY DEF IInv
<1>. QED BY Invariance, <1>1, PTL

(* The head stays the newest kept revision, whatever prune removes. *)
THEOREM HeadStaysLatest == Spec => []HeadIsLatest
<1>1. IInv => HeadIsLatest
  BY DEF IInv
<1>. QED BY Invariance, <1>1, PTL

(* A replayed delta always finds the revision it is answered with. *)
THEOREM ReplaysAnswered == Spec => []ReplayIsAnswered
<1>1. IInv => ReplayIsAnswered
  BY DEF IInv
<1>. QED BY Invariance, <1>1, PTL

(* Concurrent writers and prunes never fork or gap the chain of revisions. *)
THEOREM LineageStaysSingle == Spec => []SingleLineage
<1>1. IInv => SingleLineage
  BY DEF IInv
<1>. QED BY Invariance, <1>1, PTL

(* No revision shows two versions of a node or an edge. *)
THEOREM VersionsExclude == Spec => []OneVersionPerFact
<1>1. IInv => OneVersionPerFact
  <2> SUFFICES ASSUME IInv, NEW x \in facts, NEW y \in facts, x.fact = y.fact, x # y,
                      NEW r \in revisions, ValidAt(x, r.seq), ValidAt(y, r.seq)
               PROVE  FALSE
    BY DEF OneVersionPerFact, ValidAt
  <2>1. /\ x.from \in Nat /\ x.to \in Nat /\ y.from \in Nat /\ y.to \in Nat
        /\ r.seq \in Nat
    BY DEF IInv, TypeOK, FactRow, Revision
  <2>2. Before(x, y) \/ Before(y, x)
    BY DEF IInv, IntervalsDisjoint
  <2>. QED BY <2>1, <2>2 DEF Before, ValidAt
<1>. QED BY Invariance, <1>1, PTL

(* A snapshot assembled from separate SELECTs is not torn by other writers. *)
THEOREM SnapshotsAgree == Spec => []SnapshotReadsAgree
<1>1. IInv => SnapshotReadsAgree
  <2> SUFFICES ASSUME IInv, NEW c \in Connections, pc[c] = "answer", local[c].id \in LiveIds
               PROVE  local[c].got = ShownAt(SeqOf(local[c].id), Facts)
    BY DEF SnapshotReadsAgree
  <2>1. PICK r \in revisions : r.id = local[c].id
    BY DEF LiveIds
  <2>. QED BY <2>1, SeqOfId DEF IInv, PendingReads, ReadReady
<1>. QED BY Invariance, <1>1, PTL

(* A commit is the only step that moves the head, and moves it to an id    *)
(* drawn for it.                                                           *)
LEMMA HeadMoves ==
  ASSUME IInv, [Next]_vars, head' # head
  PROVE  \E d \in Delta : CommitDelta(d)
<1>1. PICK c \in Connections : Apply(c) \/ ImportApply(c)
  BY DEF Next, vars, tables, SnapshotRevision, SnapshotSequence, SnapshotLost, SnapshotNodes,
         SnapshotEdges, SnapshotEvidence, SnapshotAnswer, ExportSnapshot, ImportRead, PruneSelect,
         PruneDelete, Crash
<1>2. PICK d \in Delta : ApplyDelta(d)
  <2>1. CASE Apply(c)
    <3>1. PICK S \in SUBSET Facts, drop \in SUBSET Facts, items \in SUBSET Evidence, k \in Keys,
               expected \in 0..issued : \E put \in [S -> Payloads] :
                 ApplyDelta([put |-> put, drop |-> drop, items |-> items,
                             key |-> k, expected |-> expected])
      BY <2>1 DEF Apply
    <3>2. PICK put \in [S -> Payloads] :
                 ApplyDelta([put |-> put, drop |-> drop, items |-> items,
                             key |-> k, expected |-> expected])
      BY <3>1
    <3> DEFINE d == [put |-> put, drop |-> drop, items |-> items, key |-> k, expected |-> expected]
    <3>3. d \in Delta
      BY DEF Delta, IInv, TypeOK
    <3>. QED BY <3>2, <3>3
  <2>2. CASE ImportApply(c)
    BY <2>2, ImportDeltaIsDelta DEF ImportApply, IInv
  <2>. QED BY <1>1, <2>1, <2>2
<1>. QED BY <1>2 DEF ApplyDelta, tables

(* The head never goes back, not even when an old delta is replayed. *)
THEOREM HeadOnlyAdvances == Spec => HeadAdvances
<1>1. IInv /\ [Next]_vars => [head' # head => head' \notin LiveIds /\ head' > head]_vars
  <2> SUFFICES ASSUME IInv, [Next]_vars, head' # head
               PROVE  head' \notin LiveIds /\ head' > head
    OBVIOUS
  <2>1. head' = issued + 1
    BY HeadMoves DEF CommitDelta
  <2>2. issued \in Nat /\ \A r \in revisions : r.id \in Nat /\ r.id <= issued
    BY DEF IInv, TypeOK, Revision, IdsAndSequences
  <2>3. head <= issued
    BY <2>2 DEF IInv, HeadIsLatest, Null
  <2>4. head \in Nat
    BY DEF IInv, TypeOK
  <2>. QED BY <2>1, <2>2, <2>3, <2>4 DEF LiveIds
<1>. QED BY Invariance, <1>1, PTL DEF Spec, HeadAdvances

----------------------------------------------------------------------------
(* The store implements RevisionHistory.                                   *)

View(id) == ShownAt(SeqOf(id), Facts)

LEMMA CommitRefines ==
  ASSUME IInv, IInv', NEW d \in Delta, CommitDelta(d)
  PROVE  History!Next
<1>0. NextSequence \in Nat /\ \A r \in revisions : r.seq < NextSequence
  BY NextSequenceIsFresh DEF IInv
<1>20. PICK n \in Nat : n = NextSequence
  BY <1>0
<1>21. PICK id \in Nat : id = issued + 1
  BY DEF IInv, TypeOK
<1>1. \A r \in revisions : r.seq < n
  BY <1>0, <1>20
<1> DEFINE new == [id |-> id, seq |-> n, parent |-> head]
<1>2. revisions' = revisions \cup {new} /\ head' = id
  BY <1>20, <1>21 DEF CommitDelta, Parent
<1>3. new.id = id /\ new.seq = n
  OBVIOUS
<1>4. /\ \A r \in revisions : r.id \in Nat /\ r.seq \in Nat /\ r.id # id
      /\ id \in 1..MaxRevisions
  BY <1>21, MaxRevisionsAssumption DEF CommitDelta, IInv, TypeOK, Revision, IdsAndSequences
<1>5. PICK S \in SUBSET Facts : d.put \in [S -> Payloads]
  BY DEF Delta
<1>6. d.drop \in SUBSET Facts
  BY DEF Delta
<1>7. ShownAt(n, Facts)' = Carried(d)
  BY <1>20, CommitShowsDelta DEF IInv
<1>8. \A r \in revisions : ShownAt(r.seq, Facts)' = ShownAt(r.seq, Facts)
  BY <1>0, <1>4, CommitKeepsOldViews DEF IInv, Facts
<1> HIDE DEF new
<1>9. LiveIds' = LiveIds \cup {id} /\ id \notin LiveIds
  BY <1>2, <1>3, <1>4 DEF LiveIds
<1>10. \A r \in revisions' : SeqOf(r.id)' = r.seq
  BY DEF IInv, IdsAndSequences, SeqOf
<1>11. \A r \in revisions : SeqOf(r.id) = r.seq
  BY DEF IInv, IdsAndSequences, SeqOf
<1>12. \A i \in LiveIds : View(i)' = View(i)
  <2> TAKE i \in LiveIds
  <2>1. PICK r \in revisions : r.id = i
    BY DEF LiveIds
  <2>2. SeqOf(i)' = r.seq /\ SeqOf(i) = r.seq
    BY <1>2, <1>10, <1>11, <2>1
  <2>. QED BY <1>8, <2>1, <2>2 DEF View
<1>13. View(id)' = Carried(d)
  <2>1. SeqOf(id)' = n
    BY <1>2, <1>3, <1>10
  <2>. QED BY <1>7, <2>1 DEF View
<1>14. head # Null => head \in LiveIds
  BY DEF IInv, HeadIsLatest, LiveIds
<1>15. HeadShown = IF head = Null THEN {} ELSE [i \in LiveIds |-> View(i)][head]
  BY <1>14 DEF HeadShown, View
<1>16. Carried(d) = History!Carried(d.put, d.drop)
  BY <1>15 DEF Carried, History!Carried, History!HeadShows, History!None, Null, View
<1>17. [i \in LiveIds' |-> View(i)'] =
         [i \in LiveIds \cup {id} |-> IF i = id THEN Carried(d) ELSE [j \in LiveIds |-> View(j)][i]]
  BY <1>9, <1>12, <1>13
<1>18. History!Commit(id, d.put, d.drop)
  BY <1>2, <1>9, <1>16, <1>17 DEF History!Commit, View
<1>. QED BY <1>4, <1>5, <1>6, <1>18 DEF History!Next

LEMMA PruneRefines ==
  ASSUME IInv, IInv', NEW c \in Connections, PruneDelete(c)
  PROVE  History!Next
<1>1. PICK h \in revisions : h.id = head /\ h.seq > local[c].seq
  BY DEF IInv, PendingPrunes, PruneReady, PruneDelete, Goto
<1>2. /\ \A r \in revisions : r.id \in Nat /\ r.seq \in Nat
      /\ local[c].seq \in Nat
  BY DEF IInv, TypeOK, Revision, Locals
<1>3. revisions' = { r \in revisions : r.seq > local[c].seq } /\ head' = head
  <2>1. \A r \in revisions : r.seq <= local[c].seq <=> r.id \in local[c].doomed
    BY DEF IInv, PendingPrunes, PruneReady, PruneDelete, Goto
  <2>. QED BY <1>2, <2>1 DEF PruneDelete
<1>4. LiveIds' \subseteq LiveIds /\ head \in LiveIds'
  BY <1>1, <1>3 DEF LiveIds
<1>5. \A i \in LiveIds' : View(i)' = View(i)
  <2> TAKE i \in LiveIds'
  <2>1. PICK r \in revisions' : r.id = i
    BY DEF LiveIds
  <2>2. SeqOf(i)' = r.seq
    BY <2>1 DEF IInv, IdsAndSequences, SeqOf
  <2>3. SeqOf(i) = r.seq
    BY <1>3, <2>1, SeqOfId DEF IInv
  <2>4. ShownAt(r.seq, Facts)' = ShownAt(r.seq, Facts)
    BY <1>2, <1>3, PruneKeepsViews DEF IInv, Facts
  <2>. QED BY <2>2, <2>3, <2>4 DEF View
<1>6. [i \in LiveIds' |-> View(i)'] = [i \in LiveIds' |-> [j \in LiveIds |-> View(j)][i]]
  BY <1>4, <1>5
<1>7. History!Forget(LiveIds')
  BY <1>3, <1>4, <1>6 DEF History!Forget, View
<1>. QED BY <1>4, <1>7 DEF History!Next

(* Every behaviour of the store, seen through what its kept revisions      *)
(* show, is one of a plain history of immutable revisions.                 *)
THEOREM StoreImplementsHistory == Spec => ImplementsHistory
<1>1. Init => History!Init
  <2> SUFFICES ASSUME Init PROVE History!Init
    OBVIOUS
  <2>1. LiveIds = {} /\ head = 0
    BY DEF Init, LiveIds, Null
  <2>2. [i \in LiveIds |-> View(i)] = [i \in {} |-> {}]
    BY <2>1
  <2>. QED BY <2>1, <2>2 DEF History!Init, History!None, View
<1>2. IInv /\ IInv' /\ [Next]_vars => [History!Next]_(History!vars)
  <2> SUFFICES ASSUME IInv, IInv', [Next]_vars, ~ UNCHANGED History!vars
               PROVE  History!Next
    OBVIOUS
  <2>1. CASE UNCHANGED tables
    <3>1. \A i : View(i)' = View(i)
      BY <2>1 DEF tables, View, ShownAt, ValidAt, SeqOf
    <3>2. LiveIds' = LiveIds /\ head' = head
      BY <2>1 DEF tables, LiveIds
    <3>3. [i \in LiveIds' |-> View(i)'] = [i \in LiveIds |-> View(i)]
      BY <3>1, <3>2
    <3>. QED BY <3>2, <3>3 DEF History!vars, View
  <2>2. ASSUME NEW d \in Delta, ApplyDelta(d)
        PROVE  History!Next
    BY <2>1, <2>2, CommitRefines DEF ApplyDelta
  <2>3. ASSUME NEW c \in Connections, PruneDelete(c)
        PROVE  History!Next
    BY <2>3, PruneRefines
  <2>4. CASE \E c \in Connections : Apply(c)
    <3>1. PICK S \in SUBSET Facts, drop \in SUBSET Facts, items \in SUBSET Evidence, k \in Keys,
               expected \in 0..issued : \E put \in [S -> Payloads] :
                 ApplyDelta([put |-> put, drop |-> drop, items |-> items,
                             key |-> k, expected |-> expected])
      BY <2>4 DEF Apply
    <3>2. PICK put \in [S -> Payloads] :
                 ApplyDelta([put |-> put, drop |-> drop, items |-> items,
                             key |-> k, expected |-> expected])
      BY <3>1
    <3> DEFINE d == [put |-> put, drop |-> drop, items |-> items, key |-> k, expected |-> expected]
    <3>3. d \in Delta
      BY DEF Delta, IInv, TypeOK
    <3>. QED BY <2>2, <3>2, <3>3
  <2>5. CASE \E c \in Connections : ImportApply(c)
    BY <2>2, <2>5, ImportDeltaIsDelta DEF ImportApply, IInv
  <2>6. CASE UNCHANGED vars
    BY <2>1, <2>6 DEF vars, tables
  <2>7. ASSUME NEW c \in Connections,
               \/ \E id \in LiveIds : SnapshotRevision(c, id)
               \/ SnapshotSequence(c) \/ SnapshotNodes(c) \/ SnapshotEdges(c)
               \/ SnapshotEvidence(c) \/ SnapshotLost(c) \/ SnapshotAnswer(c)
               \/ ExportSnapshot(c) \/ ImportRead(c) \/ Crash(c)
               \/ \E keep \in 1..MaxRevisions : PruneSelect(c, keep)
        PROVE  UNCHANGED tables
    BY <2>7 DEF SnapshotRevision, SnapshotSequence, SnapshotLost, SnapshotNodes, SnapshotEdges,
                SnapshotEvidence, SnapshotAnswer, ExportSnapshot, ImportRead, Crash, PruneSelect, tables
  <2>. QED BY <2>1, <2>3, <2>4, <2>5, <2>6, <2>7 DEF Next
<1>. QED BY <1>1, <1>2, Invariance, PTL DEF Spec, ImplementsHistory, History!Spec

============================================================================
