----------------------------- MODULE PluginProofs -----------------------------
(***************************************************************************)
(* The OpenCode plugin: its sidecar client and its event queue.            *)
(*                                                                         *)
(* SidecarClient.  For any number of requests and any choice of what goes  *)
(* wrong: a retried request goes to another sidecar than the one it failed *)
(* on; while nothing fails there is one sidecar; and calls that do not     *)
(* overlap leave no sidecar behind that stop() would not end.              *)
(*                                                                         *)
(* Children are numbered in the order they are spawned (Counted: each one  *)
(* was spawned by a start of its own, so the numbers do not run out).  A   *)
(* request waits for a start that is pending and fetches from a child that *)
(* is not (Placed), so what has failed can neither be joined nor become    *)
(* ready again.                                                            *)
(*                                                                         *)
(* EventQueue.  For any kinds, paths and limit per kind: no change that    *)
(* was enqueued is forgotten on its way to the sidecar, and close()        *)
(* returns only after all that was enqueued before it has been handed over.*)
(*                                                                         *)
(* That an event is waiting is not inductive by itself.  An empty set of   *)
(* paths means the whole worktree, so a batch of file events may be empty  *)
(* only when it overflowed (Batched); events are consumed in the order of  *)
(* their numbers, so consuming one never takes the sidecar back (Numbered);*)
(* the event in hand stays at the head of the chain until it is done       *)
(* (InHand).  Draining counts the events that close() waits for.           *)
(***************************************************************************)
EXTENDS SidecarClient, EventQueue, TLAPS, FiniteSetTheorems, SequenceTheorems

Born == {s \in Sidecars : sidecar[s] # "unborn"}

(* One ticket for each call of start() so far.                             *)
Tickets ==
  {t \in Requests \X {1, 2} :
     IF t[2] = 1 THEN pc[t[1]] # "new" ELSE failedAt[t[1]] # None /\ pc[t[1]] # "again"}

Counted == \E n \in 0..2 * Calls : Born = 1..n /\ n <= Cardinality(Tickets)

WellTyped ==
  /\ scenario \in Scenarios
  /\ process \in Born \cup {None} /\ ready \in (Born \ unsettled) \cup {None}
  /\ starting \in unsettled \cup {None}
  /\ unsettled \subseteq Born /\ doomed \subseteq Sidecars
  /\ sidecar \in [Sidecars -> {"unborn", "booting", "up", "exited"}]
  /\ disposed \in BOOLEAN
  /\ pc \in [Requests -> {"new", "boot", "fetch", "again", "answered", "failed"}]
  /\ at \in [Requests -> Sidecars \cup {None}]
  /\ failedAt \in [Requests -> Sidecars \cup {None}]

(* Where a request is, given what it waits for.                            *)
Stands(r) ==
  /\ pc[r] = "new" => failedAt[r] = None
  /\ pc[r] = "again" => failedAt[r] # None
  /\ pc[r] = "boot" => at[r] \in unsettled
  /\ pc[r] = "fetch" => at[r] \in Born \ unsettled
  /\ failedAt[r] # None => failedAt[r] \in Born \ unsettled /\ failedAt[r] # ready
  /\ pc[r] \in {"boot", "fetch"} /\ failedAt[r] # None => at[r] # failedAt[r]

Placed == \A r \in Requests : Stands(r)

(* A start that is unsettled has somebody who waits for it.                  *)
Awaited == \A s \in unsettled : \E r \in Requests : pc[r] = "boot" /\ at[r] = s

InSequence == scenario.limit = 1 /\ "incompatible" \notin scenario.faults
Sequential ==
  InSequence =>
    /\ \A r, q \in InFlight : r = q
    /\ unsettled # {} => ready = None
    /\ Live \subseteq {process}
    /\ process \in Live => process \in {ready, starting}

Calm == scenario.faults \subseteq {"refuse"}
Undisturbed ==
  Calm =>
    /\ doomed = {} /\ ~ disposed
    /\ \A r \in Requests : failedAt[r] = None
    /\ \A s \in Sidecars : sidecar[s] # "exited"
    /\ \/ Born = {} /\ ready = None /\ starting = None
       \/ Born = {1} /\ (starting = 1 \/ (ready = 1 /\ unsettled = {}))

IInv == WellTyped /\ Counted /\ Placed /\ Awaited /\ Sequential /\ Undisturbed

USE DEF None

LEMMA Bounds == Calls \in Nat /\ 2 * Calls \in Nat /\ None \notin Sidecars
  BY CallsAssumption DEF Sidecars

LEMMA TicketsFinite ==
  ASSUME NEW T \in SUBSET (Requests \X {1, 2})
  PROVE  IsFiniteSet(T) /\ Cardinality(T) \in Nat /\ Cardinality(T) <= 2 * Calls
  <1>1. IsFiniteSet(Requests) /\ Cardinality(Requests) = Calls
    BY Bounds, FS_Interval DEF Requests
  <1>2. IsFiniteSet({1, 2}) /\ Cardinality({1, 2}) = 2
    <2>1. IsFiniteSet({1}) /\ Cardinality({1}) = 1
      BY FS_Singleton
    <2>2. {1, 2} = {1} \cup {2} /\ 2 \notin {1}
      OBVIOUS
    <2>3. QED
      BY <2>1, <2>2, FS_AddElement
  <1>3. IsFiniteSet(Requests \X {1, 2}) /\ Cardinality(Requests \X {1, 2}) = Calls * 2
    BY <1>1, <1>2, FS_Product
  <1>4. QED
    BY <1>3, Bounds, FS_Subset, FS_CardinalityType

(* A step that gives no ticket back and leaves no new child.               *)
LEMMA SameCount ==
  ASSUME Counted, Born' = Born,
         \A r \in Requests :
           /\ pc[r] # "new" => pc'[r] # "new"
           /\ failedAt[r] # None /\ pc[r] # "again" => failedAt'[r] # None /\ pc'[r] # "again"
  PROVE  Counted'
  <1>1. Tickets \subseteq Tickets'
    BY DEF Tickets
  <1>2. Tickets' \in SUBSET (Requests \X {1, 2}) /\ Tickets \in SUBSET (Requests \X {1, 2})
    BY DEF Tickets
  <1>3. /\ Cardinality(Tickets) \in Nat /\ Cardinality(Tickets') \in Nat
        /\ Cardinality(Tickets) <= Cardinality(Tickets')
    BY <1>1, <1>2, TicketsFinite, FS_Subset
  <1>4. PICK n \in 0..2 * Calls : Born = 1..n /\ n <= Cardinality(Tickets)
    BY DEF Counted
  <1>5. n <= Cardinality(Tickets')
    BY <1>3, <1>4, Bounds
  <1>6. QED
    BY <1>4, <1>5 DEF Counted

LEMMA InitHolds == Init => IInv
  <1> SUFFICES ASSUME Init PROVE IInv
    OBVIOUS
  <1>1. Born = {}
    BY DEF Init, Born
  <1>2. Counted
    <2>1. 0 \in 0..2 * Calls /\ 1..0 = {}
      BY Bounds
    <2>2. Tickets \in SUBSET (Requests \X {1, 2})
      BY DEF Tickets
    <2>3. 0 <= Cardinality(Tickets)
      BY <2>2, TicketsFinite
    <2>4. QED
      BY <1>1, <2>1, <2>3 DEF Counted
  <1>3. WellTyped
    BY <1>1 DEF Init, WellTyped
  <1>4. Placed /\ Awaited
    BY DEF Init, Placed, Stands, Awaited
  <1>5. Sequential
    BY DEF Init, Sequential, InSequence, InFlight, Live
  <1>6. Undisturbed
    BY <1>1 DEF Init, Undisturbed, Calm
  <1>7. QED
    BY <1>2, <1>3, <1>4, <1>5, <1>6 DEF IInv

(***************************************************************************)
(* start().                                                                *)
(***************************************************************************)

(* While calls do not overlap, nothing is unsettled when start() is called,  *)
(* and the caller is the only one under way.                               *)
LEMMA StartsAlone ==
  ASSUME IInv, InSequence, NEW r \in Requests, CallsStart(r)
  PROVE  unsettled = {} /\ \A q \in InFlight : q = r
  <1>1. \A q \in InFlight : q = r
    <2>1. CASE pc[r] = "again"
      BY <2>1 DEF IInv, Sequential, InFlight
    <2>2. CASE pc[r] # "again"
      <3>1. Cardinality(InFlight) < 1
        BY <2>2 DEF CallsStart, StopReturned, InSequence
      <3>2. IsFiniteSet(Requests) /\ InFlight \subseteq Requests
        BY Bounds, FS_Interval DEF Requests, InFlight
      <3>3. IsFiniteSet(InFlight) /\ Cardinality(InFlight) \in Nat
        BY <3>2, FS_Subset, FS_CardinalityType
      <3>4. InFlight = {}
        BY <3>1, <3>3, FS_EmptySet
      <3>5. QED
        BY <3>4
    <2>3. QED
      BY <2>1, <2>2
  <1>2. pc[r] # "boot"
    BY DEF CallsStart, StopReturned
  <1>3. \A s \in unsettled : FALSE
    BY <1>1, <1>2 DEF IInv, Awaited, InFlight
  <1>4. QED
    BY <1>1, <1>3

LEMMA JoinHolds ==
  ASSUME IInv, NEW r \in Requests, UseReady(r) \/ JoinStart(r)
  PROVE  IInv'
  <1>1. PICK to \in {"boot", "fetch"}, s \in Sidecars :
          /\ CallsStart(r) /\ Goto(r, to, s)
          /\ UNCHANGED <<process, ready, starting, unsettled, sidecar, doomed, scenario, disposed,
                         failedAt>>
          /\ \/ to = "fetch" /\ s = ready
             \/ to = "boot" /\ s = starting
    BY Bounds DEF UseReady, JoinStart, Joinable, fields, world, setting, IInv, WellTyped, Born
  <1>2. pc[r] \in {"new", "again"}
    BY <1>1 DEF CallsStart, StopReturned
  <1>3. /\ pc' = [pc EXCEPT ![r] = to] /\ at' = [at EXCEPT ![r] = s]
        /\ Born' = Born /\ Live' = Live
    BY <1>1 DEF Goto, Born, Live
  <1>4. WellTyped'
    BY <1>1, <1>3 DEF IInv, WellTyped
  <1>5. \A q \in Requests :
          /\ pc'[q] = IF q = r THEN to ELSE pc[q]
          /\ at'[q] = IF q = r THEN s ELSE at[q]
          /\ failedAt'[q] = failedAt[q]
    BY <1>1, <1>3 DEF IInv, WellTyped
  <1>6. Placed'
    <2>1. SUFFICES ASSUME NEW q \in Requests
                   PROVE  Stands(q)'
      BY DEF Placed
    <2>2. CASE q # r
      BY <1>1, <1>3, <1>5, <2>2 DEF IInv, Placed, Stands
    <2>3. CASE q = r
      BY <1>1, <1>3, <1>5, <2>3, Bounds DEF IInv, Placed, Stands, WellTyped
    <2>4. QED
      BY <2>2, <2>3
  <1>7. Awaited'
    BY <1>1, <1>2, <1>5 DEF IInv, Awaited
  <1>8. Sequential'
    <2>1. SUFFICES ASSUME InSequence PROVE \A p, q \in InFlight' : p = q
      BY <1>1, <1>3 DEF IInv, Sequential, InSequence
    <2>2. \A q \in InFlight' : q = r
      BY <1>1, <1>5, <2>1, StartsAlone DEF InFlight
    <2>3. QED
      BY <2>2
  <1>9. Undisturbed'
    BY <1>1, <1>3 DEF IInv, Undisturbed, Calm
  <1>10. Counted'
    BY <1>1, <1>2, <1>3, <1>5, SameCount DEF IInv, Placed, Stands
  <1>11. QED
    BY <1>4, <1>6, <1>7, <1>8, <1>9, <1>10 DEF IInv

(* The number of the next child: it is not born, and there is one.         *)
LEMMA NextChild ==
  ASSUME IInv, NEW r \in Requests, CallsStart(r)
  PROVE  LET s == Cardinality(Born) + 1
         IN /\ s \in Sidecars /\ s \notin Born
            /\ \A c : /\ c \in Born \cup {s} <=> c \in 1..s
            /\ s <= Cardinality(Tickets) + 1
  <1>1. PICK n \in 0..2 * Calls : Born = 1..n /\ n <= Cardinality(Tickets)
    BY DEF IInv, Counted
  <1>2. n \in Nat /\ Cardinality(Born) = n
    BY <1>1, Bounds, FS_Interval
  <1>3. Tickets \in SUBSET (Requests \X {1, 2})
    BY DEF Tickets
  <1> DEFINE ticket == IF pc[r] = "new" THEN <<r, 1>> ELSE <<r, 2>>
  <1>4. pc[r] \in {"new", "again"}
    BY DEF CallsStart, StopReturned
  <1>5. ticket \notin Tickets /\ Tickets \cup {ticket} \in SUBSET (Requests \X {1, 2})
    BY <1>3, <1>4 DEF Tickets
  <1> HIDE DEF ticket
  <1>6. Cardinality(Tickets \cup {ticket}) = Cardinality(Tickets) + 1
    BY <1>3, <1>5, TicketsFinite, FS_AddElement
  <1>7. Cardinality(Tickets) + 1 <= 2 * Calls /\ Cardinality(Tickets) \in Nat
    BY <1>3, <1>5, <1>6, TicketsFinite
  <1>8. n + 1 <= 2 * Calls
    BY <1>1, <1>2, <1>7, Bounds
  <1>9. n + 1 \in Sidecars /\ n + 1 \notin 1..n /\ \A c : c \in (1..n) \cup {n + 1} <=> c \in 1..n + 1
    BY <1>2, <1>8, Bounds DEF Sidecars
  <1>10. QED
    BY <1>1, <1>2, <1>7, <1>9

LEMMA SpawnHolds ==
  ASSUME IInv, NEW r \in Requests, Spawn(r)
  PROVE  IInv'
  <1> DEFINE s == Cardinality(Born) + 1
  <1>1. /\ CallsStart(r) /\ ready = None /\ starting = None
        /\ process' = s /\ starting' = s /\ ready' = ready /\ doomed' = doomed
        /\ unsettled' = unsettled \cup {s} /\ sidecar' = [sidecar EXCEPT ![s] = "booting"]
        /\ pc' = [pc EXCEPT ![r] = "boot"] /\ at' = [at EXCEPT ![r] = s]
        /\ scenario' = scenario /\ disposed' = disposed /\ failedAt' = failedAt
    BY DEF Spawn, Joinable, Goto, setting, Born
  <1>2. /\ s \in Sidecars /\ s \notin Born /\ \A c : c \in Born \cup {s} <=> c \in 1..s
    BY <1>1, NextChild
  <1> HIDE DEF s
  <1>3. pc[r] \in {"new", "again"}
    BY <1>1 DEF CallsStart, StopReturned
  <1>4. Born' = Born \cup {s} /\ Live' \subseteq Live \cup {s} /\ s \notin unsettled
    BY <1>1, <1>2 DEF Born, Live, IInv, WellTyped
  <1>5. \A q \in Requests :
          /\ pc'[q] = IF q = r THEN "boot" ELSE pc[q]
          /\ at'[q] = IF q = r THEN s ELSE at[q]
    BY <1>1 DEF IInv, WellTyped
  <1>6. WellTyped'
    <2>1. /\ sidecar' \in [Sidecars -> {"unborn", "booting", "up", "exited"}]
          /\ pc' \in [Requests -> {"new", "boot", "fetch", "again", "answered", "failed"}]
          /\ at' \in [Requests -> Sidecars \cup {None}]
      BY <1>1, <1>2 DEF IInv, WellTyped
    <2>2. QED
      BY <1>1, <1>4, <2>1 DEF IInv, WellTyped
  <1>7. Counted'
    <2>1. Born' = 1..s
      BY <1>2, <1>4
    <2>2. Tickets' \in SUBSET (Requests \X {1, 2}) /\ Tickets \in SUBSET (Requests \X {1, 2})
      BY DEF Tickets
    <2>3. PICK ticket \in Tickets' : ticket \notin Tickets
      <3>1. CASE pc[r] = "new"
        <4>1. <<r, 1>> \in Requests \X {1, 2} /\ <<r, 1>>[1] = r /\ <<r, 1>>[2] = 1
          OBVIOUS
        <4>2. <<r, 1>> \in Tickets' /\ <<r, 1>> \notin Tickets
          BY <1>5, <3>1, <4>1 DEF Tickets
        <4>3. QED
          BY <4>2
      <3>2. CASE pc[r] = "again"
        <4>1. failedAt'[r] # None
          BY <1>1, <3>2 DEF IInv, Placed, Stands
        <4>2. <<r, 2>> \in Requests \X {1, 2} /\ <<r, 2>>[1] = r /\ <<r, 2>>[2] = 2
          OBVIOUS
        <4>3. <<r, 2>> \in Tickets' /\ <<r, 2>> \notin Tickets
          BY <1>5, <3>2, <4>1, <4>2 DEF Tickets
        <4>4. QED
          BY <4>3
      <3>3. QED
        BY <1>3, <3>1, <3>2
    <2>4. Tickets \cup {ticket} \subseteq Tickets'
      BY <1>1, <1>3, <1>5, <2>3 DEF Tickets
    <2>5. /\ Cardinality(Tickets \cup {ticket}) = Cardinality(Tickets) + 1
          /\ Cardinality(Tickets \cup {ticket}) <= Cardinality(Tickets')
          /\ Cardinality(Tickets) \in Nat /\ Cardinality(Tickets') \in Nat
      BY <2>2, <2>3, <2>4, TicketsFinite, FS_AddElement, FS_Subset
    <2>6. s <= Cardinality(Tickets) + 1 /\ s \in 0..2 * Calls
      BY <1>1, <1>2, NextChild DEF s, Sidecars
    <2>7. s <= Cardinality(Tickets')
      BY <2>5, <2>6, Bounds
    <2>8. QED
      BY <2>1, <2>6, <2>7 DEF Counted
  <1>8. Placed'
    <2>1. SUFFICES ASSUME NEW q \in Requests PROVE Stands(q)'
      BY DEF Placed
    <2>2. Stands(q)
      BY DEF IInv, Placed
    <2>3. CASE q # r
      BY <1>1, <1>2, <1>4, <1>5, <2>2, <2>3 DEF Stands
    <2>4. CASE q = r
      BY <1>1, <1>2, <1>4, <1>5, <2>2, <2>4, Bounds DEF Stands
    <2>5. QED
      BY <2>3, <2>4
  <1>9. Awaited'
    BY <1>1, <1>3, <1>5 DEF IInv, Awaited
  <1>10. Sequential'
    <2>1. SUFFICES ASSUME InSequence
                   PROVE  /\ \A p, q \in InFlight' : p = q
                          /\ unsettled' # {} => ready' = None
                          /\ Live' \subseteq {process'}
                          /\ process' \in Live' => process' \in {ready', starting'}
      BY <1>1 DEF Sequential, InSequence
    <2>2. \A q \in InFlight' : q = r
      BY <1>1, <1>5, <2>1, StartsAlone DEF InFlight
    <2>3. Live = {}
      <3>1. process \notin Live
        BY <1>1, <2>1, Bounds DEF IInv, Sequential, Live
      <3>2. QED
        BY <2>1, <3>1 DEF IInv, Sequential
    <2>4. QED
      BY <1>1, <1>4, <2>2, <2>3
  <1>11. Undisturbed'
    <2>1. SUFFICES ASSUME Calm PROVE Undisturbed'
      BY <1>1 DEF Undisturbed, Calm
    <2>2. Born = {}
      BY <1>1, <2>1, Bounds DEF IInv, Undisturbed, Sidecars
    <2>3. s = 1
      BY <2>2, FS_EmptySet DEF s
    <2>4. QED
      BY <1>1, <1>4, <2>1, <2>2, <2>3 DEF IInv, Undisturbed, WellTyped
  <1>12. QED
    BY <1>6, <1>7, <1>8, <1>9, <1>10, <1>11 DEF IInv

(***************************************************************************)
(* A start settles.                                                        *)
(***************************************************************************)

(* What Announce, AnnounceIncompatible, BootTimeout and the exit of a      *)
(* unsettled child have in common.                                           *)
LEMMA SettleHolds ==
  ASSUME IInv, NEW s \in unsettled, NEW to \in {"fetch", "failed"}, Settle(s, to),
         \/ ready' = ready /\ to = "failed"
         \/ ready' = s,
         NEW now \in {"booting", "up", "exited"}, sidecar' = [sidecar EXCEPT ![s] = now],
         to = "fetch" => sidecar[s] = "booting",
         doomed' \in {doomed, doomed \cup {s}},
         InSequence /\ to = "failed" => now = "exited" \/ s \in doomed',
         Calm => to = "fetch" /\ now = "up" /\ doomed' = doomed
  PROVE  IInv'
  <1>1. /\ unsettled' = unsettled \ {s} /\ starting' = None
        /\ process' = process /\ scenario' = scenario /\ disposed' = disposed
        /\ at' = at /\ failedAt' = failedAt
    BY DEF Settle, setting
  <1>2. s \in Sidecars /\ s \in Born
    BY DEF IInv, WellTyped, Born
  <1>3. Born' = Born /\ Live' \subseteq Live \cup {s}
    BY <1>2 DEF Born, Live, IInv, WellTyped
  <1>4. \A q \in Requests : pc'[q] = IF pc[q] = "boot" /\ at[q] = s THEN to ELSE pc[q]
    BY DEF Settle
  <1>5. WellTyped'
    <2>1. /\ sidecar' \in [Sidecars -> {"unborn", "booting", "up", "exited"}]
          /\ pc' \in [Requests -> {"new", "boot", "fetch", "again", "answered", "failed"}]
      BY DEF IInv, WellTyped, Settle
    <2>2. QED
      BY <1>1, <1>2, <1>3, <2>1 DEF IInv, WellTyped
  <1>6. Counted'
    BY <1>1, <1>3, <1>4, SameCount DEF IInv
  <1>7. Placed'
    <2>1. SUFFICES ASSUME NEW q \in Requests PROVE Stands(q)'
      BY DEF Placed
    <2>2. Stands(q) /\ (ready' = ready \/ ready' = s)
      BY DEF IInv, Placed
    <2>3. QED
      BY <1>1, <1>2, <1>3, <1>4, <2>2 DEF Stands
  <1>8. Awaited'
    BY <1>1, <1>4 DEF IInv, Awaited
  <1>9. Sequential'
    <2>1. SUFFICES ASSUME InSequence
                   PROVE  /\ \A p, q \in InFlight' : p = q
                          /\ unsettled' # {} => ready' = None
                          /\ Live' \subseteq {process'}
                          /\ process' \in Live' => process' \in {ready', starting'}
      BY <1>1 DEF Sequential, InSequence
    <2>2. InFlight' \subseteq InFlight
      BY <1>4 DEF InFlight
    <2>3. \A x \in unsettled : x = s
      BY <2>1 DEF IInv, Sequential, Awaited, InFlight
    <2>4. unsettled' = {} /\ ready = None
      BY <1>1, <2>1, <2>3 DEF IInv, Sequential
    <2>5. process \in Live => process = s
      BY <2>1, <2>3, <2>4, Bounds DEF IInv, Sequential, WellTyped, Live
    <2>6. Live \subseteq {process}
      BY <2>1 DEF IInv, Sequential
    <2>7. CASE to = "failed"
      <3>1. s \notin Live'
        BY <1>2, <2>1, <2>7 DEF Live, IInv, WellTyped
      <3>2. Live' \subseteq Live
        BY <1>3, <3>1
      <3>3. Live' = {}
        BY <2>5, <2>6, <3>1, <3>2
      <3>4. QED
        BY <2>1, <2>2, <2>4, <3>3 DEF IInv, Sequential
    <2>8. CASE to = "fetch"
      <3>1. ready' = s
        BY <2>8
      <3>2. s \in Live' => s \in Live
        BY <1>2, <2>8 DEF Live, IInv, WellTyped
      <3>3. QED
        BY <1>1, <1>3, <2>1, <2>2, <2>4, <2>5, <2>6, <3>1, <3>2 DEF IInv, Sequential
    <2>9. QED
      BY <2>7, <2>8
  <1>10. Undisturbed'
    <2>1. SUFFICES ASSUME Calm PROVE Undisturbed'
      BY <1>1 DEF Undisturbed, Calm
    <2>2. Born = {1} /\ s = 1 /\ ready' = s /\ unsettled' = {}
      BY <1>1, <1>2, <2>1 DEF IInv, Undisturbed, WellTyped
    <2>3. \A x \in Sidecars : sidecar'[x] # "exited"
      BY <2>1 DEF IInv, Undisturbed, WellTyped
    <2>4. QED
      BY <1>1, <1>3, <2>1, <2>2, <2>3 DEF IInv, Undisturbed
  <1>11. QED
    BY <1>5, <1>6, <1>7, <1>8, <1>9, <1>10 DEF IInv

LEMMA BootHolds ==
  ASSUME IInv, NEW s \in Sidecars,
         \/ Announce(s) \/ AnnounceIncompatible(s) \/ BootTimeout(s)
         \/ Exit(s) /\ s \in unsettled /\ ready = None
  PROVE  IInv'
  <1> USE DEF IInv
  <1>1. CASE Announce(s)
    <2>1. /\ s \in unsettled /\ sidecar[s] = "booting" /\ ready' = s /\ doomed' = doomed
          /\ sidecar' = [sidecar EXCEPT ![s] = "up"] /\ Settle(s, "fetch")
      BY <1>1 DEF Announce
    <2>2. QED
      BY <2>1, SettleHolds
  <1>2. CASE AnnounceIncompatible(s)
    <2>1. /\ s \in unsettled /\ sidecar[s] = "booting" /\ ready' = ready /\ doomed' = doomed
          /\ sidecar' = [sidecar EXCEPT ![s] = "up"] /\ Settle(s, "failed")
          /\ ~ InSequence /\ ~ Calm
      BY <1>2 DEF AnnounceIncompatible, InSequence, Calm
    <2>2. QED
      BY <2>1, SettleHolds
  <1>3. CASE BootTimeout(s)
    <2>1. /\ s \in unsettled /\ ready' = ready /\ doomed' = doomed \cup {s}
          /\ Settle(s, "failed") /\ sidecar[s] \in {"booting", "up", "exited"}
          /\ sidecar' = [sidecar EXCEPT ![s] = sidecar[s]]
      <3>1. /\ s \in unsettled /\ ready' = ready /\ doomed' = doomed \cup {s}
            /\ Settle(s, "failed") /\ sidecar' = sidecar
        BY <1>3 DEF BootTimeout
      <3>2. sidecar[s] \in {"booting", "up", "exited"}
        BY <3>1 DEF WellTyped, Born
      <3>3. sidecar' = [sidecar EXCEPT ![s] = sidecar[s]]
        BY <3>1 DEF WellTyped
      <3>4. QED
        BY <3>1, <3>2, <3>3
    <2>2. "slow" \in scenario.faults \/ sidecar[s] = "exited"
      BY <1>3 DEF BootTimeout, BootTimesOut
    <2>3. ~ Calm
      BY <2>2 DEF Calm, Undisturbed
    <2>4. PICK now \in {"booting", "up", "exited"} : now = sidecar[s]
      BY <2>1
    <2>5. QED
      BY <2>1, <2>3, <2>4, SettleHolds
  <1>4. CASE Exit(s) /\ s \in unsettled /\ ready = None
    <2>1. /\ s \in unsettled /\ ready' = ready /\ doomed' = doomed
          /\ sidecar' = [sidecar EXCEPT ![s] = "exited"] /\ Settle(s, "failed")
          /\ (s \in doomed \/ "exit" \in scenario.faults)
      BY <1>4 DEF Exit
    <2>2. ~ Calm
      BY <2>1 DEF Calm, Undisturbed
    <2>3. QED
      BY <2>1, <2>2, SettleHolds
  <1>5. QED
    BY <1>1, <1>2, <1>3, <1>4

(* A child that exits without a start to reject.                           *)
LEMMA ExitHolds ==
  ASSUME IInv, NEW s \in Sidecars, Exit(s), ~ (s \in unsettled /\ ready = None)
  PROVE  IInv'
  <1> USE DEF IInv
  <1>1. /\ sidecar' = [sidecar EXCEPT ![s] = "exited"] /\ sidecar[s] \in {"booting", "up"}
        /\ s \in doomed \/ "exit" \in scenario.faults
        /\ process' = process /\ ready' = ready /\ starting' = starting /\ unsettled' = unsettled
        /\ doomed' = doomed /\ scenario' = scenario /\ disposed' = disposed
        /\ pc' = pc /\ at' = at /\ failedAt' = failedAt
    BY DEF Exit, setting, calls
  <1>2. Born' = Born /\ Live' \subseteq Live
    BY <1>1 DEF Born, Live, WellTyped
  <1>3. WellTyped' /\ Placed' /\ Awaited'
    BY <1>1, <1>2 DEF WellTyped, Placed, Stands, Awaited
  <1>4. Counted'
    BY <1>1, <1>2, SameCount
  <1>5. Sequential'
    BY <1>1, <1>2 DEF Sequential, InSequence, InFlight
  <1>6. Undisturbed'
    BY <1>1 DEF Undisturbed, Calm
  <1>7. QED
    BY <1>3, <1>4, <1>5, <1>6

(***************************************************************************)
(* A request settles, or fails and is sent again.                          *)
(***************************************************************************)
LEMMA AnswerHolds ==
  ASSUME IInv, NEW r \in Requests, Answered(r) \/ Refused(r) \/ GiveUp(r)
  PROVE  IInv'
  <1> USE DEF IInv
  <1>1. PICK to \in {"answered", "failed"} :
          /\ pc[r] = "fetch" /\ pc' = [pc EXCEPT ![r] = to] /\ at' = [at EXCEPT ![r] = None]
          /\ process' = process /\ ready' = ready /\ starting' = starting /\ unsettled' = unsettled
          /\ sidecar' = sidecar /\ doomed' = doomed
          /\ scenario' = scenario /\ disposed' = disposed /\ failedAt' = failedAt
    BY DEF Answered, Refused, GiveUp, FetchFails, Goto, fields, world, setting
  <1>2. Born' = Born /\ Live' = Live
    BY <1>1 DEF Born, Live
  <1>3. \A q \in Requests :
          /\ pc'[q] = IF q = r THEN to ELSE pc[q]
          /\ at'[q] = IF q = r THEN None ELSE at[q]
    BY <1>1 DEF WellTyped
  <1>4. WellTyped'
    BY <1>1, <1>2 DEF WellTyped
  <1>5. Placed' /\ Awaited'
    BY <1>1, <1>2, <1>3 DEF Placed, Stands, Awaited
  <1>6. Counted'
    BY <1>1, <1>2, <1>3, SameCount
  <1>7. Sequential'
    BY <1>1, <1>2, <1>3 DEF Sequential, InSequence, InFlight
  <1>8. Undisturbed'
    BY <1>1, <1>2 DEF Undisturbed, Calm
  <1>9. QED
    BY <1>4, <1>5, <1>6, <1>7, <1>8

(* stop() ends what ran, as far as it was the child spawned last.          *)
LEMMA Stops ==
  ASSUME IInv, Stop
  PROVE  /\ process' = None /\ ready' = None /\ starting' = None /\ unsettled' = unsettled
         /\ sidecar' = sidecar /\ doomed' \subseteq Sidecars /\ Born' = Born
         /\ Live' \subseteq Live /\ process \notin Live' /\ None \notin Live'
  <1>1. /\ process' = None /\ ready' = None /\ starting' = None /\ unsettled' = unsettled
        /\ sidecar' = sidecar /\ doomed' = doomed \cup Stopped
    BY DEF Stop, Forget
  <1>2. Stopped \subseteq Sidecars
    BY DEF Stopped, IInv, WellTyped, Born
  <1>3. process \in Live => process \in Stopped
    BY Bounds DEF Live, Stopped
  <1>4. QED
    BY <1>1, <1>2, <1>3, Bounds DEF Born, Live, IInv, WellTyped

LEMMA RetryHolds ==
  ASSUME IInv, NEW r \in Requests, Retry(r)
  PROVE  IInv'
  <1> USE DEF IInv
  <1>1. /\ Stop /\ pc[r] = "fetch" /\ failedAt[r] = None /\ FetchFails(r)
        /\ failedAt' = [failedAt EXCEPT ![r] = at[r]] /\ pc' = [pc EXCEPT ![r] = "again"]
        /\ at' \in [Requests -> Sidecars \cup {None}]
        /\ \A q \in Requests : q # r => at'[q] = at[q]
        /\ scenario' = scenario /\ disposed' = disposed
    BY DEF Retry, MayRetry, FetchFails, Goto, setting, WellTyped, Born
  <1>2. /\ process' = None /\ ready' = None /\ starting' = None /\ unsettled' = unsettled
        /\ sidecar' = sidecar /\ doomed' \subseteq Sidecars /\ Born' = Born
        /\ Live' \subseteq Live /\ process \notin Live' /\ None \notin Live'
    BY <1>1, Stops
  <1>3. \A q \in Requests :
          /\ pc'[q] = IF q = r THEN "again" ELSE pc[q]
          /\ failedAt'[q] = IF q = r THEN at[r] ELSE failedAt[q]
    BY <1>1 DEF WellTyped
  <1>4. at[r] \in Born \ unsettled /\ at[r] # None
    BY <1>1, Bounds DEF Placed, Stands, Born
  <1>5. WellTyped'
    <2>1. /\ pc' \in [Requests -> {"new", "boot", "fetch", "again", "answered", "failed"}]
          /\ failedAt' \in [Requests -> Sidecars \cup {None}]
      BY <1>1, <1>4 DEF WellTyped, Born
    <2>2. QED
      BY <1>1, <1>2, <2>1 DEF WellTyped
  <1>6. Placed'
    <2>1. SUFFICES ASSUME NEW q \in Requests PROVE Stands(q)'
      BY DEF Placed
    <2>2. Stands(q)
      BY DEF Placed
    <2>3. QED
      BY <1>1, <1>2, <1>3, <1>4, <2>2, Bounds DEF Stands
  <1>7. Awaited'
    BY <1>1, <1>2, <1>3 DEF Awaited
  <1>8. Counted'
    BY <1>1, <1>2, <1>3, SameCount
  <1>9. Sequential'
    BY <1>1, <1>2, <1>3 DEF Sequential, InSequence, InFlight
  <1>10. Undisturbed'
    BY <1>1 DEF Undisturbed, Calm, FetchFails, WellTyped, Placed, Stands, Born
  <1>11. QED
    BY <1>5, <1>6, <1>7, <1>8, <1>9, <1>10

LEMMA DisposeHolds ==
  ASSUME IInv, Dispose
  PROVE  IInv'
  <1> USE DEF IInv
  <1>1. /\ Stop /\ "dispose" \in scenario.faults /\ disposed' = TRUE /\ scenario' = scenario
        /\ pc' = pc /\ at' = at /\ failedAt' = failedAt
    BY DEF Dispose, calls
  <1>2. /\ process' = None /\ ready' = None /\ starting' = None /\ unsettled' = unsettled
        /\ sidecar' = sidecar /\ doomed' \subseteq Sidecars /\ Born' = Born
        /\ Live' \subseteq Live /\ process \notin Live' /\ None \notin Live'
    BY <1>1, Stops
  <1>3. WellTyped'
    BY <1>1, <1>2 DEF WellTyped
  <1>4. Placed' /\ Awaited'
    BY <1>1, <1>2, Bounds DEF Placed, Stands, Awaited, Born
  <1>5. Counted'
    BY <1>1, <1>2, SameCount
  <1>6. Sequential'
    BY <1>1, <1>2 DEF Sequential, InSequence, InFlight
  <1>7. Undisturbed'
    BY <1>1 DEF Undisturbed, Calm
  <1>8. QED
    BY <1>3, <1>4, <1>5, <1>6, <1>7

(***************************************************************************)
(* The theorems.                                                           *)
(***************************************************************************)

(* The inductive invariant of the client and its children.                 *)
THEOREM Invariance == Spec => []IInv
  <1>1. IInv /\ [Next]_vars => IInv'
    <2>1. SUFFICES ASSUME IInv, [Next]_vars PROVE IInv'
      OBVIOUS
    <2>2. CASE UNCHANGED vars
      <3>1. Born' = Born /\ Live' = Live /\ Tickets' = Tickets
        BY <2>2 DEF vars, Born, Live, Tickets
      <3>2. WellTyped' /\ Counted' /\ Placed' /\ Awaited'
        BY <2>1, <2>2, <3>1 DEF vars, IInv, WellTyped, Counted, Placed, Stands, Awaited
      <3>3. Sequential' /\ Undisturbed'
        BY <2>1, <2>2, <3>1 DEF vars, IInv, Sequential, InSequence, InFlight, Undisturbed, Calm
      <3>4. QED
        BY <3>2, <3>3 DEF IInv
    <2>3. ASSUME NEW r \in Requests, Start(r) PROVE IInv'
      BY <2>1, <2>3, JoinHolds, SpawnHolds DEF Start
    <2>4. ASSUME NEW r \in Requests, FetchSettles(r) PROVE IInv'
      BY <2>1, <2>4, AnswerHolds, RetryHolds DEF FetchSettles
    <2>5. ASSUME NEW s \in Sidecars, BootSettles(s) \/ Exit(s) PROVE IInv'
      BY <2>1, <2>5, BootHolds, ExitHolds DEF BootSettles
    <2>6. CASE Dispose
      BY <2>1, <2>6, DisposeHolds
    <2>7. QED
      BY <2>1, <2>2, <2>3, <2>4, <2>5, <2>6 DEF Next
  <1>2. QED
    BY InitHolds, <1>1, PTL DEF Spec

(* Fields, children and requests keep their types: in particular no start  *)
(* ever runs out of numbers for children.                                  *)
THEOREM TypesHold == Spec => []TypeOK
  <1>1. IInv => TypeOK
    <2>1. SUFFICES ASSUME IInv PROVE TypeOK
      OBVIOUS
    <2>2. Born \subseteq Sidecars
      BY DEF Born
    <2>3. {process, ready, starting} \subseteq Sidecars \cup {None} /\ unsettled \subseteq Sidecars
      BY <2>1, <2>2 DEF IInv, WellTyped
    <2>4. QED
      BY <2>1, <2>3 DEF IInv, WellTyped, TypeOK
  <1>2. QED
    BY Invariance, <1>1, PTL

(* The second attempt of request() goes to a sidecar that did not just     *)
(* fail, whatever other requests and dispose() stopped meanwhile.          *)
THEOREM RetriesAreFresh == Spec => []RetryIsFresh
  <1>1. IInv => RetryIsFresh
    BY DEF IInv, Placed, Stands, RetryIsFresh
  <1>2. QED
    BY Invariance, <1>1, PTL

(* Callers share one start while nothing fails.                            *)
THEOREM StartIsShared == Spec => []OneStart
  <1>1. IInv => OneStart
    <2>1. SUFFICES ASSUME IInv, Calm PROVE Cardinality(Born) <= 1
      BY DEF OneStart, Calm, Born
    <2>2. Born = {} \/ Born = {1}
      BY <2>1 DEF IInv, Undisturbed
    <2>3. Cardinality({}) = 0 /\ Cardinality({1}) = 1
      BY FS_EmptySet, FS_Singleton
    <2>4. QED
      BY <2>2, <2>3
  <1>2. QED
    BY Invariance, <1>1, PTL

(* Retries and restarts leave no sidecar behind while calls do not overlap *)
(* and every child speaks this interface.                                  *)
THEOREM NoneLeftBehind == Spec => []OneSidecarInSequence
  <1>1. IInv => OneSidecarInSequence
    BY DEF IInv, Sequential, InSequence, OneSidecarInSequence, OneSidecar
  <1>2. QED
    BY Invariance, <1>1, PTL

-----------------------------------------------------------------------------
(* The event queue.                                                        *)

Ordered(k) == \E n \in DOMAIN order : order[n] = k

QueueWellTyped ==
  /\ order \in Seq(Kinds) /\ pending \in [Kinds -> SUBSET Paths] /\ overflowed \subseteq Kinds
  /\ chain \in Seq(Event) /\ consuming \in BOOLEAN
  /\ closing \in {"open", "closing", "closed"} /\ ahead \in 0..Len(chain)
  /\ enqueued \in Count /\ closedAt \in Count /\ closedAt <= enqueued
  /\ latest \in [Kinds -> [Items -> Count]] /\ seen \in [Kinds -> [Items -> Count]]

Batched ==
  /\ \A k \in Kinds : k \in overflowed \/ k \in BareKinds => pending[k] = {}
  /\ \A k \in PathKinds : Ordered(k) /\ k \notin overflowed => pending[k] # {}

Numbered ==
  /\ \A k \in Kinds, i \in Items : latest[k][i] <= enqueued /\ seen[k][i] <= enqueued
  /\ \A n \in DOMAIN chain :
       /\ chain[n].upTo <= enqueued
       /\ \A m \in DOMAIN chain : m <= n => chain[m].upTo <= chain[n].upTo
       /\ \A k \in Kinds, i \in Items : seen[k][i] <= chain[n].upTo

InHand ==
  consuming =>
    /\ chain # <<>>
    /\ \A i \in Covers(chain[1].paths) : seen[chain[1].kind][i] = chain[1].upTo

Delivers(event, k, i) ==
  event.kind = k /\ i \in Covers(event.paths) /\ event.upTo >= latest[k][i]

Draining ==
  /\ closing # "open" =>
       \A k \in Kinds, i \in Items :
         ~ Told(k, i) /\ latest[k][i] <= closedAt => \E n \in 1..ahead : Delivers(chain[n], k, i)
  /\ closing = "closed" => ahead = 0

QueueInv == QueueWellTyped /\ Batched /\ Numbered /\ InHand /\ NothingForgotten /\ Draining

LEMMA CoversItems == \A paths \in SUBSET Paths : Covers(paths) \subseteq Items
  BY DEF Covers, Items

LEMMA QueueStarts == QueueInit => QueueInv
  <1> SUFFICES ASSUME QueueInit PROVE QueueInv
    OBVIOUS
  <1> USE DEF QueueInit
  <1>0. 0 \in Count
    BY BoundsAssumption DEF Count
  <1>1. QueueWellTyped
    <2>1. order \in Seq(Kinds) /\ chain \in Seq(Event) /\ ahead \in 0..Len(chain)
      OBVIOUS
    <2>2. /\ latest \in [Kinds -> [Items -> Count]] /\ seen \in [Kinds -> [Items -> Count]]
          /\ enqueued \in Count /\ closedAt \in Count /\ closedAt <= enqueued
      BY <1>0
    <2>3. /\ pending \in [Kinds -> SUBSET Paths] /\ overflowed \subseteq Kinds
          /\ consuming \in BOOLEAN /\ closing \in {"open", "closing", "closed"}
      OBVIOUS
    <2>4. QED
      BY <2>1, <2>2, <2>3 DEF QueueWellTyped
  <1>2. Batched /\ Numbered /\ InHand /\ NothingForgotten /\ Draining
    BY DEF Batched, Ordered, Numbered, InHand, NothingForgotten, Draining, Told
  <1>3. QED
    BY <1>1, <1>2 DEF QueueInv

(***************************************************************************)
(* enqueue.                                                                *)
(***************************************************************************)
LEMMA EnqueueHolds ==
  ASSUME QueueInv, NEW k \in Kinds, NEW paths \in SUBSET Paths, Enqueue(k, paths),
         k \in BareKinds <=> paths = {}
  PROVE  QueueInv'
  <1> USE DEF QueueInv
  <1>1. /\ order' \in Seq(Kinds) /\ Ordered(k)'
        /\ \A x \in Kinds : x # k => (Ordered(x)' <=> Ordered(x))
        /\ \A x \in Kinds : Ordered(x) => Ordered(x)'
    <2>1. CASE Ordered(k)
      BY <2>1 DEF Enqueue, Ordered, QueueWellTyped
    <2>2. CASE ~ Ordered(k)
      <3>1. order' = Append(order, k)
        BY <2>2 DEF Enqueue, Ordered
      <3>2. /\ order' \in Seq(Kinds) /\ Len(order') = Len(order) + 1 /\ order'[Len(order) + 1] = k
            /\ \A n \in 1..Len(order) : order'[n] = order[n]
        BY <3>1, AppendProperties DEF QueueWellTyped
      <3>3. /\ DOMAIN order = 1..Len(order) /\ DOMAIN order' = 1..Len(order) + 1
            /\ Len(order) \in Nat
        BY <3>2 DEF QueueWellTyped
      <3>4. Ordered(k)'
        BY <3>2, <3>3 DEF Ordered
      <3>5. \A x \in Kinds : Ordered(x) => Ordered(x)'
        BY <3>2, <3>3 DEF Ordered
      <3>6. ASSUME NEW x \in Kinds, x # k, Ordered(x)'
            PROVE  Ordered(x)
        <4>1. PICK n \in 1..Len(order) + 1 : order'[n] = x
          BY <3>3, <3>6 DEF Ordered
        <4>2. n \in 1..Len(order)
          BY <3>2, <3>3, <3>6, <4>1
        <4>3. QED
          BY <3>2, <3>3, <4>1, <4>2 DEF Ordered
      <3>7. QED
        BY <3>2, <3>4, <3>5, <3>6
    <2>3. QED
      BY <2>1, <2>2
  <1>2. /\ chain' = chain /\ consuming' = consuming /\ closing' = closing /\ ahead' = ahead
        /\ closedAt' = closedAt /\ seen' = seen
        /\ enqueued' = enqueued + 1 /\ enqueued < MaxEnqueues
    BY DEF Enqueue, delivery, close
  <1>3. \A x \in Kinds, i \in Items :
          latest'[x][i] = IF x = k /\ i \in ItemsOf(paths) THEN enqueued + 1 ELSE latest[x][i]
    BY DEF Enqueue, QueueWellTyped
  <1>4. /\ pending' \in [Kinds -> SUBSET Paths] /\ overflowed' \subseteq Kinds
        /\ \A x \in Kinds : x # k => pending'[x] = pending[x] /\ (x \in overflowed' <=> x \in overflowed)
        /\ \/ k \in overflowed' /\ pending'[k] = {}
           \/ k \notin overflowed /\ k \notin overflowed' /\ pending'[k] = pending[k] \cup paths
    BY DEF Enqueue, Overflow, QueueWellTyped, Batched
  <1>5. QueueWellTyped'
    <2>1. enqueued' \in Count /\ closedAt' \in Count /\ closedAt' <= enqueued'
      BY <1>2, BoundsAssumption DEF QueueWellTyped, Count
    <2>2. latest' \in [Kinds -> [Items -> Count]]
      BY <2>1, <1>2 DEF Enqueue, QueueWellTyped
    <2>3. QED
      BY <1>1, <1>2, <1>4, <2>1, <2>2 DEF QueueWellTyped
  <1>6. Batched'
    BY <1>1, <1>4, KindsAssumption DEF Batched, Kinds
  <1>7. Numbered'
    <2>1. enqueued \in Nat /\ \A x \in Kinds, i \in Items : latest[x][i] \in Nat /\ seen[x][i] \in Nat
      BY DEF QueueWellTyped, Count
    <2>2. \A n \in DOMAIN chain : chain[n].upTo \in Nat
      <3>1. \A n \in DOMAIN chain : chain[n] \in Event
        BY DEF QueueWellTyped
      <3>2. QED
        BY <3>1 DEF Event, Count
    <2>3. \A x \in Kinds, i \in Items : latest'[x][i] <= enqueued' /\ seen'[x][i] <= enqueued'
      BY <1>2, <1>3, <2>1 DEF Numbered
    <2>4. \A n \in DOMAIN chain : chain[n].upTo <= enqueued'
      BY <1>2, <2>1, <2>2 DEF Numbered
    <2>5. QED
      BY <1>2, <2>3, <2>4 DEF Numbered
  <1>8. InHand'
    BY <1>2 DEF InHand
  <1>9. NothingForgotten'
    <2>1. SUFFICES ASSUME NEW x \in Kinds, NEW i \in Items, ~ Told(x, i)'
                   PROVE  \/ Ordered(x)' /\ i \in Covers(pending'[x])
                          \/ \E n \in DOMAIN chain : Delivers(chain[n], x, i)'
      BY <1>2 DEF NothingForgotten, Ordered, Delivers
    <2>2. CASE x = k /\ i \in ItemsOf(paths)
      BY <1>1, <1>4, <2>2 DEF Covers, ItemsOf, Batched, Items
    <2>3. CASE ~ (x = k /\ i \in ItemsOf(paths))
      <3>1. latest'[x][i] = latest[x][i] /\ ~ Told(x, i)
        BY <1>2, <1>3, <2>1, <2>3 DEF Told
      <3>2. CASE \E n \in DOMAIN chain : Delivers(chain[n], x, i)
        BY <1>2, <3>1, <3>2 DEF Delivers
      <3>3. CASE Ordered(x) /\ i \in Covers(pending[x])
        <4>1. CASE x # k
          BY <1>1, <1>4, <3>3, <4>1
        <4>2. CASE x = k /\ k \in overflowed'
          BY <1>1, <1>4, <4>2 DEF Covers
        <4>3. CASE x = k /\ k \notin overflowed'
          <5>1. pending'[k] = pending[k] \cup paths /\ k \notin overflowed
            BY <1>4, <4>3
          <5>2. pending[k] = {} => k \in BareKinds /\ paths = {}
            BY <3>3, <4>3, <5>1 DEF Batched, Kinds
          <5>3. QED
            BY <1>1, <3>3, <4>3, <5>1, <5>2 DEF Covers
        <4>4. QED
          BY <4>1, <4>2, <4>3
      <3>4. QED
        BY <2>3, <3>1, <3>2, <3>3 DEF NothingForgotten, Ordered, Delivers
    <2>4. QED
      BY <2>2, <2>3
  <1>10. Draining'
    <2>1. SUFFICES ASSUME closing # "open", NEW x \in Kinds, NEW i \in Items, ~ Told(x, i)',
                          latest'[x][i] <= closedAt
                   PROVE  \E n \in 1..ahead : Delivers(chain[n], x, i)'
      BY <1>2 DEF Draining
    <2>2. latest'[x][i] = latest[x][i]
      BY <1>3, <2>1 DEF QueueWellTyped, Count
    <2>3. QED
      BY <1>2, <2>1, <2>2 DEF Draining, Told, Delivers
  <1>11. QED
    BY <1>5, <1>6, <1>7, <1>8, <1>9, <1>10

(***************************************************************************)
(* flush.                                                                  *)
(***************************************************************************)

(* The chain after a flush: the old one, then one event for each kind.     *)
LEMMA Flushed ==
  ASSUME QueueWellTyped, Flush
  PROVE  /\ chain' \in Seq(Event) /\ Len(chain') = Len(chain) + Len(order)
         /\ \A n \in 1..Len(chain) : chain'[n] = chain[n]
         /\ \A n \in 1..Len(order) :
              chain'[Len(chain) + n] =
                [kind |-> order[n], paths |-> pending[order[n]], upTo |-> enqueued]
  <1>1. DOMAIN order = 1..Len(order) /\ Len(order) \in Nat
    BY DEF QueueWellTyped
  <1>2. \A n \in 1..Len(order) :
          [kind |-> order[n], paths |-> pending[order[n]], upTo |-> enqueued] \in Event
    <2>1. \A n \in 1..Len(order) : order[n] \in Kinds
      BY DEF QueueWellTyped
    <2>2. QED
      BY <2>1 DEF QueueWellTyped, Event
  <1>3. Batch \in Seq(Event) /\ Len(Batch) = Len(order)
    BY <1>1, <1>2 DEF Batch
  <1>4. \A n \in 1..Len(order) :
          Batch[n] = [kind |-> order[n], paths |-> pending[order[n]], upTo |-> enqueued]
    BY <1>1 DEF Batch
  <1> HIDE DEF Batch
  <1>5. chain' = chain \o Batch /\ chain \in Seq(Event)
    BY DEF Flush, QueueWellTyped
  <1>6. /\ chain' \in Seq(Event) /\ Len(chain') = Len(chain) + Len(Batch)
        /\ \A n \in 1..Len(chain) + Len(Batch) :
             chain'[n] = IF n <= Len(chain) THEN chain[n] ELSE Batch[n - Len(chain)]
    BY <1>3, <1>5, ConcatProperties
  <1>7. Len(chain) \in Nat
    BY <1>5
  <1>8. \A n \in 1..Len(chain) : chain'[n] = chain[n]
    BY <1>1, <1>3, <1>6, <1>7
  <1>9. \A n \in 1..Len(order) : chain'[Len(chain) + n] = Batch[n]
    <2>1. SUFFICES ASSUME NEW n \in 1..Len(order) PROVE chain'[Len(chain) + n] = Batch[n]
      OBVIOUS
    <2>2. /\ Len(chain) + n \in 1..Len(chain) + Len(Batch) /\ ~ (Len(chain) + n <= Len(chain))
          /\ (Len(chain) + n) - Len(chain) = n
      BY <1>1, <1>3, <1>7
    <2>3. QED
      BY <1>6, <2>2
  <1>10. QED
    BY <1>3, <1>4, <1>6, <1>8, <1>9

LEMMA FlushHolds ==
  ASSUME QueueInv, TimerFires \/ Close
  PROVE  QueueInv'
  <1> USE DEF QueueInv
  <1>1. Flush /\ UNCHANGED <<consuming, enqueued, latest, seen>>
    BY DEF TimerFires, Close
  <1>2. /\ order' = <<>> /\ pending' = [k \in Kinds |-> {}] /\ overflowed' = {}
    BY <1>1 DEF Flush, OverflowReset
  <1>3. /\ chain' \in Seq(Event) /\ Len(chain') = Len(chain) + Len(order)
        /\ Len(chain) \in Nat /\ Len(order) \in Nat
        /\ DOMAIN chain = 1..Len(chain) /\ DOMAIN chain' = 1..Len(chain')
        /\ DOMAIN order = 1..Len(order)
    BY <1>1, Flushed DEF QueueWellTyped
  <1>4. \A n \in 1..Len(chain) : chain'[n] = chain[n] /\ n \in 1..Len(chain')
    BY <1>1, <1>3, Flushed
  <1>5. \A n \in 1..Len(order) :
          /\ Len(chain) + n \in 1..Len(chain')
          /\ chain'[Len(chain) + n].kind = order[n]
          /\ chain'[Len(chain) + n].paths = pending[order[n]]
          /\ chain'[Len(chain) + n].upTo = enqueued
    <2>1. \A n \in 1..Len(order) : Len(chain) + n \in 1..Len(chain')
      BY <1>3
    <2>2. \A n \in 1..Len(order) :
            chain'[Len(chain) + n] =
              [kind |-> order[n], paths |-> pending[order[n]], upTo |-> enqueued]
      BY <1>1, Flushed
    <2>3. SUFFICES ASSUME NEW n \in 1..Len(order)
                   PROVE  /\ chain'[Len(chain) + n].kind = order[n]
                          /\ chain'[Len(chain) + n].paths = pending[order[n]]
                          /\ chain'[Len(chain) + n].upTo = enqueued
      BY <2>1
    <2>4. chain'[Len(chain) + n] =
            [kind |-> order[n], paths |-> pending[order[n]], upTo |-> enqueued]
      BY <2>2
    <2>5. QED
      BY <2>4
  <1>6. \A n \in 1..Len(chain') :
          \/ n \in 1..Len(chain) /\ chain'[n] = chain[n]
          \/ n \notin 1..Len(chain) /\ chain'[n].upTo = enqueued
    <2>1. SUFFICES ASSUME NEW n \in 1..Len(chain'), n \notin 1..Len(chain)
                   PROVE  chain'[n].upTo = enqueued
      BY <1>4
    <2>2. n - Len(chain) \in 1..Len(order) /\ Len(chain) + (n - Len(chain)) = n
      BY <1>3, <2>1
    <2>3. QED
      BY <1>5, <2>2
  <1>7. QueueWellTyped'
    <2>1. /\ closing' \in {"open", "closing", "closed"} /\ ahead' \in 0..Len(chain')
          /\ closedAt' \in Count /\ closedAt' <= enqueued'
      BY <1>1, <1>3 DEF QueueWellTyped, TimerFires, Close, close, ReturnsAfter, Count
    <2>2. order' \in Seq(Kinds) /\ pending' \in [Kinds -> SUBSET Paths]
      BY <1>2
    <2>3. QED
      BY <1>1, <1>2, <1>3, <2>1, <2>2 DEF QueueWellTyped
  <1>8. Batched'
    BY <1>2 DEF Batched, Ordered, Kinds
  <1>9. Numbered'
    <2>1. enqueued \in Nat
      BY DEF QueueWellTyped, Count
    <2>2. \A k \in Kinds, i \in Items : latest'[k][i] <= enqueued' /\ seen'[k][i] <= enqueued'
      BY <1>1 DEF Numbered
    <2>3. \A n \in DOMAIN chain' :
            /\ chain'[n].upTo <= enqueued
            /\ \A k \in Kinds, i \in Items : seen[k][i] <= chain'[n].upTo
      BY <1>3, <1>6, <2>1 DEF Numbered
    <2>4. \A m, n \in DOMAIN chain' : m <= n => chain'[m].upTo <= chain'[n].upTo
      <3>1. SUFFICES ASSUME NEW m \in 1..Len(chain'), NEW n \in 1..Len(chain'), m <= n
                     PROVE  chain'[m].upTo <= chain'[n].upTo
        BY <1>3
      <3>2. CASE n \in 1..Len(chain)
        <4>1. m \in 1..Len(chain)
          BY <1>3, <3>1, <3>2
        <4>2. QED
          BY <1>3, <1>4, <3>1, <3>2, <4>1 DEF Numbered
      <3>3. CASE n \notin 1..Len(chain)
        BY <1>3, <1>6, <2>3, <3>3
      <3>4. QED
        BY <3>2, <3>3
    <2>5. QED
      BY <1>1, <2>2, <2>3, <2>4 DEF Numbered
  <1>10. InHand'
    <2>1. SUFFICES ASSUME consuming PROVE chain' # <<>> /\ chain'[1] = chain[1]
      BY <1>1 DEF InHand
    <2>2. 1 \in 1..Len(chain)
      BY <1>3, <2>1 DEF InHand, QueueWellTyped
    <2>3. QED
      BY <1>3, <1>4, <2>2
  <1>11. \A k \in Kinds, i \in Items : ~ Told(k, i) =>
           \E n \in 1..Len(chain') : Delivers(chain'[n], k, i)
    <2>1. SUFFICES ASSUME NEW k \in Kinds, NEW i \in Items, ~ Told(k, i)
                   PROVE  \E n \in 1..Len(chain') : Delivers(chain'[n], k, i)
      OBVIOUS
    <2>2. CASE \E n \in DOMAIN chain : Delivers(chain[n], k, i)
      BY <1>3, <1>4, <2>2
    <2>3. CASE \E n \in DOMAIN order : order[n] = k /\ i \in Covers(pending[k])
      <3>1. PICK n \in 1..Len(order) : order[n] = k /\ i \in Covers(pending[k])
        BY <1>3, <2>3
      <3>2. latest[k][i] <= enqueued /\ latest[k][i] \in Nat /\ enqueued \in Nat
        BY DEF Numbered, QueueWellTyped, Count
      <3>3. Delivers(chain'[Len(chain) + n], k, i)
        BY <1>5, <3>1, <3>2 DEF Delivers
      <3>4. QED
        BY <1>5, <3>3
    <2>4. QED
      BY <2>1, <2>2, <2>3 DEF NothingForgotten, Delivers
  <1>12. NothingForgotten'
    BY <1>1, <1>3, <1>11 DEF NothingForgotten, Delivers, Told
  <1>13. Draining'
    <2>1. CASE Close
      <3>1. ahead' = Len(chain') /\ closing' = "closing"
        BY <1>3, <2>1 DEF Close, ReturnsAfter
      <3>2. QED
        BY <1>1, <1>11, <3>1 DEF Draining, Told, Delivers
    <2>2. CASE TimerFires
      <3>1. UNCHANGED <<closing, ahead, closedAt>>
        BY <2>2 DEF TimerFires, close
      <3>2. \A n \in 1..ahead : n \in 1..Len(chain)
        BY <1>3 DEF QueueWellTyped
      <3>3. QED
        BY <1>1, <1>4, <3>1, <3>2 DEF Draining, Told, Delivers
    <2>3. QED
      BY <2>1, <2>2
  <1>14. QED
    BY <1>7, <1>8, <1>9, <1>10, <1>12, <1>13

(***************************************************************************)
(* close() and the chain.                                                  *)
(***************************************************************************)
LEMMA CloseReturnsHolds ==
  ASSUME QueueInv, CloseReturns
  PROVE  QueueInv'
  <1> USE DEF QueueInv, CloseReturns, batch, delivery
  <1>1. QueueWellTyped'
    BY DEF QueueWellTyped
  <1>2. Batched' /\ Numbered' /\ InHand' /\ NothingForgotten'
    BY DEF Batched, Ordered, Numbered, InHand, NothingForgotten, Told
  <1>3. Draining'
    BY DEF Draining, Told, Delivers
  <1>4. QED
    BY <1>1, <1>2, <1>3

LEMMA ConsumeHolds ==
  ASSUME QueueInv, Consume
  PROVE  QueueInv'
  <1> DEFINE e == chain[1]
             Takes(k, i) == k = e.kind /\ i \in Covers(e.paths)
  <1> USE DEF QueueInv
  <1>1. /\ order' = order /\ pending' = pending /\ overflowed' = overflowed
        /\ chain' = chain /\ closing' = closing /\ ahead' = ahead /\ closedAt' = closedAt
        /\ enqueued' = enqueued /\ latest' = latest /\ consuming' = TRUE
    BY DEF Consume, batch, close
  <1>2. chain # <<>> /\ Head(chain) = e /\ 1 \in DOMAIN chain /\ e \in Event
    BY DEF Consume, QueueWellTyped
  <1>3. seen' \in [Kinds -> [Items -> Count]]
        /\ \A k \in Kinds, i \in Items :
             seen'[k][i] = IF Takes(k, i) THEN e.upTo ELSE seen[k][i]
    BY <1>2 DEF Consume, QueueWellTyped, Event
  <1>4. /\ enqueued \in Nat /\ e.upTo \in Nat
        /\ \A k \in Kinds, i \in Items : latest[k][i] \in Nat /\ seen[k][i] \in Nat
    BY <1>2 DEF QueueWellTyped, Event, Count
  <1>5. QueueWellTyped' /\ Batched'
    BY <1>1, <1>3 DEF QueueWellTyped, Batched, Ordered
  <1>6. Numbered'
    <2>1. \A n \in DOMAIN chain : e.upTo <= chain[n].upTo
      <3>1. \A n \in DOMAIN chain : 1 <= n
        BY DEF QueueWellTyped
      <3>2. QED
        BY <1>2, <3>1 DEF Numbered
    <2>2. e.upTo <= enqueued
      BY <1>2 DEF Numbered
    <2>3. QED
      BY <1>1, <1>3, <2>1, <2>2 DEF Numbered
  <1>7. InHand'
    <2>1. e.kind \in Kinds /\ Covers(e.paths) \subseteq Items
      BY <1>2, CoversItems DEF Event
    <2>2. QED
      BY <1>1, <1>2, <1>3, <2>1 DEF InHand
  <1>8. \A k \in Kinds, i \in Items : ~ Told(k, i)' => ~ Told(k, i)
    <2>1. SUFFICES ASSUME NEW k \in Kinds, NEW i \in Items, Told(k, i) PROVE Told(k, i)'
      OBVIOUS
    <2>2. seen[k][i] <= e.upTo
      BY <1>2 DEF Numbered
    <2>3. QED
      BY <1>1, <1>3, <1>4, <2>1, <2>2 DEF Told
  <1>9. NothingForgotten'
    BY <1>1, <1>8 DEF NothingForgotten
  <1>10. Draining'
    BY <1>1, <1>8 DEF Draining, Delivers
  <1>11. QED
    BY <1>5, <1>6, <1>7, <1>9, <1>10

LEMMA ConsumedHolds ==
  ASSUME QueueInv, Consumed
  PROVE  QueueInv'
  <1> USE DEF QueueInv
  <1>1. /\ order' = order /\ pending' = pending /\ overflowed' = overflowed
        /\ closing' = closing /\ closedAt' = closedAt /\ enqueued' = enqueued
        /\ latest' = latest /\ seen' = seen /\ consuming' = FALSE
        /\ ahead' = IF ahead = 0 THEN 0 ELSE ahead - 1
    BY DEF Consumed, batch
  <1>2. chain # <<>> /\ chain' = Tail(chain) /\ chain \in Seq(Event)
    BY DEF Consumed, InHand, QueueWellTyped
  <1>3. /\ Len(chain) \in Nat /\ Len(chain) >= 1 /\ ahead \in 0..Len(chain)
        /\ DOMAIN chain = 1..Len(chain)
    BY <1>2 DEF QueueWellTyped
  <1>4. chain' \in Seq(Event) /\ Len(chain') = Len(chain) - 1 /\ DOMAIN chain' = 1..Len(chain')
    BY <1>2, <1>3, HeadTailProperties
  <1>5. \A n \in 1..Len(chain') : chain'[n] = chain[n + 1] /\ n + 1 \in 1..Len(chain)
    BY <1>2, <1>3, <1>4, HeadTailProperties
  <1>6. QueueWellTyped'
    <2>1. ahead' \in 0..Len(chain')
      BY <1>1, <1>3, <1>4
    <2>2. QED
      BY <1>1, <1>4, <2>1 DEF QueueWellTyped
  <1>7. Batched' /\ InHand'
    BY <1>1 DEF Batched, Ordered, InHand
  <1>8. Numbered'
    <2>1. \A m, n \in 1..Len(chain') : m <= n => m + 1 <= n + 1
      BY <1>3, <1>4
    <2>2. QED
      BY <1>1, <1>3, <1>4, <1>5, <2>1 DEF Numbered
  (* What is still waited for is not what has just been handed over.       *)
  <1>9. \A k \in Kinds, i \in Items : ~ Told(k, i) => ~ Delivers(chain[1], k, i)
    <2>1. SUFFICES ASSUME NEW k \in Kinds, NEW i \in Items, Delivers(chain[1], k, i)
                   PROVE  Told(k, i)
      OBVIOUS
    <2>2. seen[k][i] = chain[1].upTo
      BY <2>1 DEF InHand, Delivers, Consumed
    <2>3. QED
      BY <2>1, <2>2 DEF Told, Delivers
  <1>10. \A n \in 1..Len(chain) : n # 1 => n - 1 \in 1..Len(chain') /\ chain'[n - 1] = chain[n]
    BY <1>3, <1>4, <1>5
  <1>11. NothingForgotten'
    <2>1. SUFFICES ASSUME NEW k \in Kinds, NEW i \in Items, ~ Told(k, i),
                          NEW n \in 1..Len(chain), Delivers(chain[n], k, i)
                   PROVE  \E m \in 1..Len(chain') : Delivers(chain'[m], k, i)
      BY <1>1, <1>3, <1>4 DEF NothingForgotten, Delivers, Told
    <2>2. n # 1
      BY <1>9, <2>1
    <2>3. QED
      BY <1>10, <2>1, <2>2
  <1>12. Draining'
    <2>1. SUFFICES ASSUME NEW k \in Kinds, NEW i \in Items, ~ Told(k, i),
                          NEW n \in 1..ahead, Delivers(chain[n], k, i)
                   PROVE  \E m \in 1..ahead' : Delivers(chain'[m], k, i)
      BY <1>1 DEF Draining, Delivers, Told
    <2>2. n # 1
      BY <1>9, <2>1
    <2>3. n - 1 \in 1..ahead' /\ n \in 1..Len(chain)
      BY <1>1, <1>3, <2>2
    <2>4. QED
      BY <1>10, <2>1, <2>2, <2>3
  <1>13. QED
    BY <1>6, <1>7, <1>8, <1>11, <1>12

(***************************************************************************)
(* The theorems.                                                           *)
(***************************************************************************)

(* The inductive invariant of the queue.                                   *)
THEOREM QueueInvariance == QueueSpec => []QueueInv
  <1>1. QueueInv /\ [QueueNext]_queueVars => QueueInv'
    <2>1. SUFFICES ASSUME QueueInv, [QueueNext]_queueVars PROVE QueueInv'
      OBVIOUS
    <2>2. CASE UNCHANGED queueVars
      <3>1. QueueWellTyped' /\ Batched' /\ Numbered' /\ InHand'
        BY <2>1, <2>2 DEF queueVars, QueueInv, QueueWellTyped, Batched, Ordered, Numbered, InHand
      <3>2. NothingForgotten' /\ Draining'
        BY <2>1, <2>2 DEF queueVars, QueueInv, NothingForgotten, Draining, Told, Delivers
      <3>3. QED
        BY <3>1, <3>2 DEF QueueInv
    <2>3. ASSUME NEW k \in PathKinds, NEW paths \in (SUBSET Paths) \ {{}}, Enqueue(k, paths)
          PROVE  QueueInv'
      <3>1. k \in Kinds /\ k \notin BareKinds /\ paths # {} /\ paths \in SUBSET Paths
        BY KindsAssumption DEF Kinds
      <3>2. QED
        BY <2>1, <2>3, <3>1, EnqueueHolds
    <2>4. ASSUME NEW k \in BareKinds, Enqueue(k, {})
          PROVE  QueueInv'
      <3>1. k \in Kinds
        BY DEF Kinds
      <3>2. QED
        BY <2>1, <2>4, <3>1, EnqueueHolds
    <2>5. CASE TimerFires \/ Close
      BY <2>1, <2>5, FlushHolds
    <2>6. CASE CloseReturns \/ Consume \/ Consumed
      BY <2>1, <2>6, CloseReturnsHolds, ConsumeHolds, ConsumedHolds
    <2>7. QED
      BY <2>1, <2>2, <2>3, <2>4, <2>5, <2>6 DEF QueueNext
  <1>2. QED
    BY QueueStarts, <1>1, PTL DEF QueueSpec

(* Coalescing, overflow and flushing never lose a change that the sidecar  *)
(* has not been told about.                                                *)
THEOREM NothingIsForgotten == QueueSpec => []NothingForgotten
  BY QueueInvariance, PTL DEF QueueInv

(* close() returns after everything enqueued before it was handed over.    *)
THEOREM CloseWaits == QueueSpec => []CloseDrains
  <1>1. QueueInv => CloseDrains
    BY DEF QueueInv, Draining, CloseDrains
  <1>2. QED
    BY QueueInvariance, <1>1, PTL

=============================================================================
