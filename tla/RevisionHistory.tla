-------------------------- MODULE RevisionHistory --------------------------
(***************************************************************************)
(* What the graph store promises its clients, without tables, sequences or *)
(* validity intervals: a set of immutable revisions, each with the facts   *)
(* it shows, and a head.  A commit adds one revision on top of the head; a *)
(* retention pass may forget revisions but never the head; nothing ever    *)
(* changes the facts of a revision that is still kept.                     *)
(***************************************************************************)
EXTENDS Naturals

CONSTANTS
  Facts,          (* Identities of nodes and edges.                         *)
  Payloads,       (* What a fact may say.                                   *)
  Ids             (* Revision ids.                                          *)

VARIABLES
  shows,          (* Kept revision id -> the <<fact, payload>> pairs it has.*)
  head            (* The id of the current revision, 0 when there is none.  *)

vars == <<shows, head>>

None == 0

Init ==
  /\ shows = [id \in {} |-> {}]
  /\ head = None

HeadShows == IF head = None THEN {} ELSE shows[head]

(* The facts after writing put and dropping drop on top of the head: the   *)
(* facts the delta does not touch are carried over.                        *)
Carried(put, drop) ==
  { p \in HeadShows : p[1] \notin DOMAIN put \cup drop }
    \cup { <<f, put[f]>> : f \in DOMAIN put \ drop }

Commit(id, put, drop) ==
  /\ head' = id
  /\ id \notin DOMAIN shows
  /\ shows' = [i \in DOMAIN shows \cup {id} |->
                 IF i = id THEN Carried(put, drop) ELSE shows[i]]

Forget(kept) ==
  /\ UNCHANGED head
  /\ head \in kept
  /\ kept \subseteq DOMAIN shows
  /\ shows' = [i \in kept |-> shows[i]]

Next ==
  \/ \E id \in Ids, S, drop \in SUBSET Facts :
        \E put \in [S -> Payloads] : Commit(id, put, drop)
  \/ \E kept \in SUBSET DOMAIN shows : Forget(kept)

Spec == Init /\ [][Next]_vars

============================================================================
