------------------------------ MODULE TraceLog ------------------------------
(***************************************************************************)
(* EvaluationTraceLog of evaluation/trace.py: a JSONL file that is only    *)
(* appended to, each line hash-chained to the one before it.  A log is a   *)
(* sequence of traces; Torn is the line a crash in the middle of a write   *)
(* leaves, which no reader gets past.  Hashes are left out: nobody edits   *)
(* the file, so a line that was written whole passes its checks.           *)
(***************************************************************************)
EXTENDS Sequences, SequencesExt

Torn == [torn |-> TRUE]

(* _envelopes: every line is parsed before anything is believed.           *)
Readable(log) == Torn \notin ToSet(log)

(* The trace of a result: the result as it was measured.  The cell gives   *)
(* the trace id; what depends on the runner's revision is no part of it.   *)
TraceOf(result) ==
  [cell |-> result.cell, outcome |-> result.outcome, wall |-> result.wall]

Holds(log, cell) == \E n \in DOMAIN log : log[n].cell = cell

(* append answers "same" for the trace it already has, "conflict" for      *)
(* another trace of the cell.                                              *)
AppendAnswer(log, trace) ==
  IF ~Readable(log) THEN "unreadable"
  ELSE IF ~Holds(log, trace.cell) THEN "appended"
  ELSE IF trace \in ToSet(log) THEN "same"
  ELSE "conflict"

Appended(log, trace) ==
  IF AppendAnswer(log, trace) = "appended" THEN Append(log, trace) ELSE log

=============================================================================
