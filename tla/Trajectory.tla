----------------------------- MODULE Trajectory -----------------------------
(***************************************************************************)
(* The hash-chained event file of trace.py: one JSON object per line, each *)
(* carrying its sequence number, the hash of the event before it and a     *)
(* hash over both.  A hash is modelled by what it commits to: the sequence *)
(* of all events up to and including its own.                              *)
(*                                                                         *)
(* A line is the sequence of the pieces of text found between two newlines.*)
(* It is one event when everything went well; a write that failed or a     *)
(* process that died leaves a piece that is cut, or a whole event without  *)
(* its newline, and the next event is then glued to it.                    *)
(***************************************************************************)
EXTENDS Naturals, Sequences, SequencesExt

(* An empty file, and a fresh Trajectory object over it. *)
EmptyTrail == [lines |-> <<>>, open |-> FALSE]
FreshWriter == [sequence |-> 0, previous |-> <<>>]

(* The event a writer builds: the sequence number was incremented first. *)
EventOf(writer, type) ==
  LET event == [sequence |-> writer.sequence + 1, type |-> type]
  IN  [event |-> event, prior |-> writer.previous,
       hash |-> Append(writer.previous, event), cut |-> FALSE]

(* Text added at the end of the file, followed by a newline or not. *)
Added(trail, piece, newline) ==
  LET lines == trail.lines
  IN  [lines |-> IF trail.open
                 THEN Append(Front(lines), Append(Last(lines), piece))
                 ELSE Append(lines, <<piece>>),
       open |-> ~newline]

(* The writer after a record, written in full or not: the sequence number  *)
(* is taken before the write, the hash remembered after it.                *)
(* Mutant of Numbered: the number is taken only when the event is written. *)
NumberedAfterwards(writer) == writer
Numbered(writer) == [writer EXCEPT !.sequence = @ + 1]
Chained(writer, type) ==
  [sequence |-> writer.sequence + 1, previous |-> EventOf(writer, type).hash]

(* What the file may be after a write that did not succeed: nothing of the *)
(* event, a part of it, all but its newline, or all of it.                 *)
Failures(trail, piece) ==
  {trail,
   Added(trail, [piece EXCEPT !.cut = TRUE], FALSE),
   Added(trail, piece, FALSE),
   Added(trail, piece, TRUE)}

(* verify_trajectory: every line is one event with the next number and the *)
(* hash of the event before it.                                            *)
Verifies(trail) ==
  /\ trail.lines # <<>>
  /\ \A i \in DOMAIN trail.lines :
       /\ Len(trail.lines[i]) = 1
       /\ LET line == trail.lines[i][1]
          IN  /\ ~line.cut
              /\ line.event.sequence = i
              /\ line.prior = IF i = 1 THEN <<>> ELSE trail.lines[i - 1][1].hash

(* Trajectory(..., resume=True): an empty file is a fresh start, any other *)
(* file is verified and continued from its last event.                     *)
Resumes(trail) == trail.lines = <<>> \/ Verifies(trail)
ResumedWriter(trail) ==
  IF trail.lines = <<>> THEN FreshWriter
  ELSE LET last == Last(trail.lines)[1]
       IN  [sequence |-> last.event.sequence, previous |-> last.hash]

(* The type of the last event written, when it was written in full. *)
LastEvent(trail) ==
  LET written == Last(Last(trail.lines))
  IN  IF trail.lines = <<>> \/ written.cut THEN <<>> ELSE <<written.event.type>>
(* The types of the events of a trail that verifies: one event per line. *)
TypesIn(trail) == [i \in DOMAIN trail.lines |-> trail.lines[i][1].event.type]
=============================================================================
