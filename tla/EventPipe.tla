------------------------------ MODULE EventPipe ------------------------------
(***************************************************************************)
(* What the reports of InotifyTool mean to its caller: a pipe.  The kernel *)
(* puts records in at one end, and at the other end comes one report for   *)
(* each record that has to be told, in the order of the records, whatever  *)
(* batches the records were read in, whatever bytes a read left over, and  *)
(* however long a record took to handle.                                   *)
(*                                                                         *)
(* The path in a report is not part of this: PathsRight speaks of it.      *)
(***************************************************************************)
EXTENDS Naturals, Sequences, SequencesExt

VARIABLES
  queue,  \* the records no handler is through with, oldest first
  batch,  \* how many of them have been read
  told,   \* what there is to report about the oldest of them is settled
  items   \* the reports the caller has not fetched

pipeVars == <<queue, batch, told, items>>

(* The records that must be reported, and the one that may be: a file that *)
(* was closed after writing, if it was modified.                           *)
Loud(r) ==
  \/ r.ev \in {"Q_OVERFLOW", "UNMOUNT"}
  \/ r.ev \in {"CREATE", "DELETE", "MOVED_FROM", "MOVED_TO"} /\ r.name # <<>>
Reportable(r) == Loud(r) \/ (r.ev = "CLOSE_WRITE" /\ r.name # <<>>)

ReportName(ev) ==
  CASE ev = "MOVED_FROM"  -> "MOVED_OUT"
    [] ev = "MOVED_TO"    -> "MOVED_IN"
    [] ev = "CLOSE_WRITE" -> "MODIFY_OVER"
    [] OTHER              -> ev

About(r, item) ==
  item.ev = ReportName(r.ev) /\ item.dir = r.dir /\ item.cookie = r.cookie

Init == queue = <<>> /\ batch = 0 /\ told = FALSE /\ items = <<>>

(* The oldest record is reported, or passed over when that is allowed.     *)
Report(r) ==
  /\ Reportable(r)
  /\ Len(items') = Len(items) + 1
  /\ IsPrefix(items, items')
  /\ About(r, items'[Len(items')])
PassOver(r) == ~Loud(r) /\ UNCHANGED items
Settle(r)   == Report(r) \/ PassOver(r)

(* Records arrive, or are read.                                            *)
Accept ==
  /\ IsPrefix(queue, queue')
  /\ batch <= batch' /\ batch' <= Len(queue')
  /\ UNCHANGED <<told, items>>

(* The oldest record is settled, and the tool still works on it.           *)
Tell ==
  /\ batch > 0 /\ ~told
  /\ Settle(Head(queue))
  /\ IsPrefix(queue, queue') /\ UNCHANGED batch
  /\ told' = TRUE

(* The tool is through with the oldest record.                             *)
Finish ==
  /\ batch > 0
  /\ IF told THEN UNCHANGED items ELSE Settle(Head(queue))
  /\ IsPrefix(Tail(queue), queue') /\ batch' = batch - 1
  /\ told' = FALSE

(* The caller takes all reports there are.                                 *)
Fetch == items' = <<>> /\ UNCHANGED <<queue, batch, told>>

(* The instance is closed: what was not read is gone, what was read stays. *)
Lose ==
  /\ ~told
  /\ queue' = SubSeq(queue, 1, batch)
  /\ UNCHANGED <<batch, told, items>>

Next == Accept \/ Tell \/ Finish \/ Fetch \/ Lose

Spec == Init /\ [][Next]_pipeVars

(* Weak fairness of Finish, as long as there is more than the one record   *)
(* without a name that may wait for the next read.                         *)
Ready    == Len(queue) > 1 \/ (queue # <<>> /\ Head(queue).name # <<>>)
Progress == []<>~Ready \/ []<><<Finish>>_pipeVars

=============================================================================
