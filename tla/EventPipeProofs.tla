--------------------------- MODULE EventPipeProofs ---------------------------
(***************************************************************************)
(* InotifyTool implements EventPipe, for every tree, every capacity of a   *)
(* read, every fault and every bound: the reports are those of the records *)
(* of the kernel, in their order.                                          *)
(***************************************************************************)
EXTENDS InotifyToolProofs

(* The reports are a sequence; what their paths look like does not matter. *)
ItemsOK == \E S : items \in Seq(S)
PipeInv == IndInv /\ HandlerOK /\ ItemsOK

-----------------------------------------------------------------------------
(* Prefixes of the queue, which is the buffer followed by the kernel's.    *)
LEMMA PrefixIntro ==
  ASSUME NEW S, NEW q \in Seq(S), NEW r \in Seq(S), Extends(q, r)
  PROVE  Pipe!IsPrefix(q, r)
<1>1. Len(q) \in Nat /\ Len(r) \in Nat /\ Len(q) <= Len(r)
  BY DEF Extends
<1>2. SubSeq(q, 1, Len(q)) = q
  BY SubSeqFull
<1>3. /\ SubSeq(r, 1, Len(q)) \in Seq(S)
      /\ Len(SubSeq(r, 1, Len(q))) = Len(q)
      /\ \A k \in 1..Len(q) : SubSeq(r, 1, Len(q))[k] = r[k]
  <2>1. \A k \in 1..Len(q) : r[k] \in S
    BY <1>1, ElementOfSeq
  <2>2. 1 \in Int /\ Len(q) \in Int
    BY <1>1
  <2>3. /\ SubSeq(r, 1, Len(q)) \in Seq(S)
        /\ Len(SubSeq(r, 1, Len(q))) = IF 1 <= Len(q) THEN Len(q) - 1 + 1 ELSE 0
        /\ \A k \in 1..(Len(q) - 1 + 1) : SubSeq(r, 1, Len(q))[k] = r[1 + k - 1]
    BY <2>1, <2>2, SubSeqProperties
  <2>4. (IF 1 <= Len(q) THEN Len(q) - 1 + 1 ELSE 0) = Len(q)
        /\ 1..(Len(q) - 1 + 1) = 1..Len(q)
        /\ \A k \in 1..Len(q) : 1 + k - 1 = k
    BY <1>1
  <2> QED BY <2>3, <2>4
<1>4. SubSeq(r, 1, Len(q)) = q
  BY <1>3, SeqEqual DEF Extends
<1> QED BY <1>1, <1>2, <1>4 DEF Pipe!IsPrefix

LEMMA ConcatPrefix ==
  ASSUME NEW b \in Seq(Events), NEW q \in Seq(Events), NEW r \in Seq(Events),
         Extends(q, r)
  PROVE  Pipe!IsPrefix(b \o q, b \o r)
<1>1. Len(b) \in Nat /\ Len(q) \in Nat /\ Len(r) \in Nat /\ Len(q) <= Len(r)
  BY DEF Extends
<1>2. /\ b \o q \in Seq(Events) /\ Len(b \o q) = Len(b) + Len(q)
      /\ \A k \in 1..(Len(b) + Len(q)) :
           (b \o q)[k] = IF k <= Len(b) THEN b[k] ELSE q[k - Len(b)]
  BY ConcatProperties
<1>3. /\ b \o r \in Seq(Events) /\ Len(b \o r) = Len(b) + Len(r)
      /\ \A k \in 1..(Len(b) + Len(r)) :
           (b \o r)[k] = IF k <= Len(b) THEN b[k] ELSE r[k - Len(b)]
  BY ConcatProperties
<1>4. ASSUME NEW k \in 1..(Len(b) + Len(q))
      PROVE  (b \o r)[k] = (b \o q)[k]
  <2>1. CASE k <= Len(b)
    BY <1>1, <1>2, <1>3, <2>1
  <2>2. CASE ~(k <= Len(b))
    <3>1. k - Len(b) \in 1..Len(q) /\ k \in 1..(Len(b) + Len(r))
      BY <1>1, <2>2
    <3>2. r[k - Len(b)] = q[k - Len(b)]
      BY <3>1 DEF Extends
    <3> QED BY <1>2, <1>3, <2>2, <3>1, <3>2
  <2> QED BY <2>1, <2>2
<1>5. Extends(b \o q, b \o r)
  BY <1>1, <1>2, <1>3, <1>4 DEF Extends
<1> QED BY <1>2, <1>3, <1>5, PrefixIntro

LEMMA ConcatFront ==
  ASSUME NEW b \in Seq(Events), NEW q \in Seq(Events)
  PROVE  SubSeq(b \o q, 1, Len(b)) = b
<1>1. /\ b \o q \in Seq(Events) /\ Len(b) \in Nat /\ Len(q) \in Nat
      /\ Len(b \o q) = Len(b) + Len(q)
      /\ \A k \in 1..Len(b) : (b \o q)[k] = b[k] /\ b[k] \in Events
  BY ConcatProperties, ElementOfSeq
<1>2. /\ SubSeq(b \o q, 1, Len(b)) \in Seq(Events)
      /\ Len(SubSeq(b \o q, 1, Len(b))) = Len(b)
      /\ \A k \in 1..Len(b) : SubSeq(b \o q, 1, Len(b))[k] = (b \o q)[k]
  BY <1>1, SubSeqProperties
<1> QED BY <1>1, <1>2, SeqEqual

LEMMA ConcatHead ==
  ASSUME NEW b \in Seq(Events), NEW q \in Seq(Events), b # <<>>
  PROVE  /\ b \o q # <<>>
         /\ Head(b \o q) = Head(b)
         /\ Tail(b \o q) = Tail(b) \o q
  BY ConcatProperties, HeadTailProperties, SeqEqual

(* The two sequences the queue is made of.                                 *)
LEMMA QueueTypes ==
  ASSUME PipeInv
  PROVE  buf \in Seq(Events) /\ kq \in Seq(Events)
  BY DEF PipeInv, IndInv, TypeOK, ToolTypeOK, KernelTypeOK

LEMMA QueueTypesNext ==
  ASSUME IndInv'
  PROVE  buf' \in Seq(Events) /\ kq' \in Seq(Events)
  BY DEF IndInv, TypeOK, ToolTypeOK, KernelTypeOK

-----------------------------------------------------------------------------
(* The steps of the pipe.                                                  *)
LEMMA BatchFits ==
  ASSUME NEW b \in Seq(Events), NEW q \in Seq(Events)
  PROVE  /\ Len(b) \in Nat /\ Len(b) <= Len(b) /\ Len(b) <= Len(b \o q)
         /\ b # <<>> => Len(b) > 0 /\ Len(Tail(b)) = Len(b) - 1
  BY ConcatProperties, HeadTailProperties, EmptySeq

LEMMA Accepts ==
  ASSUME PipeInv, IndInv', Extends(kq, kq'), UNCHANGED <<buf, items>>,
         (pc = "purge") <=> (pc' = "purge")
  PROVE  Pipe!Accept
<1>1. Pipe!IsPrefix(buf \o kq, buf \o kq')
  BY QueueTypes, QueueTypesNext, ConcatPrefix
<1>2. Pipe!IsPrefix(buf \o kq, (buf \o kq)')
  BY <1>1
<1>3. Len(buf) <= Len(buf)' /\ Len(buf)' <= Len(buf \o kq)'
  BY QueueTypes, QueueTypesNext, BatchFits
<1> QED BY <1>2, <1>3 DEF Pipe!Accept

LEMMA Finishes ==
  ASSUME PipeInv, IndInv', buf # <<>>, buf' = Tail(buf), Extends(kq, kq'),
         pc' # "purge",
         IF pc = "purge" THEN UNCHANGED items ELSE Pipe!Settle(Head(buf))
  PROVE  Pipe!Finish
<1>1. /\ buf \o kq # <<>> /\ Head(buf \o kq) = Head(buf)
      /\ Tail(buf \o kq) = buf' \o kq
  BY QueueTypes, ConcatHead
<1>2. Pipe!IsPrefix(buf' \o kq, buf' \o kq')
  BY QueueTypes, QueueTypesNext, ConcatPrefix
<1>3. Pipe!IsPrefix(Tail(buf \o kq), (buf \o kq)')
  BY <1>1, <1>2
<1>4. IF pc = "purge" THEN UNCHANGED items ELSE Pipe!Settle(Head(buf \o kq))
  BY <1>1
<1>5. (pc = "purge")' = FALSE
  OBVIOUS
<1>6. Len(buf) > 0 /\ Len(buf)' = Len(buf) - 1
  BY QueueTypes, BatchFits
<1> QED BY <1>1, <1>3, <1>4, <1>5, <1>6 DEF Pipe!Finish

LEMMA Tells ==
  ASSUME PipeInv, IndInv', buf # <<>>, UNCHANGED <<buf, kq>>,
         pc # "purge", pc' = "purge", Pipe!Settle(Head(buf))
  PROVE  Pipe!Tell
<1>1. buf \o kq # <<>> /\ Head(buf \o kq) = Head(buf)
  BY QueueTypes, ConcatHead
<1>2. Extends(kq, kq')
  BY QueueTypes, GrowsRefl DEF Grows
<1>3. Pipe!IsPrefix(buf \o kq, (buf \o kq)')
  BY <1>2, QueueTypes, QueueTypesNext, ConcatPrefix
<1>4. Pipe!Settle(Head(buf \o kq))
  BY <1>1
<1>5. (pc = "purge") = FALSE /\ (pc = "purge")' = TRUE
  OBVIOUS
<1>6. Len(buf) > 0 /\ UNCHANGED Len(buf)
  BY QueueTypes, BatchFits
<1> QED BY <1>1, <1>3, <1>4, <1>5, <1>6 DEF Pipe!Tell

(* Push adds the report about the record at the head.                      *)
LEMMA PushReports ==
  ASSUME ItemsOK, NEW ev, NEW name, NEW error, Push(ev, name, error),
         Pipe!Reportable(Head(buf)), ev = Pipe!ReportName(Head(buf).ev)
  PROVE  Pipe!Report(Head(buf))
<1> DEFINE item == [ev |-> ev, dir |-> Head(buf).dir, err |-> error,
                    cookie |-> Head(buf).cookie, name |-> name]
<1>1. PICK S : items \in Seq(S)
  BY DEF ItemsOK
<1>2. items' = Append(items, item)
  BY DEF Push
<1>3. Pipe!About(Head(buf), item)
  BY DEF Pipe!About
<1>4. items \in Seq(S \cup {item}) /\ item \in S \cup {item}
  BY <1>1, SeqMonotonic
<1> HIDE DEF item
<1>5. /\ items' \in Seq(S \cup {item})
      /\ Len(items') = Len(items) + 1
      /\ items'[Len(items')] = item
      /\ \A k \in 1..Len(items) : items'[k] = items[k]
  BY <1>2, <1>4, AppendProperties
<1>6. Extends(items, items')
  BY <1>4, <1>5 DEF Extends
<1>7. Pipe!IsPrefix(items, items')
  BY <1>4, <1>5, <1>6, PrefixIntro
<1> QED BY <1>3, <1>5, <1>7 DEF Pipe!Report

LEMMA ItemsGrow ==
  ASSUME ItemsOK,
         \/ UNCHANGED items \/ items' = <<>>
         \/ \E ev, name, error : Push(ev, name, error)
  PROVE  ItemsOK'
<1>1. PICK S : items \in Seq(S)
  BY DEF ItemsOK
<1>2. ASSUME NEW ev, NEW name, NEW error, Push(ev, name, error)
      PROVE  ItemsOK'
  <2> DEFINE item == [ev |-> ev, dir |-> Head(buf).dir, err |-> error,
                      cookie |-> Head(buf).cookie, name |-> name]
  <2>1. items' = Append(items, item)
    BY <1>2 DEF Push
  <2>2. items \in Seq(S \cup {item}) /\ item \in S \cup {item}
    BY <1>1, SeqMonotonic
  <2> HIDE DEF item
  <2>3. items' \in Seq(S \cup {item})
    BY <2>1, <2>2, AppendProperties
  <2> QED BY <2>3 DEF ItemsOK
<1>3. CASE UNCHANGED items
  BY <1>3 DEF ItemsOK
<1>4. CASE items' = <<>>
  <2>1. items' \in Seq({})
    BY <1>4
  <2> QED BY <2>1 DEF ItemsOK
<1> QED BY <1>2, <1>3, <1>4

-----------------------------------------------------------------------------
(* The handler that runs is the one for the record at the head.            *)
LEMMA HandlerStays ==
  ASSUME IndInv, HandlerOK, UNCHANGED <<buf, caller>>,
         \/ pc' = pc
         \/ pc \in WatchStages /\ pc' \in WatchStages \cup {caller}
         \/ pc = "rename" /\ pc' = "moved_in"
  PROVE  HandlerOK'
<1>1. caller \in {"idle", "created", "moved_in"}
  BY DEF IndInv, TypeOK, ToolTypeOK
<1> QED BY <1>1 DEF HandlerOK, InHandler, WatchStages

LEMMA HandlerEnds ==
  ASSUME \/ pc' \in {"idle", "read", "parse", "aborted", "purge"}
         \/ pc' \in WatchStages /\ caller' = "idle"
  PROVE  HandlerOK'
  BY DEF HandlerOK, InHandler, WatchStages

-----------------------------------------------------------------------------
(* The steps of a watch call leave buffer and reports alone.               *)
LEMMA ReturnGoes == ASSUME NEW code, Return(code) PROVE pc' = caller
  BY DEF Return

LEMMA FailsQuietly ==
  ASSUME NEW open, ScanFails(open)
  PROVE  UNCHANGED <<worldVars, buf, items, caller>> /\ pc' = caller
  BY ReturnGoes DEF ScanFails

(* One step of a watch call: where it goes, and what it leaves alone.      *)
WatchStep ==
  /\ UNCHANGED <<buf, items, caller>>
  /\ pc \in WatchStages
  /\ pc' \in WatchStages \cup {caller}
  /\ Extends(kq, kq')

LEMMA KernelAlone ==
  ASSUME IndInv, UNCHANGED worldVars
  PROVE  Extends(kq, kq')
<1>1. KernelTypeOK /\ UNCHANGED kq
  BY DEF IndInv, TypeOK, worldVars, kernelVars
<1> QED BY <1>1, SameQueue

LEMMA KernelPart == ASSUME IndInv PROVE KernelInv
  BY Parts

LEMMA WatchStepsPipe == ASSUME IndInv, WatchSteps PROVE WatchStep
<1>1. CASE FilesAdd
  BY <1>1, KernelPart, AddWatchKeeps
     DEF FilesAdd, ctlVars, envVars, Announces, WatchStep, WatchStages
<1>2. CASE FilesFail
  BY <1>2, KernelAlone DEF FilesFail, WatchStep, WatchStages
<1>3. CASE FilesDone
  BY <1>3, KernelAlone, ReturnGoes DEF FilesDone, WatchStep, WatchStages
<1>4. CASE Rollback
  BY <1>4, KernelPart, RmWatchKeeps
     DEF Rollback, ctlVars, envVars, Announces, WatchStep, WatchStages
<1>5. CASE RollbackDone
  BY <1>5, KernelAlone, ReturnGoes DEF RollbackDone, WatchStep, WatchStages
<1>6. CASE NextRoot
  BY <1>6, KernelAlone DEF NextRoot, WatchStep, WatchStages
<1>7. CASE RootsDone
  BY <1>7, KernelAlone, ReturnGoes DEF RootsDone, WatchStep, WatchStages
<1>8. CASE ScanAdd
  BY <1>8, KernelPart, AddWatchKeeps
     DEF ScanAdd, envVars, Announces, WatchStep, WatchStages
<1>9. CASE ScanAddFails
  BY <1>9, KernelAlone, FailsQuietly DEF ScanAddFails, WatchStep, WatchStages
<1>10. CASE ScanOpen
  BY <1>10, KernelPart, OpendirKeeps
     DEF ScanOpen, envVars, Announces, WatchStep, WatchStages
<1>11. CASE ScanOpenFails
  BY <1>11, KernelAlone, FailsQuietly DEF ScanOpenFails, WatchStep, WatchStages
<1>12. ASSUME NEW n, ScanEntry(n) PROVE WatchStep
  BY <1>12, KernelAlone DEF ScanEntry, WatchStep, WatchStages
<1>13. CASE ScanEntryFails
  BY <1>13, KernelAlone, FailsQuietly DEF ScanEntryFails, WatchStep, WatchStages
<1>14. CASE ScanClose
  BY <1>14, KernelAlone DEF ScanClose, Popped, WatchStep, WatchStages
<1>15. CASE InsertFound
  BY <1>15, KernelAlone DEF InsertFound, ctlVars, WatchStep, WatchStages
<1>16. CASE InsertDone
  BY <1>16, KernelAlone DEF InsertDone, WatchStep, WatchStages
<1> QED
  BY <1>1, <1>2, <1>3, <1>4, <1>5, <1>6, <1>7, <1>8, <1>9, <1>10, <1>11, <1>12,
     <1>13, <1>14, <1>15, <1>16 DEF WatchSteps

-----------------------------------------------------------------------------
(* The steps of _parseEvent.                                               *)
LEMMA Assembles ==
  ASSUME IndInv', HandlerOK', ItemsOK' PROVE PipeInv'
  BY DEF PipeInv

(* Nothing is settled: a handler starts, goes on, or parsing ends.         *)
LEMMA GoesOn ==
  ASSUME PipeInv, IndInv', HandlerOK', Extends(kq, kq'), UNCHANGED <<buf, items>>,
         (pc = "purge") <=> (pc' = "purge")
  PROVE  PipeInv' /\ Pipe!Next
<1>1. Pipe!Accept
  BY Accepts
<1>2. ItemsOK'
  BY ItemsGrow DEF PipeInv
<1> QED BY <1>1, <1>2, Assembles DEF Pipe!Next

(* A handler settles its record and is through with it.                    *)
LEMMA Settles ==
  ASSUME PipeInv, IndInv', buf # <<>>, buf' = Tail(buf), Extends(kq, kq'),
         pc # "purge", pc' = "parse",
         \/ UNCHANGED items /\ ~Pipe!Loud(Head(buf))
         \/ /\ \E ev, name, error : Push(ev, name, error)
                                    /\ ev = Pipe!ReportName(Head(buf).ev)
            /\ Pipe!Reportable(Head(buf))
  PROVE  PipeInv' /\ Pipe!Next
<1>1. Pipe!Settle(Head(buf))
  BY PushReports DEF PipeInv, Pipe!Settle, Pipe!PassOver
<1>2. ItemsOK'
  BY ItemsGrow DEF PipeInv
<1>3. HandlerOK'
  BY HandlerEnds
<1>4. Pipe!Finish
  BY <1>1, Finishes
<1> QED BY <1>2, <1>3, <1>4, Assembles DEF Pipe!Next

LEMMA AtHead ==
  ASSUME PipeInv, NEW kinds, Parsing(kinds)
  PROVE  /\ pc = "parse" /\ buf # <<>> /\ Head(buf).ev \in kinds
         /\ KernelInv /\ Extends(kq, kq)
<1>1. ToolTypeOK /\ KernelInv /\ IndInv
  BY KernelPart DEF PipeInv, IndInv, TypeOK
<1>2. Extends(kq, kq)
  BY QueueTypes, GrowsRefl DEF Grows
<1> QED BY <1>1, <1>2, HeaderFitsNonempty DEF Parsing

LEMMA ReportingPipe ==
  ASSUME PipeInv, IndInv',
         \/ OnOverflow \/ OnUnmount \/ OnDelete \/ OnCloseWrite \/ OnMovedFrom
  PROVE  PipeInv' /\ Pipe!Next
<1>1. CASE OnOverflow
  <2>1. /\ Parsing({"Q_OVERFLOW"}) /\ Push("Q_OVERFLOW", <<>>, FALSE)
        /\ buf' = Tail(buf) /\ pc' = pc /\ UNCHANGED kq
    BY <1>1 DEF OnOverflow, worldVars, kernelVars, ctlVars
  <2>2. pc = "parse" /\ buf # <<>> /\ Head(buf).ev = "Q_OVERFLOW" /\ Extends(kq, kq)
    BY <2>1, AtHead
  <2>3. Pipe!Reportable(Head(buf)) /\ "Q_OVERFLOW" = Pipe!ReportName(Head(buf).ev)
    BY <2>2 DEF Pipe!Reportable, Pipe!Loud, Pipe!ReportName
  <2> QED BY <2>1, <2>2, <2>3, Settles
<1>2. CASE OnUnmount
  <2>1. /\ Parsing({"UNMOUNT"} \ Unnamed)
        /\ Push("UNMOUNT", Here \o Head(buf).name, FALSE)
        /\ RmWatch(Head(buf).wd) /\ UNCHANGED <<fsVars, dirty>>
        /\ buf' = Tail(buf) /\ pc' = pc
    BY <1>2 DEF OnUnmount, Mapped, envVars, ctlVars
  <2>2. pc = "parse" /\ buf # <<>> /\ Head(buf).ev = "UNMOUNT" /\ KernelInv
    BY <2>1, AtHead
  <2>3. Extends(kq, kq')
    BY <2>1, <2>2, RmWatchKeeps DEF Announces
  <2>4. Pipe!Reportable(Head(buf)) /\ "UNMOUNT" = Pipe!ReportName(Head(buf).ev)
    BY <2>2 DEF Pipe!Reportable, Pipe!Loud, Pipe!ReportName
  <2> QED BY <2>1, <2>2, <2>3, <2>4, Settles
<1>3. CASE OnDelete
  <2>1. /\ Parsing(({"DELETE"} \ {"UNMOUNT"}) \ Unnamed) /\ Head(buf).name # <<>>
        /\ Push("DELETE", Here \o Head(buf).name, FALSE)
        /\ buf' = Tail(buf) /\ pc' = pc /\ UNCHANGED kq
    BY <1>3 DEF OnDelete, Named, Mapped, worldVars, kernelVars, ctlVars
  <2>2. pc = "parse" /\ buf # <<>> /\ Head(buf).ev = "DELETE" /\ Extends(kq, kq)
    BY <2>1, AtHead
  <2>3. Pipe!Reportable(Head(buf)) /\ "DELETE" = Pipe!ReportName(Head(buf).ev)
    BY <2>1, <2>2 DEF Pipe!Reportable, Pipe!Loud, Pipe!ReportName
  <2> QED BY <2>1, <2>2, <2>3, Settles
<1>4. CASE OnCloseWrite
  <2>1. /\ Parsing(({"CLOSE_WRITE"} \ {"UNMOUNT"}) \ Unnamed) /\ Head(buf).name # <<>>
        /\ \/ Push("MODIFY_OVER", Here \o Head(buf).name, FALSE)
           \/ UNCHANGED items
        /\ buf' = Tail(buf) /\ pc' = pc /\ UNCHANGED kq
    BY <1>4 DEF OnCloseWrite, Named, Mapped, kernelVars, ctlVars
  <2>2. pc = "parse" /\ buf # <<>> /\ Head(buf).ev = "CLOSE_WRITE" /\ Extends(kq, kq)
    BY <2>1, AtHead
  <2>3. /\ Pipe!Reportable(Head(buf)) /\ ~Pipe!Loud(Head(buf))
        /\ "MODIFY_OVER" = Pipe!ReportName(Head(buf).ev)
    BY <2>1, <2>2 DEF Pipe!Reportable, Pipe!Loud, Pipe!ReportName
  <2> QED BY <2>1, <2>2, <2>3, Settles
<1>5. CASE OnMovedFrom
  <2>1. /\ Parsing(({"MOVED_FROM"} \ {"UNMOUNT"}) \ Unnamed) /\ Head(buf).name # <<>>
        /\ Push("MOVED_OUT", Here \o Head(buf).name, FALSE)
        /\ buf' = Tail(buf) /\ pc' = pc /\ UNCHANGED kq
    BY <1>5 DEF OnMovedFrom, Named, Mapped, worldVars, kernelVars, ctlVars
  <2>2. pc = "parse" /\ buf # <<>> /\ Head(buf).ev = "MOVED_FROM" /\ Extends(kq, kq)
    BY <2>1, AtHead
  <2>3. Pipe!Reportable(Head(buf)) /\ "MOVED_OUT" = Pipe!ReportName(Head(buf).ev)
    BY <2>1, <2>2 DEF Pipe!Reportable, Pipe!Loud, Pipe!ReportName
  <2> QED BY <2>1, <2>2, <2>3, Settles
<1> QED BY <1>1, <1>2, <1>3, <1>4, <1>5

LEMMA SilentPipe ==
  ASSUME PipeInv, IndInv', OnDeleteSelf \/ OnIgnored \/ OnNameless \/ OnModify
  PROVE  PipeInv' /\ Pipe!Next
<1>1. CASE OnDeleteSelf
  <2>1. /\ Parsing({"DELETE_SELF"}) /\ RmWatch(Head(buf).wd)
        /\ UNCHANGED <<fsVars, dirty, items>> /\ buf' = Tail(buf) /\ pc' = pc
    BY <1>1 DEF OnDeleteSelf, envVars, ctlVars
  <2>2. pc = "parse" /\ buf # <<>> /\ Head(buf).ev = "DELETE_SELF" /\ KernelInv
    BY <2>1, AtHead
  <2>3. Extends(kq, kq')
    BY <2>1, <2>2, RmWatchKeeps DEF Announces
  <2>4. ~Pipe!Loud(Head(buf))
    BY <2>2 DEF Pipe!Loud
  <2> QED BY <2>1, <2>2, <2>3, <2>4, Settles
<1>2. CASE OnIgnored
  <2>1. /\ Parsing({"IGNORED"}) /\ UNCHANGED <<kq, items>>
        /\ buf' = Tail(buf) /\ pc' = pc
    BY <1>2 DEF OnIgnored, worldVars, kernelVars, ctlVars
  <2>2. pc = "parse" /\ buf # <<>> /\ Head(buf).ev = "IGNORED" /\ Extends(kq, kq)
    BY <2>1, AtHead
  <2>3. ~Pipe!Loud(Head(buf))
    BY <2>2 DEF Pipe!Loud
  <2> QED BY <2>1, <2>2, <2>3, Settles
<1>3. CASE OnNameless
  <2>1. /\ Parsing((EventKinds \ {"UNMOUNT"}) \ Unnamed) /\ Head(buf).name = <<>>
        /\ UNCHANGED <<kq, items>> /\ buf' = Tail(buf) /\ pc' = pc
    BY <1>3 DEF OnNameless, Mapped, worldVars, kernelVars, ctlVars
  <2>2. /\ pc = "parse" /\ buf # <<>> /\ Extends(kq, kq)
        /\ Head(buf).ev \notin {"UNMOUNT", "Q_OVERFLOW"}
    BY <2>1, AtHead DEF Unnamed
  <2>3. ~Pipe!Loud(Head(buf))
    BY <2>1, <2>2 DEF Pipe!Loud
  <2> QED BY <2>1, <2>2, <2>3, Settles
<1>4. CASE OnModify
  <2>1. /\ Parsing(({"MODIFY"} \ {"UNMOUNT"}) \ Unnamed)
        /\ UNCHANGED <<kq, items>> /\ buf' = Tail(buf) /\ pc' = pc
    BY <1>4 DEF OnModify, Named, Mapped, worldVars, kernelVars, ctlVars
  <2>2. pc = "parse" /\ buf # <<>> /\ Head(buf).ev = "MODIFY" /\ Extends(kq, kq)
    BY <2>1, AtHead
  <2>3. ~Pipe!Loud(Head(buf))
    BY <2>2 DEF Pipe!Loud
  <2> QED BY <2>1, <2>2, <2>3, Settles
<1> QED BY <1>1, <1>2, <1>3, <1>4

(* The handlers that take several steps.                                   *)
LEMMA StartingPipe ==
  ASSUME PipeInv, IndInv', OnUnknownWd \/ OnCreate \/ OnMovedTo \/ ParseDone
  PROVE  PipeInv' /\ Pipe!Next
<1>1. UNCHANGED <<worldVars, buf, items>> /\ pc = "parse" /\ pc' # "purge"
  BY DEF OnUnknownWd, OnCreate, OnMovedTo, ParseDone, Named, Mapped, Parsing
<1>2. Extends(kq, kq')
  BY <1>1, KernelAlone DEF PipeInv
<1>3. HandlerOK'
  <2>1. CASE OnUnknownWd \/ ParseDone
    BY <2>1, HandlerEnds DEF OnUnknownWd, ParseDone
  <2>2. CASE OnCreate
    <3>1. /\ Parsing(({"CREATE"} \ {"UNMOUNT"}) \ Unnamed)
          /\ Head(buf).name # <<>> /\ caller' = "created"
          /\ pc' \in {"add", "created"}
      BY <2>2 DEF OnCreate, Named, Mapped
    <3>2. Head(buf).ev = "CREATE"
      BY <3>1, AtHead
    <3> QED BY <1>1, <3>1, <3>2 DEF HandlerOK
  <2>3. CASE OnMovedTo
    <3>1. /\ Parsing(({"MOVED_TO"} \ {"UNMOUNT"}) \ Unnamed)
          /\ Head(buf).name # <<>> /\ caller' = "moved_in"
          /\ pc' \in {"rename", "add", "files", "moved_in"}
      BY <2>3 DEF OnMovedTo, Named, Mapped
    <3>2. Head(buf).ev = "MOVED_TO"
      BY <3>1, AtHead
    <3> QED BY <1>1, <3>1, <3>2 DEF HandlerOK
  <2> QED BY <2>1, <2>2, <2>3
<1> QED BY <1>1, <1>2, <1>3, GoesOn

LEMMA LoopingPipe ==
  ASSUME PipeInv, IndInv', RenameEntry \/ RenameDone \/ PurgeEntry
  PROVE  PipeInv' /\ Pipe!Next
<1>1. UNCHANGED <<buf, items, caller>>
      /\ \/ pc' = pc
         \/ pc = "rename" /\ pc' = "moved_in"
  BY DEF RenameEntry, RenameDone, PurgeEntry, ctlVars
<1>2. Extends(kq, kq')
  <2>1. CASE RenameEntry \/ RenameDone
    BY <2>1, KernelAlone DEF PipeInv, RenameEntry, RenameDone
  <2>2. CASE PurgeEntry
    BY <2>2, KernelPart, RmWatchKeeps DEF PipeInv, PurgeEntry, envVars, Announces
  <2> QED BY <2>1, <2>2
<1>3. HandlerOK'
  BY <1>1, HandlerStays DEF PipeInv
<1> QED BY <1>1, <1>2, <1>3, GoesOn

(* The end of the loop body: the record is done, or a purge loop begins.   *)
LEMMA TailPipe ==
  ASSUME PipeInv, IndInv', LoopTail, pc # "purge", buf # <<>>, UNCHANGED kq,
         \/ UNCHANGED items /\ ~Pipe!Loud(Head(buf))
         \/ /\ \E ev, name, error : Push(ev, name, error)
                                    /\ ev = Pipe!ReportName(Head(buf).ev)
            /\ Pipe!Reportable(Head(buf))
  PROVE  PipeInv' /\ Pipe!Next
<1>1. Extends(kq, kq')
  BY QueueTypes, GrowsRefl DEF Grows
<1>2. CASE pc' = "parse" /\ buf' = Tail(buf)
  BY <1>1, <1>2, Settles
<1>3. CASE pc' = "purge" /\ UNCHANGED buf
  <2>1. Pipe!Settle(Head(buf))
    BY PushReports DEF PipeInv, Pipe!Settle, Pipe!PassOver
  <2>2. Pipe!Tell
    BY <1>3, <2>1, Tells
  <2>3. ItemsOK' /\ HandlerOK'
    BY <1>3, ItemsGrow, HandlerEnds DEF PipeInv
  <2> QED BY <2>2, <2>3, Assembles DEF Pipe!Next
<1> QED BY <1>2, <1>3 DEF LoopTail

LEMMA EndingPipe ==
  ASSUME PipeInv, IndInv', Created \/ MovedIn \/ OnOther \/ PurgeDone
  PROVE  PipeInv' /\ Pipe!Next
<1>0. ControlOK /\ HandlerOK
  BY DEF PipeInv, IndInv
<1>1. CASE Created
  <2>1. /\ pc = "created" /\ Push("CREATE", base \o Head(buf).name, err)
        /\ buf' = Tail(buf) /\ pc' = "parse" /\ UNCHANGED kq
    BY <1>1 DEF Created, worldVars, kernelVars
  <2>2. buf # <<>> /\ Head(buf).ev = "CREATE" /\ Head(buf).name # <<>>
    BY <1>0, <2>1 DEF ControlOK, HandlerOK, InHandler
  <2>3. Pipe!Reportable(Head(buf)) /\ "CREATE" = Pipe!ReportName(Head(buf).ev)
    BY <2>2 DEF Pipe!Reportable, Pipe!Loud, Pipe!ReportName
  <2>4. Extends(kq, kq')
    BY <2>1, QueueTypes, GrowsRefl DEF Grows
  <2> QED BY <2>1, <2>2, <2>3, <2>4, Settles
<1>2. CASE MovedIn
  <2>1. /\ pc = "moved_in" /\ Push("MOVED_IN", base \o Head(buf).name, err)
        /\ LoopTail /\ UNCHANGED kq
    BY <1>2 DEF MovedIn, worldVars, kernelVars
  <2>2. buf # <<>> /\ Head(buf).ev = "MOVED_TO" /\ Head(buf).name # <<>>
    BY <1>0, <2>1 DEF ControlOK, HandlerOK, InHandler
  <2>3. Pipe!Reportable(Head(buf)) /\ "MOVED_IN" = Pipe!ReportName(Head(buf).ev)
    BY <2>2 DEF Pipe!Reportable, Pipe!Loud, Pipe!ReportName
  <2> QED BY <2>1, <2>2, <2>3, TailPipe
<1>3. CASE OnOther
  <2>1. /\ Parsing(({"OPEN", "MOVE_SELF"} \ {"UNMOUNT"}) \ Unnamed)
        /\ LoopTail /\ UNCHANGED <<kq, items>>
    BY <1>3 DEF OnOther, Named, Mapped, worldVars, kernelVars
  <2>2. pc = "parse" /\ buf # <<>> /\ Head(buf).ev \in {"OPEN", "MOVE_SELF"}
    BY <2>1, AtHead
  <2>3. ~Pipe!Loud(Head(buf))
    BY <2>2 DEF Pipe!Loud
  <2> QED BY <2>1, <2>2, <2>3, TailPipe
<1>4. CASE PurgeDone
  <2>1. /\ pc = "purge" /\ buf' = Tail(buf) /\ pc' = "parse"
        /\ UNCHANGED <<kq, items>>
    BY <1>4 DEF PurgeDone, worldVars, kernelVars
  <2>2. buf # <<>>
    BY <1>0, <2>1 DEF ControlOK, InHandler
  <2>3. Extends(kq, kq')
    BY <2>1, QueueTypes, GrowsRefl DEF Grows
  <2>4. Pipe!Finish
    BY <2>1, <2>2, <2>3, Finishes
  <2>5. ItemsOK' /\ HandlerOK'
    BY <2>1, ItemsGrow, HandlerEnds DEF PipeInv
  <2> QED BY <2>4, <2>5, Assembles DEF Pipe!Next
<1> QED BY <1>1, <1>2, <1>3, <1>4

-----------------------------------------------------------------------------
(* Reading moves records from the kernel's queue to the buffer, which      *)
(* leaves the queue of the pipe as it is.                                  *)
LEMMA ReadQueue ==
  ASSUME IndInv, IndInv', Read
  PROVE  buf' \o kq' = buf \o kq
<1>0. /\ buf \in Seq(Events) /\ kq \in Seq(Events) /\ Len(kq) \in Nat
      /\ kq' \in Seq(Events)
  BY DEF IndInv, TypeOK, ToolTypeOK, KernelTypeOK
<1>1. CASE UNCHANGED <<buf, kq>>
  BY <1>1
<1>2. ASSUME NEW c \in Capacity,
             buf' = buf \o SubSeq(kq, 1, AtMost(c)),
             kq' = SubSeq(kq, AtMost(c) + 1, Len(kq))
      PROVE  buf' \o kq' = buf \o kq
  <2> DEFINE n == AtMost(c)
             read == SubSeq(kq, 1, n)
  <2>1. n \in 0..Len(kq)
    BY <1>0, ToolAssumption DEF AtMost
  <2>2. buf' = buf \o read /\ kq' = SubSeq(kq, n + 1, Len(kq))
    BY <1>2
  <2> HIDE DEF n
  <2>3. read \o SubSeq(kq, n + 1, Len(kq)) = SubSeq(kq, 1, Len(kq))
    <3>1. 1 \in 1..(Len(kq) + 1) /\ n \in (1 - 1)..Len(kq) /\ Len(kq) \in n..Len(kq)
      BY <1>0, <2>1
    <3> QED BY <1>0, <3>1, ConcatAdjacentSubSeq
  <2>4. SubSeq(kq, 1, Len(kq)) = kq
    BY <1>0, SubSeqFull
  <2>5. read \in Seq(Events)
    <3>1. \A k \in 1..n : kq[k] \in Events
      BY <1>0, <2>1, ElementOfSeq
    <3> QED BY <1>0, <2>1, <3>1, SubSeqProperties
  <2>6. read \o kq' = kq
    BY Zenon, <2>2, <2>3, <2>4
  <2> HIDE DEF read
  <2>7. (buf \o read) \o kq' = buf \o (read \o kq')
    BY <1>0, <2>5, ConcatAssociative
  <2> QED BY <2>2, <2>6, <2>7
<1> QED BY <1>1, <1>2 DEF Read

LEMMA ReadBatch == ASSUME IndInv, IndInv', Read PROVE Len(buf) <= Len(buf')
<1>0. buf \in Seq(Events) /\ kq \in Seq(Events) /\ Len(kq) \in Nat
  BY DEF IndInv, TypeOK, ToolTypeOK, KernelTypeOK
<1>1. CASE UNCHANGED buf
  BY <1>0, <1>1, BatchFits
<1>2. ASSUME NEW c \in Capacity, buf' = buf \o SubSeq(kq, 1, AtMost(c))
      PROVE  Len(buf) <= Len(buf')
  <2> DEFINE n == AtMost(c)
  <2>1. n \in 0..Len(kq)
    BY <1>0, ToolAssumption DEF AtMost
  <2> HIDE DEF n
  <2>2. \A k \in 1..n : kq[k] \in Events
    BY <1>0, <2>1, ElementOfSeq
  <2>3. SubSeq(kq, 1, n) \in Seq(Events)
    BY <1>0, <2>1, <2>2, SubSeqProperties
  <2> QED BY <1>0, <1>2, <2>3, BatchFits DEF n
<1> QED BY <1>1, <1>2 DEF Read

LEMMA ReadPipe == ASSUME PipeInv, IndInv', Read PROVE PipeInv' /\ Pipe!Next
<1>1. UNCHANGED items /\ pc = "read" /\ pc' \in {"parse", "idle"}
  BY DEF Read
<1>2. ItemsOK' /\ HandlerOK'
  BY <1>1, ItemsGrow, HandlerEnds DEF PipeInv
<1>3. buf' \o kq' = buf \o kq
  BY ReadQueue DEF PipeInv
<1>4. Pipe!Accept
  <2>1. buf \o kq \in Seq(Events)
    BY QueueTypes, ConcatProperties
  <2>2. Pipe!IsPrefix(buf \o kq, buf \o kq)
    BY <2>1, GrowsRefl, PrefixIntro DEF Grows
  <2>3. Pipe!IsPrefix(buf \o kq, (buf \o kq)')
    BY <1>3, <2>2
  <2>4. Len(buf) <= Len(buf)' /\ Len(buf)' <= Len(buf \o kq)'
    BY ReadBatch, QueueTypesNext, BatchFits DEF PipeInv
  <2> QED BY <1>1, <2>3, <2>4 DEF Pipe!Accept
<1> QED BY <1>2, <1>4, Assembles DEF Pipe!Next

(* The calls of the application.                                           *)
LEMMA Reopens ==
  ASSUME PipeInv, IndInv', NewInstance, UNCHANGED <<buf, items, pc, caller>>,
         pc = "idle"
  PROVE  PipeInv' /\ Pipe!Next
<1>1. kq' = <<>>
  BY DEF NewInstance
<1>2. (buf \o kq)' = buf
  BY <1>1, QueueTypes, ConcatEmptySeq
<1>3. SubSeq(buf \o kq, 1, Len(buf)) = buf
  BY QueueTypes, ConcatFront
<1>4. Pipe!Lose
  BY <1>2, <1>3 DEF Pipe!Lose
<1>5. ItemsOK' /\ HandlerOK'
  BY ItemsGrow, HandlerEnds DEF PipeInv
<1> QED BY <1>4, <1>5, Assembles DEF Pipe!Next

LEMMA CallsPipe == ASSUME PipeInv, IndInv', Calls PROVE PipeInv' /\ Pipe!Next
<1>0. Extends(kq, kq) /\ IndInv
  BY QueueTypes, GrowsRefl DEF Grows, PipeInv
<1>1. CASE createInotify
  <2>1. pc = "idle" /\ UNCHANGED <<buf, items, pc, caller>>
    BY <1>1 DEF createInotify, ctlVars
  <2>2. CASE NewInstance
    BY <2>1, <2>2, Reopens
  <2>3. CASE UNCHANGED kq
    BY <1>0, <2>1, <2>3, HandlerEnds, GoesOn
  <2> QED BY <1>1, <2>2, <2>3 DEF createInotify, kernelVars
<1>2. CASE destroyInotify
  BY <1>2, Reopens DEF destroyInotify, ctlVars
<1>3. ASSUME NEW paths, NEW ev, NEW ok, NEW stage \in WatchStages,
             WatchCall(paths, ev, ok, stage)
      PROVE  PipeInv' /\ Pipe!Next
  <2>1. /\ UNCHANGED <<kq, buf, items>> /\ pc = "idle" /\ caller' = "idle"
        /\ pc' \in {"idle", stage}
    BY <1>3 DEF WatchCall, kernelVars
  <2>2. HandlerOK' /\ pc' # "purge"
    BY <2>1, HandlerEnds DEF WatchStages
  <2> QED BY <1>0, <2>1, <2>2, GoesOn
<1>4. ASSUME NEW timed, waitCompleteEvent(timed) PROVE PipeInv' /\ Pipe!Next
  <2>1. /\ UNCHANGED <<kq, buf, items>> /\ pc = "idle"
        /\ pc' \in {"idle", "read"}
    BY <1>4 DEF waitCompleteEvent, worldVars, kernelVars
  <2> QED BY <1>0, <2>1, HandlerEnds, GoesOn
<1>5. CASE getEventItem
  <2>1. /\ items' = <<>> /\ UNCHANGED <<buf, kq, pc, caller>> /\ pc = "idle"
    BY <1>5 DEF getEventItem, worldVars, kernelVars, ctlVars
  <2>2. Pipe!Fetch
    BY <2>1 DEF Pipe!Fetch
  <2>3. ItemsOK' /\ HandlerOK'
    BY <2>1, ItemsGrow, HandlerEnds DEF PipeInv
  <2> QED BY <2>2, <2>3, Assembles DEF Pipe!Next
<1>6. "files" \in WatchStages /\ "roots" \in WatchStages
  BY DEF WatchStages
<1> QED
  BY <1>1, <1>2, <1>3, <1>4, <1>5, <1>6 DEF Calls, watchFiles, watchRecursive

LEMMA WatchPipe == ASSUME PipeInv, IndInv', WatchSteps PROVE PipeInv' /\ Pipe!Next
<1>1. WatchStep
  BY WatchStepsPipe DEF PipeInv
<1>2. caller \in {"idle", "created", "moved_in"}
  BY DEF PipeInv, IndInv, TypeOK, ToolTypeOK
<1>3. HandlerOK' /\ pc # "purge" /\ pc' # "purge"
  BY <1>1, <1>2, HandlerStays DEF PipeInv, WatchStep, WatchStages
<1> QED BY <1>1, <1>3, GoesOn DEF WatchStep

LEMMA OthersPipe ==
  ASSUME PipeInv, IndInv', OtherProcesses, UNCHANGED toolVars
  PROVE  PipeInv' /\ Pipe!Next
<1>1. UNCHANGED <<buf, items, pc, caller>>
  BY DEF toolVars, ctlVars
<1>2. Extends(kq, kq')
  BY KernelPart, OtherProcessesKeep DEF PipeInv, Announces
<1>3. HandlerOK'
  BY <1>1, HandlerStays DEF PipeInv
<1> QED BY <1>1, <1>2, <1>3, GoesOn

-----------------------------------------------------------------------------
LEMMA InitPipe == ASSUME Init PROVE PipeInv /\ Pipe!Init
<1>1. IndInv
  BY InitIndInv
<1>2. items = <<>> /\ buf = <<>> /\ kq = <<>> /\ pc = "idle"
  BY DEF Init, KernelInit
<1>3. HandlerOK
  BY <1>2 DEF HandlerOK, InHandler, WatchStages, Init
<1>4. ItemsOK
  <2>1. items \in Seq({})
    BY <1>2
  <2> QED BY <2>1 DEF ItemsOK
<1>5. buf \o kq = <<>> /\ Len(buf) = 0
  BY <1>2
<1>6. (pc = "purge") = FALSE
  BY <1>2
<1> QED BY <1>1, <1>2, <1>3, <1>4, <1>5, <1>6 DEF PipeInv, Pipe!Init

LEMMA NextPipe ==
  PipeInv /\ [Next]_vars => PipeInv' /\ [Pipe!Next]_Pipe!pipeVars
<1> SUFFICES ASSUME PipeInv, [Next]_vars
             PROVE  PipeInv' /\ [Pipe!Next]_Pipe!pipeVars
  OBVIOUS
<1>1. IndInv'
  BY NextIndInv DEF PipeInv
<1>2. CASE UNCHANGED vars
  <2>1. UNCHANGED <<buf, kq, items, pc, caller>>
    BY <1>2 DEF vars, kernelVars, toolVars, ctlVars
  <2>2. HandlerOK' /\ ItemsOK'
    BY <2>1, HandlerStays, ItemsGrow DEF PipeInv
  <2>3. UNCHANGED Pipe!pipeVars
    BY <2>1 DEF Pipe!pipeVars
  <2> QED BY <1>1, <2>2, <2>3, Assembles
<1>3. CASE ParseSteps
  BY <1>1, <1>3, ReportingPipe, SilentPipe, StartingPipe, LoopingPipe, EndingPipe
  DEF ParseSteps
<1> QED
  BY <1>1, <1>2, <1>3, OthersPipe, CallsPipe, WatchPipe, ReadPipe
  DEF Next, ToolStep

(* InotifyTool implements the pipe of its caller.                          *)
THEOREM ImplementsPipe == Spec => ReportsInOrder
<1>1. Init => PipeInv /\ Pipe!Init
  BY InitPipe
<1>2. PipeInv /\ [Next]_vars => PipeInv' /\ [Pipe!Next]_Pipe!pipeVars
  BY NextPipe
<1> QED BY <1>1, <1>2, PTL DEF Spec, ReportsInOrder, Pipe!Spec

=============================================================================
