--------------------------- MODULE InotifyToolProps ---------------------------
(***************************************************************************)
(* What InotifyTool is to guarantee: the invariants it keeps, what its     *)
(* reports mean, and what the comments of the code claim.                  *)
(***************************************************************************)
EXTENDS InotifyTool

(* The type invariant of the tool and of the instance behind it.  Paths    *)
(* are left untyped: they are sequences of tokens.                         *)
InfoListOK(s) == s \in Seq([wd : Nat, path : {s[k].path : k \in DOMAIN s}])
OpenDirsOK(s) ==
  s \in Seq([path : {s[k].path : k \in DOMAIN s}, left : SUBSET AllNames])

ToolTypeOK ==
  /\ fd \in BOOLEAN /\ calls \in Nat
  /\ errorCode \in {"0", "errno"}
  /\ buf \in Seq(Events)
  /\ DOMAIN wmap \subseteq Nat
  /\ \A wd \in DOMAIN wmap : wmap[wd].rec \in BOOLEAN
  /\ pc \in Stages /\ caller \in {"idle", "created", "moved_in"}
  /\ ret \in {"NO_ERROR", "INVALID_OPERATION", "INVALID_PARAM",
              "ALREADY_EXISTS", "UNKNOWN_ERROR", "NO_INIT", "TIMED_OUT"}
  /\ made \in Seq(Nat)
  /\ InfoListOK(found)
  /\ OpenDirsOK(stack)
  /\ move \in [name : AllNames \cup {<<>>}, dir : BOOLEAN, cookie : Nat]
  /\ err \in BOOLEAN
  /\ visit \subseteq Nat
  /\ leaked \in Nat /\ failed \in BOOLEAN

TypeOK == KernelTypeOK /\ ToolTypeOK

(* Nothing is under way: the last call has returned and the kernel has     *)
(* nothing to read.                                                        *)
Quiet   == fd /\ pc = "idle" /\ kq = <<>>
Pending == Records(buf) \cup Records(kq)
Excused == failed \/ lost

Watched(wd)   == wd \in DOMAIN marks /\ wd \in DOMAIN wmap
DirString(d)  == Append(PathString(loc[d]), "/")

(* The stages of a watch call, which the handlers of CREATE and MOVED_TO   *)
(* records go through as well.                                             *)
WatchStages ==
  {"files", "rollback", "roots", "add", "opendir", "readdir", "insert"}
InHandler ==
  \/ pc \in {"rename", "created", "moved_in", "purge"}
  \/ pc \in WatchStages /\ caller # "idle"
BetweenReads ==
  \/ pc \in {"idle", "read"}
  \/ pc \in WatchStages /\ caller = "idle"

(* The variables of a call agree with where the call is: directories are   *)
(* open and watches are collected only during a walk, the record a handler *)
(* works on is at the head of the buffer, and without an instance nothing  *)
(* runs and nothing is mapped.                                             *)
ControlOK ==
  /\ pc = "readdir" => stack # <<>>
  /\ stack # <<>> => pc \in {"add", "opendir", "readdir"}
  /\ found # <<>> => pc \in {"add", "opendir", "readdir", "insert"}
  /\ InHandler => /\ buf # <<>>
                  /\ Head(buf).ev \in {"CREATE", "MOVED_TO", "OPEN", "MOVE_SELF"}
  /\ ~fd => pc = "idle" /\ DOMAIN wmap = {}

(* The handler that runs is the one for the record at the head.            *)
HandlerOK ==
  /\ pc = "created" => caller = "created"
  /\ pc \in {"rename", "moved_in"} => caller = "moved_in"
  /\ InHandler /\ pc # "purge" =>
       /\ Head(buf).name # <<>>
       /\ Head(buf).ev = IF caller = "created" THEN "CREATE" ELSE "MOVED_TO"

(* When no record is being handled, _parseEvent has left at most one       *)
(* record in the buffer, and that one has no name: no named event is kept  *)
(* from the caller.                                                        *)
HeldBack ==
  BetweenReads => \/ buf = <<>>
                  \/ Len(buf) = 1 /\ buf[1].name = <<>>

(* A descriptor leaves the map no later than its watch leaves the kernel,  *)
(* or the IGNORED record that removes it is still on its way: the map has  *)
(* no entries that stay for ever.                                          *)
Backed(wd)  == wd \in DOMAIN marks \/ Ignored(wd) \in Pending
EntryBacked == ~lost => \A wd \in DOMAIN wmap : Backed(wd)

(* The inductive invariant of EntryBacked and HeldBack: the same holds of  *)
(* the descriptors a walk has collected, no inode has two watches and an   *)
(* open file is there.                                                     *)
FoundBacked == ~lost => \A k \in DOMAIN found : Backed(found[k].wd)
IndInv ==
  /\ TypeOK /\ MarksUnique /\ WritingLive
  /\ ControlOK /\ HeldBack /\ EntryBacked /\ FoundBacked

(* Outside the calls that set watches up, the map knows every watch of the *)
(* kernel: an event of a watch it does not know ends the process.          *)
MarkKnown ==
  (pc \in {"idle", "read", "parse"} /\ ~failed) =>
    DOMAIN marks \subseteq DOMAIN wmap

(* The assertion of _parseEvent never fails.                               *)
NeverAborts == pc # "aborted"

(* LOG_ASSERT in _parseEvent fails only after a recursive watch failed.    *)
AbortExplained == pc = "aborted" => Excused

(* What takes an entry out of the map, or keeps one from it, although its  *)
(* watch or its records are still there: another descriptor holds the path *)
(* of the entry (Clash), the buffer outlives the instance (Relic), and a   *)
(* loop that ends watches does so ahead of their records (Cut).            *)
Looked(r, wd) == r.wd = wd /\ r.ev \notin Unnamed
Renamed(wd)   == StringReplace(wmap[wd].path, base \o move.name,
                               base \o Head(buf).name)
Clash ==
  \/ /\ pc = "files" /\ todo # <<>> /\ CanWatch(Head(todo))
     /\ ~(Holders(Head(todo)) \subseteq {AddedWd(Head(todo))})
  \/ /\ pc = "insert" /\ found # <<>>
     /\ ~(Holders(Head(found).path) \subseteq {Head(found).wd})
  \/ /\ pc = "rename" /\ visit # {} /\ Smallest(visit) \in DOMAIN wmap
     /\ ~(Holders(Renamed(Smallest(visit))) \subseteq {Smallest(visit)})
Relic == ~fd /\ buf # <<>>
Cut ==
  \/ /\ pc = "rollback" /\ made # <<>>
     /\ \E r \in Pending : Looked(r, Head(made))
  \/ /\ pc = "purge" /\ visit # {}
     /\ \E r \in Records(Tail(buf)) \cup Records(kq) :
          Looked(r, Smallest(visit))
Mishap == Clash \/ Relic \/ Cut

(* LOG_ASSERT in _parseEvent fails after one of these or after a recursive *)
(* watch failed, and never otherwise: not even when the queue overflows.   *)
AbortsExplained == []~Mishap => [](pc = "aborted" => failed)

(* watchFiles is given a directory: its entry is not a recursive one.      *)
PlainWatch ==
  /\ pc = "files" /\ todo # <<>> /\ CanWatch(Head(todo))
  /\ Target(Head(todo)) \in Dirs

(* When the tool has caught up, every directory below a recursively        *)
(* watched one is watched itself, whatever was created and removed while   *)
(* the tree was being walked.                                              *)
Complete ==
  Quiet /\ ~Excused =>
    \A wd \in {v \in DOMAIN wmap : Watched(v) /\ wmap[v].rec} :
      \A d \in {j \in Dirs : Below(j, marks[wd])} :
        \E v \in DOMAIN wmap : Watched(v) /\ marks[v] = d

(* When the tool has caught up, it reports the events of every directory   *)
(* under the path that the directory has now.                              *)
PathsRight ==
  Quiet /\ ~Excused =>
    \A wd \in DOMAIN wmap :
      Watched(wd) /\ wmap[wd].rec => wmap[wd].path = DirString(marks[wd])

(* A directory gets another place: that is what may break it.              *)
DirRenamed ==
  \E d \in Dirs : Live(d) /\ loc'[d] # Gone /\ loc'[d] # loc[d]

(* A file leaves its place, for another one or because it is unlinked; one *)
(* is truncated that no process has open, so that no close follows; the    *)
(* files recorded as modified are those of an instance that is closed; and *)
(* a file is watched that has no watch on its directory, so that its       *)
(* records have no name.                                                   *)
FileMoved == \E f \in Files : Live(f) /\ loc'[f] # loc[f]
Truncated ==
  \E f \in Files : Truncate(f) /\ \A w \in Writers : writing[w] # f
Stale == ~fd /\ modset # {}
Lone ==
  \E wd \in DOMAIN marks :
    /\ marks[wd] \in Files
    /\ \A v \in DOMAIN marks : loc[marks[v]] # Front(loc[marks[wd]])

(* A file that a watch saw modified and that no process has open any more  *)
(* has been reported by a MODIFY_OVER, when the tool has caught up.        *)
ModifyReported ==
  Quiet /\ ~Excused => \A f \in dirty : \E w \in Writers : writing[w] = f

(* A MODIFY_OVER is reported only for a file modified since the last one:  *)
(* not for a file opened for writing and closed as it was.                 *)
ReportsModify ==
  /\ Len(items') = Len(items) + 1
  /\ Last(items').ev = "MODIFY_OVER"
NoPhantomModify ==
  [][ReportsModify =>
       \E f \in dirty : PathString(loc[f]) = Last(items').name]_vars

(* The loop for a directory that was moved out stops watching only what is *)
(* not in the tree of the application any more.                            *)
StopsMovedOut ==
  [][\A wd \in DOMAIN marks :
       pc = "purge" /\ wd \notin DOMAIN marks' => BelowOutside(marks[wd])]_vars

(* The pipe the tool implements: its queue is what is left in the read     *)
(* buffer followed by what the kernel has queued, and the record a purge   *)
(* loop runs for has been settled.                                         *)
Pipe == INSTANCE EventPipe
          WITH queue <- buf \o kq, batch <- Len(buf), told <- pc = "purge"

(* The reports are those of the records of the kernel, none missing, none  *)
(* twice and in their order, although _parseEvent gets the records in any  *)
(* batches and carries the rest of one over to the next.                   *)
ReportsInOrder == Pipe!Spec

(* Records are handled as they come: none that has a name stays in the     *)
(* read buffer or in the kernel for ever.                                  *)
Drained == Pipe!Progress

(* Every call returns, as long as other processes do finitely much.        *)
CallsReturn == pc # "idle" ~> (pc = "idle" \/ pc = "aborted")

(* A directory below a recursive watch is watched sooner or later, unless  *)
(* it goes away, the failure is reported, or the instance is destroyed.    *)
UnderWatch(d) ==
  \E wd \in DOMAIN wmap : Watched(wd) /\ wmap[wd].rec /\ Below(d, marks[wd])
NewDirWatched ==
  \A d \in Dirs :
    (Live(d) /\ UnderWatch(d))
      ~> \/ ~Live(d) \/ Excused \/ ~fd
         \/ \E wd \in DOMAIN marks : marks[wd] = d /\ Watched(wd)

=============================================================================
