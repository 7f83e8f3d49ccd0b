----------------------------- MODULE InotifyTool -----------------------------
(***************************************************************************)
(* class eular::InotifyTool (inotify_tool/inotify_tool.cpp): a recursive   *)
(* directory watcher on one inotify instance, used by one thread while     *)
(* other processes change the tree.                                        *)
(*                                                                         *)
(* A call of the class is a walk of pc from "idle" back to "idle".  Every  *)
(* system call is a step of its own, so that other processes act between   *)
(* any two of them; a record of the read buffer stays at its head until    *)
(* its handler is through with it.                                         *)
(***************************************************************************)
EXTENDS InotifyKernel

CONSTANTS
  RecursiveArgs,   \* the path vectors watchRecursive is called with
  FilesArgs,       \* the path vectors watchFiles is called with
  Masks,           \* the sets of InotifyEvent flags they are called with
  InsertPolicies,  \* what a BiMap does when key or value is taken already
  Capacity,        \* how many records one read may return
  Faults,          \* the system calls that may fail for reasons of their own
  Calm,            \* stages of a call during which the tree is left alone
  MaxCalls         \* bound on the instances created and watch calls made

ASSUME ToolAssumption ==
  /\ InsertPolicies \subseteq {"keep", "replace"}
  /\ Capacity \subseteq Nat \ {0}
  /\ Faults \subseteq {"init", "select", "ioctl", "read", "opendir", "lstat"}
  /\ MaxCalls \in Nat

ASSUME ArgsAssumption == FilesArgs \cup RecursiveArgs \subseteq Seq(Seq(STRING))

VARIABLES
  fd,         \* m_inotifyFd holds an instance
  calls,      \* instances created and watch calls made (bounded by MaxCalls)
  errorCode,  \* m_errorCode
  buf,        \* m_inotifyBuffer, record by record
  items,      \* m_eventItemQueue
  modset,     \* m_fileModifySet
  wmap,       \* m_pathWithWd: wd -> [path, rec]
  pc,         \* where the running call is
  ret,        \* what the last call returned
  caller,     \* where watchFiles or _watchRecursive return to
  todo,       \* paths a watch call still has to do
  made,       \* wdVec of watchFiles
  enter,      \* the directory _watchRecursive is called on
  stack,      \* the open directories of the recursion: path, entries left
  found,      \* infoList
  move,       \* pMoveOut, moveOutItemIsDirFlag and eventCookie
  base,       \* it.value(): the directory of the record at hand
  err,        \* eventItem.event has EV_IN_ERROR
  visit,      \* the entries a loop over m_pathWithWd still has to change
  leaked,     \* history: directory streams that were never closed
  failed      \* history: a recursive watch was reported as not fully set up

apiVars   == <<todo, made, ret>>
scanVars  == <<enter, stack, found, leaked, failed>>
parseVars == <<move, base, visit>>
localVars == <<apiVars, scanVars, parseVars>>
ctlVars   == <<pc, caller, err>>
toolVars  == <<fd, calls, errorCode, buf, items, modset, wmap, ctlVars,
               localVars>>
envVars   == <<fsVars, dirty>>
worldVars == <<envVars, kernelVars, fd, calls>>
vars      == <<fsVars, kernelVars, dirty, toolVars>>

Stages == {"idle", "files", "rollback", "roots", "add", "opendir", "readdir",
           "insert", "read", "parse", "rename", "created", "moved_in", "purge",
           "aborted"}
NoMove == [name |-> <<>>, dir |-> FALSE, cookie |-> 0]

Init ==
  /\ KernelInit
  /\ fd = FALSE /\ calls = 0
  /\ errorCode = "0"
  /\ buf = <<>> /\ items = <<>> /\ modset = {}
  /\ wmap = [wd \in {} |-> None]
  /\ pc = "idle" /\ ret = "NO_ERROR" /\ caller = "idle"
  /\ todo = <<>> /\ made = <<>>
  /\ enter = <<>> /\ stack = <<>> /\ found = <<>>
  /\ move = NoMove /\ base = <<>> /\ err = FALSE /\ visit = {}
  /\ leaked = 0 /\ failed = FALSE

-----------------------------------------------------------------------------
(* Faulty versions of definitions below: each is a mistake that one of the *)
(* properties has to notice.                                               *)

HeaderFitsTwo(b)  == Len(b) > 1
PoppedEarly       == IF Len(stack) <= 2 THEN "insert" ELSE "readdir"
NeverRecurses     == FALSE
FinishedNot(path) == modset
WithoutNone(S)    == wmap
WithoutAny(S)     == [wd \in {} |-> None]

RollbackForgets ==
  /\ pc = "rollback"
  /\ made # <<>>
  /\ wmap' = [wd \in DOMAIN wmap \ {Head(made)} |-> wmap[wd]]
  /\ made' = Tail(made)
  /\ UNCHANGED <<worldVars, errorCode, buf, items, modset, ctlVars, todo, ret,
                 scanVars, parseVars>>

InsertStays ==
  /\ pc = "insert"
  /\ found # <<>>
  /\ UNCHANGED vars

RenameKeepsMove ==
  /\ pc = "rename"
  /\ visit = {}
  /\ pc' = "moved_in"
  /\ UNCHANGED <<worldVars, errorCode, buf, items, modset, wmap, caller, err,
                 localVars>>

PushLatest(ev, name, error) ==
  items' = <<[ev |-> ev, dir |-> Head(buf).dir, err |-> error,
              cookie |-> Head(buf).cookie, name |-> name]>>
PushFront(ev, name, error) ==
  items' = <<[ev |-> ev, dir |-> Head(buf).dir, err |-> error,
              cookie |-> Head(buf).cookie, name |-> name]>> \o items

MovedFromWaits ==
  /\ pc = "parse" /\ buf # <<>>
  /\ Head(buf).ev = "MOVED_FROM"
  /\ move' = [name |-> Head(buf).name, dir |-> Head(buf).dir,
              cookie |-> Head(buf).cookie]
  /\ buf' = Tail(buf)
  /\ UNCHANGED <<worldVars, errorCode, items, modset, wmap, ctlVars, apiVars,
                 scanVars, base, visit>>

-----------------------------------------------------------------------------
(* The map between watch descriptors and paths.                            *)

Holds(path) == \E wd \in DOMAIN wmap : wmap[wd].path = path
Without(S)     == [wd \in DOMAIN wmap \ S |-> wmap[wd]]
Holders(path)  == {wd \in DOMAIN wmap : wmap[wd].path = path}

Put(wd, path, rec) ==
  [v \in (DOMAIN wmap \ Holders(path)) \cup {wd} |->
     IF v = wd THEN [path |-> path, rec |-> rec] ELSE wmap[v]]

(* BiMap is code of a library: what insert does when the key or the value  *)
(* is taken, and what update does when the value is, is not specified.     *)
Insert(wd, path, rec) ==
  \/ /\ wd \in DOMAIN wmap \/ Holds(path) => "replace" \in InsertPolicies
     /\ wmap' = Put(wd, path, rec)
  \/ /\ wd \in DOMAIN wmap \/ Holds(path)
     /\ "keep" \in InsertPolicies
     /\ UNCHANGED wmap

Update(wd, path) ==
  \/ /\ Holders(path) \subseteq {wd} \/ "replace" \in InsertPolicies
     /\ wmap' = Put(wd, path, wmap[wd].rec)
  \/ /\ ~(Holders(path) \subseteq {wd})
     /\ "keep" \in InsertPolicies
     /\ UNCHANGED wmap

Smallest(S) == CHOOSE wd \in S : \A v \in S : wd <= v

isDir(path) == At(path) \cap Dirs # {}

(* The flags of InotifyEvent that stand for an event of the kernel.        *)
RealFlag(flag) ==
  CASE flag = "MODIFY_OVER" -> {"MODIFY"}
    [] flag = "CLOSE_WRITE" -> {"CLOSE_WRITE"}
    [] flag = "MOVED_OUT"   -> {"MOVED_FROM"}
    [] flag = "MOVED_IN"    -> {"MOVED_TO"}
    [] flag = "CREATE"      -> {"CREATE"}
    [] flag = "DELETE"      -> {"DELETE"}
    [] OTHER                -> {}

inotifyEvent2RealInotifyEv(ev) == UNION {RealFlag(flag) : flag \in ev}

-----------------------------------------------------------------------------
(* Opening and closing the instance.  destroyInotify clears the map, and   *)
(* neither the read buffer, the event items nor the modified files.        *)

createInotify ==
  /\ pc = "idle"
  /\ \/ /\ fd
        /\ errorCode' = "0"
        /\ UNCHANGED <<kernelVars, dirty, fd, calls>>
     \/ /\ ~fd
        /\ calls < MaxCalls
        /\ NewInstance
        /\ fd' = TRUE
        /\ calls' = calls + 1
        /\ errorCode' = "0"
     \/ /\ ~fd
        /\ "init" \in Faults
        /\ errorCode' = "errno"
        /\ UNCHANGED <<kernelVars, dirty, fd, calls>>
  /\ UNCHANGED <<fsVars, buf, items, modset, wmap, ctlVars, localVars>>

destroyInotify ==
  /\ pc = "idle"
  /\ NewInstance
  /\ fd' = FALSE
  /\ errorCode' = "0"
  /\ wmap' = Without(DOMAIN wmap)
  /\ UNCHANGED <<fsVars, calls, buf, items, modset, ctlVars, localVars>>

-----------------------------------------------------------------------------
(* The checks at the head of the watch calls, path by path in order.       *)

Refused(paths, ok) ==
  IF \A k \in DOMAIN paths : ok[k] /\ ~Holds(paths[k]) THEN "no"
  ELSE LET first == CHOOSE k \in DOMAIN paths :
                      /\ ~ok[k] \/ Holds(paths[k])
                      /\ \A j \in 1..(k - 1) : ok[j] /\ ~Holds(paths[j])
       IN  IF ok[first] THEN "ALREADY_EXISTS" ELSE "INVALID_PARAM"

(* A watch call returns an answer at once, or goes on at the given stage.  *)
WatchCall(paths, ev, ok, stage) ==
  LET answer == IF ~fd THEN "INVALID_OPERATION"
                ELSE IF inotifyEvent2RealInotifyEv(ev) = {} THEN "NO_ERROR"
                ELSE Refused(paths, ok)
  IN  /\ pc = "idle"
      /\ calls < MaxCalls
      /\ calls' = calls + 1
      /\ errorCode' = "0"
      /\ caller' = "idle"
      /\ \/ /\ answer = "no"
            /\ pc' = stage
            /\ todo' = paths
            /\ UNCHANGED ret
         \/ /\ answer # "no"
            /\ ret' = answer
            /\ UNCHANGED <<pc, todo>>
      /\ UNCHANGED <<envVars, kernelVars, fd, buf, items, modset, wmap, made,
                     err, scanVars, parseVars>>

watchFiles(paths, ev) ==
  WatchCall(paths, ev, [k \in DOMAIN paths |-> IsAbsolute(paths[k])], "files")

watchRecursive(paths, ev) ==
  WatchCall(paths, ev,
            [k \in DOMAIN paths |-> IsAbsolute(paths[k]) /\ isDir(paths[k])],
            "roots")

(* The end of a call: the caller outside gets the code, the handler of an  *)
(* event goes on.                                                          *)
Return(code) ==
  /\ pc' = caller
  /\ ret' = IF caller = "idle" THEN code ELSE ret

(* The loop of watchFiles.  The path is inserted as it was given, not as   *)
(* filePath, which has the slash.                                          *)
FilesAdd ==
  /\ pc = "files"
  /\ todo # <<>>
  /\ CanWatch(Head(todo))
  /\ AddWatch(Head(todo))
  /\ Insert(AddedWd(Head(todo)), Head(todo), FALSE)
  /\ made' = Append(made, AddedWd(Head(todo)))
  /\ todo' = Tail(todo)
  /\ UNCHANGED <<envVars, fd, calls, errorCode, buf, items, modset, ctlVars,
                 ret, scanVars, parseVars>>

FilesFail ==
  /\ pc = "files"
  /\ todo # <<>>
  /\ ~CanWatch(Head(todo))
  /\ errorCode' = "errno"
  /\ pc' = "rollback"
  /\ todo' = <<>>
  /\ UNCHANGED <<worldVars, buf, items, modset, wmap, caller, err, made, ret,
                 scanVars, parseVars>>

FilesDone ==
  /\ pc = "files"
  /\ todo = <<>>
  /\ made' = <<>>
  /\ Return("NO_ERROR")
  /\ UNCHANGED <<worldVars, errorCode, buf, items, modset, wmap, caller, err,
                 todo, scanVars, parseVars>>

Rollback ==
  /\ pc = "rollback"
  /\ made # <<>>
  /\ RmWatch(Head(made))
  /\ wmap' = Without({Head(made)})
  /\ made' = Tail(made)
  /\ UNCHANGED <<envVars, fd, calls, errorCode, buf, items, modset, ctlVars,
                 todo, ret, scanVars, parseVars>>

RollbackDone ==
  /\ pc = "rollback"
  /\ made = <<>>
  /\ Return("UNKNOWN_ERROR")
  /\ UNCHANGED <<worldVars, errorCode, buf, items, modset, wmap, caller, err,
                 todo, made, scanVars, parseVars>>

-----------------------------------------------------------------------------
(* watchRecursive and _watchRecursive.  The recursion is the stack of open *)
(* directories; enter is the argument of the innermost call.               *)

NextRoot ==
  /\ pc = "roots"
  /\ todo # <<>>
  /\ enter' = Head(todo)
  /\ todo' = Tail(todo)
  /\ pc' = "add"
  /\ UNCHANGED <<worldVars, errorCode, buf, items, modset, wmap, caller, err,
                 made, ret, stack, found, leaked, failed, parseVars>>

RootsDone ==
  /\ pc = "roots"
  /\ todo = <<>>
  /\ Return("NO_ERROR")
  /\ UNCHANGED <<worldVars, errorCode, buf, items, modset, wmap, caller, err,
                 todo, made, scanVars, parseVars>>

(* All calls of the recursion return false: the directories the outer ones *)
(* have open stay open, the watches made so far stay in the kernel, and    *)
(* infoList is dropped.                                                    *)
ScanFails(open) ==
  /\ leaked' = leaked + open
  /\ failed' = TRUE
  /\ enter' = <<>>
  /\ stack' = <<>>
  /\ found' = <<>>
  /\ todo' = <<>>
  /\ err' = TRUE
  /\ Return("UNKNOWN_ERROR")
  /\ UNCHANGED <<worldVars, buf, items, modset, wmap, caller, made, parseVars>>

ScanAdd ==
  /\ pc = "add"
  /\ CanWatch(CorrectionPath(enter))
  /\ AddWatch(CorrectionPath(enter))
  /\ found' = Append(found, [wd |-> AddedWd(CorrectionPath(enter)),
                             path |-> CorrectionPath(enter)])
  /\ enter' = CorrectionPath(enter)
  /\ pc' = "opendir"
  /\ UNCHANGED <<envVars, fd, calls, errorCode, buf, items, modset, wmap,
                 caller, err, apiVars, stack, leaked, failed, parseVars>>

ScanAddFails ==
  /\ pc = "add"
  /\ ~CanWatch(CorrectionPath(enter))
  /\ ScanFails(Len(stack))
  /\ UNCHANGED errorCode

ScanOpen ==
  /\ pc = "opendir"
  /\ CanOpen(enter)
  /\ Opendir(enter)
  /\ stack' = Append(stack, [path |-> enter, left |-> Listing(enter)])
  /\ enter' = <<>>
  /\ pc' = "readdir"
  /\ UNCHANGED <<envVars, fd, calls, errorCode, buf, items, modset, wmap,
                 caller, err, apiVars, found, leaked, failed, parseVars>>

ScanOpenFails ==
  /\ pc = "opendir"
  /\ ~CanOpen(enter) \/ "opendir" \in Faults
  /\ errorCode' = "errno"
  /\ ScanFails(Len(stack))

(* An entry that is gone by the time of lstat is skipped.                  *)
ScanEntry(n) ==
  LET item == Last(stack).path \o n
  IN  /\ pc = "readdir"
      /\ n \in Last(stack).left
      /\ stack' = [stack EXCEPT ![Len(stack)] =
                     [path |-> @.path, left |-> @.left \ {n}]]
      /\ \/ /\ isDir(item)
            /\ enter' = item
            /\ pc' = "add"
         \/ /\ ~isDir(item)
            /\ UNCHANGED <<enter, pc>>
      /\ UNCHANGED <<worldVars, errorCode, buf, items, modset, wmap, caller,
                     err, apiVars, found, leaked, failed, parseVars>>

ScanEntryFails ==
  /\ pc = "readdir"
  /\ Last(stack).left # {}
  /\ "lstat" \in Faults
  /\ errorCode' = "errno"
  /\ ScanFails(Len(stack) - 1)

Popped == IF Len(stack) = 1 THEN "insert" ELSE "readdir"

ScanClose ==
  /\ pc = "readdir"
  /\ Last(stack).left = {}
  /\ stack' = Front(stack)
  /\ pc' = Popped
  /\ UNCHANGED <<worldVars, errorCode, buf, items, modset, wmap, caller, err,
                 apiVars, enter, found, leaked, failed, parseVars>>

(* The caller moves infoList into the map.                                 *)
InsertFound ==
  /\ pc = "insert"
  /\ found # <<>>
  /\ Insert(Head(found).wd, Head(found).path, TRUE)
  /\ found' = Tail(found)
  /\ UNCHANGED <<worldVars, errorCode, buf, items, modset, ctlVars, apiVars,
                 enter, stack, leaked, failed, parseVars>>

InsertDone ==
  /\ pc = "insert"
  /\ found = <<>>
  /\ pc' = IF caller = "idle" THEN "roots" ELSE caller
  /\ UNCHANGED <<worldVars, errorCode, buf, items, modset, wmap, caller, err,
                 localVars>>

-----------------------------------------------------------------------------
(* waitCompleteEvent: wait until the instance is readable, then read and   *)
(* parse until there is nothing to read.                                   *)

waitCompleteEvent(timed) ==
  /\ pc = "idle"
  /\ \/ /\ ~fd
        /\ ret' = "NO_INIT" /\ errorCode' = "0"
        /\ UNCHANGED <<pc, caller>>
     \/ /\ fd /\ kq # <<>>
        /\ pc' = "read" /\ caller' = "idle" /\ errorCode' = "0"
        /\ UNCHANGED ret
     \/ /\ fd /\ kq = <<>> /\ timed
        /\ ret' = "TIMED_OUT" /\ errorCode' = "0"
        /\ UNCHANGED <<pc, caller>>
     \/ /\ fd /\ Faults \cap {"select", "ioctl"} # {}
        /\ ret' = "UNKNOWN_ERROR" /\ errorCode' = "errno"
        /\ UNCHANGED <<pc, caller>>
  /\ UNCHANGED <<worldVars, buf, items, modset, wmap, err, todo, made,
                 scanVars, parseVars>>

AtMost(capacity) == IF capacity < Len(kq) THEN capacity ELSE Len(kq)

Read ==
  /\ pc = "read"
  /\ \/ /\ kq # <<>>
        /\ \E c \in Capacity :
             /\ buf' = buf \o SubSeq(kq, 1, AtMost(c))
             /\ kq' = SubSeq(kq, AtMost(c) + 1, Len(kq))
        /\ pc' = "parse"
        /\ UNCHANGED <<ret, errorCode>>
     \/ /\ kq = <<>>
        /\ pc' = "idle" /\ ret' = "NO_ERROR"
        /\ UNCHANGED <<kq, buf, errorCode>>
     \/ /\ "read" \in Faults
        /\ pc' = "idle" /\ ret' = "UNKNOWN_ERROR" /\ errorCode' = "errno"
        /\ UNCHANGED <<kq, buf>>
  /\ UNCHANGED <<envVars, marks, nextWd, lost, fd, calls, items, modset, wmap,
                 caller, err, todo, made, scanVars, parseVars>>

getEventItem ==
  /\ pc = "idle"
  /\ items # <<>>
  /\ items' = <<>>
  /\ UNCHANGED <<worldVars, errorCode, buf, modset, wmap, ctlVars, localVars>>

-----------------------------------------------------------------------------
(* _parseEvent: one handler per kind of record, in the order of the tests. *)

(* The loop goes on while i + INOTIFY_EVENT_SIZE is less than the size: a  *)
(* record that has a name, or one that another record follows.             *)
HeaderFits(b) == Len(b) > 1 \/ (Len(b) = 1 /\ b[1].name # <<>>)

Parsing(kinds) ==
  /\ pc = "parse"
  /\ HeaderFits(buf)
  /\ Head(buf).ev \in kinds

Unnamed == {"Q_OVERFLOW", "DELETE_SELF", "IGNORED"}
Mapped(kinds) ==
  /\ Parsing(kinds \ Unnamed)
  /\ Head(buf).wd \in DOMAIN wmap
Named(kinds) ==
  /\ Mapped(kinds \ {"UNMOUNT"})
  /\ Head(buf).name # <<>>

Here == wmap[Head(buf).wd].path

Push(ev, name, error) ==
  items' = Append(items, [ev |-> ev, dir |-> Head(buf).dir, err |-> error,
                          cookie |-> Head(buf).cookie, name |-> name])

OnOverflow ==
  /\ Parsing({"Q_OVERFLOW"})
  /\ Push("Q_OVERFLOW", <<>>, FALSE)
  /\ buf' = Tail(buf)
  /\ UNCHANGED <<worldVars, errorCode, modset, wmap, ctlVars, localVars>>

OnDeleteSelf ==
  /\ Parsing({"DELETE_SELF"})
  /\ RmWatch(Head(buf).wd)
  /\ buf' = Tail(buf)
  /\ UNCHANGED <<envVars, fd, calls, errorCode, items, modset, wmap, ctlVars,
                 localVars>>

OnIgnored ==
  /\ Parsing({"IGNORED"})
  /\ wmap' = Without({Head(buf).wd})
  /\ buf' = Tail(buf)
  /\ UNCHANGED <<worldVars, errorCode, items, modset, ctlVars, localVars>>

(* LOG_ASSERT(it != m_pathWithWd.end(), "wd(%d) not found", ...).          *)
OnUnknownWd ==
  /\ Parsing(EventKinds \ Unnamed)
  /\ Head(buf).wd \notin DOMAIN wmap
  /\ pc' = "aborted"
  /\ UNCHANGED <<worldVars, errorCode, buf, items, modset, wmap, caller, err,
                 localVars>>

OnUnmount ==
  /\ Mapped({"UNMOUNT"})
  /\ Push("UNMOUNT", Here \o Head(buf).name, FALSE)
  /\ RmWatch(Head(buf).wd)
  /\ wmap' = Without({Head(buf).wd})
  /\ buf' = Tail(buf)
  /\ UNCHANGED <<envVars, fd, calls, errorCode, modset, ctlVars, localVars>>

OnNameless ==
  /\ Mapped(EventKinds \ {"UNMOUNT"})
  /\ Head(buf).name = <<>>
  /\ buf' = Tail(buf)
  /\ UNCHANGED <<worldVars, errorCode, items, modset, wmap, ctlVars,
                 localVars>>

OnDelete ==
  /\ Named({"DELETE"})
  /\ Push("DELETE", Here \o Head(buf).name, FALSE)
  /\ buf' = Tail(buf)
  /\ UNCHANGED <<worldVars, errorCode, modset, wmap, ctlVars, localVars>>

Recurses == Head(buf).dir /\ wmap[Head(buf).wd].rec

(* A new directory below a recursive watch is watched before its creation  *)
(* is reported.                                                            *)
OnCreate ==
  /\ Named({"CREATE"})
  /\ base' = Here
  /\ err' = FALSE
  /\ caller' = "created"
  /\ \/ /\ Recurses
        /\ enter' = Here \o Head(buf).name
        /\ pc' = "add"
     \/ /\ ~Recurses
        /\ pc' = "created"
        /\ UNCHANGED enter
  /\ UNCHANGED <<worldVars, errorCode, buf, items, modset, wmap, apiVars,
                 stack, found, leaked, failed, move, visit>>

Created ==
  /\ pc = "created"
  /\ Push("CREATE", base \o Head(buf).name, err)
  /\ buf' = Tail(buf)
  /\ base' = <<>>
  /\ pc' = "parse"
  /\ UNCHANGED <<worldVars, errorCode, modset, wmap, caller, err, apiVars,
                 scanVars, move, visit>>

OnModify ==
  /\ Named({"MODIFY"})
  /\ modset' = modset \cup {Here \o Head(buf).name}
  /\ buf' = Tail(buf)
  /\ UNCHANGED <<worldVars, errorCode, items, wmap, ctlVars, localVars>>

(* The files a MODIFY_OVER of this path tells of: those no later MODIFY    *)
(* record is on its way for.                                               *)
Told(path) ==
  LET Later == {(Tail(buf) \o kq)[k] : k \in 1..(Len(buf) - 1 + Len(kq))}
  IN  {f \in Files : /\ PathString(loc[f]) = path
                     /\ \A r \in Later : ~(/\ r.ev = "MODIFY"
                                           /\ r.wd = Head(buf).wd
                                           /\ r.name = Head(buf).name)}

(* m_fileModifySet once the path has been reported.                        *)
Finished(path) == modset \ {path}

OnCloseWrite ==
  /\ Named({"CLOSE_WRITE"})
  /\ LET path == Here \o Head(buf).name
     IN  \/ /\ path \in modset
            /\ Push("MODIFY_OVER", path, FALSE)
            /\ modset' = Finished(path)
            /\ dirty' = dirty \ Told(path)
         \/ /\ path \notin modset
            /\ UNCHANGED <<items, modset, dirty>>
  /\ buf' = Tail(buf)
  /\ UNCHANGED <<fsVars, kernelVars, fd, calls, errorCode, wmap, ctlVars,
                 localVars>>

OnMovedFrom ==
  /\ Named({"MOVED_FROM"})
  /\ move' = [name |-> Head(buf).name, dir |-> Head(buf).dir,
              cookie |-> Head(buf).cookie]
  /\ Push("MOVED_OUT", Here \o Head(buf).name, FALSE)
  /\ buf' = Tail(buf)
  /\ UNCHANGED <<worldVars, errorCode, modset, wmap, ctlVars, apiVars,
                 scanVars, base, visit>>

(* A rename of a directory is recognised by the cookie; the old path is    *)
(* taken to be in the directory it was moved to.                           *)
Renames(r) == r.cookie = move.cookie /\ move.name # <<>> /\ move.dir

OnMovedTo ==
  /\ Named({"MOVED_TO"})
  /\ base' = Here
  /\ err' = FALSE
  /\ caller' = "moved_in"
  /\ LET r    == Head(buf)
         path == Here \o r.name
     IN  \/ /\ Renames(r)
            /\ visit' = {wd \in DOMAIN wmap :
                           Occurs(Here \o move.name, wmap[wd].path)}
            /\ pc' = "rename"
            /\ UNCHANGED <<enter, todo, errorCode>>
         \/ /\ ~Renames(r) /\ Recurses
            /\ enter' = path
            /\ pc' = "add"
            /\ UNCHANGED <<visit, todo, errorCode>>
         \/ /\ ~Renames(r) /\ r.dir /\ ~Recurses
            /\ todo' = IF Holds(path) THEN <<>> ELSE <<path>>
            /\ pc' = IF Holds(path) THEN "moved_in" ELSE "files"
            /\ errorCode' = "0"
            /\ UNCHANGED <<visit, enter>>
         \/ /\ ~Renames(r) /\ ~r.dir
            /\ pc' = "moved_in"
            /\ UNCHANGED <<visit, enter, todo, errorCode>>
  /\ UNCHANGED <<worldVars, buf, items, modset, wmap, made, ret, stack, found,
                 leaked, failed, move>>

RenameEntry ==
  /\ pc = "rename"
  /\ visit # {}
  /\ LET wd == Smallest(visit)
     IN  /\ visit' = visit \ {wd}
         /\ \/ /\ wd \in DOMAIN wmap
               /\ Update(wd, StringReplace(wmap[wd].path, base \o move.name,
                                           base \o Head(buf).name))
            \/ wd \notin DOMAIN wmap /\ UNCHANGED wmap
  /\ UNCHANGED <<worldVars, errorCode, buf, items, modset, ctlVars, apiVars,
                 scanVars, move, base>>

RenameDone ==
  /\ pc = "rename"
  /\ visit = {}
  /\ move' = NoMove
  /\ pc' = "moved_in"
  /\ UNCHANGED <<worldVars, errorCode, buf, items, modset, wmap, caller, err,
                 apiVars, scanVars, base, visit>>

(* The end of the loop body, which only MOVED_TO and the records of no     *)
(* test above reach: a directory that was moved out and not in again loses *)
(* its watches.  The condition is the result of find itself: every entry   *)
(* that does not start with the path.                                      *)
Purged(path) == {wd \in DOMAIN wmap : ~IsPrefix(path, wmap[wd].path)}

LoopTail ==
  \/ /\ move.name # <<>> /\ move.dir
     /\ visit' = Purged(Here \o move.name)
     /\ pc' = "purge"
     /\ UNCHANGED buf
  \/ /\ ~(move.name # <<>> /\ move.dir)
     /\ pc' = "parse"
     /\ buf' = Tail(buf)
     /\ UNCHANGED visit

MovedIn ==
  /\ pc = "moved_in"
  /\ Push("MOVED_IN", base \o Head(buf).name, err)
  /\ base' = <<>>
  /\ LoopTail
  /\ UNCHANGED <<worldVars, errorCode, modset, wmap, caller, err, apiVars,
                 scanVars, move>>

OnOther ==
  /\ Named({"OPEN", "MOVE_SELF"})
  /\ LoopTail
  /\ UNCHANGED <<worldVars, errorCode, items, modset, wmap, caller, err,
                 apiVars, scanVars, move, base>>

PurgeEntry ==
  /\ pc = "purge"
  /\ visit # {}
  /\ LET wd == Smallest(visit)
     IN  /\ visit' = visit \ {wd}
         /\ RmWatch(wd)
         /\ wmap' = Without({wd})
  /\ UNCHANGED <<envVars, fd, calls, errorCode, buf, items, modset, ctlVars,
                 apiVars, scanVars, move, base>>

PurgeDone ==
  /\ pc = "purge"
  /\ visit = {}
  /\ move' = NoMove
  /\ buf' = Tail(buf)
  /\ pc' = "parse"
  /\ UNCHANGED <<worldVars, errorCode, items, modset, wmap, caller, err,
                 apiVars, scanVars, base, visit>>

(* What is left stays in the buffer for the next read.                     *)
ParseDone ==
  /\ pc = "parse"
  /\ ~HeaderFits(buf)
  /\ move' = NoMove
  /\ pc' = "read"
  /\ UNCHANGED <<worldVars, errorCode, buf, items, modset, wmap, caller, err,
                 apiVars, scanVars, base, visit>>

-----------------------------------------------------------------------------
(* The calls the application starts, and the steps of a running call.      *)

Calls ==
  \/ createInotify
  \/ destroyInotify
  \/ \E paths \in FilesArgs, ev \in Masks : watchFiles(paths, ev)
  \/ \E paths \in RecursiveArgs, ev \in Masks : watchRecursive(paths, ev)
  \/ \E timed \in BOOLEAN : waitCompleteEvent(timed)
  \/ getEventItem

WatchSteps ==
  \/ FilesAdd \/ FilesFail \/ FilesDone \/ Rollback \/ RollbackDone
  \/ NextRoot \/ RootsDone
  \/ ScanAdd \/ ScanAddFails \/ ScanOpen \/ ScanOpenFails
  \/ \E n \in AllNames : ScanEntry(n)
  \/ ScanEntryFails \/ ScanClose
  \/ InsertFound \/ InsertDone

ParseSteps ==
  \/ OnOverflow \/ OnDeleteSelf \/ OnIgnored \/ OnUnknownWd \/ OnUnmount
  \/ OnNameless \/ OnDelete \/ OnCreate \/ Created \/ OnModify \/ OnCloseWrite
  \/ OnMovedFrom \/ OnMovedTo \/ RenameEntry \/ RenameDone \/ MovedIn \/ OnOther
  \/ PurgeEntry \/ PurgeDone \/ ParseDone

ToolStep == WatchSteps \/ Read \/ ParseSteps

Next ==
  \/ pc \notin Calm /\ OtherProcesses /\ UNCHANGED toolVars
  \/ Calls
  \/ ToolStep

Spec == Init /\ [][Next]_vars

(* The thread of the application runs: a call it is in goes on, and it     *)
(* waits for events again and again, as examples/test_inotify_tool.cc does.*)
FairSpec == Spec /\ WF_vars(ToolStep) /\ WF_vars(waitCompleteEvent(FALSE))

=============================================================================
