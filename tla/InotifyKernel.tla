--------------------------- MODULE InotifyKernel ---------------------------
(***************************************************************************)
(* The world InotifyTool runs in: a directory tree changed by other        *)
(* processes, and the inotify instance of the kernel behind m_inotifyFd.   *)
(* None of this is code of the repository: it is modelled from the way     *)
(* inotify_tool.cpp calls inotify_init1, inotify_add_watch,                *)
(* inotify_rm_watch, read, opendir and lstat, and from inotify(7).         *)
(*                                                                         *)
(* Bounds: MaxOps file-system operations in a behaviour, MaxQueued events  *)
(* in the kernel queue (fs.inotify.max_queued_events), MaxWatches live     *)
(* watches (fs.inotify.max_user_watches).                                  *)
(***************************************************************************)
EXTENDS InotifyPaths, Integers, FiniteSets

CONSTANTS
  Dirs, Files,   \* inodes of directories and of regular files
  Names,         \* the names other processes give, as token sequences
  OldNames,      \* the names of the tree at the start
  Writers,       \* file descriptions other processes may open for writing
  Pinned,        \* directories that are neither removed nor renamed
  Outside,       \* directories that the application does not watch
  Unreadable,    \* directories the process of the tool may not read
  InitLoc,       \* the tree at the start: a place or Gone for every inode
  FsOps,         \* the kinds of operation other processes perform
  MaxOps, MaxQueued, MaxWatches

Inodes == Dirs \cup Files
Gone   == <<>>
None   == "none"
AllNames == Names \cup OldNames

ASSUME InodesAssumption ==
  /\ Dirs \cap Files = {}
  /\ None \notin Files
  /\ Pinned \subseteq Dirs
  /\ Unreadable \subseteq Dirs
  /\ Outside \subseteq Dirs
  /\ InitLoc \in [Inodes -> Seq(AllNames)]
  /\ <<>> \notin AllNames

(* No two inodes are at one place, and what is not at the top is in a      *)
(* directory.                                                              *)
IsTree(places) ==
  /\ \A i, j \in Inodes : places[i] # Gone /\ places[i] = places[j] => i = j
  /\ \A j \in Inodes : Len(places[j]) > 1 =>
       \E p \in Dirs : places[p] = Front(places[j])

ASSUME TreeAssumption == IsTree(InitLoc)

(* A name has no slash in it.                                              *)
ASSUME NamesAssumption == AllNames \subseteq Seq(STRING \ {"/"})

ASSUME BoundsAssumption ==
  /\ MaxOps \in Nat
  /\ MaxQueued \in Nat \ {0}
  /\ MaxWatches \in Nat

VARIABLES
  loc,      \* where each inode is: the names from "/" down to it, or Gone
  writing,  \* the file each writer has open for writing
  unlinked, \* the files without a name that are still open, each with the
            \* directory and the name it had last
  used,     \* history: the places where an inode has been
  ops,      \* operations performed so far (bounded by MaxOps)
  cookie,   \* the cookie of the last rename
  marks,    \* the watches of the instance: watch descriptor -> inode
  nextWd,   \* the next watch descriptor; the kernel does not reuse them
  kq,       \* the kernel's event queue of the instance
  lost,     \* history: the queue overflowed, events were dropped
  dirty     \* history: files modified, and not reported as modified since

fsVars     == <<loc, writing, unlinked, used, ops, cookie>>
kernelVars == <<marks, nextWd, kq, lost>>

EventKinds ==
  {"CREATE", "DELETE", "MODIFY", "CLOSE_WRITE", "MOVED_FROM", "MOVED_TO",
   "OPEN", "MOVE_SELF", "DELETE_SELF", "IGNORED", "UNMOUNT", "Q_OVERFLOW"}

(* A struct inotify_event; name = <<>> when len is 0.                      *)
Events == [wd : Int, ev : EventKinds, dir : BOOLEAN, cookie : Nat,
           name : AllNames \cup {<<>>}]

Event(wd, ev, dir, ck, name) ==
  [wd |-> wd, ev |-> ev, dir |-> dir, cookie |-> ck, name |-> name]

OverflowEvent == Event(-1, "Q_OVERFLOW", FALSE, 0, <<>>)
NoWatches     == [wd \in {} |-> None]

KernelInit ==
  /\ loc = InitLoc
  /\ used = {loc[i] : i \in Inodes} \ {Gone}
  /\ writing = [w \in Writers |-> None]
  /\ unlinked = [f \in {} |-> None]
  /\ ops = 0
  /\ cookie = 0
  /\ marks = NoWatches
  /\ nextWd = 1
  /\ kq = <<>>
  /\ lost = FALSE
  /\ dirty = {}

-----------------------------------------------------------------------------
(* The tree.                                                               *)

Live(i)      == loc[i] # Gone
Free(place)  == \A i \in Inodes : loc[i] # place
Children(i)  == {j \in Inodes : Live(j) /\ Len(loc[j]) = Len(loc[i]) + 1
                                /\ IsPrefix(loc[i], loc[j])}
Below(i, j)  == Live(i) /\ IsPrefix(loc[j], loc[i])

(* What a path string names now: lstat, opendir and inotify_add_watch.     *)
At(path) ==
  {i \in Inodes : /\ Live(i)
                  /\ \/ PathString(loc[i]) = path
                     \/ i \in Dirs /\ Append(PathString(loc[i]), "/") = path}

-----------------------------------------------------------------------------
(* The event queue.                                                        *)

(* An event equal to the newest queued one is merged with it; when the     *)
(* queue is full one overflow event is queued and the rest is dropped.     *)
Enqueue(q, e) ==
  IF q # <<>> /\ q[Len(q)] = e THEN q
  ELSE IF Len(q) < MaxQueued THEN Append(q, e)
  ELSE IF Len(q) = MaxQueued THEN Append(q, OverflowEvent)
  ELSE q

SetQueue(q) ==
  /\ kq' = q
  /\ lost' = (lost \/ Len(q) > MaxQueued)

(* An event on inode i itself, and one on the directory at a place about   *)
(* its entry name: queued when the inode has a watch.  At the top there is *)
(* no directory.                                                           *)
PostSelf(q, i, ev, dir) ==
  IF \E wd \in DOMAIN marks : marks[wd] = i
  THEN Enqueue(q, Event(CHOOSE wd \in DOMAIN marks : marks[wd] = i,
                        ev, dir, 0, <<>>))
  ELSE q

PostAt(q, place, ev, dir, ck, name) ==
  IF place # Gone /\ \E wd \in DOMAIN marks : loc[marks[wd]] = place
  THEN Enqueue(q, Event(CHOOSE wd \in DOMAIN marks : loc[marks[wd]] = place,
                        ev, dir, ck, name))
  ELSE q

(* The place of the directory that is told of what happens to an inode,    *)
(* and the name it is told: for an unlinked file those it had last.        *)
Folder(i) ==
  IF i \in DOMAIN unlinked THEN loc[unlinked[i].dir] ELSE Front(loc[i])
EntryName(i) ==
  IF i \in DOMAIN unlinked THEN unlinked[i].name ELSE Last(loc[i])

(* An event on inode i as its parent directory and its own watch see it.   *)
PostChild(q, i, ev) ==
  PostSelf(PostAt(q, Folder(i), ev, i \in Dirs, 0, EntryName(i)),
           i, ev, i \in Dirs)

(* The watch of an inode that is removed, and of one that is unmounted.    *)
PostGone(q, i, ev) ==
  PostSelf(PostSelf(q, i, ev, FALSE), i, "IGNORED", FALSE)
Unmarked(i) == [wd \in {v \in DOMAIN marks : marks[v] # i} |-> marks[wd]]

-----------------------------------------------------------------------------
(* The system calls of the tool on the instance.                           *)

Marked(i) == \E wd \in DOMAIN marks : marks[wd] = i

(* inotify_add_watch: of an inode that is watched already it returns the   *)
(* descriptor of that watch; it fails when the path names nothing, when    *)
(* the inode may not be read and when there are too many watches.          *)
CanWatch(path) ==
  \E i \in At(path) : /\ i \notin Unreadable
                      /\ Marked(i) \/ Cardinality(DOMAIN marks) < MaxWatches

Target(path) == CHOOSE i \in At(path) : TRUE

AddedWd(path) ==
  IF Marked(Target(path))
  THEN CHOOSE wd \in DOMAIN marks : marks[wd] = Target(path)
  ELSE nextWd

AddWatch(path) ==
  /\ marks' = [wd \in DOMAIN marks \cup {AddedWd(path)} |->
                 IF wd = AddedWd(path) THEN Target(path) ELSE marks[wd]]
  /\ nextWd' = IF AddedWd(path) = nextWd THEN nextWd + 1 ELSE nextWd
  /\ UNCHANGED <<kq, lost>>

(* inotify_rm_watch: of a descriptor that has no watch any more it fails.  *)
RmWatch(wd) ==
  /\ marks' = [v \in DOMAIN marks \ {wd} |-> marks[v]]
  /\ SetQueue(IF wd \in DOMAIN marks
              THEN Enqueue(kq, Event(wd, "IGNORED", FALSE, 0, <<>>)) ELSE kq)
  /\ UNCHANGED nextWd

(* opendir and the first readdir of a directory that exists and may be     *)
(* read.  The watches of the tool see it like anybody's; OPEN stands for   *)
(* the OPEN, ACCESS and CLOSE_NOWRITE events of listing a directory, and   *)
(* for the ATTRIB event of a file that loses its name.                     *)
CanOpen(path) == \E i \in At(path) \cap Dirs : i \notin Unreadable

Opendir(path) ==
  /\ SetQueue(PostChild(kq, Target(path), "OPEN"))
  /\ UNCHANGED <<marks, nextWd>>

Listing(path) == {Last(loc[c]) : c \in Children(Target(path))}

(* inotify_init1 and close: with the instance go its watches and events.   *)
NewInstance ==
  /\ marks' = NoWatches
  /\ nextWd' = 1
  /\ kq' = <<>>
  /\ dirty' = {}
  /\ UNCHANGED lost

-----------------------------------------------------------------------------
(* What other processes do.                                                *)

Op(kind) ==
  /\ kind \in FsOps
  /\ ops < MaxOps
  /\ ops' = ops + 1

(* A directory is made at a new place, or where something was before.      *)
Mkdir(p, n) ==
  /\ Live(p)
  /\ Op(IF Append(loc[p], n) \in used THEN "remake" ELSE "mkdir")
  /\ Free(Append(loc[p], n))
  /\ \E i \in Dirs : ~Live(i)
  /\ LET i == CHOOSE d \in Dirs : ~Live(d)
     IN  loc' = [loc EXCEPT ![i] = Append(loc[p], n)]
  /\ used' = used \cup {Append(loc[p], n)}
  /\ SetQueue(PostAt(kq, loc[p], "CREATE", TRUE, 0, n))
  /\ UNCHANGED <<writing, unlinked, cookie, marks, nextWd, dirty>>

(* Nothing is in a directory, not even an unlinked file that is open.      *)
Bare(i) == Children(i) = {} /\ \A f \in DOMAIN unlinked : unlinked[f].dir # i

(* Whether the parent or the directory itself is told first depends on the *)
(* kernel version.                                                         *)
Rmdir(i) ==
  /\ Op("rmdir")
  /\ Live(i)
  /\ i \notin Pinned
  /\ Bare(i)
  /\ loc' = [loc EXCEPT ![i] = Gone]
  /\ LET Parent(q) == PostAt(q, Front(loc[i]), "DELETE", TRUE, 0, Last(loc[i]))
         Self(q)   == PostGone(q, i, "DELETE_SELF")
     IN  SetQueue(Parent(Self(kq))) \/ SetQueue(Self(Parent(kq)))
  /\ marks' = Unmarked(i)
  /\ UNCHANGED <<writing, unlinked, used, cookie, nextWd, dirty>>

(* The file system mounted on a leaf directory is unmounted: the directory *)
(* the watch was on is no longer in the tree.                              *)
Unmount(i) ==
  /\ Op("unmount")
  /\ Live(i)
  /\ i \notin Pinned
  /\ Bare(i)
  /\ loc' = [loc EXCEPT ![i] = Gone]
  /\ SetQueue(PostGone(kq, i, "UNMOUNT"))
  /\ marks' = Unmarked(i)
  /\ UNCHANGED <<writing, unlinked, used, cookie, nextWd, dirty>>

(* The kinds of rename: within a directory, to an outside directory, from  *)
(* one, and between two directories of the watched tree.                   *)
BelowOutside(i) == \E t \in Outside : Below(i, t)

RenameKind(i, p) ==
  CASE loc[p] = Front(loc[i])             -> "rename"
    [] loc[p] # Front(loc[i]) /\ BelowOutside(p) -> "moveout"
    [] loc[p] # Front(loc[i]) /\ ~BelowOutside(p) /\ BelowOutside(i) -> "movein"
    [] OTHER -> "move"

Rename(i, p, n) ==
  /\ Live(i)
  /\ Live(p)
  /\ Op(RenameKind(i, p))
  /\ i \notin Pinned
  /\ ~Below(p, i)
  /\ LET old == loc[i]
         new == Append(loc[p], n)
         ck  == cookie + 1
         from == PostAt(kq, Front(old), "MOVED_FROM", i \in Dirs, ck, Last(old))
         to   == PostAt(from, loc[p], "MOVED_TO", i \in Dirs, ck, n)
     IN  /\ Free(new)
         /\ loc' = [j \in Inodes |->
                      IF IsPrefix(old, loc[j])
                      THEN new \o SubSeq(loc[j], Len(old) + 1, Len(loc[j]))
                      ELSE loc[j]]
         /\ used' = used \cup {new}
         /\ cookie' = ck
         /\ SetQueue(PostSelf(to, i, "MOVE_SELF", i \in Dirs))
  /\ UNCHANGED <<writing, unlinked, marks, nextWd, dirty>>

(* Another process lists a directory.                                      *)
ListDir(i) ==
  /\ Op("list")
  /\ Live(i)
  /\ SetQueue(PostChild(kq, i, "OPEN"))
  /\ UNCHANGED <<loc, writing, unlinked, used, cookie, marks, nextWd, dirty>>

(* A file is created, and left open for writing by its creator.            *)
Unborn(f) == ~Live(f) /\ f \notin DOMAIN unlinked
CreateFile(w, p, n) ==
  /\ Op("create")
  /\ Live(p)
  /\ Free(Append(loc[p], n))
  /\ writing[w] = None
  /\ \E f \in Files : Unborn(f)
  /\ LET f == CHOOSE g \in Files : Unborn(g)
     IN  /\ loc' = [loc EXCEPT ![f] = Append(loc[p], n)]
         /\ used' = used \cup {Append(loc[p], n)}
         /\ writing' = [writing EXCEPT ![w] = f]
  /\ SetQueue(PostAt(kq, loc[p], "CREATE", FALSE, 0, n))
  /\ UNCHANGED <<unlinked, cookie, marks, nextWd, dirty>>

OpenFile(w, f) ==
  /\ Op("open")
  /\ Live(f)
  /\ writing[w] = None
  /\ writing' = [writing EXCEPT ![w] = f]
  /\ SetQueue(PostChild(kq, f, "OPEN"))
  /\ UNCHANGED <<loc, unlinked, used, cookie, marks, nextWd, dirty>>

(* A modification is owed to the reader of the instance when some watch    *)
(* sees it and the file is still there.                                    *)
Seen(f) ==
  \E wd \in DOMAIN marks : marks[wd] = f \/ loc[marks[wd]] = Front(loc[f])

Modify(f) ==
  /\ SetQueue(PostChild(kq, f, "MODIFY"))
  /\ dirty' = IF Live(f) /\ Seen(f) THEN dirty \cup {f} ELSE dirty

WriteFile(w) ==
  /\ Op("write")
  /\ writing[w] # None
  /\ Modify(writing[w])
  /\ UNCHANGED <<loc, writing, unlinked, used, cookie, marks, nextWd>>

(* An unlinked file goes when the last process closes it.                  *)
LastClose(w) ==
  /\ writing[w] \in DOMAIN unlinked
  /\ \A v \in Writers : v # w => writing[v] # writing[w]

CloseFile(w) ==
  /\ Op("close")
  /\ writing[w] # None
  /\ ~LastClose(w)
  /\ writing' = [writing EXCEPT ![w] = None]
  /\ SetQueue(PostChild(kq, writing[w], "CLOSE_WRITE"))
  /\ UNCHANGED <<loc, unlinked, used, cookie, marks, nextWd, dirty>>

CloseUnlinked(w) ==
  /\ Op("close")
  /\ LastClose(w)
  /\ writing' = [writing EXCEPT ![w] = None]
  /\ SetQueue(PostGone(PostChild(kq, writing[w], "CLOSE_WRITE"), writing[w],
                       "DELETE_SELF"))
  /\ marks' = Unmarked(writing[w])
  /\ unlinked' = [f \in DOMAIN unlinked \ {writing[w]} |-> unlinked[f]]
  /\ UNCHANGED <<loc, used, cookie, nextWd, dirty>>

(* truncate(2): a modification with no open file and so no close.          *)
Truncate(f) ==
  /\ Op("truncate")
  /\ Live(f)
  /\ Modify(f)
  /\ UNCHANGED <<loc, writing, unlinked, used, cookie, marks, nextWd>>

(* File f in directory p loses its only name.  It is gone at once, watch   *)
(* and all, unless some process has it open.                               *)
IsOpen(f) == \E w \in Writers : writing[w] = f

Dropped(q, f) == IF IsOpen(f) THEN q ELSE PostGone(q, f, "DELETE_SELF")

LoseName(f, p) ==
  /\ Live(f) /\ Live(p)
  /\ loc[p] = Front(loc[f])
  /\ marks' = IF IsOpen(f) THEN marks ELSE Unmarked(f)
  /\ unlinked' = [g \in DOMAIN unlinked \cup IF IsOpen(f) THEN {f} ELSE {} |->
                    IF g = f THEN [dir |-> p, name |-> Last(loc[f])]
                    ELSE unlinked[g]]
  /\ dirty' = dirty \ {f}

(* Here, too, the order of the last events depends on the kernel version.  *)
Unlink(f, p) ==
  /\ Op("unlink")
  /\ LoseName(f, p)
  /\ loc' = [loc EXCEPT ![f] = Gone]
  /\ LET Parent(q) == PostAt(q, loc[p], "DELETE", FALSE, 0, Last(loc[f]))
         attrib    == PostSelf(kq, f, "OPEN", FALSE)
     IN  SetQueue(Parent(Dropped(attrib, f))) \/ SetQueue(Dropped(Parent(attrib), f))
  /\ UNCHANGED <<writing, used, cookie, nextWd>>

(* File f is renamed over file g in directory p.                           *)
Replace(f, g, p) ==
  /\ Op("replace")
  /\ Live(f) /\ f # g
  /\ LoseName(g, p)
  /\ loc' = [loc EXCEPT ![f] = loc[g], ![g] = Gone]
  /\ cookie' = cookie + 1
  /\ LET from == PostAt(kq, Front(loc[f]), "MOVED_FROM", FALSE, cookie + 1,
                        Last(loc[f]))
         to   == PostAt(from, loc[p], "MOVED_TO", FALSE, cookie + 1, Last(loc[g]))
         self == PostSelf(PostSelf(to, g, "OPEN", FALSE), f, "MOVE_SELF", FALSE)
     IN  SetQueue(Dropped(self, g))
  /\ UNCHANGED <<writing, used, nextWd>>

OtherProcesses ==
  \/ \E p \in Dirs, n \in Names : Mkdir(p, n)
  \/ \E i \in Dirs : Rmdir(i)
  \/ \E i \in Dirs : Unmount(i)
  \/ \E i \in Inodes, p \in Dirs, n \in Names : Rename(i, p, n)
  \/ \E i \in Dirs : ListDir(i)
  \/ \E w \in Writers, p \in Dirs, n \in Names : CreateFile(w, p, n)
  \/ \E w \in Writers, f \in Files : OpenFile(w, f)
  \/ \E w \in Writers : WriteFile(w)
  \/ \E w \in Writers : CloseFile(w)
  \/ \E w \in Writers : CloseUnlinked(w)
  \/ \E f \in Files : Truncate(f)
  \/ \E f \in Files, p \in Dirs : Unlink(f, p)
  \/ \E f, g \in Files, p \in Dirs : Replace(f, g, p)

-----------------------------------------------------------------------------
(* The types of the environment, and what inotify keeps: an inode has one  *)
(* watch at most.                                                          *)
KernelTypeOK ==
  /\ loc \in [Inodes -> Seq(AllNames)]
  /\ writing \in [Writers -> Files \cup {None}]
  /\ DOMAIN unlinked \subseteq Files
  /\ unlinked \in [DOMAIN unlinked -> [dir : Dirs, name : AllNames]]
  /\ ops \in Nat
  /\ cookie \in Nat
  /\ nextWd \in Nat
  /\ DOMAIN marks \subseteq 0..(nextWd - 1)
  /\ marks \in [DOMAIN marks -> Inodes]
  /\ kq \in Seq(Events)
  /\ lost \in BOOLEAN
  /\ dirty \subseteq Files

MarksUnique == \A v, w \in DOMAIN marks : marks[v] = marks[w] => v = w

(* A file that is open for writing is in the tree or was unlinked, and the *)
(* directory an unlinked file was in is there.                             *)
There(i)    == Live(i) \/ i \in DOMAIN unlinked
WritingLive ==
  /\ \A w \in Writers : writing[w] # None => There(writing[w])
  /\ \A f \in DOMAIN unlinked : Live(unlinked[f].dir)

(* The record that tells that a watch is gone, and the records of a queue. *)
Ignored(wd) == Event(wd, "IGNORED", FALSE, 0, <<>>)
Records(q)  == {q[k] : k \in 1..Len(q)}

=============================================================================
