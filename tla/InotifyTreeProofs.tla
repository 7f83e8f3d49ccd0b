--------------------------- MODULE InotifyTreeProofs ---------------------------
(***************************************************************************)
(* The paths of a recursive watch: as long as no directory is renamed,     *)
(* every entry that _watchRecursive makes has the path of the directory    *)
(* its descriptor watches, whatever else happens to the tree during the    *)
(* walk.                                                                   *)
(***************************************************************************)
EXTENDS EventPipeProofs

Paths == Seq(Token)

(* No directory has been moved according to the records of a queue.        *)
Moves      == {"MOVED_FROM", "MOVED_TO"}
Settled(q) == \A k \in 1..Len(q) : q[k].ev \in Moves => ~q[k].dir

Placed(wd, path) ==
  wd \in DOMAIN marks => marks[wd] \in Dirs /\ path = DirString(marks[wd])
EntryOK(wd) ==
  /\ wd < nextWd
  /\ wmap[wd].path \in Paths
  /\ wmap[wd].rec => Placed(wd, wmap[wd].path)
FoundOK(e) == e.wd < nextWd /\ e.path \in Paths /\ Placed(e.wd, e.path)

(* The inductive invariant, in parts.                                      *)
MarksLive == \A wd \in DOMAIN marks : There(marks[wd])
MapOK     == /\ \A wd \in DOMAIN wmap : EntryOK(wd)
             /\ \A k \in DOMAIN found : FoundOK(found[k])
WalkOK    == /\ enter \in Paths /\ todo \in Seq(Paths)
             /\ \A k \in DOMAIN stack : stack[k].path \in Paths
MovesOK   == Settled(buf) /\ Settled(kq) /\ ~move.dir /\ pc # "rename"
TreeInv   == MarksLive /\ MapOK /\ WalkOK /\ MovesOK

-----------------------------------------------------------------------------
(* What a path names that CorrectionPath has put a slash behind.           *)
LEMMA NamesAreTokens ==
  /\ "/" \in Token /\ <<>> \notin AllNames
  /\ AllNames \subseteq Word /\ AllNames \subseteq Paths
  /\ Seq(AllNames) \subseteq Seq(Word)
<1>1. AllNames \subseteq Word
  BY NamesAssumption, InodesAssumption DEF Letter, Word
<1>2. AllNames \subseteq Paths
  BY <1>1, Words DEF Paths
<1>3. Seq(AllNames) \subseteq Seq(Word)
  BY <1>1, SeqMonotonic
<1> QED BY <1>1, <1>2, <1>3, InodesAssumption, Words

LEMMA CorrectedNamesDir ==
  ASSUME KernelTypeOK, NEW path \in Paths, NEW i \in At(CorrectionPath(path))
  PROVE  /\ i \in Dirs /\ Live(i) /\ CorrectionPath(path) = DirString(i)
         /\ CorrectionPath(path) \in Paths /\ path # <<>>
<1> DEFINE p == CorrectionPath(path)
           s == PathString(loc[i])
<1>1. i \in Inodes /\ Live(i) /\ (s = p \/ (i \in Dirs /\ Append(s, "/") = p))
  BY DEF At
<1>2. loc[i] \in Seq(AllNames) /\ loc[i] # <<>>
  BY <1>1 DEF KernelTypeOK, Live, Gone
<1>3. s \in Seq(Token) /\ s # <<>> /\ Last(s) # "/"
  BY <1>2, NamesAreTokens, PathStringEnd
<1>4. p \in Seq(Token) /\ (path # <<>> => p # <<>> /\ Last(p) = "/")
  BY NamesAreTokens, CorrectionEnds DEF Paths
<1>5. path # <<>>
  <2> SUFFICES ASSUME path = <<>> PROVE FALSE
    OBVIOUS
  <2>1. p = <<>>
    BY DEF CorrectionPath
  <2>2. Append(s, "/") # <<>>
    BY <1>3, NamesAreTokens, LastAppend
  <2> QED BY <1>1, <1>3, <2>1, <2>2
<1>6. s # p
  BY <1>3, <1>4, <1>5
<1> QED BY <1>1, <1>4, <1>5, <1>6 DEF DirString, Paths

-----------------------------------------------------------------------------
(* The records that are posted.                                            *)
LEMMA SettledAppend ==
  ASSUME NEW q \in Seq(Events), NEW e \in Events, Settled(q), e.ev \in Moves => ~e.dir
  PROVE  Settled(Append(q, e))
<1>1. /\ Len(q) \in Nat /\ Len(Append(q, e)) = Len(q) + 1
      /\ Append(q, e)[Len(q) + 1] = e
      /\ \A k \in 1..Len(q) : Append(q, e)[k] = q[k]
  BY AppendProperties
<1>2. \A k \in 1..Len(Append(q, e)) : k \in 1..Len(q) \/ k = Len(q) + 1
  BY <1>1
<1> QED BY <1>1, <1>2 DEF Settled

LEMMA SettledEnqueue ==
  ASSUME NEW q \in Seq(Events), NEW e \in Events, Settled(q), e.ev \in Moves => ~e.dir
  PROVE  Settled(Enqueue(q, e)) /\ Enqueue(q, e) \in Seq(Events)
<1>1. OverflowEvent \in Events /\ OverflowEvent.ev \notin Moves
  BY OverflowType DEF OverflowEvent, Event, Moves
<1>2. Settled(Append(q, e)) /\ Settled(Append(q, OverflowEvent))
  BY <1>1, SettledAppend
<1> QED BY <1>2, EnqueueGrows DEF Enqueue, Grows

LEMMA SettledPostSelf ==
  ASSUME KernelTypeOK, NEW q \in Seq(Events), NEW i, NEW ev \in EventKinds \ Moves,
         NEW dir \in BOOLEAN, Settled(q)
  PROVE  Settled(PostSelf(q, i, ev, dir)) /\ PostSelf(q, i, ev, dir) \in Seq(Events)
<1> DEFINE v == CHOOSE wd \in DOMAIN marks : marks[wd] = i
           e == Event(v, ev, dir, 0, <<>>)
<1>1. CASE \E wd \in DOMAIN marks : marks[wd] = i
  <2>1. v \in Int
    BY <1>1 DEF KernelTypeOK
  <2>2. e \in Events /\ e.ev = ev
    BY <2>1, EventType DEF Event
  <2> HIDE DEF e
  <2>3. Settled(Enqueue(q, e)) /\ Enqueue(q, e) \in Seq(Events)
    BY <2>2, SettledEnqueue
  <2> QED BY <1>1, <2>3 DEF PostSelf, e
<1>2. CASE ~\E wd \in DOMAIN marks : marks[wd] = i
  BY <1>2 DEF PostSelf
<1> QED BY <1>1, <1>2

LEMMA SettledPostAt ==
  ASSUME KernelTypeOK, NEW q \in Seq(Events), NEW place, NEW ev \in EventKinds,
         NEW dir \in BOOLEAN, NEW ck \in Nat, NEW name \in AllNames, Settled(q),
         ev \in Moves => ~dir
  PROVE  /\ Settled(PostAt(q, place, ev, dir, ck, name))
         /\ PostAt(q, place, ev, dir, ck, name) \in Seq(Events)
<1> DEFINE v == CHOOSE wd \in DOMAIN marks : loc[marks[wd]] = place
           e == Event(v, ev, dir, ck, name)
<1>1. CASE place # Gone /\ \E wd \in DOMAIN marks : loc[marks[wd]] = place
  <2>1. v \in Int
    BY <1>1 DEF KernelTypeOK
  <2>2. e \in Events /\ e.ev = ev /\ e.dir = dir
    BY <2>1, EventType DEF Event
  <2> HIDE DEF e
  <2>3. Settled(Enqueue(q, e)) /\ Enqueue(q, e) \in Seq(Events)
    BY <2>2, SettledEnqueue
  <2> QED BY <1>1, <2>3 DEF PostAt, e
<1>2. CASE ~(place # Gone /\ \E wd \in DOMAIN marks : loc[marks[wd]] = place)
  BY <1>2 DEF PostAt
<1> QED BY <1>1, <1>2

LEMMA SettledPostChild ==
  ASSUME KernelTypeOK, NEW q \in Seq(Events), NEW i \in Inodes, There(i),
         NEW ev \in EventKinds \ Moves, Settled(q)
  PROVE  Settled(PostChild(q, i, ev)) /\ PostChild(q, i, ev) \in Seq(Events)
<1> DEFINE r == PostAt(q, Folder(i), ev, i \in Dirs, 0, EntryName(i))
<1>1. (i \in Dirs) \in BOOLEAN /\ 0 \in Nat /\ EntryName(i) \in AllNames
  BY EntryNameType
<1>2. Settled(r) /\ r \in Seq(Events)
  BY <1>1, SettledPostAt
<1> HIDE DEF r
<1> QED BY <1>1, <1>2, SettledPostSelf DEF PostChild, r

LEMMA SettledPostGone ==
  ASSUME KernelTypeOK, NEW q \in Seq(Events), NEW i,
         NEW ev \in EventKinds \ Moves, Settled(q)
  PROVE  Settled(PostGone(q, i, ev)) /\ PostGone(q, i, ev) \in Seq(Events)
<1>1. "IGNORED" \in EventKinds \ Moves /\ FALSE \in BOOLEAN
  BY DEF EventKinds, Moves
<1> QED BY <1>1, SettledPostSelf DEF PostGone

LEMMA SettledTail ==
  ASSUME NEW q \in Seq(Events), q # <<>>, Settled(q)
  PROVE  Settled(Tail(q)) /\ (Head(q).ev \in Moves => ~Head(q).dir)
<1>1. /\ Len(q) \in Nat /\ Head(q) = q[1] /\ 1 \in 1..Len(q)
      /\ \A k \in 1..Len(Tail(q)) : Tail(q)[k] = q[k + 1] /\ k + 1 \in 1..Len(q)
  BY HeadTailProperties
<1> QED BY <1>1 DEF Settled



-----------------------------------------------------------------------------
(* What other processes do: no watch moves, no inode that is watched goes, *)
(* and no record tells of a directory that moved.                          *)
Shrinks ==
  /\ UNCHANGED nextWd
  /\ \A wd \in DOMAIN marks' : wd \in DOMAIN marks /\ marks'[wd] = marks[wd]
  /\ MarksLive'
  /\ Settled(kq')

LEMMA KernelParts ==
  ASSUME KernelInv
  PROVE  /\ KernelTypeOK /\ kq \in Seq(Events) /\ 0 \in Nat
         /\ FALSE \in BOOLEAN /\ TRUE \in BOOLEAN
         /\ \A wd \in DOMAIN marks : marks[wd] \in Inodes
         /\ {"OPEN", "MODIFY", "CLOSE_WRITE", "CREATE", "DELETE", "DELETE_SELF",
             "UNMOUNT"} \subseteq EventKinds \ Moves
         /\ loc \in [Inodes -> Seq(AllNames)]
  BY DEF KernelInv, KernelTypeOK, EventKinds, Moves

LEMMA NewInodeShrinks ==
  ASSUME KernelInv, MarksLive, NEW i \in Inodes, NEW place, place # <<>>,
         loc' = [loc EXCEPT ![i] = place], UNCHANGED <<unlinked, marks, nextWd>>,
         Settled(kq')
  PROVE  Shrinks
<1>1. \A j \in Inodes : loc'[j] = loc[j] \/ loc'[j] = place
  BY KernelParts
<1> QED BY <1>1, KernelParts DEF Shrinks, MarksLive, There, Live, Gone

LEMMA MkdirShrinks ==
  ASSUME KernelInv, MarksLive, Settled(kq), NEW p \in Dirs, NEW n \in Names, Mkdir(p, n)
  PROVE  Shrinks
<1>1. Append(loc[p], n) # <<>> /\ n \in AllNames
  BY KernelParts, NewPlaceType DEF Inodes, AllNames
<1>2. /\ UNCHANGED <<unlinked, marks, nextWd>>
      /\ \E i \in Inodes : loc' = [loc EXCEPT ![i] = Append(loc[p], n)]
      /\ kq' = PostAt(kq, loc[p], "CREATE", TRUE, 0, n)
  BY DEF Mkdir, SetQueue, Inodes
<1>3. Settled(kq')
  BY <1>1, <1>2, KernelParts, SettledPostAt DEF Moves
<1> QED BY <1>1, <1>2, <1>3, NewInodeShrinks

LEMMA CreateFileShrinks ==
  ASSUME KernelInv, MarksLive, Settled(kq), NEW w \in Writers, NEW p \in Dirs,
         NEW n \in Names, CreateFile(w, p, n)
  PROVE  Shrinks
<1>1. Append(loc[p], n) # <<>> /\ n \in AllNames
  BY KernelParts, NewPlaceType DEF Inodes, AllNames
<1>2. /\ UNCHANGED <<unlinked, marks, nextWd>>
      /\ \E i \in Inodes : loc' = [loc EXCEPT ![i] = Append(loc[p], n)]
      /\ kq' = PostAt(kq, loc[p], "CREATE", FALSE, 0, n)
  BY DEF CreateFile, SetQueue, Inodes
<1>3. Settled(kq')
  BY <1>1, <1>2, KernelParts, SettledPostAt DEF Moves
<1> QED BY <1>1, <1>2, <1>3, NewInodeShrinks

LEMMA GoneShrinks ==
  ASSUME KernelInv, MarksLive, NEW i \in Inodes, loc' = [loc EXCEPT ![i] = Gone],
         marks' = Unmarked(i), UNCHANGED <<unlinked, nextWd>>, Settled(kq')
  PROVE  Shrinks
<1>1. \A wd \in DOMAIN marks' :
        wd \in DOMAIN marks /\ marks'[wd] = marks[wd] /\ marks[wd] # i
  BY DEF Unmarked
<1>2. \A j \in Inodes : j # i => loc'[j] = loc[j]
  BY KernelParts
<1> QED BY <1>1, <1>2, KernelParts DEF Shrinks, MarksLive, There, Live, Gone

LEMMA RmdirShrinks ==
  ASSUME KernelInv, MarksLive, Settled(kq), NEW i \in Dirs, Rmdir(i)
  PROVE  Shrinks
<1> DEFINE Parent(q) == PostAt(q, Front(loc[i]), "DELETE", TRUE, 0, Last(loc[i]))
           Self(q) == PostGone(q, i, "DELETE_SELF")
<1>1. /\ Live(i) /\ marks' = Unmarked(i) /\ UNCHANGED <<unlinked, nextWd>> /\ i \in Inodes
      /\ loc' = [loc EXCEPT ![i] = Gone]
      /\ kq' = Parent(Self(kq)) \/ kq' = Self(Parent(kq))
  BY DEF Rmdir, SetQueue, Inodes
<1>2. Last(loc[i]) \in AllNames
  BY <1>1, KernelParts, LastType
<1>3. \A q \in Seq(Events) : Settled(q) =>
        Settled(Parent(q)) /\ Parent(q) \in Seq(Events)
  BY <1>2, KernelParts, SettledPostAt
<1>4. \A q \in Seq(Events) : Settled(q) => Settled(Self(q)) /\ Self(q) \in Seq(Events)
  BY KernelParts, SettledPostGone
<1> HIDE DEF Parent, Self
<1>5. Settled(kq')
  BY <1>1, <1>3, <1>4, KernelParts
<1> QED BY <1>1, <1>5, GoneShrinks

LEMMA UnmountShrinks ==
  ASSUME KernelInv, MarksLive, Settled(kq), NEW i \in Dirs, Unmount(i)
  PROVE  Shrinks
<1>1. /\ marks' = Unmarked(i) /\ UNCHANGED <<unlinked, nextWd>> /\ i \in Inodes
      /\ loc' = [loc EXCEPT ![i] = Gone] /\ kq' = PostGone(kq, i, "UNMOUNT")
  BY DEF Unmount, SetQueue, Inodes
<1>2. Settled(kq')
  BY <1>1, KernelParts, SettledPostGone
<1> QED BY <1>1, <1>2, GoneShrinks

(* A rename that is not one of a directory.                                *)
LEMMA RenameShrinks ==
  ASSUME KernelInv, MarksLive, Settled(kq), ~DirRenamed,
         NEW i \in Inodes, NEW p \in Dirs, NEW n \in Names, Rename(i, p, n)
  PROVE  Shrinks
<1> DEFINE ck == cookie + 1
           from == PostAt(kq, Front(loc[i]), "MOVED_FROM", i \in Dirs, ck, Last(loc[i]))
           to == PostAt(from, loc[p], "MOVED_TO", i \in Dirs, ck, n)
           self == PostSelf(to, i, "MOVE_SELF", i \in Dirs)
<1>1. /\ \A j \in Inodes : Live(j) => loc'[j] # <<>>
      /\ loc'[i] # loc[i] /\ Live(i) /\ UNCHANGED <<unlinked, marks, nextWd>> /\ kq' = self
  BY KernelParts, RenamePlaces DEF Rename, SetQueue
<1>2. i \notin Dirs
  BY <1>1 DEF DirRenamed, Live, Gone
<1>3. /\ Last(loc[i]) \in AllNames /\ n \in AllNames /\ ck \in Nat
      /\ (i \in Dirs) = FALSE /\ "MOVED_FROM" \in EventKinds
      /\ "MOVED_TO" \in EventKinds /\ "MOVE_SELF" \in EventKinds \ Moves
  BY <1>1, <1>2, KernelParts, LastType DEF KernelTypeOK, AllNames, EventKinds, Moves
<1>4. Settled(from) /\ from \in Seq(Events)
  BY <1>3, KernelParts, SettledPostAt
<1> HIDE DEF from
<1>5. Settled(to) /\ to \in Seq(Events)
  BY <1>3, <1>4, KernelParts, SettledPostAt
<1> HIDE DEF to
<1>6. Settled(self)
  BY <1>3, <1>5, KernelParts, SettledPostSelf
<1>7. MarksLive'
  BY <1>1, KernelParts DEF MarksLive, There, Live, Gone
<1> QED BY <1>1, <1>6, <1>7 DEF Shrinks

LEMMA ChildShrinks ==
  ASSUME KernelInv, MarksLive, Settled(kq), NEW i \in Inodes, There(i),
         NEW ev \in EventKinds \ Moves, SetQueue(PostChild(kq, i, ev)),
         UNCHANGED <<marks, nextWd, loc, unlinked>>
  PROVE  Shrinks
  BY KernelParts, SettledPostChild DEF Shrinks, MarksLive, There, Live, SetQueue

(* A file loses its name: its watch goes with it, or the file is open.     *)
LEMMA LoseNameMarks ==
  ASSUME KernelInv, MarksLive, NEW f \in Files, NEW p, LoseName(f, p),
         NEW wd \in DOMAIN marks'
  PROVE  /\ wd \in DOMAIN marks /\ marks'[wd] = marks[wd] /\ There(marks[wd])
         /\ marks[wd] = f => f \in DOMAIN unlinked'
         /\ \A g \in DOMAIN unlinked : g \in DOMAIN unlinked'
<1>1. CASE IsOpen(f)
  BY <1>1 DEF LoseName, MarksLive
<1>2. CASE ~IsOpen(f)
  BY <1>2 DEF LoseName, MarksLive, Unmarked
<1> QED BY <1>1, <1>2

LEMMA SettledDropped ==
  ASSUME KernelInv, NEW q \in Seq(Events), NEW f, Settled(q)
  PROVE  Settled(Dropped(q, f)) /\ Dropped(q, f) \in Seq(Events)
  BY KernelParts, SettledPostGone DEF Dropped

LEMMA UnlinkShrinks ==
  ASSUME KernelInv, MarksLive, Settled(kq), NEW f \in Files, NEW p \in Dirs, Unlink(f, p)
  PROVE  Shrinks
<1> DEFINE Parent(q) == PostAt(q, loc[p], "DELETE", FALSE, 0, Last(loc[f]))
           a == PostSelf(kq, f, "OPEN", FALSE)
<1>1. /\ Live(f) /\ LoseName(f, p) /\ UNCHANGED nextWd /\ f \in Inodes
      /\ loc' = [loc EXCEPT ![f] = Gone]
      /\ kq' = Parent(Dropped(a, f)) \/ kq' = Dropped(Parent(a), f)
  BY DEF Unlink, LoseName, SetQueue, Inodes
<1>2. Last(loc[f]) \in AllNames
  BY <1>1, KernelParts, LastType
<1>3. \A q \in Seq(Events) : Settled(q) =>
        Settled(Parent(q)) /\ Parent(q) \in Seq(Events)
  BY <1>2, KernelParts, SettledPostAt
<1>4. \A q \in Seq(Events) : Settled(q) =>
        Settled(Dropped(q, f)) /\ Dropped(q, f) \in Seq(Events)
  BY SettledDropped
<1>5. Settled(a) /\ a \in Seq(Events)
  BY KernelParts, SettledPostSelf
<1> HIDE DEF Parent, a
<1>6. Settled(kq')
  BY <1>1, <1>3, <1>4, <1>5
<1>7. MarksLive'
  BY <1>1, KernelParts, LoseNameMarks DEF MarksLive, There, Live
<1> QED BY <1>1, <1>6, <1>7, LoseNameMarks DEF Shrinks

LEMMA ReplaceShrinks ==
  ASSUME KernelInv, MarksLive, Settled(kq), NEW f \in Files, NEW g \in Files,
         NEW p \in Dirs, Replace(f, g, p)
  PROVE  Shrinks
<1> DEFINE ck == cookie + 1
           from == PostAt(kq, Front(loc[f]), "MOVED_FROM", FALSE, ck, Last(loc[f]))
           to == PostAt(from, loc[p], "MOVED_TO", FALSE, ck, Last(loc[g]))
           attrib == PostSelf(to, g, "OPEN", FALSE)
           self == PostSelf(attrib, f, "MOVE_SELF", FALSE)
<1>1. /\ Live(f) /\ Live(g) /\ LoseName(g, p) /\ UNCHANGED nextWd /\ f # g
      /\ loc' = [loc EXCEPT ![f] = loc[g], ![g] = Gone]
      /\ kq' = Dropped(self, g) /\ f \in Inodes /\ g \in Inodes
  BY DEF Replace, LoseName, SetQueue, Inodes
<1>2. /\ Last(loc[f]) \in AllNames /\ Last(loc[g]) \in AllNames /\ ck \in Nat
      /\ {"MOVED_FROM", "MOVED_TO"} \subseteq EventKinds
      /\ {"MOVE_SELF", "OPEN"} \subseteq EventKinds \ Moves
  BY <1>1, KernelParts, LastType DEF KernelTypeOK, EventKinds, Moves
<1>3. Settled(from) /\ from \in Seq(Events)
  BY <1>2, KernelParts, SettledPostAt
<1> HIDE DEF from
<1>4. Settled(to) /\ to \in Seq(Events)
  BY <1>2, <1>3, KernelParts, SettledPostAt
<1> HIDE DEF to
<1>5. Settled(attrib) /\ attrib \in Seq(Events)
  BY <1>2, <1>4, KernelParts, SettledPostSelf
<1> HIDE DEF attrib
<1>6. Settled(self) /\ self \in Seq(Events)
  BY <1>2, <1>5, KernelParts, SettledPostSelf
<1> HIDE DEF self
<1>7. Settled(kq')
  BY <1>1, <1>6, SettledDropped
<1>8. MarksLive'
  <2>1. \A j \in Inodes : j # g /\ Live(j) => loc'[j] # Gone
    BY <1>1, KernelParts DEF Live
  <2> QED BY <1>1, <2>1, KernelParts, LoseNameMarks DEF MarksLive, There, Live
<1> QED BY <1>1, <1>7, <1>8, LoseNameMarks DEF Shrinks

LEMMA CloseUnlinkedShrinks ==
  ASSUME KernelInv, MarksLive, Settled(kq), NEW w \in Writers, CloseUnlinked(w)
  PROVE  Shrinks
<1> DEFINE f == writing[w]
           q == PostChild(kq, f, "CLOSE_WRITE")
<1>1. /\ f \in Inodes /\ There(f) /\ UNCHANGED <<loc, nextWd>>
      /\ kq' = PostGone(q, f, "DELETE_SELF") /\ marks' = Unmarked(f)
      /\ unlinked' = [g \in DOMAIN unlinked \ {f} |-> unlinked[g]]
  BY DEF KernelInv, KernelTypeOK, CloseUnlinked, LastClose, SetQueue, There, Inodes
<1> HIDE DEF f
<1>2. Settled(q) /\ q \in Seq(Events)
  BY <1>1, KernelParts, SettledPostChild
<1> HIDE DEF q
<1>3. Settled(kq')
  BY <1>1, <1>2, KernelParts, SettledPostGone
<1>4. \A wd \in DOMAIN marks' :
        wd \in DOMAIN marks /\ marks'[wd] = marks[wd] /\ marks[wd] # f
  BY <1>1 DEF Unmarked
<1>5. MarksLive'
  BY <1>1, <1>4 DEF MarksLive, There, Live
<1> QED BY <1>1, <1>3, <1>4, <1>5 DEF Shrinks

LEMMA OthersShrink ==
  ASSUME KernelInv, MarksLive, Settled(kq), ~DirRenamed, OtherProcesses
  PROVE  Shrinks
<1>1. ASSUME NEW i \in Dirs, ListDir(i) PROVE Shrinks
  BY <1>1, KernelParts, ChildShrinks DEF ListDir, There, Inodes
<1>2. ASSUME NEW w \in Writers, NEW f \in Files, OpenFile(w, f) PROVE Shrinks
  BY <1>2, KernelParts, ChildShrinks DEF OpenFile, There, Inodes
<1>3. ASSUME NEW w \in Writers, WriteFile(w) PROVE Shrinks
  <2>1. writing[w] \in Inodes /\ There(writing[w])
    BY <1>3 DEF KernelInv, KernelTypeOK, WritingLive, WriteFile, Inodes
  <2> QED BY <1>3, <2>1, KernelParts, ChildShrinks DEF WriteFile, Modify
<1>4. ASSUME NEW w \in Writers, CloseFile(w) PROVE Shrinks
  <2>1. writing[w] \in Inodes /\ There(writing[w])
    BY <1>4 DEF KernelInv, KernelTypeOK, WritingLive, CloseFile, Inodes
  <2> QED BY <1>4, <2>1, KernelParts, ChildShrinks DEF CloseFile
<1>5. ASSUME NEW f \in Files, Truncate(f) PROVE Shrinks
  BY <1>5, KernelParts, ChildShrinks DEF Truncate, Modify, There, Inodes
<1> QED
  BY <1>1, <1>2, <1>3, <1>4, <1>5, MkdirShrinks, RmdirShrinks, UnmountShrinks,
     RenameShrinks, CreateFileShrinks, CloseUnlinkedShrinks, UnlinkShrinks, ReplaceShrinks
     DEF OtherProcesses


-----------------------------------------------------------------------------
(* The system calls of the tool.                                           *)
LEMMA RmWatchShrinks ==
  ASSUME KernelInv, MarksLive, Settled(kq), NEW wd, RmWatch(wd), UNCHANGED <<loc, unlinked>>
  PROVE  Shrinks
<1>1. /\ \A v \in DOMAIN marks' : v \in DOMAIN marks /\ marks'[v] = marks[v]
      /\ UNCHANGED nextWd
      /\ kq' = IF wd \in DOMAIN marks THEN Enqueue(kq, Ignored(wd)) ELSE kq
  BY DEF RmWatch, SetQueue, Ignored
<1>2. ASSUME wd \in DOMAIN marks PROVE Settled(Enqueue(kq, Ignored(wd)))
  <2>1. wd \in Int /\ "IGNORED" \in EventKinds /\ <<>> \in AllNames \cup {<<>>}
    BY <1>2, KernelParts DEF KernelTypeOK, EventKinds
  <2>2. Ignored(wd) \in Events
    BY <2>1, KernelParts, EventType DEF Ignored
  <2>3. Ignored(wd).ev = "IGNORED"
    BY DEF Ignored, Event
  <2> QED BY <2>2, <2>3, KernelParts, SettledEnqueue DEF Moves
<1>3. MarksLive'
  BY <1>1 DEF MarksLive, There, Live
<1> QED BY <1>1, <1>2, <1>3 DEF Shrinks

LEMMA OpendirShrinks ==
  ASSUME KernelInv, MarksLive, Settled(kq), NEW path, CanOpen(path), Opendir(path),
         UNCHANGED <<loc, unlinked>>
  PROVE  Shrinks
<1>1. Target(path) \in Inodes /\ There(Target(path))
  BY DEF CanOpen, Target, At, There
<1> QED BY <1>1, KernelParts, ChildShrinks DEF Opendir

(* What is placed stays placed.                                            *)
Keeps ==
  /\ nextWd <= nextWd'
  /\ \A wd \in Nat : \A path : wd < nextWd /\ Placed(wd, path) => Placed(wd, path)'

LEMMA ShrinkKeeps ==
  ASSUME KernelInv, KernelInv', MarksLive, ~DirRenamed, Shrinks
  PROVE  Keeps
<1>1. nextWd \in Nat
  BY DEF KernelInv, KernelTypeOK
<1>2. ASSUME NEW wd, NEW path, Placed(wd, path), wd \in DOMAIN marks'
      PROVE  marks'[wd] \in Dirs /\ path = Append(PathString(loc'[marks'[wd]]), "/")
  <2>1. /\ wd \in DOMAIN marks /\ marks'[wd] = marks[wd]
        /\ marks[wd] \in Dirs /\ path = DirString(marks[wd])
    BY <1>2 DEF Shrinks, Placed
  <2>2. Live(marks[wd]) /\ loc'[marks'[wd]] # Gone
    <3>1. marks[wd] \notin DOMAIN unlinked /\ marks[wd] \notin DOMAIN unlinked'
      BY <2>1, InodesAssumption DEF KernelInv, KernelTypeOK
    <3> QED BY <1>2, <2>1, <3>1 DEF MarksLive, Shrinks, There, Live
  <2>3. loc'[marks[wd]] = loc[marks[wd]]
    BY <2>1, <2>2 DEF DirRenamed
  <2> QED BY <2>1, <2>3 DEF DirString
<1> QED BY <1>1, <1>2 DEF Shrinks, Keeps, Placed, DirString

LEMMA StillKeeps ==
  ASSUME KernelInv, MarksLive, UNCHANGED <<loc, unlinked, marks, nextWd>>
  PROVE  Keeps /\ MarksLive'
<1>1. nextWd \in Nat
  BY DEF KernelInv, KernelTypeOK
<1> QED BY <1>1 DEF Keeps, Placed, DirString, MarksLive, There, Live

LEMMA AddWatchPlaces ==
  ASSUME KernelInv, MarksLive, NEW path, CanWatch(path), AddWatch(path), UNCHANGED <<loc, unlinked>>
  PROVE  /\ Keeps /\ MarksLive' /\ UNCHANGED kq
         /\ AddedWd(path) \in Nat /\ AddedWd(path) < nextWd'
         /\ marks'[AddedWd(path)] = Target(path)
         /\ Target(path) \in At(path)
<1> DEFINE v == AddedWd(path)
<1>1. /\ marks' = [wd \in DOMAIN marks \cup {v} |->
                     IF wd = v THEN Target(path) ELSE marks[wd]]
      /\ nextWd' = IF v = nextWd THEN nextWd + 1 ELSE nextWd
      /\ UNCHANGED kq
  BY DEF AddWatch
<1>2. Target(path) \in At(path) /\ Live(Target(path))
  BY DEF CanWatch, Target, At
<1>3. v = nextWd \/ (v \in DOMAIN marks /\ marks[v] = Target(path))
  BY DEF AddedWd, Marked
<1>4. nextWd \in Nat /\ \A wd \in DOMAIN marks : wd \in Nat /\ wd < nextWd
  BY DEF KernelInv, KernelTypeOK
<1> HIDE DEF v
<1>5. v \in Nat /\ v < nextWd' /\ nextWd <= nextWd'
  BY <1>1, <1>3, <1>4
<1>6. ASSUME NEW wd \in Nat, wd < nextWd, wd \in DOMAIN marks'
      PROVE  wd \in DOMAIN marks /\ marks'[wd] = marks[wd]
  BY <1>1, <1>3, <1>4, <1>6
<1>7. Keeps
  BY <1>5, <1>6 DEF Keeps, Placed, DirString
<1>8. MarksLive'
  BY <1>1, <1>2 DEF MarksLive, There, Live
<1> QED BY <1>1, <1>2, <1>5, <1>7, <1>8 DEF v

(* The map and infoList after a step that makes the entries e says.        *)
LEMMA MapKeeps ==
  ASSUME IndInv, IndInv', MapOK, Keeps,
         \A wd \in DOMAIN wmap' :
           (wd \in DOMAIN wmap /\ wmap'[wd] = wmap[wd]) \/ EntryOK(wd)',
         \A k \in DOMAIN found' :
           (\E j \in DOMAIN found : found'[k] = found[j]) \/ FoundOK(found[k])'
  PROVE  MapOK'
<1>1. /\ nextWd \in Nat
      /\ nextWd' \in Nat
      /\ DOMAIN wmap \subseteq Nat
      /\ \A k \in DOMAIN found : found[k].wd \in Nat
  <2>1. InfoListOK(found)
    BY DEF IndInv, TypeOK, ToolTypeOK
  <2>2. ASSUME NEW k \in DOMAIN found PROVE found[k].wd \in Nat
    <3> DEFINE T == [wd : Nat, path : {found[j].path : j \in DOMAIN found}]
    <3>1. found \in Seq(T)
      BY <2>1 DEF InfoListOK
    <3> HIDE DEF T
    <3>2. Len(found) \in Nat /\ DOMAIN found = 1..Len(found)
      BY <3>1, LenProperties
    <3>3. found[k] \in T
      BY <3>1, <3>2, ElementOfSeq
    <3> QED BY <3>3 DEF T
  <2>3. nextWd \in Nat
    BY DEF IndInv, TypeOK, KernelTypeOK
  <2>4. nextWd' \in Nat
    BY DEF IndInv, TypeOK, KernelTypeOK
  <2>5. DOMAIN wmap \subseteq Nat
    BY DEF IndInv, TypeOK, ToolTypeOK
  <2> QED BY <2>2, <2>3, <2>4, <2>5
<1>2. ASSUME NEW wd \in DOMAIN wmap', wd \in DOMAIN wmap, wmap'[wd] = wmap[wd]
      PROVE  EntryOK(wd)'
  <2>1. wd \in Nat /\ wd < nextWd /\ wd < nextWd' /\ wmap[wd].path \in Paths
        /\ (wmap[wd].rec => Placed(wd, wmap[wd].path))
    BY <1>1, <1>2 DEF MapOK, EntryOK, Keeps
  <2>2. ASSUME NEW path, Placed(wd, path) PROVE Placed(wd, path)'
    BY <2>1, <2>2 DEF Keeps
  <2> QED BY <1>2, <2>1, <2>2 DEF EntryOK, Placed
<1>3. ASSUME NEW k \in DOMAIN found', NEW j \in DOMAIN found, found'[k] = found[j]
      PROVE  FoundOK(found[k])'
  <2>1. found[j].wd \in Nat /\ found[j].wd < nextWd /\ found[j].wd < nextWd'
        /\ found[j].path \in Paths /\ Placed(found[j].wd, found[j].path)
    BY <1>1 DEF MapOK, FoundOK, Keeps
  <2>2. ASSUME NEW wd \in Nat, NEW path, wd < nextWd, Placed(wd, path)
        PROVE Placed(wd, path)'
    BY <2>2 DEF Keeps
  <2> QED BY <1>3, <2>1, <2>2 DEF FoundOK, Placed
<1> QED BY <1>2, <1>3 DEF MapOK

LEMMA TypedNext == ASSUME IndInv' PROVE KernelInv'
  BY DEF IndInv, TypeOK, KernelInv

LEMMA Typed ==
  ASSUME IndInv
  PROVE  /\ KernelInv /\ ControlOK /\ buf \in Seq(Events) /\ kq \in Seq(Events)
         /\ InfoListOK(found) /\ OpenDirsOK(stack)
         /\ caller \in {"idle", "created", "moved_in"}
  BY DEF IndInv, TypeOK, ToolTypeOK, KernelTypeOK, KernelInv

(* The records of a step that moves no directory, and takes at most the    *)
(* record at the head of the buffer off it.                                *)
LEMMA MovesKeep ==
  ASSUME IndInv, MovesOK, Settled(kq'),
         UNCHANGED buf \/ (buf # <<>> /\ buf' = Tail(buf)),
         UNCHANGED move \/ move' = NoMove, pc' # "rename"
  PROVE  MovesOK'
<1>1. Settled(buf')
  BY Typed, SettledTail DEF MovesOK
<1>2. ~move'.dir
  BY DEF MovesOK, NoMove
<1> QED BY <1>1, <1>2 DEF MovesOK, Settled

LEMMA TreeKeeps ==
  ASSUME IndInv, IndInv', TreeInv, Keeps, MarksLive', Settled(kq'),
         \A wd \in DOMAIN wmap' :
           (wd \in DOMAIN wmap /\ wmap'[wd] = wmap[wd]) \/ EntryOK(wd)',
         \A k \in DOMAIN found' :
           (\E j \in DOMAIN found : found'[k] = found[j]) \/ FoundOK(found[k])',
         WalkOK',
         UNCHANGED buf \/ (buf # <<>> /\ buf' = Tail(buf)),
         UNCHANGED move \/ move' = NoMove, pc' # "rename"
  PROVE  TreeInv'
<1>1. MapOK'
  BY MapKeeps DEF TreeInv
<1>2. MovesOK'
  BY MovesKeep DEF TreeInv
<1> QED BY <1>1, <1>2 DEF TreeInv

(* A step that changes neither what is watched nor what is mapped.         *)
LEMMA AloneKeeps ==
  ASSUME IndInv, IndInv', TreeInv, UNCHANGED <<fsVars, kernelVars, wmap>>,
         UNCHANGED found \/ found' = <<>>, WalkOK',
         UNCHANGED buf \/ (buf # <<>> /\ buf' = Tail(buf)),
         UNCHANGED move \/ move' = NoMove, pc' # "rename"
  PROVE  TreeInv'
<1>1. UNCHANGED <<loc, unlinked, marks, nextWd, kq, wmap>>
  BY DEF fsVars, kernelVars
<1>2. Keeps /\ MarksLive'
  BY <1>1, Typed, StillKeeps DEF TreeInv
<1>3. Settled(kq')
  BY <1>1 DEF TreeInv, MovesOK
<1>4. \A wd \in DOMAIN wmap' : wd \in DOMAIN wmap /\ wmap'[wd] = wmap[wd]
  BY <1>1
<1>5. \A k \in DOMAIN found' : \E j \in DOMAIN found : found'[k] = found[j]
  OBVIOUS
<1> QED BY <1>2, <1>3, <1>4, <1>5, TreeKeeps

(* A watch ends, with the entry of its descriptor.                         *)
LEMMA EndKeeps ==
  ASSUME IndInv, IndInv', TreeInv, NEW wd, RmWatch(wd), UNCHANGED envVars,
         UNCHANGED wmap \/ \E S : wmap' = Without(S),
         UNCHANGED <<enter, todo, stack, found, move>>,
         UNCHANGED buf \/ (buf # <<>> /\ buf' = Tail(buf)), pc' # "rename"
  PROVE  TreeInv'
<1>1. UNCHANGED <<loc, unlinked>>
  BY DEF envVars, fsVars
<1>2. ~DirRenamed
  BY <1>1 DEF DirRenamed
<1>3. KernelInv /\ MarksLive /\ Settled(kq)
  BY Typed DEF TreeInv, MovesOK
<1>4. Shrinks
  BY <1>1, <1>3, RmWatchShrinks
<1>5. Keeps /\ MarksLive' /\ Settled(kq')
  BY <1>2, <1>3, <1>4, TypedNext, ShrinkKeeps DEF Shrinks
<1>6. \A v \in DOMAIN wmap' : v \in DOMAIN wmap /\ wmap'[v] = wmap[v]
  BY DEF Without
<1>7. \A k \in DOMAIN found' : \E j \in DOMAIN found : found'[k] = found[j]
  OBVIOUS
<1>8. WalkOK'
  BY DEF TreeInv, WalkOK
<1> QED BY <1>5, <1>6, <1>7, <1>8, TreeKeeps

LEMMA InsertEntries ==
  ASSUME NEW wd, NEW path, NEW rec, Insert(wd, path, rec)
  PROVE  \A v \in DOMAIN wmap' :
           \/ v \in DOMAIN wmap /\ wmap'[v] = wmap[v]
           \/ v = wd /\ wmap'[v] = [path |-> path, rec |-> rec]
  BY DEF Insert, Put


-----------------------------------------------------------------------------
(* The calls.                                                              *)
LEMMA NoPath == <<>> \in Paths /\ <<>> \in Seq(Paths)
<1>1. <<>> \in Seq(Token)
  OBVIOUS
<1>2. <<>> \in Seq(Paths)
  <2> HIDE DEF Paths
  <2> QED OBVIOUS
<1> QED BY <1>1, <1>2 DEF Paths

LEMMA ArgsArePaths == FilesArgs \cup RecursiveArgs \subseteq Seq(Paths)
<1>1. Seq(STRING) \subseteq Paths
  BY SeqMonotonic DEF Token, Paths
<1>2. Seq(Seq(STRING)) \subseteq Seq(Paths)
  BY <1>1, SeqMonotonic
<1> QED BY <1>2, ArgsAssumption

LEMMA NewInstanceTree ==
  ASSUME IndInv, TreeInv, NewInstance, DOMAIN wmap' = {}, pc = "idle",
         UNCHANGED <<fsVars, buf, ctlVars, localVars>>
  PROVE  TreeInv'
<1>1. /\ UNCHANGED <<buf, pc, enter, todo, stack, found, move>>
      /\ marks' = NoWatches /\ kq' = <<>>
  BY DEF NewInstance, ctlVars, localVars, apiVars, scanVars, parseVars
<1>2. found = <<>>
  BY DEF IndInv, ControlOK
<1>3. MarksLive' /\ MapOK'
  BY <1>1, <1>2 DEF MarksLive, MapOK, NoWatches
<1>4. Settled(buf') /\ Settled(kq')
  BY <1>1 DEF TreeInv, MovesOK, Settled
<1>5. MovesOK'
  BY <1>1, <1>4 DEF TreeInv, MovesOK
<1>6. WalkOK'
  BY <1>1 DEF TreeInv, WalkOK
<1> QED BY <1>3, <1>5, <1>6 DEF TreeInv

LEMMA createInotifyTree ==
  ASSUME IndInv, IndInv', TreeInv, createInotify
  PROVE  TreeInv'
<1>1. pc = "idle" /\ UNCHANGED <<fsVars, buf, wmap, ctlVars, localVars>>
  BY DEF createInotify
<1>2. /\ UNCHANGED <<pc, enter, todo, stack, found, move>>
  BY <1>1 DEF ctlVars, localVars, apiVars, scanVars, parseVars
<1>3. CASE ~fd /\ NewInstance
  <2>1. DOMAIN wmap' = {}
    BY <1>1, <1>3 DEF IndInv, ControlOK
  <2> QED BY <1>1, <1>3, <2>1, NewInstanceTree
<1>4. CASE UNCHANGED kernelVars
  <2>1. WalkOK'
    BY <1>2 DEF TreeInv, WalkOK
  <2>2. pc' # "rename"
    BY <1>1, <1>2
  <2> QED BY <1>1, <1>2, <1>4, <2>1, <2>2, AloneKeeps
<1> QED BY <1>3, <1>4 DEF createInotify

LEMMA destroyInotifyTree ==
  ASSUME IndInv, IndInv', TreeInv, destroyInotify
  PROVE  TreeInv'
<1>1. /\ pc = "idle" /\ NewInstance /\ wmap' = Without(DOMAIN wmap)
      /\ UNCHANGED <<fsVars, buf, ctlVars, localVars>>
  BY DEF destroyInotify
<1>2. DOMAIN wmap' = {}
  BY <1>1 DEF Without
<1> QED BY <1>1, <1>2, NewInstanceTree

LEMMA WatchCallTree ==
  ASSUME IndInv, IndInv', TreeInv, NEW paths \in FilesArgs \cup RecursiveArgs,
         NEW ev, NEW ok, NEW stage \in {"files", "roots"},
         WatchCall(paths, ev, ok, stage)
  PROVE  TreeInv'
<1>1. /\ UNCHANGED <<fsVars, kernelVars, wmap, buf, scanVars, parseVars>>
      /\ todo' = paths \/ UNCHANGED todo
      /\ pc' \in {stage, pc} /\ pc = "idle"
  BY DEF WatchCall, envVars
<1>2. UNCHANGED <<enter, stack, found, move>> /\ pc' # "rename"
  BY <1>1 DEF scanVars, parseVars
<1>3. WalkOK'
  BY <1>1, <1>2, ArgsArePaths DEF TreeInv, WalkOK
<1> QED BY <1>1, <1>2, <1>3, AloneKeeps

LEMMA CallsTree ==
  ASSUME IndInv, IndInv', TreeInv, Calls
  PROVE  TreeInv'
<1>1. ASSUME NEW paths \in FilesArgs, NEW ev \in Masks, watchFiles(paths, ev)
      PROVE  TreeInv'
  BY <1>1, WatchCallTree DEF watchFiles
<1>2. ASSUME NEW paths \in RecursiveArgs, NEW ev \in Masks, watchRecursive(paths, ev)
      PROVE  TreeInv'
  BY <1>2, WatchCallTree DEF watchRecursive
<1>3. ASSUME NEW timed \in BOOLEAN, waitCompleteEvent(timed)
      PROVE  TreeInv'
  <2>1. /\ UNCHANGED <<fsVars, kernelVars, wmap, buf, todo, enter, stack, found, move>>
        /\ pc' # "rename"
    BY <1>3 DEF waitCompleteEvent, worldVars, envVars, scanVars, parseVars
  <2>2. WalkOK'
    BY <2>1 DEF TreeInv, WalkOK
  <2> QED BY <2>1, <2>2, AloneKeeps
<1>4. ASSUME getEventItem PROVE TreeInv'
  <2>1. /\ UNCHANGED <<fsVars, kernelVars, wmap, buf, todo, enter, stack, found, move>>
        /\ pc' # "rename"
    BY <1>4 DEF getEventItem, worldVars, envVars, ctlVars, localVars, apiVars,
                scanVars, parseVars
  <2>2. WalkOK'
    BY <2>1 DEF TreeInv, WalkOK
  <2> QED BY <2>1, <2>2, AloneKeeps
<1> QED
  BY <1>1, <1>2, <1>3, <1>4, createInotifyTree, destroyInotifyTree DEF Calls

-----------------------------------------------------------------------------
(* The steps of the watch calls.                                           *)
LEMMA TodoHead ==
  ASSUME TreeInv, todo # <<>>
  PROVE  Head(todo) \in Paths /\ Tail(todo) \in Seq(Paths)
<1>1. todo \in Seq(Paths)
  BY DEF TreeInv, WalkOK
<1> HIDE DEF Paths
<1> QED BY <1>1, HeadTailProperties

LEMMA FilesAddTree ==
  ASSUME IndInv, IndInv', TreeInv, FilesAdd
  PROVE  TreeInv'
<1> DEFINE path == Head(todo)
           v == AddedWd(path)
<1>1. /\ todo # <<>> /\ CanWatch(path) /\ AddWatch(path)
      /\ Insert(v, path, FALSE) /\ todo' = Tail(todo) /\ pc = "files"
      /\ UNCHANGED <<loc, unlinked, buf, pc, enter, stack, found, move>>
  BY DEF FilesAdd, envVars, fsVars, ctlVars, scanVars, parseVars
<1>2. path \in Paths /\ Tail(todo) \in Seq(Paths)
  BY <1>1, TodoHead
<1> HIDE DEF path
<1>3. Keeps /\ MarksLive' /\ UNCHANGED kq /\ v < nextWd'
  BY <1>1, Typed, AddWatchPlaces DEF TreeInv
<1> HIDE DEF v
<1>4. \A wd \in DOMAIN wmap' :
        \/ wd \in DOMAIN wmap /\ wmap'[wd] = wmap[wd]
        \/ wd = v /\ wmap'[wd] = [path |-> path, rec |-> FALSE]
  BY <1>1, InsertEntries
<1>5. \A wd \in DOMAIN wmap' :
        (wd \in DOMAIN wmap /\ wmap'[wd] = wmap[wd]) \/ EntryOK(wd)'
  BY <1>2, <1>3, <1>4 DEF EntryOK
<1>6. WalkOK' /\ Settled(kq')
  BY <1>1, <1>2, <1>3 DEF TreeInv, WalkOK, MovesOK, Settled
<1>7. \A k \in DOMAIN found' : \E j \in DOMAIN found : found'[k] = found[j]
  BY <1>1
<1>8. pc' # "rename" /\ UNCHANGED <<buf, move>>
  BY <1>1
<1> QED BY <1>3, <1>5, <1>6, <1>7, <1>8, TreeKeeps

LEMMA RollbackTree ==
  ASSUME IndInv, IndInv', TreeInv, Rollback
  PROVE  TreeInv'
<1>1. /\ RmWatch(Head(made)) /\ wmap' = Without({Head(made)}) /\ pc = "rollback"
      /\ UNCHANGED <<envVars, buf, pc, enter, todo, stack, found, move>>
  BY DEF Rollback, ctlVars, scanVars, parseVars
<1>2. pc' # "rename"
  BY <1>1
<1> QED BY <1>1, <1>2, EndKeeps

(* The steps that change neither watches nor entries.                      *)
LEMMA ScanFailsTree ==
  ASSUME IndInv, IndInv', TreeInv, NEW open, ScanFails(open)
  PROVE  TreeInv'
<1>1. /\ UNCHANGED <<fsVars, kernelVars, wmap, buf, move>>
      /\ found' = <<>> /\ enter' = <<>> /\ todo' = <<>> /\ stack' = <<>>
      /\ pc' = caller
  BY DEF ScanFails, worldVars, envVars, parseVars, Return
<1>2. WalkOK'
  BY <1>1, NoPath DEF WalkOK
<1>3. pc' # "rename"
  BY <1>1, Typed
<1> QED BY <1>1, <1>2, <1>3, AloneKeeps

LEMMA QuietWalkTree ==
  ASSUME IndInv, IndInv', TreeInv,
         FilesFail \/ FilesDone \/ RollbackDone \/ NextRoot \/ RootsDone \/ InsertDone
  PROVE  TreeInv'
<1>1. /\ UNCHANGED <<fsVars, kernelVars, wmap, buf, move, stack, found>>
      /\ \/ todo' = <<>> /\ UNCHANGED enter
         \/ todo # <<>> /\ todo' = Tail(todo) /\ enter' = Head(todo)
         \/ UNCHANGED <<enter, todo>>
      /\ pc' \in {"rollback", caller, "add", "roots"}
  BY DEF FilesFail, FilesDone, RollbackDone, NextRoot, RootsDone, InsertDone,
         worldVars, envVars, localVars, apiVars, scanVars, parseVars, Return
<1>2. WalkOK'
  BY <1>1, NoPath, TodoHead DEF TreeInv, WalkOK
<1>3. pc' # "rename"
  BY <1>1, Typed
<1> QED BY <1>1, <1>2, <1>3, AloneKeeps

(* The elements of a longer and of a shorter sequence.                     *)
LEMMA AppendElements ==
  ASSUME NEW S, NEW s \in Seq(S), NEW e
  PROVE  \A k \in DOMAIN Append(s, e) :
           (k \in DOMAIN s /\ Append(s, e)[k] = s[k]) \/ Append(s, e)[k] = e
<1>1. s \in Seq(S \cup {e}) /\ e \in S \cup {e}
  BY SeqMonotonic
<1>2. /\ Len(s) \in Nat /\ DOMAIN s = 1..Len(s)
      /\ DOMAIN Append(s, e) = 1..(Len(s) + 1)
      /\ Append(s, e)[Len(s) + 1] = e
      /\ \A k \in 1..Len(s) : Append(s, e)[k] = s[k]
  BY <1>1, AppendProperties
<1>3. \A k \in 1..(Len(s) + 1) : k \in 1..Len(s) \/ k = Len(s) + 1
  BY <1>2
<1> QED BY <1>2, <1>3

LEMMA FrontElements ==
  ASSUME NEW S, NEW s \in Seq(S), s # <<>>
  PROVE  \A k \in DOMAIN Front(s) : k \in DOMAIN s /\ Front(s)[k] = s[k]
<1>1. /\ Len(s) \in Nat \ {0} /\ DOMAIN s = 1..Len(s)
  BY EmptySeq
<1>2. /\ Front(s) \in Seq(S) /\ Len(Front(s)) = Len(s) - 1
      /\ \A k \in 1..(Len(s) - 1) : Front(s)[k] = s[k]
  BY FrontProperties
<1>3. DOMAIN Front(s) = 1..(Len(s) - 1)
  BY <1>2
<1>4. \A k \in 1..(Len(s) - 1) : k \in 1..Len(s)
  BY <1>1
<1> QED BY <1>1, <1>2, <1>3, <1>4

LEMMA TailElements ==
  ASSUME NEW S, NEW s \in Seq(S), s # <<>>
  PROVE  /\ \A k \in DOMAIN Tail(s) : k + 1 \in DOMAIN s /\ Tail(s)[k] = s[k + 1]
         /\ 1 \in DOMAIN s /\ Head(s) = s[1]
<1>1. /\ Len(s) \in Nat \ {0} /\ DOMAIN s = 1..Len(s)
  BY EmptySeq
<1>2. /\ Tail(s) \in Seq(S) /\ Len(Tail(s)) = Len(s) - 1 /\ Head(s) = s[1]
      /\ \A k \in 1..Len(Tail(s)) : Tail(s)[k] = s[k + 1]
  BY HeadTailProperties
<1>3. DOMAIN Tail(s) = 1..(Len(s) - 1)
  BY <1>2
<1>4. \A k \in 1..(Len(s) - 1) : k + 1 \in 1..Len(s)
  BY <1>1
<1> QED BY <1>1, <1>2, <1>3, <1>4

LEMMA FoundIsSeq == ASSUME IndInv PROVE \E S : found \in Seq(S)
  BY Typed DEF InfoListOK
LEMMA StackIsSeq == ASSUME IndInv PROVE \E S : stack \in Seq(S)
  BY Typed DEF OpenDirsOK

LEMMA ScanAddTree ==
  ASSUME IndInv, IndInv', TreeInv, ScanAdd
  PROVE  TreeInv'
<1>0. PICK path, v, d, e :
        /\ path = CorrectionPath(enter) /\ v = AddedWd(path) /\ d = Target(path)
        /\ e = [wd |-> v, path |-> path]
  OBVIOUS
<1>1. /\ CanWatch(path) /\ AddWatch(path)
      /\ found' = Append(found, e) /\ enter' = path /\ pc' = "opendir"
      /\ UNCHANGED <<loc, unlinked, buf, wmap, todo, stack, move>>
  BY <1>0 DEF ScanAdd, envVars, fsVars, apiVars, parseVars
<1>2. /\ Keeps /\ MarksLive' /\ UNCHANGED kq /\ v \in Nat /\ v < nextWd'
      /\ marks'[v] = d /\ d \in At(path)
  BY <1>0, <1>1, Typed, AddWatchPlaces DEF TreeInv
<1>3. /\ d \in Dirs /\ path = DirString(d) /\ path \in Paths
  <2>1. enter \in Paths /\ KernelTypeOK
    BY Typed DEF TreeInv, WalkOK, KernelInv
  <2> QED BY <1>0, <1>2, <2>1, CorrectedNamesDir
<1>4. e.wd = v /\ e.path = path
  BY <1>0
<1>5. path = Append(PathString(loc'[d]), "/")
  BY <1>1, <1>3 DEF DirString
<1>6. FoundOK(e)'
  BY <1>2, <1>3, <1>4, <1>5 DEF FoundOK, Placed, DirString
<1>7. \A k \in DOMAIN found' :
        (\E j \in DOMAIN found : found'[k] = found[j]) \/ found'[k] = e
  BY <1>1, FoundIsSeq, AppendElements
<1>8. \A k \in DOMAIN found' :
        (\E j \in DOMAIN found : found'[k] = found[j]) \/ FoundOK(found[k])'
  BY <1>6, <1>7 DEF FoundOK, Placed
<1>9. WalkOK' /\ Settled(kq')
  BY <1>1, <1>2, <1>3 DEF TreeInv, WalkOK, MovesOK, Settled
<1>10. \A wd \in DOMAIN wmap' : wd \in DOMAIN wmap /\ wmap'[wd] = wmap[wd]
  BY <1>1
<1>11. pc' # "rename" /\ UNCHANGED <<buf, move>>
  BY <1>1
<1> QED BY <1>2, <1>8, <1>9, <1>10, <1>11, TreeKeeps

LEMMA ScanOpenTree ==
  ASSUME IndInv, IndInv', TreeInv, ScanOpen
  PROVE  TreeInv'
<1> DEFINE e == [path |-> enter, left |-> Listing(enter)]
<1>1. /\ CanOpen(enter) /\ Opendir(enter) /\ enter' = <<>> /\ pc' = "readdir"
      /\ stack' = Append(stack, e)
      /\ UNCHANGED <<loc, unlinked, buf, wmap, todo, found, move>>
  BY DEF ScanOpen, envVars, fsVars, apiVars, parseVars
<1>2. KernelInv /\ MarksLive /\ Settled(kq)
  BY Typed DEF TreeInv, MovesOK
<1>3. Shrinks /\ ~DirRenamed
  BY <1>1, <1>2, OpendirShrinks DEF DirRenamed
<1>4. Keeps /\ MarksLive' /\ Settled(kq')
  BY <1>2, <1>3, TypedNext, ShrinkKeeps DEF Shrinks
<1>5. \A k \in DOMAIN stack' :
        (k \in DOMAIN stack /\ stack'[k] = stack[k]) \/ stack'[k] = e
  BY <1>1, StackIsSeq, AppendElements
<1>6. WalkOK'
  BY <1>1, <1>5, NoPath DEF TreeInv, WalkOK
<1>7. \A wd \in DOMAIN wmap' : wd \in DOMAIN wmap /\ wmap'[wd] = wmap[wd]
  BY <1>1
<1>8. \A k \in DOMAIN found' : \E j \in DOMAIN found : found'[k] = found[j]
  BY <1>1
<1>9. pc' # "rename" /\ UNCHANGED <<buf, move>>
  BY <1>1
<1> QED BY <1>4, <1>6, <1>7, <1>8, <1>9, TreeKeeps

LEMMA ScanEntryTree ==
  ASSUME IndInv, IndInv', TreeInv, NEW n \in AllNames, ScanEntry(n)
  PROVE  TreeInv'
<1> DEFINE item == Last(stack).path \o n
<1>1. /\ pc = "readdir"
      /\ stack' = [stack EXCEPT ![Len(stack)] =
                     [path |-> @.path, left |-> @.left \ {n}]]
      /\ enter' = item \/ UNCHANGED enter
      /\ pc' \in {"add", pc}
      /\ UNCHANGED <<fsVars, kernelVars, wmap, buf, todo, found, move>>
  BY DEF ScanEntry, worldVars, envVars, apiVars, parseVars
<1>2. stack # <<>>
  BY <1>1 DEF IndInv, ControlOK
<1>3. Len(stack) \in DOMAIN stack /\ Last(stack) = stack[Len(stack)]
  BY <1>2, StackIsSeq, EmptySeq DEF Last
<1>4. Last(stack).path \in Paths
  BY <1>3 DEF TreeInv, WalkOK
<1>5. item \in Paths
  BY <1>4, NamesAreTokens DEF Paths
<1> HIDE DEF item
<1>6. \A k \in DOMAIN stack' : k \in DOMAIN stack /\ stack'[k].path = stack[k].path
  BY <1>1, <1>3
<1>7. WalkOK' /\ pc' # "rename"
  BY <1>1, <1>5, <1>6 DEF TreeInv, WalkOK
<1> QED BY <1>1, <1>7, AloneKeeps

LEMMA ScanCloseTree ==
  ASSUME IndInv, IndInv', TreeInv, ScanClose
  PROVE  TreeInv'
<1>1. /\ pc = "readdir" /\ stack' = Front(stack) /\ pc' = Popped
      /\ UNCHANGED <<fsVars, kernelVars, wmap, buf, todo, enter, found, move>>
  BY DEF ScanClose, worldVars, envVars, apiVars, parseVars
<1>2. stack # <<>>
  BY <1>1 DEF IndInv, ControlOK
<1>3. \A k \in DOMAIN stack' : k \in DOMAIN stack /\ stack'[k] = stack[k]
  BY <1>1, <1>2, StackIsSeq, FrontElements
<1>4. WalkOK' /\ pc' # "rename"
  BY <1>1, <1>3 DEF TreeInv, WalkOK, Popped
<1> QED BY <1>1, <1>4, AloneKeeps

LEMMA InsertFoundTree ==
  ASSUME IndInv, IndInv', TreeInv, InsertFound
  PROVE  TreeInv'
<1>0. PICK e : e = Head(found)
  OBVIOUS
<1>1. /\ pc = "insert" /\ found # <<>> /\ found' = Tail(found)
      /\ Insert(e.wd, e.path, TRUE)
      /\ UNCHANGED <<fsVars, kernelVars, buf, pc, todo, enter, stack, move>>
  BY <1>0 DEF InsertFound, worldVars, envVars, ctlVars, apiVars, parseVars
<1>2. 1 \in DOMAIN found /\ e = found[1]
      /\ \A k \in DOMAIN Tail(found) :
           k + 1 \in DOMAIN found /\ Tail(found)[k] = found[k + 1]
  BY <1>0, <1>1, FoundIsSeq, TailElements
<1>3. FoundOK(e)
  BY <1>2 DEF TreeInv, MapOK
<1>4. UNCHANGED <<loc, unlinked, marks, nextWd, kq>>
  BY <1>1 DEF fsVars, kernelVars
<1>5. Keeps /\ MarksLive' /\ Settled(kq')
  BY <1>4, Typed, StillKeeps DEF TreeInv, MovesOK, Settled
<1>6. \A wd \in DOMAIN wmap' :
        \/ wd \in DOMAIN wmap /\ wmap'[wd] = wmap[wd]
        \/ wd = e.wd /\ wmap'[wd] = [path |-> e.path, rec |-> TRUE]
  <2> DEFINE v == e.wd
             path == e.path
  <2>1. Insert(v, path, TRUE)
    BY <1>1
  <2> HIDE DEF v, path
  <2>2. \A wd \in DOMAIN wmap' :
          \/ wd \in DOMAIN wmap /\ wmap'[wd] = wmap[wd]
          \/ wd = v /\ wmap'[wd] = [path |-> path, rec |-> TRUE]
    BY <2>1, InsertEntries
  <2> QED BY <2>2 DEF v, path
<1>7. \A wd \in DOMAIN wmap' :
        (wd \in DOMAIN wmap /\ wmap'[wd] = wmap[wd]) \/ EntryOK(wd)'
  BY <1>3, <1>4, <1>6 DEF FoundOK, EntryOK, Placed, DirString
<1>8. \A k \in DOMAIN found' : \E j \in DOMAIN found : found'[k] = found[j]
  BY <1>1, <1>2
<1>9. WalkOK' /\ pc' # "rename"
  BY <1>1 DEF TreeInv, WalkOK
<1> QED BY <1>1, <1>5, <1>7, <1>8, <1>9, TreeKeeps

LEMMA WatchStepsTree ==
  ASSUME IndInv, IndInv', TreeInv, WatchSteps
  PROVE  TreeInv'
  BY FilesAddTree, RollbackTree, QuietWalkTree, ScanAddTree, ScanOpenTree,
     ScanEntryTree, ScanCloseTree, InsertFoundTree, ScanFailsTree
  DEF WatchSteps, ScanAddFails, ScanOpenFails, ScanEntryFails


-----------------------------------------------------------------------------
(* The reading and the parsing of records.                                 *)
LEMMA SettledConcat ==
  ASSUME NEW b \in Seq(Events), NEW q \in Seq(Events)
  PROVE  Settled(b \o q) <=> Settled(b) /\ Settled(q)
<1>1. /\ Len(b) \in Nat /\ Len(q) \in Nat /\ Len(b \o q) = Len(b) + Len(q)
      /\ \A k \in 1..(Len(b) + Len(q)) :
           (b \o q)[k] = IF k <= Len(b) THEN b[k] ELSE q[k - Len(b)]
  BY ConcatProperties
<1>2. \A k \in 1..Len(b) : k \in 1..(Len(b) + Len(q)) /\ (b \o q)[k] = b[k]
  BY <1>1
<1>3. \A k \in 1..Len(q) :
        k + Len(b) \in 1..(Len(b) + Len(q)) /\ (b \o q)[k + Len(b)] = q[k]
  BY <1>1
<1>4. ASSUME NEW k \in 1..(Len(b) + Len(q))
      PROVE  \/ k \in 1..Len(b) /\ (b \o q)[k] = b[k]
             \/ k - Len(b) \in 1..Len(q) /\ (b \o q)[k] = q[k - Len(b)]
  BY <1>1
<1> QED BY <1>1, <1>2, <1>3, <1>4 DEF Settled

LEMMA ReadTree ==
  ASSUME IndInv, IndInv', TreeInv, Read
  PROVE  TreeInv'
<1>1. /\ UNCHANGED <<loc, unlinked, marks, nextWd, wmap, found, enter, todo, stack, move>>
      /\ pc' # "rename"
  BY DEF Read, envVars, fsVars, scanVars, parseVars
<1>2. buf' \o kq' = buf \o kq
  BY ReadQueue
<1>3. /\ buf \in Seq(Events) /\ kq \in Seq(Events)
      /\ buf' \in Seq(Events) /\ kq' \in Seq(Events)
  BY DEF IndInv, TypeOK, ToolTypeOK, KernelTypeOK
<1>4. Settled(buf') /\ Settled(kq')
  BY <1>2, <1>3, SettledConcat DEF TreeInv, MovesOK
<1>5. MovesOK'
  BY <1>1, <1>4 DEF TreeInv, MovesOK, Settled
<1>6. Keeps /\ MarksLive'
  BY <1>1, Typed, StillKeeps DEF TreeInv
<1>7. MapOK'
  BY <1>1, <1>6, MapKeeps DEF TreeInv
<1>8. WalkOK'
  BY <1>1 DEF TreeInv, WalkOK
<1> QED BY <1>5, <1>6, <1>7, <1>8 DEF TreeInv

(* What the record at the head of the buffer names.                        *)
LEMMA NamedPath ==
  ASSUME IndInv, TreeInv, NEW kinds, Named(kinds)
  PROVE  /\ Here \o Head(buf).name \in Paths
         /\ buf # <<>> /\ pc = "parse" /\ Head(buf).ev \in kinds
<1>1. /\ HeaderFits(buf) /\ Head(buf).wd \in DOMAIN wmap /\ pc = "parse"
      /\ Head(buf).ev \in kinds /\ Head(buf).name # <<>>
  BY DEF Named, Mapped, Parsing
<1>2. buf # <<>> /\ Head(buf) \in Events
  BY <1>1, HeaderFitsNonempty DEF IndInv, TypeOK
<1>3. Head(buf).name \in Paths
  BY <1>1, <1>2, NamesAreTokens DEF Events
<1>4. Here \in Paths
  BY <1>1 DEF Here, TreeInv, MapOK, EntryOK
<1> QED BY <1>1, <1>2, <1>3, <1>4 DEF Paths

LEMMA OnCreateTree ==
  ASSUME IndInv, IndInv', TreeInv, OnCreate
  PROVE  TreeInv'
<1>1. /\ Named({"CREATE"})
      /\ enter' = Here \o Head(buf).name \/ UNCHANGED enter
      /\ pc' \in {"add", "created"}
      /\ UNCHANGED <<fsVars, kernelVars, wmap, buf, todo, stack, found, move>>
  BY DEF OnCreate, worldVars, envVars, apiVars
<1>2. WalkOK' /\ pc' # "rename"
  BY <1>1, NamedPath DEF TreeInv, WalkOK
<1> QED BY <1>1, <1>2, AloneKeeps

LEMMA OnMovedToTree ==
  ASSUME IndInv, IndInv', TreeInv, OnMovedTo
  PROVE  TreeInv'
<1>1. ~Renames(Head(buf))
  BY DEF TreeInv, MovesOK, Renames
<1>2. /\ Named({"MOVED_TO"})
      /\ enter' = Here \o Head(buf).name \/ UNCHANGED enter
      /\ todo' \in {<<>>, <<Here \o Head(buf).name>>} \/ UNCHANGED todo
      /\ pc' \in {"add", "moved_in", "files"}
      /\ UNCHANGED <<fsVars, kernelVars, wmap, buf, stack, found, move>>
  BY <1>1 DEF OnMovedTo, worldVars, envVars
<1> DEFINE path == Here \o Head(buf).name
<1>3. path \in Paths
  BY <1>2, NamedPath
<1>4. <<path>> \in Seq(Paths) /\ <<>> \in Seq(Paths)
  <2> HIDE DEF path, Paths
  <2> QED BY <1>3
<1>5. WalkOK' /\ pc' # "rename"
  BY <1>2, <1>3, <1>4 DEF TreeInv, WalkOK
<1> QED BY <1>2, <1>5, AloneKeeps

LEMMA OnMovedFromTree ==
  ASSUME IndInv, IndInv', TreeInv, OnMovedFrom
  PROVE  TreeInv'
<1>1. /\ Named({"MOVED_FROM"}) /\ buf' = Tail(buf)
      /\ move' = [name |-> Head(buf).name, dir |-> Head(buf).dir,
                  cookie |-> Head(buf).cookie]
      /\ UNCHANGED <<loc, unlinked, marks, nextWd, kq, wmap, found, enter, todo, stack, pc>>
  BY DEF OnMovedFrom, worldVars, envVars, fsVars, kernelVars, ctlVars, apiVars, scanVars
<1>2. buf # <<>> /\ Head(buf).ev = "MOVED_FROM" /\ pc = "parse"
  BY <1>1, NamedPath
<1>3. Settled(Tail(buf)) /\ ~Head(buf).dir
  BY <1>2, Typed, SettledTail DEF TreeInv, MovesOK, Moves
<1>4. MovesOK'
  BY <1>1, <1>2, <1>3 DEF TreeInv, MovesOK, Settled
<1>5. Keeps /\ MarksLive'
  BY <1>1, Typed, StillKeeps DEF TreeInv
<1>6. MapOK'
  BY <1>1, <1>5, MapKeeps DEF TreeInv
<1>7. WalkOK'
  BY <1>1 DEF TreeInv, WalkOK
<1> QED BY <1>4, <1>5, <1>6, <1>7 DEF TreeInv

LEMMA InParseTree ==
  ASSUME IndInv, NEW kinds, Parsing(kinds)
  PROVE  pc = "parse" /\ buf # <<>>
  BY HeaderFitsNonempty DEF Parsing, IndInv, TypeOK

(* The records that are done with at once.                                 *)
LEMMA HandledTree ==
  ASSUME IndInv, IndInv', TreeInv,
         \/ OnOverflow \/ OnUnknownWd \/ OnNameless \/ OnDelete \/ OnModify
         \/ OnCloseWrite
  PROVE  TreeInv'
<1>1. /\ UNCHANGED <<fsVars, kernelVars, wmap, localVars>>
      /\ pc' \in {pc, "aborted"}
      /\ UNCHANGED buf \/ buf' = Tail(buf)
      /\ \E kinds : Parsing(kinds)
  BY DEF OnOverflow, OnUnknownWd, OnNameless, OnDelete, OnModify, OnCloseWrite,
         worldVars, envVars, ctlVars, Named, Mapped
<1>2. pc = "parse" /\ buf # <<>>
  BY <1>1, InParseTree
<1>3. UNCHANGED <<enter, todo, stack, found, move>>
  BY <1>1 DEF localVars, apiVars, scanVars, parseVars
<1>4. WalkOK' /\ pc' # "rename"
  BY <1>1, <1>2, <1>3 DEF TreeInv, WalkOK
<1> QED BY <1>1, <1>2, <1>3, <1>4, AloneKeeps

(* The handlers that end, and the end of the loop.                         *)
LEMMA EndingTree ==
  ASSUME IndInv, IndInv', TreeInv,
         Created \/ MovedIn \/ OnOther \/ PurgeDone \/ ParseDone
  PROVE  TreeInv'
<1>1. ~(move.name # <<>> /\ move.dir)
  BY DEF TreeInv, MovesOK
<1>2. /\ UNCHANGED <<fsVars, kernelVars, wmap, enter, todo, stack, found>>
      /\ pc' \in {"parse", "read"}
      /\ UNCHANGED move \/ move' = NoMove
      /\ UNCHANGED buf \/ buf' = Tail(buf)
      /\ ParseDone \/ pc \in {"created", "moved_in", "purge"} \/ \E kinds : Parsing(kinds)
      /\ ParseDone => UNCHANGED buf
  BY <1>1 DEF Created, MovedIn, OnOther, PurgeDone, ParseDone, LoopTail,
              worldVars, envVars, apiVars, scanVars, Named, Mapped
<1>3. UNCHANGED buf \/ (buf # <<>> /\ buf' = Tail(buf))
  BY <1>2, InParseTree DEF IndInv, ControlOK, InHandler
<1>4. WalkOK' /\ pc' # "rename"
  BY <1>2 DEF TreeInv, WalkOK
<1> QED BY <1>2, <1>3, <1>4, AloneKeeps

(* The records that end a watch or an entry, and the loop that does.       *)
LEMMA EndsTree ==
  ASSUME IndInv, IndInv', TreeInv, OnDeleteSelf \/ OnUnmount \/ PurgeEntry
  PROVE  TreeInv'
<1>1. /\ UNCHANGED <<envVars, enter, todo, stack, found, move, pc>>
      /\ \E wd : RmWatch(wd)
      /\ UNCHANGED wmap \/ \E S : wmap' = Without(S)
      /\ UNCHANGED buf \/ (buf' = Tail(buf) /\ \E kinds : Parsing(kinds))
      /\ pc = "purge" \/ \E kinds : Parsing(kinds)
  BY DEF OnDeleteSelf, OnUnmount, PurgeEntry, ctlVars, localVars, apiVars, scanVars,
         parseVars, Mapped
<1>2. UNCHANGED buf \/ (buf # <<>> /\ buf' = Tail(buf))
  BY <1>1, InParseTree
<1>3. pc' # "rename"
  BY <1>1, InParseTree
<1> QED BY <1>1, <1>2, <1>3, EndKeeps

LEMMA OnIgnoredTree ==
  ASSUME IndInv, IndInv', TreeInv, OnIgnored
  PROVE  TreeInv'
<1>1. /\ UNCHANGED <<loc, unlinked, marks, nextWd, kq, enter, todo, stack, found, move, pc>>
      /\ wmap' = Without({Head(buf).wd}) /\ buf' = Tail(buf) /\ Parsing({"IGNORED"})
  BY DEF OnIgnored, worldVars, envVars, fsVars, kernelVars, ctlVars, localVars,
         apiVars, scanVars, parseVars
<1>2. pc' # "rename" /\ buf # <<>>
  BY <1>1, InParseTree
<1>3. Keeps /\ MarksLive' /\ Settled(kq')
  BY <1>1, Typed, StillKeeps DEF TreeInv, MovesOK, Settled
<1>4. \A v \in DOMAIN wmap' : v \in DOMAIN wmap /\ wmap'[v] = wmap[v]
  BY <1>1 DEF Without
<1>5. \A k \in DOMAIN found' : \E j \in DOMAIN found : found'[k] = found[j]
  BY <1>1
<1>6. WalkOK'
  BY <1>1 DEF TreeInv, WalkOK
<1> QED BY <1>1, <1>2, <1>3, <1>4, <1>5, <1>6, TreeKeeps

LEMMA ParseStepsTree ==
  ASSUME IndInv, IndInv', TreeInv, ParseSteps
  PROVE  TreeInv'
<1>1. ~RenameEntry /\ ~RenameDone
  BY DEF TreeInv, MovesOK, RenameEntry, RenameDone
<1> QED BY <1>1, OnCreateTree, OnMovedToTree, OnMovedFromTree, HandledTree, EndingTree,
           EndsTree, OnIgnoredTree DEF ParseSteps

-----------------------------------------------------------------------------
LEMMA OthersTree ==
  ASSUME IndInv, IndInv', TreeInv, ~DirRenamed, OtherProcesses, UNCHANGED toolVars
  PROVE  TreeInv'
<1>1. UNCHANGED <<buf, wmap, enter, todo, stack, found, move, pc>>
  BY DEF toolVars, ctlVars, localVars, apiVars, scanVars, parseVars
<1>2. KernelInv /\ MarksLive /\ Settled(kq)
  BY Typed DEF TreeInv, MovesOK
<1>3. Shrinks
  BY <1>2, OthersShrink
<1>4. Keeps /\ MarksLive' /\ Settled(kq')
  BY <1>2, <1>3, TypedNext, ShrinkKeeps DEF Shrinks
<1>5. \A v \in DOMAIN wmap' : v \in DOMAIN wmap /\ wmap'[v] = wmap[v]
  BY <1>1
<1>6. \A k \in DOMAIN found' : \E j \in DOMAIN found : found'[k] = found[j]
  BY <1>1
<1>7. WalkOK' /\ pc' # "rename"
  BY <1>1 DEF TreeInv, WalkOK, MovesOK
<1> QED BY <1>1, <1>4, <1>5, <1>6, <1>7, TreeKeeps

LEMMA StutterTree ==
  ASSUME IndInv, IndInv', TreeInv, UNCHANGED vars
  PROVE  TreeInv'
<1>1. UNCHANGED <<fsVars, kernelVars, wmap, buf, enter, todo, stack, found, move, pc>>
  BY DEF vars, toolVars, ctlVars, localVars, apiVars, scanVars, parseVars
<1>2. WalkOK' /\ pc' # "rename"
  BY <1>1 DEF TreeInv, WalkOK, MovesOK
<1> QED BY <1>1, <1>2, AloneKeeps

(* Nothing is watched or mapped at the start.                              *)
THEOREM InitTreeInv == Init => TreeInv
<1> SUFFICES ASSUME Init PROVE TreeInv
  OBVIOUS
<1>1. /\ marks = NoWatches /\ kq = <<>> /\ buf = <<>> /\ found = <<>> /\ pc = "idle"
      /\ DOMAIN wmap = {} /\ enter = <<>> /\ todo = <<>> /\ stack = <<>> /\ move = NoMove
  BY DEF Init, KernelInit
<1>2. MarksLive /\ MapOK
  BY <1>1 DEF MarksLive, MapOK, NoWatches
<1>3. WalkOK
  BY <1>1, NoPath DEF WalkOK
<1>4. MovesOK
  BY <1>1 DEF MovesOK, Settled, NoMove
<1> QED BY <1>2, <1>3, <1>4 DEF TreeInv

(* A step that renames no directory keeps TreeInv.                         *)
THEOREM NextTreeInv ==
  IndInv /\ IndInv' /\ TreeInv /\ ~DirRenamed /\ [Next]_vars => TreeInv'
  BY OthersTree, CallsTree, WatchStepsTree, ReadTree, ParseStepsTree, StutterTree
  DEF Next, ToolStep

(* TreeInv holds of every behaviour without a rename of a directory.       *)
THEOREM TreeInvHolds == Spec /\ [][~DirRenamed]_vars => []TreeInv
<1>1. Init => TreeInv
  BY InitTreeInv
<1>2. IndInv /\ IndInv' /\ TreeInv /\ [~DirRenamed]_vars /\ [Next]_vars => TreeInv'
  BY NextTreeInv, StutterTree
<1> QED BY <1>1, <1>2, IndInvHolds, PTL DEF Spec

(* Every directory below a recursive watch is watched, and reported, under *)
(* the path it has, whatever is created and removed and however the events *)
(* are read, as long as no directory gets another place.                   *)
THEOREM PathsStayRight == Spec => ([][~DirRenamed]_vars => []PathsRight)
<1>1. TreeInv => PathsRight
  BY DEF TreeInv, MapOK, EntryOK, Placed, PathsRight, Watched
<1> QED BY <1>1, TreeInvHolds, PTL

=============================================================================
