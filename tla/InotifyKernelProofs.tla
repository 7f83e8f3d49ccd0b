------------------------- MODULE InotifyKernelProofs -------------------------
(***************************************************************************)
(* Facts about the environment of InotifyTool: every step keeps its types, *)
(* an inode has one watch at most, and a watch that ends is announced by   *)
(* an IGNORED record unless the queue overflows. At the end, what the      *)
(* operations on paths compute, for every path: the definitions that walk  *)
(* along a path are unfolded by induction on its length.                   *)
(***************************************************************************)
EXTENDS InotifyKernel, SequenceTheorems, WellFoundedInduction, TLAPS

KernelInv == KernelTypeOK /\ MarksUnique /\ WritingLive

(* Queue r is queue q, with more records behind it perhaps.                *)
Extends(q, r) ==
  /\ Len(r) >= Len(q)
  /\ \A k \in 1..Len(q) : r[k] = q[k]
Grows(q, r) == r \in Seq(Events) /\ Extends(q, r)

(* A step that leaves the records of the queue where they are, and that    *)
(* announces the watches it ends unless it overflows the queue.            *)
Announces ==
  /\ lost => lost'
  /\ Extends(kq, kq')
  /\ Records(kq) \subseteq Records(kq')
  /\ ~lost' => \A wd \in DOMAIN marks \ DOMAIN marks' :
                  Ignored(wd) \in Records(kq')

-----------------------------------------------------------------------------
(* The constructor of events.                                              *)
LEMMA EventType ==
  ASSUME NEW wd \in Int, NEW ev \in EventKinds, NEW dir \in BOOLEAN,
         NEW ck \in Nat, NEW name \in AllNames \cup {<<>>}
  PROVE  Event(wd, ev, dir, ck, name) \in Events
  BY DEF Event, Events

LEMMA OverflowType == OverflowEvent \in Events
<1>1. -1 \in Int /\ "Q_OVERFLOW" \in EventKinds /\ FALSE \in BOOLEAN
      /\ 0 \in Nat /\ <<>> \in AllNames \cup {<<>>}
  BY DEF EventKinds
<1>2. Event(-1, "Q_OVERFLOW", FALSE, 0, <<>>) \in Events
  BY <1>1, EventType
<1> QED BY <1>2 DEF OverflowEvent

(* No record is lost by Enqueue, and the new one is there or the queue     *)
(* overflowed.                                                             *)
LEMMA EnqueueGrows ==
  ASSUME NEW q \in Seq(Events), NEW e \in Events
  PROVE  /\ Grows(q, Enqueue(q, e))
         /\ e \in Records(Enqueue(q, e)) \/ Len(Enqueue(q, e)) > MaxQueued
<1>0. MaxQueued \in Nat /\ Len(q) \in Nat /\ OverflowEvent \in Events
  BY BoundsAssumption, OverflowType
<1>1. CASE q # <<>> /\ q[Len(q)] = e
  BY <1>0, <1>1 DEF Enqueue, Records, Grows, Extends
<1>2. CASE ~(q # <<>> /\ q[Len(q)] = e) /\ Len(q) < MaxQueued
  BY <1>0, <1>2 DEF Enqueue, Records, Grows, Extends
<1>3. CASE ~(q # <<>> /\ q[Len(q)] = e) /\ Len(q) = MaxQueued
  BY <1>0, <1>3 DEF Enqueue, Records, Grows, Extends
<1>4. CASE ~(q # <<>> /\ q[Len(q)] = e) /\ Len(q) > MaxQueued
  BY <1>0, <1>4 DEF Enqueue, Records, Grows, Extends
<1> QED BY <1>0, <1>1, <1>2, <1>3, <1>4

LEMMA ExtendsRecords ==
  ASSUME NEW q \in Seq(Events), NEW r \in Seq(Events), Extends(q, r)
  PROVE  Records(q) \subseteq Records(r)
<1>1. Len(q) \in Nat /\ Len(r) \in Nat
  OBVIOUS
<1> QED BY <1>1 DEF Extends, Records

LEMMA GrowsRefl == ASSUME NEW q \in Seq(Events) PROVE Grows(q, q)
  BY DEF Grows, Extends

LEMMA SameQueue ==
  ASSUME KernelTypeOK, UNCHANGED kq
  PROVE  Extends(kq, kq')
  BY GrowsRefl DEF KernelTypeOK, Grows

LEMMA GrowsTrans ==
  ASSUME NEW q \in Seq(Events), NEW r, NEW s, Grows(q, r), Grows(r, s)
  PROVE  Grows(q, s)
<1>1. Len(q) \in Nat /\ Len(r) \in Nat /\ Len(s) \in Nat
  BY LenProperties DEF Grows
<1> QED BY <1>1 DEF Grows, Extends

-----------------------------------------------------------------------------
(* The posting operators.                                                  *)
LEMMA PostSelfGrows ==
  ASSUME KernelTypeOK, NEW q \in Seq(Events), NEW i,
         NEW ev \in EventKinds, NEW dir \in BOOLEAN
  PROVE  Grows(q, PostSelf(q, i, ev, dir))
<1>1. CASE \E wd \in DOMAIN marks : marks[wd] = i
  <2> DEFINE v == CHOOSE wd \in DOMAIN marks : marks[wd] = i
  <2>1. v \in Int
    BY <1>1 DEF KernelTypeOK
  <2>2. Event(v, ev, dir, 0, <<>>) \in Events
    BY <2>1, EventType
  <2> QED BY <1>1, <2>2, EnqueueGrows DEF PostSelf
<1>2. CASE ~\E wd \in DOMAIN marks : marks[wd] = i
  BY <1>2, GrowsRefl DEF PostSelf
<1> QED BY <1>1, <1>2

LEMMA PostSelfTells ==
  ASSUME KernelTypeOK, MarksUnique, NEW q \in Seq(Events),
         NEW ev \in EventKinds, NEW dir \in BOOLEAN, NEW wd \in DOMAIN marks
  PROVE  \/ Event(wd, ev, dir, 0, <<>>) \in
              Records(PostSelf(q, marks[wd], ev, dir))
         \/ Len(PostSelf(q, marks[wd], ev, dir)) > MaxQueued
<1> DEFINE v == CHOOSE u \in DOMAIN marks : marks[u] = marks[wd]
<1>1. v = wd
  BY DEF MarksUnique
<1>2. Event(wd, ev, dir, 0, <<>>) \in Events
  <2>1. wd \in Int /\ 0 \in Nat /\ <<>> \in AllNames \cup {<<>>}
    BY DEF KernelTypeOK
  <2> QED BY <2>1, EventType
<1>3. PostSelf(q, marks[wd], ev, dir) = Enqueue(q, Event(wd, ev, dir, 0, <<>>))
  BY <1>1 DEF PostSelf
<1> QED BY <1>2, <1>3, EnqueueGrows

LEMMA PostAtGrows ==
  ASSUME KernelTypeOK, NEW q \in Seq(Events), NEW place,
         NEW ev \in EventKinds, NEW dir \in BOOLEAN, NEW ck \in Nat,
         NEW name \in AllNames
  PROVE  Grows(q, PostAt(q, place, ev, dir, ck, name))
<1>1. CASE place # Gone /\ \E wd \in DOMAIN marks : loc[marks[wd]] = place
  <2> DEFINE v == CHOOSE wd \in DOMAIN marks : loc[marks[wd]] = place
  <2>1. v \in Int
    BY <1>1 DEF KernelTypeOK
  <2>2. Event(v, ev, dir, ck, name) \in Events
    BY <2>1, EventType
  <2> QED BY <1>1, <2>2, EnqueueGrows DEF PostAt
<1>2. CASE ~(place # Gone /\ \E wd \in DOMAIN marks : loc[marks[wd]] = place)
  BY <1>2, GrowsRefl DEF PostAt
<1> QED BY <1>1, <1>2

LEMMA LastType ==
  ASSUME KernelTypeOK, NEW i \in Inodes, Live(i)
  PROVE  Last(loc[i]) \in AllNames
<1>1. loc[i] \in Seq(AllNames) /\ loc[i] # <<>>
  BY DEF KernelTypeOK, Live, Gone
<1>2. Len(loc[i]) \in 1..Len(loc[i])
  BY <1>1, EmptySeq
<1> QED BY <1>1, <1>2, ElementOfSeq DEF Last

LEMMA EntryNameType ==
  ASSUME KernelTypeOK, NEW i \in Inodes, There(i)
  PROVE  EntryName(i) \in AllNames
  BY LastType DEF EntryName, There, KernelTypeOK

LEMMA PostChildGrows ==
  ASSUME KernelTypeOK, NEW q \in Seq(Events), NEW i \in Inodes, There(i),
         NEW ev \in EventKinds
  PROVE  Grows(q, PostChild(q, i, ev))
<1> DEFINE r == PostAt(q, Folder(i), ev, i \in Dirs, 0, EntryName(i))
<1>0. (i \in Dirs) \in BOOLEAN /\ 0 \in Nat /\ EntryName(i) \in AllNames
  BY EntryNameType
<1>1. Grows(q, r)
  <2> HIDE DEF r
  <2> QED BY <1>0, PostAtGrows DEF r
<1>2. Grows(r, PostSelf(r, i, ev, i \in Dirs))
  <2>1. r \in Seq(Events)
    BY <1>1 DEF Grows
  <2> HIDE DEF r
  <2> QED BY <1>0, <2>1, PostSelfGrows
<1>3. PostChild(q, i, ev) = PostSelf(r, i, ev, i \in Dirs)
  BY DEF PostChild
<1> QED BY <1>1, <1>2, <1>3, GrowsTrans

(* PostGone leaves the IGNORED record of the watch it ends.                *)
LEMMA PostGoneGrows ==
  ASSUME KernelTypeOK, MarksUnique, NEW q \in Seq(Events), NEW i,
         NEW ev \in EventKinds
  PROVE  /\ Grows(q, PostGone(q, i, ev))
         /\ \A wd \in DOMAIN marks : marks[wd] = i =>
              \/ Ignored(wd) \in Records(PostGone(q, i, ev))
              \/ Len(PostGone(q, i, ev)) > MaxQueued
<1> DEFINE r == PostSelf(q, i, ev, FALSE)
<1>1. Grows(q, r)
  BY PostSelfGrows
<1>2. Grows(r, PostSelf(r, i, "IGNORED", FALSE))
  BY <1>1, PostSelfGrows DEF Grows, EventKinds
<1>3. PostGone(q, i, ev) = PostSelf(r, i, "IGNORED", FALSE)
  BY DEF PostGone
<1>4. \A wd \in DOMAIN marks : marks[wd] = i =>
        \/ Ignored(wd) \in Records(PostSelf(r, i, "IGNORED", FALSE))
        \/ Len(PostSelf(r, i, "IGNORED", FALSE)) > MaxQueued
  BY <1>1, PostSelfTells DEF Grows, EventKinds, Ignored
<1> QED BY <1>1, <1>2, <1>3, <1>4, GrowsTrans

-----------------------------------------------------------------------------
(* Places of the tree.                                                     *)
LEMMA FrontProperties ==
  ASSUME NEW S, NEW s \in Seq(S), s # <<>>
  PROVE  /\ Front(s) \in Seq(S)
         /\ Len(Front(s)) = Len(s) - 1
         /\ \A k \in 1..(Len(s) - 1) : Front(s)[k] = s[k]
         /\ Len(s) \in Nat \ {0}
<1>1. Len(s) \in Nat \ {0} /\ 1 \in Int /\ Len(s) - 1 \in Int
  BY EmptySeq
<1>2. \A k \in 1..(Len(s) - 1) : s[k] \in S
  BY <1>1, ElementOfSeq
<1>3. /\ SubSeq(s, 1, Len(s) - 1) \in Seq(S)
      /\ Len(SubSeq(s, 1, Len(s) - 1)) =
           IF 1 <= Len(s) - 1 THEN Len(s) - 1 - 1 + 1 ELSE 0
      /\ \A k \in 1..(Len(s) - 1 - 1 + 1) :
           SubSeq(s, 1, Len(s) - 1)[k] = s[1 + k - 1]
  BY <1>1, <1>2, SubSeqProperties
<1>4. /\ (IF 1 <= Len(s) - 1 THEN Len(s) - 1 - 1 + 1 ELSE 0) = Len(s) - 1
      /\ Len(s) - 1 - 1 + 1 = Len(s) - 1
      /\ \A k \in 1..(Len(s) - 1) : 1 + k - 1 = k
  BY <1>1
<1>5. Front(s) = SubSeq(s, 1, Len(s) - 1)
  BY Zenon DEF Front
<1> QED BY <1>1, <1>3, <1>4, <1>5

LEMMA NewPlaceType ==
  ASSUME KernelTypeOK, NEW p \in Inodes, NEW n \in Names
  PROVE  /\ Append(loc[p], n) \in Seq(AllNames)
         /\ Append(loc[p], n) # <<>>
<1>1. loc[p] \in Seq(AllNames) /\ n \in AllNames
  BY DEF KernelTypeOK, AllNames
<1> QED BY <1>1

LEMMA GoneType == Gone \in Seq(AllNames)
  BY DEF Gone

(* A step that only adds to the queue: the types, and what it announces.   *)
LEMMA SetQueueKeeps ==
  ASSUME KernelTypeOK, NEW q, Grows(kq, q), SetQueue(q)
  PROVE  /\ kq' \in Seq(Events)
         /\ lost' \in BOOLEAN
         /\ lost => lost'
         /\ Extends(kq, kq')
         /\ Records(kq) \subseteq Records(kq')
  BY ExtendsRecords DEF KernelTypeOK, Grows, SetQueue

LEMMA QueueOnly ==
  ASSUME KernelInv, NEW q, Grows(kq, q), SetQueue(q), UNCHANGED marks
  PROVE  Announces
  BY SetQueueKeeps DEF KernelInv, Announces

(* A watch ends with the inode, and its IGNORED record is queued.          *)
LEMMA GoneKeeps ==
  ASSUME KernelInv, NEW q \in Seq(Events), NEW r, NEW i,
         NEW ev \in EventKinds, Grows(kq, q),
         Grows(PostGone(q, i, ev), r), SetQueue(r), marks' = Unmarked(i)
  PROVE  Announces /\ Grows(kq, r)
<1> DEFINE g == PostGone(q, i, ev)
<1>1. KernelTypeOK /\ MarksUnique /\ kq \in Seq(Events) /\ MaxQueued \in Nat
  BY BoundsAssumption DEF KernelInv, KernelTypeOK
<1>2. Grows(q, g)
  BY <1>1, PostGoneGrows
<1>3. \A wd \in DOMAIN marks : marks[wd] = i =>
        Ignored(wd) \in Records(g) \/ Len(g) > MaxQueued
  BY <1>1, PostGoneGrows
<1>4. Grows(kq, r)
  BY <1>1, <1>2, GrowsTrans
<1>5. Records(g) \subseteq Records(r) /\ Len(r) >= Len(g)
      /\ Len(g) \in Nat /\ Len(r) \in Nat
  BY <1>2, LenProperties, ExtendsRecords DEF Grows, Extends
<1>6. \A wd \in DOMAIN marks \ DOMAIN marks' : marks[wd] = i
  BY DEF Unmarked
<1>7. \A wd \in DOMAIN marks \ DOMAIN marks' :
        Ignored(wd) \in Records(r) \/ Len(r) > MaxQueued
  <2> HIDE DEF g
  <2> QED BY <1>1, <1>3, <1>5, <1>6
<1>8. SetQueue(r) /\ (lost => lost') /\ Records(kq) \subseteq Records(kq')
      /\ Extends(kq, kq')
  BY <1>1, <1>4, SetQueueKeeps
<1> QED BY <1>4, <1>7, <1>8 DEF Announces, SetQueue

-----------------------------------------------------------------------------
(* What other processes do keeps the invariant of the environment.         *)
LEMMA MkdirKeeps ==
  ASSUME KernelInv, NEW p \in Dirs, NEW n \in Names, Mkdir(p, n)
  PROVE  KernelInv' /\ Announces
<1> DEFINE place == Append(loc[p], n)
           q == PostAt(kq, loc[p], "CREATE", TRUE, 0, n)
<1>1. KernelTypeOK /\ MarksUnique /\ WritingLive
  BY DEF KernelInv
<1>2. place \in Seq(AllNames) /\ place # <<>>
  BY <1>1, NewPlaceType DEF Inodes
<1>3. Grows(kq, q) /\ SetQueue(q) /\ UNCHANGED marks
  BY <1>1, PostAtGrows DEF Mkdir, KernelTypeOK, EventKinds, AllNames
<1>4. PICK i \in Dirs : loc' = [loc EXCEPT ![i] = place]
  BY DEF Mkdir
<1>5. KernelTypeOK'
  <2>1. loc' \in [Inodes -> Seq(AllNames)]
    BY <1>1, <1>2, <1>4 DEF KernelTypeOK, Inodes
  <2>2. kq' \in Seq(Events) /\ lost' \in BOOLEAN
    BY <1>1, <1>3, SetQueueKeeps
  <2> QED BY <1>1, <2>1, <2>2 DEF Mkdir, Op, KernelTypeOK
<1>6. MarksUnique' /\ WritingLive'
  BY <1>1, <1>2, <1>4, InodesAssumption
     DEF Mkdir, KernelTypeOK, MarksUnique, WritingLive, There, Live, Gone, Inodes
<1> QED BY <1>3, <1>5, <1>6, QueueOnly DEF KernelInv

LEMMA UnmarkedKeeps ==
  ASSUME KernelInv, NEW i, marks' = Unmarked(i), UNCHANGED nextWd
  PROVE  /\ MarksUnique'
         /\ DOMAIN marks' \subseteq 0..(nextWd' - 1)
         /\ marks' \in [DOMAIN marks' -> Inodes]
  BY DEF KernelInv, KernelTypeOK, MarksUnique, Unmarked

(* The queue after a directory has gone, in either order of the records.   *)
LEMMA GoneOrder ==
  ASSUME KernelInv, NEW i \in Dirs, Live(i), marks' = Unmarked(i),
         NEW r, SetQueue(r),
         LET Parent(q) ==
               PostAt(q, Front(loc[i]), "DELETE", TRUE, 0, Last(loc[i]))
             Self(q) == PostGone(q, i, "DELETE_SELF")
         IN  r = Parent(Self(kq)) \/ r = Self(Parent(kq))
  PROVE  Announces /\ Grows(kq, r)
<1> DEFINE Parent(q) == PostAt(q, Front(loc[i]), "DELETE", TRUE, 0, Last(loc[i]))
           Self(q) == PostGone(q, i, "DELETE_SELF")
<1>1. KernelTypeOK /\ MarksUnique /\ kq \in Seq(Events)
      /\ "DELETE" \in EventKinds /\ "DELETE_SELF" \in EventKinds
  BY DEF KernelInv, KernelTypeOK, EventKinds
<1>2. Last(loc[i]) \in AllNames
  BY <1>1, LastType DEF Inodes
<1>3. \A q \in Seq(Events) : Grows(q, Parent(q))
  BY <1>1, <1>2, PostAtGrows
<1>4. \A q \in Seq(Events) : Grows(q, Self(q))
  BY <1>1, PostGoneGrows
<1>5. CASE r = Parent(Self(kq))
  <2>1. Self(kq) \in Seq(Events)
    BY <1>1, <1>4 DEF Grows
  <2>2. Grows(Self(kq), r)
    BY <1>3, <1>5, <2>1
  <2> QED BY <1>1, <2>2, GrowsRefl, GoneKeeps
<1>6. CASE r = Self(Parent(kq))
  <2>1. Grows(kq, Parent(kq)) /\ Parent(kq) \in Seq(Events)
    BY <1>1, <1>3 DEF Grows
  <2>2. r \in Seq(Events)
    BY <1>4, <1>6, <2>1 DEF Grows
  <2>3. Grows(r, r)
    BY <2>2, GrowsRefl
  <2> QED BY <1>1, <1>6, <2>1, <2>3, GoneKeeps
<1> QED BY <1>5, <1>6

LEMMA RmdirKeeps ==
  ASSUME KernelInv, NEW i \in Dirs, Rmdir(i)
  PROVE  KernelInv' /\ Announces
<1>1. PICK r : SetQueue(r) /\ LET Parent(q) == PostAt(q, Front(loc[i]), "DELETE",
                                                  TRUE, 0, Last(loc[i]))
                                  Self(q) == PostGone(q, i, "DELETE_SELF")
                              IN  r = Parent(Self(kq)) \/ r = Self(Parent(kq))
  BY DEF Rmdir
<1>2. Live(i) /\ marks' = Unmarked(i)
  BY DEF Rmdir
<1>3. Announces /\ Grows(kq, r)
  BY <1>1, <1>2, GoneOrder
<1>4. kq' \in Seq(Events) /\ lost' \in BOOLEAN
  BY <1>1, <1>3, SetQueueKeeps DEF KernelInv
<1>5. KernelTypeOK' /\ MarksUnique'
  BY <1>2, <1>4, UnmarkedKeeps, GoneType
     DEF KernelInv, KernelTypeOK, Rmdir, Op, Inodes
<1>6. WritingLive'
  BY InodesAssumption
     DEF KernelInv, KernelTypeOK, WritingLive, There, Live, Rmdir, Bare, Inodes
<1> QED BY <1>3, <1>5, <1>6 DEF KernelInv

LEMMA UnmountKeeps ==
  ASSUME KernelInv, NEW i \in Dirs, Unmount(i)
  PROVE  KernelInv' /\ Announces
<1> DEFINE r == PostGone(kq, i, "UNMOUNT")
<1>1. SetQueue(r) /\ marks' = Unmarked(i) /\ kq \in Seq(Events)
      /\ "UNMOUNT" \in EventKinds /\ KernelTypeOK /\ MarksUnique
  BY DEF Unmount, KernelInv, KernelTypeOK, EventKinds
<1>2. Grows(kq, kq) /\ Grows(r, r)
  BY <1>1, GrowsRefl, PostGoneGrows DEF Grows
<1>3. Announces /\ Grows(kq, r)
  BY <1>1, <1>2, GoneKeeps
<1>4. kq' \in Seq(Events) /\ lost' \in BOOLEAN
  BY <1>1, <1>3, SetQueueKeeps
<1>5. KernelTypeOK' /\ MarksUnique'
  BY <1>1, <1>4, UnmarkedKeeps, GoneType
     DEF KernelInv, KernelTypeOK, Unmount, Op, Inodes
<1>6. WritingLive'
  BY InodesAssumption
     DEF KernelInv, KernelTypeOK, WritingLive, There, Live, Unmount, Bare, Inodes
<1> QED BY <1>3, <1>5, <1>6 DEF KernelInv

(* Where a rename leaves the inodes: what was there is there.               *)
LEMMA RenamePlaces ==
  ASSUME KernelTypeOK, NEW i \in Inodes, NEW p \in Dirs, NEW n \in Names,
         Rename(i, p, n)
  PROVE  /\ loc' \in [Inodes -> Seq(AllNames)]
         /\ \A j \in Inodes : Live(j) => loc'[j] # <<>>
         /\ loc'[i] = Append(loc[p], n) /\ loc'[i] # loc[i]
<1> DEFINE old == loc[i]
           new == Append(loc[p], n)
           rest(j) == SubSeq(loc[j], Len(old) + 1, Len(loc[j]))
<1>1. /\ loc' = [j \in Inodes |->
                  IF IsPrefix(old, loc[j]) THEN new \o rest(j) ELSE loc[j]]
      /\ Free(new)
  BY DEF Rename
<1>2. new \in Seq(AllNames) /\ new # <<>> /\ old \in Seq(AllNames)
  BY NewPlaceType DEF Inodes, KernelTypeOK
<1>3. ASSUME NEW j \in Inodes
      PROVE  new \o rest(j) \in Seq(AllNames) /\ new \o rest(j) # <<>>
  <2>1. loc[j] \in Seq(AllNames) /\ Len(loc[j]) \in Nat /\ Len(old) \in Nat
    BY DEF KernelTypeOK
  <2>2. \A k \in (Len(old) + 1)..Len(loc[j]) : loc[j][k] \in AllNames
    BY <2>1, ElementOfSeq
  <2>3. rest(j) \in Seq(AllNames)
    BY <2>1, <2>2, SubSeqProperties
  <2> HIDE DEF rest, new
  <2> QED BY <1>2, <2>3, ConcatProperties, ConcatEqualIffEmpty
<1>4. IsPrefix(old, old) /\ rest(i) = <<>>
  BY <1>2 DEF IsPrefix
<1> HIDE DEF new, rest
<1>5. loc'[i] = new /\ new # loc[i]
  BY <1>1, <1>2, <1>4, ConcatEmptySeq DEF Free
<1> QED BY <1>1, <1>3, <1>5 DEF KernelTypeOK, Live, Gone, new

LEMMA RenameKeeps ==
  ASSUME KernelInv, NEW i \in Inodes, NEW p \in Dirs, NEW n \in Names,
         Rename(i, p, n)
  PROVE  KernelInv' /\ Announces
<1> DEFINE old == loc[i]
           new == Append(loc[p], n)
           ck  == cookie + 1
           from == PostAt(kq, Front(old), "MOVED_FROM", i \in Dirs, ck, Last(old))
           to == PostAt(from, loc[p], "MOVED_TO", i \in Dirs, ck, n)
           self == PostSelf(to, i, "MOVE_SELF", i \in Dirs)
<1>1. /\ KernelTypeOK /\ MarksUnique /\ WritingLive
      /\ Live(i) /\ SetQueue(self)
      /\ UNCHANGED <<marks, nextWd, writing, unlinked, dirty>>
      /\ ops' = ops + 1 /\ cookie' = ck
  BY DEF KernelInv, Rename, Op
<1>2. new \in Seq(AllNames) /\ new # <<>>
  BY <1>1, NewPlaceType DEF Inodes
<1>3. Last(old) \in AllNames /\ n \in AllNames /\ ck \in Nat
      /\ (i \in Dirs) \in BOOLEAN /\ kq \in Seq(Events)
      /\ {"MOVED_FROM", "MOVED_TO", "MOVE_SELF"} \subseteq EventKinds
  BY <1>1, LastType DEF KernelTypeOK, AllNames, EventKinds
<1>4. Grows(kq, self)
  <2>1. Grows(kq, from)
    BY <1>1, <1>3, PostAtGrows
  <2>2. Grows(from, to) /\ to \in Seq(Events)
    BY <1>1, <1>3, <2>1, PostAtGrows DEF Grows
  <2>3. Grows(to, self)
    BY <1>1, <1>3, <2>2, PostSelfGrows
  <2>4. Grows(kq, to)
    BY <1>3, <2>1, <2>2, GrowsTrans
  <2> QED BY <1>3, <2>3, <2>4, GrowsTrans
<1>5. kq' \in Seq(Events) /\ lost' \in BOOLEAN
  BY <1>1, <1>4, SetQueueKeeps
<1>6. loc' \in [Inodes -> Seq(AllNames)]
      /\ \A j \in Inodes : Live(j) => loc'[j] # <<>>
  BY <1>1, RenamePlaces
<1>7. KernelTypeOK'
  BY <1>1, <1>3, <1>5, <1>6 DEF KernelTypeOK
<1>8. MarksUnique'
  BY <1>1 DEF MarksUnique
<1>9. WritingLive'
  <2>1. /\ \A w \in Writers : writing[w] # None => writing[w] \in Inodes
        /\ \A f \in DOMAIN unlinked : unlinked[f].dir \in Inodes
    BY <1>1 DEF KernelTypeOK, Inodes
  <2> QED BY <1>1, <1>6, <2>1 DEF WritingLive, There, Live, Gone
<1> QED BY <1>1, <1>4, <1>7, <1>8, <1>9, QueueOnly DEF KernelInv

(* Events on an inode that exists.                                         *)
LEMMA ChildKeeps ==
  ASSUME KernelInv, NEW i \in Inodes, There(i), NEW ev \in EventKinds,
         SetQueue(PostChild(kq, i, ev)), UNCHANGED marks
  PROVE  Announces /\ kq' \in Seq(Events) /\ lost' \in BOOLEAN
<1>1. Grows(kq, PostChild(kq, i, ev))
  BY PostChildGrows DEF KernelInv, KernelTypeOK
<1> QED BY <1>1, SetQueueKeeps, QueueOnly DEF KernelInv

LEMMA ListDirKeeps ==
  ASSUME KernelInv, NEW i \in Dirs, ListDir(i)
  PROVE  KernelInv' /\ Announces
<1>1. Announces /\ kq' \in Seq(Events) /\ lost' \in BOOLEAN
  BY ChildKeeps DEF ListDir, There, Inodes, EventKinds
<1> QED
  BY <1>1
     DEF KernelInv, KernelTypeOK, MarksUnique, WritingLive, There, Live, ListDir, Op

LEMMA CreateFileKeeps ==
  ASSUME KernelInv, NEW w \in Writers, NEW p \in Dirs, NEW n \in Names,
         CreateFile(w, p, n)
  PROVE  KernelInv' /\ Announces
<1> DEFINE place == Append(loc[p], n)
           q == PostAt(kq, loc[p], "CREATE", FALSE, 0, n)
<1>1. KernelTypeOK /\ MarksUnique /\ WritingLive
  BY DEF KernelInv
<1>2. place \in Seq(AllNames) /\ place # <<>>
  BY <1>1, NewPlaceType DEF Inodes
<1>3. Grows(kq, q) /\ SetQueue(q) /\ UNCHANGED marks
  BY <1>1, PostAtGrows DEF CreateFile, KernelTypeOK, EventKinds, AllNames
<1>4. PICK f \in Files : /\ loc' = [loc EXCEPT ![f] = place]
                         /\ writing' = [writing EXCEPT ![w] = f]
                         /\ UNCHANGED unlinked
  BY DEF CreateFile
<1>5. KernelTypeOK'
  <2>1. loc' \in [Inodes -> Seq(AllNames)]
    BY <1>1, <1>2, <1>4 DEF KernelTypeOK, Inodes
  <2>2. kq' \in Seq(Events) /\ lost' \in BOOLEAN
    BY <1>1, <1>3, SetQueueKeeps
  <2> QED BY <1>1, <1>4, <2>1, <2>2 DEF CreateFile, Op, KernelTypeOK
<1>6. MarksUnique' /\ WritingLive'
  BY <1>1, <1>2, <1>3, <1>4, InodesAssumption
     DEF KernelTypeOK, MarksUnique, WritingLive, There, Live, Gone, Inodes
<1> QED BY <1>3, <1>5, <1>6, QueueOnly DEF KernelInv

LEMMA OpenFileKeeps ==
  ASSUME KernelInv, NEW w \in Writers, NEW f \in Files, OpenFile(w, f)
  PROVE  KernelInv' /\ Announces
<1>1. Announces /\ kq' \in Seq(Events) /\ lost' \in BOOLEAN
  BY ChildKeeps DEF OpenFile, There, Inodes, EventKinds
<1> QED
  BY <1>1
     DEF KernelInv, KernelTypeOK, MarksUnique, WritingLive, There, Live, OpenFile, Op

LEMMA WriteFileKeeps ==
  ASSUME KernelInv, NEW w \in Writers, WriteFile(w)
  PROVE  KernelInv' /\ Announces
<1>1. writing[w] \in Files /\ There(writing[w])
  BY DEF KernelInv, KernelTypeOK, WritingLive, WriteFile
<1>2. Announces /\ kq' \in Seq(Events) /\ lost' \in BOOLEAN
  BY <1>1, ChildKeeps DEF WriteFile, Modify, Inodes, EventKinds
<1> QED
  BY <1>1, <1>2
     DEF KernelInv, KernelTypeOK, MarksUnique, WritingLive, There, Live, WriteFile,
         Modify, Op

LEMMA CloseFileKeeps ==
  ASSUME KernelInv, NEW w \in Writers, CloseFile(w)
  PROVE  KernelInv' /\ Announces
<1>1. writing[w] \in Files /\ There(writing[w])
  BY DEF KernelInv, KernelTypeOK, WritingLive, CloseFile
<1>2. Announces /\ kq' \in Seq(Events) /\ lost' \in BOOLEAN
  BY <1>1, ChildKeeps DEF CloseFile, Inodes, EventKinds
<1> QED
  BY <1>1, <1>2
     DEF KernelInv, KernelTypeOK, MarksUnique, WritingLive, There, Live, CloseFile, Op

LEMMA TruncateKeeps ==
  ASSUME KernelInv, NEW f \in Files, Truncate(f)
  PROVE  KernelInv' /\ Announces
<1>1. Announces /\ kq' \in Seq(Events) /\ lost' \in BOOLEAN
  BY ChildKeeps DEF Truncate, Modify, There, Inodes, EventKinds
<1> QED
  BY <1>1
     DEF KernelInv, KernelTypeOK, MarksUnique, WritingLive, There, Live, Truncate,
         Modify, Op

(* A file loses its name, and goes with its watch unless it is open.       *)
LEMMA DroppedGrows ==
  ASSUME KernelInv, NEW q \in Seq(Events), NEW f
  PROVE  Grows(q, Dropped(q, f))
  BY PostGoneGrows, GrowsRefl DEF KernelInv, Dropped, EventKinds

LEMMA LoseNameAnnounces ==
  ASSUME KernelInv, NEW f \in Files, NEW p, LoseName(f, p),
         NEW q \in Seq(Events), NEW r, Grows(kq, q),
         Grows(Dropped(q, f), r), SetQueue(r)
  PROVE  Announces /\ kq' \in Seq(Events) /\ lost' \in BOOLEAN
<1>1. CASE IsOpen(f)
  <2>1. Grows(q, r) /\ UNCHANGED marks /\ kq \in Seq(Events)
    BY <1>1 DEF Dropped, LoseName, KernelInv, KernelTypeOK
  <2>2. Grows(kq, r)
    BY <2>1, GrowsTrans
  <2> QED BY <2>1, <2>2, SetQueueKeeps, QueueOnly DEF KernelInv
<1>2. CASE ~IsOpen(f)
  <2>1. Grows(PostGone(q, f, "DELETE_SELF"), r) /\ marks' = Unmarked(f)
        /\ "DELETE_SELF" \in EventKinds
    BY <1>2 DEF Dropped, LoseName, EventKinds
  <2>2. Announces /\ Grows(kq, r)
    BY <2>1, GoneKeeps
  <2> QED BY <2>2, SetQueueKeeps DEF KernelInv
<1> QED BY <1>1, <1>2

(* The types of what LoseName leaves.                                      *)
LEMMA LoseNameKeeps ==
  ASSUME KernelInv, NEW f \in Files, NEW p \in Dirs, LoseName(f, p),
         UNCHANGED nextWd
  PROVE  /\ MarksUnique'
         /\ DOMAIN marks' \subseteq 0..(nextWd' - 1)
         /\ marks' \in [DOMAIN marks' -> Inodes]
         /\ DOMAIN unlinked' \subseteq Files
         /\ unlinked' \in [DOMAIN unlinked' -> [dir : Dirs, name : AllNames]]
         /\ dirty' \subseteq Files
         /\ \A g \in DOMAIN unlinked : g \in DOMAIN unlinked'
         /\ \A g \in DOMAIN unlinked' : unlinked'[g].dir = p \/
              (g \in DOMAIN unlinked /\ unlinked'[g].dir = unlinked[g].dir)
         /\ IsOpen(f) => f \in DOMAIN unlinked'
<1>1. /\ MarksUnique'
      /\ DOMAIN marks' \subseteq 0..(nextWd' - 1)
      /\ marks' \in [DOMAIN marks' -> Inodes]
  <2>1. CASE IsOpen(f)
    BY <2>1 DEF LoseName, KernelInv, KernelTypeOK, MarksUnique
  <2>2. CASE ~IsOpen(f)
    BY <2>2, UnmarkedKeeps DEF LoseName
  <2> QED BY <2>1, <2>2
<1>2. Last(loc[f]) \in AllNames
  BY LastType DEF LoseName, KernelInv, Inodes
<1> DEFINE D == DOMAIN unlinked \cup IF IsOpen(f) THEN {f} ELSE {}
           e == [dir |-> p, name |-> Last(loc[f])]
<1>3. unlinked' = [g \in D |-> IF g = f THEN e ELSE unlinked[g]]
  BY DEF LoseName
<1>4. e \in [dir : Dirs, name : AllNames] /\ e.dir = p
  BY <1>2
<1>5. D \subseteq Files /\ DOMAIN unlinked \subseteq D
      /\ (\A g \in D : g = f \/ g \in DOMAIN unlinked)
      /\ (IsOpen(f) => f \in D)
  BY DEF KernelInv, KernelTypeOK
<1>6. unlinked \in [DOMAIN unlinked -> [dir : Dirs, name : AllNames]]
      /\ dirty' \subseteq Files
  BY DEF KernelInv, KernelTypeOK, LoseName
<1> HIDE DEF D, e
<1>7. DOMAIN unlinked' = D
  BY <1>3
<1>8. ASSUME NEW g \in D
      PROVE  /\ unlinked'[g] \in [dir : Dirs, name : AllNames]
             /\ unlinked'[g].dir = p \/
                 (g \in DOMAIN unlinked /\ unlinked'[g].dir = unlinked[g].dir)
  BY <1>3, <1>4, <1>5, <1>6
<1>9. unlinked' \in [D -> [dir : Dirs, name : AllNames]]
  BY <1>3, <1>8
<1> QED BY <1>1, <1>5, <1>6, <1>7, <1>8, <1>9

LEMMA UnlinkKeeps ==
  ASSUME KernelInv, NEW f \in Files, NEW p \in Dirs, Unlink(f, p)
  PROVE  KernelInv' /\ Announces
<1> DEFINE Parent(q) == PostAt(q, loc[p], "DELETE", FALSE, 0, Last(loc[f]))
           a == PostSelf(kq, f, "OPEN", FALSE)
<1>1. /\ KernelTypeOK /\ MarksUnique /\ WritingLive /\ kq \in Seq(Events)
      /\ LoseName(f, p) /\ Live(f) /\ Live(p) /\ UNCHANGED nextWd
      /\ Last(loc[f]) \in AllNames
  BY LastType DEF KernelInv, KernelTypeOK, Unlink, LoseName, Inodes
<1>2. Grows(kq, a) /\ a \in Seq(Events)
  BY <1>1, PostSelfGrows DEF EventKinds, Grows
<1>3. \A q \in Seq(Events) : Grows(q, Parent(q)) /\ Parent(q) \in Seq(Events)
  BY <1>1, PostAtGrows DEF EventKinds, Grows
<1>4. Announces /\ kq' \in Seq(Events) /\ lost' \in BOOLEAN
  <2>1. CASE SetQueue(Parent(Dropped(a, f)))
    <3>1. Dropped(a, f) \in Seq(Events)
      BY <1>2, DroppedGrows DEF Grows
    <3> HIDE DEF a
    <3>2. Grows(Dropped(a, f), Parent(Dropped(a, f)))
      BY <1>3, <3>1
    <3> HIDE DEF Parent
    <3> QED BY <1>1, <1>2, <2>1, <3>2, LoseNameAnnounces
  <2>2. CASE SetQueue(Dropped(Parent(a), f))
    <3> HIDE DEF a
    <3>1. Grows(a, Parent(a)) /\ Parent(a) \in Seq(Events)
      BY <1>2, <1>3
    <3> HIDE DEF Parent
    <3>2. Grows(kq, Parent(a))
      BY <1>1, <1>2, <3>1, GrowsTrans
    <3>3. Dropped(Parent(a), f) \in Seq(Events)
      BY <3>1, DroppedGrows DEF Grows
    <3> QED BY <1>1, <2>2, <3>1, <3>2, <3>3, GrowsRefl, LoseNameAnnounces
  <2> QED BY <2>1, <2>2 DEF Unlink
<1>5. loc' = [loc EXCEPT ![f] = Gone] /\ UNCHANGED <<writing, used, cookie, nextWd>>
      /\ ops' = ops + 1
  BY DEF Unlink, Op
<1>6. KernelTypeOK'
  <2>1. loc' \in [Inodes -> Seq(AllNames)]
    BY <1>1, <1>5, GoneType DEF KernelTypeOK, Inodes
  <2>2. ops' \in Nat /\ cookie' \in Nat /\ writing' \in [Writers -> Files \cup {None}]
        /\ nextWd' \in Nat
    BY <1>1, <1>5 DEF KernelTypeOK
  <2> QED BY <1>1, <1>4, <2>1, <2>2, LoseNameKeeps DEF KernelTypeOK
<1>7. MarksUnique' /\ WritingLive'
  <2>1. \A d \in Dirs : Live(d) => Live(d)'
    BY <1>1, <1>5, InodesAssumption DEF Live, KernelTypeOK, Inodes
  <2>2. ASSUME NEW w \in Writers, writing[w] # None PROVE There(writing[w])'
    <3>1. writing[w] \in Files /\ There(writing[w])
      BY <1>1, <2>2 DEF WritingLive, KernelTypeOK
    <3>2. CASE writing[w] = f
      BY <1>1, <1>5, <3>2, LoseNameKeeps DEF IsOpen, There
    <3>3. CASE writing[w] # f
      BY <1>1, <1>5, <3>1, <3>3, LoseNameKeeps DEF There, Live, KernelTypeOK, Inodes
    <3> QED BY <3>2, <3>3
  <2>3. ASSUME NEW g \in DOMAIN unlinked' PROVE loc'[unlinked'[g].dir] # Gone
    <3>1. unlinked'[g].dir = p \/
            (g \in DOMAIN unlinked /\ unlinked'[g].dir = unlinked[g].dir)
      BY <1>1, LoseNameKeeps
    <3>2. unlinked'[g].dir \in Dirs /\ Live(unlinked'[g].dir)
      BY <1>1, <3>1 DEF KernelTypeOK, WritingLive
    <3> QED BY <2>1, <3>2 DEF Live
  <2>4. UNCHANGED writing
    BY <1>5
  <2> QED BY <1>1, <2>2, <2>3, <2>4, LoseNameKeeps DEF WritingLive, Live
<1> QED BY <1>4, <1>6, <1>7 DEF KernelInv

LEMMA ReplaceKeeps ==
  ASSUME KernelInv, NEW f \in Files, NEW g \in Files, NEW p \in Dirs,
         Replace(f, g, p)
  PROVE  KernelInv' /\ Announces
<1> DEFINE ck == cookie + 1
           from == PostAt(kq, Front(loc[f]), "MOVED_FROM", FALSE, ck, Last(loc[f]))
           to == PostAt(from, loc[p], "MOVED_TO", FALSE, ck, Last(loc[g]))
           attrib == PostSelf(to, g, "OPEN", FALSE)
           self == PostSelf(attrib, f, "MOVE_SELF", FALSE)
<1>1. /\ KernelTypeOK /\ MarksUnique /\ WritingLive /\ kq \in Seq(Events)
      /\ LoseName(g, p) /\ Live(f) /\ Live(g) /\ Live(p) /\ f # g
      /\ UNCHANGED nextWd
      /\ Last(loc[f]) \in AllNames /\ Last(loc[g]) \in AllNames /\ ck \in Nat
      /\ {"MOVED_FROM", "MOVED_TO", "MOVE_SELF", "OPEN"} \subseteq EventKinds
  BY LastType DEF KernelInv, KernelTypeOK, Replace, LoseName, Inodes, EventKinds
<1>2. Grows(kq, self)
  <2>1. Grows(kq, from) /\ from \in Seq(Events)
    BY <1>1, PostAtGrows DEF Grows
  <2>2. Grows(from, to) /\ to \in Seq(Events)
    BY <1>1, <2>1, PostAtGrows DEF Grows
  <2>3. Grows(to, attrib) /\ attrib \in Seq(Events)
    BY <1>1, <2>2, PostSelfGrows DEF Grows
  <2>4. Grows(attrib, self)
    BY <1>1, <2>3, PostSelfGrows
  <2> HIDE DEF from, to, attrib, self
  <2> QED BY <1>1, <2>1, <2>2, <2>3, <2>4, GrowsTrans
<1>3. SetQueue(Dropped(self, g))
  BY DEF Replace
<1> HIDE DEF self
<1>4. Announces /\ kq' \in Seq(Events) /\ lost' \in BOOLEAN
  <2>1. self \in Seq(Events) /\ Dropped(self, g) \in Seq(Events)
    BY <1>2, DroppedGrows DEF Grows
  <2> QED BY <1>1, <1>2, <1>3, <2>1, GrowsRefl, LoseNameAnnounces
<1>5. loc' = [loc EXCEPT ![f] = loc[g], ![g] = Gone] /\ UNCHANGED <<writing, nextWd>>
      /\ ops' = ops + 1 /\ cookie' = ck
  BY DEF Replace, Op
<1>6. KernelTypeOK'
  <2>1. loc' \in [Inodes -> Seq(AllNames)]
    BY <1>1, <1>5, GoneType DEF KernelTypeOK, Inodes
  <2>2. ops' \in Nat /\ cookie' \in Nat /\ writing' \in [Writers -> Files \cup {None}]
        /\ nextWd' \in Nat
    BY <1>1, <1>5 DEF KernelTypeOK
  <2> QED BY <1>1, <1>4, <2>1, <2>2, LoseNameKeeps DEF KernelTypeOK
<1>7. MarksUnique' /\ WritingLive'
  <2>1. \A d \in Inodes : d # g /\ Live(d) => Live(d)'
    BY <1>1, <1>5 DEF Live, KernelTypeOK, Inodes
  <2>2. ASSUME NEW w \in Writers, writing[w] # None PROVE There(writing[w])'
    <3>1. writing[w] \in Files /\ There(writing[w])
      BY <1>1, <2>2 DEF WritingLive, KernelTypeOK
    <3>2. CASE writing[w] = g
      BY <1>1, <1>5, <3>2, LoseNameKeeps DEF IsOpen, There
    <3>3. CASE writing[w] # g
      <4>1. writing' = writing
        BY <1>5
      <4> QED BY <1>1, <2>1, <3>1, <3>3, <4>1, LoseNameKeeps DEF There, Inodes
    <3> QED BY <3>2, <3>3
  <2>3. ASSUME NEW h \in DOMAIN unlinked' PROVE loc'[unlinked'[h].dir] # Gone
    <3>1. unlinked'[h].dir = p \/
            (h \in DOMAIN unlinked /\ unlinked'[h].dir = unlinked[h].dir)
      BY <1>1, LoseNameKeeps
    <3>2. unlinked'[h].dir \in Dirs /\ Live(unlinked'[h].dir)
      BY <1>1, <3>1 DEF KernelTypeOK, WritingLive
    <3> QED BY <2>1, <3>2, InodesAssumption DEF Inodes, Live
  <2>4. UNCHANGED writing
    BY <1>5
  <2> QED BY <1>1, <2>2, <2>3, <2>4, LoseNameKeeps DEF WritingLive, Live
<1> QED BY <1>4, <1>6, <1>7 DEF KernelInv

LEMMA CloseUnlinkedKeeps ==
  ASSUME KernelInv, NEW w \in Writers, CloseUnlinked(w)
  PROVE  KernelInv' /\ Announces
<1> DEFINE f == writing[w]
           q == PostChild(kq, f, "CLOSE_WRITE")
           r == PostGone(q, f, "DELETE_SELF")
<1>1. /\ KernelTypeOK /\ MarksUnique /\ WritingLive /\ kq \in Seq(Events)
      /\ f \in Files /\ f \in DOMAIN unlinked /\ There(f) /\ f \in Inodes
      /\ \A v \in Writers : v # w => writing[v] # f
      /\ {"CLOSE_WRITE", "DELETE_SELF"} \subseteq EventKinds
  BY DEF KernelInv, KernelTypeOK, CloseUnlinked, LastClose, There, Inodes, EventKinds
<1>2. /\ writing' = [writing EXCEPT ![w] = None]
      /\ unlinked' = [g \in DOMAIN unlinked \ {f} |-> unlinked[g]]
      /\ SetQueue(r) /\ marks' = Unmarked(f) /\ ops' = ops + 1
      /\ UNCHANGED <<loc, used, cookie, nextWd, dirty>>
  BY DEF CloseUnlinked, Op
<1> HIDE DEF f
<1>3. Grows(kq, q) /\ q \in Seq(Events)
  BY <1>1, PostChildGrows DEF Grows
<1>4. Grows(r, r)
  BY <1>1, <1>3, PostGoneGrows, GrowsRefl DEF Grows
<1>5. Announces /\ Grows(kq, r)
  BY <1>1, <1>2, <1>3, <1>4, GoneKeeps
<1>6. kq' \in Seq(Events) /\ lost' \in BOOLEAN
  BY <1>1, <1>2, <1>5, SetQueueKeeps
<1>7. KernelTypeOK' /\ MarksUnique'
  BY <1>1, <1>2, <1>6, UnmarkedKeeps DEF KernelTypeOK
<1>8. WritingLive'
  BY <1>1, <1>2 DEF KernelTypeOK, WritingLive, There, Live
<1> QED BY <1>5, <1>7, <1>8 DEF KernelInv

(* Every step of the other processes: the invariant of the environment     *)
(* holds on, no record is dropped and every watch that ends is announced,  *)
(* unless the queue overflows.                                             *)
THEOREM OtherProcessesKeep ==
  ASSUME KernelInv, OtherProcesses
  PROVE  KernelInv' /\ Announces
  BY MkdirKeeps, RmdirKeeps, UnmountKeeps, RenameKeeps, ListDirKeeps,
     CreateFileKeeps, OpenFileKeeps, WriteFileKeeps, CloseFileKeeps,
     TruncateKeeps, CloseUnlinkedKeeps, UnlinkKeeps, ReplaceKeeps
     DEF OtherProcesses

-----------------------------------------------------------------------------
(* The system calls of the tool.  They leave the tree alone.               *)
LEMMA AddWatchKeeps ==
  ASSUME KernelInv, NEW path, CanWatch(path), AddWatch(path),
         UNCHANGED <<fsVars, dirty>>
  PROVE  /\ KernelInv'
         /\ Announces
         /\ AddedWd(path) \in DOMAIN marks' /\ AddedWd(path) \in Nat
<1> DEFINE t == Target(path)
<1>1. t \in Inodes
  BY DEF CanWatch, Target, At
<1>2. KernelTypeOK /\ MarksUnique /\ WritingLive /\ Extends(kq, kq)
  BY GrowsRefl DEF KernelInv, KernelTypeOK, Grows
<1>3. CASE Marked(t)
  <2>1. AddedWd(path) \in DOMAIN marks /\ marks[AddedWd(path)] = t
    BY <1>3 DEF AddedWd, Marked
  <2>2. AddedWd(path) \in Nat /\ AddedWd(path) # nextWd
    BY <1>2, <2>1 DEF KernelTypeOK
  <2>3. marks' = marks /\ nextWd' = nextWd
    <3> DEFINE v == AddedWd(path)
    <3>1. v \in DOMAIN marks /\ marks[v] = t /\ v # nextWd
      BY <2>1, <2>2
    <3>2. marks' = [wd \in DOMAIN marks \cup {v} |->
                      IF wd = v THEN t ELSE marks[wd]]
          /\ nextWd' = IF v = nextWd THEN nextWd + 1 ELSE nextWd
      BY DEF AddWatch
    <3>3. marks = [wd \in DOMAIN marks |-> marks[wd]]
      BY <1>2 DEF KernelTypeOK
    <3> HIDE DEF v, t
    <3> QED BY <3>1, <3>2, <3>3
  <2> QED
    BY <1>2, <2>1, <2>2, <2>3
       DEF KernelInv, KernelTypeOK, MarksUnique, WritingLive, There, Live, AddWatch,
           fsVars, Announces
<1>4. CASE ~Marked(t)
  <2>1. AddedWd(path) = nextWd
    BY <1>4 DEF AddedWd
  <2>2. marks' = [wd \in DOMAIN marks \cup {nextWd} |->
                    IF wd = nextWd THEN t ELSE marks[wd]]
        /\ nextWd' = nextWd + 1 /\ UNCHANGED <<kq, lost, fsVars, dirty>>
    BY <2>1 DEF AddWatch
  <2>3. nextWd \notin DOMAIN marks /\ \A wd \in DOMAIN marks : marks[wd] # t
    BY <1>2, <1>4 DEF KernelTypeOK, Marked
  <2>4. KernelTypeOK'
    <3> HIDE DEF t
    <3> QED BY <1>1, <1>2, <2>2 DEF KernelTypeOK, fsVars
  <2>5. MarksUnique'
    <3> HIDE DEF t
    <3> QED BY <1>2, <2>2, <2>3 DEF MarksUnique
  <2>6. WritingLive' /\ Announces
    BY <1>2, <2>2 DEF WritingLive, There, Live, fsVars, Announces
  <2> QED BY <1>2, <2>1, <2>2, <2>4, <2>5, <2>6 DEF KernelInv, KernelTypeOK
<1> QED BY <1>3, <1>4

LEMMA RmWatchKeeps ==
  ASSUME KernelInv, NEW wd, RmWatch(wd), UNCHANGED <<fsVars, dirty>>
  PROVE  KernelInv' /\ Announces
<1>1. KernelTypeOK /\ MarksUnique /\ WritingLive /\ kq \in Seq(Events)
      /\ MaxQueued \in Nat
  BY BoundsAssumption DEF KernelInv, KernelTypeOK
<1>2. marks' = [v \in DOMAIN marks \ {wd} |-> marks[v]] /\ UNCHANGED nextWd
  BY DEF RmWatch
<1>3. kq' \in Seq(Events) /\ lost' \in BOOLEAN /\ Announces
  <2>1. CASE wd \in DOMAIN marks
    <3> DEFINE q == Enqueue(kq, Ignored(wd))
    <3>1. wd \in Int /\ "IGNORED" \in EventKinds
      BY <1>1, <2>1 DEF KernelTypeOK, EventKinds
    <3>2. Ignored(wd) \in Events
      BY <3>1, EventType DEF Ignored
    <3>3. Grows(kq, q) /\ (Ignored(wd) \in Records(q) \/ Len(q) > MaxQueued)
      BY <1>1, <3>2, EnqueueGrows
    <3>4. SetQueue(q)
      BY <2>1 DEF RmWatch, Ignored
    <3>5. kq' = q /\ lost' = (lost \/ Len(q) > MaxQueued)
      BY <3>4 DEF SetQueue
    <3> HIDE DEF q
    <3> QED BY <1>1, <1>2, <3>3, <3>4, <3>5, SetQueueKeeps DEF Announces
  <2>2. CASE wd \notin DOMAIN marks
    <3>1. SetQueue(kq) /\ Grows(kq, kq)
      BY <1>1, <2>2, GrowsRefl DEF RmWatch
    <3> QED BY <1>1, <1>2, <2>2, <3>1, SetQueueKeeps DEF Announces
  <2> QED BY <2>1, <2>2
<1>4. KernelTypeOK'
  BY <1>1, <1>2, <1>3 DEF KernelTypeOK, fsVars
<1>5. MarksUnique' /\ WritingLive'
  BY <1>1, <1>2 DEF MarksUnique, WritingLive, There, Live, fsVars
<1> QED BY <1>3, <1>4, <1>5 DEF KernelInv

LEMMA OpendirKeeps ==
  ASSUME KernelInv, NEW path, CanOpen(path), Opendir(path),
         UNCHANGED <<fsVars, dirty>>
  PROVE  KernelInv' /\ Announces
<1>1. Target(path) \in Inodes /\ There(Target(path))
  BY DEF CanOpen, Target, At, There
<1>2. Announces /\ kq' \in Seq(Events) /\ lost' \in BOOLEAN
  BY <1>1, ChildKeeps DEF Opendir, EventKinds
<1> QED
  BY <1>2
     DEF KernelInv, KernelTypeOK, MarksUnique, WritingLive, There, Live, Opendir,
         fsVars

LEMMA NewInstanceKeeps ==
  ASSUME KernelInv, NewInstance, UNCHANGED fsVars
  PROVE  KernelInv'
  BY DEF KernelInv, KernelTypeOK, MarksUnique, WritingLive, There, Live, NewInstance,
         NoWatches, fsVars

(* What readdir returns are names.                                         *)
LEMMA ListingType ==
  ASSUME KernelTypeOK, NEW path
  PROVE  Listing(path) \subseteq AllNames
  BY LastType DEF Listing, Children

-----------------------------------------------------------------------------
(* Induction, by a smallest counterexample.                                *)
LEMMA NatMin ==
  ASSUME NEW T \in SUBSET Nat, T # {}
  PROVE  \E m \in T : \A k \in T : m <= k
<1>1. IsWellFoundedOn(OpToRel(<, Nat), Nat)
  BY NatLessThanWellFounded
<1>2. PICK m \in T : \A k \in T : ~(<<k, m>> \in OpToRel(<, Nat))
  BY <1>1, WFMin
<1>3. \A k \in T : ~(k < m)
  BY <1>2 DEF OpToRel
<1>4. \A k \in T : k \in Nat
  OBVIOUS
<1>5. \A k \in T : m <= k
  BY <1>3, <1>4
<1> QED BY <1>5

(* A value that is computed step by step is there for every number of      *)
(* steps.                                                                  *)
Runs(h, N, X, x, step) ==
  /\ h \in [0..N -> X]
  /\ h[0] = x
  /\ \A i \in 1..N : h[i] = step[i][h[i - 1]]

LEMMA Iteration ==
  ASSUME NEW X, NEW x \in X, NEW step \in [Nat -> [X -> X]], NEW N \in Nat
  PROVE  \E h : Runs(h, N, X, x, step)
<1> DEFINE T == {n \in Nat : ~\E h : Runs(h, n, X, x, step)}
<1> SUFFICES T = {}
  OBVIOUS
<1> SUFFICES ASSUME T # {} PROVE FALSE
  OBVIOUS
<1>1. PICK m \in T : \A k \in T : m <= k
  BY NatMin
<1>2. m # 0
  <2>1. Runs([i \in 0..0 |-> x], 0, X, x, step)
    BY DEF Runs
  <2> QED BY <1>1, <2>1
<1>3. m - 1 \in Nat /\ ~(m <= m - 1)
  BY <1>1, <1>2
<1>4. PICK g : Runs(g, m - 1, X, x, step)
  BY <1>1, <1>3
<1> DEFINE h == [i \in 0..m |-> IF i = m THEN step[m][g[m - 1]] ELSE g[i]]
<1>5. /\ m \in Nat /\ \A i \in 0..m : i = m \/ i \in 0..(m - 1)
      /\ m - 1 \in 0..(m - 1) /\ 0 \in 0..m /\ m \in 0..m
  BY <1>1, <1>3
<1>6. g[m - 1] \in X /\ step[m][g[m - 1]] \in X
  BY <1>4, <1>5 DEF Runs
<1>7. h \in [0..m -> X]
  BY <1>4, <1>5, <1>6 DEF Runs
<1>8. h[0] = x
  BY <1>2, <1>4, <1>5 DEF Runs
<1>9. ASSUME NEW i \in 1..m PROVE h[i] = step[i][h[i - 1]]
  <2>1. /\ i \in 0..m /\ i - 1 \in 0..m /\ i - 1 # m
        /\ i # m => i \in 1..(m - 1)
    BY <1>5
  <2> QED BY <2>1, <1>4 DEF Runs
<1> HIDE DEF h
<1>10. Runs(h, m, X, x, step)
  BY <1>7, <1>8, <1>9 DEF Runs
<1> QED BY <1>1, <1>10

(* There is one such value only.                                           *)
LEMMA IterationUnique ==
  ASSUME NEW N \in Nat, NEW g, NEW h, NEW step,
         g[0] = h[0],
         \A i \in 1..N : g[i] = step[i][g[i - 1]] /\ h[i] = step[i][h[i - 1]]
  PROVE  \A i \in 0..N : g[i] = h[i]
<1> DEFINE T == {i \in 0..N : g[i] # h[i]}
<1> SUFFICES ASSUME T # {} PROVE FALSE
  OBVIOUS
<1>0. T \in SUBSET Nat
  OBVIOUS
<1>1. PICK m \in T : \A k \in T : m <= k
  BY <1>0, NatMin
<1>2. m # 0 /\ m \in 0..N
  BY <1>1
<1>3. m \in 1..N /\ m - 1 \in 0..N /\ ~(m <= m - 1)
  BY <1>2
<1>4. g[m - 1] = h[m - 1]
  BY <1>1, <1>3
<1> QED BY <1>1, <1>3, <1>4


-----------------------------------------------------------------------------
(* FlattenSeq of the community modules, and with it PathString: the last   *)
(* name is put behind the string of the names before it.                   *)
Flattens(h, seqs, S) ==
  /\ h \in [0..Len(seqs) -> Seq(S)]
  /\ h[0] = <<>>
  /\ \A i \in 1..Len(seqs) : h[i] = h[i - 1] \o seqs[i]

LEMMA FlattenRuns ==
  ASSUME NEW S, NEW seqs \in Seq(Seq(S))
  PROVE  \E h : Flattens(h, seqs, S)
<1> DEFINE N == Len(seqs)
           step == [i \in Nat |-> [s \in Seq(S) |->
                      IF i \in 1..N THEN s \o seqs[i] ELSE s]]
<1>1. N \in Nat /\ \A i \in 1..N : seqs[i] \in Seq(S)
  BY ElementOfSeq
<1>2. <<>> \in Seq(S)
  BY EmptySeq
<1>3. \A i \in Nat, s \in Seq(S) :
        (IF i \in 1..N THEN s \o seqs[i] ELSE s) \in Seq(S)
  BY <1>1, ConcatProperties
<1>4. step \in [Nat -> [Seq(S) -> Seq(S)]]
  BY <1>3
<1> HIDE DEF N
<1>5. PICK h : Runs(h, N, Seq(S), <<>>, step)
  BY <1>1, <1>2, <1>4, Iteration
<1>6. ASSUME NEW i \in 1..N PROVE h[i] = h[i - 1] \o seqs[i]
  <2>1. i - 1 \in 0..N /\ i \in Nat
    BY <1>1
  <2>2. h[i - 1] \in Seq(S)
    BY <1>5, <2>1 DEF Runs
  <2> QED BY <1>5, <2>1, <2>2 DEF Runs
<1>7. h \in [0..N -> Seq(S)] /\ h[0] = <<>>
  BY <1>5 DEF Runs
<1> QED BY <1>6, <1>7 DEF Flattens, N

LEMMA FlattenIs ==
  ASSUME NEW S, NEW seqs \in Seq(Seq(S)), seqs # <<>>, NEW h, Flattens(h, seqs, S)
  PROVE  FlattenSeq(seqs) = h[Len(seqs)]
<1> DEFINE N == Len(seqs)
           Eq(f) == f = [i \in 1..N |-> IF i = 1 THEN seqs[i] ELSE f[i - 1] \o seqs[i]]
           f == CHOOSE f : Eq(f)
           g == [i \in 1..N |-> h[i]]
<1>1. N \in Nat \ {0}
  BY EmptySeq
<1>2. FlattenSeq(seqs) = f[N]
  BY <1>1 DEF FlattenSeq
<1>3. 1 \in 1..N /\ h[1] = seqs[1]
  <2>1. 1 \in 1..N /\ 1 - 1 = 0
    BY <1>1
  <2>2. seqs[1] \in Seq(S)
    BY <2>1, ElementOfSeq
  <2>3. h[1] = h[1 - 1] \o seqs[1] /\ h[0] = <<>>
    BY <2>1 DEF Flattens
  <2> QED BY <2>1, <2>2, <2>3, ConcatEmptySeq
<1>4. \A i \in 1..N : i = 1 \/ i - 1 \in 1..N
  BY <1>1
<1>5. \A i \in 1..N : h[i] = IF i = 1 THEN seqs[i] ELSE g[i - 1] \o seqs[i]
  BY <1>3, <1>4 DEF Flattens
<1>6. Eq(g)
  BY <1>5
<1>7. Eq(f)
  BY <1>6
<1> HIDE DEF f
<1>8. \A i \in 1..N : f[i] = IF i = 1 THEN seqs[i] ELSE f[i - 1] \o seqs[i]
  BY <1>7
<1> DEFINE T == {i \in 1..N : f[i] # h[i]}
<1>9. T = {}
  <2> SUFFICES ASSUME T # {} PROVE FALSE
    OBVIOUS
  <2>1. T \in SUBSET Nat
    BY <1>1
  <2> HIDE DEF N
  <2>2. PICK m \in T : \A k \in T : m <= k
    BY <2>1, NatMin
  <2>3. m \in 1..N /\ m # 1 /\ f[m] # h[m]
    BY <1>3, <1>8, <2>2
  <2>4. m - 1 \in 1..N /\ ~(m <= m - 1)
    BY <1>1, <1>4, <2>3
  <2>5. f[m - 1] = h[m - 1]
    BY <2>2, <2>4
  <2>6. h[m] = h[m - 1] \o seqs[m]
    BY <2>3 DEF Flattens, N
  <2>7. f[m] = f[m - 1] \o seqs[m]
    BY <1>8, <2>3
  <2> QED BY <2>3, <2>5, <2>6, <2>7
<1> QED BY <1>1, <1>2, <1>9

LEMMA FlattenAppend ==
  ASSUME NEW S, NEW seqs \in Seq(Seq(S)), NEW s \in Seq(S)
  PROVE  /\ FlattenSeq(seqs) \in Seq(S)
         /\ FlattenSeq(Append(seqs, s)) = FlattenSeq(seqs) \o s
<1> DEFINE r == Append(seqs, s)
           N == Len(seqs)
<1>1. /\ r \in Seq(Seq(S)) /\ Len(r) = N + 1 /\ r[N + 1] = s /\ r # <<>>
      /\ N \in Nat /\ \A i \in 1..N : r[i] = seqs[i]
  BY AppendProperties
<1> HIDE DEF r
<1>2. PICK h : Flattens(h, r, S)
  BY <1>1, FlattenRuns
<1>3. FlattenSeq(r) = h[N + 1]
  BY <1>1, <1>2, FlattenIs
<1>4. /\ N + 1 \in 1..(N + 1) /\ (N + 1) - 1 = N /\ N \in 0..(N + 1)
      /\ \A i \in 0..N : i \in 0..(N + 1)
      /\ \A i \in 1..N : i \in 1..(N + 1) /\ i \in 0..N /\ i - 1 \in 0..N
      /\ 0 \in 0..N
  BY <1>1
<1>5. h[N + 1] = h[N] \o s /\ h[N] \in Seq(S)
  BY <1>1, <1>2, <1>4 DEF Flattens
<1>6. h[N] = FlattenSeq(seqs)
  <2>1. CASE seqs = <<>>
    <3>1. N = 0 /\ FlattenSeq(seqs) = <<>>
      BY <2>1, EmptySeq DEF FlattenSeq
    <3> QED BY <1>2, <3>1 DEF Flattens
  <2>2. CASE seqs # <<>>
    <3> DEFINE g == [i \in 0..N |-> h[i]]
    <3>0. g \in [0..N -> Seq(S)] /\ g[0] = <<>>
      BY <1>1, <1>2, <1>4 DEF Flattens
    <3>1. ASSUME NEW i \in 1..N PROVE g[i] = g[i - 1] \o seqs[i]
      <4>1. i \in 1..(N + 1) /\ i \in 0..N /\ i - 1 \in 0..N /\ r[i] = seqs[i]
        BY <1>1, <1>4
      <4>2. h[i] = h[i - 1] \o r[i]
        BY <1>1, <1>2, <4>1 DEF Flattens
      <4> QED BY <4>1, <4>2
    <3> HIDE DEF g
    <3>2. Flattens(g, seqs, S)
      BY <3>0, <3>1 DEF Flattens
    <3>3. FlattenSeq(seqs) = g[N]
      BY <2>2, <3>2, FlattenIs
    <3> QED BY <1>1, <1>4, <3>3 DEF g
  <2> QED BY <2>1, <2>2
<1> QED BY <1>3, <1>5, <1>6 DEF r


(* The string of a place is made of tokens, and the one of a place further *)
(* down has the name behind a slash at its end.                            *)
Slashed(place) == [k \in DOMAIN place |-> <<"/">> \o place[k]]

LEMMA SlashedSeq ==
  ASSUME NEW T, "/" \in T, NEW N, N \subseteq Seq(T), NEW place \in Seq(N)
  PROVE  Slashed(place) \in Seq(Seq(T)) /\ Len(Slashed(place)) = Len(place)
<1> DEFINE X == Seq(T)
           n == Len(place)
<1>1. n \in Nat /\ DOMAIN place = 1..n
  OBVIOUS
<1>2. \A k \in 1..n : place[k] \in X
  BY ElementOfSeq
<1>3. <<"/">> \in X
  OBVIOUS
<1>4. \A k \in 1..n : <<"/">> \o place[k] \in X
  BY <1>2, <1>3, ConcatProperties
<1> HIDE DEF X, n
<1>5. Slashed(place) \in [1..n -> X]
  BY <1>1, <1>4 DEF Slashed
<1>6. Slashed(place) \in Seq(X)
  BY <1>1, <1>5, SeqDef
<1>7. DOMAIN Slashed(place) = 1..n
  BY <1>5
<1> HIDE DEF Slashed
<1>8. Len(Slashed(place)) \in Nat /\ DOMAIN Slashed(place) = 1..Len(Slashed(place))
  BY <1>6, LenProperties
<1>9. ASSUME NEW a \in Nat, NEW b \in Nat, 1..a = 1..b PROVE a <= b
  <2>1. a = 0 \/ a \in 1..a
    OBVIOUS
  <2>2. a = 0 \/ a \in 1..b
    BY <1>9, <2>1
  <2> QED BY <2>2
<1>10. \A a, b \in Nat : 1..a = 1..b => a = b
  BY <1>9
<1>11. Len(Slashed(place)) = n
  <2> DEFINE m == Len(Slashed(place))
  <2>1. m \in Nat /\ 1..m = 1..n
    BY <1>7, <1>8
  <2> HIDE DEF m
  <2>2. m = n
    BY <1>1, <1>10, <2>1
  <2> QED BY <2>2 DEF m
<1>12. Slashed(place) \in Seq(Seq(T))
  BY <1>6 DEF X
<1> QED BY <1>11, <1>12 DEF n

LEMMA PathStringAppend ==
  ASSUME NEW T, "/" \in T, NEW N, N \subseteq Seq(T), NEW place \in Seq(N), NEW name \in N
  PROVE  /\ PathString(place) \in Seq(T)
         /\ PathString(Append(place, name)) = PathString(place) \o (<<"/">> \o name)
<1>1. Slashed(place) \in Seq(Seq(T)) /\ Len(Slashed(place)) = Len(place)
  BY SlashedSeq
<1>2. Append(place, name) \in Seq(N) /\ <<"/">> \o name \in Seq(T)
  <2>1. <<"/">> \in Seq(T)
    OBVIOUS
  <2>2. name \in Seq(T)
    OBVIOUS
  <2> QED BY <2>1, <2>2, AppendProperties, ConcatProperties
<1>3. /\ Slashed(Append(place, name)) \in Seq(Seq(T))
      /\ Len(Slashed(Append(place, name))) = Len(place) + 1
  <2> DEFINE longer == Append(place, name)
  <2>1. longer \in Seq(N) /\ Len(longer) = Len(place) + 1
    BY AppendProperties
  <2> HIDE DEF longer
  <2>2. Slashed(longer) \in Seq(Seq(T)) /\ Len(Slashed(longer)) = Len(longer)
    BY <2>1, SlashedSeq
  <2> QED BY <2>1, <2>2 DEF longer
<1>4. Slashed(Append(place, name)) = Append(Slashed(place), <<"/">> \o name)
  <2> DEFINE s == Slashed(Append(place, name))
             t == Append(Slashed(place), <<"/">> \o name)
  <2>1. /\ t \in Seq(Seq(T)) /\ Len(t) = Len(place) + 1
        /\ t[Len(place) + 1] = <<"/">> \o name
        /\ \A k \in 1..Len(place) : t[k] = Slashed(place)[k]
    BY <1>1, <1>2, AppendProperties
  <2>2. \A k \in 1..Len(place) : Slashed(place)[k] = <<"/">> \o place[k]
    BY DEF Slashed
  <2>3. DOMAIN Append(place, name) = 1..(Len(place) + 1)
        /\ Append(place, name)[Len(place) + 1] = name
        /\ \A k \in 1..Len(place) : Append(place, name)[k] = place[k]
    BY AppendProperties
  <2>4. \A k \in 1..(Len(place) + 1) : s[k] = <<"/">> \o Append(place, name)[k]
    BY <2>3 DEF Slashed
  <2>5. \A k \in 1..(Len(place) + 1) : k \in 1..Len(place) \/ k = Len(place) + 1
    OBVIOUS
  <2> HIDE DEF s, t
  <2>6. \A k \in 1..(Len(place) + 1) : s[k] = t[k]
    BY <2>1, <2>2, <2>3, <2>4, <2>5
  <2> QED BY <1>3, <2>1, <2>6, SeqEqual DEF s, t
<1> QED BY <1>1, <1>2, <1>4, FlattenAppend DEF PathString, Slashed


LEMMA LastAppend ==
  ASSUME NEW T, NEW s \in Seq(T), NEW e \in T
  PROVE  /\ Append(s, e) \in Seq(T) /\ Append(s, e) # <<>>
         /\ Last(Append(s, e)) = e /\ Front(Append(s, e)) = s
<1>1. /\ Append(s, e) \in Seq(T) /\ Append(s, e) # <<>>
      /\ Len(Append(s, e)) = Len(s) + 1 /\ Append(s, e)[Len(s) + 1] = e
  BY AppendProperties
<1>2. Front(Append(s, e)) = s
  BY HeadTailAppend DEF Front
<1> QED BY <1>1, <1>2 DEF Last

LEMMA LastConcat ==
  ASSUME NEW T, NEW s \in Seq(T), NEW r \in Seq(T), r # <<>>
  PROVE  /\ s \o r \in Seq(T) /\ s \o r # <<>> /\ Last(s \o r) = Last(r)
         /\ Last(r) \in T
<1>1. /\ s \o r \in Seq(T) /\ Len(s \o r) = Len(s) + Len(r)
      /\ (s \o r)[Len(s) + Len(r)] =
           IF Len(s) + Len(r) <= Len(s) THEN s[Len(s) + Len(r)] ELSE r[Len(r)]
  <2>1. Len(s) \in Nat /\ Len(r) \in Nat \ {0}
    BY EmptySeq
  <2>2. Len(s) + Len(r) \in 1..(Len(s) + Len(r)) /\ (Len(s) + Len(r)) - Len(s) = Len(r)
    BY <2>1
  <2> QED BY <2>2, ConcatProperties
<1>2. Len(s) \in Nat /\ Len(r) \in Nat \ {0} /\ ~(Len(s) + Len(r) <= Len(s))
  BY EmptySeq
<1>3. s \o r # <<>>
  BY <1>1, <1>2
<1> QED BY <1>1, <1>2, <1>3, ElementOfSeq DEF Last

(* The names and the places of a tree.                                     *)
Token  == STRING \cup {"/"}
Letter == STRING \ {"/"}
Word   == Seq(Letter) \ {<<>>}

LEMMA Words ==
  /\ "/" \in Token /\ Letter \subseteq Token /\ "/" \notin Letter
  /\ Seq(Letter) \subseteq Seq(Token)
  /\ Word \subseteq Seq(Letter) /\ Word \subseteq Seq(Token) /\ <<>> \notin Word
<1>1. Letter \subseteq Token
  BY DEF Token, Letter
<1>2. Seq(Letter) \subseteq Seq(Token)
  BY <1>1, SeqMonotonic
<1> QED BY <1>1, <1>2 DEF Token, Letter, Word

(* The path of a place is that of its directory, a slash and its name.     *)
LEMMA PathStringDown ==
  ASSUME NEW place \in Seq(Word), NEW name \in Word
  PROVE  /\ PathString(place) \in Seq(Token) /\ name \in Seq(Letter)
         /\ PathString(Append(place, name)) = PathString(place) \o (<<"/">> \o name)
<1>1. Word \subseteq Seq(Token)
  BY Words
<1> QED BY <1>1, Words, PathStringAppend

(* The string of a place ends in the last name, not in a slash.            *)
LEMMA PathStringEnd ==
  ASSUME NEW place \in Seq(Word), place # <<>>
  PROVE  /\ PathString(place) \in Seq(Token) /\ PathString(place) # <<>>
         /\ Last(PathString(place)) # "/"
<1>2. PICK up \in Seq(Word), name \in Word : place = Append(up, name)
  BY SequenceEmptyOrAppend
<1>3. PathString(up) \in Seq(Token) /\ PathString(place) = PathString(up) \o (<<"/">> \o name)
  BY <1>2, PathStringDown
<1>4. name \in Seq(Token) /\ name \in Seq(Letter) /\ name # <<>>
  BY Words
<1>5. Last(name) \in Letter
  BY <1>4, LastConcat
<1>6. <<"/">> \in Seq(Token)
  BY Words
<1> DEFINE tail == <<"/">> \o name
           slash == <<"/">>
<1>7. slash \in Seq(Token)
  BY <1>6
<1> HIDE DEF slash
<1>8. slash \o name \in Seq(Token) /\ slash \o name # <<>> /\ Last(slash \o name) = Last(name)
  BY <1>4, <1>7, LastConcat
<1>9. tail \in Seq(Token) /\ tail # <<>> /\ Last(tail) = Last(name)
  BY <1>8 DEF slash
<1> HIDE DEF tail
<1>10. PathString(place) = PathString(up) \o tail
  BY <1>3 DEF tail
<1>11. PathString(up) \in Seq(Token)
  BY <1>3
<1> DEFINE front == PathString(up)
<1> HIDE DEF front
<1>12. front \o tail \in Seq(Token) /\ front \o tail # <<>> /\ Last(front \o tail) = Last(tail)
  <2>1. front \in Seq(Token)
    BY <1>11 DEF front
  <2> QED BY <1>9, <2>1, LastConcat
<1>13. PathString(place) = front \o tail
  BY <1>10 DEF front
<1> QED BY <1>5, <1>9, <1>12, <1>13, Words

-----------------------------------------------------------------------------
(* CorrectionPath: a path that ends in a slash.                            *)
LEMMA CollapseType ==
  ASSUME NEW T, NEW path \in Seq(T), NEW token \in T
  PROVE  /\ Collapse(path, token) \in Seq(T)
         /\ token = "/" => /\ Collapse(path, token) # <<>>
                           /\ Last(Collapse(path, token)) = "/"
  BY LastAppend DEF Collapse

LEMMA CorrectionEnds ==
  ASSUME NEW T, "/" \in T, NEW item \in Seq(T)
  PROVE  /\ CorrectionPath(item) \in Seq(T)
         /\ item # <<>> => /\ CorrectionPath(item) # <<>>
                           /\ Last(CorrectionPath(item)) = "/"
<1>1. CASE item = <<>>
  BY <1>1 DEF CorrectionPath
<1>2. CASE item # <<>>
  <2> DEFINE s == Append(item, "/")
             N == Len(s)
             Eq(f) == f = [k \in 0..N |-> IF k = 0 THEN <<>> ELSE Collapse(f[k - 1], s[k])]
             u == CHOOSE f : Eq(f)
             step == [i \in Nat |-> [p \in Seq(T) |->
                        IF i \in 1..N THEN Collapse(p, s[i]) ELSE p]]
  <2>1. CorrectionPath(item) = u[N]
    BY <1>2 DEF CorrectionPath
  <2>2. s \in Seq(T) /\ N \in Nat \ {0} /\ s[N] = "/"
    BY AppendProperties
  <2>3. \A i \in 1..N : s[i] \in T
    BY <2>2, ElementOfSeq
  <2>4. \A i \in Nat, p \in Seq(T) :
          (IF i \in 1..N THEN Collapse(p, s[i]) ELSE p) \in Seq(T)
    BY <2>3, CollapseType
  <2>5. step \in [Nat -> [Seq(T) -> Seq(T)]] /\ <<>> \in Seq(T)
    BY <2>4, EmptySeq
  <2> HIDE DEF s, N
  <2>6. PICK h : Runs(h, N, Seq(T), <<>>, step)
    BY <2>2, <2>5, Iteration
  <2>7. \A k \in 1..N : k - 1 \in 0..N /\ k \in Nat /\ k # 0
    BY <2>2
  <2>8. ASSUME NEW k \in 1..N PROVE h[k] = Collapse(h[k - 1], s[k])
    <3>1. h[k - 1] \in Seq(T)
      BY <2>6, <2>7 DEF Runs
    <3> QED BY <2>6, <2>7, <3>1 DEF Runs
  <2>9. h = [k \in 0..N |-> h[k]] /\ h[0] = <<>>
    BY <2>6 DEF Runs
  <2>10. \A k \in 0..N : k = 0 \/ k \in 1..N
    BY <2>2
  <2>11. Eq(h)
    BY <2>8, <2>9, <2>10
  <2>12. Eq(u)
    BY <2>11
  <2> HIDE DEF u
  <2>13. ASSUME NEW k \in 0..N
         PROVE  u[k] = IF k = 0 THEN <<>> ELSE Collapse(u[k - 1], s[k])
    BY <2>12
  <2>14. /\ u[0] = h[0] /\ N \in Nat
         /\ \A k \in 1..N : u[k] = Collapse(u[k - 1], s[k])
    BY <2>2, <2>7, <2>9, <2>13
  <2> DEFINE bad == {k \in 0..N : u[k] # h[k]}
  <2>15. bad = {}
    <3> SUFFICES ASSUME bad # {} PROVE FALSE
      OBVIOUS
    <3>1. bad \in SUBSET Nat
      BY <2>2
    <3>2. PICK m \in bad : \A k \in bad : m <= k
      BY <3>1, NatMin
    <3>3. m \in 0..N /\ m # 0 /\ u[m] # h[m]
      BY <2>14, <3>2
    <3>4. m \in 1..N /\ m - 1 \in 0..N /\ ~(m <= m - 1)
      BY <2>2, <3>3
    <3>5. u[m - 1] = h[m - 1]
      BY <3>2, <3>4
    <3> QED BY <2>8, <2>14, <3>3, <3>4, <3>5
  <2>16. N \in 1..N /\ N \in 0..N /\ N - 1 \in 0..N
    BY <2>2
  <2>17. CorrectionPath(item) = Collapse(h[N - 1], "/")
    BY <2>1, <2>2, <2>8, <2>15, <2>16
  <2>18. h[N - 1] \in Seq(T)
    BY <2>6, <2>16 DEF Runs
  <2> QED BY <2>17, <2>18, CollapseType
<1> QED BY <1>1, <1>2

-----------------------------------------------------------------------------
(* PathString can be undone: no two places have the same path.             *)
LEMMA SlashConcat ==
  ASSUME NEW s \in Seq(Token), NEW x \in Seq(Letter)
  PROVE  LET r == s \o (<<"/">> \o x)
         IN  /\ r \in Seq(Token) /\ Len(r) = Len(s) + 1 + Len(x)
             /\ \A k \in 1..Len(s) : r[k] = s[k]
             /\ r[Len(s) + 1] = "/"
             /\ \A k \in 1..Len(x) : r[Len(s) + 1 + k] = x[k] /\ x[k] \in Token /\ x[k] # "/"
<1> DEFINE slash == <<"/">>
           y == slash \o x
           r == s \o y
<1>1. x \in Seq(Token) /\ slash \in Seq(Token) /\ Len(slash) = 1 /\ slash[1] = "/"
  BY Words
<1> HIDE DEF slash
<1>2. /\ y \in Seq(Token) /\ Len(y) = 1 + Len(x)
      /\ \A k \in 1..(1 + Len(x)) : y[k] = IF k <= 1 THEN slash[k] ELSE x[k - 1]
  <2>1. /\ y \in Seq(Token) /\ Len(y) = Len(slash) + Len(x)
        /\ \A k \in 1..(Len(slash) + Len(x)) :
             y[k] = IF k <= Len(slash) THEN slash[k] ELSE x[k - Len(slash)]
    BY <1>1, ConcatProperties
  <2> QED BY <1>1, <2>1
<1>3. Len(s) \in Nat /\ Len(x) \in Nat
  OBVIOUS
<1>4. y[1] = "/" /\ \A k \in 1..Len(x) : y[1 + k] = x[k]
  <2>1. 1 \in 1..(1 + Len(x)) /\ 1 <= 1
    BY <1>3
  <2>2. \A k \in 1..Len(x) : 1 + k \in 1..(1 + Len(x)) /\ ~(1 + k <= 1) /\ (1 + k) - 1 = k
    BY <1>3
  <2> HIDE DEF y
  <2> QED BY <1>1, <1>2, <2>1, <2>2
<1> HIDE DEF y
<1>5. /\ r \in Seq(Token) /\ Len(r) = Len(s) + Len(y)
      /\ \A k \in 1..(Len(s) + Len(y)) : r[k] = IF k <= Len(s) THEN s[k] ELSE y[k - Len(s)]
  BY <1>2, ConcatProperties
<1> HIDE DEF r
<1>6. /\ Len(r) = Len(s) + 1 + Len(x)
      /\ \A k \in 1..Len(s) : r[k] = s[k]
      /\ r[Len(s) + 1] = "/"
  <2>1. /\ Len(s) + 1 \in 1..(Len(s) + Len(y)) /\ ~(Len(s) + 1 <= Len(s))
        /\ (Len(s) + 1) - Len(s) = 1
    BY <1>2, <1>3
  <2>2. \A k \in 1..Len(s) : k \in 1..(Len(s) + Len(y)) /\ k <= Len(s)
    BY <1>2, <1>3
  <2> QED BY <1>2, <1>3, <1>4, <1>5, <2>1, <2>2
<1>7. ASSUME NEW k \in 1..Len(x) PROVE r[Len(s) + 1 + k] = x[k]
  <2>1. /\ Len(s) + 1 + k \in 1..(Len(s) + Len(y)) /\ ~(Len(s) + 1 + k <= Len(s))
        /\ (Len(s) + 1 + k) - Len(s) = 1 + k
    BY <1>2, <1>3
  <2> QED BY <1>4, <1>5, <2>1
<1>8. \A k \in 1..Len(x) : x[k] \in Letter
  BY ElementOfSeq
<1> QED BY <1>5, <1>6, <1>7, <1>8, Words DEF r, y, slash

LEMMA LastSlash ==
  ASSUME NEW s \in Seq(Token), NEW t \in Seq(Token),
         NEW x \in Seq(Letter), NEW y \in Seq(Letter),
         s \o (<<"/">> \o x) = t \o (<<"/">> \o y)
  PROVE  s = t /\ x = y
<1> DEFINE r == s \o (<<"/">> \o x)
<1>1. /\ Len(s) \in Nat /\ Len(t) \in Nat /\ Len(x) \in Nat /\ Len(y) \in Nat
      /\ x \in Seq(Token) /\ y \in Seq(Token)
  BY Words
<1>2. /\ Len(r) = Len(s) + 1 + Len(x) /\ r[Len(s) + 1] = "/"
      /\ \A k \in 1..Len(s) : r[k] = s[k]
      /\ \A k \in 1..Len(x) : r[Len(s) + 1 + k] = x[k] /\ x[k] # "/"
  BY SlashConcat
<1>3. /\ Len(r) = Len(t) + 1 + Len(y) /\ r[Len(t) + 1] = "/"
      /\ \A k \in 1..Len(t) : r[k] = t[k]
      /\ \A k \in 1..Len(y) : r[Len(t) + 1 + k] = y[k] /\ y[k] # "/"
  <2> DEFINE q == t \o (<<"/">> \o y)
  <2>1. /\ Len(q) = Len(t) + 1 + Len(y) /\ q[Len(t) + 1] = "/"
        /\ \A k \in 1..Len(t) : q[k] = t[k]
        /\ \A k \in 1..Len(y) : q[Len(t) + 1 + k] = y[k] /\ y[k] # "/"
    BY SlashConcat
  <2>2. q = r
    OBVIOUS
  <2> HIDE DEF q, r
  <2> QED BY <2>1, <2>2
<1> HIDE DEF r
<1>4. ~(Len(s) < Len(t))
  <2> SUFFICES ASSUME Len(s) < Len(t) PROVE FALSE
    OBVIOUS
  <2> DEFINE k == Len(t) - Len(s)
  <2>1. k \in 1..Len(x) /\ Len(s) + 1 + k = Len(t) + 1
    BY <1>1, <1>2, <1>3
  <2> HIDE DEF k
  <2>2. r[Len(s) + 1 + k] # "/"
    BY <1>2, <2>1
  <2> QED BY <1>3, <2>1, <2>2
<1>5. ~(Len(t) < Len(s))
  <2> SUFFICES ASSUME Len(t) < Len(s) PROVE FALSE
    OBVIOUS
  <2> DEFINE k == Len(s) - Len(t)
  <2>1. k \in 1..Len(y) /\ Len(t) + 1 + k = Len(s) + 1
    BY <1>1, <1>2, <1>3
  <2> HIDE DEF k
  <2>2. r[Len(t) + 1 + k] # "/"
    BY <1>3, <2>1
  <2> QED BY <1>2, <2>1, <2>2
<1>6. Len(s) = Len(t) /\ Len(x) = Len(y)
  BY <1>1, <1>2, <1>3, <1>4, <1>5
<1>7. \A k \in 1..Len(s) : s[k] = t[k]
  BY <1>2, <1>3, <1>6
<1>8. \A k \in 1..Len(x) : x[k] = y[k]
  BY <1>2, <1>3, <1>6
<1> QED BY <1>1, <1>6, <1>7, <1>8, SeqEqual

LEMMA PathStringUp ==
  ASSUME NEW u \in Seq(Word), NEW x \in Word, NEW v \in Seq(Word), NEW y \in Word,
         PathString(Append(u, x)) = PathString(Append(v, y))
  PROVE  PathString(u) = PathString(v) /\ x = y
<1> DEFINE s == PathString(u)
           t == PathString(v)
<1>1. /\ s \in Seq(Token) /\ x \in Seq(Letter)
      /\ PathString(Append(u, x)) = s \o (<<"/">> \o x)
  BY PathStringDown
<1>2. /\ t \in Seq(Token) /\ y \in Seq(Letter)
      /\ PathString(Append(v, y)) = t \o (<<"/">> \o y)
  BY PathStringDown
<1>3. s \o (<<"/">> \o x) = t \o (<<"/">> \o y)
  BY <1>1, <1>2
<1> HIDE DEF s, t
<1>4. s = t /\ x = y
  BY <1>1, <1>2, <1>3, LastSlash
<1> QED BY <1>4 DEF s, t

LEMMA PathStringInjective ==
  ASSUME NEW a \in Seq(Word), NEW b \in Seq(Word), PathString(a) = PathString(b)
  PROVE  a = b
<1> DEFINE Same(k) == \E c, d \in Seq(Word) :
                        Len(c) = k /\ PathString(c) = PathString(d) /\ c # d
           bad == {k \in Nat : Same(k)}
<1>1. PathString(<<>>) = <<>>
  BY DEF PathString, FlattenSeq
<1>2. \A c \in Seq(Word) : c # <<>> => PathString(c) # <<>>
  BY PathStringEnd
<1>3. bad = {}
  <2> SUFFICES ASSUME bad # {} PROVE FALSE
    OBVIOUS
  <2>1. PICK m \in bad : \A k \in bad : m <= k
    <3>1. bad \in SUBSET Nat
      OBVIOUS
    <3> HIDE DEF bad
    <3> QED BY <3>1, NatMin
  <2>2. PICK c \in Seq(Word), d \in Seq(Word) :
          Len(c) = m /\ PathString(c) = PathString(d) /\ c # d
    BY <2>1
  <2>3. c # <<>> /\ d # <<>>
    BY <1>1, <1>2, <2>2
  <2>4. PICK u \in Seq(Word), x \in Word : c = Append(u, x)
    BY <2>3, SequenceEmptyOrAppend
  <2>5. PICK v \in Seq(Word), y \in Word : d = Append(v, y)
    BY <2>3, SequenceEmptyOrAppend
  <2>10. PathString(u) = PathString(v) /\ x = y
    <3> HIDE DEF bad
    <3> QED BY <2>2, <2>4, <2>5, PathStringUp
  <2>11. u # v /\ Len(u) \in Nat /\ Len(c) = Len(u) + 1
    <3>1. Len(u) \in Nat /\ Len(c) = Len(u) + 1
      <4> HIDE DEF bad
      <4> QED BY <2>4, AppendProperties
    <3> QED BY <2>2, <2>4, <2>5, <2>10, <3>1
  <2>12. Len(u) \in bad
    BY <2>10, <2>11
  <2>13. m <= Len(u) /\ m = Len(u) + 1
    BY <2>1, <2>2, <2>11, <2>12
  <2> QED BY <2>11, <2>13
<1>4. Len(a) \in Nat
  OBVIOUS
<1> QED BY <1>3, <1>4


(* CorrectionPath only puts a slash behind a path that has no two slashes  *)
(* next to each other, as the path of a place.                             *)
Single(s) == \A k \in 1..(Len(s) - 1) : ~(s[k] = "/" /\ s[k + 1] = "/")

LEMMA SingleConcat ==
  ASSUME NEW s \in Seq(Token), Single(s), s # <<>> => Last(s) # "/",
         NEW x \in Seq(Letter), x # <<>>
  PROVE  Single(s \o (<<"/">> \o x))
<1> DEFINE r == s \o (<<"/">> \o x)
<1>1. /\ Len(r) = Len(s) + 1 + Len(x)
      /\ \A k \in 1..Len(s) : r[k] = s[k]
      /\ \A k \in 1..Len(x) : r[Len(s) + 1 + k] # "/"
  BY SlashConcat
<1>2. Len(s) \in Nat /\ Len(x) \in Nat /\ (Len(s) > 0 => s[Len(s)] # "/")
  BY EmptySeq DEF Last
<1> HIDE DEF r
<1>3. ASSUME NEW k \in 1..(Len(r) - 1), r[k] = "/", r[k + 1] = "/" PROVE FALSE
  <2>1. CASE k < Len(s)
    <3>1. k \in 1..Len(s) /\ k + 1 \in 1..Len(s) /\ k \in 1..(Len(s) - 1)
      BY <1>2, <2>1
    <3> QED BY <1>1, <1>3, <3>1 DEF Single
  <2>2. CASE k = Len(s)
    <3>1. k \in 1..Len(s) /\ Len(s) > 0
      BY <1>2, <2>2
    <3> QED BY <1>1, <1>2, <1>3, <2>2, <3>1
  <2>3. CASE k > Len(s)
    <3> DEFINE j == k - Len(s)
    <3>1. j \in 1..Len(x) /\ Len(s) + 1 + j = k + 1
      BY <1>1, <1>2, <2>3
    <3> HIDE DEF j
    <3>2. r[Len(s) + 1 + j] # "/"
      BY <1>1, <3>1
    <3> QED BY <1>3, <3>1, <3>2
  <2> QED BY <1>2, <2>1, <2>2, <2>3
<1> QED BY <1>3 DEF Single, r

LEMMA SingleDown ==
  ASSUME NEW u \in Seq(Word), NEW x \in Word, Single(PathString(u))
  PROVE  Single(PathString(Append(u, x)))
<1> DEFINE s == PathString(u)
<1>1. /\ s \in Seq(Token) /\ x \in Seq(Letter) /\ x # <<>>
      /\ PathString(Append(u, x)) = s \o (<<"/">> \o x)
  BY PathStringDown, Words
<1>2. s # <<>> => Last(s) # "/"
  <2>1. u = <<>> => s = <<>>
    BY DEF PathString, FlattenSeq
  <2> QED BY <2>1, PathStringEnd
<1>3. Single(s)
  OBVIOUS
<1> HIDE DEF s
<1>4. Single(s \o (<<"/">> \o x))
  BY <1>1, <1>2, <1>3, SingleConcat
<1> QED BY <1>1, <1>4

LEMMA PathStringSingle ==
  ASSUME NEW place \in Seq(Word)
  PROVE  Single(PathString(place))
<1> DEFINE Doubles(k) == \E c \in Seq(Word) : Len(c) = k /\ ~Single(PathString(c))
           bad == {k \in Nat : Doubles(k)}
<1>1. bad = {}
  <2> SUFFICES ASSUME bad # {} PROVE FALSE
    OBVIOUS
  <2>1. PICK m \in bad : \A k \in bad : m <= k
    <3>1. bad \in SUBSET Nat
      OBVIOUS
    <3> HIDE DEF bad
    <3> QED BY <3>1, NatMin
  <2>2. PICK c \in Seq(Word) : Len(c) = m /\ ~Single(PathString(c))
    BY <2>1
  <2>3. c # <<>>
    <3>1. PathString(<<>>) = <<>> /\ Len(<<>>) = 0
      BY DEF PathString, FlattenSeq
    <3>2. Single(<<>>)
      BY DEF Single
    <3> QED BY <2>2, <3>1, <3>2
  <2>4. PICK u \in Seq(Word), x \in Word : c = Append(u, x)
    BY <2>3, SequenceEmptyOrAppend
  <2>7. Len(u) \in Nat /\ Len(c) = Len(u) + 1
    <3> HIDE DEF bad
    <3> QED BY <2>4, AppendProperties
  <2>8. Single(PathString(u))
    <3> SUFFICES ASSUME ~Single(PathString(u)) PROVE FALSE
      OBVIOUS
    <3>1. Len(u) \in bad
      BY <2>7
    <3>2. m <= Len(u) /\ m = Len(u) + 1
      BY <2>1, <2>2, <2>7, <3>1
    <3> QED BY <2>7, <3>2
  <2>9. Single(PathString(Append(u, x)))
    <3> HIDE DEF bad
    <3> QED BY <2>8, SingleDown
  <2> HIDE DEF bad
  <2> QED BY <2>2, <2>4, <2>9
<1>2. Len(place) \in Nat
  OBVIOUS
<1> QED BY <1>1, <1>2

LEMMA CorrectionAddsSlash ==
  ASSUME NEW T, "/" \in T, NEW item \in Seq(T), item # <<>>, Single(item),
         Last(item) # "/"
  PROVE  CorrectionPath(item) = Append(item, "/")
<1> DEFINE s == Append(item, "/")
           N == Len(s)
           Eq(f) == f = [k \in 0..N |-> IF k = 0 THEN <<>> ELSE Collapse(f[k - 1], s[k])]
           u == CHOOSE f : Eq(f)
           h == [k \in 0..N |-> SubSeq(s, 1, k)]
<1>1. CorrectionPath(item) = u[N]
  BY DEF CorrectionPath
<1>2. /\ s \in Seq(T) /\ N = Len(item) + 1 /\ s[N] = "/" /\ Len(item) \in Nat \ {0}
      /\ \A k \in 1..Len(item) : s[k] = item[k]
      /\ item[Len(item)] # "/"
  BY AppendProperties, EmptySeq DEF Last
<1> HIDE DEF s
<1>3. ASSUME NEW k \in 1..(N - 1) PROVE ~(s[k] = "/" /\ s[k + 1] = "/")
  <2>1. k \in 1..Len(item) /\ s[k] = item[k]
    BY <1>2
  <2>2. CASE k = Len(item)
    BY <1>2, <2>1, <2>2
  <2>3. CASE k < Len(item)
    <3>1. k \in 1..(Len(item) - 1) /\ k + 1 \in 1..Len(item)
      BY <1>2, <2>3
    <3>2. s[k + 1] = item[k + 1] /\ ~(item[k] = "/" /\ item[k + 1] = "/")
      BY <1>2, <3>1 DEF Single
    <3> QED BY <2>1, <3>2
  <2> QED BY <1>2, <2>1, <2>2, <2>3
<1>4. \A k \in 0..N : /\ SubSeq(s, 1, k) \in Seq(T) /\ Len(SubSeq(s, 1, k)) = k
                      /\ \A i \in 1..k : SubSeq(s, 1, k)[i] = s[i]
  <2> TAKE k \in 0..N
  <2>1. \A i \in 1..k : s[i] \in T
    BY <1>2, ElementOfSeq
  <2>2. /\ SubSeq(s, 1, k) \in Seq(T)
        /\ Len(SubSeq(s, 1, k)) = IF 1 <= k THEN k - 1 + 1 ELSE 0
        /\ \A i \in 1..(k - 1 + 1) : SubSeq(s, 1, k)[i] = s[1 + i - 1]
    BY <1>2, <2>1, SubSeqProperties
  <2> QED BY <1>2, <2>2
<1>5. ASSUME NEW k \in 1..N PROVE SubSeq(s, 1, k) = Collapse(SubSeq(s, 1, k - 1), s[k])
  <2> DEFINE a == SubSeq(s, 1, k - 1)
  <2>1. k - 1 \in 0..N /\ k \in 0..N /\ s[k] \in T /\ N \in Nat
    BY <1>2, ElementOfSeq
  <2>2. a \in Seq(T) /\ Len(a) = k - 1 /\ \A i \in 1..(k - 1) : a[i] = s[i]
    BY <1>4, <2>1
  <2> HIDE DEF a
  <2>3. ~(s[k] = "/" /\ a # <<>> /\ Last(a) = "/")
    <3> SUFFICES ASSUME s[k] = "/", a # <<>>, Last(a) = "/" PROVE FALSE
      OBVIOUS
    <3>1. k - 1 \in 1..(k - 1) /\ k - 1 \in 1..(N - 1) /\ (k - 1) + 1 = k
      BY <2>1, <2>2, EmptySeq
    <3>2. s[k - 1] = "/"
      BY <2>2, <3>1 DEF Last
    <3>3. ~(s[k - 1] = "/" /\ s[(k - 1) + 1] = "/")
      BY <1>3, <3>1
    <3> QED BY <3>1, <3>2, <3>3
  <2>4. Collapse(a, s[k]) = Append(a, s[k])
    BY <2>3 DEF Collapse
  <2>5. SubSeq(s, 1, k) = Append(a, s[k])
    <3> DEFINE b == SubSeq(s, 1, k)
               c == Append(a, s[k])
    <3>1. b \in Seq(T) /\ Len(b) = k /\ \A i \in 1..k : b[i] = s[i]
      BY <1>4, <2>1
    <3>2. /\ c \in Seq(T) /\ Len(c) = k /\ c[k] = s[k]
          /\ \A i \in 1..(k - 1) : c[i] = a[i]
      BY <2>1, <2>2, AppendProperties
    <3> HIDE DEF b, c
    <3>3. \A i \in 1..k : i = k \/ i \in 1..(k - 1)
      BY <2>1
    <3>4. \A i \in 1..k : b[i] = c[i]
      BY <2>2, <3>1, <3>2, <3>3
    <3>5. b = c
      BY <3>1, <3>2, <3>4, SeqEqual
    <3> QED BY <3>5 DEF b, c
  <2> QED BY <2>4, <2>5 DEF a
<1>6. SubSeq(s, 1, 0) = <<>>
  BY SubSeqEmpty
<1>7. N \in Nat /\ N \in 0..N /\ \A k \in 0..N : k = 0 \/ (k \in 1..N /\ k - 1 \in 0..N)
  BY <1>2
<1>8. Eq(h)
  <2>1. \A k \in 0..N : SubSeq(s, 1, k) =
          IF k = 0 THEN <<>> ELSE Collapse(h[k - 1], s[k])
    BY <1>5, <1>6, <1>7
  <2> QED BY <2>1
<1>9. Eq(u)
  BY <1>8
<1> HIDE DEF u
<1>10. ASSUME NEW k \in 0..N
       PROVE  u[k] = IF k = 0 THEN <<>> ELSE Collapse(u[k - 1], s[k])
  BY <1>9
<1> DEFINE bad == {k \in 0..N : u[k] # SubSeq(s, 1, k)}
<1>11. bad = {}
  <2> SUFFICES ASSUME bad # {} PROVE FALSE
    OBVIOUS
  <2>1. bad \in SUBSET Nat
    BY <1>7
  <2>2. PICK m \in bad : \A k \in bad : m <= k
    BY <2>1, NatMin
  <2>3. m \in 0..N /\ m # 0 /\ u[m] # SubSeq(s, 1, m)
    BY <1>6, <1>7, <1>10, <2>2
  <2>4. m \in 1..N /\ m - 1 \in 0..N /\ ~(m <= m - 1)
    BY <1>7, <2>3
  <2>5. u[m - 1] = SubSeq(s, 1, m - 1)
    BY <2>2, <2>4
  <2> QED BY <1>5, <1>10, <2>3, <2>4, <2>5
<1>12. SubSeq(s, 1, N) = s
  BY <1>2, SubSeqFull
<1> QED BY <1>1, <1>7, <1>11, <1>12 DEF s

(* The argument of a recursive call, from the path of the place.           *)
LEMMA CorrectedPlace ==
  ASSUME NEW place \in Seq(Word), place # <<>>
  PROVE  CorrectionPath(PathString(place)) = Append(PathString(place), "/")
<1> DEFINE s == PathString(place)
<1>1. s \in Seq(Token) /\ s # <<>> /\ Last(s) # "/" /\ Single(s)
  BY PathStringEnd, PathStringSingle
<1> HIDE DEF s
<1>2. CorrectionPath(s) = Append(s, "/")
  BY <1>1, Words, CorrectionAddsSlash
<1> QED BY <1>2 DEF s

(* A name behind the slash of a directory.                                 *)
LEMMA NameBehindSlash ==
  ASSUME NEW place \in Seq(Word), NEW name \in Word
  PROVE  Append(PathString(place), "/") \o name = PathString(Append(place, name))
<1> DEFINE s == PathString(place)
           slash == <<"/">>
<1>1. Word \subseteq Seq(Token)
  BY Words
<1>2. s \in Seq(Token) /\ PathString(Append(place, name)) = s \o (slash \o name)
  BY <1>1, Words, PathStringAppend
<1>3. name \in Seq(Token) /\ slash \in Seq(Token)
  BY Words
<1> HIDE DEF s
<1>4. Append(s, "/") = s \o slash
  BY <1>2
<1> HIDE DEF slash
<1>5. (s \o slash) \o name = s \o (slash \o name)
  BY <1>2, <1>3, ConcatAssociative
<1> QED BY <1>2, <1>4, <1>5 DEF s

=============================================================================
