-------------------------- MODULE InotifyAbortProofs --------------------------
(***************************************************************************)
(* Why the assertion of _parseEvent fails, when it fails: for every tree,  *)
(* capacity, policy, fault and bound, a descriptor that is looked up is in *)
(* the map unless one of the events of Mishap took it out or a recursive   *)
(* watch failed.                                                           *)
(***************************************************************************)
EXTENDS EventPipeProofs

(* The records after which the tool takes a descriptor out of the map.     *)
Ends == {"IGNORED", "UNMOUNT"}

(* The records of a descriptor that is not watched any more.               *)
Partings == Ends \cup {"DELETE_SELF"}

(* A queue of records when the descriptors in W are watched: what ends a   *)
(* descriptor is the last of its records to be looked up, a descriptor     *)
(* that has parted is not watched any more, and all are ones given out.    *)
Orderly(q) ==
  \A j, k \in 1..Len(q) :
    j < k /\ q[j].ev \in Ends /\ q[k].wd = q[j].wd => q[k].ev \in Unnamed
Tidy(q, W, next) ==
  /\ Orderly(q)
  /\ \A k \in 1..Len(q) :
       /\ q[k].ev \in Partings => q[k].wd \notin W
       /\ q[k].wd < next

(* The descriptors the records of a queue are looked up by are in D.       *)
Known(q, D) == \A k \in 1..Len(q) : q[k].ev \notin Unnamed => q[k].wd \in D

(* The descriptors the map has or is to get, and the records still to be   *)
(* looked up: the one a purge loop runs for has been.                      *)
Entries  == DOMAIN wmap \cup {found[k].wd : k \in DOMAIN found}
Handling == IF pc = "purge" THEN Tail(buf) ELSE buf

(* The inductive invariant.                                                *)
MapsAll ==
  /\ DOMAIN marks \subseteq Entries
  /\ Known(Handling, Entries) /\ Known(kq, Entries)
  /\ pc # "aborted"
AbortInv ==
  /\ Tidy(buf \o kq, DOMAIN marks, nextWd)
  /\ ~failed => MapsAll

-----------------------------------------------------------------------------
(* Queues: a smaller set of watches, a record added, the oldest one gone.  *)
LEMMA TidyFewer ==
  ASSUME NEW q, NEW W, NEW V \in SUBSET W, NEW next, Tidy(q, W, next)
  PROVE  Tidy(q, V, next)
  BY DEF Tidy

LEMMA KnownMore ==
  ASSUME NEW q, NEW D, NEW C, D \subseteq C, Known(q, D)
  PROVE  Known(q, C)
  BY DEF Known

LEMMA TidyAppend ==
  ASSUME NEW q \in Seq(Events), NEW e \in Events, NEW W, NEW next \in Nat,
         Tidy(q, W, next), e.wd < next, e.ev \in Unnamed \/ e.wd \in W
  PROVE  Tidy(Append(q, e), IF e.ev \in Partings THEN W \ {e.wd} ELSE W, next)
<1> DEFINE r == Append(q, e)
           V == IF e.ev \in Partings THEN W \ {e.wd} ELSE W
<1>1. /\ Len(q) \in Nat /\ Len(r) = Len(q) + 1 /\ r[Len(q) + 1] = e
      /\ \A k \in 1..Len(q) : r[k] = q[k]
  BY AppendProperties
<1> HIDE DEF r
<1>2. \A k \in 1..Len(r) : k \in 1..Len(q) \/ k = Len(q) + 1
  BY <1>1
<1>3. ASSUME NEW k \in 1..Len(r)
      PROVE  (r[k].ev \in Partings => r[k].wd \notin V) /\ r[k].wd < next
  <2>1. CASE k \in 1..Len(q)
    BY <1>1, <2>1 DEF Tidy
  <2>2. CASE k = Len(q) + 1
    BY <1>1, <2>2
  <2> QED BY <1>2, <2>1, <2>2
<1>4. ASSUME NEW j \in 1..Len(r), NEW k \in 1..Len(r),
             j < k, r[j].ev \in Ends, r[k].wd = r[j].wd
      PROVE  r[k].ev \in Unnamed
  <2>1. j \in 1..Len(q) /\ r[j] = q[j]
    BY <1>1, <1>4
  <2>2. CASE k \in 1..Len(q)
    BY <1>1, <1>4, <2>1, <2>2 DEF Tidy, Orderly
  <2>3. CASE k = Len(q) + 1
    BY <1>1, <1>4, <2>1, <2>3 DEF Tidy, Partings
  <2> QED BY <1>2, <2>2, <2>3
<1> QED BY <1>3, <1>4 DEF Tidy, Orderly, r

LEMMA KnownAppend ==
  ASSUME NEW q \in Seq(Events), NEW e \in Events, NEW D, Known(q, D),
         e.ev \in Unnamed \/ e.wd \in D
  PROVE  Known(Append(q, e), D)
<1>1. /\ Len(q) \in Nat /\ Len(Append(q, e)) = Len(q) + 1
      /\ Append(q, e)[Len(q) + 1] = e
      /\ \A k \in 1..Len(q) : Append(q, e)[k] = q[k]
  BY AppendProperties
<1>2. \A k \in 1..Len(Append(q, e)) : k \in 1..Len(q) \/ k = Len(q) + 1
  BY <1>1
<1> QED BY <1>1, <1>2 DEF Known

LEMMA TidyTail ==
  ASSUME NEW q \in Seq(Events), q # <<>>, NEW W, NEW next, Tidy(q, W, next)
  PROVE  Tidy(Tail(q), W, next)
<1>1. /\ Len(q) \in Nat /\ Len(Tail(q)) = Len(q) - 1
      /\ \A k \in 1..Len(Tail(q)) : Tail(q)[k] = q[k + 1] /\ k + 1 \in 1..Len(q)
  BY HeadTailProperties
<1>2. \A j, k \in 1..Len(Tail(q)) : j < k => j + 1 < k + 1
  BY <1>1
<1>3. Orderly(Tail(q))
  BY <1>1, <1>2 DEF Tidy, Orderly
<1>4. \A k \in 1..Len(Tail(q)) :
        /\ Tail(q)[k].ev \in Partings => Tail(q)[k].wd \notin W
        /\ Tail(q)[k].wd < next
  BY <1>1 DEF Tidy
<1> QED BY <1>3, <1>4 DEF Tidy

LEMMA KnownTail ==
  ASSUME NEW q \in Seq(Events), q # <<>>, NEW D, Known(q, D)
  PROVE  Known(Tail(q), D)
<1>1. /\ Len(q) \in Nat
      /\ \A k \in 1..Len(Tail(q)) : Tail(q)[k] = q[k + 1] /\ k + 1 \in 1..Len(q)
  BY HeadTailProperties
<1> QED BY <1>1 DEF Known

LEMMA KnownConcat ==
  ASSUME NEW b \in Seq(Events), NEW q \in Seq(Events), NEW D
  PROVE  Known(b \o q, D) <=> Known(b, D) /\ Known(q, D)
<1>1. /\ Len(b) \in Nat /\ Len(q) \in Nat /\ Len(b \o q) = Len(b) + Len(q)
      /\ \A k \in 1..(Len(b) + Len(q)) :
           (b \o q)[k] = IF k <= Len(b) THEN b[k] ELSE q[k - Len(b)]
  BY ConcatProperties
<1>2. \A k \in 1..Len(b) : k \in 1..Len(b \o q) /\ (b \o q)[k] = b[k]
  BY <1>1
<1>3. \A k \in 1..Len(q) :
        k + Len(b) \in 1..Len(b \o q) /\ (b \o q)[k + Len(b)] = q[k]
  BY <1>1
<1>4. \A k \in 1..Len(b \o q) :
        \/ k \in 1..Len(b) /\ (b \o q)[k] = b[k]
        \/ k - Len(b) \in 1..Len(q) /\ (b \o q)[k] = q[k - Len(b)]
  BY <1>1
<1> QED BY <1>2, <1>3, <1>4 DEF Known

(* After what ends a descriptor no record needs it.                        *)
LEMMA KnownPastEnd ==
  ASSUME NEW q \in Seq(Events), q # <<>>, NEW W, NEW next, Tidy(q, W, next),
         NEW D, Known(q, D), Head(q).ev \in Ends
  PROVE  Known(Tail(q), D \ {Head(q).wd})
<1>1. /\ Len(q) \in Nat /\ Head(q) = q[1] /\ 1 \in 1..Len(q)
      /\ \A k \in 1..Len(Tail(q)) :
           Tail(q)[k] = q[k + 1] /\ k + 1 \in 1..Len(q) /\ 1 < k + 1
  BY HeadTailProperties
<1>2. \A k \in 1..Len(Tail(q)) :
        Tail(q)[k].ev \notin Unnamed => Tail(q)[k].wd # Head(q).wd
  BY <1>1 DEF Tidy, Orderly
<1>3. \A k \in 1..Len(Tail(q)) :
        Tail(q)[k].ev \notin Unnamed => Tail(q)[k].wd \in D
  BY <1>1 DEF Known
<1> QED BY <1>2, <1>3 DEF Known

-----------------------------------------------------------------------------
(* What becomes of the queue of the tool when the kernel's part goes from  *)
(* q to r and the watches from W to V.                                     *)
Carries(q, r, W, V) ==
  /\ r \in Seq(Events)
  /\ Tidy(buf \o q, W, nextWd) => Tidy(buf \o r, V, nextWd)
  /\ \A D : DOMAIN marks \subseteq D /\ Known(q, D) => Known(r, D)

LEMMA CarriesRefl ==
  ASSUME NEW q \in Seq(Events), NEW W, NEW V \in SUBSET W
  PROVE  Carries(q, q, W, V)
  BY TidyFewer DEF Carries

LEMMA CarriesTrans ==
  ASSUME NEW q, NEW r, NEW s, NEW W, NEW V, NEW U,
         Carries(q, r, W, V), Carries(r, s, V, U)
  PROVE  Carries(q, s, W, U)
  BY DEF Carries

LEMMA CarriesFewer ==
  ASSUME NEW q, NEW r, NEW W, NEW V, NEW U \in SUBSET V, Carries(q, r, W, V)
  PROVE  Carries(q, r, W, U)
  BY TidyFewer DEF Carries

LEMMA ConcatAppend ==
  ASSUME NEW b \in Seq(Events), NEW q \in Seq(Events), NEW e \in Events
  PROVE  b \o Append(q, e) = Append(b \o q, e) /\ b \o q \in Seq(Events)
  BY ConcatProperties, AppendProperties, SeqEqual

LEMMA AppendCarries ==
  ASSUME IndInv, NEW q \in Seq(Events), NEW e \in Events, NEW W,
         e.wd < nextWd, e.ev \in Unnamed \/ e.wd \in W,
         e.ev \in Unnamed \/ e.wd \in DOMAIN marks
  PROVE  Carries(q, Append(q, e), W, IF e.ev \in Partings THEN W \ {e.wd} ELSE W)
<1>1. buf \in Seq(Events) /\ nextWd \in Nat
  BY DEF IndInv, TypeOK, ToolTypeOK, KernelTypeOK
<1>2. /\ buf \o Append(q, e) = Append(buf \o q, e)
      /\ buf \o q \in Seq(Events) /\ Append(q, e) \in Seq(Events)
  BY <1>1, ConcatAppend
<1>3. Tidy(buf \o q, W, nextWd) =>
        Tidy(Append(buf \o q, e), IF e.ev \in Partings THEN W \ {e.wd} ELSE W, nextWd)
  BY <1>1, <1>2, TidyAppend
<1>4. ASSUME NEW D, DOMAIN marks \subseteq D, Known(q, D)
      PROVE  Known(Append(q, e), D)
  BY <1>4, KnownAppend
<1> QED BY <1>2, <1>3, <1>4 DEF Carries

LEMMA EnqueueCarries ==
  ASSUME IndInv, NEW q \in Seq(Events), NEW e \in Events, NEW W,
         e.wd < nextWd, e.ev \in Unnamed \/ e.wd \in W,
         e.ev \in Unnamed \/ e.wd \in DOMAIN marks
  PROVE  Carries(q, Enqueue(q, e), W, IF e.ev \in Partings THEN W \ {e.wd} ELSE W)
<1> DEFINE V == IF e.ev \in Partings THEN W \ {e.wd} ELSE W
<1>1. V \subseteq W /\ nextWd \in Nat
  BY DEF IndInv, TypeOK, KernelTypeOK
<1>2. Carries(q, q, W, V)
  BY <1>1, CarriesRefl
<1>3. Carries(q, Append(q, e), W, V)
  BY AppendCarries
<1>4. Carries(q, Append(q, OverflowEvent), W, V)
  <2>1. /\ OverflowEvent \in Events /\ OverflowEvent.wd < nextWd
        /\ OverflowEvent.ev \in Unnamed /\ OverflowEvent.ev \notin Partings
    BY <1>1, OverflowType DEF OverflowEvent, Event, Unnamed, Partings, Ends
  <2>2. Carries(q, Append(q, OverflowEvent), W, W)
    BY <2>1, AppendCarries
  <2> QED BY <1>1, <2>2, CarriesFewer
<1> QED BY <1>2, <1>3, <1>4 DEF Enqueue

-----------------------------------------------------------------------------
(* What the kernel posts.                                                  *)
WatchesOf(i) == {wd \in DOMAIN marks : marks[wd] = i}

LEMMA MarkTypes ==
  ASSUME IndInv
  PROVE  /\ \A wd \in DOMAIN marks : wd \in Nat /\ wd < nextWd
         /\ kq \in Seq(Events) /\ buf \in Seq(Events) /\ nextWd \in Nat
         /\ KernelTypeOK /\ MarksUnique /\ KernelInv
  BY KernelPart DEF IndInv, TypeOK, ToolTypeOK, KernelTypeOK

LEMMA PostSelfCarries ==
  ASSUME IndInv, NEW q \in Seq(Events), NEW i, NEW ev \in EventKinds,
         NEW dir \in BOOLEAN, NEW W, ev \in Unnamed \/ WatchesOf(i) \subseteq W
  PROVE  Carries(q, PostSelf(q, i, ev, dir), W,
                 IF ev \in Partings THEN W \ WatchesOf(i) ELSE W)
<1> DEFINE V == IF ev \in Partings THEN W \ WatchesOf(i) ELSE W
<1>1. CASE \E wd \in DOMAIN marks : marks[wd] = i
  <2> DEFINE v == CHOOSE wd \in DOMAIN marks : marks[wd] = i
             e == Event(v, ev, dir, 0, <<>>)
             U == IF ev \in Partings THEN W \ {v} ELSE W
  <2>1. v \in WatchesOf(i) /\ v \in DOMAIN marks /\ v \in Int /\ v < nextWd
    BY <1>1, MarkTypes DEF WatchesOf
  <2>2. e \in Events /\ e.wd = v /\ e.ev = ev
    BY <2>1, EventType DEF Event
  <2> HIDE DEF e, v
  <2>3. Carries(q, Enqueue(q, e), W, U)
    BY <2>1, <2>2, EnqueueCarries
  <2>4. V \subseteq U
    BY <2>1
  <2>5. Carries(q, Enqueue(q, e), W, V)
    BY <2>3, <2>4, CarriesFewer
  <2> QED BY <1>1, <2>5 DEF PostSelf, e, v
<1>2. CASE ~\E wd \in DOMAIN marks : marks[wd] = i
  BY <1>2, CarriesRefl DEF PostSelf
<1> QED BY <1>1, <1>2

LEMMA PostAtCarries ==
  ASSUME IndInv, NEW q \in Seq(Events), NEW place, NEW ev \in EventKinds \ Partings,
         NEW dir \in BOOLEAN, NEW ck \in Nat, NEW name \in AllNames, NEW W,
         \A wd \in DOMAIN marks : loc[marks[wd]] = place => wd \in W
  PROVE  Carries(q, PostAt(q, place, ev, dir, ck, name), W, W)
<1>1. CASE place # Gone /\ \E wd \in DOMAIN marks : loc[marks[wd]] = place
  <2> DEFINE v == CHOOSE wd \in DOMAIN marks : loc[marks[wd]] = place
             e == Event(v, ev, dir, ck, name)
  <2>1. v \in W /\ v \in DOMAIN marks /\ v \in Int /\ v < nextWd
    BY <1>1, MarkTypes
  <2>2. e \in Events /\ e.wd = v /\ e.ev = ev
    BY <2>1, EventType DEF Event
  <2> HIDE DEF e, v
  <2>3. Carries(q, Enqueue(q, e), W, W)
    BY <2>1, <2>2, EnqueueCarries
  <2> QED BY <1>1, <2>3 DEF PostAt, e, v
<1>2. CASE ~(place # Gone /\ \E wd \in DOMAIN marks : loc[marks[wd]] = place)
  BY <1>2, CarriesRefl DEF PostAt
<1> QED BY <1>1, <1>2

LEMMA PostChildCarries ==
  ASSUME IndInv, NEW q \in Seq(Events), NEW i \in Inodes, There(i),
         NEW ev \in EventKinds \ Partings
  PROVE  Carries(q, PostChild(q, i, ev), DOMAIN marks, DOMAIN marks)
<1> DEFINE r == PostAt(q, Folder(i), ev, i \in Dirs, 0, EntryName(i))
           W == DOMAIN marks
<1>1. (i \in Dirs) \in BOOLEAN /\ 0 \in Nat /\ EntryName(i) \in AllNames
  BY MarkTypes, EntryNameType
<1>2. Carries(q, r, W, W)
  BY <1>1, PostAtCarries
<1>3. r \in Seq(Events) /\ WatchesOf(i) \subseteq W
  BY <1>2 DEF Carries, WatchesOf
<1> HIDE DEF r, W
<1>4. Carries(r, PostSelf(r, i, ev, i \in Dirs), W, W)
  BY <1>1, <1>3, PostSelfCarries
<1>5. Carries(q, PostSelf(r, i, ev, i \in Dirs), W, W)
  BY <1>2, <1>4, CarriesTrans
<1> QED BY <1>5 DEF PostChild, r, W

LEMMA PostGoneCarries ==
  ASSUME IndInv, NEW q \in Seq(Events), NEW i, NEW ev \in {"DELETE_SELF", "UNMOUNT"}
  PROVE  Carries(q, PostGone(q, i, ev), DOMAIN marks, DOMAIN marks \ WatchesOf(i))
<1> DEFINE r == PostSelf(q, i, ev, FALSE)
           W == DOMAIN marks
           V == IF ev \in Partings THEN W \ WatchesOf(i) ELSE W
<1>1. ev \in EventKinds /\ "IGNORED" \in EventKinds /\ WatchesOf(i) \subseteq W
      /\ "IGNORED" \in Unnamed /\ "IGNORED" \in Partings /\ FALSE \in BOOLEAN
  BY DEF EventKinds, WatchesOf, Unnamed, Partings, Ends
<1>2. Carries(q, r, W, V)
  BY <1>1, PostSelfCarries
<1>3. r \in Seq(Events) /\ V \ WatchesOf(i) = W \ WatchesOf(i)
  BY <1>2 DEF Carries
<1> HIDE DEF r, W, V
<1>4. Carries(r, PostSelf(r, i, "IGNORED", FALSE), V, V \ WatchesOf(i))
  BY <1>1, <1>3, PostSelfCarries
<1>5. Carries(q, PostSelf(r, i, "IGNORED", FALSE), W, W \ WatchesOf(i))
  BY <1>2, <1>3, <1>4, CarriesTrans
<1> QED BY <1>5 DEF PostGone, r, W

(* What other processes do to the queue and the watches.                   *)
Posts ==
  /\ Carries(kq, kq', DOMAIN marks, DOMAIN marks')
  /\ DOMAIN marks' \subseteq DOMAIN marks
  /\ UNCHANGED nextWd

LEMMA MkdirPosts ==
  ASSUME IndInv, NEW p \in Dirs, NEW n \in Names, Mkdir(p, n)
  PROVE  Posts
<1>1. "CREATE" \in EventKinds \ Partings /\ n \in AllNames /\ kq \in Seq(Events)
      /\ TRUE \in BOOLEAN /\ 0 \in Nat
  BY MarkTypes DEF EventKinds, Partings, Ends, AllNames
<1>2. Carries(kq, PostAt(kq, loc[p], "CREATE", TRUE, 0, n), DOMAIN marks, DOMAIN marks)
  BY <1>1, PostAtCarries
<1> QED BY <1>2 DEF Mkdir, SetQueue, Posts

LEMMA RmdirPosts ==
  ASSUME IndInv, NEW i \in Dirs, Rmdir(i)
  PROVE  Posts
<1> DEFINE Parent(q) == PostAt(q, Front(loc[i]), "DELETE", TRUE, 0, Last(loc[i]))
           Self(q) == PostGone(q, i, "DELETE_SELF")
           W == DOMAIN marks
           V == DOMAIN marks \ WatchesOf(i)
<1>1. /\ Live(i) /\ marks' = Unmarked(i) /\ UNCHANGED nextWd
      /\ kq' = Parent(Self(kq)) \/ kq' = Self(Parent(kq))
  BY DEF Rmdir, SetQueue
<1>2. /\ "DELETE" \in EventKinds \ Partings /\ kq \in Seq(Events)
      /\ Last(loc[i]) \in AllNames /\ 0 \in Nat /\ TRUE \in BOOLEAN
  BY <1>1, MarkTypes, LastType DEF EventKinds, Partings, Ends, Inodes
<1>3. Front(loc[i]) # loc[i]
  <2>1. loc[i] \in Seq(AllNames) /\ loc[i] # <<>>
    BY <1>1, MarkTypes DEF KernelTypeOK, Live, Gone, Inodes
  <2>2. Len(Front(loc[i])) = Len(loc[i]) - 1 /\ Len(loc[i]) \in Nat
    BY <2>1, FrontProperties
  <2> QED BY <2>2
<1>4. \A q \in Seq(Events) : Carries(q, Parent(q), W, W)
  BY <1>2, PostAtCarries
<1>5. \A wd \in DOMAIN marks : loc[marks[wd]] = Front(loc[i]) => wd \in V
  BY <1>3 DEF WatchesOf
<1>6. \A q \in Seq(Events) : Carries(q, Parent(q), V, V)
  BY <1>2, <1>5, PostAtCarries
<1>7. \A q \in Seq(Events) : Carries(q, Self(q), W, V)
  BY PostGoneCarries
<1>8. DOMAIN marks' = V /\ V \subseteq W
  BY <1>1 DEF Unmarked, WatchesOf
<1> HIDE DEF Parent, Self, W, V
<1>9. Parent(kq) \in Seq(Events) /\ Self(kq) \in Seq(Events)
  BY <1>2, <1>4, <1>7 DEF Carries
<1>10. Carries(kq, Parent(Self(kq)), W, V) /\ Carries(kq, Self(Parent(kq)), W, V)
  BY <1>2, <1>4, <1>6, <1>7, <1>9, CarriesTrans
<1> QED BY <1>1, <1>8, <1>10 DEF Posts, W

LEMMA UnmountPosts ==
  ASSUME IndInv, NEW i \in Dirs, Unmount(i)
  PROVE  Posts
<1>1. kq \in Seq(Events)
  BY MarkTypes
<1>2. kq' = PostGone(kq, i, "UNMOUNT") /\ marks' = Unmarked(i) /\ UNCHANGED nextWd
  BY DEF Unmount, SetQueue
<1>3. DOMAIN marks' = DOMAIN marks \ WatchesOf(i)
  BY <1>2 DEF Unmarked, WatchesOf
<1> QED BY <1>1, <1>2, <1>3, PostGoneCarries DEF Posts

LEMMA RenamePosts ==
  ASSUME IndInv, NEW i \in Inodes, NEW p \in Dirs, NEW n \in Names, Rename(i, p, n)
  PROVE  Posts
<1> DEFINE ck == cookie + 1
           from == PostAt(kq, Front(loc[i]), "MOVED_FROM", i \in Dirs, ck, Last(loc[i]))
           to == PostAt(from, loc[p], "MOVED_TO", i \in Dirs, ck, n)
           self == PostSelf(to, i, "MOVE_SELF", i \in Dirs)
           W == DOMAIN marks
<1>1. Live(i) /\ kq' = self /\ UNCHANGED <<marks, nextWd>>
  BY DEF Rename, SetQueue
<1>2. /\ Last(loc[i]) \in AllNames /\ n \in AllNames /\ ck \in Nat
      /\ (i \in Dirs) \in BOOLEAN /\ kq \in Seq(Events)
      /\ {"MOVED_FROM", "MOVED_TO", "MOVE_SELF"} \subseteq EventKinds \ Partings
      /\ WatchesOf(i) \subseteq W
  BY <1>1, MarkTypes, LastType DEF KernelTypeOK, AllNames, EventKinds, Partings, Ends, WatchesOf
<1>3. Carries(kq, from, W, W)
  BY <1>2, PostAtCarries
<1>4. from \in Seq(Events)
  BY <1>3 DEF Carries
<1> HIDE DEF from
<1>5. Carries(from, to, W, W)
  BY <1>2, <1>4, PostAtCarries
<1>6. to \in Seq(Events)
  BY <1>5 DEF Carries
<1> HIDE DEF to
<1>7. Carries(to, self, W, W)
  BY <1>2, <1>6, PostSelfCarries
<1> HIDE DEF self
<1>8. Carries(kq, self, W, W)
  BY <1>3, <1>5, <1>7, CarriesTrans
<1> QED BY <1>1, <1>8 DEF Posts

(* Events on an inode that is there.                                       *)
LEMMA ChildPosts ==
  ASSUME IndInv, NEW i \in Inodes, There(i), NEW ev \in EventKinds \ Partings,
         SetQueue(PostChild(kq, i, ev)), UNCHANGED <<marks, nextWd>>
  PROVE  Posts
  BY MarkTypes, PostChildCarries DEF SetQueue, Posts

(* A file loses its name, and goes with its watch unless it is open.       *)
LEMMA DroppedCarries ==
  ASSUME IndInv, NEW f \in Files, NEW p, LoseName(f, p), UNCHANGED nextWd,
         NEW q \in Seq(Events)
  PROVE  /\ Carries(q, Dropped(q, f), DOMAIN marks, DOMAIN marks')
         /\ DOMAIN marks' \subseteq DOMAIN marks
         /\ \A wd \in DOMAIN marks : marks[wd] # f => wd \in DOMAIN marks'
<1>1. CASE IsOpen(f)
  BY <1>1, CarriesRefl DEF LoseName, Dropped
<1>2. CASE ~IsOpen(f)
  <2>1. marks' = Unmarked(f) /\ Dropped(q, f) = PostGone(q, f, "DELETE_SELF")
    BY <1>2 DEF LoseName, Dropped
  <2>2. DOMAIN marks' = DOMAIN marks \ WatchesOf(f)
    BY <2>1 DEF Unmarked, WatchesOf
  <2> QED BY <2>1, <2>2, PostGoneCarries DEF WatchesOf
<1> QED BY <1>1, <1>2

LEMMA UnlinkPosts ==
  ASSUME IndInv, NEW f \in Files, NEW p \in Dirs, Unlink(f, p)
  PROVE  Posts
<1> DEFINE Parent(q) == PostAt(q, loc[p], "DELETE", FALSE, 0, Last(loc[f]))
           a == PostSelf(kq, f, "OPEN", FALSE)
           W == DOMAIN marks
           V == DOMAIN marks'
<1>1. /\ Live(f) /\ LoseName(f, p) /\ UNCHANGED nextWd
      /\ kq' = Parent(Dropped(a, f)) \/ kq' = Dropped(Parent(a), f)
  BY DEF Unlink, LoseName, SetQueue
<1>2. /\ {"DELETE", "OPEN"} \subseteq EventKinds \ Partings /\ kq \in Seq(Events)
      /\ Last(loc[f]) \in AllNames /\ 0 \in Nat /\ FALSE \in BOOLEAN
      /\ WatchesOf(f) \subseteq W
  BY <1>1, MarkTypes, LastType DEF EventKinds, Partings, Ends, Inodes, WatchesOf
<1>3. loc[p] # loc[f]
  <2>1. loc[f] \in Seq(AllNames) /\ loc[f] # <<>>
    BY <1>1, MarkTypes DEF KernelTypeOK, Live, Gone, Inodes
  <2>2. Len(Front(loc[f])) = Len(loc[f]) - 1 /\ Len(loc[f]) \in Nat
    BY <2>1, FrontProperties
  <2> QED BY <1>1, <2>2 DEF LoseName
<1>4. \A q \in Seq(Events) : Carries(q, Parent(q), W, W)
  BY <1>2, PostAtCarries
<1>5. \A wd \in DOMAIN marks : loc[marks[wd]] = loc[p] => wd \in V
  BY <1>1, <1>3, <1>2, DroppedCarries
<1>6. \A q \in Seq(Events) : Carries(q, Parent(q), V, V)
  BY <1>2, <1>5, PostAtCarries
<1>7. \A q \in Seq(Events) : Carries(q, Dropped(q, f), W, V)
  BY <1>1, DroppedCarries
<1>8. V \subseteq W
  BY <1>1, <1>2, DroppedCarries
<1>9. Carries(kq, a, W, W)
  BY <1>2, PostSelfCarries
<1> HIDE DEF Parent, W, V, a
<1>10. a \in Seq(Events)
  BY <1>9 DEF Carries
<1>11. Parent(a) \in Seq(Events) /\ Dropped(a, f) \in Seq(Events)
  BY <1>4, <1>7, <1>10 DEF Carries
<1>12. Carries(a, Parent(Dropped(a, f)), W, V) /\ Carries(a, Dropped(Parent(a), f), W, V)
  BY <1>4, <1>6, <1>7, <1>10, <1>11, CarriesTrans
<1>13. Carries(kq, kq', W, V)
  BY <1>1, <1>2, <1>9, <1>12, CarriesTrans
<1> QED BY <1>1, <1>8, <1>13 DEF Posts, W, V

LEMMA ReplacePosts ==
  ASSUME IndInv, NEW f \in Files, NEW g \in Files, NEW p \in Dirs, Replace(f, g, p)
  PROVE  Posts
<1> DEFINE ck == cookie + 1
           from == PostAt(kq, Front(loc[f]), "MOVED_FROM", FALSE, ck, Last(loc[f]))
           to == PostAt(from, loc[p], "MOVED_TO", FALSE, ck, Last(loc[g]))
           attrib == PostSelf(to, g, "OPEN", FALSE)
           self == PostSelf(attrib, f, "MOVE_SELF", FALSE)
           W == DOMAIN marks
           V == DOMAIN marks'
<1>1. Live(f) /\ Live(g) /\ LoseName(g, p) /\ kq' = Dropped(self, g) /\ UNCHANGED nextWd
  BY DEF Replace, LoseName, SetQueue
<1>2. /\ Last(loc[f]) \in AllNames /\ Last(loc[g]) \in AllNames /\ ck \in Nat
      /\ FALSE \in BOOLEAN /\ kq \in Seq(Events)
      /\ {"MOVED_FROM", "MOVED_TO", "MOVE_SELF", "OPEN"} \subseteq EventKinds \ Partings
      /\ WatchesOf(f) \subseteq W /\ WatchesOf(g) \subseteq W
  BY <1>1, MarkTypes, LastType
     DEF KernelTypeOK, EventKinds, Partings, Ends, WatchesOf, Inodes
<1>3. Carries(kq, from, W, W)
  BY <1>2, PostAtCarries
<1>4. from \in Seq(Events)
  BY <1>3 DEF Carries
<1> HIDE DEF from
<1>5. Carries(from, to, W, W)
  BY <1>2, <1>4, PostAtCarries
<1>6. to \in Seq(Events)
  BY <1>5 DEF Carries
<1> HIDE DEF to
<1>7. Carries(to, attrib, W, W)
  BY <1>2, <1>6, PostSelfCarries
<1>8. attrib \in Seq(Events)
  BY <1>7 DEF Carries
<1> HIDE DEF attrib
<1>9. Carries(attrib, self, W, W)
  BY <1>2, <1>8, PostSelfCarries
<1>10. self \in Seq(Events)
  BY <1>9 DEF Carries
<1> HIDE DEF self
<1>11. Carries(self, kq', W, V) /\ V \subseteq W
  BY <1>1, <1>10, DroppedCarries
<1> HIDE DEF W, V
<1>12. Carries(kq, kq', W, V)
  BY <1>3, <1>5, <1>7, <1>9, <1>11, CarriesTrans
<1> QED BY <1>1, <1>11, <1>12 DEF Posts, W, V

LEMMA CloseUnlinkedPosts ==
  ASSUME IndInv, NEW w \in Writers, CloseUnlinked(w)
  PROVE  Posts
<1> DEFINE f == writing[w]
           q == PostChild(kq, f, "CLOSE_WRITE")
<1>1. /\ f \in Inodes /\ There(f) /\ kq \in Seq(Events) /\ UNCHANGED nextWd
      /\ kq' = PostGone(q, f, "DELETE_SELF") /\ marks' = Unmarked(f)
      /\ "CLOSE_WRITE" \in EventKinds \ Partings
  BY MarkTypes
     DEF KernelTypeOK, CloseUnlinked, LastClose, SetQueue, There, Inodes, EventKinds,
         Partings, Ends
<1> HIDE DEF f
<1>2. DOMAIN marks' = DOMAIN marks \ WatchesOf(f)
  BY <1>1 DEF Unmarked, WatchesOf
<1>3. Carries(kq, q, DOMAIN marks, DOMAIN marks)
  BY <1>1, PostChildCarries
<1>4. q \in Seq(Events)
  BY <1>3 DEF Carries
<1> HIDE DEF q
<1>5. Carries(q, kq', DOMAIN marks, DOMAIN marks')
  BY <1>1, <1>2, <1>4, PostGoneCarries
<1>6. Carries(kq, kq', DOMAIN marks, DOMAIN marks')
  BY <1>3, <1>5, CarriesTrans
<1> QED BY <1>1, <1>2, <1>6 DEF Posts

LEMMA OtherProcessesPost == ASSUME IndInv, OtherProcesses PROVE Posts
<1>0. {"OPEN", "MODIFY", "CLOSE_WRITE", "CREATE"} \subseteq EventKinds \ Partings
  BY DEF EventKinds, Partings, Ends
<1>1. ASSUME NEW i \in Dirs, ListDir(i) PROVE Posts
  BY <1>0, <1>1, ChildPosts DEF ListDir, There, Inodes
<1>2. ASSUME NEW w \in Writers, NEW p \in Dirs, NEW n \in Names, CreateFile(w, p, n)
      PROVE  Posts
  <2>1. kq \in Seq(Events) /\ n \in AllNames /\ FALSE \in BOOLEAN /\ 0 \in Nat
    BY MarkTypes DEF AllNames
  <2>2. Carries(kq, PostAt(kq, loc[p], "CREATE", FALSE, 0, n), DOMAIN marks, DOMAIN marks)
    BY <1>0, <2>1, PostAtCarries
  <2> QED BY <1>2, <2>2 DEF CreateFile, SetQueue, Posts
<1>3. ASSUME NEW w \in Writers, NEW f \in Files, OpenFile(w, f) PROVE Posts
  BY <1>0, <1>3, ChildPosts DEF OpenFile, There, Inodes
<1>4. ASSUME NEW w \in Writers, WriteFile(w) PROVE Posts
  <2>1. writing[w] \in Inodes /\ There(writing[w])
    BY <1>4, MarkTypes DEF KernelTypeOK, IndInv, WritingLive, WriteFile, Inodes
  <2> QED BY <1>0, <1>4, <2>1, ChildPosts DEF WriteFile, Modify
<1>5. ASSUME NEW w \in Writers, CloseFile(w) PROVE Posts
  <2>1. writing[w] \in Inodes /\ There(writing[w])
    BY <1>5, MarkTypes DEF KernelTypeOK, IndInv, WritingLive, CloseFile, Inodes
  <2> QED BY <1>0, <1>5, <2>1, ChildPosts DEF CloseFile
<1>6. ASSUME NEW f \in Files, Truncate(f) PROVE Posts
  BY <1>0, <1>6, ChildPosts DEF Truncate, Modify, There, Inodes
<1> QED
  BY <1>1, <1>2, <1>3, <1>4, <1>5, <1>6, MkdirPosts, RmdirPosts, UnmountPosts,
     RenamePosts, CloseUnlinkedPosts, UnlinkPosts, ReplacePosts DEF OtherProcesses

(* What the system calls of the tool do to them.                           *)
LEMMA OpendirPosts ==
  ASSUME IndInv, NEW path, CanOpen(path), Opendir(path)
  PROVE  Posts
<1>1. Target(path) \in Inodes /\ There(Target(path))
  BY DEF CanOpen, Target, At, There
<1>2. "OPEN" \in EventKinds \ Partings
  BY DEF EventKinds, Partings, Ends
<1> QED BY <1>1, <1>2, ChildPosts DEF Opendir

LEMMA RmWatchPosts ==
  ASSUME IndInv, NEW wd, RmWatch(wd)
  PROVE  /\ Posts /\ DOMAIN marks' = DOMAIN marks \ {wd}
         /\ \A D : Known(kq, D) => Known(kq', D)
<1> DEFINE W == DOMAIN marks
           e == Ignored(wd)
<1>1. DOMAIN marks' = W \ {wd} /\ UNCHANGED nextWd /\ kq \in Seq(Events)
  BY MarkTypes DEF RmWatch
<1>2. CASE wd \in W
  <2>1. kq' = Enqueue(kq, e)
    BY <1>2 DEF RmWatch, SetQueue, Ignored
  <2>2. /\ e \in Events /\ e.wd = wd /\ wd < nextWd /\ e.ev \in Unnamed
        /\ e.ev \in Partings
    <3>1. /\ wd \in Int /\ wd < nextWd /\ "IGNORED" \in EventKinds
          /\ FALSE \in BOOLEAN /\ 0 \in Nat /\ <<>> \in AllNames \cup {<<>>}
      BY <1>2, MarkTypes DEF EventKinds
    <3>2. e \in Events
      BY <3>1, EventType DEF Ignored
    <3>3. e.wd = wd /\ e.ev = "IGNORED"
      BY DEF Ignored, Event
    <3> QED BY <3>1, <3>2, <3>3 DEF Unnamed, Partings, Ends
  <2> HIDE DEF e
  <2>3. Carries(kq, Enqueue(kq, e), W, W \ {wd})
    BY <1>1, <2>2, EnqueueCarries
  <2>4. OverflowEvent \in Events /\ OverflowEvent.ev \in Unnamed
    BY OverflowType DEF OverflowEvent, Event, Unnamed
  <2>5. \A D : Known(kq, D) => Known(Enqueue(kq, e), D)
    BY <1>1, <2>2, <2>4, KnownAppend DEF Enqueue
  <2> QED BY <1>1, <2>1, <2>3, <2>5 DEF Posts
<1>3. CASE wd \notin W
  <2>1. kq' = kq
    BY <1>3 DEF RmWatch, SetQueue
  <2>2. Carries(kq, kq, W, W \ {wd})
    BY <1>1, CarriesRefl
  <2> QED BY <1>1, <2>1, <2>2 DEF Posts
<1> QED BY <1>1, <1>2, <1>3

LEMMA AddWatchPosts ==
  ASSUME IndInv, NEW path, CanWatch(path), AddWatch(path),
         Tidy(buf \o kq, DOMAIN marks, nextWd)
  PROVE  /\ Tidy(buf \o kq, DOMAIN marks', nextWd')
         /\ DOMAIN marks' = DOMAIN marks \cup {AddedWd(path)}
         /\ UNCHANGED kq
<1> DEFINE v == AddedWd(path)
<1>1. /\ DOMAIN marks' = DOMAIN marks \cup {v} /\ UNCHANGED kq
      /\ nextWd' = IF v = nextWd THEN nextWd + 1 ELSE nextWd
  BY DEF AddWatch
<1>2. v \in DOMAIN marks \/ v = nextWd
  BY DEF AddedWd, Marked
<1> HIDE DEF v
<1>3. /\ buf \o kq \in Seq(Events) /\ nextWd \in Nat
      /\ \A wd \in DOMAIN marks : wd < nextWd
      /\ \A k \in 1..Len(buf \o kq) : (buf \o kq)[k] \in Events
  <2>1. buf \o kq \in Seq(Events)
    BY MarkTypes, ConcatProperties
  <2> QED BY <2>1, MarkTypes, ElementOfSeq
<1>4. \A k \in 1..Len(buf \o kq) :
        /\ (buf \o kq)[k].wd \in Int /\ (buf \o kq)[k].wd < nextWd
        /\ (buf \o kq)[k].ev \in Partings => (buf \o kq)[k].wd \notin DOMAIN marks
  BY <1>3 DEF Tidy, Events
<1>5. \A k \in 1..Len(buf \o kq) :
        /\ (buf \o kq)[k].wd < nextWd'
        /\ (buf \o kq)[k].ev \in Partings => (buf \o kq)[k].wd \notin DOMAIN marks'
  BY <1>1, <1>2, <1>3, <1>4
<1>6. Orderly(buf \o kq)
  BY DEF Tidy
<1> QED BY <1>1, <1>5, <1>6 DEF Tidy, v

LEMMA NewInstanceClears ==
  ASSUME NewInstance, buf = <<>>, UNCHANGED <<buf, pc>>, pc = "idle"
  PROVE  AbortInv'
<1>1. buf' = <<>> /\ kq' = <<>> /\ DOMAIN marks' = {} /\ buf' \o kq' = <<>>
  BY DEF NewInstance, NoWatches
<1>2. Tidy(<<>>, {}, nextWd') /\ \A D : Known(<<>>, D)
  BY DEF Tidy, Orderly, Known
<1> QED BY <1>1, <1>2 DEF AbortInv, MapsAll, Handling

-----------------------------------------------------------------------------
(* The kinds of step.  First those that leave queue, watches and map as    *)
(* they are.                                                               *)
MapAlone == UNCHANGED <<marks, nextWd, wmap, found, failed>>

LEMMA Stays ==
  ASSUME IndInv, IndInv', AbortInv, MapAlone, UNCHANGED <<buf, kq>>,
         pc # "purge", pc' # "aborted"
  PROVE  AbortInv'
<1>1. Tidy(buf \o kq, DOMAIN marks, nextWd)' /\ Entries' = Entries
  BY DEF AbortInv, MapAlone, Entries
<1>2. pc' = "purge" => buf # <<>>
  BY DEF IndInv, ControlOK, InHandler
<1>3. ASSUME Known(buf, Entries) PROVE Known(Handling', Entries)
  BY <1>2, <1>3, MarkTypes, KnownTail DEF Handling
<1> QED BY <1>1, <1>3 DEF AbortInv, MapsAll, MapAlone, Handling

LEMMA HandledTail ==
  ASSUME IndInv, buf # <<>>, NEW D, Known(Handling, D)
  PROVE  Known(Tail(buf), D)
  BY MarkTypes, KnownTail DEF Handling

(* A record has been handled.                                              *)
LEMMA Pops ==
  ASSUME IndInv, AbortInv, MapAlone, buf # <<>>, buf' = Tail(buf), UNCHANGED kq,
         pc' \notin {"purge", "aborted"}
  PROVE  AbortInv'
<1>1. buf \o kq \in Seq(Events) /\ buf \o kq # <<>>
      /\ buf' \o kq = Tail(buf \o kq)
  BY MarkTypes, ConcatHead, ConcatProperties
<1>2. Tidy(buf' \o kq, DOMAIN marks, nextWd)
  BY <1>1, TidyTail DEF AbortInv
<1>3. Tidy(buf \o kq, DOMAIN marks, nextWd)' /\ Entries' = Entries
  BY <1>2 DEF MapAlone, Entries
<1>4. Handling' = Tail(buf)
  BY DEF Handling
<1> QED BY <1>3, <1>4, HandledTail DEF AbortInv, MapsAll, MapAlone

(* The recursion gives up.                                                 *)
LEMMA GivesUp ==
  ASSUME AbortInv, UNCHANGED <<buf, kq, marks, nextWd>>, failed'
  PROVE  AbortInv'
  BY DEF AbortInv

(* Records arrive.                                                         *)
LEMMA Arrives ==
  ASSUME IndInv, AbortInv, Posts, UNCHANGED <<buf, wmap, found, failed>>,
         (pc' = "purge") <=> (pc = "purge"), pc' = "aborted" => pc = "aborted"
  PROVE  AbortInv'
<1>1. Tidy(buf \o kq, DOMAIN marks, nextWd)' /\ Entries' = Entries
      /\ Handling' = Handling
  BY DEF AbortInv, Posts, Carries, Entries, Handling
<1>2. MapsAll => Known(kq', Entries) /\ DOMAIN marks' \subseteq Entries
  BY DEF MapsAll, Posts, Carries
<1> QED BY <1>1, <1>2 DEF AbortInv, MapsAll

-----------------------------------------------------------------------------
(* The calls of the application.                                           *)
LEMMA WorldAlone ==
  ASSUME UNCHANGED worldVars
  PROVE  UNCHANGED <<kq, marks, nextWd>>
  BY DEF worldVars, kernelVars

LEMMA CallsSound ==
  ASSUME IndInv, IndInv', AbortInv, ~Mishap, ~Mishap', Calls
  PROVE  AbortInv'
<1>1. CASE createInotify
  <2>1. pc = "idle" /\ UNCHANGED <<buf, pc, wmap, found, failed>>
    BY <1>1 DEF createInotify, ctlVars, localVars, scanVars
  <2>2. CASE NewInstance /\ ~fd
    BY <2>1, <2>2, NewInstanceClears DEF Mishap, Relic
  <2>3. CASE UNCHANGED kernelVars
    BY <2>1, <2>3, Stays DEF MapAlone, kernelVars
  <2> QED BY <1>1, <2>2, <2>3 DEF createInotify
<1>2. CASE destroyInotify
  <2>1. pc = "idle" /\ UNCHANGED <<buf, pc>> /\ fd' = FALSE /\ NewInstance
    BY <1>2 DEF destroyInotify, ctlVars
  <2>2. buf = <<>>
    BY <2>1 DEF Mishap, Relic
  <2> QED BY <2>1, <2>2, NewInstanceClears
<1>3. ASSUME NEW paths, NEW ev, NEW ok, NEW stage \in WatchStages,
             WatchCall(paths, ev, ok, stage)
      PROVE  AbortInv'
  <2>1. /\ UNCHANGED <<buf, kq, marks, nextWd, wmap, found, failed>> /\ pc = "idle"
        /\ pc' \in {"idle", stage}
    BY <1>3 DEF WatchCall, kernelVars, scanVars
  <2> QED BY <2>1, Stays DEF MapAlone, WatchStages
<1>4. ASSUME NEW timed, waitCompleteEvent(timed) PROVE AbortInv'
  <2>1. /\ UNCHANGED <<buf, kq, marks, nextWd, wmap, found, failed>> /\ pc = "idle"
        /\ pc' \in {"idle", "read"}
    BY <1>4 DEF waitCompleteEvent, worldVars, kernelVars, scanVars
  <2> QED BY <2>1, Stays DEF MapAlone
<1>5. CASE getEventItem
  <2>1. UNCHANGED <<buf, kq, marks, nextWd, wmap, found, failed, pc>> /\ pc = "idle"
    BY <1>5 DEF getEventItem, worldVars, kernelVars, ctlVars, localVars, scanVars
  <2> QED BY <2>1, Stays DEF MapAlone
<1>6. "files" \in WatchStages /\ "roots" \in WatchStages
  BY DEF WatchStages
<1> QED
  BY <1>1, <1>2, <1>3, <1>4, <1>5, <1>6 DEF Calls, watchFiles, watchRecursive

-----------------------------------------------------------------------------
(* The watch calls.                                                        *)

(* No other descriptor holds the path: the entry is made and none goes.    *)
LEMMA InsertsOne ==
  ASSUME NEW wd, NEW path, NEW rec, Insert(wd, path, rec), Holders(path) \subseteq {wd}
  PROVE  DOMAIN wmap' = DOMAIN wmap \cup {wd}
<1>1. CASE wmap' = Put(wd, path, rec)
  BY <1>1 DEF Put
<1>2. CASE UNCHANGED wmap /\ (wd \in DOMAIN wmap \/ Holds(path))
  BY <1>2 DEF Holds, Holders
<1> QED BY <1>1, <1>2 DEF Insert

(* A watch is added, for an entry the map has or is to get.                *)
LEMMA Adds ==
  ASSUME IndInv, AbortInv, NEW path, CanWatch(path), AddWatch(path),
         UNCHANGED <<buf, failed>>, Entries \subseteq Entries',
         AddedWd(path) \in Entries', pc # "purge", pc' \notin {"purge", "aborted"}
  PROVE  AbortInv'
<1>1. /\ Tidy(buf \o kq, DOMAIN marks', nextWd') /\ UNCHANGED kq
      /\ DOMAIN marks' = DOMAIN marks \cup {AddedWd(path)}
  BY AddWatchPosts DEF AbortInv
<1>2. Tidy(buf \o kq, DOMAIN marks, nextWd)'
  BY <1>1
<1>3. Handling' = buf /\ Handling = buf
  BY DEF Handling
<1> QED BY <1>1, <1>2, <1>3, KnownMore DEF AbortInv, MapsAll

LEMMA FilesAddSound ==
  ASSUME IndInv, AbortInv, ~Mishap, FilesAdd
  PROVE  AbortInv'
<1>1. /\ pc = "files" /\ todo # <<>> /\ CanWatch(Head(todo))
      /\ AddWatch(Head(todo)) /\ Insert(AddedWd(Head(todo)), Head(todo), FALSE)
      /\ UNCHANGED <<buf, found, failed, pc>>
  BY DEF FilesAdd, ctlVars, scanVars
<1>2. DOMAIN wmap' = DOMAIN wmap \cup {AddedWd(Head(todo))}
  BY <1>1, InsertsOne DEF Mishap, Clash
<1>3. Entries' = Entries \cup {AddedWd(Head(todo))}
  BY <1>1, <1>2 DEF Entries
<1> QED BY <1>1, <1>3, Adds

LEMMA FoundTypes ==
  ASSUME IndInv
  PROVE  InfoListOK(found)
  BY DEF IndInv, TypeOK, ToolTypeOK

LEMMA FoundAppend ==
  ASSUME NEW s, InfoListOK(s), NEW e
  PROVE  {Append(s, e)[k].wd : k \in DOMAIN Append(s, e)} =
           {s[k].wd : k \in DOMAIN s} \cup {e.wd}
<1>1. PICK T : s \in Seq(T)
  BY DEF InfoListOK
<1>2. s \in Seq(T \cup {e}) /\ e \in T \cup {e}
  BY <1>1, SeqMonotonic
<1>3. /\ Len(s) \in Nat /\ DOMAIN s = 1..Len(s)
      /\ DOMAIN Append(s, e) = 1..(Len(s) + 1) /\ Append(s, e)[Len(s) + 1] = e
      /\ \A k \in 1..Len(s) : Append(s, e)[k] = s[k]
  BY <1>2, AppendProperties
<1>4. DOMAIN Append(s, e) = DOMAIN s \cup {Len(s) + 1}
  BY <1>3
<1> QED BY <1>3, <1>4

LEMMA FoundTail ==
  ASSUME NEW s, InfoListOK(s), s # <<>>
  PROVE  {s[k].wd : k \in DOMAIN s} =
           {Tail(s)[k].wd : k \in DOMAIN Tail(s)} \cup {Head(s).wd}
<1>1. PICK T : s \in Seq(T)
  BY DEF InfoListOK
<1>2. /\ Len(s) \in Nat \ {0} /\ DOMAIN s = 1..Len(s) /\ Head(s) = s[1]
      /\ DOMAIN Tail(s) = 1..(Len(s) - 1)
      /\ \A k \in 1..(Len(s) - 1) : Tail(s)[k] = s[k + 1]
  BY <1>1, HeadTailProperties, EmptySeq
<1>3. \A k \in 1..Len(s) : k = 1 \/ (k - 1 \in 1..(Len(s) - 1) /\ (k - 1) + 1 = k)
  BY <1>2
<1>4. \A k \in 1..(Len(s) - 1) : k + 1 \in 1..Len(s)
  BY <1>2
<1>5. 1 \in 1..Len(s)
  BY <1>2
<1>6. ASSUME NEW k \in DOMAIN s
      PROVE  s[k].wd \in {Tail(s)[j].wd : j \in DOMAIN Tail(s)} \cup {Head(s).wd}
  <2>1. CASE k = 1
    BY <1>2, <2>1
  <2>2. CASE k - 1 \in 1..(Len(s) - 1) /\ (k - 1) + 1 = k
    <3>1. k - 1 \in DOMAIN Tail(s) /\ Tail(s)[k - 1] = s[k]
      BY <1>2, <2>2
    <3> QED BY <3>1
  <2> QED BY <1>2, <1>3, <2>1, <2>2
<1>7. ASSUME NEW j \in DOMAIN Tail(s)
      PROVE  Tail(s)[j].wd \in {s[k].wd : k \in DOMAIN s}
  <2>1. j + 1 \in DOMAIN s /\ Tail(s)[j] = s[j + 1]
    BY <1>2, <1>4
  <2> QED BY <2>1
<1>8. Head(s).wd \in {s[k].wd : k \in DOMAIN s}
  BY <1>2, <1>5
<1> QED BY <1>6, <1>7, <1>8

LEMMA ScanAddSound ==
  ASSUME IndInv, AbortInv, ScanAdd
  PROVE  AbortInv'
<1> DEFINE path == CorrectionPath(enter)
<1>1. /\ CanWatch(path) /\ AddWatch(path)
      /\ pc = "add" /\ pc' = "opendir" /\ UNCHANGED <<buf, wmap, failed>>
      /\ found' = Append(found, [wd |-> AddedWd(path), path |-> path])
  BY DEF ScanAdd
<1> HIDE DEF path
<1>2. Entries' = Entries \cup {AddedWd(path)}
  BY <1>1, FoundTypes, FoundAppend DEF Entries
<1> QED BY <1>1, <1>2, Adds

LEMMA InsertFoundSound ==
  ASSUME IndInv, AbortInv, ~Mishap, InsertFound
  PROVE  AbortInv'
<1>1. /\ pc = "insert" /\ found # <<>> /\ found' = Tail(found)
      /\ Insert(Head(found).wd, Head(found).path, TRUE)
      /\ UNCHANGED <<buf, kq, marks, nextWd, failed, pc>>
  BY DEF InsertFound, worldVars, kernelVars, ctlVars
<1>2. DOMAIN wmap' = DOMAIN wmap \cup {Head(found).wd}
  BY <1>1, InsertsOne DEF Mishap, Clash
<1>3. Entries' = Entries /\ Handling' = Handling
  BY <1>1, <1>2, FoundTypes, FoundTail DEF Entries, Handling
<1> QED BY <1>1, <1>3 DEF AbortInv, MapsAll

(* A watch is given up ahead of no record that is looked up by it.         *)
LEMMA KnownWithout ==
  ASSUME NEW q, NEW wd, NEW D, Known(q, D), \A r \in Records(q) : ~Looked(r, wd)
  PROVE  Known(q, D \ {wd})
  BY DEF Known, Records, Looked

LEMMA GivesUpWatch ==
  ASSUME IndInv, AbortInv, NEW wd, RmWatch(wd), wmap' = Without({wd}),
         \A r \in Records(Handling) \cup Records(kq) : ~Looked(r, wd),
         found = <<>>, UNCHANGED <<buf, found, failed, pc>>
  PROVE  AbortInv'
<1>1. /\ Posts /\ DOMAIN marks' = DOMAIN marks \ {wd}
      /\ \A D : Known(kq, D) => Known(kq', D)
  BY RmWatchPosts
<1>2. Tidy(buf \o kq, DOMAIN marks, nextWd)' /\ Handling' = Handling
  BY <1>1 DEF AbortInv, Posts, Carries, Handling
<1>3. Entries' = Entries \ {wd}
  BY DEF Entries, Without
<1>4. Known(kq, Entries) => Known(kq', Entries')
  BY <1>1, <1>3, KnownWithout
<1>5. Known(Handling, Entries) => Known(Handling', Entries')
  BY <1>2, <1>3, KnownWithout
<1> QED BY <1>1, <1>2, <1>3, <1>4, <1>5 DEF AbortInv, MapsAll

LEMMA RollbackSound ==
  ASSUME IndInv, AbortInv, ~Mishap, Rollback
  PROVE  AbortInv'
<1>1. /\ pc = "rollback" /\ made # <<>> /\ RmWatch(Head(made))
      /\ wmap' = Without({Head(made)}) /\ UNCHANGED <<buf, found, failed, pc>>
  BY DEF Rollback, ctlVars, scanVars
<1>2. found = <<>>
  BY <1>1 DEF IndInv, ControlOK
<1>3. \A r \in Records(Handling) \cup Records(kq) : ~Looked(r, Head(made))
  BY <1>1 DEF Mishap, Cut, Handling, Pending
<1> QED BY <1>1, <1>2, <1>3, GivesUpWatch

LEMMA WatchStepsSound ==
  ASSUME IndInv, IndInv', AbortInv, ~Mishap, WatchSteps
  PROVE  AbortInv'
<1>1. CASE FilesFail \/ FilesDone \/ RollbackDone \/ NextRoot \/ RootsDone
           \/ (\E n \in AllNames : ScanEntry(n)) \/ ScanClose \/ InsertDone
  <2>1. MapAlone /\ UNCHANGED <<buf, kq>>
    BY <1>1 DEF FilesFail, FilesDone, RollbackDone, NextRoot, RootsDone, ScanEntry,
         ScanClose, InsertDone, MapAlone, worldVars, kernelVars, scanVars, localVars
  <2>2. pc \in WatchStages /\ pc' \in WatchStages \cup {caller}
        /\ caller \in {"idle", "created", "moved_in"}
    BY WatchStepsPipe DEF WatchStep, IndInv, TypeOK, ToolTypeOK
  <2> QED BY <2>1, <2>2, Stays DEF WatchStages
<1>2. CASE ScanAddFails \/ ScanOpenFails \/ ScanEntryFails
  <2>1. PICK open : ScanFails(open)
    BY <1>2 DEF ScanAddFails, ScanOpenFails, ScanEntryFails
  <2> QED BY <2>1, GivesUp DEF ScanFails, worldVars, kernelVars
<1>3. CASE ScanOpen
  <2>1. Posts
    BY <1>3, OpendirPosts DEF ScanOpen
  <2> QED BY <1>3, <2>1, Arrives DEF ScanOpen
<1> QED
  BY <1>1, <1>2, <1>3, FilesAddSound, RollbackSound, ScanAddSound, InsertFoundSound
  DEF WatchSteps


-----------------------------------------------------------------------------
(* The handlers of _parseEvent.                                            *)
LEMMA InParse ==
  ASSUME IndInv, NEW kinds, Parsing(kinds)
  PROVE  /\ pc = "parse" /\ buf # <<>> /\ Head(buf).ev \in kinds
         /\ found = <<>> /\ Entries = DOMAIN wmap /\ Handling = buf
<1>1. pc = "parse" /\ Head(buf).ev \in kinds /\ HeaderFits(buf)
  BY DEF Parsing
<1>2. found = <<>> /\ buf # <<>>
  BY <1>1, HeaderFitsNonempty DEF IndInv, TypeOK, ControlOK
<1>3. DOMAIN found = {}
  BY <1>2
<1> QED BY <1>1, <1>2, <1>3 DEF Entries, Handling

(* Those that are through with the record at once.                         *)
LEMMA HandledAtOnce ==
  ASSUME IndInv, AbortInv,
         \/ OnOverflow \/ OnNameless \/ OnDelete \/ OnModify \/ OnCloseWrite
         \/ OnMovedFrom
  PROVE  AbortInv'
<1>1. \E kinds : Parsing(kinds)
  BY DEF OnOverflow, OnNameless, OnDelete, OnModify, OnCloseWrite, OnMovedFrom,
         Named, Mapped
<1>2. pc = "parse" /\ buf # <<>>
  BY <1>1, InParse
<1>3. MapAlone /\ buf' = Tail(buf) /\ UNCHANGED <<kq, pc>>
  BY DEF OnOverflow, OnNameless, OnDelete, OnModify, OnCloseWrite, OnMovedFrom,
         MapAlone, worldVars, kernelVars, ctlVars, localVars, scanVars
<1> QED BY <1>2, <1>3, Pops

(* Those that go on with the record at the head.                           *)
LEMMA HandlerGoesOn ==
  ASSUME IndInv, IndInv', AbortInv, OnCreate \/ OnMovedTo \/ RenameDone \/ ParseDone
  PROVE  AbortInv'
<1>1. MapAlone /\ UNCHANGED <<buf, kq>>
  BY DEF OnCreate, OnMovedTo, RenameDone, ParseDone, MapAlone, worldVars,
         kernelVars, ctlVars, scanVars
<1>2. pc # "purge" /\ pc' # "aborted"
  BY DEF OnCreate, OnMovedTo, RenameDone, ParseDone, Named, Mapped, Parsing
<1> QED BY <1>1, <1>2, Stays

(* The ends of the handlers of CREATE, MOVED_TO and the last branch.       *)
LEMMA HandlerIsThrough ==
  ASSUME IndInv, IndInv', AbortInv, Created \/ MovedIn \/ OnOther \/ PurgeDone
  PROVE  AbortInv'
<1>1. MapAlone /\ UNCHANGED kq
  BY DEF Created, MovedIn, OnOther, PurgeDone, MapAlone, worldVars, kernelVars,
         ctlVars, scanVars
<1>2. buf # <<>>
  <2>1. CASE OnOther
    BY <2>1, InParse DEF OnOther, Named, Mapped
  <2>2. CASE Created \/ MovedIn \/ PurgeDone
    BY <2>2 DEF Created, MovedIn, PurgeDone, IndInv, ControlOK, InHandler
  <2> QED BY <2>1, <2>2
<1>3. \/ buf' = Tail(buf) /\ pc' = "parse"
      \/ UNCHANGED buf /\ pc' = "purge" /\ pc # "purge"
  BY DEF Created, MovedIn, OnOther, PurgeDone, LoopTail, Named, Mapped, Parsing
<1> QED BY <1>1, <1>2, <1>3, Pops, Stays

(* The queue when its oldest record is gone.                               *)
LEMMA QueueTail ==
  ASSUME IndInv, AbortInv, buf # <<>>
  PROVE  /\ buf \o kq \in Seq(Events) /\ buf \o kq # <<>>
         /\ Head(buf \o kq) = Head(buf) /\ Tail(buf \o kq) = Tail(buf) \o kq
         /\ Tidy(Tail(buf) \o kq, DOMAIN marks, nextWd)
         /\ Tail(buf) \in Seq(Events) /\ kq \in Seq(Events)
<1>1. /\ buf \o kq \in Seq(Events) /\ buf \o kq # <<>>
      /\ Head(buf \o kq) = Head(buf) /\ Tail(buf \o kq) = Tail(buf) \o kq
      /\ Tail(buf) \in Seq(Events) /\ kq \in Seq(Events)
  BY MarkTypes, ConcatHead, ConcatProperties, HeadTailProperties
<1>2. Tidy(Tail(buf \o kq), DOMAIN marks, nextWd)
  BY <1>1, TidyTail DEF AbortInv
<1> QED BY <1>1, <1>2


LEMMA SettledPop ==
  ASSUME IndInv, AbortInv, buf # <<>>, buf' = Tail(buf), pc = "parse",
         UNCHANGED <<pc, failed>>, kq' \in Seq(Events),
         Tidy(buf \o kq', DOMAIN marks', nextWd'),
         ~failed => /\ DOMAIN marks' \subseteq Entries'
                    /\ Known(Tail(buf), Entries') /\ Known(kq', Entries')
  PROVE  AbortInv'
<1>1. /\ Tail(buf \o kq') = Tail(buf) \o kq' /\ buf \o kq' # <<>>
      /\ buf \o kq' \in Seq(Events)
  BY MarkTypes, ConcatHead, ConcatProperties
<1>2. Tidy(buf' \o kq', DOMAIN marks', nextWd')
  BY <1>1, TidyTail
<1>3. Handling' = Tail(buf)
  BY DEF Handling
<1> QED BY <1>2, <1>3 DEF AbortInv, MapsAll

LEMMA RmWatchTidy ==
  ASSUME IndInv, AbortInv, NEW wd, RmWatch(wd)
  PROVE  /\ kq' \in Seq(Events) /\ Tidy(buf \o kq', DOMAIN marks', nextWd')
         /\ DOMAIN marks' = DOMAIN marks \ {wd}
         /\ \A D : Known(kq, D) => Known(kq', D)
  BY RmWatchPosts DEF Posts, Carries, AbortInv

LEMMA OnDeleteSelfSound ==
  ASSUME IndInv, AbortInv, OnDeleteSelf
  PROVE  AbortInv'
<1>1. /\ Parsing({"DELETE_SELF"}) /\ RmWatch(Head(buf).wd) /\ buf' = Tail(buf)
      /\ UNCHANGED <<wmap, pc, found, failed>>
  BY DEF OnDeleteSelf, ctlVars, localVars, scanVars
<1>2. /\ pc = "parse" /\ buf # <<>> /\ Entries' = Entries /\ Handling = buf
  BY <1>1, InParse DEF Entries
<1>3. ~failed => Known(Tail(buf), Entries)
  BY <1>2, HandledTail DEF AbortInv, MapsAll
<1> QED BY <1>1, <1>2, <1>3, RmWatchTidy, SettledPop DEF AbortInv, MapsAll

(* A descriptor that has come to its end is not needed any more.           *)
LEMMA EndUnknown ==
  ASSUME IndInv, AbortInv, buf # <<>>, Handling = buf, Head(buf).ev \in Ends
  PROVE  /\ Head(buf).wd \notin DOMAIN marks
         /\ ~failed => /\ Known(Tail(buf), Entries \ {Head(buf).wd})
                       /\ Known(kq, Entries \ {Head(buf).wd})
<1> DEFINE q == buf \o kq
           D == Entries \ {Head(buf).wd}
<1>1. /\ q \in Seq(Events) /\ q # <<>> /\ Head(q) = Head(buf)
      /\ Tail(q) = Tail(buf) \o kq
      /\ Tail(buf) \in Seq(Events) /\ kq \in Seq(Events) /\ buf \in Seq(Events)
  BY QueueTail, MarkTypes
<1>2. Tidy(q, DOMAIN marks, nextWd)
  BY DEF AbortInv
<1>3. q[1] = Head(q) /\ 1 \in 1..Len(q)
  <2> HIDE DEF q
  <2> QED BY <1>1, HeadTailProperties, EmptySeq
<1>4. Head(buf).wd \notin DOMAIN marks
  BY <1>1, <1>2, <1>3 DEF Tidy, Partings
<1>5. ASSUME ~failed PROVE Known(Tail(buf), D) /\ Known(kq, D)
  <2>1. Known(q, Entries)
    BY <1>1, <1>5, KnownConcat DEF AbortInv, MapsAll
  <2> HIDE DEF q
  <2>2. Known(Tail(q), D)
    BY <1>1, <1>2, <2>1, KnownPastEnd
  <2> HIDE DEF D
  <2> QED BY <1>1, <2>2, KnownConcat
<1> QED BY <1>4, <1>5

LEMMA OnIgnoredSound ==
  ASSUME IndInv, AbortInv, OnIgnored
  PROVE  AbortInv'
<1>1. /\ Parsing({"IGNORED"}) /\ wmap' = Without({Head(buf).wd})
      /\ buf' = Tail(buf) /\ UNCHANGED <<kq, marks, nextWd, pc, found, failed>>
  BY DEF OnIgnored, worldVars, kernelVars, ctlVars, localVars, scanVars
<1>2. /\ pc = "parse" /\ buf # <<>> /\ Head(buf).ev \in Ends /\ Handling = buf
      /\ Entries = DOMAIN wmap /\ found = <<>>
  BY <1>1, InParse DEF Ends
<1>3. Entries' = Entries \ {Head(buf).wd}
  BY <1>1, <1>2 DEF Entries, Without
<1>4. /\ Head(buf).wd \notin DOMAIN marks
      /\ ~failed => Known(Tail(buf), Entries') /\ Known(kq, Entries')
  BY <1>2, <1>3, EndUnknown
<1>5. ~failed => DOMAIN marks \subseteq Entries'
  BY <1>3, <1>4 DEF AbortInv, MapsAll
<1> QED BY <1>1, <1>2, <1>4, <1>5, MarkTypes, SettledPop DEF AbortInv

LEMMA OnUnmountSound ==
  ASSUME IndInv, AbortInv, OnUnmount
  PROVE  AbortInv'
<1>1. /\ Parsing({"UNMOUNT"} \ Unnamed) /\ RmWatch(Head(buf).wd)
      /\ wmap' = Without({Head(buf).wd})
      /\ buf' = Tail(buf) /\ UNCHANGED <<pc, found, failed>>
  BY DEF OnUnmount, Mapped, ctlVars, localVars, scanVars
<1>2. /\ pc = "parse" /\ buf # <<>> /\ Head(buf).ev \in Ends /\ Handling = buf
      /\ Entries = DOMAIN wmap /\ found = <<>>
  BY <1>1, InParse DEF Ends
<1>3. Entries' = Entries \ {Head(buf).wd}
  BY <1>1, <1>2 DEF Entries, Without
<1>4. ~failed => Known(Tail(buf), Entries') /\ Known(kq, Entries')
  BY <1>2, <1>3, EndUnknown
<1>5. /\ kq' \in Seq(Events) /\ Tidy(buf \o kq', DOMAIN marks', nextWd')
      /\ DOMAIN marks' = DOMAIN marks \ {Head(buf).wd}
      /\ Known(kq, Entries') => Known(kq', Entries')
  BY <1>1, RmWatchTidy
<1>6. ~failed => DOMAIN marks' \subseteq Entries'
  BY <1>3, <1>5 DEF AbortInv, MapsAll
<1> QED BY <1>1, <1>2, <1>4, <1>5, <1>6, SettledPop

(* The assertion fails only when a recursive watch has failed before.      *)
LEMMA OnUnknownWdSound ==
  ASSUME IndInv, AbortInv, OnUnknownWd
  PROVE  failed /\ AbortInv'
<1>1. /\ Parsing(EventKinds \ Unnamed) /\ Head(buf).wd \notin DOMAIN wmap
      /\ UNCHANGED <<buf, kq, marks, nextWd, failed>>
  BY DEF OnUnknownWd, worldVars, kernelVars, localVars, scanVars
<1>2. /\ Head(buf).ev \notin Unnamed /\ buf # <<>>
      /\ Entries = DOMAIN wmap /\ Handling = buf
  BY <1>1, InParse
<1>3. Head(buf) = buf[1] /\ 1 \in 1..Len(buf)
  BY <1>2, MarkTypes, HeadTailProperties, EmptySeq
<1>4. failed
  BY <1>1, <1>2, <1>3 DEF AbortInv, MapsAll, Known
<1> QED BY <1>1, <1>4, GivesUp

LEMMA RenameEntrySound ==
  ASSUME IndInv, IndInv', AbortInv, ~Mishap, RenameEntry
  PROVE  AbortInv'
<1> DEFINE wd == Smallest(visit)
<1>1. /\ pc = "rename" /\ visit # {} /\ UNCHANGED <<buf, kq, marks, nextWd, found, failed, pc>>
      /\ \/ wd \in DOMAIN wmap /\ Update(wd, Renamed(wd))
         \/ UNCHANGED wmap
  BY DEF RenameEntry, Renamed, worldVars, kernelVars, ctlVars, scanVars
<1>2. wd \in DOMAIN wmap => Holders(Renamed(wd)) \subseteq {wd}
  BY <1>1 DEF Mishap, Clash
<1> HIDE DEF wd
<1>3. DOMAIN wmap' = DOMAIN wmap
  BY <1>1, <1>2 DEF Update, Put
<1>4. Entries' = Entries /\ Handling' = Handling
  BY <1>1, <1>3 DEF Entries, Handling
<1> QED BY <1>1, <1>4 DEF AbortInv, MapsAll

LEMMA PurgeEntrySound ==
  ASSUME IndInv, AbortInv, ~Mishap, PurgeEntry
  PROVE  AbortInv'
<1> DEFINE wd == Smallest(visit)
<1>1. /\ pc = "purge" /\ visit # {} /\ RmWatch(wd) /\ wmap' = Without({wd})
      /\ UNCHANGED <<buf, found, failed, pc>>
  BY DEF PurgeEntry, ctlVars, scanVars
<1>2. found = <<>>
  BY <1>1 DEF IndInv, ControlOK
<1>3. \A r \in Records(Handling) \cup Records(kq) : ~Looked(r, wd)
  BY <1>1 DEF Mishap, Cut, Handling
<1> HIDE DEF wd
<1> QED BY <1>1, <1>2, <1>3, GivesUpWatch

LEMMA ParseStepsSound ==
  ASSUME IndInv, IndInv', AbortInv, ~Mishap, ParseSteps
  PROVE  AbortInv'
  BY HandledAtOnce, HandlerGoesOn, HandlerIsThrough, OnDeleteSelfSound,
     OnIgnoredSound, OnUnmountSound, OnUnknownWdSound, RenameEntrySound,
     PurgeEntrySound DEF ParseSteps

-----------------------------------------------------------------------------
(* A read moves records from the kernel to the buffer.                     *)
LEMMA ReadSound ==
  ASSUME IndInv, IndInv', AbortInv, Read
  PROVE  AbortInv'
<1>1. /\ buf' \o kq' = buf \o kq /\ pc = "read" /\ pc' \in {"parse", "idle"}
      /\ UNCHANGED <<marks, nextWd, wmap, found, failed>>
  BY ReadQueue DEF Read, scanVars
<1>2. /\ buf \in Seq(Events) /\ kq \in Seq(Events)
      /\ buf' \in Seq(Events) /\ kq' \in Seq(Events)
  BY DEF IndInv, TypeOK, ToolTypeOK, KernelTypeOK
<1>3. Handling = buf /\ Handling' = buf' /\ Entries' = Entries
  BY <1>1 DEF Handling, Entries
<1>4. Known(buf, Entries) /\ Known(kq, Entries)
        => Known(buf', Entries) /\ Known(kq', Entries)
  BY <1>1, <1>2, KnownConcat
<1> QED BY <1>1, <1>3, <1>4 DEF AbortInv, MapsAll

LEMMA OthersSound ==
  ASSUME IndInv, AbortInv, OtherProcesses, UNCHANGED toolVars
  PROVE  AbortInv'
<1>1. UNCHANGED <<buf, wmap, found, failed, pc>>
  BY DEF toolVars, ctlVars, localVars, scanVars
<1> QED BY <1>1, OtherProcessesPost, Arrives

LEMMA StutterSound ==
  ASSUME AbortInv, UNCHANGED vars
  PROVE  AbortInv'
<1>1. UNCHANGED <<buf, kq, marks, nextWd, wmap, found, failed, pc>>
  BY DEF vars, toolVars, kernelVars, ctlVars, localVars, scanVars
<1> QED BY <1>1 DEF AbortInv, MapsAll, Entries, Handling

-----------------------------------------------------------------------------
THEOREM InitAbortInv == Init => AbortInv
<1> SUFFICES ASSUME Init PROVE AbortInv
  OBVIOUS
<1>1. /\ buf = <<>> /\ kq = <<>> /\ marks = NoWatches /\ pc = "idle"
      /\ buf \o kq = <<>>
  BY DEF Init, KernelInit
<1>2. DOMAIN marks = {} /\ Len(<<>>) = 0
  BY <1>1 DEF NoWatches
<1>3. Tidy(<<>>, {}, nextWd) /\ \A D : Known(<<>>, D)
  BY <1>2 DEF Tidy, Orderly, Known
<1> QED BY <1>1, <1>2, <1>3 DEF AbortInv, MapsAll, Handling

(* As long as no mishap comes, the map has every descriptor that is going  *)
(* to be looked up.                                                        *)
THEOREM NextAbortInv ==
  IndInv /\ IndInv' /\ AbortInv /\ ~Mishap /\ ~Mishap' /\ [Next]_vars => AbortInv'
<1> SUFFICES ASSUME IndInv, IndInv', AbortInv, ~Mishap, ~Mishap', [Next]_vars
             PROVE  AbortInv'
  OBVIOUS
<1> QED
  BY CallsSound, WatchStepsSound, ReadSound, ParseStepsSound, OthersSound,
     StutterSound DEF Next, ToolStep

THEOREM AbortInvHolds == Spec /\ []~Mishap => []AbortInv
<1>1. IndInv /\ IndInv' /\ AbortInv /\ ~Mishap /\ ~Mishap' /\ [Next]_vars => AbortInv'
  BY NextAbortInv
<1> QED BY <1>1, InitAbortInv, IndInvHolds, PTL DEF Spec

(* LOG_ASSERT in _parseEvent fails only after a clash of two descriptors   *)
(* over a path, a buffer that outlived its instance, a loop that ended     *)
(* watches ahead of their records, or a recursive watch that failed.       *)
THEOREM AbortsAreExplained == Spec => AbortsExplained
<1>1. AbortInv => (pc = "aborted" => failed)
  BY DEF AbortInv, MapsAll
<1> QED BY <1>1, AbortInvHolds, PTL DEF AbortsExplained

(* Without such a mishap m_pathWithWd has every watch of the kernel when   *)
(* no watch call is running, whether or not the queue has overflowed.      *)
THEOREM MapKnowsMarks == Spec => ([]~Mishap => []MarkKnown)
<1>1. IndInv /\ AbortInv => MarkKnown
  <2> SUFFICES ASSUME IndInv, AbortInv, pc \in {"idle", "read", "parse"}, ~failed
               PROVE  DOMAIN marks \subseteq DOMAIN wmap
    BY DEF MarkKnown
  <2>1. found = <<>>
    BY DEF IndInv, ControlOK
  <2>2. DOMAIN found = {}
    BY <2>1
  <2> QED BY <2>2 DEF AbortInv, MapsAll, Entries
<1> QED BY <1>1, AbortInvHolds, IndInvHolds, PTL

THEOREM AbortExplainedHolds == Spec => ([]~Mishap => []AbortExplained)
<1>1. AbortInv => AbortExplained
  BY DEF AbortInv, MapsAll, AbortExplained, Excused
<1> QED BY <1>1, AbortInvHolds, PTL

(* The assertion never fails as long as no mishap happens and no recursive *)
(* watch fails.                                                            *)
THEOREM AssertionHolds == Spec => ([](~Mishap /\ ~failed) => []NeverAborts)
<1>1. AbortInv /\ ~failed => NeverAborts
  BY DEF AbortInv, MapsAll, NeverAborts
<1> QED BY <1>1, AbortInvHolds, PTL


-----------------------------------------------------------------------------
(* Tidy alone needs less: that no records outlive their instance.          *)
TidyInv == Tidy(buf \o kq, DOMAIN marks, nextWd)

LEMMA TidyStays ==
  ASSUME TidyInv, UNCHANGED <<buf, kq, marks, nextWd>>
  PROVE  TidyInv'
  BY DEF TidyInv

LEMMA TidyPops ==
  ASSUME IndInv, TidyInv, buf # <<>>, buf' = Tail(buf),
         UNCHANGED <<kq, marks, nextWd>>
  PROVE  TidyInv'
<1>1. /\ buf \o kq \in Seq(Events) /\ buf \o kq # <<>>
      /\ Tail(buf \o kq) = Tail(buf) \o kq
  BY MarkTypes, ConcatHead, ConcatProperties
<1>2. Tidy(Tail(buf) \o kq, DOMAIN marks, nextWd)
  BY <1>1, TidyTail DEF TidyInv
<1> QED BY <1>2 DEF TidyInv

LEMMA TidyArrives ==
  ASSUME TidyInv, Posts, UNCHANGED buf
  PROVE  TidyInv'
  BY DEF TidyInv, Posts, Carries

LEMMA TidyEnds ==
  ASSUME IndInv, TidyInv, NEW wd, RmWatch(wd),
         UNCHANGED buf \/ (buf # <<>> /\ buf' = Tail(buf))
  PROVE  TidyInv'
<1>1. kq' \in Seq(Events) /\ Tidy(buf \o kq', DOMAIN marks', nextWd')
  BY RmWatchPosts DEF Posts, Carries, TidyInv
<1>2. CASE UNCHANGED buf
  BY <1>1, <1>2 DEF TidyInv
<1>3. CASE buf # <<>> /\ buf' = Tail(buf)
  <2>1. /\ Tail(buf \o kq') = Tail(buf) \o kq' /\ buf \o kq' # <<>>
        /\ buf \o kq' \in Seq(Events)
    BY <1>1, <1>3, MarkTypes, ConcatHead, ConcatProperties
  <2>2. Tidy(Tail(buf) \o kq', DOMAIN marks', nextWd')
    BY <1>1, <2>1, TidyTail
  <2> QED BY <1>3, <2>2 DEF TidyInv
<1> QED BY <1>2, <1>3

LEMMA TidyAdds ==
  ASSUME IndInv, TidyInv, NEW path, CanWatch(path), AddWatch(path), UNCHANGED buf
  PROVE  TidyInv'
  BY AddWatchPosts DEF TidyInv

LEMMA CallsTidy ==
  ASSUME TidyInv, ~Relic, ~Relic', Calls
  PROVE  TidyInv'
<1>1. ASSUME NewInstance, buf = <<>>, UNCHANGED buf PROVE TidyInv'
  <2>1. DOMAIN marks' = {} /\ buf' \o kq' = <<>>
    BY <1>1 DEF NewInstance, NoWatches
  <2>2. Tidy(<<>>, {}, nextWd')
    BY DEF Tidy, Orderly
  <2> QED BY <2>1, <2>2 DEF TidyInv
<1>2. CASE createInotify
  <2>1. UNCHANGED buf /\ (UNCHANGED kernelVars \/ (NewInstance /\ ~fd))
    BY <1>2 DEF createInotify
  <2> QED BY <1>1, <2>1, TidyStays DEF Relic, kernelVars
<1>3. CASE destroyInotify
  <2>1. UNCHANGED buf /\ NewInstance /\ fd' = FALSE
    BY <1>3 DEF destroyInotify
  <2> QED BY <1>1, <2>1 DEF Relic
<1>4. ASSUME \/ getEventItem \/ \E timed : waitCompleteEvent(timed)
             \/ \E paths, ev, ok, stage : WatchCall(paths, ev, ok, stage)
      PROVE  TidyInv'
  <2>1. UNCHANGED <<buf, kq, marks, nextWd>>
    BY <1>4 DEF getEventItem, waitCompleteEvent, WatchCall, worldVars, kernelVars
  <2> QED BY <2>1, TidyStays
<1> QED BY <1>2, <1>3, <1>4 DEF Calls, watchFiles, watchRecursive

LEMMA WatchStepsTidy ==
  ASSUME IndInv, TidyInv, WatchSteps
  PROVE  TidyInv'
<1>1. UNCHANGED buf
  BY WatchStepsPipe DEF WatchStep
<1>2. CASE FilesAdd \/ ScanAdd
  BY <1>1, <1>2, TidyAdds DEF FilesAdd, ScanAdd
<1>3. CASE Rollback
  BY <1>1, <1>3, TidyEnds DEF Rollback
<1>4. CASE ScanOpen
  BY <1>1, <1>4, OpendirPosts, TidyArrives DEF ScanOpen
<1>5. CASE \/ FilesFail \/ FilesDone \/ RollbackDone \/ NextRoot \/ RootsDone
           \/ (\E n \in AllNames : ScanEntry(n)) \/ ScanClose \/ InsertFound \/ InsertDone
           \/ ScanAddFails \/ ScanOpenFails \/ ScanEntryFails
  <2>1. UNCHANGED <<kq, marks, nextWd>>
    BY <1>5 DEF FilesFail, FilesDone, RollbackDone, NextRoot, RootsDone, ScanEntry,
         ScanClose, InsertFound, InsertDone, ScanAddFails, ScanOpenFails,
         ScanEntryFails, ScanFails, worldVars, kernelVars
  <2> QED BY <1>1, <2>1, TidyStays
<1> QED BY <1>2, <1>3, <1>4, <1>5 DEF WatchSteps

LEMMA ParseStepsTidy ==
  ASSUME IndInv, TidyInv, ParseSteps
  PROVE  TidyInv'
<1>1. ASSUME \/ OnOverflow \/ OnDeleteSelf \/ OnIgnored \/ OnUnmount \/ OnNameless
             \/ OnDelete \/ OnModify \/ OnCloseWrite \/ OnMovedFrom \/ OnOther
             \/ Created \/ MovedIn \/ PurgeDone
      PROVE  buf # <<>>
  <2>1. CASE Created \/ MovedIn \/ PurgeDone
    BY <2>1 DEF Created, MovedIn, PurgeDone, IndInv, ControlOK, InHandler
  <2>2. CASE ~(Created \/ MovedIn \/ PurgeDone)
    <3>1. \E kinds : Parsing(kinds)
      BY <1>1, <2>2 DEF OnOverflow, OnDeleteSelf, OnIgnored, OnUnmount, OnNameless,
         OnDelete, OnModify, OnCloseWrite, OnMovedFrom, OnOther, Named, Mapped
    <3> QED BY <3>1, InParse
  <2> QED BY <2>1, <2>2
<1>2. CASE OnDeleteSelf \/ OnUnmount
  <2>1. RmWatch(Head(buf).wd) /\ buf' = Tail(buf)
    BY <1>2 DEF OnDeleteSelf, OnUnmount
  <2> QED BY <1>1, <1>2, <2>1, TidyEnds
<1>3. CASE PurgeEntry
  BY <1>3, TidyEnds DEF PurgeEntry
<1>4. CASE \/ OnOverflow \/ OnIgnored \/ OnNameless \/ OnDelete \/ OnModify
           \/ OnCloseWrite \/ OnMovedFrom \/ OnOther \/ Created \/ MovedIn \/ PurgeDone
  <2>1. UNCHANGED <<kq, marks, nextWd>> /\ (UNCHANGED buf \/ buf' = Tail(buf))
    BY <1>4 DEF OnOverflow, OnIgnored, OnNameless, OnDelete, OnModify, OnCloseWrite,
       OnMovedFrom, OnOther, Created, MovedIn, PurgeDone, LoopTail, worldVars, kernelVars
  <2> QED BY <1>1, <1>4, <2>1, TidyStays, TidyPops
<1>5. CASE \/ OnUnknownWd \/ OnCreate \/ OnMovedTo \/ RenameEntry \/ RenameDone
           \/ ParseDone
  <2>1. UNCHANGED <<buf, kq, marks, nextWd>>
    BY <1>5 DEF OnUnknownWd, OnCreate, OnMovedTo, RenameEntry, RenameDone, ParseDone,
       worldVars, kernelVars
  <2> QED BY <2>1, TidyStays
<1> QED BY <1>2, <1>3, <1>4, <1>5 DEF ParseSteps

(* The records of a descriptor that has ended are told from those of one   *)
(* that has not, and no new descriptor is one they speak of: whatever      *)
(* clashes in the map and whichever loop cuts watches off, as long as no   *)
(* record stays in the read buffer when its instance is closed.            *)
THEOREM RecordsTidy == Spec => ([]~Relic => []TidyInv)
<1>1. Init => TidyInv
  BY InitAbortInv DEF AbortInv, TidyInv
<1>2. IndInv /\ IndInv' /\ TidyInv /\ ~Relic /\ ~Relic' /\ [Next]_vars => TidyInv'
  <2> SUFFICES ASSUME IndInv, IndInv', TidyInv, ~Relic, ~Relic', [Next]_vars PROVE TidyInv'
    OBVIOUS
  <2>1. CASE OtherProcesses /\ UNCHANGED toolVars
    BY <2>1, OtherProcessesPost, TidyArrives DEF toolVars
  <2>2. CASE Read
    <3>1. buf' \o kq' = buf \o kq
      BY <2>2, ReadQueue
    <3>2. UNCHANGED <<marks, nextWd>>
      BY <2>2 DEF Read
    <3>3. Tidy(buf' \o kq', DOMAIN marks', nextWd')
      BY <3>1, <3>2 DEF TidyInv
    <3> QED BY <3>3 DEF TidyInv
  <2>3. CASE UNCHANGED vars
    BY <2>3, TidyStays DEF vars, toolVars, kernelVars
  <2>4. CASE Calls
    BY <2>4, CallsTidy
  <2>5. CASE WatchSteps \/ ParseSteps
    BY <2>5, WatchStepsTidy, ParseStepsTidy
  <2> QED BY <2>1, <2>2, <2>3, <2>4, <2>5 DEF Next, ToolStep
<1> QED BY <1>1, <1>2, IndInvHolds, PTL DEF Spec

=============================================================================
