------------------------ MODULE InotifyCompleteProofs ------------------------
(***************************************************************************)
(* A recursive watch misses no directory: as long as no directory is       *)
(* renamed, none is watched by watchFiles and no record outlives its       *)
(* instance, a directory below a recursively watched one is watched, or    *)
(* its record is on its way, or the walk has it still to visit, whatever   *)
(* is created and removed while the tree is walked.                        *)
(***************************************************************************)
EXTENDS InotifyAbortProofs, InotifyTreeProofs

(* The records still to be handled: the handler that runs has looked at    *)
(* the one at the head.                                                    *)
Waiting == IF InHandler THEN Tail(buf) ELSE buf
Heard   == Records(Waiting) \cup Records(kq)

Creation(wd, n) == Event(wd, "CREATE", TRUE, 0, n)

(* The walk has directory d, the entry n of directory p, before it.        *)
Walked(p, d, n) ==
  \/ pc = "add" /\ enter = PathString(loc[d])
  \/ pc = "opendir" /\ enter = DirString(p)
  \/ \E k \in DOMAIN stack : stack[k].path = DirString(p) /\ n \in stack[k].left

(* Directory d is the entry n of the one that descriptor wd watches.       *)
Entry(wd, d, n) == marks[wd] \in Dirs /\ loc[d] = Append(loc[marks[wd]], n)

(* The inductive invariant, in parts.                                      *)
Covered ==
  \A wd \in DOMAIN marks, d \in Dirs, n \in AllNames :
    Entry(wd, d, n) =>
      Marked(d) \/ Creation(wd, n) \in Heard \/ Walked(marks[wd], d, n)
RecOK ==
  \A wd \in DOMAIN wmap \cap DOMAIN marks : marks[wd] \in Dirs => wmap[wd].rec
MadeOK ==
  /\ \A k \in DOMAIN made :
       made[k] < nextWd /\ (made[k] \in DOMAIN marks => marks[made[k]] \notin Dirs)
  /\ pc \notin {"files", "rollback"} => made = <<>>
CompleteInv ==
  IsTree(loc) /\ RecOK /\ MadeOK /\ pc # "purge" /\ (~Excused => Covered)

-----------------------------------------------------------------------------
(* The tree stays one.                                                     *)
LEMMA PlaceFacts ==
  ASSUME KernelTypeOK, NEW j \in Inodes
  PROVE  /\ loc[j] \in Seq(AllNames) /\ Len(loc[j]) \in Nat
         /\ loc[j] # <<>> => Len(loc[j]) > 0 /\ Front(loc[j]) \in Seq(AllNames)
                             /\ Len(Front(loc[j])) = Len(loc[j]) - 1
         /\ Len(loc[j]) > 1 => loc[j] # <<>> /\ Front(loc[j]) # <<>>
<1>1. loc[j] \in Seq(AllNames)
  BY DEF KernelTypeOK
<1>2. CASE loc[j] = <<>>
  BY <1>1, <1>2
<1>3. CASE loc[j] # <<>>
  <2> DEFINE s == loc[j]
  <2>1. s \in Seq(AllNames) /\ s # <<>>
    BY <1>1, <1>3
  <2> HIDE DEF s
  <2>2. Front(s) \in Seq(AllNames) /\ Len(Front(s)) = Len(s) - 1 /\ Len(s) \in Nat \ {0}
    BY <2>1, FrontProperties
  <2>3. Len(s) > 1 => Front(s) # <<>>
    BY <2>2
  <2> QED BY <1>3, <2>1, <2>2, <2>3 DEF s
<1> QED BY <1>2, <1>3

LEMMA NewPlaceTree ==
  ASSUME KernelTypeOK, IsTree(loc), NEW i \in Inodes, NEW p \in Dirs, NEW n \in AllNames,
         i \notin Dirs \/ ~Live(i), Live(p), Free(Append(loc[p], n)),
         loc' = [loc EXCEPT ![i] = Append(loc[p], n)]
  PROVE  IsTree(loc')
<1> DEFINE new == Append(loc[p], n)
<1>1. p \in Inodes /\ p # i /\ loc[p] \in Seq(AllNames)
  BY PlaceFacts DEF Inodes
<1>2. new # <<>> /\ Front(new) = loc[p] /\ \A j \in Inodes : loc[j] # new
  BY <1>1, LastAppend DEF Free
<1>3. loc'[i] = new /\ \A j \in Inodes : j # i => loc'[j] = loc[j]
  BY DEF KernelTypeOK
<1> HIDE DEF new
<1>4. ASSUME NEW j \in Inodes, NEW k \in Inodes, loc'[j] # Gone, loc'[j] = loc'[k]
      PROVE  j = k
  BY <1>2, <1>3, <1>4 DEF IsTree
<1>5. ASSUME NEW j \in Inodes, Len(loc'[j]) > 1
      PROVE  \E q \in Dirs : loc'[q] = Front(loc'[j])
  <2>1. CASE j = i
    BY <1>1, <1>2, <1>3, <2>1
  <2>2. CASE j # i
    <3>1. loc'[j] = loc[j] /\ Len(loc[j]) > 1
      BY <1>3, <1>5, <2>2
    <3>2. PICK q \in Dirs : loc[q] = Front(loc[j])
      BY <3>1 DEF IsTree
    <3>3. q \in Inodes /\ Live(q)
      BY <3>1, <3>2, PlaceFacts DEF Inodes, Live, Gone
    <3> QED BY <1>3, <3>1, <3>2, <3>3
  <2> QED BY <2>1, <2>2
<1> QED BY <1>4, <1>5 DEF IsTree

LEMMA PrefixFront ==
  ASSUME NEW S, NEW s \in Seq(S), s # <<>>
  PROVE  IsPrefix(Front(s), s)
<1> DEFINE f == Front(s)
<1>1. f \in Seq(S) /\ Len(f) = Len(s) - 1 /\ Len(s) \in Nat \ {0}
  BY FrontProperties
<1>2. f = SubSeq(s, 1, Len(s) - 1)
  BY Zenon DEF Front
<1> HIDE DEF f
<1>3. Len(f) \in Nat /\ Len(f) <= Len(s) /\ SubSeq(f, 1, Len(f)) = f
  BY <1>1, SubSeqFull
<1>4. SubSeq(s, 1, Len(f)) = f
  BY <1>1, <1>2
<1> QED BY <1>3, <1>4 DEF IsPrefix, f

LEMMA GoneTree ==
  ASSUME KernelTypeOK, IsTree(loc), NEW i \in Inodes, Children(i) = {},
         loc' = [loc EXCEPT ![i] = Gone]
  PROVE  IsTree(loc')
<1>1. loc'[i] = <<>> /\ \A j \in Inodes : j # i => loc'[j] = loc[j]
  BY DEF KernelTypeOK, Gone
<1>2. ASSUME NEW j \in Inodes, NEW k \in Inodes, loc'[j] # Gone, loc'[j] = loc'[k]
      PROVE  j = k
  BY <1>1, <1>2 DEF IsTree, Gone
<1>3. ASSUME NEW j \in Inodes, Len(loc'[j]) > 1
      PROVE  \E q \in Dirs : loc'[q] = Front(loc'[j])
  <2>1. j # i /\ loc'[j] = loc[j] /\ Len(loc[j]) > 1
    <3>1. Len(<<>>) = 0
      OBVIOUS
    <3> QED BY <1>1, <1>3, <3>1
  <2>2. PICK q \in Dirs : loc[q] = Front(loc[j])
    BY <2>1 DEF IsTree
  <2>3. loc[j] \in Seq(AllNames) /\ loc[j] # <<>> /\ Len(loc[j]) = Len(loc[q]) + 1
    BY <2>1, <2>2, PlaceFacts
  <2>4. IsPrefix(loc[q], loc[j])
    BY <2>2, <2>3, PrefixFront
  <2>5. q # i
    BY <2>3, <2>4 DEF Children, Live, Gone
  <2> QED BY <1>1, <2>1, <2>2, <2>5 DEF Inodes
<1> QED BY <1>2, <1>3 DEF IsTree

LEMMA Upto ==
  ASSUME NEW S, NEW s \in Seq(S), NEW l \in Nat, l <= Len(s)
  PROVE  /\ SubSeq(s, 1, l) \in Seq(S) /\ Len(SubSeq(s, 1, l)) = l
         /\ \A k \in 1..l : SubSeq(s, 1, l)[k] = s[k]
<1>1. Len(s) \in Nat /\ \A k \in 1..l : s[k] \in S
  BY ElementOfSeq
<1>2. /\ SubSeq(s, 1, l) \in Seq(S)
      /\ Len(SubSeq(s, 1, l)) = IF 1 <= l THEN l - 1 + 1 ELSE 0
      /\ \A k \in 1..(l - 1 + 1) : SubSeq(s, 1, l)[k] = s[1 + k - 1]
  BY <1>1, SubSeqProperties
<1>3. (IF 1 <= l THEN l - 1 + 1 ELSE 0) = l /\ 1..(l - 1 + 1) = 1..l
      /\ \A k \in 1..l : 1 + k - 1 = k
  OBVIOUS
<1> QED BY <1>2, <1>3

LEMMA PrefixOfFront ==
  ASSUME NEW S, NEW s \in Seq(S), NEW t \in Seq(S), IsPrefix(t, s)
  PROVE  t = s \/ (Len(t) < Len(s) /\ IsPrefix(t, Front(s)))
<1>1. /\ Len(t) \in Nat /\ Len(s) \in Nat /\ Len(t) <= Len(s)
      /\ SubSeq(t, 1, Len(t)) = t /\ SubSeq(s, 1, Len(t)) = t
  BY SubSeqFull DEF IsPrefix
<1>2. CASE Len(t) = Len(s)
  BY <1>1, <1>2, SubSeqFull
<1>3. CASE Len(t) < Len(s)
  <2> DEFINE f == Front(s)
  <2>1. s # <<>>
    BY <1>1, <1>3
  <2>2. /\ f \in Seq(S) /\ Len(f) = Len(s) - 1
        /\ \A k \in 1..(Len(s) - 1) : f[k] = s[k]
    BY <2>1, FrontProperties
  <2> HIDE DEF f
  <2>3. Len(t) <= Len(f) /\ \A k \in 1..Len(t) : f[k] = s[k]
    BY <1>1, <1>3, <2>2
  <2>4. SubSeq(f, 1, Len(t)) = SubSeq(s, 1, Len(t))
    <3> DEFINE a == SubSeq(f, 1, Len(t))
               b == SubSeq(s, 1, Len(t))
    <3>1. a \in Seq(S) /\ Len(a) = Len(t) /\ \A k \in 1..Len(t) : a[k] = f[k]
      BY <1>1, <2>2, <2>3, Upto
    <3>2. b \in Seq(S) /\ Len(b) = Len(t) /\ \A k \in 1..Len(t) : b[k] = s[k]
      BY <1>1, Upto
    <3> HIDE DEF a, b
    <3>3. a = b
      BY <2>3, <3>1, <3>2, SeqEqual
    <3> QED BY <3>3 DEF a, b
  <2>5. IsPrefix(t, f)
    BY <1>1, <2>3, <2>4 DEF IsPrefix
  <2> QED BY <1>3, <2>5 DEF f
<1> QED BY <1>1, <1>2, <1>3

(* Nothing is below a regular file.                                        *)
LEMMA FileIsLeaf ==
  ASSUME KernelTypeOK, IsTree(loc), NEW i \in Inodes, i \notin Dirs, Live(i),
         NEW j \in Inodes, IsPrefix(loc[i], loc[j])
  PROVE  j = i
<1> DEFINE Bad(k, c) == c # i /\ IsPrefix(loc[i], loc[c]) /\ Len(loc[c]) = k
           bad == {k \in Nat : \E c \in Inodes : Bad(k, c)}
<1>1. bad = {}
  <2> SUFFICES ASSUME bad # {} PROVE FALSE
    OBVIOUS
  <2>1. PICK m \in bad : \A k \in bad : m <= k
    <3>1. bad \in SUBSET Nat
      OBVIOUS
    <3> HIDE DEF bad
    <3> QED BY <3>1, NatMin
  <2>2. PICK c \in Inodes : Bad(m, c)
    BY <2>1
  <2>3. /\ loc[c] \in Seq(AllNames) /\ Len(loc[c]) \in Nat
        /\ loc[i] \in Seq(AllNames) /\ Len(loc[i]) \in Nat /\ Len(loc[i]) > 0
    BY PlaceFacts DEF Live, Gone
  <2>4. loc[i] # loc[c]
    BY <2>2 DEF IsTree, Live
  <2>5. Len(loc[i]) < Len(loc[c]) /\ IsPrefix(loc[i], Front(loc[c]))
    BY <2>2, <2>3, <2>4, PrefixOfFront
  <2>6. PICK q \in Dirs : loc[q] = Front(loc[c])
    BY <2>3, <2>5 DEF IsTree
  <2>7. q \in Inodes /\ q # i /\ loc[c] # <<>>
    BY <2>3, <2>5 DEF Inodes
  <2>8. Len(loc[q]) \in Nat /\ Len(loc[q]) = Len(loc[c]) - 1
    BY <2>6, <2>7, PlaceFacts
  <2>9. Len(loc[q]) \in bad
    BY <2>5, <2>6, <2>7, <2>8
  <2>10. m <= Len(loc[q]) /\ m = Len(loc[c])
    BY <2>1, <2>2, <2>9
  <2> QED BY <2>3, <2>8, <2>10
<1>2. Len(loc[j]) \in Nat
  BY PlaceFacts
<1> QED BY <1>1, <1>2

LEMMA RenameFile ==
  ASSUME KernelTypeOK, IsTree(loc), NEW i \in Inodes, i \notin Dirs, NEW p \in Dirs,
         NEW n \in Names, Rename(i, p, n)
  PROVE  /\ loc' = [loc EXCEPT ![i] = Append(loc[p], n)]
         /\ Live(p) /\ Free(Append(loc[p], n))
<1>1. /\ Live(i) /\ Live(p) /\ Free(Append(loc[p], n))
      /\ loc' = [j \in Inodes |->
                  IF IsPrefix(loc[i], loc[j])
                  THEN Append(loc[p], n) \o SubSeq(loc[j], Len(loc[i]) + 1, Len(loc[j]))
                  ELSE loc[j]]
  BY DEF Rename
<1>2. \A j \in Inodes : j # i => loc'[j] = loc[j]
  BY <1>1, FileIsLeaf
<1>3. loc'[i] = Append(loc[p], n) /\ loc' \in [Inodes -> Seq(AllNames)]
  BY RenamePlaces
<1> QED BY <1>1, <1>2, <1>3 DEF KernelTypeOK

(* A directory with a watch has a place.                                   *)
LEMMA LiveMark ==
  ASSUME KernelInv, MarksLive, NEW wd \in DOMAIN marks, marks[wd] \in Dirs
  PROVE  Live(marks[wd])
  BY InodesAssumption DEF KernelInv, KernelTypeOK, MarksLive, There

LEMMA UnlinkTree ==
  ASSUME KernelTypeOK, IsTree(loc), NEW f \in Files, loc' = [loc EXCEPT ![f] = Gone]
  PROVE  IsTree(loc')
<1>1. f \notin Dirs /\ f \in Inodes /\ Dirs \subseteq Inodes
  BY InodesAssumption DEF Inodes
<1>2. /\ \A i \in Inodes : i # f => loc'[i] = loc[i]
      /\ loc'[f] = <<>> /\ Len(<<>>) = 0
  BY <1>1 DEF KernelTypeOK, Gone
<1> QED BY <1>1, <1>2 DEF IsTree, Gone

LEMMA ReplaceTree ==
  ASSUME KernelTypeOK, IsTree(loc), NEW f \in Files, NEW g \in Files, f # g, Live(g),
         loc' = [loc EXCEPT ![f] = loc[g], ![g] = Gone]
  PROVE  IsTree(loc')
<1>1. /\ f \notin Dirs /\ g \notin Dirs /\ f \in Inodes /\ g \in Inodes
      /\ Dirs \subseteq Inodes
  BY InodesAssumption DEF Inodes
<1>2. /\ \A i \in Inodes : i # f /\ i # g => loc'[i] = loc[i]
      /\ loc'[f] = loc[g] /\ loc'[g] = <<>> /\ Len(<<>>) = 0
  BY <1>1 DEF KernelTypeOK, Gone
<1>3. ASSUME NEW i \in Inodes, NEW j \in Inodes, loc'[i] # Gone, loc'[i] = loc'[j]
      PROVE  i = j
  <2>1. i # g /\ j # g
    BY <1>2, <1>3 DEF Gone
  <2>2. CASE i = f
    BY <1>1, <1>2, <1>3, <2>1, <2>2 DEF IsTree, Live
  <2>3. CASE j = f
    BY <1>1, <1>2, <1>3, <2>1, <2>3 DEF IsTree, Live
  <2>4. CASE i # f /\ j # f
    BY <1>1, <1>2, <1>3, <2>1, <2>4 DEF IsTree
  <2> QED BY <2>2, <2>3, <2>4
<1>4. ASSUME NEW j \in Inodes, Len(loc'[j]) > 1
      PROVE  \E p \in Dirs : loc'[p] = Front(loc'[j])
  <2>1. PICK i \in Inodes : loc'[j] = loc[i] /\ Len(loc[i]) > 1
    <3>1. CASE j = f
      BY <1>1, <1>2, <1>4, <3>1
    <3>2. CASE j # f
      <4>1. j # g
        <5>1. ASSUME j = g PROVE FALSE
          <6>1. loc'[j] = <<>>
            BY <1>2, <5>1
          <6>2. Len(loc'[j]) = 0
            BY <6>1
          <6> QED BY <1>4, <6>2
        <5> QED BY <5>1
      <4> QED BY <1>2, <1>4, <3>2, <4>1
    <3> QED BY <3>1, <3>2
  <2>2. PICK p \in Dirs : loc[p] = Front(loc[i])
    BY <2>1 DEF IsTree
  <2> QED BY <1>1, <1>2, <2>1, <2>2
<1> QED BY <1>3, <1>4 DEF IsTree

LEMMA OthersKeepTree ==
  ASSUME KernelInv, IsTree(loc), ~DirRenamed, OtherProcesses
  PROVE  IsTree(loc')
<1>0. KernelTypeOK /\ Dirs \subseteq Inodes /\ Names \subseteq AllNames
      /\ Files \cap Dirs = {} /\ Files \subseteq Inodes
  BY InodesAssumption DEF KernelInv, Inodes, AllNames
<1>1. ASSUME NEW p \in Dirs, NEW n \in Names, Mkdir(p, n) PROVE IsTree(loc')
  <2>1. \E d \in Dirs : ~Live(d)
    BY <1>1 DEF Mkdir
  <2>2. PICK i \in Dirs : ~Live(i) /\ loc' = [loc EXCEPT ![i] = Append(loc[p], n)]
    BY <1>1, <2>1 DEF Mkdir
  <2>3. Live(p) /\ Free(Append(loc[p], n))
    BY <1>1 DEF Mkdir
  <2> QED BY <1>0, <2>2, <2>3, NewPlaceTree
<1>2. ASSUME NEW w \in Writers, NEW p \in Dirs, NEW n \in Names, CreateFile(w, p, n)
      PROVE  IsTree(loc')
  <2>1. \E f \in Files : Unborn(f)
    BY <1>2 DEF CreateFile
  <2>2. PICK f \in Files : loc' = [loc EXCEPT ![f] = Append(loc[p], n)]
    BY <1>2, <2>1 DEF CreateFile
  <2>3. Live(p) /\ Free(Append(loc[p], n)) /\ f \notin Dirs
    BY <1>0, <1>2 DEF CreateFile
  <2> QED BY <1>0, <2>2, <2>3, NewPlaceTree
<1>3. ASSUME NEW i \in Dirs, Rmdir(i) \/ Unmount(i) PROVE IsTree(loc')
  <2>1. Children(i) = {} /\ loc' = [loc EXCEPT ![i] = Gone]
    BY <1>3 DEF Rmdir, Unmount, Bare
  <2> QED BY <1>0, <2>1, GoneTree
<1>4. ASSUME NEW i \in Inodes, NEW p \in Dirs, NEW n \in Names, Rename(i, p, n)
      PROVE  IsTree(loc')
  <2>1. /\ Live(i) /\ loc'[i] # loc[i] /\ loc'[i] # <<>>
    BY <1>0, <1>4, RenamePlaces DEF Rename
  <2>2. i \notin Dirs
    BY <2>1 DEF DirRenamed, Gone
  <2> QED BY <1>0, <1>4, <2>2, RenameFile, NewPlaceTree
<1>5. CASE UNCHANGED loc
  BY <1>5 DEF IsTree
<1>6. ASSUME \/ \E i \in Dirs : ListDir(i)
             \/ \E w \in Writers, f \in Files : OpenFile(w, f)
             \/ \E w \in Writers : WriteFile(w)
             \/ \E w \in Writers : CloseFile(w)
             \/ \E w \in Writers : CloseUnlinked(w)
             \/ \E f \in Files : Truncate(f)
      PROVE  UNCHANGED loc
  BY <1>6 DEF ListDir, OpenFile, WriteFile, CloseFile, CloseUnlinked, Truncate
<1>7. ASSUME NEW f \in Files, NEW p \in Dirs, Unlink(f, p) PROVE IsTree(loc')
  BY <1>0, <1>7, UnlinkTree DEF Unlink
<1>8. ASSUME NEW f \in Files, NEW g \in Files, NEW p \in Dirs, Replace(f, g, p)
      PROVE  IsTree(loc')
  BY <1>0, <1>8, ReplaceTree DEF Replace, LoseName
<1> QED BY <1>1, <1>2, <1>3, <1>4, <1>5, <1>6, <1>7, <1>8 DEF OtherProcesses

-----------------------------------------------------------------------------
(* What other processes do: a directory that is made is announced to the   *)
(* watch of the directory it is made in, unless the queue overflows.       *)
LEMMA PostAtTells ==
  ASSUME KernelInv, IsTree(loc), NEW wd \in DOMAIN marks, Live(marks[wd]),
         NEW n \in AllNames
  PROVE  LET q == PostAt(kq, loc[marks[wd]], "CREATE", TRUE, 0, n)
         IN  Creation(wd, n) \in Records(q) \/ Len(q) > MaxQueued
<1> DEFINE place == loc[marks[wd]]
           v == CHOOSE u \in DOMAIN marks : loc[marks[u]] = place
<1>1. /\ KernelTypeOK /\ kq \in Seq(Events)
      /\ \A u \in DOMAIN marks : marks[u] \in Inodes /\ u \in Int
  BY KernelParts DEF KernelTypeOK
<1>2. v \in DOMAIN marks /\ loc[marks[v]] = place /\ place # Gone
  BY DEF Live
<1>3. v = wd
  BY <1>1, <1>2 DEF IsTree, Live, KernelInv, MarksUnique
<1>4. PostAt(kq, place, "CREATE", TRUE, 0, n) = Enqueue(kq, Creation(wd, n))
  BY <1>2, <1>3 DEF PostAt, Creation
<1>5. Creation(wd, n) \in Events
  <2>1. wd \in Int /\ "CREATE" \in EventKinds /\ TRUE \in BOOLEAN /\ 0 \in Nat
        /\ n \in AllNames \cup {<<>>}
    BY <1>1 DEF EventKinds
  <2> QED BY <2>1, EventType DEF Creation
<1>6. \/ Creation(wd, n) \in Records(Enqueue(kq, Creation(wd, n)))
      \/ Len(Enqueue(kq, Creation(wd, n))) > MaxQueued
  BY <1>1, <1>5, EnqueueGrows
<1> QED BY <1>4, <1>6

(* Only mkdir makes a directory.                                           *)
Appears(d, p, n) ==
  /\ loc'[d] = Append(loc[p], n)
  /\ SetQueue(PostAt(kq, loc[p], "CREATE", TRUE, 0, n))
  /\ UNCHANGED marks

LEMMA DirsAppear ==
  ASSUME KernelInv, IsTree(loc), ~DirRenamed, OtherProcesses,
         NEW d \in Dirs, ~Live(d), loc'[d] # Gone
  PROVE  \E p \in Dirs, n \in Names : Live(p) /\ Appears(d, p, n)
<1>0. KernelTypeOK /\ d \in Inodes /\ Files \cap Dirs = {} /\ Files \subseteq Inodes
      /\ loc'[d] # loc[d]
  BY InodesAssumption DEF KernelInv, Inodes, Live
<1>1. ASSUME NEW p \in Dirs, NEW n \in Names, Mkdir(p, n)
      PROVE  Live(p) /\ Appears(d, p, n)
  <2>1. PICK i \in Inodes : loc' = [loc EXCEPT ![i] = Append(loc[p], n)]
    BY <1>1 DEF Mkdir, Inodes
  <2>2. d = i
    BY <1>0, <2>1
  <2>3. loc'[d] = Append(loc[p], n)
    BY <1>0, <2>1, <2>2 DEF KernelTypeOK
  <2> QED BY <1>1, <2>3 DEF Mkdir, Appears
<1>2. ASSUME NEW w \in Writers, NEW p \in Dirs, NEW n \in Names, CreateFile(w, p, n)
      PROVE  FALSE
  <2>1. \E f \in Files : Unborn(f)
    BY <1>2 DEF CreateFile
  <2>2. PICK f \in Files : loc' = [loc EXCEPT ![f] = Append(loc[p], n)]
    BY <1>2, <2>1 DEF CreateFile
  <2>3. f # d
    BY <1>0
  <2> QED BY <1>0, <2>2, <2>3
<1>3. ASSUME NEW i \in Dirs, Rmdir(i) \/ Unmount(i) PROVE FALSE
  <2>1. loc' = [loc EXCEPT ![i] = Gone]
    BY <1>3 DEF Rmdir, Unmount
  <2> QED BY <1>0, <2>1 DEF KernelTypeOK
<1>4. ASSUME NEW i \in Inodes, NEW p \in Dirs, NEW n \in Names, Rename(i, p, n)
      PROVE  FALSE
  <2>1. /\ Live(i) /\ loc'[i] # loc[i] /\ loc'[i] # <<>>
    BY <1>0, <1>4, RenamePlaces DEF Rename
  <2>2. i \notin Dirs
    BY <2>1 DEF DirRenamed, Gone
  <2>3. loc' = [loc EXCEPT ![i] = Append(loc[p], n)] /\ d # i
    BY <1>0, <1>4, <2>2, RenameFile
  <2> QED BY <1>0, <2>3
<1>6. ASSUME NEW f \in Files, NEW p \in Dirs, Unlink(f, p) PROVE FALSE
  <2>1. loc' = [loc EXCEPT ![f] = Gone] /\ f # d
    BY <1>0, <1>6 DEF Unlink
  <2> QED BY <1>0, <2>1
<1>7. ASSUME NEW f \in Files, NEW g \in Files, NEW p \in Dirs, Replace(f, g, p)
      PROVE  FALSE
  <2>1. loc' = [loc EXCEPT ![f] = loc[g], ![g] = Gone] /\ f # d /\ g # d
    BY <1>0, <1>7 DEF Replace
  <2>2. loc'[d] = loc[d]
    BY <1>0, <2>1 DEF KernelTypeOK
  <2> QED BY <1>0, <2>2
<1>5. ASSUME \/ \E i \in Dirs : ListDir(i)
             \/ \E w \in Writers, f \in Files : OpenFile(w, f)
             \/ \E w \in Writers : WriteFile(w)
             \/ \E w \in Writers : CloseFile(w)
             \/ \E w \in Writers : CloseUnlinked(w)
             \/ \E f \in Files : Truncate(f)
      PROVE  UNCHANGED loc
  BY <1>5 DEF ListDir, OpenFile, WriteFile, CloseFile, CloseUnlinked, Truncate
<1> QED BY <1>0, <1>1, <1>2, <1>3, <1>4, <1>5, <1>6, <1>7 DEF OtherProcesses

LEMMA NewDirTold ==
  ASSUME KernelInv, MarksLive, IsTree(loc), ~DirRenamed, Shrinks, OtherProcesses,
         NEW wd \in DOMAIN marks', NEW d \in Dirs, NEW n \in AllNames,
         Entry(wd, d, n)', ~lost'
  PROVE  /\ wd \in DOMAIN marks /\ marks'[wd] = marks[wd]
         /\ \/ Entry(wd, d, n) /\ UNCHANGED loc[d]
            \/ Creation(wd, n) \in Records(kq')
<1>1. /\ wd \in DOMAIN marks /\ marks'[wd] = marks[wd] /\ marks[wd] \in Dirs
      /\ Live(marks[wd]) /\ loc'[marks[wd]] # Gone
  <2>1. KernelInv'
    BY OtherProcessesKeep
  <2>2. wd \in DOMAIN marks /\ marks'[wd] = marks[wd] /\ marks[wd] \in Dirs
    BY DEF Shrinks, Entry
  <2>3. marks[wd] \notin DOMAIN unlinked /\ marks[wd] \notin DOMAIN unlinked'
    BY <2>1, <2>2, InodesAssumption DEF KernelInv, KernelTypeOK
  <2> QED BY <2>2, <2>3 DEF Shrinks, MarksLive, There, Live
<1>2. loc'[marks[wd]] = loc[marks[wd]]
  BY <1>1 DEF DirRenamed
<1>3. loc'[d] = Append(loc[marks[wd]], n)
  BY <1>1, <1>2 DEF Entry
<1>4. loc[marks[wd]] \in Seq(AllNames) /\ Dirs \subseteq Inodes
  BY <1>1, PlaceFacts DEF KernelInv, Inodes
<1>5. loc'[d] # Gone
  BY <1>3, <1>4, LastAppend DEF Gone
<1>6. CASE Live(d)
  <2>1. loc'[d] = loc[d]
    BY <1>5, <1>6 DEF DirRenamed
  <2> QED BY <1>1, <1>3, <2>1 DEF Entry
<1>7. CASE ~Live(d)
  <2>1. PICK p \in Dirs, a \in Names : Live(p) /\ Appears(d, p, a)
    BY <1>5, <1>7, DirsAppear
  <2>2. a \in AllNames /\ loc[p] \in Seq(AllNames)
        /\ Append(loc[p], a) = Append(loc[marks[wd]], n)
    BY <1>3, <1>4, <2>1, PlaceFacts DEF Appears, AllNames, KernelInv
  <2>3. a = n /\ loc[p] = loc[marks[wd]]
    <3> DEFINE s == loc[p]
               t == loc[marks[wd]]
    <3>1. s \in Seq(AllNames) /\ t \in Seq(AllNames) /\ Append(s, a) = Append(t, n)
      BY <1>4, <2>2
    <3> HIDE DEF s, t
    <3>2. Last(Append(s, a)) = a /\ Front(Append(s, a)) = s
      BY <2>2, <3>1, LastAppend
    <3>3. Last(Append(t, n)) = n /\ Front(Append(t, n)) = t
      BY <3>1, LastAppend
    <3> QED BY <3>1, <3>2, <3>3 DEF s, t
  <2>4. SetQueue(PostAt(kq, loc[marks[wd]], "CREATE", TRUE, 0, n))
    BY <2>1, <2>3 DEF Appears
  <2>5. Creation(wd, n) \in Records(kq')
    BY <1>1, <2>4, PostAtTells DEF SetQueue
  <2> QED BY <1>1, <2>5
<1> QED BY <1>6, <1>7

LEMMA OthersMark ==
  ASSUME KernelInv, OtherProcesses, NEW d \in Dirs, Marked(d), loc'[d] # Gone
  PROVE  Marked(d)'
<1>1. ASSUME NEW i \in Dirs, Rmdir(i) \/ Unmount(i) PROVE Marked(d)'
  <2>1. loc' = [loc EXCEPT ![i] = Gone] /\ marks' = Unmarked(i)
    BY <1>1 DEF Rmdir, Unmount
  <2>2. d # i
    BY <2>1 DEF KernelInv, KernelTypeOK, Inodes
  <2> QED BY <2>1, <2>2 DEF Marked, Unmarked
<1>2. CASE UNCHANGED marks
  BY <1>2 DEF Marked
<1>4. ASSUME NEW f \in Files, marks' = Unmarked(f) PROVE Marked(d)'
  BY <1>4, InodesAssumption DEF Marked, Unmarked
<1>5. ASSUME NEW f \in Files, NEW p \in Dirs, LoseName(f, p) PROVE Marked(d)'
  BY <1>2, <1>4, <1>5 DEF LoseName
<1>6. ASSUME NEW w \in Writers, CloseUnlinked(w) PROVE Marked(d)'
  BY <1>4, <1>6 DEF CloseUnlinked, LastClose, KernelInv, KernelTypeOK
<1>3. ASSUME \/ \E p \in Dirs, n \in Names : Mkdir(p, n)
             \/ \E i \in Inodes, p \in Dirs, n \in Names : Rename(i, p, n)
             \/ \E i \in Dirs : ListDir(i)
             \/ \E w \in Writers, p \in Dirs, n \in Names : CreateFile(w, p, n)
             \/ \E w \in Writers, f \in Files : OpenFile(w, f)
             \/ \E w \in Writers : WriteFile(w)
             \/ \E w \in Writers : CloseFile(w)
             \/ \E f \in Files : Truncate(f)
      PROVE  UNCHANGED marks
  BY <1>3 DEF Mkdir, Rename, ListDir, CreateFile, OpenFile, WriteFile, CloseFile, Truncate
<1> QED BY <1>1, <1>2, <1>3, <1>5, <1>6 DEF OtherProcesses, Unlink, Replace

LEMMA OthersComplete ==
  ASSUME IndInv, TreeInv, CompleteInv, ~DirRenamed, OtherProcesses, UNCHANGED toolVars
  PROVE  CompleteInv'
<1>1. UNCHANGED <<buf, wmap, pc, caller, made, enter, stack, failed>>
  BY DEF toolVars, ctlVars, localVars, apiVars, scanVars
<1>2. KernelInv /\ MarksLive /\ IsTree(loc) /\ Settled(kq)
  BY Typed DEF TreeInv, CompleteInv, MovesOK
<1>3. Shrinks /\ IsTree(loc') /\ (lost => lost') /\ Records(kq) \subseteq Records(kq')
  BY <1>2, OthersShrink, OthersKeepTree, OtherProcessesKeep DEF Announces
<1>4. RecOK' /\ MadeOK' /\ pc' # "purge"
  BY <1>1, <1>3 DEF CompleteInv, RecOK, MadeOK, Shrinks
<1>5. ASSUME ~Excused' PROVE Covered'
  <2>1. ~lost' /\ Covered
    BY <1>1, <1>3, <1>5 DEF Excused, CompleteInv
  <2>2. Waiting' = Waiting /\ Heard \subseteq Heard'
    BY <1>1, <1>3 DEF Waiting, InHandler, WatchStages, Heard
  <2>3. ASSUME NEW wd \in DOMAIN marks', NEW d \in Dirs, NEW n \in AllNames,
               Entry(wd, d, n)'
        PROVE  Marked(d)' \/ Creation(wd, n)' \in Heard' \/ Walked(marks[wd], d, n)'
    <3>1. wd \in DOMAIN marks /\ marks'[wd] = marks[wd]
          /\ \/ Entry(wd, d, n) /\ UNCHANGED loc[d]
             \/ Creation(wd, n) \in Records(kq')
      BY <1>2, <1>3, <2>1, <2>3, NewDirTold
    <3>2. CASE Creation(wd, n) \in Records(kq')
      BY <3>2 DEF Heard, Creation
    <3>3. CASE Entry(wd, d, n) /\ UNCHANGED loc[d]
      <4>1. Marked(d) \/ Creation(wd, n) \in Heard \/ Walked(marks[wd], d, n)
        BY <2>1, <3>1, <3>3 DEF Covered
      <4>2. marks[wd] \in Dirs /\ loc'[marks[wd]] = loc[marks[wd]]
        <5>1. marks[wd] \in Dirs /\ Live(marks[wd])
          BY <1>2, <3>1, <3>3, LiveMark DEF Entry
        <5>2. KernelInv' /\ There(marks[wd])'
          BY <1>2, <1>3, <2>3, <3>1, OtherProcessesKeep DEF Shrinks, MarksLive
        <5>3. loc'[marks[wd]] # Gone
          BY <3>1, <5>1, <5>2, InodesAssumption DEF KernelInv, KernelTypeOK, There, Live
        <5> QED BY <5>1, <5>3 DEF DirRenamed
      <4>3. loc'[d] # Gone
        <5>1. loc[marks[wd]] \in Seq(AllNames)
          BY <1>2, <4>2, PlaceFacts DEF KernelInv, Inodes
        <5> QED BY <3>3, <5>1, LastAppend DEF Entry, Gone
      <4>4. Marked(d) => Marked(d)'
        BY <1>2, <4>3, OthersMark
      <4>5. Walked(marks[wd], d, n) => Walked(marks[wd], d, n)'
        BY <1>1, <3>1, <3>3, <4>2 DEF Walked, DirString
      <4> QED BY <2>2, <4>1, <4>4, <4>5 DEF Creation
    <3> QED BY <3>1, <3>2, <3>3
  <2> QED BY <2>3 DEF Covered
<1> QED BY <1>3, <1>4, <1>5 DEF CompleteInv

-----------------------------------------------------------------------------
(* The steps of the tool, in which the tree stays as it is.                *)
LEMMA NoWalk ==
  ASSUME IndInv, pc \notin {"add", "opendir", "readdir"}, NEW p, NEW d, NEW n
  PROVE  ~Walked(p, d, n)
<1>1. stack = <<>>
  BY DEF IndInv, ControlOK
<1>2. DOMAIN stack = {}
  BY <1>1
<1> QED BY <1>2 DEF Walked

LEMMA StillCovered ==
  ASSUME Covered, UNCHANGED loc,
         \A wd \in DOMAIN marks' :
           marks'[wd] \in Dirs => wd \in DOMAIN marks /\ marks'[wd] = marks[wd],
         \A d \in Dirs : Marked(d) => Marked(d)',
         \A wd \in DOMAIN marks, d \in Dirs, n \in AllNames :
           Entry(wd, d, n) /\ Creation(wd, n) \in Heard =>
             Creation(wd, n) \in Heard' \/ Walked(marks[wd], d, n)',
         \A wd \in DOMAIN marks, d \in Dirs, n \in AllNames :
           Entry(wd, d, n) /\ Walked(marks[wd], d, n) =>
             Marked(d)' \/ Walked(marks[wd], d, n)'
  PROVE  Covered'
<1>1. ASSUME NEW wd \in DOMAIN marks', NEW d \in Dirs, NEW n \in AllNames,
             Entry(wd, d, n)'
      PROVE  Marked(d)' \/ Creation(wd, n)' \in Heard' \/ Walked(marks[wd], d, n)'
  <2>1. wd \in DOMAIN marks /\ marks'[wd] = marks[wd] /\ Entry(wd, d, n)
    BY <1>1 DEF Entry
  <2>2. Marked(d) \/ Creation(wd, n) \in Heard \/ Walked(marks[wd], d, n)
    BY <2>1 DEF Covered
  <2>3. CASE Marked(d)
    BY <2>3
  <2>4. CASE Creation(wd, n) \in Heard
    <3>1. Creation(wd, n) \in Heard' \/ Walked(marks[wd], d, n)'
      BY <2>1, <2>4
    <3> QED BY <3>1 DEF Creation
  <2>5. CASE Walked(marks[wd], d, n)
    <3>1. Marked(d)' \/ Walked(marks[wd], d, n)'
      BY <2>1, <2>5
    <3> QED BY <3>1
  <2> QED BY <2>2, <2>3, <2>4, <2>5
<1> QED BY <1>1 DEF Covered

(* A step outside of a walk.                                               *)
KeepsHeard == \A wd, n : n \in AllNames /\ Creation(wd, n) \in Heard =>
                           Creation(wd, n) \in Heard'

LEMMA QuietCovered ==
  ASSUME IndInv, Covered, UNCHANGED loc, KeepsHeard,
         pc \notin {"add", "opendir", "readdir"},
         \A wd \in DOMAIN marks' :
           marks'[wd] \in Dirs => wd \in DOMAIN marks /\ marks'[wd] = marks[wd],
         \A d \in Dirs : Marked(d) => Marked(d)'
  PROVE  Covered'
<1>1. \A wd \in DOMAIN marks, d \in Dirs, n \in AllNames :
        Creation(wd, n) \in Heard => Creation(wd, n) \in Heard'
  BY DEF KeepsHeard
<1>2. \A wd \in DOMAIN marks, d \in Dirs, n \in AllNames : ~Walked(marks[wd], d, n)
  BY NoWalk
<1> QED BY <1>1, <1>2, StillCovered

LEMMA MadeKeeps ==
  ASSUME MadeOK, UNCHANGED <<marks, nextWd>>,
         \/ made' = <<>>
         \/ UNCHANGED made /\ (pc' \in {"files", "rollback"} \/ pc \notin {"files", "rollback"})
  PROVE  MadeOK'
<1>1. CASE made' = <<>>
  <2>1. DOMAIN made' = {}
    BY <1>1
  <2> QED BY <1>1, <2>1 DEF MadeOK
<1>2. CASE UNCHANGED made /\ (pc' \in {"files", "rollback"} \/ pc \notin {"files", "rollback"})
  BY <1>2 DEF MadeOK
<1> QED BY <1>1, <1>2

LEMMA AloneComplete ==
  ASSUME IndInv, CompleteInv, UNCHANGED <<loc, marks, nextWd, failed>>, lost => lost',
         UNCHANGED wmap \/ \E S : wmap' = Without(S),
         pc \notin {"add", "opendir", "readdir"}, pc' # "purge", KeepsHeard,
         \/ made' = <<>>
         \/ UNCHANGED made /\ (pc' \in {"files", "rollback"} \/ pc \notin {"files", "rollback"})
  PROVE  CompleteInv'
<1>1. MadeOK'
  BY MadeKeeps DEF CompleteInv
<1>2. RecOK'
  BY DEF CompleteInv, RecOK, Without
<1>3. ASSUME Covered PROVE Covered'
  BY <1>3, QuietCovered DEF Marked
<1> QED BY <1>1, <1>2, <1>3 DEF CompleteInv, Excused

(* What the buffer holds, and what is left of it.                          *)
LEMMA PopRecords ==
  ASSUME NEW b \in Seq(Events), b # <<>>, NEW r \in Records(b)
  PROVE  r = Head(b) \/ r \in Records(Tail(b))
<1>1. /\ Tail(b) \in Seq(Events) /\ Len(b) \in Nat \ {0} /\ Len(Tail(b)) = Len(b) - 1
      /\ \A i \in 1..Len(Tail(b)) : Tail(b)[i] = b[i + 1]
  BY EmptySeq, HeadTailProperties
<1>2. PICK k \in 1..Len(b) : r = b[k]
  BY DEF Records
<1>3. CASE k = 1
  BY <1>2, <1>3
<1>4. CASE k # 1
  <2>1. k - 1 \in 1..Len(Tail(b)) /\ (k - 1) + 1 = k
    BY <1>1, <1>4
  <2> QED BY <1>1, <1>2, <2>1 DEF Records
<1> QED BY <1>3, <1>4

LEMMA SameHeard ==
  ASSUME UNCHANGED kq, Waiting' = Waiting PROVE KeepsHeard
  BY DEF KeepsHeard, Heard

(* The record at the head is not one of a directory that was made.         *)
LEMMA PopKeepsHeard ==
  ASSUME IndInv, buf # <<>>, Waiting = buf, Waiting' = Tail(buf),
         Records(kq) \subseteq Records(kq'),
         Head(buf).ev # "CREATE" \/ Head(buf).name = <<>>
  PROVE  KeepsHeard
<1>1. ASSUME NEW wd, NEW n \in AllNames, Creation(wd, n) = Head(buf) PROVE FALSE
  BY <1>1, InodesAssumption DEF Creation, Event
<1>2. buf \in Seq(Events)
  BY Typed
<1> QED BY <1>1, <1>2, PopRecords DEF KeepsHeard, Heard

-----------------------------------------------------------------------------
(* The calls of the application.                                           *)
LEMMA NewInstanceComplete ==
  ASSUME IndInv, CompleteInv, NewInstance, UNCHANGED <<loc, made, pc, failed>>,
         pc = "idle"
  PROVE  CompleteInv'
<1>1. DOMAIN marks' = {} /\ UNCHANGED lost
  BY DEF NewInstance, NoWatches
<1>2. made = <<>>
  BY DEF CompleteInv, MadeOK
<1>3. DOMAIN made' = {}
  BY <1>2
<1>4. RecOK' /\ MadeOK' /\ Covered'
  BY <1>1, <1>2, <1>3 DEF RecOK, MadeOK, Covered
<1> QED BY <1>1, <1>4 DEF CompleteInv

LEMMA CallsComplete ==
  ASSUME IndInv, CompleteInv, Calls
  PROVE  CompleteInv'
<1>1. CASE createInotify
  <2>1. pc = "idle" /\ UNCHANGED <<loc, buf, wmap, made, pc, caller, failed>>
    BY <1>1 DEF createInotify, fsVars, ctlVars, localVars, apiVars, scanVars
  <2>2. CASE NewInstance
    BY <2>1, <2>2, NewInstanceComplete
  <2>3. CASE UNCHANGED kernelVars
    <3>1. UNCHANGED <<marks, nextWd, lost, kq>> /\ Waiting' = Waiting
      BY <2>1, <2>3 DEF kernelVars, Waiting, InHandler, WatchStages
    <3> QED BY <2>1, <3>1, SameHeard, AloneComplete
  <2> QED BY <1>1, <2>2, <2>3 DEF createInotify
<1>2. CASE destroyInotify
  BY <1>2, NewInstanceComplete
     DEF destroyInotify, fsVars, ctlVars, localVars, apiVars, scanVars
<1>3. ASSUME NEW paths, NEW ev, NEW ok, NEW stage \in {"files", "roots"},
             WatchCall(paths, ev, ok, stage)
      PROVE  CompleteInv'
  <2>1. /\ pc = "idle" /\ pc' \in {"idle", stage} /\ caller' = "idle"
        /\ UNCHANGED <<loc, marks, nextWd, kq, lost, buf, wmap, made, failed>>
    BY <1>3 DEF WatchCall, envVars, fsVars, kernelVars, scanVars
  <2>2. Waiting' = Waiting
    BY <2>1 DEF Waiting, InHandler, WatchStages
  <2> QED BY <2>1, <2>2, SameHeard, AloneComplete
<1>4. ASSUME NEW timed, waitCompleteEvent(timed) PROVE CompleteInv'
  <2>1. /\ pc = "idle" /\ pc' \in {"idle", "read"}
        /\ UNCHANGED <<loc, marks, nextWd, kq, lost, buf, wmap, made, failed>>
    BY <1>4 DEF waitCompleteEvent, worldVars, envVars, fsVars, kernelVars, scanVars
  <2>2. Waiting' = Waiting
    BY <2>1 DEF Waiting, InHandler, WatchStages
  <2> QED BY <2>1, <2>2, SameHeard, AloneComplete
<1>5. CASE getEventItem
  <2>1. /\ pc = "idle" /\ pc' = pc
        /\ UNCHANGED <<loc, marks, nextWd, kq, lost, buf, wmap, made, failed>>
    BY <1>5 DEF getEventItem, worldVars, envVars, fsVars, kernelVars, ctlVars,
         localVars, apiVars, scanVars
  <2>2. Waiting' = Waiting
    BY <2>1 DEF Waiting, InHandler, WatchStages
  <2> QED BY <2>1, <2>2, SameHeard, AloneComplete
<1> QED BY <1>1, <1>2, <1>3, <1>4, <1>5 DEF Calls, watchFiles, watchRecursive

-----------------------------------------------------------------------------
(* The watch calls.                                                        *)
LEMMA WatchWaits ==
  ASSUME IndInv, WatchSteps
  PROVE  /\ Waiting' = Waiting /\ UNCHANGED buf
         /\ pc \in WatchStages /\ pc' \in WatchStages \cup {caller} /\ pc' # "purge"
<1>1. /\ UNCHANGED <<buf, caller>> /\ caller \in {"idle", "created", "moved_in"}
      /\ pc \in WatchStages /\ pc' \in WatchStages \cup {caller}
  BY WatchStepsPipe, Typed DEF WatchStep
<1>2. InHandler' <=> InHandler
  BY <1>1 DEF InHandler, WatchStages
<1> QED BY <1>1, <1>2 DEF Waiting, WatchStages

LEMMA QuietWatchSteps ==
  ASSUME IndInv, CompleteInv,
         \/ FilesFail \/ FilesDone \/ RollbackDone \/ NextRoot \/ RootsDone
         \/ InsertDone
  PROVE  CompleteInv'
<1>1. Waiting' = Waiting /\ pc' # "purge"
  BY WatchWaits DEF WatchSteps
<1>2. /\ pc \notin {"add", "opendir", "readdir"}
      /\ UNCHANGED <<loc, marks, nextWd, kq, lost, wmap, failed>>
  BY DEF FilesFail, FilesDone, RollbackDone, NextRoot, RootsDone, InsertDone,
         worldVars, envVars, fsVars, kernelVars, scanVars, localVars
<1>3. CASE FilesFail
  <2>1. UNCHANGED made /\ pc' = "rollback"
    BY <1>3 DEF FilesFail
  <2> QED BY <1>1, <1>2, <2>1, SameHeard, AloneComplete
<1>4. CASE FilesDone \/ RollbackDone
  <2>1. made' = <<>>
    BY <1>4 DEF FilesDone, RollbackDone
  <2> QED BY <1>1, <1>2, <2>1, SameHeard, AloneComplete
<1>5. CASE NextRoot \/ RootsDone \/ InsertDone
  <2>1. UNCHANGED made /\ pc \notin {"files", "rollback"}
    BY <1>5 DEF NextRoot, RootsDone, InsertDone, localVars, apiVars
  <2> QED BY <1>1, <1>2, <2>1, SameHeard, AloneComplete
<1> QED BY <1>3, <1>4, <1>5

(* The recursion gives up: nothing is promised any more.                   *)
LEMMA ScanFailsComplete ==
  ASSUME IndInv, CompleteInv, ScanAddFails \/ ScanOpenFails \/ ScanEntryFails
  PROVE  CompleteInv'
<1>1. PICK open : ScanFails(open)
  BY DEF ScanAddFails, ScanOpenFails, ScanEntryFails
<1>2. /\ failed' /\ UNCHANGED <<loc, marks, nextWd, wmap, made>>
  BY <1>1 DEF ScanFails, worldVars, envVars, fsVars, kernelVars
<1>3. pc \notin {"files", "rollback"} /\ pc' # "purge"
  <2>1. pc' # "purge"
    BY WatchWaits DEF WatchSteps
  <2> QED BY <2>1 DEF ScanAddFails, ScanOpenFails, ScanEntryFails
<1>4. MadeOK' /\ RecOK'
  BY <1>2, <1>3, MadeKeeps DEF CompleteInv, RecOK
<1> QED BY <1>2, <1>3, <1>4 DEF CompleteInv, Excused

LEMMA AddWatchMarks ==
  ASSUME KernelInv, NEW path, AddWatch(path)
  PROVE  /\ \A wd \in DOMAIN marks : wd \in DOMAIN marks' /\ marks'[wd] = marks[wd]
         /\ \A wd \in DOMAIN marks' :
              \/ wd \in DOMAIN marks
              \/ wd = nextWd /\ marks'[wd] = Target(path) /\ ~Marked(Target(path))
         /\ marks'[AddedWd(path)] = Target(path) /\ AddedWd(path) \in DOMAIN marks'
<1> DEFINE v == AddedWd(path)
<1>1. marks' = [wd \in DOMAIN marks \cup {v} |->
                  IF wd = v THEN Target(path) ELSE marks[wd]]
  BY DEF AddWatch
<1>2. \/ v = nextWd /\ ~Marked(Target(path))
      \/ v \in DOMAIN marks /\ marks[v] = Target(path)
  BY DEF AddedWd, Marked
<1>3. nextWd \notin DOMAIN marks
  BY DEF KernelInv, KernelTypeOK
<1> HIDE DEF v
<1>4. /\ \A wd \in DOMAIN marks : wd \in DOMAIN marks' /\ marks'[wd] = marks[wd]
      /\ \A wd \in DOMAIN marks' :
              \/ wd \in DOMAIN marks
              \/ wd = nextWd /\ marks'[wd] = Target(path) /\ ~Marked(Target(path))
      /\ marks'[v] = Target(path) /\ v \in DOMAIN marks'
  BY <1>1, <1>2, <1>3
<1> QED BY <1>4 DEF v

LEMMA FilesAddComplete ==
  ASSUME IndInv, TreeInv, CompleteInv, ~PlainWatch, FilesAdd
  PROVE  CompleteInv'
<1>0. PICK path, v, t : path = Head(todo) /\ v = AddedWd(path) /\ t = Target(path)
  OBVIOUS
<1>1. /\ CanWatch(path) /\ AddWatch(path) /\ Insert(v, path, FALSE)
      /\ made' = Append(made, v) /\ pc = "files" /\ pc' = "files"
      /\ UNCHANGED <<loc, unlinked, lost, failed, kq>>
  BY <1>0 DEF FilesAdd, AddWatch, envVars, fsVars, ctlVars, scanVars
<1>2. t \notin Dirs
  BY <1>0 DEF FilesAdd, PlainWatch
<1>3. /\ Keeps /\ v \in Nat /\ v < nextWd'
  BY <1>0, <1>1, Typed, AddWatchPlaces DEF TreeInv
<1>4. /\ \A wd \in DOMAIN marks : wd \in DOMAIN marks' /\ marks'[wd] = marks[wd]
      /\ \A wd \in DOMAIN marks' : wd \in DOMAIN marks \/ marks'[wd] = t
      /\ marks'[v] = t
  BY <1>0, <1>1, Typed, AddWatchMarks
<1>5. Waiting' = Waiting
  BY WatchWaits DEF WatchSteps
<1>6. RecOK'
  <2>1. \A wd \in DOMAIN wmap' :
          (wd \in DOMAIN wmap /\ wmap'[wd] = wmap[wd]) \/ wd = v
    BY <1>1, InsertEntries
  <2> QED BY <1>2, <1>4, <2>1 DEF CompleteInv, RecOK
<1>7. MadeOK'
  <2>1. made \in Seq(Nat)
    BY DEF IndInv, TypeOK, ToolTypeOK
  <2>2. \A k \in DOMAIN made' : (\E j \in DOMAIN made : made'[k] = made[j]) \/ made'[k] = v
    BY <1>1, <2>1, AppendElements
  <2>3. nextWd \in Nat /\ nextWd <= nextWd' /\ \A j \in DOMAIN made : made[j] \in Nat
    BY <1>3, <2>1, Typed, ElementOfSeq DEF Keeps, KernelInv, KernelTypeOK
  <2>4. nextWd' \in Nat
    BY <1>1, <2>3, AddWatchKeeps DEF AddWatch
  <2>5. ASSUME NEW k \in DOMAIN made'
        PROVE  /\ made'[k] < nextWd'
               /\ made'[k] \in DOMAIN marks' => marks'[made'[k]] \notin Dirs
    <3>1. CASE made'[k] = v
      BY <1>2, <1>3, <1>4, <3>1
    <3>2. ASSUME NEW j \in DOMAIN made, made'[k] = made[j]
          PROVE  /\ made'[k] < nextWd'
                 /\ made'[k] \in DOMAIN marks' => marks'[made'[k]] \notin Dirs
      <4>1. made[j] < nextWd /\ (made[j] \in DOMAIN marks => marks[made[j]] \notin Dirs)
        BY DEF CompleteInv, MadeOK
      <4> QED BY <1>2, <1>4, <2>3, <2>4, <3>2, <4>1
    <3> QED BY <2>2, <3>1, <3>2
  <2> QED BY <1>1, <2>5 DEF MadeOK
<1>8. ASSUME Covered PROVE Covered'
  <2>1. \A d \in Dirs : Marked(d) => Marked(d)'
    BY <1>4 DEF Marked
  <2> QED BY <1>1, <1>2, <1>4, <1>5, <1>8, <2>1, SameHeard, QuietCovered
<1> QED BY <1>1, <1>6, <1>7, <1>8 DEF CompleteInv, Excused

LEMMA RollbackComplete ==
  ASSUME IndInv, CompleteInv, Rollback
  PROVE  CompleteInv'
<1>0. PICK w : w = Head(made)
  OBVIOUS
<1>1. /\ RmWatch(w) /\ wmap' = Without({w}) /\ made # <<>> /\ made' = Tail(made)
      /\ pc = "rollback" /\ pc' = "rollback" /\ UNCHANGED <<loc, failed>>
  BY <1>0 DEF Rollback, envVars, fsVars, ctlVars, scanVars
<1>2. made \in Seq(Nat)
  BY DEF IndInv, TypeOK, ToolTypeOK
<1>3. 1 \in DOMAIN made /\ w = made[1]
      /\ \A k \in DOMAIN made' : k + 1 \in DOMAIN made /\ made'[k] = made[k + 1]
  BY <1>0, <1>1, <1>2, TailElements
<1>4. w \in DOMAIN marks => marks[w] \notin Dirs
  BY <1>3 DEF CompleteInv, MadeOK
<1>5. /\ marks' = [v \in DOMAIN marks \ {w} |-> marks[v]] /\ UNCHANGED nextWd
      /\ (lost => lost') /\ Records(kq) \subseteq Records(kq')
  <2>1. UNCHANGED envVars
    BY DEF Rollback
  <2> QED BY <1>1, <2>1, Typed, RmWatchKeeps DEF RmWatch, Announces, envVars
<1>6. Waiting' = Waiting
  BY WatchWaits DEF WatchSteps
<1>7. RecOK' /\ MadeOK'
  BY <1>1, <1>3, <1>5 DEF CompleteInv, RecOK, MadeOK, Without
<1>8. ASSUME Covered PROVE Covered'
  <2>1. KeepsHeard
    BY <1>5, <1>6 DEF KeepsHeard, Heard
  <2>2. \A d \in Dirs : Marked(d) => Marked(d)'
    BY <1>4, <1>5 DEF Marked
  <2> QED BY <1>1, <1>5, <1>8, <2>1, <2>2, QuietCovered
<1> QED BY <1>1, <1>5, <1>7, <1>8 DEF CompleteInv, Excused

LEMMA InsertFoundComplete ==
  ASSUME IndInv, CompleteInv, InsertFound
  PROVE  CompleteInv'
<1>0. PICK v, path : v = Head(found).wd /\ path = Head(found).path
  OBVIOUS
<1>1. /\ Insert(v, path, TRUE) /\ pc = "insert" /\ pc' = "insert"
      /\ UNCHANGED <<loc, marks, nextWd, kq, lost, failed, made>>
  BY <1>0 DEF InsertFound, worldVars, envVars, fsVars, kernelVars, ctlVars, apiVars
<1>2. \A wd \in DOMAIN wmap' :
        \/ wd \in DOMAIN wmap /\ wmap'[wd] = wmap[wd]
        \/ wmap'[wd] = [path |-> path, rec |-> TRUE]
  BY <1>1, InsertEntries
<1>3. Waiting' = Waiting
  BY WatchWaits DEF WatchSteps
<1>4. RecOK'
  BY <1>1, <1>2 DEF CompleteInv, RecOK
<1>5. MadeOK'
  BY <1>1, MadeKeeps DEF CompleteInv
<1>6. ASSUME Covered PROVE Covered'
  BY <1>1, <1>3, <1>6, SameHeard, QuietCovered DEF Marked
<1> QED BY <1>1, <1>4, <1>5, <1>6 DEF CompleteInv, Excused

-----------------------------------------------------------------------------
(* The steps of a walk.  The string of a directory names it and nothing    *)
(* else.                                                                   *)
LEMMA AtDir ==
  ASSUME KernelTypeOK, IsTree(loc), NEW d \in Dirs, loc[d] # <<>>
  PROVE  /\ d \in At(DirString(d)) /\ \A i \in At(DirString(d)) : i = d
         /\ d \in At(PathString(loc[d]))
         /\ CorrectionPath(PathString(loc[d])) = DirString(d)
<1> DEFINE s == PathString(loc[d])
<1>1. d \in Inodes /\ Live(d) /\ loc[d] \in Seq(Word)
  BY PlaceFacts, NamesAreTokens DEF Inodes, Live, Gone
<1>2. s \in Seq(Token) /\ "/" \in Token
  BY <1>1, PathStringEnd, NamesAreTokens
<1>3. Last(Append(s, "/")) = "/" /\ Front(Append(s, "/")) = s
  BY <1>2, LastAppend
<1>4. ASSUME NEW i \in At(DirString(d)) PROVE i = d
  <2>1. /\ i \in Inodes /\ Live(i)
        /\ \/ PathString(loc[i]) = Append(s, "/")
           \/ Append(PathString(loc[i]), "/") = Append(s, "/")
    BY <1>4 DEF At, DirString
  <2>2. loc[i] \in Seq(Word) /\ loc[i] # <<>>
    BY <2>1, PlaceFacts, NamesAreTokens DEF Live, Gone
  <2>3. PathString(loc[i]) \in Seq(Token) /\ Last(PathString(loc[i])) # "/"
    BY <2>2, PathStringEnd
  <2>4. Append(PathString(loc[i]), "/") = Append(s, "/")
    BY <1>3, <2>1, <2>3
  <2>5. PathString(loc[i]) = s
    <3> DEFINE r == PathString(loc[i])
    <3>1. r \in Seq(Token)
      BY <2>3
    <3> HIDE DEF r
    <3>2. Front(Append(r, "/")) = r
      BY <1>2, <3>1, LastAppend
    <3> QED BY <1>3, <2>4, <3>2 DEF r
  <2>6. loc[i] = loc[d]
    BY <1>1, <2>2, <2>5, PathStringInjective
  <2> QED BY <1>1, <2>1, <2>6 DEF IsTree, Live
<1>5. d \in At(DirString(d)) /\ d \in At(s)
  BY <1>1 DEF At, DirString
<1>6. CorrectionPath(s) = DirString(d)
  BY <1>1, CorrectedPlace DEF DirString
<1> QED BY <1>4, <1>5, <1>6

(* A directory that has a name has a place.                                *)
LEMMA EntryPlace ==
  ASSUME KernelTypeOK, NEW wd \in DOMAIN marks, NEW d \in Dirs, NEW n \in AllNames,
         Entry(wd, d, n)
  PROVE  /\ marks[wd] \in Dirs /\ loc[marks[wd]] \in Seq(AllNames)
         /\ loc[d] = Append(loc[marks[wd]], n) /\ loc[d] # <<>>
<1>1. marks[wd] \in Dirs /\ loc[marks[wd]] \in Seq(AllNames)
      /\ loc[d] = Append(loc[marks[wd]], n)
  BY PlaceFacts DEF Entry, Inodes
<1> QED BY <1>1, LastAppend

LEMMA ScanAddComplete ==
  ASSUME IndInv, TreeInv, CompleteInv, ScanAdd
  PROVE  CompleteInv'
<1>0. PICK path, t, v : path = CorrectionPath(enter) /\ t = Target(path) /\ v = AddedWd(path)
  OBVIOUS
<1>1. /\ CanWatch(path) /\ AddWatch(path) /\ pc = "add" /\ pc' = "opendir"
      /\ enter' = path
      /\ UNCHANGED <<loc, unlinked, lost, failed, kq, made, wmap, stack>>
  BY <1>0 DEF ScanAdd, AddWatch, envVars, fsVars, apiVars
<1>2. KernelInv /\ KernelTypeOK /\ MarksLive /\ enter \in Paths
      /\ nextWd \in Nat /\ IsTree(loc)
  BY Typed DEF TreeInv, WalkOK, KernelInv, KernelTypeOK, CompleteInv
<1>3. t \in At(path)
  BY <1>0, <1>1, <1>2, AddWatchPlaces
<1>4. t \in Dirs /\ path = DirString(t)
  BY <1>0, <1>2, <1>3, CorrectedNamesDir
<1>5. /\ \A wd \in DOMAIN marks : wd \in DOMAIN marks' /\ marks'[wd] = marks[wd]
      /\ \A wd \in DOMAIN marks' : wd \in DOMAIN marks \/ (wd = nextWd /\ marks'[wd] = t)
      /\ marks'[v] = t /\ v \in DOMAIN marks'
  BY <1>0, <1>1, <1>2, AddWatchMarks
<1>6. Waiting' = Waiting
  BY WatchWaits DEF WatchSteps
<1>7. RecOK'
  <2>1. \A wd \in DOMAIN wmap : wd \in Nat /\ wd < nextWd
    BY DEF TreeInv, MapOK, EntryOK, IndInv, TypeOK, ToolTypeOK
  <2>2. nextWd \notin DOMAIN wmap
    BY <1>2, <2>1
  <2> QED BY <1>1, <1>5, <2>2 DEF CompleteInv, RecOK
<1>8. MadeOK'
  <2>1. made = <<>>
    BY <1>1 DEF CompleteInv, MadeOK
  <2>2. DOMAIN made = {}
    BY <2>1
  <2> QED BY <1>1, <2>1, <2>2 DEF MadeOK
<1>9. ASSUME Covered,
             NEW wd \in DOMAIN marks', NEW d \in Dirs, NEW n \in AllNames, Entry(wd, d, n)'
      PROVE  Marked(d)' \/ Creation(wd, n)' \in Heard' \/ Walked(marks[wd], d, n)'
  <2>1. CASE wd = nextWd /\ marks'[wd] = t
    BY <1>1, <1>4, <2>1 DEF Walked, DirString
  <2>2. CASE wd \in DOMAIN marks
    <3>1. marks'[wd] = marks[wd] /\ Entry(wd, d, n)
      BY <1>1, <1>5, <1>9, <2>2 DEF Entry
    <3>2. Marked(d) \/ Creation(wd, n) \in Heard \/ Walked(marks[wd], d, n)
      BY <1>9, <2>2, <3>1 DEF Covered
    <3>3. CASE Marked(d)
      BY <1>5, <3>3 DEF Marked
    <3>4. CASE Creation(wd, n) \in Heard
      BY <1>1, <1>6, <3>4 DEF Heard, Creation
    <3>5. CASE pc = "add" /\ enter = PathString(loc[d])
      <4>1. loc[d] # <<>>
        BY <1>2, <2>2, <3>1, EntryPlace
      <4>2. path = DirString(d) /\ t = d
        BY <1>0, <1>2, <1>3, <3>5, <4>1, AtDir
      <4> QED BY <1>5, <4>2 DEF Marked
    <3>6. CASE \E k \in DOMAIN stack : stack[k].path = DirString(marks[wd]) /\ n \in stack[k].left
      BY <1>1, <3>1, <3>6 DEF Walked, DirString
    <3> QED BY <1>1, <3>2, <3>3, <3>4, <3>5, <3>6 DEF Walked
  <2> QED BY <1>5, <2>1, <2>2
<1>10. Covered => Covered'
  BY <1>9 DEF Covered
<1> QED BY <1>1, <1>2, <1>7, <1>8, <1>10 DEF CompleteInv, Excused

(* The children that a directory has when it is opened are listed.         *)
LEMMA ListedChild ==
  ASSUME KernelTypeOK, IsTree(loc), NEW p \in Dirs, loc[p] # <<>>,
         NEW d \in Dirs, NEW n \in AllNames, loc[d] = Append(loc[p], n)
  PROVE  n \in Listing(DirString(p))
<1>1. Target(DirString(p)) = p
  BY AtDir DEF Target
<1>2. loc[p] \in Seq(AllNames) /\ d \in Inodes /\ loc[d] \in Seq(AllNames)
  BY PlaceFacts DEF Inodes
<1>3. loc[d] # <<>> /\ Last(loc[d]) = n /\ Front(loc[d]) = loc[p]
      /\ Len(loc[d]) = Len(loc[p]) + 1
  BY <1>2, LastAppend, AppendProperties
<1>4. IsPrefix(loc[p], loc[d])
  BY <1>2, <1>3, PrefixFront
<1>5. d \in Children(p)
  BY <1>2, <1>3, <1>4 DEF Children, Live, Gone
<1> QED BY <1>1, <1>3, <1>5 DEF Listing

LEMMA ScanOpenComplete ==
  ASSUME IndInv, TreeInv, CompleteInv, ScanOpen
  PROVE  CompleteInv'
<1>0. PICK e : e = [path |-> enter, left |-> Listing(enter)]
  OBVIOUS
<1>1. /\ CanOpen(enter) /\ Opendir(enter) /\ pc = "opendir" /\ pc' = "readdir"
      /\ stack' = Append(stack, e)
      /\ UNCHANGED <<loc, failed, made, wmap, marks, nextWd>>
      /\ UNCHANGED <<fsVars, dirty>>
  BY <1>0 DEF ScanOpen, Opendir, envVars, fsVars, apiVars
<1>2. KernelInv /\ KernelTypeOK /\ IsTree(loc) /\ MarksLive
  BY Typed DEF TreeInv, CompleteInv, KernelInv
<1>3. (lost => lost') /\ Records(kq) \subseteq Records(kq')
  BY <1>1, <1>2, OpendirKeeps DEF Announces
<1>4. Waiting' = Waiting
  BY WatchWaits DEF WatchSteps
<1>5. RecOK' /\ MadeOK'
  BY <1>1, MadeKeeps DEF CompleteInv, RecOK
<1>6. /\ \A k \in DOMAIN stack : k \in DOMAIN stack' /\ stack'[k] = stack[k]
      /\ \E k \in DOMAIN stack' : stack'[k] = e
  <2>1. PICK S : stack \in Seq(S)
    BY StackIsSeq
  <2>2. stack \in Seq(S \cup {e}) /\ e \in S \cup {e}
    BY <2>1, SeqMonotonic
  <2>3. /\ Len(stack) \in Nat /\ DOMAIN stack = 1..Len(stack)
        /\ DOMAIN Append(stack, e) = 1..(Len(stack) + 1)
        /\ Append(stack, e)[Len(stack) + 1] = e
        /\ \A k \in 1..Len(stack) : Append(stack, e)[k] = stack[k]
    BY <2>2, AppendProperties
  <2> QED BY <1>1, <2>3
<1>7. ASSUME NEW wd \in DOMAIN marks, NEW d \in Dirs, NEW n \in AllNames,
             Entry(wd, d, n), Walked(marks[wd], d, n)
      PROVE  Walked(marks[wd], d, n)'
  <2>1. /\ marks[wd] \in Dirs /\ loc[marks[wd]] # <<>>
        /\ loc[d] = Append(loc[marks[wd]], n)
    BY <1>2, <1>7, EntryPlace, LiveMark DEF Entry, Live, Gone
  <2>2. CASE enter = DirString(marks[wd])
    <3>1. n \in Listing(enter)
      BY <1>2, <2>1, <2>2, ListedChild
    <3>2. e.path = DirString(marks[wd]) /\ n \in e.left
      BY <1>0, <2>2, <3>1
    <3> QED BY <1>1, <1>6, <3>2 DEF Walked, DirString
  <2>3. CASE \E k \in DOMAIN stack : stack[k].path = DirString(marks[wd]) /\ n \in stack[k].left
    BY <1>1, <1>6, <2>3 DEF Walked, DirString
  <2> QED BY <1>1, <1>7, <2>2, <2>3 DEF Walked
<1>8. Covered => Covered'
  <2>1. \A wd, n : Creation(wd, n) \in Heard => Creation(wd, n) \in Heard'
    BY <1>3, <1>4 DEF Heard
  <2>2. \A d \in Dirs : Marked(d) => Marked(d)'
    BY <1>1 DEF Marked
  <2> QED BY <1>1, <1>7, <2>1, <2>2, StillCovered
<1> QED BY <1>1, <1>2, <1>3, <1>5, <1>8 DEF CompleteInv, Excused


(* The string of an entry that readdir returns and the handlers make.      *)
LEMMA EntryString ==
  ASSUME KernelTypeOK, NEW wd \in DOMAIN marks, NEW d \in Dirs, NEW n \in AllNames,
         Entry(wd, d, n)
  PROVE  DirString(marks[wd]) \o n = PathString(loc[d])
<1>1. loc[marks[wd]] \in Seq(Word) /\ n \in Word /\ loc[d] = Append(loc[marks[wd]], n)
  BY EntryPlace, NamesAreTokens
<1> QED BY <1>1, NameBehindSlash DEF DirString

(* Steps of a walk that change what is left of it only.                    *)
LEMMA WalkComplete ==
  ASSUME IndInv, CompleteInv, ScanClose \/ \E n \in AllNames : ScanEntry(n),
         \A wd \in DOMAIN marks, d \in Dirs, n \in AllNames :
           Entry(wd, d, n) /\ Walked(marks[wd], d, n) => Walked(marks[wd], d, n)'
  PROVE  CompleteInv'
<1>1. /\ UNCHANGED <<loc, marks, nextWd, kq, lost, wmap, failed, made>>
      /\ pc \notin {"files", "rollback"}
  BY DEF ScanClose, ScanEntry, worldVars, envVars, fsVars, kernelVars, apiVars
<1>2. Waiting' = Waiting /\ pc' # "purge"
  BY WatchWaits DEF WatchSteps
<1>3. RecOK' /\ MadeOK'
  BY <1>1, MadeKeeps DEF CompleteInv, RecOK
<1>4. Covered => Covered'
  <2>1. \A wd, n : Creation(wd, n) \in Heard => Creation(wd, n) \in Heard'
    BY <1>1, <1>2 DEF Heard
  <2>2. \A d \in Dirs : Marked(d) => Marked(d)'
    BY <1>1 DEF Marked
  <2> QED BY <1>1, <2>1, <2>2, StillCovered
<1> QED BY <1>1, <1>2, <1>3, <1>4 DEF CompleteInv, Excused

LEMMA StackTop ==
  ASSUME IndInv, pc = "readdir"
  PROVE  /\ stack # <<>> /\ Len(stack) \in DOMAIN stack
         /\ Last(stack) = stack[Len(stack)]
<1>1. stack # <<>>
  BY DEF IndInv, ControlOK
<1> QED BY <1>1, StackIsSeq, EmptySeq DEF Last

LEMMA ScanEntryComplete ==
  ASSUME IndInv, TreeInv, CompleteInv, NEW m \in AllNames, ScanEntry(m)
  PROVE  CompleteInv'
<1>0. PICK item, top : item = Last(stack).path \o m /\ top = Len(stack)
  OBVIOUS
<1>1. /\ pc = "readdir" /\ UNCHANGED <<loc, marks>>
      /\ stack' = [stack EXCEPT ![top] = [path |-> @.path, left |-> @.left \ {m}]]
      /\ isDir(item) => enter' = item /\ pc' = "add"
  BY <1>0 DEF ScanEntry, worldVars, envVars, fsVars, kernelVars
<1>2. top \in DOMAIN stack /\ item = stack[top].path \o m
  BY <1>0, <1>1, StackTop
<1>3. /\ \A k \in DOMAIN stack : k \in DOMAIN stack' /\ (k # top => stack'[k] = stack[k])
      /\ stack'[top].path = stack[top].path /\ stack'[top].left = stack[top].left \ {m}
  BY <1>1, <1>2
<1>4. KernelTypeOK /\ IsTree(loc)
  BY Typed DEF KernelInv, CompleteInv
<1>5. ASSUME NEW wd \in DOMAIN marks, NEW d \in Dirs, NEW n \in AllNames,
             Entry(wd, d, n), Walked(marks[wd], d, n)
      PROVE  Walked(marks[wd], d, n)'
  <2>1. PICK k \in DOMAIN stack : stack[k].path = DirString(marks[wd]) /\ n \in stack[k].left
    BY <1>1, <1>5 DEF Walked
  <2>2. CASE k # top \/ n # m
    <3>1. stack'[k].path = stack[k].path /\ n \in stack'[k].left
      BY <1>3, <2>1, <2>2
    <3> QED BY <1>1, <1>3, <2>1, <3>1 DEF Walked, DirString
  <2>3. CASE k = top /\ n = m
    <3>1. item = PathString(loc[d])
      BY <1>2, <1>4, <1>5, <2>1, <2>3, EntryString
    <3>2. d \in At(item)
      BY <1>4, <1>5, <3>1, EntryPlace, AtDir
    <3>3. enter' = PathString(loc[d]) /\ pc' = "add"
      BY <1>1, <3>1, <3>2 DEF isDir
    <3> QED BY <1>1, <3>3 DEF Walked
  <2> QED BY <2>2, <2>3
<1> QED BY <1>5, WalkComplete

LEMMA ScanCloseComplete ==
  ASSUME IndInv, CompleteInv, ScanClose
  PROVE  CompleteInv'
<1>1. /\ pc = "readdir" /\ UNCHANGED <<loc, marks>>
      /\ stack' = Front(stack) /\ Last(stack).left = {}
  BY DEF ScanClose, worldVars, envVars, fsVars, kernelVars
<1>2. /\ stack # <<>> /\ stack[Len(stack)].left = {}
  BY <1>1, StackTop
<1>3. \A k \in DOMAIN stack : k = Len(stack) \/ (k \in DOMAIN stack' /\ stack'[k] = stack[k])
  <2>1. PICK S : stack \in Seq(S)
    BY StackIsSeq
  <2>2. /\ stack' \in Seq(S) /\ Len(stack') = Len(stack) - 1 /\ Len(stack) \in Nat \ {0}
        /\ \A k \in 1..(Len(stack) - 1) : stack'[k] = stack[k]
    BY <1>1, <1>2, <2>1, FrontProperties
  <2>3. DOMAIN stack = 1..Len(stack) /\ DOMAIN stack' = 1..(Len(stack) - 1)
    BY <2>1, <2>2, LenProperties
  <2> QED BY <2>2, <2>3
<1>4. ASSUME NEW wd \in DOMAIN marks, NEW d \in Dirs, NEW n \in AllNames,
             Entry(wd, d, n), Walked(marks[wd], d, n)
      PROVE  Walked(marks[wd], d, n)'
  <2>1. PICK k \in DOMAIN stack : stack[k].path = DirString(marks[wd]) /\ n \in stack[k].left
    BY <1>1, <1>4 DEF Walked
  <2>2. k \in DOMAIN stack' /\ stack'[k] = stack[k]
    BY <1>2, <1>3, <2>1
  <2> QED BY <1>1, <2>1, <2>2 DEF Walked, DirString
<1> QED BY <1>4, WalkComplete

LEMMA WatchStepsComplete ==
  ASSUME IndInv, TreeInv, CompleteInv, ~PlainWatch, WatchSteps
  PROVE  CompleteInv'
  BY FilesAddComplete, RollbackComplete, QuietWatchSteps, ScanFailsComplete,
     ScanAddComplete, ScanOpenComplete, ScanEntryComplete, ScanCloseComplete,
     InsertFoundComplete DEF WatchSteps

-----------------------------------------------------------------------------
(* The reading and the parsing of records.                                 *)
LEMMA ConcatRecords ==
  ASSUME NEW b \in Seq(Events), NEW q \in Seq(Events)
  PROVE  Records(b \o q) = Records(b) \cup Records(q)
<1> DEFINE r == b \o q
<1>1. /\ Len(b) \in Nat /\ Len(q) \in Nat /\ Len(r) = Len(b) + Len(q)
      /\ \A k \in 1..(Len(b) + Len(q)) :
           r[k] = IF k <= Len(b) THEN b[k] ELSE q[k - Len(b)]
  BY ConcatProperties
<1> HIDE DEF r
<1>2. \A k \in 1..Len(b) : k \in 1..Len(r) /\ r[k] = b[k]
  BY <1>1
<1>3. \A k \in 1..Len(q) : k + Len(b) \in 1..Len(r) /\ r[k + Len(b)] = q[k]
  BY <1>1
<1>4. ASSUME NEW k \in 1..Len(r)
      PROVE  \/ k \in 1..Len(b) /\ r[k] = b[k]
             \/ k - Len(b) \in 1..Len(q) /\ r[k] = q[k - Len(b)]
  BY <1>1
<1>5. Records(r) \subseteq Records(b) \cup Records(q)
  BY <1>4 DEF Records
<1>6. Records(b) \subseteq Records(r)
  BY <1>2 DEF Records
<1>7. Records(q) \subseteq Records(r)
  BY <1>3 DEF Records
<1> QED BY <1>5, <1>6, <1>7 DEF r

LEMMA ReadComplete ==
  ASSUME IndInv, IndInv', CompleteInv, Read
  PROVE  CompleteInv'
<1>1. /\ pc = "read" /\ pc' \in {"parse", "idle"}
      /\ UNCHANGED <<loc, marks, nextWd, lost, wmap, failed, made>>
  BY DEF Read, envVars, fsVars, scanVars
<1>2. Waiting = buf /\ Waiting' = buf'
  BY <1>1 DEF Waiting, InHandler, WatchStages
<1>3. buf' \o kq' = buf \o kq
  BY ReadQueue
<1>4. /\ buf \in Seq(Events) /\ kq \in Seq(Events)
      /\ buf' \in Seq(Events) /\ kq' \in Seq(Events)
  BY DEF IndInv, TypeOK, ToolTypeOK, KernelTypeOK
<1>5. Records(buf') \cup Records(kq') = Records(buf) \cup Records(kq)
  <2>1. Records(buf \o kq) = Records(buf) \cup Records(kq)
    BY <1>4, ConcatRecords
  <2>2. Records(buf' \o kq') = Records(buf') \cup Records(kq')
    BY <1>4, ConcatRecords
  <2> QED BY <1>3, <2>1, <2>2
<1>6. KeepsHeard
  BY <1>2, <1>5 DEF KeepsHeard, Heard, Records
<1> QED BY <1>1, <1>6, AloneComplete

(* The records that the handler is through with at once.                   *)
LEMMA HandledComplete ==
  ASSUME IndInv, TreeInv, CompleteInv,
         \/ OnOverflow \/ OnNameless \/ OnDelete \/ OnModify \/ OnCloseWrite
         \/ OnMovedFrom \/ OnIgnored \/ OnOther
  PROVE  CompleteInv'
<1>1. ~(move.name # <<>> /\ move.dir)
  BY DEF TreeInv, MovesOK
<1>2. /\ \E kinds : Parsing(kinds)
      /\ Head(buf).ev # "CREATE" \/ Head(buf).name = <<>>
  <2>1. \E kinds : Parsing(kinds)
    BY DEF OnOverflow, OnNameless, OnDelete, OnModify, OnCloseWrite, OnMovedFrom,
           OnIgnored, OnOther, Named, Mapped
  <2>2. Head(buf).ev # "CREATE" \/ Head(buf).name = <<>>
    BY DEF OnOverflow, OnNameless, OnDelete, OnModify, OnCloseWrite, OnMovedFrom,
           OnIgnored, OnOther, Named, Mapped, Parsing
  <2> QED BY <2>1, <2>2
<1>3. pc = "parse" /\ buf # <<>>
  BY <1>2, InParse
<1>4. /\ UNCHANGED <<fsVars, kernelVars, failed, made>>
      /\ UNCHANGED wmap \/ \E S : wmap' = Without(S)
      /\ buf' = Tail(buf) /\ pc' = "parse"
  BY <1>1, <1>3 DEF OnOverflow, OnNameless, OnDelete, OnModify, OnCloseWrite,
     OnMovedFrom, OnIgnored, OnOther, LoopTail, worldVars, envVars, ctlVars,
     localVars, apiVars, scanVars
<1>5. UNCHANGED <<loc, marks, nextWd, kq, lost>>
  BY <1>4 DEF fsVars, kernelVars
<1>6. Waiting = buf /\ Waiting' = Tail(buf)
  BY <1>3, <1>4 DEF Waiting, InHandler, WatchStages
<1>7. KeepsHeard
  BY <1>2, <1>3, <1>5, <1>6, PopKeepsHeard
<1> QED BY <1>3, <1>4, <1>5, <1>7, AloneComplete

(* The records that end a watch come when the kernel has ended it.         *)
LEMMA PartedUnwatched ==
  ASSUME IndInv, TidyInv, buf # <<>>, Head(buf).ev \in Partings
  PROVE  Head(buf).wd \notin DOMAIN marks
<1> DEFINE q == buf \o kq
<1>1. /\ q \in Seq(Events) /\ q # <<>> /\ Head(q) = Head(buf)
  BY MarkTypes, ConcatHead, ConcatProperties
<1>2. Tidy(q, DOMAIN marks, nextWd)
  BY DEF TidyInv
<1>3. q[1] = Head(q) /\ 1 \in 1..Len(q)
  <2> HIDE DEF q
  <2> QED BY <1>1, HeadTailProperties, EmptySeq
<1> QED BY <1>1, <1>2, <1>3 DEF Tidy

LEMMA EndsComplete ==
  ASSUME IndInv, TidyInv, CompleteInv, OnDeleteSelf \/ OnUnmount
  PROVE  CompleteInv'
<1>0. PICK wd : wd = Head(buf).wd
  OBVIOUS
<1>1. PICK kinds \in SUBSET {"DELETE_SELF", "UNMOUNT"} : Parsing(kinds)
  BY DEF OnDeleteSelf, OnUnmount, Mapped, Unnamed
<1>2. pc = "parse" /\ buf # <<>> /\ Head(buf).ev \in {"DELETE_SELF", "UNMOUNT"}
  BY <1>1, InParse
<1>3. /\ RmWatch(wd) /\ UNCHANGED <<loc, failed, made, pc>>
      /\ UNCHANGED wmap \/ \E S : wmap' = Without(S)
      /\ buf' = Tail(buf)
  BY <1>0 DEF OnDeleteSelf, OnUnmount, envVars, fsVars, ctlVars, localVars, apiVars, scanVars
<1>4. wd \notin DOMAIN marks
  BY <1>0, <1>2, PartedUnwatched DEF Partings, Ends
<1>5. UNCHANGED <<marks, nextWd, kq>> /\ (lost => lost')
  <2>1. marks \in [DOMAIN marks -> Inodes]
    BY Typed DEF KernelInv, KernelTypeOK
  <2>2. DOMAIN marks \ {wd} = DOMAIN marks
    BY <1>4
  <2>3. marks' = marks
    BY <1>3, <2>1, <2>2 DEF RmWatch
  <2> QED BY <1>3, <1>4, <2>3 DEF RmWatch, SetQueue
<1>6. Waiting = buf /\ Waiting' = Tail(buf)
  BY <1>2, <1>3 DEF Waiting, InHandler, WatchStages
<1>7. KeepsHeard
  BY <1>2, <1>5, <1>6, PopKeepsHeard
<1> QED BY <1>2, <1>3, <1>5, <1>7, AloneComplete

(* The steps that leave the records as they are.                           *)
LEMMA StoppingComplete ==
  ASSUME IndInv, CompleteInv, OnUnknownWd \/ ParseDone
  PROVE  CompleteInv'
<1>1. /\ pc = "parse" /\ pc' \in {"aborted", "read"}
      /\ UNCHANGED <<loc, marks, nextWd, kq, lost, buf, wmap, failed, made>>
  BY DEF OnUnknownWd, ParseDone, Parsing, worldVars, envVars, fsVars, kernelVars,
         localVars, apiVars, scanVars
<1>2. Waiting' = Waiting
  BY <1>1 DEF Waiting, InHandler, WatchStages
<1> QED BY <1>1, <1>2, SameHeard, AloneComplete

(* The handlers that end.                                                  *)
LEMMA EndingComplete ==
  ASSUME IndInv, TreeInv, CompleteInv, Created \/ MovedIn
  PROVE  CompleteInv'
<1>1. ~(move.name # <<>> /\ move.dir)
  BY DEF TreeInv, MovesOK
<1>2. /\ pc \in {"created", "moved_in"} /\ pc' = "parse" /\ buf' = Tail(buf)
      /\ UNCHANGED <<loc, marks, nextWd, kq, lost, wmap, failed, made>>
  BY <1>1 DEF Created, MovedIn, LoopTail, worldVars, envVars, fsVars, kernelVars,
              apiVars, scanVars
<1>3. Waiting' = Waiting
  BY <1>2 DEF Waiting, InHandler, WatchStages
<1> QED BY <1>2, <1>3, SameHeard, AloneComplete

(* The handler of a file that was moved in.                                *)
LEMMA OnMovedToComplete ==
  ASSUME IndInv, TreeInv, CompleteInv, OnMovedTo
  PROVE  CompleteInv'
<1>1. ~Renames(Head(buf))
  BY DEF TreeInv, MovesOK, Renames
<1>2. /\ Named({"MOVED_TO"}) /\ caller' = "moved_in"
      /\ pc' \in {"add", "files", "moved_in"}
      /\ UNCHANGED <<loc, marks, nextWd, kq, lost, buf, wmap, failed, made>>
  BY <1>1 DEF OnMovedTo, worldVars, envVars, fsVars, kernelVars
<1>3. pc = "parse" /\ buf # <<>> /\ Head(buf).ev = "MOVED_TO"
  BY <1>2, NamedPath
<1>4. Waiting = buf /\ Waiting' = Tail(buf)
  BY <1>2, <1>3 DEF Waiting, InHandler, WatchStages
<1>5. KeepsHeard
  BY <1>2, <1>3, <1>4, PopKeepsHeard
<1> QED BY <1>2, <1>3, <1>5, AloneComplete

(* The handler of a creation walks the directory it is about.              *)
LEMMA OnCreateComplete ==
  ASSUME IndInv, TreeInv, CompleteInv, OnCreate
  PROVE  CompleteInv'
<1>1. /\ Named({"CREATE"}) /\ caller' = "created" /\ pc' \in {"add", "created"}
      /\ Recurses => pc' = "add" /\ enter' = Here \o Head(buf).name
      /\ UNCHANGED <<loc, marks, nextWd, kq, lost, buf, wmap, failed, made>>
  BY DEF OnCreate, worldVars, envVars, fsVars, kernelVars, apiVars
<1>2. pc = "parse" /\ buf # <<>> /\ Head(buf).wd \in DOMAIN wmap
  BY <1>1, NamedPath DEF Named, Mapped
<1>3. Waiting = buf /\ Waiting' = Tail(buf)
  BY <1>1, <1>2 DEF Waiting, InHandler, WatchStages
<1>4. KernelTypeOK /\ buf \in Seq(Events)
  BY Typed DEF KernelInv
<1>5. ASSUME NEW wd \in DOMAIN marks, NEW d \in Dirs, NEW n \in AllNames,
             Entry(wd, d, n), Creation(wd, n) \in Heard
      PROVE  Creation(wd, n) \in Heard' \/ Walked(marks[wd], d, n)'
  <2>1. CASE Creation(wd, n) \in Records(Tail(buf)) \cup Records(kq)
    BY <1>1, <1>3, <2>1 DEF Heard
  <2>2. CASE Creation(wd, n) = Head(buf)
    <3>1. Head(buf).wd = wd /\ Head(buf).name = n /\ Head(buf).dir = TRUE
      BY <2>2 DEF Creation, Event
    <3>2. marks[wd] \in Dirs /\ wmap[wd].rec
      BY <1>2, <1>5, <3>1 DEF Entry, CompleteInv, RecOK
    <3>3. Here = DirString(marks[wd])
      BY <1>2, <3>1, <3>2 DEF Here, TreeInv, MapOK, EntryOK, Placed
    <3>4. Here \o Head(buf).name = PathString(loc[d])
      BY <1>4, <1>5, <3>1, <3>3, EntryString
    <3>5. Recurses
      BY <3>1, <3>2 DEF Recurses
    <3> QED BY <1>1, <3>4, <3>5 DEF Walked
  <2> QED BY <1>2, <1>3, <1>4, <1>5, <2>1, <2>2, PopRecords DEF Heard
<1>6. Covered => Covered'
  <2>1. \A wd \in DOMAIN marks, d \in Dirs, n \in AllNames : ~Walked(marks[wd], d, n)
    BY <1>2, NoWalk
  <2>2. \A d \in Dirs : Marked(d) => Marked(d)'
    BY <1>1 DEF Marked
  <2> QED BY <1>1, <1>5, <2>1, <2>2, StillCovered
<1>7. RecOK' /\ MadeOK'
  BY <1>1, <1>2, MadeKeeps DEF CompleteInv, RecOK
<1> QED BY <1>1, <1>6, <1>7 DEF CompleteInv, Excused

LEMMA ParseStepsComplete ==
  ASSUME IndInv, TidyInv, TreeInv, CompleteInv, ParseSteps
  PROVE  CompleteInv'
<1>1. ~RenameEntry /\ ~RenameDone /\ ~PurgeEntry /\ ~PurgeDone
  BY DEF TreeInv, MovesOK, RenameEntry, RenameDone, PurgeEntry, PurgeDone, CompleteInv
<1> QED BY <1>1, HandledComplete, EndsComplete, StoppingComplete, EndingComplete,
           OnMovedToComplete, OnCreateComplete DEF ParseSteps


-----------------------------------------------------------------------------
LEMMA StutterComplete ==
  ASSUME CompleteInv, UNCHANGED vars
  PROVE  CompleteInv'
<1>1. UNCHANGED <<loc, marks, nextWd, kq, lost, buf, wmap, pc, caller, made, enter, stack,
                  failed>>
  BY DEF vars, fsVars, kernelVars, toolVars, ctlVars, localVars, apiVars, scanVars
<1>2. Heard' = Heard /\ UNCHANGED Excused
  BY <1>1 DEF Heard, Waiting, InHandler, WatchStages, Excused
<1>3. Covered => Covered'
  <2>1. \A wd \in DOMAIN marks' : wd \in DOMAIN marks /\ marks'[wd] = marks[wd]
    BY <1>1
  <2>2. \A d \in Dirs : Marked(d) => Marked(d)'
    BY <1>1 DEF Marked
  <2>3. \A wd \in DOMAIN marks, d \in Dirs, n \in AllNames :
          Walked(marks[wd], d, n) => Walked(marks[wd], d, n)'
    BY <1>1 DEF Walked, DirString
  <2> QED BY <1>1, <1>2, <2>1, <2>2, <2>3, StillCovered
<1> QED BY <1>1, <1>2, <1>3 DEF CompleteInv, RecOK, MadeOK

(* Nothing is watched at the start.                                        *)
THEOREM InitCompleteInv == Init => CompleteInv
<1> SUFFICES ASSUME Init PROVE CompleteInv
  OBVIOUS
<1>1. loc = InitLoc /\ marks = NoWatches /\ pc = "idle" /\ made = <<>>
  BY DEF Init, KernelInit
<1>2. DOMAIN marks = {} /\ DOMAIN made = {}
  BY <1>1 DEF NoWatches
<1> QED BY <1>1, <1>2, TreeAssumption DEF CompleteInv, RecOK, MadeOK, Covered

(* A step that renames no directory keeps CompleteInv, unless watchFiles   *)
(* takes a directory.                                                      *)
THEOREM NextCompleteInv ==
  IndInv /\ IndInv' /\ TidyInv /\ TreeInv /\ CompleteInv /\ ~PlainWatch /\ ~DirRenamed
    /\ [Next]_vars => CompleteInv'
<1> SUFFICES ASSUME IndInv, IndInv', TidyInv, TreeInv, CompleteInv, ~PlainWatch,
                    ~DirRenamed, [Next]_vars
             PROVE  CompleteInv'
  OBVIOUS
<1> QED
  BY OthersComplete, CallsComplete, WatchStepsComplete, ReadComplete,
     ParseStepsComplete, StutterComplete DEF Next, ToolStep

(* CompleteInv holds of every behaviour in which no directory is renamed   *)
(* or given to watchFiles and no record outlives its instance.             *)
THEOREM CompleteInvHolds ==
  Spec /\ [](~Relic /\ ~PlainWatch) /\ [][~DirRenamed]_vars => []CompleteInv
<1>1. Init => CompleteInv
  BY InitCompleteInv
<1>2. IndInv /\ IndInv' /\ TidyInv /\ TreeInv /\ CompleteInv /\ ~PlainWatch
        /\ [~DirRenamed]_vars /\ [Next]_vars => CompleteInv'
  BY NextCompleteInv, StutterComplete
<1>3. Spec => []IndInv
  BY IndInvHolds
<1>4. Spec /\ []~Relic => []TidyInv
  BY RecordsTidy
<1>5. Spec /\ [][~DirRenamed]_vars => []TreeInv
  BY TreeInvHolds
<1> QED BY <1>1, <1>2, <1>3, <1>4, <1>5, PTL DEF Spec

-----------------------------------------------------------------------------
(* What is covered is watched when nothing is under way.                   *)
LEMMA FrontLast ==
  ASSUME NEW S, NEW s \in Seq(S), s # <<>>
  PROVE  Last(s) \in S /\ s = Append(Front(s), Last(s))
<1>1. PICK t \in Seq(S), e \in S : s = Append(t, e)
  BY SequenceEmptyOrAppend
<1>2. Last(Append(t, e)) = e /\ Front(Append(t, e)) = t
  BY LastAppend
<1> QED BY <1>1, <1>2

LEMMA NothingHeard ==
  ASSUME IndInv, Quiet, NEW wd, NEW n \in AllNames
  PROVE  Creation(wd, n) \notin Heard
<1>1. pc = "idle" /\ kq = <<>> /\ Waiting = buf
  BY DEF Quiet, Waiting, InHandler, WatchStages
<1>2. buf = <<>> \/ (Len(buf) = 1 /\ buf[1].name = <<>>)
  BY <1>1 DEF IndInv, HeldBack, BetweenReads
<1>3. Len(<<>>) = 0 /\ 1..0 = {} /\ 1..1 = {1}
  OBVIOUS
<1>4. Creation(wd, n).name # <<>>
  BY InodesAssumption DEF Creation, Event
<1> QED BY <1>1, <1>2, <1>3, <1>4 DEF Heard, Records

LEMMA AllMarked ==
  ASSUME IndInv, CompleteInv, Quiet, ~Excused,
         NEW root \in Dirs, Marked(root), Live(root), NEW d \in Dirs, Below(d, root)
  PROVE  Marked(d)
<1> DEFINE Bad(k, c) == Below(c, root) /\ ~Marked(c) /\ Len(loc[c]) = k
           bad == {k \in Nat : \E c \in Dirs : Bad(k, c)}
<1>0. KernelTypeOK /\ IsTree(loc) /\ Covered
  BY Typed DEF KernelInv, CompleteInv
<1>1. ASSUME NEW wd \in DOMAIN marks, NEW c \in Dirs, NEW n \in AllNames, Entry(wd, c, n)
      PROVE  Marked(c)
  <2>1. ~Walked(marks[wd], c, n)
    BY NoWalk DEF Quiet
  <2> QED BY <1>0, <1>1, <2>1, NothingHeard DEF Covered
<1>2. bad = {}
  <2> SUFFICES ASSUME bad # {} PROVE FALSE
    OBVIOUS
  <2>1. PICK m \in bad : \A k \in bad : m <= k
    <3>1. bad \in SUBSET Nat
      OBVIOUS
    <3> HIDE DEF bad
    <3> QED BY <3>1, NatMin
  <2>2. PICK c \in Dirs : Bad(m, c)
    BY <2>1
  <2>3. /\ loc[c] \in Seq(AllNames) /\ Len(loc[c]) \in Nat /\ c \in Inodes
        /\ loc[root] \in Seq(AllNames) /\ Len(loc[root]) \in Nat /\ Len(loc[root]) > 0
        /\ root \in Inodes
    BY <1>0, PlaceFacts DEF Live, Gone, Inodes
  <2>4. loc[root] # loc[c]
    <3>1. root # c
      BY <2>2
    <3> QED BY <1>0, <2>3, <3>1 DEF IsTree, Live
  <2>5. Len(loc[root]) < Len(loc[c]) /\ IsPrefix(loc[root], Front(loc[c]))
    BY <2>2, <2>3, <2>4, PrefixOfFront DEF Below
  <2>6. PICK q \in Dirs : loc[q] = Front(loc[c])
    BY <1>0, <2>3, <2>5 DEF IsTree
  <2>7. /\ q \in Inodes /\ loc[c] # <<>> /\ loc[q] # <<>>
        /\ Len(loc[q]) \in Nat /\ Len(loc[q]) = Len(loc[c]) - 1
    <3>1. Len(loc[c]) > 1
      BY <2>3, <2>5
    <3> QED BY <1>0, <2>3, <2>6, <3>1, PlaceFacts DEF Inodes
  <2>8. Below(q, root)
    BY <2>5, <2>6, <2>7 DEF Below, Live, Gone
  <2>9. Len(loc[q]) \notin bad
    BY <2>1, <2>2, <2>3, <2>7
  <2>10. Marked(q)
    BY <2>7, <2>8, <2>9
  <2>11. PICK v \in DOMAIN marks : marks[v] = q
    BY <2>10 DEF Marked
  <2>12. Last(loc[c]) \in AllNames /\ loc[c] = Append(loc[q], Last(loc[c]))
    BY <2>3, <2>6, <2>7, FrontLast
  <2>13. Entry(v, c, Last(loc[c]))
    BY <2>11, <2>12 DEF Entry
  <2> QED BY <1>1, <2>2, <2>12, <2>13
<1>3. Len(loc[d]) \in Nat
  BY <1>0, PlaceFacts DEF Inodes
<1> QED BY <1>2, <1>3

LEMMA CompleteFollows ==
  IndInv /\ AbortInv /\ TreeInv /\ CompleteInv => Complete
<1> SUFFICES ASSUME IndInv, AbortInv, TreeInv, CompleteInv, Quiet, ~Excused,
                    NEW wd \in DOMAIN wmap, Watched(wd), wmap[wd].rec,
                    NEW d \in Dirs, Below(d, marks[wd])
             PROVE  \E v \in DOMAIN wmap : Watched(v) /\ marks[v] = d
  BY DEF Complete
<1>1. wd \in DOMAIN marks /\ marks[wd] \in Dirs /\ Live(marks[wd]) /\ Marked(marks[wd])
  BY Typed, LiveMark DEF Watched, TreeInv, MapOK, EntryOK, Placed, Marked
<1>2. PICK v \in DOMAIN marks : marks[v] = d
  BY <1>1, AllMarked DEF Marked
<1>3. found = <<>>
  BY DEF Quiet, IndInv, ControlOK
<1>4. DOMAIN found = {}
  BY <1>3
<1>5. v \in DOMAIN wmap
  BY <1>4 DEF Excused, AbortInv, MapsAll, Entries
<1> QED BY <1>2, <1>5 DEF Watched

(* When the tool has caught up, every directory below a recursive watch is *)
(* watched itself: whatever was created and removed while _watchRecursive  *)
(* walked the tree, none is missed, as long as no directory is renamed or  *)
(* given to watchFiles and nothing of Mishap happens.                      *)
THEOREM NothingMissed ==
  Spec => ([](~Mishap /\ ~PlainWatch) /\ [][~DirRenamed]_vars => []Complete)
<1>1. Spec => []IndInv
  BY IndInvHolds
<1>2. Spec /\ []~Mishap => []AbortInv
  BY AbortInvHolds
<1>3. Spec /\ [][~DirRenamed]_vars => []TreeInv
  BY TreeInvHolds
<1>4. ~Mishap => ~Relic
  BY DEF Mishap
<1> QED BY <1>1, <1>2, <1>3, <1>4, CompleteInvHolds, CompleteFollows, PTL

=============================================================================
