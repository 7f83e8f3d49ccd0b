------------------------- MODULE InotifyModifyProofs -------------------------
(***************************************************************************)
(* The reports of modified files.  A MODIFY record puts the path of a file *)
(* into m_fileModifySet, a CLOSE_WRITE record of a path that is there is   *)
(* reported as MODIFY_OVER and takes it out.  That this tells of every     *)
(* file that was modified, and of no other, is shown here from what the    *)
(* records that are still on their way stand for.                          *)
(***************************************************************************)
EXTENDS InotifyCompleteProofs

(* The records that m_fileModifySet depends on.                            *)
Edits   == {"MODIFY", "CLOSE_WRITE"}
Edit(r) == r.ev \in Edits /\ r.name # <<>>
Queue   == buf \o kq

(* The file f is the entry of name n in the directory that wd watches.     *)
Lies(wd, n, f) ==
  /\ wd \in DOMAIN marks /\ n \in AllNames /\ f \in Files
  /\ marks[wd] \in Dirs /\ loc[f] = Append(loc[marks[wd]], n)
Triples == Int \X AllNames \X Files
Lying   == {t \in Triples : Lies(t[1], t[2], t[3])}

(* Such a relation tells the file from descriptor and name, and them from  *)
(* the file.                                                               *)
Matched(L) ==
  \A wd, n, f, v, m, g : <<wd, n, f>> \in L /\ <<v, m, g>> \in L =>
    (f = g <=> wd = v /\ n = m)

(* A record of a queue is that of a file that is there, and a MODIFY is    *)
(* one of a file whose modification has not been reported.                 *)
FileRecords(q, L, D) ==
  \A k \in 1..Len(q) : Edit(q[k]) =>
    \E f \in Files : /\ <<q[k].wd, q[k].name, f>> \in L
                     /\ q[k].ev = "MODIFY" => f \in D

(* A MODIFY of f is on its way; a CLOSE_WRITE of f is, and no MODIFY       *)
(* behind it.                                                              *)
Again(s, r) == s.ev = "MODIFY" /\ s.wd = r.wd /\ s.name = r.name
Announced(q, f, L) ==
  \E k \in 1..Len(q) : q[k].ev = "MODIFY" /\ <<q[k].wd, q[k].name, f>> \in L
Closed(q, f, L) ==
  \E k \in 1..Len(q) :
    /\ q[k].ev = "CLOSE_WRITE" /\ <<q[k].wd, q[k].name, f>> \in L
    /\ \A j \in 1..Len(q) : j > k => ~Again(q[j], q[k])

(* What a report of the modified files D will come from: each lies in a    *)
(* watched directory, is recorded as modified (M) or going to be, and is   *)
(* open for writing (O) or its close is on its way.                        *)
Owed(q, L, D, M, O) ==
  \A f \in D : /\ \E wd, n : <<wd, n, f>> \in L
               /\ f \in M \/ Announced(q, f, L)
               /\ f \in O \/ Closed(q, f, L)

Recalled  == {f \in Files : Live(f) /\ PathString(loc[f]) \in modset}
OpenFiles == {f \in Files : \E w \in Writers : writing[w] = f}

(* The inductive invariants: the first two parts for NoPhantomModify, the  *)
(* first and the third for ModifyReported.                                 *)
EditsOK    == FileRecords(Queue, Lying, dirty)
Remembered ==
  \A p \in modset : \E f \in dirty : Live(f) /\ PathString(loc[f]) = p
OwedOK     == ~lost => Owed(Queue, Lying, dirty, Recalled, OpenFiles)

PhantomInv == EditsOK /\ Remembered
ModifyInv  == EditsOK /\ OwedOK

-----------------------------------------------------------------------------
(* Queues that differ in records that are no edits.                        *)
Plain(q, r) == Grows(q, r) /\ \A k \in 1..Len(r) : k > Len(q) => ~Edit(r[k])

LEMMA PlainRefl == ASSUME NEW q \in Seq(Events) PROVE Plain(q, q)
  BY GrowsRefl DEF Plain

LEMMA PlainTrans ==
  ASSUME NEW q \in Seq(Events), NEW r, NEW s, Plain(q, r), Plain(r, s)
  PROVE  Plain(q, s)
<1>1. Grows(q, s) /\ r \in Seq(Events) /\ s \in Seq(Events)
  BY GrowsTrans DEF Plain, Grows
<1>2. ASSUME NEW k \in 1..Len(s), k > Len(q) PROVE ~Edit(s[k])
  <2>1. CASE k > Len(r)
    BY <1>2, <2>1 DEF Plain
  <2>2. CASE k <= Len(r)
    BY <1>1, <1>2, <2>2 DEF Plain, Grows, Extends
  <2> QED BY <1>1, <2>1, <2>2
<1> QED BY <1>1, <1>2 DEF Plain

LEMMA PlainConcat ==
  ASSUME NEW b \in Seq(Events), NEW q \in Seq(Events), NEW r, Plain(q, r)
  PROVE  Plain(b \o q, b \o r)
<1>1. r \in Seq(Events) /\ Len(q) \in Nat /\ Len(r) \in Nat /\ Len(b) \in Nat
  BY DEF Plain, Grows
<1>2. /\ b \o q \in Seq(Events) /\ b \o r \in Seq(Events)
      /\ Len(b \o q) = Len(b) + Len(q) /\ Len(b \o r) = Len(b) + Len(r)
      /\ \A k \in 1..(Len(b) + Len(q)) :
           (b \o q)[k] = IF k <= Len(b) THEN b[k] ELSE q[k - Len(b)]
      /\ \A k \in 1..(Len(b) + Len(r)) :
           (b \o r)[k] = IF k <= Len(b) THEN b[k] ELSE r[k - Len(b)]
  BY <1>1, ConcatProperties
<1>3. Grows(b \o q, b \o r)
  BY <1>1, <1>2 DEF Plain, Grows, Extends
<1>4. ASSUME NEW k \in 1..Len(b \o r), k > Len(b \o q) PROVE ~Edit((b \o r)[k])
  BY <1>1, <1>2, <1>4 DEF Plain
<1> QED BY <1>3, <1>4 DEF Plain

LEMMA AppendPlain ==
  ASSUME NEW q \in Seq(Events), NEW e \in Events, ~Edit(e)
  PROVE  Plain(q, Append(q, e))
  BY DEF Plain, Grows, Extends

LEMMA OverflowPlain == OverflowEvent \in Events /\ ~Edit(OverflowEvent)
  BY OverflowType DEF OverflowEvent, Event, Edit

LEMMA EnqueuePlain ==
  ASSUME NEW q \in Seq(Events), NEW e \in Events, ~Edit(e)
  PROVE  Plain(q, Enqueue(q, e))
  BY PlainRefl, AppendPlain, OverflowPlain DEF Enqueue

LEMMA PostSelfPlain ==
  ASSUME KernelTypeOK, NEW q \in Seq(Events), NEW i, NEW ev \in EventKinds,
         NEW dir \in BOOLEAN
  PROVE  Plain(q, PostSelf(q, i, ev, dir))
<1>1. CASE \E wd \in DOMAIN marks : marks[wd] = i
  <2> DEFINE v == CHOOSE wd \in DOMAIN marks : marks[wd] = i
  <2>1. v \in Int
    BY <1>1 DEF KernelTypeOK
  <2>2. Event(v, ev, dir, 0, <<>>) \in Events /\ ~Edit(Event(v, ev, dir, 0, <<>>))
    BY <2>1, EventType DEF Edit, Event
  <2> QED BY <1>1, <2>2, EnqueuePlain DEF PostSelf
<1>2. CASE ~\E wd \in DOMAIN marks : marks[wd] = i
  BY <1>2, PlainRefl DEF PostSelf
<1> QED BY <1>1, <1>2

LEMMA PostAtPlain ==
  ASSUME KernelTypeOK, NEW q \in Seq(Events), NEW place, NEW ev \in EventKinds \ Edits,
         NEW dir \in BOOLEAN, NEW ck \in Nat, NEW name \in AllNames
  PROVE  Plain(q, PostAt(q, place, ev, dir, ck, name))
<1>1. CASE place # Gone /\ \E wd \in DOMAIN marks : loc[marks[wd]] = place
  <2> DEFINE v == CHOOSE wd \in DOMAIN marks : loc[marks[wd]] = place
  <2>1. v \in Int
    BY <1>1 DEF KernelTypeOK
  <2>2. Event(v, ev, dir, ck, name) \in Events /\ ~Edit(Event(v, ev, dir, ck, name))
    BY <2>1, EventType DEF Edit, Event
  <2> QED BY <1>1, <2>2, EnqueuePlain DEF PostAt
<1>2. CASE ~(place # Gone /\ \E wd \in DOMAIN marks : loc[marks[wd]] = place)
  BY <1>2, PlainRefl DEF PostAt
<1> QED BY <1>1, <1>2

LEMMA PostChildPlain ==
  ASSUME KernelTypeOK, NEW q \in Seq(Events), NEW i \in Inodes, There(i),
         NEW ev \in EventKinds \ Edits
  PROVE  Plain(q, PostChild(q, i, ev))
<1> DEFINE r == PostAt(q, Folder(i), ev, i \in Dirs, 0, EntryName(i))
<1>1. (i \in Dirs) \in BOOLEAN /\ 0 \in Nat /\ EntryName(i) \in AllNames
  BY EntryNameType
<1>2. Plain(q, r)
  <2> HIDE DEF r
  <2> QED BY <1>1, PostAtPlain DEF r
<1>3. Plain(r, PostSelf(r, i, ev, i \in Dirs))
  <2>1. r \in Seq(Events)
    BY <1>2 DEF Plain, Grows
  <2> HIDE DEF r
  <2> QED BY <1>1, <2>1, PostSelfPlain
<1>4. PostChild(q, i, ev) = PostSelf(r, i, ev, i \in Dirs)
  BY DEF PostChild
<1> QED BY <1>2, <1>3, <1>4, PlainTrans

LEMMA PostGonePlain ==
  ASSUME KernelTypeOK, NEW q \in Seq(Events), NEW i, NEW ev \in EventKinds
  PROVE  Plain(q, PostGone(q, i, ev))
<1> DEFINE r == PostSelf(q, i, ev, FALSE)
<1>1. Plain(q, r) /\ r \in Seq(Events)
  BY PostSelfPlain DEF Plain, Grows
<1>2. "IGNORED" \in EventKinds /\ FALSE \in BOOLEAN
  BY DEF EventKinds
<1>3. Plain(r, PostSelf(r, i, "IGNORED", FALSE))
  <2> HIDE DEF r
  <2> QED BY <1>1, <1>2, PostSelfPlain
<1>4. PostGone(q, i, ev) = PostSelf(r, i, "IGNORED", FALSE)
  BY DEF PostGone
<1> QED BY <1>1, <1>3, <1>4, PlainTrans

-----------------------------------------------------------------------------
(* What is known of the records when the queue or the files change.        *)
LEMMA PlainRecords ==
  ASSUME NEW q \in Seq(Events), NEW r, Plain(q, r), NEW L, NEW K, L \subseteq K,
         NEW D, FileRecords(q, L, D)
  PROVE  FileRecords(r, K, D)
<1>1. /\ r \in Seq(Events) /\ Len(q) \in Nat /\ Len(r) \in Nat
      /\ \A k \in 1..Len(r) : Edit(r[k]) => k \in 1..Len(q) /\ r[k] = q[k]
  BY DEF Plain, Grows, Extends
<1> QED BY <1>1 DEF FileRecords

LEMMA PlainOwed ==
  ASSUME NEW q \in Seq(Events), NEW r, Plain(q, r),
         NEW L \in SUBSET Triples, NEW K, L \subseteq K, NEW D,
         NEW M, NEW N, M \cap D \subseteq N, NEW O, NEW P, O \cap D \subseteq P,
         Owed(q, L, D, M, O)
  PROVE  Owed(r, K, D, N, P)
<1>1. /\ r \in Seq(Events) /\ Len(q) \in Nat /\ Len(r) \in Nat /\ Len(q) <= Len(r)
      /\ \A k \in 1..Len(r) : Edit(r[k]) => k \in 1..Len(q) /\ r[k] = q[k]
      /\ \A k \in 1..Len(q) : k \in 1..Len(r) /\ r[k] = q[k]
  BY DEF Plain, Grows, Extends
<1>2. ASSUME NEW f, Announced(q, f, L) PROVE Announced(r, f, K)
  BY <1>1, <1>2 DEF Announced
<1>3. ASSUME NEW f, Closed(q, f, L) PROVE Closed(r, f, K)
  <2>1. PICK k \in 1..Len(q) :
          /\ q[k].ev = "CLOSE_WRITE" /\ <<q[k].wd, q[k].name, f>> \in L
          /\ \A j \in 1..Len(q) : j > k => ~Again(q[j], q[k])
    BY <1>3 DEF Closed
  <2>2. k \in 1..Len(r) /\ r[k] = q[k] /\ q[k].name # <<>>
    BY <1>1, <2>1, NamesAreTokens DEF Triples
  <2>3. ASSUME NEW j \in 1..Len(r), j > k, Again(r[j], r[k]) PROVE FALSE
    <3>1. Edit(r[j])
      BY <2>2, <2>3 DEF Again, Edit, Edits
    <3> QED BY <1>1, <2>1, <2>2, <2>3, <3>1
  <2> QED BY <2>1, <2>2, <2>3 DEF Closed
<1> QED BY <1>2, <1>3 DEF Owed

-----------------------------------------------------------------------------
(* The oldest record is handled.                                           *)
LEMMA QueuePop ==
  ASSUME NEW q \in Seq(Events), q # <<>>
  PROVE  /\ Tail(q) \in Seq(Events) /\ Head(q) \in Events
         /\ \A k \in 1..Len(Tail(q)) : k + 1 \in 1..Len(q) /\ q[k + 1] = Tail(q)[k]
         /\ \A k \in 1..Len(q) :
              \/ k = 1 /\ q[k] = Head(q)
              \/ k - 1 \in 1..Len(Tail(q)) /\ Tail(q)[k - 1] = q[k]
  BY HeadTailProperties

LEMMA TailRecords ==
  ASSUME NEW q \in Seq(Events), q # <<>>, NEW L, NEW D, FileRecords(q, L, D), NEW C,
         \A f \in D \ C : ~Announced(Tail(q), f, L)
  PROVE  FileRecords(Tail(q), L, C)
<1> SUFFICES ASSUME NEW k \in 1..Len(Tail(q)), Edit(Tail(q)[k])
             PROVE  \E f \in Files : /\ <<Tail(q)[k].wd, Tail(q)[k].name, f>> \in L
                                     /\ Tail(q)[k].ev = "MODIFY" => f \in C
  BY DEF FileRecords
<1>1. k + 1 \in 1..Len(q) /\ q[k + 1] = Tail(q)[k]
  BY QueuePop
<1>2. PICK f \in Files : /\ <<Tail(q)[k].wd, Tail(q)[k].name, f>> \in L
                         /\ Tail(q)[k].ev = "MODIFY" => f \in D
  BY <1>1 DEF FileRecords
<1>3. Tail(q)[k].ev = "MODIFY" => f \in C
  BY <1>2 DEF Announced
<1> QED BY <1>2, <1>3

LEMMA TailAnnounced ==
  ASSUME NEW q \in Seq(Events), q # <<>>, NEW L, NEW f, Announced(q, f, L),
         ~(Head(q).ev = "MODIFY" /\ <<Head(q).wd, Head(q).name, f>> \in L)
  PROVE  Announced(Tail(q), f, L)
<1>1. PICK k \in 1..Len(q) : q[k].ev = "MODIFY" /\ <<q[k].wd, q[k].name, f>> \in L
  BY DEF Announced
<1>2. ~(k = 1 /\ q[k] = Head(q))
  BY <1>1
<1>3. k - 1 \in 1..Len(Tail(q)) /\ Tail(q)[k - 1] = q[k]
  BY <1>2, QueuePop
<1> QED BY <1>1, <1>3 DEF Announced

LEMMA TailClosed ==
  ASSUME NEW q \in Seq(Events), q # <<>>, NEW L, NEW f, Closed(q, f, L),
         \/ ~(Head(q).ev = "CLOSE_WRITE" /\ <<Head(q).wd, Head(q).name, f>> \in L)
         \/ \E j \in 1..Len(Tail(q)) : Again(Tail(q)[j], Head(q))
  PROVE  Closed(Tail(q), f, L)
<1>1. PICK k \in 1..Len(q) :
        /\ q[k].ev = "CLOSE_WRITE" /\ <<q[k].wd, q[k].name, f>> \in L
        /\ \A j \in 1..Len(q) : j > k => ~Again(q[j], q[k])
  BY DEF Closed
<1>2. k # 1
  <2> SUFFICES ASSUME k = 1 PROVE FALSE
    OBVIOUS
  <2>1. q[k] = Head(q)
    BY HeadTailProperties
  <2>2. PICK j \in 1..Len(Tail(q)) : Again(Tail(q)[j], Head(q))
    BY <1>1, <2>1
  <2>3. j + 1 \in 1..Len(q) /\ j + 1 > k /\ q[j + 1] = Tail(q)[j]
    BY <2>2, QueuePop
  <2> QED BY <1>1, <2>1, <2>2, <2>3
<1>3. k - 1 \in 1..Len(Tail(q)) /\ Tail(q)[k - 1] = q[k]
  BY <1>2, QueuePop
<1>4. ASSUME NEW j \in 1..Len(Tail(q)), j > k - 1 PROVE ~Again(Tail(q)[j], q[k])
  <2>1. j + 1 \in 1..Len(q) /\ j + 1 > k /\ q[j + 1] = Tail(q)[j]
    BY <1>3, <1>4, QueuePop
  <2> QED BY <1>1, <2>1
<1> QED BY <1>1, <1>3, <1>4 DEF Closed

LEMMA DropOwed ==
  ASSUME NEW q \in Seq(Events), q # <<>>, ~Edit(Head(q)), NEW L \in SUBSET Triples,
         NEW D, NEW M, NEW O, Owed(q, L, D, M, O)
  PROVE  Owed(Tail(q), L, D, M, O)
<1>1. \A f : Head(q).ev \in Edits => <<Head(q).wd, Head(q).name, f>> \notin L
  BY NamesAreTokens DEF Triples, Edit
<1>2. ASSUME NEW f, Announced(q, f, L) PROVE Announced(Tail(q), f, L)
  <2>1. ~(Head(q).ev = "MODIFY" /\ <<Head(q).wd, Head(q).name, f>> \in L)
    BY <1>1 DEF Edits
  <2> QED BY <1>2, <2>1, TailAnnounced
<1>3. ASSUME NEW f, Closed(q, f, L) PROVE Closed(Tail(q), f, L)
  <2>1. ~(Head(q).ev = "CLOSE_WRITE" /\ <<Head(q).wd, Head(q).name, f>> \in L)
    BY <1>1 DEF Edits
  <2> QED BY <1>3, <2>1, TailClosed
<1> QED BY <1>2, <1>3 DEF Owed

LEMMA ModifyOwed ==
  ASSUME NEW q \in Seq(Events), q # <<>>, Head(q).ev = "MODIFY", NEW L,
         NEW D, NEW M, NEW O, Owed(q, L, D, M, O), NEW N, M \cap D \subseteq N,
         \A f \in D : <<Head(q).wd, Head(q).name, f>> \in L => f \in N
  PROVE  Owed(Tail(q), L, D, N, O)
<1>1. \A f \in D : Announced(q, f, L) => f \in N \/ Announced(Tail(q), f, L)
  BY TailAnnounced
<1>2. \A f : Closed(q, f, L) => Closed(Tail(q), f, L)
  BY TailClosed
<1> QED BY <1>1, <1>2 DEF Owed

LEMMA CloseOwed ==
  ASSUME NEW q \in Seq(Events), q # <<>>, Head(q).ev = "CLOSE_WRITE",
         NEW L, Matched(L), NEW g, <<Head(q).wd, Head(q).name, g>> \in L,
         NEW D, NEW M, NEW O, Owed(q, L, D, M, O),
         NEW C, C \subseteq D, NEW N, (M \cap C) \ {g} \subseteq N,
         g \in C => \E j \in 1..Len(Tail(q)) : Again(Tail(q)[j], Head(q))
  PROVE  Owed(Tail(q), L, C, N, O)
<1>1. \A f : Announced(q, f, L) => Announced(Tail(q), f, L)
  BY TailAnnounced
<1>2. g \in C => Announced(Tail(q), g, L)
  BY DEF Announced, Again
<1>3. ASSUME NEW f \in C, Closed(q, f, L) PROVE Closed(Tail(q), f, L)
  <2>1. CASE f = g
    BY <1>3, <2>1, TailClosed
  <2>2. CASE f # g
    BY <1>3, <2>2, TailClosed DEF Matched
  <2> QED BY <2>1, <2>2
<1> QED BY <1>1, <1>2, <1>3 DEF Owed

-----------------------------------------------------------------------------
(* A record is queued: it is appended, or it is the newest one already.    *)
Puts(q, r, e) == (q # <<>> /\ q[Len(q)] = e /\ r = q) \/ r = Append(q, e)

LEMMA PutsLast ==
  ASSUME NEW q \in Seq(Events), NEW e \in Events, NEW r, Puts(q, r, e)
  PROVE  /\ r \in Seq(Events) /\ Len(r) \in 1..Len(r) /\ r[Len(r)] = e
         /\ Len(q) <= Len(r) /\ Len(q) \in Nat /\ Len(r) \in Nat
         /\ \A k \in 1..Len(q) : k \in 1..Len(r) /\ r[k] = q[k]
         /\ \A k \in 1..Len(r) : k \in 1..Len(q) \/ k = Len(r)
<1>1. CASE q # <<>> /\ q[Len(q)] = e /\ r = q
  BY <1>1, EmptySeq
<1>2. CASE r = Append(q, e)
  BY <1>2, AppendProperties
<1> QED BY <1>1, <1>2 DEF Puts

LEMMA PutsRecords ==
  ASSUME NEW q \in Seq(Events), NEW e \in Events, NEW r, Puts(q, r, e),
         NEW L, NEW D, FileRecords(q, L, D), NEW C, D \subseteq C,
         NEW f \in Files, <<e.wd, e.name, f>> \in L, e.ev = "MODIFY" => f \in C
  PROVE  FileRecords(r, L, C)
<1>1. ASSUME NEW k \in 1..Len(r), Edit(r[k])
      PROVE  \E h \in Files : /\ <<r[k].wd, r[k].name, h>> \in L
                              /\ r[k].ev = "MODIFY" => h \in C
  <2>1. CASE k \in 1..Len(q)
    <3>1. r[k] = q[k]
      BY <2>1, PutsLast
    <3> QED BY <1>1, <2>1, <3>1 DEF FileRecords
  <2>2. CASE k = Len(r)
    BY <2>2, PutsLast
  <2> QED BY <2>1, <2>2, PutsLast
<1> QED BY <1>1 DEF FileRecords

LEMMA PutsAnnounced ==
  ASSUME NEW q \in Seq(Events), NEW e \in Events, NEW r, Puts(q, r, e), NEW L,
         NEW h, Announced(q, h, L)
  PROVE  Announced(r, h, L)
<1>1. PICK k \in 1..Len(q) : q[k].ev = "MODIFY" /\ <<q[k].wd, q[k].name, h>> \in L
  BY DEF Announced
<1>2. k \in 1..Len(r) /\ r[k] = q[k]
  BY PutsLast
<1> QED BY <1>1, <1>2 DEF Announced

LEMMA PutsClosed ==
  ASSUME NEW q \in Seq(Events), NEW e \in Events, NEW r, Puts(q, r, e), NEW L,
         NEW h, Closed(q, h, L), ~(e.ev = "MODIFY" /\ <<e.wd, e.name, h>> \in L)
  PROVE  Closed(r, h, L)
<1>1. PICK k \in 1..Len(q) :
        /\ q[k].ev = "CLOSE_WRITE" /\ <<q[k].wd, q[k].name, h>> \in L
        /\ \A j \in 1..Len(q) : j > k => ~Again(q[j], q[k])
  BY DEF Closed
<1>2. k \in 1..Len(r) /\ r[k] = q[k]
  BY PutsLast
<1>3. ASSUME NEW j \in 1..Len(r), j > k PROVE ~Again(r[j], r[k])
  <2>1. CASE j \in 1..Len(q)
    <3>1. r[j] = q[j]
      BY <2>1, PutsLast
    <3> QED BY <1>1, <1>2, <1>3, <2>1, <3>1
  <2>2. CASE r[j] = e
    BY <1>1, <1>2, <2>2 DEF Again
  <2> QED BY <2>1, <2>2, PutsLast
<1> QED BY <1>1, <1>2, <1>3 DEF Closed

(* The modification of an open file that lies in a watched directory.      *)
LEMMA PutsModify ==
  ASSUME NEW q \in Seq(Events), NEW e \in Events, NEW r, Puts(q, r, e),
         NEW L, Matched(L), NEW f, <<e.wd, e.name, f>> \in L, e.ev = "MODIFY",
         NEW D, NEW M, NEW O, Owed(q, L, D, M, O), f \in O
  PROVE  Owed(r, L, D \cup {f}, M, O)
<1>1. Announced(r, f, L)
  <2>1. Len(r) \in 1..Len(r) /\ r[Len(r)] = e
    BY PutsLast
  <2> QED BY <2>1 DEF Announced
<1>2. ASSUME NEW h \in D, h # f, Closed(q, h, L) PROVE Closed(r, h, L)
  <2>1. <<e.wd, e.name, h>> \notin L
    BY <1>2 DEF Matched
  <2> QED BY <1>2, <2>1, PutsClosed
<1>3. \A h : Announced(q, h, L) => Announced(r, h, L)
  BY PutsAnnounced
<1> QED BY <1>1, <1>2, <1>3 DEF Owed

(* A file is closed: O may lose it.                                        *)
LEMMA PutsClose ==
  ASSUME NEW q \in Seq(Events), NEW e \in Events, NEW r, Puts(q, r, e),
         NEW L, NEW f, <<e.wd, e.name, f>> \in L, e.ev = "CLOSE_WRITE",
         NEW D, NEW M, NEW O, Owed(q, L, D, M, O), NEW P, O \subseteq P \cup {f}
  PROVE  Owed(r, L, D, M, P)
<1>1. Closed(r, f, L)
  <2>1. Len(r) \in 1..Len(r) /\ r[Len(r)] = e /\ Len(r) \in Nat
    BY PutsLast
  <2> QED BY <2>1 DEF Closed
<1>2. \A h : Announced(q, h, L) => Announced(r, h, L)
  BY PutsAnnounced
<1>3. \A h : Closed(q, h, L) => Closed(r, h, L)
  BY PutsClosed
<1> QED BY <1>1, <1>2, <1>3 DEF Owed

-----------------------------------------------------------------------------
(* Where the files lie.                                                    *)
LEMMA LyingIs ==
  ASSUME KernelTypeOK
  PROVE  /\ Lying \in SUBSET Triples
         /\ \A wd, n, f : <<wd, n, f>> \in Lying <=> Lies(wd, n, f)
<1>1. ASSUME NEW wd, NEW n, NEW f PROVE <<wd, n, f>> \in Lying <=> Lies(wd, n, f)
  <2>1. Lies(wd, n, f) => <<wd, n, f>> \in Triples
    BY DEF Lies, Triples, KernelTypeOK
  <2> QED BY <2>1 DEF Lying
<1> QED BY <1>1 DEF Lying

LEMMA LiesPlace ==
  ASSUME KernelTypeOK, NEW wd, NEW n, NEW f, Lies(wd, n, f)
  PROVE  /\ f \in Files /\ f \in Inodes /\ Live(f) /\ marks[wd] \in Inodes
         /\ wd \in DOMAIN marks /\ n \in AllNames /\ loc[marks[wd]] \in Seq(AllNames)
         /\ loc[f] = Append(loc[marks[wd]], n)
         /\ Last(loc[f]) = n /\ Front(loc[f]) = loc[marks[wd]]
         /\ DirString(marks[wd]) \o n = PathString(loc[f])
<1>1. /\ wd \in DOMAIN marks /\ n \in AllNames /\ f \in Files /\ f \in Inodes
      /\ marks[wd] \in Inodes /\ loc[f] = Append(loc[marks[wd]], n)
  BY DEF Lies, Inodes
<1>2. loc[marks[wd]] \in Seq(AllNames)
  BY <1>1 DEF KernelTypeOK
<1>3. loc[f] # <<>> /\ Last(loc[f]) = n /\ Front(loc[f]) = loc[marks[wd]]
  BY <1>1, <1>2, LastAppend
<1>4. loc[marks[wd]] \in Seq(Word) /\ n \in Word
  BY <1>1, <1>2, NamesAreTokens
<1>5. DirString(marks[wd]) \o n = PathString(loc[f])
  BY <1>1, <1>4, NameBehindSlash DEF DirString
<1> QED BY <1>1, <1>2, <1>3, <1>5 DEF Live, Gone

LEMMA LyingMatched ==
  ASSUME KernelInv, MarksLive, IsTree(loc)
  PROVE  Matched(Lying)
<1> USE DEF KernelInv
<1> SUFFICES ASSUME NEW wd, NEW n, NEW f, NEW v, NEW m, NEW g,
                    Lies(wd, n, f), Lies(v, m, g)
             PROVE  f = g <=> wd = v /\ n = m
  BY LyingIs DEF Matched
<1>1. ASSUME f = g PROVE wd = v /\ n = m
  <2>1. n = m /\ loc[marks[wd]] = loc[marks[v]]
    BY <1>1, LiesPlace
  <2>2. marks[wd] = marks[v]
    <3>1. Live(marks[wd])
      BY LiesPlace, LiveMark DEF Lies
    <3> QED BY <2>1, <3>1, LiesPlace DEF IsTree, Live
  <2> QED BY <2>1, <2>2, LiesPlace DEF MarksUnique
<1>2. ASSUME wd = v, n = m PROVE f = g
  <2>1. loc[f] = loc[g]
    BY <1>2 DEF Lies
  <2> QED BY <2>1, LiesPlace DEF IsTree, Live
<1> QED BY <1>1, <1>2

LEMMA OnePath ==
  ASSUME KernelTypeOK, IsTree(loc), NEW f \in Inodes, NEW g \in Inodes, Live(f),
         PathString(loc[f]) = PathString(loc[g])
  PROVE  f = g
<1>1. loc[f] \in Seq(Word) /\ loc[g] \in Seq(Word)
  BY NamesAreTokens DEF KernelTypeOK
<1>2. loc[f] = loc[g]
  BY <1>1, PathStringInjective
<1> QED BY <1>2 DEF IsTree, Live

(* What is watched at the place of the parent is the parent.               *)
LEMMA ParentLies ==
  ASSUME KernelTypeOK, IsTree(loc), NEW f \in Files, Live(f),
         NEW v \in DOMAIN marks, loc[marks[v]] = Front(loc[f]), loc[marks[v]] # Gone
  PROVE  Lies(v, Last(loc[f]), f)
<1>1. f \in Inodes /\ marks[v] \in Inodes
  BY DEF Inodes, KernelTypeOK
<1>2. loc[f] \in Seq(AllNames) /\ loc[f] # <<>> /\ loc[marks[v]] # <<>>
  BY <1>1 DEF KernelTypeOK, Live, Gone
<1>3. Last(loc[f]) \in AllNames /\ loc[f] = Append(Front(loc[f]), Last(loc[f]))
  BY <1>2, FrontLast
<1>4. Len(loc[f]) > 1
  <2>1. Len(loc[f]) = Len(loc[marks[v]]) + 1
    BY <1>1, <1>3, AppendProperties DEF KernelTypeOK
  <2>2. Len(loc[marks[v]]) > 0
    BY <1>1, <1>2, PlaceFacts
  <2>3. Len(loc[marks[v]]) \in Nat
    BY <1>1, PlaceFacts
  <2> QED BY <2>1, <2>2, <2>3
<1>5. PICK p \in Dirs : loc[p] = Front(loc[f])
  BY <1>1, <1>4 DEF IsTree
<1>6. p = marks[v]
  BY <1>1, <1>2, <1>5 DEF IsTree, Inodes, Gone
<1> QED BY <1>3, <1>5, <1>6 DEF Lies

-----------------------------------------------------------------------------
(* What a step may do to the three parts.  The modified files of an        *)
(* instance that is closed must not be left; a file must not be watched    *)
(* without its directory, nor truncated without a close to come.           *)
KeepsEdits ==
  EditsOK =>
    /\ EditsOK'
    /\ ~Stale /\ ~Stale' /\ Remembered => Remembered'
    /\ ~Lone /\ ~Truncated /\ OwedOK => OwedOK'

FilesStay == \A f \in Files : Live(f) => loc'[f] = loc[f]
LyingOn   == \A wd, n, f : Lies(wd, n, f) => Lies(wd, n, f)'

LEMMA EditTypes ==
  ASSUME IndInv
  PROVE  /\ KernelTypeOK /\ KernelInv /\ MarksUnique
         /\ buf \in Seq(Events) /\ kq \in Seq(Events) /\ Queue \in Seq(Events)
         /\ Lying \in SUBSET Triples /\ dirty \subseteq Files
<1>1. /\ KernelTypeOK /\ KernelInv /\ MarksUnique
      /\ buf \in Seq(Events) /\ kq \in Seq(Events) /\ dirty \subseteq Files
  BY Typed DEF KernelInv, KernelTypeOK
<1>2. Queue \in Seq(Events)
  BY <1>1, ConcatProperties DEF Queue
<1> QED BY <1>1, <1>2, LyingIs

LEMMA LyingGrows ==
  ASSUME IndInv, IndInv', LyingOn
  PROVE  Lying \subseteq Lying'
<1>1. ASSUME NEW t \in Lying PROVE t \in Lying'
  <2>1. PICK wd \in Int, n \in AllNames, f \in Files : t = <<wd, n, f>>
    BY DEF Lying, Triples
  <2>2. Lies(wd, n, f)
    BY <2>1, EditTypes, LyingIs
  <2>3. Lies(wd, n, f)'
    BY <2>2 DEF LyingOn
  <2>4. <<wd, n, f>> \in Triples
    BY DEF Triples
  <2>5. <<wd, n, f>> \in Lying'
    BY <2>3, <2>4 DEF Lying
  <2> QED BY <2>1, <2>5
<1> QED BY <1>1

LEMMA RecalledOn ==
  ASSUME IndInv, FilesStay, UNCHANGED modset
  PROVE  Recalled \subseteq Recalled'
  BY DEF Recalled, FilesStay, Live, Gone

LEMMA RememberedOn ==
  ASSUME IndInv, FilesStay, UNCHANGED modset, dirty \subseteq dirty', Remembered
  PROVE  Remembered'
<1>1. ASSUME NEW p \in modset'
      PROVE  \E f \in dirty' : Live(f)' /\ PathString(loc'[f]) = p
  <2>1. PICK f \in dirty : Live(f) /\ PathString(loc[f]) = p
    BY <1>1 DEF Remembered
  <2>2. loc'[f] = loc[f]
    BY <2>1, EditTypes DEF FilesStay
  <2> QED BY <2>1, <2>2 DEF Live, Gone
<1> QED BY <1>1 DEF Remembered

LEMMA QuietEdits ==
  ASSUME IndInv, IndInv', Plain(Queue, Queue'), LyingOn, FilesStay,
         UNCHANGED <<dirty, modset>>, lost => lost', OpenFiles \subseteq OpenFiles'
  PROVE  KeepsEdits
<1>1. Queue \in Seq(Events) /\ Lying \in SUBSET Triples /\ Lying \subseteq Lying'
      /\ Recalled \subseteq Recalled'
  BY EditTypes, LyingGrows, RecalledOn
<1>2. ASSUME EditsOK PROVE EditsOK'
  <2>1. FileRecords(Queue', Lying', dirty)
    BY <1>1, <1>2, PlainRecords DEF EditsOK
  <2> QED BY <2>1 DEF EditsOK
<1>3. ASSUME OwedOK, ~lost' PROVE Owed(Queue', Lying', dirty', Recalled', OpenFiles')
  <2>1. Owed(Queue, Lying, dirty, Recalled, OpenFiles)
    BY <1>3 DEF OwedOK
  <2>2. Recalled \cap dirty \subseteq Recalled' /\ OpenFiles \cap dirty \subseteq OpenFiles'
    BY <1>1
  <2>3. Owed(Queue', Lying', dirty, Recalled', OpenFiles')
    BY <1>1, <2>1, <2>2, PlainOwed
  <2> QED BY <2>3
<1>4. Remembered => Remembered'
  BY RememberedOn
<1> QED BY <1>2, <1>3, <1>4 DEF KeepsEdits, OwedOK

-----------------------------------------------------------------------------
(* The steps of the tool that handle no edit.                              *)
LEMMA SameQueueEdits ==
  ASSUME IndInv, UNCHANGED <<buf, kq>>
  PROVE  Plain(Queue, Queue')
  BY EditTypes, PlainRefl DEF Queue

LEMMA ToolQuiet ==
  ASSUME IndInv, IndInv', Plain(Queue, Queue'), UNCHANGED <<envVars, modset>>,
         lost => lost',
         \A wd \in DOMAIN marks :
           marks[wd] \in Dirs => wd \in DOMAIN marks' /\ marks'[wd] = marks[wd]
  PROVE  KeepsEdits
<1>1. UNCHANGED <<loc, writing, dirty, modset>>
  BY DEF envVars, fsVars
<1>2. LyingOn
  BY <1>1 DEF LyingOn, Lies
<1>3. FilesStay /\ OpenFiles \subseteq OpenFiles'
  BY <1>1 DEF FilesStay, OpenFiles
<1> QED BY <1>1, <1>2, <1>3, QuietEdits

LEMMA StillEdits ==
  ASSUME IndInv, IndInv', UNCHANGED <<envVars, kernelVars, buf, modset>>
  PROVE  KeepsEdits
<1>1. UNCHANGED <<marks, kq, lost>>
  BY DEF kernelVars
<1> QED BY <1>1, SameQueueEdits, ToolQuiet

LEMMA DropsEdits ==
  ASSUME IndInv, IndInv', buf # <<>>, buf' = Tail(buf), ~Edit(Head(buf)),
         UNCHANGED <<envVars, marks, kq, modset>>, lost => lost'
  PROVE  KeepsEdits
<1>1. Queue \in Seq(Events) /\ Lying \in SUBSET Triples
  BY EditTypes
<1>2. Queue # <<>> /\ Head(Queue) = Head(buf) /\ Queue' = Tail(Queue)
  BY EditTypes, ConcatHead DEF Queue
<1>3. UNCHANGED <<Lying, dirty, modset, Recalled, OpenFiles>> /\ FilesStay
  BY DEF envVars, fsVars, Lying, Lies, Recalled, OpenFiles, Live, FilesStay
<1>4. ASSUME EditsOK PROVE EditsOK'
  <2>1. FileRecords(Tail(Queue), Lying, dirty)
    BY <1>1, <1>2, <1>4, TailRecords DEF EditsOK
  <2> QED BY <1>2, <1>3, <2>1 DEF EditsOK
<1>5. ASSUME OwedOK, ~lost' PROVE Owed(Queue', Lying', dirty', Recalled', OpenFiles')
  <2>1. Owed(Tail(Queue), Lying, dirty, Recalled, OpenFiles)
    BY <1>1, <1>2, <1>5, DropOwed DEF OwedOK
  <2> QED BY <1>2, <1>3, <2>1
<1>6. Remembered => Remembered'
  BY <1>3, RememberedOn
<1> QED BY <1>4, <1>5, <1>6 DEF KeepsEdits, OwedOK

(* A new instance: its queue is empty, and what is left in the buffer has  *)
(* no name.                                                                *)
LEMMA NewInstanceEdits ==
  ASSUME IndInv, IndInv', NewInstance, pc = "idle", UNCHANGED <<buf, modset>>,
         ~fd \/ ~fd'
  PROVE  KeepsEdits
<1>1. dirty' = {} /\ Queue' = buf
  BY EditTypes, ConcatProperties, ConcatEmptySeq DEF NewInstance, Queue
<1>2. buf = <<>> \/ (Len(buf) = 1 /\ buf[1].name = <<>>)
  BY DEF IndInv, HeldBack, BetweenReads
<1>3. \A L, D : FileRecords(buf, L, D)
  BY <1>2 DEF FileRecords, Edit
<1>4. EditsOK'
  BY <1>1, <1>3 DEF EditsOK
<1>5. ASSUME ~Stale, ~Stale' PROVE Remembered'
  <2>1. modset' = {}
    BY <1>5 DEF Stale
  <2> QED BY <2>1 DEF Remembered
<1>6. OwedOK'
  BY <1>1 DEF OwedOK, Owed
<1> QED BY <1>4, <1>5, <1>6 DEF KeepsEdits

LEMMA CallsEdits ==
  ASSUME IndInv, IndInv', Calls
  PROVE  KeepsEdits
<1>1. CASE createInotify
  <2>1. pc = "idle" /\ UNCHANGED <<fsVars, buf, modset>>
    BY <1>1 DEF createInotify
  <2>2. CASE ~fd /\ NewInstance
    BY <2>1, <2>2, NewInstanceEdits
  <2>3. CASE UNCHANGED <<kernelVars, dirty>>
    BY <2>1, <2>3, StillEdits DEF envVars
  <2> QED BY <1>1, <2>2, <2>3 DEF createInotify
<1>2. CASE destroyInotify
  BY <1>2, NewInstanceEdits DEF destroyInotify
<1>3. ASSUME NEW paths, NEW ev, NEW ok, NEW stage, WatchCall(paths, ev, ok, stage)
      PROVE  KeepsEdits
  BY <1>3, StillEdits DEF WatchCall
<1>4. ASSUME NEW timed, waitCompleteEvent(timed) PROVE KeepsEdits
  BY <1>4, StillEdits DEF waitCompleteEvent, worldVars
<1>5. CASE getEventItem
  BY <1>5, StillEdits DEF getEventItem, worldVars
<1> QED BY <1>1, <1>2, <1>3, <1>4, <1>5 DEF Calls, watchFiles, watchRecursive

LEMMA AddWatchEdits ==
  ASSUME IndInv, IndInv', NEW path, AddWatch(path), UNCHANGED <<envVars, buf, modset>>
  PROVE  KeepsEdits
<1>1. UNCHANGED <<kq, lost>>
  BY DEF AddWatch
<1>2. \A wd \in DOMAIN marks : wd \in DOMAIN marks' /\ marks'[wd] = marks[wd]
  BY EditTypes, AddWatchMarks
<1> QED BY <1>1, <1>2, SameQueueEdits, ToolQuiet

LEMMA RmWatchEdits ==
  ASSUME IndInv, IndInv', NEW wd, RmWatch(wd), UNCHANGED <<envVars, buf, modset>>,
         wd \in DOMAIN marks => marks[wd] \notin Dirs
  PROVE  KeepsEdits
<1>1. /\ kq' = IF wd \in DOMAIN marks THEN Enqueue(kq, Ignored(wd)) ELSE kq
      /\ lost => lost'
      /\ marks' = [v \in DOMAIN marks \ {wd} |-> marks[v]]
  BY DEF RmWatch, SetQueue, Ignored
<1>2. ASSUME wd \in DOMAIN marks PROVE Plain(kq, Enqueue(kq, Ignored(wd)))
  <2>1. wd \in Int /\ "IGNORED" \in EventKinds /\ <<>> \in AllNames \cup {<<>>}
        /\ FALSE \in BOOLEAN /\ 0 \in Nat
    BY <1>2, EditTypes DEF KernelTypeOK, EventKinds
  <2>2. Ignored(wd) \in Events
    BY <2>1, EventType DEF Ignored
  <2>3. ~Edit(Ignored(wd))
    BY DEF Ignored, Event, Edit
  <2> QED BY <2>2, <2>3, EditTypes, EnqueuePlain
<1>3. Plain(kq, kq')
  BY <1>1, <1>2, EditTypes, PlainRefl
<1>4. Plain(Queue, Queue')
  BY <1>3, EditTypes, PlainConcat DEF Queue
<1>5. \A v \in DOMAIN marks :
        marks[v] \in Dirs => v \in DOMAIN marks' /\ marks'[v] = marks[v]
  BY <1>1
<1> QED BY <1>1, <1>4, <1>5, ToolQuiet

LEMMA OpendirEdits ==
  ASSUME IndInv, IndInv', NEW path, CanOpen(path), Opendir(path),
         UNCHANGED <<envVars, buf, modset>>
  PROVE  KeepsEdits
<1>1. Target(path) \in Inodes /\ Live(Target(path))
  BY DEF CanOpen, Target, At
<1>2. "OPEN" \in EventKinds \ Edits
  BY DEF EventKinds, Edits
<1>3. Plain(kq, PostChild(kq, Target(path), "OPEN"))
  BY <1>1, <1>2, EditTypes, PostChildPlain DEF There
<1>4. kq' = PostChild(kq, Target(path), "OPEN") /\ (lost => lost') /\ UNCHANGED marks
  BY DEF Opendir, SetQueue
<1>5. Plain(Queue, Queue')
  BY <1>3, <1>4, EditTypes, PlainConcat DEF Queue
<1> QED BY <1>4, <1>5, ToolQuiet

LEMMA WatchStepsEdits ==
  ASSUME IndInv, IndInv', CompleteInv, WatchSteps
  PROVE  KeepsEdits
<1>1. CASE FilesAdd
  BY <1>1, AddWatchEdits DEF FilesAdd
<1>2. CASE Rollback
  <2>1. RmWatch(Head(made)) /\ UNCHANGED <<envVars, buf, modset>> /\ made # <<>>
    BY <1>2 DEF Rollback
  <2>2. 1 \in DOMAIN made /\ Head(made) = made[1]
    <3>1. made \in Seq(Nat)
      BY DEF IndInv, TypeOK, ToolTypeOK
    <3> QED BY <2>1, <3>1, TailElements
  <2>3. Head(made) \in DOMAIN marks => marks[Head(made)] \notin Dirs
    BY <2>2 DEF CompleteInv, MadeOK
  <2> QED BY <2>1, <2>3, RmWatchEdits
<1>3. CASE ScanAdd
  BY <1>3, AddWatchEdits DEF ScanAdd
<1>4. CASE ScanOpen
  BY <1>4, OpendirEdits DEF ScanOpen
<1>5. ASSUME \/ FilesFail \/ FilesDone \/ RollbackDone \/ NextRoot \/ RootsDone
             \/ ScanAddFails \/ ScanOpenFails \/ ScanEntryFails \/ ScanClose
             \/ InsertFound \/ InsertDone \/ \E n \in AllNames : ScanEntry(n)
      PROVE  KeepsEdits
  <2>1. UNCHANGED <<worldVars, buf, modset>>
    BY <1>5 DEF FilesFail, FilesDone, RollbackDone, NextRoot, RootsDone, ScanAddFails,
         ScanOpenFails, ScanEntryFails, ScanFails, ScanClose, InsertFound, InsertDone,
         ScanEntry
  <2> QED BY <2>1, StillEdits DEF worldVars
<1> QED BY <1>1, <1>2, <1>3, <1>4, <1>5 DEF WatchSteps

LEMMA ReadEdits ==
  ASSUME IndInv, IndInv', Read
  PROVE  KeepsEdits
<1>1. UNCHANGED <<envVars, modset, marks, lost>>
  BY DEF Read
<1>2. Plain(Queue, Queue')
  BY EditTypes, ReadQueue, PlainRefl DEF Queue
<1> QED BY <1>1, <1>2, ToolQuiet

-----------------------------------------------------------------------------
(* The handlers of the edits.                                              *)
LEMMA HeadQueue ==
  ASSUME IndInv, buf # <<>>
  PROVE  /\ Queue \in Seq(Events) /\ Queue # <<>> /\ Head(Queue) = Head(buf)
         /\ Tail(Queue) = Tail(buf) \o kq /\ Len(Tail(Queue)) = Len(buf) - 1 + Len(kq)
         /\ 1 \in 1..Len(Queue) /\ Queue[1] = Head(Queue)
<1>1. /\ Queue \in Seq(Events) /\ Queue # <<>> /\ Head(Queue) = Head(buf)
      /\ Tail(Queue) = Tail(buf) \o kq
  BY EditTypes, ConcatHead DEF Queue
<1>2. Len(Tail(Queue)) = Len(buf) - 1 + Len(kq)
  BY <1>1, EditTypes, HeadTailProperties, ConcatProperties
<1> QED BY <1>1, <1>2, HeadTailProperties

(* The record at hand is of a file that is there, and its path is right.   *)
LEMMA HeadFile ==
  ASSUME IndInv, TreeInv, CompleteInv, EditsOK, NEW kinds \in SUBSET Edits, Named(kinds)
  PROVE  \E f \in Files : /\ Lies(Head(buf).wd, Head(buf).name, f)
                          /\ Here = DirString(marks[Head(buf).wd])
                          /\ Head(buf).ev = "MODIFY" => f \in dirty
<1>1. /\ buf # <<>> /\ Head(buf).ev \in kinds /\ Head(buf).name # <<>>
      /\ Head(buf).wd \in DOMAIN wmap
  BY NamedPath DEF Named, Mapped
<1>2. Queue # <<>> /\ 1 \in 1..Len(Queue) /\ Queue[1] = Head(buf)
  BY <1>1, HeadQueue
<1>3. PICK f \in Files : /\ <<Head(buf).wd, Head(buf).name, f>> \in Lying
                         /\ Head(buf).ev = "MODIFY" => f \in dirty
  BY <1>1, <1>2 DEF EditsOK, FileRecords, Edit
<1>4. Lies(Head(buf).wd, Head(buf).name, f)
  BY <1>3, EditTypes, LyingIs
<1>5. wmap[Head(buf).wd].rec
  BY <1>1, <1>4 DEF Lies, CompleteInv, RecOK
<1>6. Here = DirString(marks[Head(buf).wd])
  BY <1>1, <1>4, <1>5 DEF Lies, TreeInv, MapOK, EntryOK, Placed, Here
<1> QED BY <1>3, <1>4, <1>6

LEMMA OnModifyEdits ==
  ASSUME IndInv, IndInv', TreeInv, CompleteInv, OnModify
  PROVE  KeepsEdits
<1> SUFFICES ASSUME EditsOK PROVE KeepsEdits
  BY DEF KeepsEdits
<1>1. PICK f \in Files : /\ Lies(Head(buf).wd, Head(buf).name, f)
                         /\ Here = DirString(marks[Head(buf).wd])
                         /\ f \in dirty
  <2>1. Named({"MODIFY"}) /\ {"MODIFY"} \in SUBSET Edits
    BY DEF OnModify, Edits
  <2>2. Head(buf).ev = "MODIFY"
    BY <2>1, NamedPath
  <2> QED BY <2>1, <2>2, HeadFile
<1>2. /\ buf # <<>> /\ Head(buf).ev = "MODIFY" /\ buf' = Tail(buf)
      /\ modset' = modset \cup {Here \o Head(buf).name}
      /\ UNCHANGED <<loc, marks, kq, lost, writing, dirty>>
  BY NamedPath DEF OnModify, worldVars, envVars, fsVars, kernelVars
<1>3. /\ Queue \in Seq(Events) /\ Queue # <<>> /\ Head(Queue) = Head(buf)
      /\ Queue' = Tail(Queue)
  BY <1>2, HeadQueue DEF Queue
<1>4. UNCHANGED <<Lying, OpenFiles>> /\ Recalled \subseteq Recalled'
  BY <1>2 DEF Lying, Lies, OpenFiles, Recalled, Live
<1>5. EditsOK'
  <2>1. FileRecords(Tail(Queue), Lying, dirty)
    BY <1>3, TailRecords DEF EditsOK
  <2> QED BY <1>2, <1>3, <1>4, <2>1 DEF EditsOK
<1>6. ASSUME NEW h \in Files, Lies(Head(buf).wd, Head(buf).name, h)
      PROVE  Live(h) /\ PathString(loc[h]) \in modset'
  BY <1>1, <1>2, <1>6, EditTypes, LiesPlace
<1>7. Remembered => Remembered'
  <2> SUFFICES ASSUME Remembered, NEW p \in modset'
               PROVE  \E g \in dirty' : Live(g)' /\ PathString(loc'[g]) = p
    BY DEF Remembered
  <2>1. CASE p \in modset
    BY <1>2, <2>1 DEF Remembered, Live
  <2>2. CASE p = Here \o Head(buf).name
    <3>1. Live(f) /\ PathString(loc[f]) = p
      BY <1>1, <2>2, EditTypes, LiesPlace
    <3> QED BY <1>1, <1>2, <3>1 DEF Live
  <2> QED BY <1>2, <2>1, <2>2
<1>8. ASSUME OwedOK, ~lost' PROVE Owed(Queue', Lying', dirty', Recalled', OpenFiles')
  <2>1. Owed(Queue, Lying, dirty, Recalled, OpenFiles)
    BY <1>2, <1>8 DEF OwedOK
  <2>2. ASSUME NEW h \in dirty, <<Head(Queue).wd, Head(Queue).name, h>> \in Lying
        PROVE  h \in Recalled'
    <3>1. Lies(Head(buf).wd, Head(buf).name, h) /\ h \in Files
      BY <1>3, <2>2, EditTypes, LyingIs
    <3> QED BY <1>2, <1>6, <3>1 DEF Recalled, Live
  <2>3. Recalled \cap dirty \subseteq Recalled' /\ Head(Queue).ev = "MODIFY"
    BY <1>2, <1>3, <1>4
  <2>4. Owed(Tail(Queue), Lying, dirty, Recalled', OpenFiles)
    BY <1>3, <2>1, <2>2, <2>3, ModifyOwed
  <2> QED BY <1>2, <1>3, <1>4, <2>4
<1> QED BY <1>5, <1>7, <1>8 DEF KeepsEdits, OwedOK

(* A close is handled.  The file leaves dirty with its report, unless it   *)
(* has been modified again.                                                *)
LEMMA OnCloseWriteEdits ==
  ASSUME IndInv, IndInv', TreeInv, CompleteInv, OnCloseWrite
  PROVE  KeepsEdits
<1> SUFFICES ASSUME EditsOK PROVE KeepsEdits
  BY DEF KeepsEdits
<1>1. PICK g \in Files : /\ Lies(Head(buf).wd, Head(buf).name, g)
                         /\ Here = DirString(marks[Head(buf).wd])
  <2>1. Named({"CLOSE_WRITE"}) /\ {"CLOSE_WRITE"} \in SUBSET Edits
    BY DEF OnCloseWrite, Edits
  <2> QED BY <2>1, HeadFile
<1>0. PICK path, more : /\ path = Here \o Head(buf).name
                        /\ more = Told(path)
  OBVIOUS
<1>2. /\ buf # <<>> /\ Head(buf).ev = "CLOSE_WRITE" /\ buf' = Tail(buf)
      /\ \/ path \in modset /\ modset' = modset \ {path} /\ dirty' = dirty \ more
         \/ path \notin modset /\ UNCHANGED <<modset, dirty>>
      /\ UNCHANGED <<loc, marks, kq, lost, writing>>
  <2>1. Named({"CLOSE_WRITE"})
    BY DEF OnCloseWrite
  <2>2. buf # <<>> /\ Head(buf).ev = "CLOSE_WRITE"
    BY <2>1, NamedPath
  <2> QED BY <1>0, <2>2 DEF OnCloseWrite, Finished, fsVars, kernelVars
<1>3. /\ Queue \in Seq(Events) /\ Queue # <<>> /\ Head(Queue) = Head(buf)
      /\ Queue' = Tail(Queue) /\ Len(Tail(Queue)) = Len(buf) - 1 + Len(kq)
      /\ Tail(Queue) = Tail(buf) \o kq /\ Queue[1] = Head(buf)
  BY <1>2, HeadQueue DEF Queue
<1>4. /\ UNCHANGED <<Lying, OpenFiles>> /\ Matched(Lying)
      /\ KernelTypeOK /\ IsTree(loc)
  BY <1>2, EditTypes, LyingMatched
     DEF Lying, Lies, OpenFiles, TreeInv, CompleteInv
<1>5. /\ <<Head(Queue).wd, Head(Queue).name, g>> \in Lying
      /\ Live(g) /\ PathString(loc[g]) = path /\ g \in Inodes
  BY <1>0, <1>1, <1>3, <1>4, LyingIs, LiesPlace
<1>6. ASSUME NEW h \in Files, PathString(loc[h]) = path PROVE h = g
  BY <1>4, <1>5, <1>6, OnePath DEF Inodes
<1> DEFINE Later == \E j \in 1..Len(Tail(Queue)) : Again(Tail(Queue)[j], Head(Queue))
<1>7. more = IF Later THEN {} ELSE {g}
  <2>1. more = {h \in Files : /\ PathString(loc[h]) = path
                              /\ \A j \in 1..Len(Tail(Queue)) :
                                   ~Again(Tail(Queue)[j], Head(Queue))}
    BY <1>0, <1>3 DEF Told, Again
  <2> QED BY <1>5, <1>6, <2>1
<1>8. dirty' \subseteq dirty /\ dirty \ dirty' \subseteq more
  BY <1>2
<1>9. Announced(Tail(Queue), g, Lying) => Later
  <2> SUFFICES ASSUME NEW j \in 1..Len(Tail(Queue)), Tail(Queue)[j].ev = "MODIFY",
                      <<Tail(Queue)[j].wd, Tail(Queue)[j].name, g>> \in Lying
               PROVE  Again(Tail(Queue)[j], Head(Queue))
    BY DEF Announced
  <2> QED BY <1>4, <1>5 DEF Matched, Again
<1>10. EditsOK'
  <2>1. \A f \in dirty \ dirty' : ~Announced(Tail(Queue), f, Lying)
    BY <1>7, <1>8, <1>9
  <2>2. FileRecords(Tail(Queue), Lying, dirty')
    BY <1>3, <2>1, TailRecords DEF EditsOK
  <2> QED BY <1>3, <1>4, <2>2 DEF EditsOK
<1>11. Remembered => Remembered'
  <2> SUFFICES ASSUME Remembered, NEW p \in modset'
               PROVE  \E f \in dirty' : Live(f)' /\ PathString(loc'[f]) = p
    BY DEF Remembered
  <2>1. PICK f \in dirty : Live(f) /\ PathString(loc[f]) = p
    BY <1>2 DEF Remembered
  <2>2. f \in dirty'
    <3>1. CASE path \in modset
      BY <1>2, <1>5, <1>7, <1>8, <2>1, <3>1
    <3>2. CASE path \notin modset
      BY <1>2, <2>1, <3>2
    <3> QED BY <3>1, <3>2
  <2> QED BY <1>2, <2>1, <2>2 DEF Live
<1>12. ASSUME OwedOK, ~lost' PROVE Owed(Queue', Lying', dirty', Recalled', OpenFiles')
  <2>1. Owed(Queue, Lying, dirty, Recalled, OpenFiles)
    BY <1>2, <1>12 DEF OwedOK
  <2>2. ASSUME g \in dirty' PROVE Later
    <3>1. CASE path \in modset
      BY <1>2, <1>7, <2>2, <3>1
    <3>2. CASE path \notin modset
      <4>1. g \in dirty /\ g \notin Recalled
        BY <1>5, <1>8, <2>2, <3>2 DEF Recalled
      <4>2. Announced(Queue, g, Lying)
        BY <2>1, <4>1 DEF Owed
      <4>3. Head(Queue).ev # "MODIFY"
        BY <1>2, <1>3
      <4> QED BY <1>3, <1>9, <4>2, <4>3, TailAnnounced
    <3> QED BY <3>1, <3>2
  <2>3. (Recalled \cap dirty') \ {g} \subseteq Recalled'
    BY <1>2, <1>6 DEF Recalled, Live
  <2>4. Owed(Tail(Queue), Lying, dirty', Recalled', OpenFiles)
    <3>1. Head(Queue).ev = "CLOSE_WRITE"
      BY <1>2, <1>3
    <3> QED BY <1>3, <1>4, <1>5, <1>8, <2>1, <2>2, <2>3, <3>1, CloseOwed
  <2> QED BY <1>3, <1>4, <2>4
<1> QED BY <1>10, <1>11, <1>12 DEF KeepsEdits, OwedOK

LEMMA PartingEdits ==
  ASSUME IndInv, IndInv', TidyInv, OnDeleteSelf \/ OnUnmount
  PROVE  KeepsEdits
<1>0. PICK wd : wd = Head(buf).wd
  OBVIOUS
<1>1. PICK kinds \in SUBSET {"DELETE_SELF", "UNMOUNT"} : Parsing(kinds)
  BY DEF OnDeleteSelf, OnUnmount, Mapped, Unnamed
<1>2. buf # <<>> /\ Head(buf).ev \in {"DELETE_SELF", "UNMOUNT"}
  BY <1>1, InParse
<1>3. RmWatch(wd) /\ UNCHANGED <<envVars, modset>> /\ buf' = Tail(buf)
  BY <1>0 DEF OnDeleteSelf, OnUnmount
<1>4. wd \notin DOMAIN marks
  BY <1>0, <1>2, PartedUnwatched DEF Partings, Ends
<1>5. UNCHANGED <<marks, kq>> /\ (lost => lost')
  <2>1. marks \in [DOMAIN marks -> Inodes]
    BY EditTypes DEF KernelTypeOK
  <2>2. DOMAIN marks \ {wd} = DOMAIN marks
    BY <1>4
  <2>3. marks' = marks
    BY <1>3, <2>1, <2>2 DEF RmWatch
  <2> QED BY <1>3, <1>4, <2>3 DEF RmWatch, SetQueue
<1>6. ~Edit(Head(buf))
  BY <1>2 DEF Edit, Edits
<1> QED BY <1>2, <1>3, <1>5, <1>6, DropsEdits

LEMMA HandledEdits ==
  ASSUME IndInv, IndInv', TreeInv,
         \/ OnOverflow \/ OnIgnored \/ OnNameless \/ OnDelete \/ OnMovedFrom
         \/ Created \/ MovedIn \/ OnOther
  PROVE  KeepsEdits
<1>1. UNCHANGED <<worldVars, modset>>
  BY DEF OnOverflow, OnIgnored, OnNameless, OnDelete, OnMovedFrom, Created, MovedIn, OnOther
<1>2. buf # <<>> /\ ~Edit(Head(buf))
  <2>1. CASE Created \/ MovedIn
    BY <2>1 DEF Created, MovedIn, IndInv, ControlOK, InHandler, Edit, Edits
  <2>2. CASE OnNameless
    <3>1. Parsing((EventKinds \ {"UNMOUNT"}) \ Unnamed) /\ Head(buf).name = <<>>
      BY <2>2 DEF OnNameless, Mapped
    <3> QED BY <3>1, InParse DEF Edit
  <2>3. ASSUME OnOverflow \/ OnIgnored \/ OnDelete \/ OnMovedFrom \/ OnOther
        PROVE  buf # <<>> /\ ~Edit(Head(buf))
    <3>1. /\ HeaderFits(buf)
          /\ Head(buf).ev \in {"Q_OVERFLOW", "IGNORED", "DELETE", "MOVED_FROM", "OPEN",
                              "MOVE_SELF"}
      BY <2>3 DEF OnOverflow, OnIgnored, OnDelete, OnMovedFrom, OnOther, Named, Mapped,
           Parsing
    <3> QED BY <3>1, HeaderFitsNonempty DEF IndInv, TypeOK, Edit, Edits
  <2> QED BY <2>1, <2>2, <2>3
<1>3. buf' = Tail(buf)
  <2>1. ~move.dir
    BY DEF TreeInv, MovesOK
  <2> QED BY <2>1 DEF OnOverflow, OnIgnored, OnNameless, OnDelete, OnMovedFrom, Created,
           MovedIn, OnOther, LoopTail
<1> QED BY <1>1, <1>2, <1>3, DropsEdits DEF worldVars, kernelVars

LEMMA ParseStepsEdits ==
  ASSUME IndInv, IndInv', TidyInv, TreeInv, CompleteInv, ParseSteps
  PROVE  KeepsEdits
<1>1. ~RenameEntry /\ ~RenameDone /\ ~PurgeEntry /\ ~PurgeDone
  BY DEF TreeInv, MovesOK, RenameEntry, RenameDone, PurgeEntry, PurgeDone, CompleteInv
<1>2. CASE OnUnknownWd \/ OnCreate \/ OnMovedTo \/ ParseDone
  <2>1. UNCHANGED <<worldVars, buf, modset>>
    BY <1>2 DEF OnUnknownWd, OnCreate, OnMovedTo, ParseDone
  <2> QED BY <2>1, StillEdits DEF worldVars
<1> QED BY <1>1, <1>2, PartingEdits, HandledEdits, OnModifyEdits, OnCloseWriteEdits
        DEF ParseSteps

-----------------------------------------------------------------------------
(* Other processes.  The place of a file stays, and so does the directory  *)
(* it is in, which is not empty.                                           *)
(* While every file stays where it is none is unlinked.                    *)
NoneUnlinked == DOMAIN unlinked = {}

LEMMA LosesNone ==
  ASSUME KernelInv, ~FileMoved, NEW f \in Files, NEW p \in Dirs
  PROVE  ~Unlink(f, p) /\ \A g \in Files : ~Replace(g, f, p)
<1>0. loc \in [Inodes -> Seq(AllNames)] /\ f \in Inodes
  BY DEF KernelInv, KernelTypeOK, Inodes
<1>1. ASSUME Unlink(f, p) PROVE FALSE
  <2>1. Live(f) /\ loc' = [loc EXCEPT ![f] = Gone]
    BY <1>1 DEF Unlink, LoseName
  <2> QED BY <1>0, <2>1 DEF FileMoved, Live
<1>2. ASSUME NEW g \in Files, Replace(g, f, p) PROVE FALSE
  <2>1. Live(f) /\ loc' = [loc EXCEPT ![g] = loc[f], ![f] = Gone]
    BY <1>2 DEF Replace, LoseName
  <2>2. loc'[f] = Gone
    BY <1>0, <2>1
  <2> QED BY <2>1, <2>2 DEF FileMoved, Live
<1> QED BY <1>1, <1>2

LEMMA Survives ==
  ASSUME KernelInv, ~FileMoved, OtherProcesses, NEW j \in Inodes, Live(j),
         j \in Files \/ Children(j) # {}
  PROVE  loc'[j] # Gone
<1>0. KernelTypeOK /\ loc \in [Inodes -> Seq(AllNames)] /\ Names \subseteq AllNames
      /\ Dirs \subseteq Inodes /\ Files \subseteq Inodes /\ Dirs \cap Files = {}
  BY InodesAssumption DEF KernelInv, KernelTypeOK, Inodes, AllNames
<1>1. ASSUME NEW p \in Dirs, NEW n \in Names, Mkdir(p, n) PROVE loc'[j] = loc[j]
  <2>1. \E d \in Dirs : ~Live(d)
    BY <1>1 DEF Mkdir
  <2>2. PICK i \in Dirs : ~Live(i) /\ loc' = [loc EXCEPT ![i] = Append(loc[p], n)]
    BY <1>1, <2>1 DEF Mkdir
  <2> QED BY <1>0, <2>2
<1>2. ASSUME NEW w \in Writers, NEW p \in Dirs, NEW n \in Names, CreateFile(w, p, n)
      PROVE  loc'[j] = loc[j]
  <2>1. \E f \in Files : Unborn(f)
    BY <1>2 DEF CreateFile
  <2>2. PICK f \in Files : Unborn(f) /\ loc' = [loc EXCEPT ![f] = Append(loc[p], n)]
    BY <1>2, <2>1 DEF CreateFile
  <2> QED BY <1>0, <2>2 DEF Unborn
<1>3. ASSUME NEW i \in Dirs, Rmdir(i) \/ Unmount(i) PROVE loc'[j] = loc[j]
  <2>1. Children(i) = {} /\ loc' = [loc EXCEPT ![i] = Gone]
    BY <1>3 DEF Rmdir, Unmount, Bare
  <2> QED BY <1>0, <2>1
<1>4. ASSUME NEW i \in Inodes, NEW p \in Dirs, NEW n \in Names, Rename(i, p, n)
      PROVE  loc'[j] # Gone
  BY <1>0, <1>4, RenamePlaces DEF Gone
<1>5. ASSUME \/ \E i \in Dirs : ListDir(i)
             \/ \E w \in Writers, f \in Files : OpenFile(w, f)
             \/ \E w \in Writers : WriteFile(w)
             \/ \E w \in Writers : CloseFile(w) \/ CloseUnlinked(w)
             \/ \E f \in Files : Truncate(f)
      PROVE  UNCHANGED loc
  BY <1>5 DEF ListDir, OpenFile, WriteFile, CloseFile, CloseUnlinked, Truncate
<1> QED BY <1>1, <1>2, <1>3, <1>4, <1>5, LosesNone DEF OtherProcesses, Live

LEMMA OthersPlaces ==
  ASSUME KernelInv, MarksLive, Settled(kq), ~DirRenamed, ~FileMoved, OtherProcesses
  PROVE  FilesStay /\ LyingOn
<1>0. KernelTypeOK /\ MarksUnique
  BY DEF KernelInv
<1>1. FilesStay
  BY Survives DEF FilesStay, FileMoved, Inodes
<1>2. ASSUME NEW wd, NEW n, NEW f, Lies(wd, n, f) PROVE Lies(wd, n, f)'
  <2>1. PICK d : d = marks[wd]
    OBVIOUS
  <2>2. /\ d \in Dirs /\ wd \in DOMAIN marks /\ n \in AllNames /\ f \in Files
        /\ f \in Inodes /\ d \in Inodes /\ Live(f) /\ loc[f] = Append(loc[d], n)
        /\ loc[f] \in Seq(AllNames) /\ loc[d] \in Seq(AllNames) /\ Front(loc[f]) = loc[d]
    BY <1>0, <1>2, <2>1, LiesPlace DEF Lies, KernelTypeOK
  <2>3. f \in Children(d)
    <3>1. Len(loc[f]) = Len(loc[d]) + 1
      BY <2>2, AppendProperties
    <3>2. IsPrefix(loc[d], loc[f])
      BY <2>2, PrefixFront DEF Live, Gone
    <3> QED BY <2>2, <3>1, <3>2 DEF Children
  <2>4. Live(d) /\ Marked(d)
    BY <2>1, <2>2, LiveMark DEF Marked
  <2>5. loc'[d] # Gone /\ loc'[d] = loc[d]
    BY <2>2, <2>3, <2>4, Survives DEF DirRenamed
  <2>6. Marked(d)' /\ Shrinks
    BY <2>2, <2>4, <2>5, OthersMark, OthersShrink
  <2>7. PICK v \in DOMAIN marks' : marks'[v] = d
    BY <2>6 DEF Marked
  <2>8. v = wd
    BY <1>0, <2>1, <2>2, <2>6, <2>7 DEF Shrinks, MarksUnique
  <2>9. loc'[f] = loc[f]
    BY <1>1, <2>2 DEF FilesStay
  <2> QED BY <2>2, <2>5, <2>7, <2>8, <2>9 DEF Lies
<1> QED BY <1>1, <1>2 DEF LyingOn

LEMMA RmdirPlain ==
  ASSUME KernelInv, NEW i \in Dirs, Rmdir(i)
  PROVE  Plain(kq, kq')
<1>1. /\ KernelTypeOK /\ kq \in Seq(Events) /\ i \in Inodes /\ Live(i) /\ 0 \in Nat
      /\ "DELETE" \in EventKinds \ Edits /\ "DELETE_SELF" \in EventKinds
      /\ TRUE \in BOOLEAN
  BY DEF KernelInv, KernelTypeOK, Inodes, Rmdir, EventKinds, Edits
<1>2. Last(loc[i]) \in AllNames
  BY <1>1, LastType
<1> DEFINE Parent(q) == PostAt(q, Front(loc[i]), "DELETE", TRUE, 0, Last(loc[i]))
           Self(q)   == PostGone(q, i, "DELETE_SELF")
<1>3. kq' = Parent(Self(kq)) \/ kq' = Self(Parent(kq))
  BY DEF Rmdir, SetQueue
<1>4. ASSUME NEW q \in Seq(Events) PROVE Plain(q, Parent(q)) /\ Parent(q) \in Seq(Events)
  BY <1>1, <1>2, PostAtPlain DEF Plain, Grows
<1>5. ASSUME NEW q \in Seq(Events) PROVE Plain(q, Self(q)) /\ Self(q) \in Seq(Events)
  BY <1>1, PostGonePlain DEF Plain, Grows
<1> HIDE DEF Parent, Self
<1>6. Plain(kq, Parent(Self(kq))) /\ Plain(kq, Self(Parent(kq)))
  <2>1. Plain(kq, Self(kq)) /\ Plain(Self(kq), Parent(Self(kq)))
    BY <1>1, <1>4, <1>5
  <2>2. Plain(kq, Parent(kq)) /\ Plain(Parent(kq), Self(Parent(kq)))
    BY <1>1, <1>4, <1>5
  <2> QED BY <1>1, <2>1, <2>2, PlainTrans
<1> QED BY <1>3, <1>6

(* The operations that modify and close no file.                           *)
LEMMA OthersPlain ==
  ASSUME KernelInv, NoneUnlinked, ~DirRenamed, ~FileMoved, OtherProcesses,
         \A w \in Writers : ~WriteFile(w) /\ ~CloseFile(w),
         \A f \in Files : ~Truncate(f)
  PROVE  Plain(kq, kq') /\ UNCHANGED dirty /\ OpenFiles \subseteq OpenFiles'
<1>0. /\ KernelTypeOK /\ kq \in Seq(Events) /\ Names \subseteq AllNames
      /\ Dirs \subseteq Inodes /\ Files \subseteq Inodes /\ 0 \in Nat
      /\ TRUE \in BOOLEAN /\ FALSE \in BOOLEAN /\ None \notin Files
      /\ writing \in [Writers -> Files \cup {None}]
      /\ {"CREATE", "OPEN", "DELETE", "UNMOUNT"} \subseteq EventKinds \ Edits
  BY InodesAssumption DEF KernelInv, KernelTypeOK, Inodes, AllNames, EventKinds, Edits
<1>1. ASSUME NEW p \in Dirs, NEW n \in Names, Mkdir(p, n) PROVE Plain(kq, kq')
  <2>1. kq' = PostAt(kq, loc[p], "CREATE", TRUE, 0, n)
    BY <1>1 DEF Mkdir, SetQueue
  <2> QED BY <1>0, <2>1, PostAtPlain
<1>2. ASSUME NEW w \in Writers, NEW p \in Dirs, NEW n \in Names, CreateFile(w, p, n)
      PROVE  Plain(kq, kq') /\ OpenFiles \subseteq OpenFiles'
  <2>1. kq' = PostAt(kq, loc[p], "CREATE", FALSE, 0, n)
    BY <1>2 DEF CreateFile, SetQueue
  <2>2. writing[w] = None /\ \E f : writing' = [writing EXCEPT ![w] = f]
    BY <1>2 DEF CreateFile
  <2>3. OpenFiles \subseteq OpenFiles'
    BY <1>0, <2>2 DEF OpenFiles
  <2> QED BY <1>0, <2>1, <2>3, PostAtPlain
<1>3. ASSUME NEW i \in Dirs, Rmdir(i) PROVE Plain(kq, kq')
  BY <1>3, RmdirPlain
<1>4. ASSUME NEW i \in Dirs, Unmount(i) PROVE Plain(kq, kq')
  BY <1>0, <1>4, PostGonePlain DEF Unmount, SetQueue
<1>5. ASSUME NEW i \in Inodes, NEW p \in Dirs, NEW n \in Names, Rename(i, p, n)
      PROVE  FALSE
  <2>1. loc'[i] # loc[i] /\ Live(i) /\ loc'[i] # <<>>
    BY <1>0, <1>5, RenamePlaces DEF Rename
  <2> QED BY <2>1 DEF DirRenamed, FileMoved, Gone, Inodes
<1>6. ASSUME NEW i \in Dirs, ListDir(i) PROVE Plain(kq, kq')
  <2>1. Live(i) /\ kq' = PostChild(kq, i, "OPEN")
    BY <1>6 DEF ListDir, SetQueue
  <2> QED BY <1>0, <2>1, PostChildPlain DEF There
<1>7. ASSUME NEW w \in Writers, NEW f \in Files, OpenFile(w, f)
      PROVE  Plain(kq, kq') /\ OpenFiles \subseteq OpenFiles'
  <2>1. Live(f) /\ kq' = PostChild(kq, f, "OPEN")
    BY <1>7 DEF OpenFile, SetQueue
  <2>2. writing[w] = None /\ writing' = [writing EXCEPT ![w] = f]
    BY <1>7 DEF OpenFile
  <2>3. OpenFiles \subseteq OpenFiles'
    BY <1>0, <2>2 DEF OpenFiles
  <2> QED BY <1>0, <2>1, <2>3, PostChildPlain DEF There
<1>8. \A w \in Writers : ~CloseUnlinked(w)
  BY DEF CloseUnlinked, LastClose, NoneUnlinked
<1>9. UNCHANGED dirty
  BY <1>8, LosesNone
     DEF OtherProcesses, Mkdir, Rmdir, Unmount, Rename, ListDir, CreateFile, OpenFile
<1>10. ASSUME UNCHANGED writing PROVE OpenFiles \subseteq OpenFiles'
  BY <1>10 DEF OpenFiles
<1>11. ASSUME \/ \E p \in Dirs, n \in Names : Mkdir(p, n)
              \/ \E i \in Dirs : Rmdir(i) \/ Unmount(i) \/ ListDir(i)
       PROVE  UNCHANGED writing
  BY <1>11 DEF Mkdir, Rmdir, Unmount, ListDir
<1> QED BY <1>1, <1>2, <1>3, <1>4, <1>5, <1>6, <1>7, <1>8, <1>9, <1>10, <1>11, LosesNone
        DEF OtherProcesses

-----------------------------------------------------------------------------
(* A modification or a close is queued, or the queue overflows.            *)
LEMMA EnqueuePuts ==
  ASSUME NEW b \in Seq(Events), NEW q \in Seq(Events), NEW e \in Events
  PROVE  \/ Puts(b \o q, b \o Enqueue(q, e), e)
         \/ Plain(b \o q, b \o Enqueue(q, e)) /\ Len(Enqueue(q, e)) > MaxQueued
<1>0. b \o q \in Seq(Events) /\ MaxQueued \in Nat /\ Len(q) \in Nat
  BY ConcatProperties, BoundsAssumption
<1>1. CASE q # <<>> /\ q[Len(q)] = e
  <2>1. Enqueue(q, e) = q
    BY <1>1 DEF Enqueue
  <2>2. /\ Len(q) > 0 /\ Len(b) \in Nat /\ Len(b \o q) = Len(b) + Len(q)
        /\ (b \o q)[Len(b) + Len(q)] = q[Len(q)] /\ b \o q # <<>>
    <3>1. Len(q) > 0 /\ Len(b) \in Nat
      BY <1>0, <1>1, EmptySeq
    <3>2. /\ Len(b \o q) = Len(b) + Len(q)
          /\ (b \o q)[Len(b) + Len(q)] = q[Len(q)]
      BY <1>0, <3>1, ConcatProperties
    <3> QED BY <1>0, <3>1, <3>2
  <2> QED BY <1>1, <2>1, <2>2 DEF Puts
<1>2. CASE ~(q # <<>> /\ q[Len(q)] = e) /\ Len(q) < MaxQueued
  <2>1. Enqueue(q, e) = Append(q, e)
    BY <1>2 DEF Enqueue
  <2> QED BY <2>1, ConcatAppend DEF Puts
<1>3. CASE ~(q # <<>> /\ q[Len(q)] = e) /\ Len(q) = MaxQueued
  <2>1. Enqueue(q, e) = Append(q, OverflowEvent)
    BY <1>0, <1>3 DEF Enqueue
  <2>2. Plain(q, Append(q, OverflowEvent)) /\ Len(Append(q, OverflowEvent)) = Len(q) + 1
    BY AppendPlain, OverflowPlain, AppendProperties
  <2> QED BY <1>0, <1>3, <2>1, <2>2, PlainConcat
<1>4. CASE ~(q # <<>> /\ q[Len(q)] = e) /\ Len(q) > MaxQueued
  <2>1. Enqueue(q, e) = q
    BY <1>0, <1>4 DEF Enqueue
  <2> QED BY <1>0, <1>4, <2>1, PlainRefl
<1> QED BY <1>0, <1>1, <1>2, <1>3, <1>4

(* The record of an edit of the file f, if its directory is watched.       *)
LEMMA ChildPuts ==
  ASSUME IndInv, MarksLive, NoneUnlinked, NEW f \in Files, Live(f), NEW ev \in Edits,
         SetQueue(PostChild(kq, f, ev)), UNCHANGED buf
  PROVE  \/ /\ Plain(Queue, Queue')
            /\ lost' \/ \A v \in DOMAIN marks : loc[marks[v]] # Front(loc[f])
         \/ \E v \in DOMAIN marks : \E r :
              /\ loc[marks[v]] = Front(loc[f]) /\ loc[marks[v]] # Gone
              /\ Event(v, ev, FALSE, 0, Last(loc[f])) \in Events
              /\ Puts(Queue, r, Event(v, ev, FALSE, 0, Last(loc[f])))
              /\ Plain(r, Queue')
<1>0. /\ KernelTypeOK /\ buf \in Seq(Events) /\ kq \in Seq(Events)
      /\ f \in Inodes /\ ev \in EventKinds /\ (f \in Dirs) = FALSE
      /\ Last(loc[f]) \in AllNames /\ MaxQueued \in Nat
  BY EditTypes, LastType, InodesAssumption, BoundsAssumption
     DEF Inodes, Edits, EventKinds
<1> DEFINE q == PostAt(kq, Front(loc[f]), ev, FALSE, 0, Last(loc[f]))
<1>1. kq' = PostSelf(q, f, ev, FALSE) /\ lost' = (lost \/ Len(kq') > MaxQueued)
  BY <1>0 DEF PostChild, SetQueue, Folder, EntryName, NoneUnlinked
<1>2. ASSUME q \in Seq(Events) PROVE Plain(q, kq') /\ Plain(buf \o q, Queue')
  <2> HIDE DEF q
  <2>1. Plain(q, kq')
    BY <1>0, <1>1, <1>2, PostSelfPlain
  <2> QED BY <1>0, <1>2, <2>1, PlainConcat DEF Queue
<1>3. \A v \in DOMAIN marks : loc[marks[v]] # Gone
  BY DEF MarksLive, There, NoneUnlinked, Live
<1>4. CASE \E wd \in DOMAIN marks : loc[marks[wd]] = Front(loc[f])
  <2> DEFINE v == CHOOSE wd \in DOMAIN marks : loc[marks[wd]] = Front(loc[f])
             e == Event(v, ev, FALSE, 0, Last(loc[f]))
  <2>1. /\ v \in DOMAIN marks /\ loc[marks[v]] = Front(loc[f]) /\ v \in Int
        /\ loc[marks[v]] # Gone /\ Front(loc[f]) # Gone
    BY <1>0, <1>4, <1>3 DEF KernelTypeOK
  <2>2. e \in Events
    BY <1>0, <2>1, EventType
  <2>3. q = Enqueue(kq, e)
    BY <1>4, <2>1 DEF PostAt
  <2> HIDE DEF v, e, q
  <2>4. Enqueue(kq, e) \in Seq(Events)
    BY <1>0, <2>2, OverflowType DEF Enqueue
  <2>5. CASE Puts(Queue, buf \o q, e)
    BY <1>2, <2>1, <2>2, <2>3, <2>4, <2>5 DEF e
  <2>6. CASE Plain(Queue, buf \o q) /\ Len(q) > MaxQueued
    <3>1. Plain(Queue, Queue')
      BY <1>2, <2>3, <2>4, <2>6, EditTypes, PlainTrans
    <3>2. Len(kq') > MaxQueued
      <4>1. Len(q) <= Len(kq') /\ kq' \in Seq(Events)
        BY <1>2, <2>3, <2>4 DEF Plain, Grows, Extends
      <4> QED BY <1>0, <2>3, <2>4, <2>6, <4>1
    <3> QED BY <1>1, <3>1, <3>2
  <2> QED BY <1>0, <2>2, <2>3, <2>5, <2>6, EnqueuePuts DEF Queue
<1>5. CASE ~\E wd \in DOMAIN marks : loc[marks[wd]] = Front(loc[f])
  <2>1. q = kq
    BY <1>5 DEF PostAt
  <2> QED BY <1>0, <1>2, <1>5, <2>1 DEF Queue
<1> QED BY <1>4, <1>5

(* A file is modified: some process has it open, or it is truncated.       *)
LEMMA ModifyEdits ==
  ASSUME IndInv, IndInv', MarksLive, NoneUnlinked, IsTree(loc), NEW f \in Files,
         Live(f), Modify(f), UNCHANGED <<loc, writing, marks, buf, modset>>,
         Truncated \/ f \in OpenFiles
  PROVE  KeepsEdits
<1> SUFFICES ASSUME EditsOK PROVE KeepsEdits
  BY DEF KeepsEdits
<1>1. /\ Queue \in Seq(Events) /\ Lying \in SUBSET Triples /\ KernelTypeOK
      /\ Matched(Lying)
  BY EditTypes, LyingMatched
<1>2. UNCHANGED <<Lying, Recalled, OpenFiles>>
  BY DEF Lying, Lies, Recalled, OpenFiles, Live
<1>3. /\ SetQueue(PostChild(kq, f, "MODIFY")) /\ "MODIFY" \in Edits
      /\ dirty' = IF Seen(f) THEN dirty \cup {f} ELSE dirty
      /\ lost => lost'
  BY DEF Modify, SetQueue, Edits
<1>4. Remembered => Remembered'
  <2>1. FilesStay /\ dirty \subseteq dirty'
    BY <1>3 DEF FilesStay
  <2> QED BY <2>1, RememberedOn
<1>5. CASE /\ Plain(Queue, Queue')
           /\ lost' \/ \A v \in DOMAIN marks : loc[marks[v]] # Front(loc[f])
  <2>1. EditsOK'
    <3>1. FileRecords(Queue', Lying, dirty)
      BY <1>1, <1>5, PlainRecords DEF EditsOK
    <3>2. FileRecords(Queue', Lying, dirty')
      BY <1>3, <3>1 DEF FileRecords
    <3> QED BY <1>2, <3>2 DEF EditsOK
  <2>2. ASSUME ~Lone, OwedOK, ~lost'
        PROVE  Owed(Queue', Lying', dirty', Recalled', OpenFiles')
    <3>1. ~Seen(f)
      BY <1>5, <2>2 DEF Seen, Lone
    <3>2. Owed(Queue, Lying, dirty, Recalled, OpenFiles)
      BY <1>3, <2>2 DEF OwedOK
    <3>3. Owed(Queue', Lying, dirty, Recalled, OpenFiles)
      BY <1>1, <1>5, <3>2, PlainOwed
    <3> QED BY <1>2, <1>3, <3>1, <3>3
  <2> QED BY <1>4, <2>1, <2>2 DEF KeepsEdits, OwedOK
<1>6. ASSUME NEW v \in DOMAIN marks, NEW r, loc[marks[v]] = Front(loc[f]),
             loc[marks[v]] # Gone, NEW e \in Events,
             e = Event(v, "MODIFY", FALSE, 0, Last(loc[f])),
             Puts(Queue, r, e), Plain(r, Queue')
      PROVE  KeepsEdits
  <2>1. /\ e.ev = "MODIFY" /\ <<e.wd, e.name, f>> \in Lying /\ r \in Seq(Events)
        /\ dirty' = dirty \cup {f}
    <3>1. Lies(v, Last(loc[f]), f) /\ e.wd = v /\ e.name = Last(loc[f])
      BY <1>1, <1>6, ParentLies DEF Event
    <3>2. e.ev = "MODIFY" /\ Seen(f)
      BY <1>6 DEF Event, Seen
    <3>3. r \in Seq(Events)
      BY <1>1, <1>6, PutsLast
    <3> QED BY <1>1, <1>3, <3>1, <3>2, <3>3, LyingIs
  <2>2. EditsOK'
    <3>1. FileRecords(r, Lying, dirty')
      BY <1>1, <1>6, <2>1, PutsRecords DEF EditsOK
    <3>2. FileRecords(Queue', Lying, dirty')
      BY <1>6, <2>1, <3>1, PlainRecords
    <3> QED BY <1>2, <3>2 DEF EditsOK
  <2>3. ASSUME ~Truncated, OwedOK, ~lost'
        PROVE  Owed(Queue', Lying', dirty', Recalled', OpenFiles')
    <3>1. Owed(Queue, Lying, dirty, Recalled, OpenFiles)
      BY <1>3, <2>3 DEF OwedOK
    <3>2. Owed(r, Lying, dirty', Recalled, OpenFiles)
      BY <1>1, <1>6, <2>1, <2>3, <3>1, PutsModify
    <3>3. Owed(Queue', Lying, dirty', Recalled, OpenFiles)
      BY <1>1, <1>6, <2>1, <3>2, PlainOwed
    <3> QED BY <1>2, <3>3
  <2> QED BY <1>4, <2>2, <2>3 DEF KeepsEdits, OwedOK
<1> QED BY <1>3, <1>5, <1>6, ChildPuts

(* A file is closed.                                                       *)
LEMMA CloseFileEdits ==
  ASSUME IndInv, IndInv', MarksLive, NoneUnlinked, IsTree(loc), NEW w \in Writers,
         CloseFile(w), UNCHANGED <<buf, modset>>
  PROVE  KeepsEdits
<1> SUFFICES ASSUME EditsOK PROVE KeepsEdits
  BY DEF KeepsEdits
<1>0. PICK f : f = writing[w]
  OBVIOUS
<1>1. /\ Queue \in Seq(Events) /\ Lying \in SUBSET Triples /\ KernelTypeOK
      /\ f \in Files /\ Live(f)
  <2>1. f \in Files \cup {None} /\ f # None
    BY <1>0, EditTypes DEF KernelTypeOK, CloseFile
  <2> QED BY <1>0, <2>1, EditTypes DEF KernelInv, WritingLive, There, NoneUnlinked
<1>2. /\ SetQueue(PostChild(kq, f, "CLOSE_WRITE")) /\ "CLOSE_WRITE" \in Edits
      /\ UNCHANGED <<dirty, loc, marks>> /\ (lost => lost')
      /\ writing' = [writing EXCEPT ![w] = None]
  BY <1>0 DEF CloseFile, SetQueue, Edits
<1>3. UNCHANGED <<Lying, Recalled>> /\ OpenFiles \subseteq OpenFiles' \cup {f}
  <2>1. UNCHANGED <<Lying, Recalled>>
    BY <1>2 DEF Lying, Lies, Recalled, Live
  <2>2. OpenFiles \subseteq OpenFiles' \cup {f}
    BY <1>0, <1>1, <1>2 DEF OpenFiles, KernelTypeOK
  <2> QED BY <2>1, <2>2
<1>4. Remembered => Remembered'
  <2>1. FilesStay /\ dirty \subseteq dirty'
    BY <1>2 DEF FilesStay
  <2> QED BY <2>1, RememberedOn
<1>5. CASE /\ Plain(Queue, Queue')
           /\ lost' \/ \A v \in DOMAIN marks : loc[marks[v]] # Front(loc[f])
  <2>1. EditsOK'
    <3>1. FileRecords(Queue', Lying, dirty)
      BY <1>1, <1>5, PlainRecords DEF EditsOK
    <3> QED BY <1>2, <1>3, <3>1 DEF EditsOK
  <2>2. ASSUME OwedOK, ~lost'
        PROVE  Owed(Queue', Lying', dirty', Recalled', OpenFiles')
    <3>1. Owed(Queue, Lying, dirty, Recalled, OpenFiles)
      BY <1>2, <2>2 DEF OwedOK
    <3>2. f \notin dirty
      <4> SUFFICES ASSUME f \in dirty PROVE FALSE
        OBVIOUS
      <4>1. PICK wd, n : <<wd, n, f>> \in Lying
        BY <3>1 DEF Owed
      <4>2. Lies(wd, n, f)
        BY <1>1, <4>1, LyingIs
      <4> QED BY <1>1, <1>5, <2>2, <4>2, LiesPlace
    <3>3. OpenFiles \cap dirty \subseteq OpenFiles' /\ Recalled \cap dirty \subseteq Recalled
      BY <1>3, <3>2
    <3>4. Owed(Queue', Lying, dirty, Recalled, OpenFiles')
      BY <1>1, <1>5, <3>1, <3>3, PlainOwed
    <3> QED BY <1>2, <1>3, <3>4
  <2> QED BY <1>4, <2>1, <2>2 DEF KeepsEdits, OwedOK
<1>6. ASSUME NEW v \in DOMAIN marks, NEW r, loc[marks[v]] = Front(loc[f]),
             loc[marks[v]] # Gone, NEW e \in Events,
             e = Event(v, "CLOSE_WRITE", FALSE, 0, Last(loc[f])),
             Puts(Queue, r, e), Plain(r, Queue')
      PROVE  KeepsEdits
  <2>1. /\ e.ev = "CLOSE_WRITE" /\ <<e.wd, e.name, f>> \in Lying /\ r \in Seq(Events)
    <3>1. Lies(v, Last(loc[f]), f) /\ e.wd = v /\ e.name = Last(loc[f])
      BY <1>1, <1>6, ParentLies DEF Event
    <3>2. e.ev = "CLOSE_WRITE"
      BY <1>6 DEF Event
    <3>3. r \in Seq(Events)
      BY <1>1, <1>6, PutsLast
    <3> QED BY <1>1, <3>1, <3>2, <3>3, LyingIs
  <2>2. EditsOK'
    <3>1. FileRecords(r, Lying, dirty)
      BY <1>1, <1>6, <2>1, PutsRecords DEF EditsOK
    <3>2. FileRecords(Queue', Lying, dirty)
      BY <1>6, <2>1, <3>1, PlainRecords
    <3> QED BY <1>2, <1>3, <3>2 DEF EditsOK
  <2>3. ASSUME OwedOK, ~lost'
        PROVE  Owed(Queue', Lying', dirty', Recalled', OpenFiles')
    <3>1. Owed(Queue, Lying, dirty, Recalled, OpenFiles)
      BY <1>2, <2>3 DEF OwedOK
    <3>2. Owed(r, Lying, dirty, Recalled, OpenFiles')
      BY <1>1, <1>3, <1>6, <2>1, <3>1, PutsClose
    <3>3. Owed(Queue', Lying, dirty, Recalled, OpenFiles')
      BY <1>1, <1>6, <2>1, <3>2, PlainOwed
    <3> QED BY <1>2, <1>3, <3>3
  <2> QED BY <1>4, <2>2, <2>3 DEF KeepsEdits, OwedOK
<1> QED BY <1>1, <1>2, <1>5, <1>6, ChildPuts

LEMMA OthersEdits ==
  ASSUME IndInv, IndInv', TreeInv, CompleteInv, NoneUnlinked, ~DirRenamed,
         ~FileMoved, OtherProcesses, UNCHANGED toolVars
  PROVE  KeepsEdits
<1>1. /\ KernelInv /\ MarksLive /\ IsTree(loc) /\ Settled(kq)
      /\ buf \in Seq(Events) /\ kq \in Seq(Events) /\ UNCHANGED <<buf, modset>>
  BY EditTypes DEF TreeInv, CompleteInv, MovesOK, toolVars
<1>2. ASSUME NEW w \in Writers, WriteFile(w) PROVE KeepsEdits
  <2>1. writing[w] \in Files /\ Live(writing[w]) /\ writing[w] \in OpenFiles
    BY <1>1, <1>2 DEF KernelInv, KernelTypeOK, WritingLive, WriteFile, OpenFiles, There,
         NoneUnlinked
  <2>2. Modify(writing[w]) /\ UNCHANGED <<loc, writing, marks>>
    BY <1>2 DEF WriteFile
  <2> QED BY <1>1, <2>1, <2>2, ModifyEdits
<1>3. ASSUME NEW w \in Writers, CloseFile(w) PROVE KeepsEdits
  BY <1>1, <1>3, CloseFileEdits
<1>4. ASSUME NEW f \in Files, Truncate(f) PROVE KeepsEdits
  <2>1. Live(f) /\ Modify(f) /\ UNCHANGED <<loc, writing, marks>>
    BY <1>4 DEF Truncate
  <2>2. Truncated \/ f \in OpenFiles
    BY <1>4 DEF Truncated, OpenFiles
  <2> QED BY <1>1, <2>1, <2>2, ModifyEdits
<1>5. CASE /\ \A w \in Writers : ~WriteFile(w) /\ ~CloseFile(w)
           /\ \A f \in Files : ~Truncate(f)
  <2>1. FilesStay /\ LyingOn
    BY <1>1, OthersPlaces
  <2>2. Plain(kq, kq') /\ UNCHANGED dirty /\ OpenFiles \subseteq OpenFiles'
    BY <1>1, <1>5, OthersPlain
  <2>3. lost => lost'
    BY <1>1, OtherProcessesKeep DEF Announces
  <2>4. Plain(Queue, Queue')
    BY <1>1, <2>2, PlainConcat DEF Queue
  <2> QED BY <1>1, <2>1, <2>2, <2>3, <2>4, QuietEdits
<1> QED BY <1>2, <1>3, <1>4, <1>5

-----------------------------------------------------------------------------
LEMMA StutterEdits ==
  ASSUME IndInv, IndInv', UNCHANGED vars
  PROVE  KeepsEdits
  BY StillEdits DEF vars, envVars, toolVars

LEMMA InitEdits == ASSUME Init PROVE PhantomInv /\ ModifyInv
<1>1. kq = <<>> /\ buf = <<>> /\ modset = {} /\ dirty = {}
  BY DEF Init, KernelInit
<1>2. Queue = <<>> /\ Len(Queue) = 0
  BY <1>1 DEF Queue
<1> QED BY <1>1, <1>2
    DEF PhantomInv, ModifyInv, EditsOK, Remembered, OwedOK, FileRecords, Owed

(* A step that moves and unlinks nothing keeps the inductive invariants.   *)
THEOREM NextEdits ==
  IndInv /\ IndInv' /\ TidyInv /\ TreeInv /\ CompleteInv /\ NoneUnlinked
    /\ ~DirRenamed /\ ~FileMoved /\ [Next]_vars => KeepsEdits
<1> SUFFICES ASSUME IndInv, IndInv', TidyInv, TreeInv, CompleteInv, NoneUnlinked,
                    ~DirRenamed, ~FileMoved, [Next]_vars
             PROVE  KeepsEdits
  OBVIOUS
<1> QED
  BY OthersEdits, CallsEdits, WatchStepsEdits, ReadEdits, ParseStepsEdits, StutterEdits
  DEF Next, ToolStep

(* No file is unlinked in a behaviour in which every file stays where it   *)
(* is.                                                                     *)
LEMMA NoneUnlinkedHolds == Spec /\ [][~FileMoved]_vars => []NoneUnlinked
<1>1. Init => NoneUnlinked
  BY DEF Init, KernelInit, NoneUnlinked
<1>2. IndInv /\ [~FileMoved]_vars /\ [Next]_vars /\ NoneUnlinked => NoneUnlinked'
  <2> SUFFICES ASSUME IndInv, [~FileMoved]_vars, [Next]_vars, NoneUnlinked
               PROVE  UNCHANGED unlinked
    BY DEF NoneUnlinked
  <2>1. CASE UNCHANGED vars
    BY <2>1 DEF vars, fsVars
  <2>2. CASE OtherProcesses /\ ~FileMoved
    <3>1. \A w \in Writers : ~CloseUnlinked(w)
      BY DEF CloseUnlinked, LastClose, NoneUnlinked
    <3> QED BY <2>2, <3>1, EditTypes, LosesNone
            DEF OtherProcesses, Mkdir, Rmdir, Unmount, Rename, ListDir, CreateFile,
                OpenFile, WriteFile, CloseFile, Truncate
  <2>3. CASE Calls
    BY <2>3 DEF Calls, createInotify, destroyInotify, watchFiles, watchRecursive,
         WatchCall, waitCompleteEvent, getEventItem, worldVars, envVars, fsVars
  <2>4. CASE WatchSteps
    BY <2>4 DEF WatchSteps, FilesAdd, FilesFail, FilesDone, Rollback, RollbackDone,
         NextRoot, RootsDone, ScanAdd, ScanAddFails, ScanOpen, ScanOpenFails,
         ScanEntryFails, ScanFails, ScanEntry, ScanClose, InsertFound, InsertDone,
         worldVars, envVars, fsVars
  <2>5. CASE Read
    BY <2>5 DEF Read, envVars, fsVars
  <2>6. CASE ParseSteps
    BY <2>6 DEF ParseSteps, OnOverflow, OnUnmount, OnDeleteSelf, OnIgnored, OnUnknownWd,
         OnNameless, OnCreate, Created, OnDelete, OnModify, OnCloseWrite, OnMovedFrom,
         OnMovedTo, MovedIn, RenameEntry, RenameDone, OnOther, PurgeEntry, PurgeDone,
         ParseDone, worldVars, envVars, fsVars
  <2> QED BY <2>1, <2>2, <2>3, <2>4, <2>5, <2>6 DEF Next, ToolStep
<1> QED BY <1>1, <1>2, IndInvHolds, PTL DEF Spec

(* PhantomInv holds of every behaviour in which no directory is renamed,   *)
(* no file is moved, unlinked or replaced, watchFiles is given no          *)
(* directory, and neither records nor recorded files outlive their         *)
(* instance.                                                               *)
THEOREM PhantomInvHolds ==
  Spec /\ [](~Relic /\ ~Stale /\ ~PlainWatch)
       /\ [][~DirRenamed]_vars /\ [][~FileMoved]_vars => []PhantomInv
<1>1. Init => PhantomInv
  BY InitEdits
<1>2. IndInv /\ IndInv' /\ TidyInv /\ TreeInv /\ CompleteInv /\ NoneUnlinked
        /\ ~Stale /\ ~Stale' /\ [~DirRenamed]_vars /\ [~FileMoved]_vars /\ [Next]_vars
        /\ PhantomInv
        => PhantomInv'
  BY NextEdits, StutterEdits DEF KeepsEdits, PhantomInv
<1>3. Spec => []IndInv
  BY IndInvHolds
<1>4. Spec /\ []~Relic => []TidyInv
  BY RecordsTidy
<1>5. Spec /\ [][~DirRenamed]_vars => []TreeInv
  BY TreeInvHolds
<1> QED BY <1>1, <1>2, <1>3, <1>4, <1>5, CompleteInvHolds, NoneUnlinkedHolds, PTL
        DEF Spec

(* ModifyInv holds of every behaviour in which no directory is renamed, no *)
(* file is moved, unlinked or replaced, watchFiles is given no directory,  *)
(* no record outlives its instance, no file is watched without its         *)
(* directory and none is truncated that is not open.                       *)
THEOREM ModifyInvHolds ==
  Spec /\ [](~Relic /\ ~PlainWatch /\ ~Lone) /\ [][~DirRenamed]_vars
       /\ [][~FileMoved]_vars /\ [][~Truncated]_vars => []ModifyInv
<1>1. Init => ModifyInv
  BY InitEdits
<1>2. IndInv /\ IndInv' /\ TidyInv /\ TreeInv /\ CompleteInv /\ NoneUnlinked
        /\ ~Lone /\ [~DirRenamed]_vars /\ [~FileMoved]_vars /\ [~Truncated]_vars
        /\ [Next]_vars /\ ModifyInv => ModifyInv'
  <2> SUFFICES ASSUME IndInv, IndInv', TidyInv, TreeInv, CompleteInv, NoneUnlinked,
                      ~Lone, [~DirRenamed]_vars, [~FileMoved]_vars, [~Truncated]_vars,
                      [Next]_vars, ModifyInv
               PROVE  ModifyInv'
    OBVIOUS
  <2>1. CASE UNCHANGED vars
    <3>1. UNCHANGED <<loc, writing, marks, kq, lost, dirty, buf, modset>>
      BY <2>1 DEF vars, fsVars, kernelVars, toolVars
    <3>2. UNCHANGED <<Queue, Lying, Recalled, OpenFiles>>
      BY <3>1 DEF Queue, Lying, Lies, Recalled, OpenFiles, Live
    <3> QED BY <3>1, <3>2 DEF ModifyInv, EditsOK, OwedOK
  <2>2. CASE ~UNCHANGED vars
    <3>1. ~DirRenamed /\ ~FileMoved /\ ~Truncated
      BY <2>2
    <3> QED BY <3>1, NextEdits DEF KeepsEdits, ModifyInv
  <2> QED BY <2>1, <2>2
<1>3. Spec => []IndInv
  BY IndInvHolds
<1>4. Spec /\ []~Relic => []TidyInv
  BY RecordsTidy
<1>5. Spec /\ [][~DirRenamed]_vars => []TreeInv
  BY TreeInvHolds
<1> QED BY <1>1, <1>2, <1>3, <1>4, <1>5, CompleteInvHolds, NoneUnlinkedHolds, PTL
        DEF Spec

-----------------------------------------------------------------------------
(* What is reported as modified.                                           *)
LEMMA PushLast ==
  ASSUME ItemsOK, NEW ev, NEW name, NEW error, Push(ev, name, error)
  PROVE  Last(items').ev = ev /\ Last(items').name = name
<1> DEFINE item == [ev |-> ev, dir |-> Head(buf).dir, err |-> error,
                    cookie |-> Head(buf).cookie, name |-> name]
<1>1. PICK S : items \in Seq(S)
  BY DEF ItemsOK
<1>2. items \in Seq(S \cup {item}) /\ item \in S \cup {item}
  BY <1>1
<1>3. Last(Append(items, item)) = item
  <2> HIDE DEF item
  <2> QED BY <1>2, LastAppend
<1> QED BY <1>3 DEF Push

LEMMA ReportsRemembered ==
  ASSUME PipeInv, Remembered, [Next]_vars, ReportsModify
  PROVE  \E f \in dirty : PathString(loc[f]) = Last(items').name
<1>1. Len(items') # Len(items) /\ items' # items /\ items' # <<>> /\ ItemsOK
  <2>1. ItemsOK /\ Len(items) \in Nat
    BY DEF PipeInv, ItemsOK
  <2>2. Len(items') = Len(items) + 1 /\ Len(<<>>) = 0
    BY DEF ReportsModify
  <2> QED BY <2>1, <2>2
<1>2. ASSUME NEW ev, NEW name, NEW error, Push(ev, name, error)
      PROVE  ev = "MODIFY_OVER" /\ name = Last(items').name
  BY <1>1, <1>2, PushLast DEF ReportsModify
<1>3. CASE OnCloseWrite
  <2>1. PICK path : path = Here \o Head(buf).name
    OBVIOUS
  <2>2. path \in modset /\ Push("MODIFY_OVER", path, FALSE)
    BY <1>1, <1>3, <2>1 DEF OnCloseWrite
  <2> QED BY <1>2, <2>2 DEF Remembered
<1>4. ~OnOverflow /\ ~OnUnmount /\ ~OnDelete /\ ~Created /\ ~OnMovedFrom /\ ~MovedIn
  <2>1. \A name, error : /\ ~Push("Q_OVERFLOW", name, error)
                         /\ ~Push("UNMOUNT", name, error) /\ ~Push("DELETE", name, error)
                         /\ ~Push("CREATE", name, error)
                         /\ ~Push("MOVED_OUT", name, error)
                         /\ ~Push("MOVED_IN", name, error)
    BY <1>2
  <2> QED BY <2>1 DEF OnOverflow, OnUnmount, OnDelete, Created, OnMovedFrom, MovedIn
<1>5. UNCHANGED items \/ items' = <<>> \/ OnCloseWrite
  <2>1. CASE UNCHANGED vars
    BY <2>1 DEF vars, toolVars
  <2>2. CASE OtherProcesses /\ UNCHANGED toolVars
    BY <2>2 DEF toolVars
  <2>3. CASE Calls
    BY <2>3 DEF Calls, createInotify, destroyInotify, watchFiles, watchRecursive,
         WatchCall, waitCompleteEvent, getEventItem
  <2>4. CASE WatchSteps
    BY <2>4 DEF WatchSteps, FilesAdd, FilesFail, FilesDone, Rollback, RollbackDone,
         NextRoot, RootsDone, ScanAdd, ScanAddFails, ScanOpen, ScanOpenFails,
         ScanEntryFails, ScanFails, ScanEntry, ScanClose, InsertFound, InsertDone
  <2>5. CASE Read
    BY <2>5 DEF Read
  <2>6. CASE ParseSteps
    BY <1>4, <2>6 DEF ParseSteps, OnDeleteSelf, OnIgnored, OnUnknownWd, OnNameless,
         OnCreate, OnModify, OnMovedTo, RenameEntry, RenameDone, OnOther, PurgeEntry,
         PurgeDone, ParseDone
  <2> QED BY <2>1, <2>2, <2>3, <2>4, <2>5, <2>6 DEF Next, ToolStep
<1> QED BY <1>1, <1>3, <1>5

(* A MODIFY_OVER is reported only for a file that was modified since the   *)
(* last one, as long as no directory is renamed, no file is moved,         *)
(* unlinked or replaced, watchFiles is given no directory and neither      *)
(* records nor recorded files outlive their instance: not even an overflow *)
(* of the queue makes _parseEvent report another file.                     *)
THEOREM NoPhantoms ==
  Spec => ([](~Relic /\ ~Stale /\ ~PlainWatch) /\ [][~DirRenamed]_vars
             /\ [][~FileMoved]_vars => NoPhantomModify)
<1>1. PipeInv /\ PhantomInv /\ [Next]_vars =>
        [ReportsModify =>
           \E f \in dirty : PathString(loc[f]) = Last(items').name]_vars
  BY ReportsRemembered DEF PhantomInv
<1>2. Init => PipeInv
  BY InitPipe
<1>3. PipeInv /\ [Next]_vars => PipeInv'
  BY NextPipe
<1> QED BY <1>1, <1>2, <1>3, PhantomInvHolds, PTL DEF Spec, NoPhantomModify

(* When the tool has caught up, every file that a watch saw modified and   *)
(* that no process has open has been reported, as long as no directory is  *)
(* renamed, no file is moved, unlinked or replaced, watchFiles is given no *)
(* directory and no file alone, no record outlives its instance and no     *)
(* file is truncated that is not open.                                     *)
THEOREM ModificationsReported ==
  Spec => ([](~Relic /\ ~PlainWatch /\ ~Lone) /\ [][~DirRenamed]_vars
             /\ [][~FileMoved]_vars /\ [][~Truncated]_vars => []ModifyReported)
<1>1. IndInv /\ ModifyInv => ModifyReported
  <2> SUFFICES ASSUME IndInv, ModifyInv, Quiet, ~Excused, NEW f \in dirty
               PROVE  \E w \in Writers : writing[w] = f
    BY DEF ModifyReported
  <2>1. Queue = buf
    BY EditTypes, ConcatEmptySeq DEF Queue, Quiet
  <2>2. buf = <<>> \/ (Len(buf) = 1 /\ buf[1].name = <<>>)
    BY DEF IndInv, HeldBack, BetweenReads, Quiet
  <2>3. \A k \in 1..Len(Queue) : Queue[k].name = <<>>
    BY <2>1, <2>2
  <2>4. f \in OpenFiles \/ Closed(Queue, f, Lying)
    BY DEF ModifyInv, OwedOK, Excused, Owed
  <2>5. ~Closed(Queue, f, Lying)
    BY <2>3, EditTypes, NamesAreTokens DEF Closed, Triples
  <2> QED BY <2>4, <2>5 DEF OpenFiles
<1>2. Spec => []IndInv
  BY IndInvHolds
<1> QED BY <1>1, <1>2, ModifyInvHolds, PTL

=============================================================================
