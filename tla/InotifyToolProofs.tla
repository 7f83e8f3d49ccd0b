-------------------------- MODULE InotifyToolProofs --------------------------
(***************************************************************************)
(* IndInv is an invariant of InotifyTool for every tree, every vector of   *)
(* paths, every capacity of a read, every policy of the BiMap, every set   *)
(* of faults and every bound.                                              *)
(***************************************************************************)
EXTENDS InotifyToolProps, InotifyKernelProofs

-----------------------------------------------------------------------------
(* infoList and the stack of open directories.                             *)
LEMMA InfoListIntro ==
  ASSUME NEW P, NEW s \in Seq([wd : Nat, path : P])
  PROVE  InfoListOK(s)
<1> DEFINE Q == {s[k].path : k \in DOMAIN s}
<1>1. Len(s) \in Nat /\ DOMAIN s = 1..Len(s)
      /\ \A k \in DOMAIN s : s[k] \in [wd : Nat, path : P]
  <2> DEFINE T == [wd : Nat, path : P]
  <2>1. s \in Seq(T)
    OBVIOUS
  <2> HIDE DEF T
  <2>2. Len(s) \in Nat /\ DOMAIN s = 1..Len(s)
        /\ \A k \in DOMAIN s : s[k] \in T
    BY <2>1, LenProperties, ElementOfSeq
  <2> QED BY <2>2 DEF T
<1>2. \A k \in DOMAIN s : s[k] \in [wd : Nat, path : Q]
  BY <1>1
<1>3. s \in Seq([wd : Nat, path : Q])
  <2> DEFINE T == [wd : Nat, path : Q]
  <2>1. \A k \in 1..Len(s) : s[k] \in T
    BY <1>1, <1>2
  <2>2. s = [k \in 1..Len(s) |-> s[k]]
    BY <1>1
  <2> HIDE DEF T
  <2>3. [k \in 1..Len(s) |-> s[k]] \in Seq(T)
    BY <1>1, <2>1
  <2>4. s \in Seq(T)
    BY <2>2, <2>3
  <2> QED BY <2>4 DEF T
<1> QED BY <1>3 DEF InfoListOK

LEMMA InfoListEmpty == InfoListOK(<<>>)
<1>1. <<>> \in Seq([wd : Nat, path : {}])
  OBVIOUS
<1> QED BY <1>1, InfoListIntro

LEMMA InfoListAppend ==
  ASSUME NEW s, InfoListOK(s), NEW wd \in Nat, NEW p
  PROVE  InfoListOK(Append(s, [wd |-> wd, path |-> p]))
<1> DEFINE Q == {s[k].path : k \in DOMAIN s}
           T == [wd : Nat, path : Q \cup {p}]
<1>1. s \in Seq(T)
  BY SeqMonotonic DEF InfoListOK
<1>2. [wd |-> wd, path |-> p] \in T
  OBVIOUS
<1>3. Append(s, [wd |-> wd, path |-> p]) \in Seq(T)
  <2> HIDE DEF T
  <2> QED BY <1>1, <1>2
<1> QED BY <1>3, InfoListIntro

LEMMA InfoListTail ==
  ASSUME NEW s, InfoListOK(s), s # <<>>
  PROVE  InfoListOK(Tail(s)) /\ Head(s).wd \in Nat
<1> DEFINE T == [wd : Nat, path : {s[k].path : k \in DOMAIN s}]
<1>1. s \in Seq(T)
  BY DEF InfoListOK
<1>2. Tail(s) \in Seq(T) /\ Head(s) \in T
  <2> HIDE DEF T
  <2> QED BY <1>1, HeadTailProperties
<1> QED BY <1>2, InfoListIntro

LEMMA OpenDirsIntro ==
  ASSUME NEW P, NEW s \in Seq([path : P, left : SUBSET AllNames])
  PROVE  OpenDirsOK(s)
<1> DEFINE Q == {s[k].path : k \in DOMAIN s}
<1>1. Len(s) \in Nat /\ DOMAIN s = 1..Len(s)
      /\ \A k \in DOMAIN s : s[k] \in [path : P, left : SUBSET AllNames]
  <2> DEFINE T == [path : P, left : SUBSET AllNames]
  <2>1. s \in Seq(T)
    OBVIOUS
  <2> HIDE DEF T
  <2>2. Len(s) \in Nat /\ DOMAIN s = 1..Len(s)
        /\ \A k \in DOMAIN s : s[k] \in T
    BY <2>1, LenProperties, ElementOfSeq
  <2> QED BY <2>2 DEF T
<1>2. \A k \in DOMAIN s : s[k] \in [path : Q, left : SUBSET AllNames]
  BY <1>1
<1>3. s \in Seq([path : Q, left : SUBSET AllNames])
  <2> DEFINE T == [path : Q, left : SUBSET AllNames]
  <2>1. \A k \in 1..Len(s) : s[k] \in T
    BY <1>1, <1>2
  <2>2. s = [k \in 1..Len(s) |-> s[k]]
    BY <1>1
  <2> HIDE DEF T
  <2>3. [k \in 1..Len(s) |-> s[k]] \in Seq(T)
    BY <1>1, <2>1
  <2>4. s \in Seq(T)
    BY <2>2, <2>3
  <2> QED BY <2>4 DEF T
<1> QED BY <1>3 DEF OpenDirsOK

LEMMA OpenDirsEmpty == OpenDirsOK(<<>>)
<1>1. <<>> \in Seq([path : {}, left : SUBSET AllNames])
  OBVIOUS
<1> QED BY <1>1, OpenDirsIntro

LEMMA OpenDirsAppend ==
  ASSUME NEW s, OpenDirsOK(s), NEW p, NEW left \in SUBSET AllNames
  PROVE  /\ OpenDirsOK(Append(s, [path |-> p, left |-> left]))
         /\ Append(s, [path |-> p, left |-> left]) # <<>>
<1> DEFINE Q == {s[k].path : k \in DOMAIN s}
           T == [path : Q \cup {p}, left : SUBSET AllNames]
           r == [path |-> p, left |-> left]
<1>1. s \in Seq(T)
  BY SeqMonotonic DEF OpenDirsOK
<1>2. r \in T
  OBVIOUS
<1>3. Append(s, r) \in Seq(T) /\ Append(s, r) # <<>>
  <2> HIDE DEF T, r
  <2> QED BY <1>1, <1>2
<1> QED BY <1>3, OpenDirsIntro

LEMMA OpenDirsFront ==
  ASSUME NEW s, OpenDirsOK(s), s # <<>>
  PROVE  /\ OpenDirsOK(Front(s))
         /\ Len(s) = 1 <=> Front(s) = <<>>
         /\ Len(s) \in Nat \ {0}
<1> DEFINE T == [path : {s[k].path : k \in DOMAIN s}, left : SUBSET AllNames]
<1>1. s \in Seq(T)
  BY DEF OpenDirsOK
<1>2. Front(s) \in Seq(T) /\ (Len(s) = 1 <=> Front(s) = <<>>)
      /\ Len(s) \in Nat \ {0}
  <2> HIDE DEF T
  <2>1. Len(s) \in Nat \ {0}
    BY <1>1, EmptySeq
  <2>3. Front(s) \in Seq(T) /\ Len(Front(s)) = Len(s) - 1
    BY <1>1, FrontProperties
  <2>4. Len(s) = 1 <=> Len(Front(s)) = 0
    BY <2>1, <2>3
  <2>5. Len(Front(s)) = 0 <=> Front(s) = <<>>
    BY <2>3, EmptySeq
  <2> QED BY <2>1, <2>3, <2>4, <2>5
<1> QED BY <1>2, OpenDirsIntro

LEMMA OpenDirsExcept ==
  ASSUME NEW s, OpenDirsOK(s), s # <<>>, NEW n
  PROVE  LET t == [s EXCEPT ![Len(s)] = [path |-> @.path, left |-> @.left \ {n}]]
         IN  OpenDirsOK(t) /\ t # <<>>
<1> DEFINE P == {s[k].path : k \in DOMAIN s}
           T == [path : P, left : SUBSET AllNames]
           e == [path |-> s[Len(s)].path, left |-> s[Len(s)].left \ {n}]
<1>1. s \in Seq(T)
  BY DEF OpenDirsOK
<1>2. Len(s) \in 1..Len(s) /\ DOMAIN s = 1..Len(s)
  BY <1>1, EmptySeq
<1>3. e \in T
  <2>1. s[Len(s)] \in T
    BY <1>1, <1>2, ElementOfSeq
  <2> QED BY <2>1, <1>2
<1>4. [s EXCEPT ![Len(s)] = e] \in Seq(T) /\ Len([s EXCEPT ![Len(s)] = e]) = Len(s)
  <2> HIDE DEF T, e
  <2> QED BY <1>1, <1>2, <1>3, ExceptSeq
<1>5. [s EXCEPT ![Len(s)] = e] # <<>>
  BY <1>2, <1>4
<1> QED BY <1>4, <1>5, OpenDirsIntro

-----------------------------------------------------------------------------
(* The parts of the invariant, and what keeps a descriptor backed.         *)
ToolInv == ToolTypeOK /\ ControlOK /\ HeldBack

LEMMA Parts == IndInv <=> KernelInv /\ ToolInv /\ EntryBacked /\ FoundBacked
  BY DEF IndInv, KernelInv, ToolInv, TypeOK

LEMMA Assemble ==
  ASSUME KernelInv', ToolTypeOK', ControlOK', HeldBack', EntryBacked', FoundBacked'
  PROVE  IndInv'
  BY DEF IndInv, KernelInv, TypeOK

LEMMA StillKernel ==
  ASSUME KernelInv, UNCHANGED <<envVars, kernelVars>>
  PROVE  KernelInv' /\ Announces
<1>1. UNCHANGED <<loc, writing, unlinked, used, ops, cookie, dirty, marks, nextWd, kq, lost>>
  BY DEF envVars, fsVars, kernelVars
<1>2. KernelInv'
  BY <1>1 DEF KernelInv, KernelTypeOK, MarksUnique, WritingLive, There, Live
<1> QED BY <1>1, <1>2, SameQueue DEF KernelInv, Announces

LEMMA BackedKeeps ==
  ASSUME Announces, ~lost',
         \A wd : Ignored(wd) \in Records(buf) => Ignored(wd) \in Records(buf')
  PROVE  ~lost /\ \A wd : Backed(wd) => Backed(wd)'
  BY DEF Announces, Backed, Pending, Ignored, Event

(* The step leaves the buffer alone, and adds no entry but backed ones.    *)
LEMMA SameBuffer ==
  ASSUME EntryBacked, FoundBacked, Announces, UNCHANGED buf,
         \A wd \in DOMAIN wmap' :
           wd \in DOMAIN wmap \/ wd \in DOMAIN marks'
             \/ \E k \in DOMAIN found : found[k].wd = wd,
         \A k \in DOMAIN found' :
           \/ \E j \in DOMAIN found : found[j].wd = found'[k].wd
           \/ found'[k].wd \in DOMAIN marks'
  PROVE  EntryBacked' /\ FoundBacked'
<1>1. ~lost' => ~lost /\ \A wd : Backed(wd) => Backed(wd)'
  BY BackedKeeps
<1>2. \A wd : wd \in DOMAIN marks' => Backed(wd)'
  BY DEF Backed
<1> QED BY <1>1, <1>2 DEF EntryBacked, FoundBacked

(* The step takes the head off the buffer, and adds no entry.              *)
LEMMA Popping ==
  ASSUME ToolTypeOK, buf # <<>>, buf' = Tail(buf)
  PROVE  /\ buf' \in Seq(Events)
         /\ \A r \in Records(buf) : r = Head(buf) \/ r \in Records(buf')
         /\ Head(buf) \in Events
<1>1. buf \in Seq(Events)
  BY DEF ToolTypeOK
<1>2. /\ Head(buf) \in Events /\ Tail(buf) \in Seq(Events)
      /\ Len(Tail(buf)) = Len(buf) - 1 /\ Len(buf) \in Nat
      /\ \A k \in 1..Len(Tail(buf)) : Tail(buf)[k] = buf[k + 1]
  BY <1>1, HeadTailProperties
<1>3. ASSUME NEW k \in 1..Len(buf)
      PROVE  buf[k] = Head(buf) \/ buf[k] \in Records(buf')
  <2>1. CASE k = 1
    BY <1>1, <2>1
  <2>2. CASE k # 1
    <3>1. k - 1 \in 1..Len(buf') /\ buf'[k - 1] = buf[k]
      BY <1>2, <2>2
    <3> QED BY <3>1 DEF Records
  <2> QED BY <2>1, <2>2
<1> QED BY <1>2, <1>3 DEF Records

LEMMA PoppedBuffer ==
  ASSUME ToolTypeOK, EntryBacked, FoundBacked, Announces,
         buf # <<>>, buf' = Tail(buf), Head(buf).ev # "IGNORED",
         DOMAIN wmap' \subseteq DOMAIN wmap, UNCHANGED found
  PROVE  EntryBacked' /\ FoundBacked'
<1>1. \A wd : Ignored(wd) \in Records(buf) => Ignored(wd) \in Records(buf')
  BY Popping DEF Ignored, Event
<1>2. ~lost' => ~lost /\ \A wd : Backed(wd) => Backed(wd)'
  BY <1>1, BackedKeeps
<1> QED BY <1>2 DEF EntryBacked, FoundBacked

LEMMA HeaderFitsNonempty ==
  ASSUME ToolTypeOK, HeaderFits(buf)
  PROVE  buf # <<>> /\ Head(buf) \in Events
<1>1. buf \in Seq(Events) /\ buf # <<>>
  BY DEF ToolTypeOK, HeaderFits
<1> QED BY <1>1, HeadTailProperties

(* The map.                                                                *)
LEMMA InsertKeeps ==
  ASSUME ToolTypeOK, NEW wd \in Nat, NEW path, NEW rec \in BOOLEAN,
         Insert(wd, path, rec)
  PROVE  /\ DOMAIN wmap' \subseteq DOMAIN wmap \cup {wd}
         /\ DOMAIN wmap' \subseteq Nat
         /\ \A v \in DOMAIN wmap' : wmap'[v].rec \in BOOLEAN
  BY DEF ToolTypeOK, Insert, Put, Holders

LEMMA UpdateKeeps ==
  ASSUME ToolTypeOK, NEW wd \in DOMAIN wmap, NEW path, Update(wd, path)
  PROVE  /\ DOMAIN wmap' \subseteq DOMAIN wmap
         /\ \A v \in DOMAIN wmap' : wmap'[v].rec \in BOOLEAN
  BY DEF ToolTypeOK, Update, Put, Holders

LEMMA WithoutKeeps ==
  ASSUME ToolTypeOK, NEW S, wmap' = Without(S)
  PROVE  /\ DOMAIN wmap' \subseteq DOMAIN wmap
         /\ \A v \in DOMAIN wmap' : v \notin S /\ wmap'[v].rec \in BOOLEAN
  BY DEF ToolTypeOK, Without

(* A step that only moves the call on.                                     *)
LEMMA Frame ==
  ASSUME IndInv, UNCHANGED <<worldVars, buf, wmap>>,
         found' = found \/ found' = <<>>
  PROVE  KernelInv' /\ EntryBacked' /\ FoundBacked'
<1>1. KernelInv /\ EntryBacked /\ FoundBacked
  BY Parts
<1>2. UNCHANGED <<envVars, kernelVars>> /\ UNCHANGED buf /\ UNCHANGED wmap
  BY DEF worldVars
<1>3. KernelInv' /\ Announces
  BY <1>1, <1>2, StillKernel
<1>4. EntryBacked' /\ FoundBacked'
  BY <1>1, <1>2, <1>3, SameBuffer
<1> QED BY <1>3, <1>4

-----------------------------------------------------------------------------
THEOREM InitIndInv == Init => IndInv
<1> SUFFICES ASSUME Init PROVE IndInv
  OBVIOUS
<1>1. KernelInit
  BY DEF Init
<1>2. KernelTypeOK
  <2>1. loc \in [Inodes -> Seq(AllNames)] /\ writing \in [Writers -> Files \cup {None}]
    BY <1>1, InodesAssumption DEF KernelInit
  <2>2. /\ DOMAIN marks = {} /\ marks = [wd \in {} |-> None]
        /\ kq = <<>> /\ ops = 0 /\ cookie = 0 /\ nextWd = 1
        /\ lost = FALSE /\ dirty = {}
        /\ DOMAIN unlinked = {} /\ unlinked = [f \in {} |-> None]
    BY <1>1 DEF KernelInit, NoWatches
  <2>3. /\ marks \in [DOMAIN marks -> Inodes]
        /\ unlinked \in [DOMAIN unlinked -> [dir : Dirs, name : AllNames]]
    BY <2>2
  <2>4. kq \in Seq(Events)
    BY <2>2
  <2> QED BY <2>1, <2>2, <2>3, <2>4 DEF KernelTypeOK
<1>3. MarksUnique /\ WritingLive
  BY <1>1 DEF KernelInit, MarksUnique, WritingLive, NoWatches
<1>4. NoMove \in [name : AllNames \cup {<<>>}, dir : BOOLEAN, cookie : Nat]
  BY DEF NoMove
<1>5. ToolTypeOK
  <2>1. buf \in Seq(Events) /\ made \in Seq(Nat)
    BY DEF Init
  <2> QED BY <2>1, <1>4, InfoListEmpty, OpenDirsEmpty DEF Init, ToolTypeOK, Stages
<1>6. ControlOK /\ HeldBack
  BY DEF Init, ControlOK, HeldBack, InHandler, WatchStages
<1>7. EntryBacked /\ FoundBacked
  BY DEF Init, EntryBacked, FoundBacked
<1> QED BY <1>2, <1>3, <1>5, <1>6, <1>7 DEF IndInv, TypeOK

-----------------------------------------------------------------------------
(* One lemma per operation and step of the tool.                           *)
LEMMA createInotifyKeeps == ASSUME IndInv, createInotify PROVE IndInv'
<1>1. KernelInv /\ ToolTypeOK /\ ControlOK /\ HeldBack /\ EntryBacked /\ FoundBacked
  BY Parts DEF ToolInv
<1>2. /\ pc = "idle" /\ found = <<>>
      /\ UNCHANGED <<fsVars, buf, items, modset, wmap, ctlVars, localVars>>
  BY <1>1 DEF createInotify, ControlOK
<1>3. UNCHANGED <<pc, caller, err, todo, made, ret, enter, stack, found, leaked,
                  failed, move, base, visit, buf, wmap>>
  BY <1>2 DEF ctlVars, localVars, apiVars, scanVars, parseVars
<1>4. ToolTypeOK' /\ HeldBack'
  <2>1. fd' \in BOOLEAN /\ calls' \in Nat /\ errorCode' \in {"0", "errno"}
    <3>1. \/ UNCHANGED <<fd, calls>>
          \/ fd' = TRUE /\ calls' = calls + 1
      BY Zenon DEF createInotify
    <3>2. errorCode' \in {"0", "errno"}
      BY DEF createInotify
    <3>3. fd \in BOOLEAN /\ calls \in Nat
      BY <1>1 DEF ToolTypeOK
    <3>4. fd' \in BOOLEAN
      BY <3>1, <3>3, Zenon
    <3>5. calls' \in Nat
      BY <3>1, <3>3
    <3> QED BY <3>2, <3>4, <3>5
  <2> QED BY <1>1, <1>3, <2>1 DEF ToolTypeOK, HeldBack, BetweenReads
<1>5. ControlOK'
  BY <1>1, <1>2, <1>3 DEF createInotify, ControlOK, InHandler, WatchStages
<1>6. KernelInv' /\ EntryBacked' /\ FoundBacked'
  <2>1. CASE UNCHANGED <<kernelVars, dirty>>
    <3>1. UNCHANGED <<envVars, kernelVars>> /\ UNCHANGED buf
      BY <1>2, <1>3, <2>1 DEF envVars
    <3>2. KernelInv' /\ Announces
      BY <1>1, <3>1, StillKernel
    <3> QED BY <1>1, <1>3, <3>1, <3>2, SameBuffer
  <2>2. CASE ~fd /\ NewInstance
    <3>1. KernelInv'
      BY <1>1, <1>2, <2>2, NewInstanceKeeps
    <3>2. DOMAIN wmap' = {} /\ found' = <<>>
      BY <1>1, <1>2, <1>3, <2>2 DEF ControlOK
    <3> QED BY <3>1, <3>2 DEF EntryBacked, FoundBacked
  <2> QED BY <2>1, <2>2 DEF createInotify
<1> QED BY <1>4, <1>5, <1>6, Assemble

LEMMA destroyInotifyKeeps == ASSUME IndInv, destroyInotify PROVE IndInv'
<1>1. KernelInv /\ ToolTypeOK /\ ControlOK /\ HeldBack
  BY Parts DEF ToolInv
<1>2. /\ pc = "idle" /\ found = <<>> /\ NewInstance
      /\ UNCHANGED <<fsVars, calls, buf, ctlVars, localVars>>
      /\ fd' = FALSE /\ errorCode' = "0"
  BY <1>1 DEF destroyInotify, ControlOK
<1>3. UNCHANGED <<pc, caller, err, todo, made, ret, enter, stack, found, leaked,
                  failed, move, base, visit, buf, calls>>
  BY <1>2 DEF ctlVars, localVars, apiVars, scanVars, parseVars
<1>4. DOMAIN wmap' = {}
  BY DEF destroyInotify, Without
<1>5. ToolTypeOK' /\ HeldBack'
  BY <1>1, <1>2, <1>3, <1>4 DEF ToolTypeOK, HeldBack, BetweenReads
<1>6. ControlOK'
  BY <1>1, <1>2, <1>3, <1>4 DEF ControlOK, InHandler, WatchStages
<1>7. KernelInv'
  BY <1>1, <1>2, NewInstanceKeeps
<1>8. EntryBacked' /\ FoundBacked'
  BY <1>2, <1>3, <1>4 DEF EntryBacked, FoundBacked
<1> QED BY <1>5, <1>6, <1>7, <1>8, Assemble

LEMMA WatchCallKeeps ==
  ASSUME IndInv, NEW paths, NEW ev, NEW ok, NEW stage \in {"files", "roots"},
         WatchCall(paths, ev, ok, stage)
  PROVE  IndInv'
<1>1. KernelInv /\ ToolTypeOK /\ ControlOK /\ HeldBack /\ EntryBacked /\ FoundBacked
  BY Parts DEF ToolInv
<1>2. /\ UNCHANGED <<envVars, kernelVars>>
      /\ UNCHANGED <<fd, buf, items, modset, wmap, made, err, enter, stack, found,
                     leaked, failed, move, base, visit>>
      /\ pc = "idle" /\ caller' = "idle" /\ errorCode' = "0" /\ calls' = calls + 1
  BY DEF WatchCall, scanVars, parseVars
<1>3. \/ fd /\ pc' = stage /\ UNCHANGED ret
      \/ /\ pc' = "idle"
         /\ ret' \in {"NO_ERROR", "INVALID_OPERATION", "INVALID_PARAM",
                      "ALREADY_EXISTS"}
  BY <1>2 DEF WatchCall, Refused
<1>4. KernelInv' /\ EntryBacked' /\ FoundBacked'
  <2>1. KernelInv' /\ Announces
    BY <1>1, <1>2, StillKernel
  <2> QED BY <1>1, <1>2, <2>1, SameBuffer
<1>5. ToolTypeOK'
  BY <1>1, <1>2, <1>3 DEF ToolTypeOK, Stages
<1>6. ControlOK' /\ HeldBack'
  BY <1>1, <1>2, <1>3
     DEF ControlOK, HeldBack, InHandler, BetweenReads, WatchStages
<1> QED BY <1>4, <1>5, <1>6, Assemble

LEMMA waitCompleteEventKeeps ==
  ASSUME IndInv, NEW timed, waitCompleteEvent(timed) PROVE IndInv'
<1>1. ToolTypeOK /\ ControlOK /\ HeldBack
  BY Parts DEF ToolInv
<1>2. UNCHANGED <<worldVars, buf, wmap>> /\ found' = found
  BY DEF waitCompleteEvent, scanVars
<1>3. UNCHANGED <<fd, calls>>
  BY <1>2 DEF worldVars
<1>4. KernelInv' /\ EntryBacked' /\ FoundBacked'
  BY <1>2, Frame
<1>5. ToolTypeOK'
  BY <1>1, <1>3 DEF waitCompleteEvent, scanVars, parseVars, ToolTypeOK, Stages
<1>6. ControlOK' /\ HeldBack'
  BY <1>1, <1>3
     DEF waitCompleteEvent, scanVars, parseVars, ControlOK, HeldBack, InHandler,
         BetweenReads, WatchStages
<1> QED BY <1>4, <1>5, <1>6, Assemble

LEMMA getEventItemKeeps == ASSUME IndInv, getEventItem PROVE IndInv'
<1>1. ToolTypeOK /\ ControlOK /\ HeldBack
  BY Parts DEF ToolInv
<1>2. UNCHANGED <<worldVars, buf, wmap>>
      /\ UNCHANGED <<pc, caller, err, todo, made, ret, enter, stack, found,
                     leaked, failed, move, base, visit, errorCode>>
  BY DEF getEventItem, ctlVars, localVars, apiVars, scanVars, parseVars
<1>3. UNCHANGED <<fd, calls>>
  BY <1>2 DEF worldVars
<1>4. KernelInv' /\ EntryBacked' /\ FoundBacked'
  BY <1>2, Frame
<1>5. ToolTypeOK' /\ ControlOK' /\ HeldBack'
  BY <1>1, <1>2, <1>3
     DEF ToolTypeOK, ControlOK, HeldBack, InHandler, BetweenReads
<1> QED BY <1>4, <1>5, Assemble

-----------------------------------------------------------------------------
(* The steps of watchFiles.                                                *)
LEMMA FilesAddKeeps == ASSUME IndInv, FilesAdd PROVE IndInv'
<1> DEFINE path == Head(todo)
           wd == AddedWd(path)
<1>1. KernelInv /\ ToolTypeOK /\ ControlOK /\ HeldBack /\ EntryBacked /\ FoundBacked
  BY Parts DEF ToolInv
<1>2. /\ pc = "files" /\ CanWatch(path) /\ AddWatch(path)
      /\ Insert(wd, path, FALSE) /\ made' = Append(made, wd)
      /\ UNCHANGED <<envVars, fd, calls, errorCode, buf, items, modset, ctlVars,
                     ret, scanVars, parseVars>>
  BY DEF FilesAdd
<1>3. UNCHANGED <<pc, caller, err, enter, stack, found, leaked, failed, move,
                  base, visit, fd, calls, errorCode, buf, ret, fsVars, dirty>>
  BY <1>2 DEF ctlVars, scanVars, parseVars, envVars
<1>4. KernelInv' /\ Announces /\ wd \in DOMAIN marks' /\ wd \in Nat
  BY <1>1, <1>2, <1>3, AddWatchKeeps
<1>5. /\ DOMAIN wmap' \subseteq DOMAIN wmap \cup {wd}
      /\ DOMAIN wmap' \subseteq Nat
      /\ \A v \in DOMAIN wmap' : wmap'[v].rec \in BOOLEAN
  BY <1>1, <1>2, <1>4, InsertKeeps
<1> HIDE DEF wd, path
<1>6. made' \in Seq(Nat)
  BY <1>1, <1>2, <1>4 DEF ToolTypeOK
<1>7. ToolTypeOK'
  BY <1>1, <1>3, <1>5, <1>6 DEF ToolTypeOK
<1>8. ControlOK' /\ HeldBack'
  BY <1>1, <1>2, <1>3 DEF ControlOK, HeldBack, InHandler, BetweenReads, WatchStages
<1>9. EntryBacked' /\ FoundBacked'
  BY <1>1, <1>3, <1>4, <1>5, SameBuffer
<1> QED BY <1>4, <1>7, <1>8, <1>9, Assemble

LEMMA FilesFailKeeps == ASSUME IndInv, FilesFail PROVE IndInv'
<1>1. ToolTypeOK /\ ControlOK /\ HeldBack
  BY Parts DEF ToolInv
<1>2. /\ pc = "files" /\ pc' = "rollback" /\ errorCode' = "errno"
      /\ UNCHANGED <<worldVars, buf, wmap>>
      /\ UNCHANGED <<fd, calls, caller, err, made, ret, enter, stack, found, leaked,
                     failed, move, base, visit, buf, wmap>>
  BY DEF FilesFail, worldVars, scanVars, parseVars
<1>3. KernelInv' /\ EntryBacked' /\ FoundBacked'
  BY <1>2, Frame
<1>4. ToolTypeOK'
  BY <1>1, <1>2 DEF ToolTypeOK, Stages
<1>5. ControlOK' /\ HeldBack'
  BY <1>1, <1>2 DEF ControlOK, HeldBack, InHandler, BetweenReads, WatchStages
<1> QED BY <1>3, <1>4, <1>5, Assemble

(* The ends of the watch calls.                                            *)
LEMMA ReturnKeeps ==
  ASSUME IndInv, pc \in {"files", "rollback", "roots"},
         NEW code \in {"NO_ERROR", "UNKNOWN_ERROR"}, Return(code),
         UNCHANGED <<worldVars, errorCode, buf, wmap, caller, err>>,
         made' = <<>> \/ UNCHANGED made, UNCHANGED <<scanVars, parseVars>>
  PROVE  IndInv'
<1>1. ToolTypeOK /\ ControlOK /\ HeldBack
  BY Parts DEF ToolInv
<1>2. UNCHANGED <<fd, calls, errorCode, caller, err, enter, stack, found, leaked,
                  failed, move, base, visit, buf, wmap>>
      /\ UNCHANGED <<worldVars, buf, wmap>>
  BY DEF worldVars, scanVars, parseVars
<1>3. pc' = caller /\ ret' \in {ret, code}
  BY DEF Return
<1>4. KernelInv' /\ EntryBacked' /\ FoundBacked'
  BY <1>2, Frame
<1>5. made' \in Seq(Nat)
  <2>1. made \in Seq(Nat) /\ <<>> \in Seq(Nat)
    BY <1>1 DEF ToolTypeOK
  <2> QED BY <2>1
<1>6. ToolTypeOK'
  BY <1>1, <1>2, <1>3, <1>5 DEF ToolTypeOK, Stages
<1>7. ControlOK' /\ HeldBack'
  BY <1>1, <1>2, <1>3
     DEF ToolTypeOK, ControlOK, HeldBack, InHandler, BetweenReads, WatchStages
<1> QED BY <1>4, <1>6, <1>7, Assemble

LEMMA FilesDoneKeeps == ASSUME IndInv, FilesDone PROVE IndInv'
  BY ReturnKeeps DEF FilesDone

LEMMA RollbackDoneKeeps == ASSUME IndInv, RollbackDone PROVE IndInv'
  BY ReturnKeeps DEF RollbackDone

LEMMA RootsDoneKeeps == ASSUME IndInv, RootsDone PROVE IndInv'
  BY ReturnKeeps DEF RootsDone

LEMMA RollbackKeeps == ASSUME IndInv, Rollback PROVE IndInv'
<1>1. KernelInv /\ ToolTypeOK /\ ControlOK /\ HeldBack /\ EntryBacked /\ FoundBacked
  BY Parts DEF ToolInv
<1>2. /\ pc = "rollback" /\ made # <<>> /\ made' = Tail(made)
      /\ RmWatch(Head(made)) /\ wmap' = Without({Head(made)})
      /\ UNCHANGED <<fsVars, dirty, fd, calls, errorCode, buf, pc, caller, err, ret,
                     enter, stack, found, leaked, failed, move, base, visit>>
  BY DEF Rollback, envVars, ctlVars, scanVars, parseVars
<1>3. KernelInv' /\ Announces
  BY <1>1, <1>2, RmWatchKeeps
<1>4. /\ DOMAIN wmap' \subseteq DOMAIN wmap
      /\ \A v \in DOMAIN wmap' : wmap'[v].rec \in BOOLEAN
  BY <1>1, <1>2, WithoutKeeps
<1>5. made' \in Seq(Nat)
  BY <1>1, <1>2 DEF ToolTypeOK
<1>6. ToolTypeOK'
  BY <1>1, <1>2, <1>4, <1>5 DEF ToolTypeOK
<1>7. ControlOK' /\ HeldBack'
  BY <1>1, <1>2 DEF ControlOK, HeldBack, InHandler, BetweenReads, WatchStages
<1>8. EntryBacked' /\ FoundBacked'
  BY <1>1, <1>2, <1>3, <1>4, SameBuffer
<1> QED BY <1>3, <1>6, <1>7, <1>8, Assemble

-----------------------------------------------------------------------------
(* The steps of watchRecursive.                                            *)
LEMMA NextRootKeeps == ASSUME IndInv, NextRoot PROVE IndInv'
<1>1. ToolTypeOK /\ ControlOK /\ HeldBack
  BY Parts DEF ToolInv
<1>2. /\ pc = "roots" /\ pc' = "add"
      /\ UNCHANGED <<worldVars, buf, wmap>>
      /\ UNCHANGED <<fd, calls, errorCode, caller, err, made, ret, stack, found,
                     leaked, failed, move, base, visit, buf, wmap>>
  BY DEF NextRoot, worldVars, ctlVars, parseVars
<1>3. KernelInv' /\ EntryBacked' /\ FoundBacked'
  BY <1>2, Frame
<1>4. ToolTypeOK'
  BY <1>1, <1>2 DEF ToolTypeOK, Stages
<1>5. ControlOK' /\ HeldBack'
  BY <1>1, <1>2 DEF ControlOK, HeldBack, InHandler, BetweenReads, WatchStages
<1> QED BY <1>3, <1>4, <1>5, Assemble

LEMMA ScanFailsKeeps ==
  ASSUME IndInv, pc \in {"add", "opendir", "readdir"}, NEW open \in Nat,
         ScanFails(open), errorCode' \in {"0", "errno"}
  PROVE  IndInv'
<1>1. ToolTypeOK /\ ControlOK /\ HeldBack
  BY Parts DEF ToolInv
<1>2. /\ UNCHANGED <<worldVars, buf, wmap>>
      /\ UNCHANGED <<fd, calls, caller, made, move, base, visit, buf, wmap>>
      /\ pc' = caller /\ ret' \in {ret, "UNKNOWN_ERROR"} /\ err' = TRUE
      /\ leaked' = leaked + open /\ failed' = TRUE /\ stack' = <<>> /\ found' = <<>>
  BY DEF ScanFails, Return, worldVars, parseVars
<1>3. KernelInv' /\ EntryBacked' /\ FoundBacked'
  BY <1>2, Frame
<1>4. ToolTypeOK'
  BY <1>1, <1>2, InfoListEmpty, OpenDirsEmpty DEF ToolTypeOK, Stages
<1>5. ControlOK' /\ HeldBack'
  BY <1>1, <1>2
     DEF ToolTypeOK, ControlOK, HeldBack, InHandler, BetweenReads, WatchStages
<1> QED BY <1>3, <1>4, <1>5, Assemble

LEMMA StackLen == ASSUME IndInv PROVE Len(stack) \in Nat
  BY DEF IndInv, TypeOK, ToolTypeOK, OpenDirsOK

LEMMA ScanAddFailsKeeps == ASSUME IndInv, ScanAddFails PROVE IndInv'
<1>1. errorCode \in {"0", "errno"} /\ Len(stack) \in Nat
  BY StackLen DEF IndInv, TypeOK, ToolTypeOK
<1> QED BY <1>1, ScanFailsKeeps DEF ScanAddFails

LEMMA ScanOpenFailsKeeps == ASSUME IndInv, ScanOpenFails PROVE IndInv'
  BY StackLen, ScanFailsKeeps DEF ScanOpenFails

LEMMA ScanEntryFailsKeeps == ASSUME IndInv, ScanEntryFails PROVE IndInv'
<1>1. pc = "readdir" /\ stack # <<>> /\ OpenDirsOK(stack)
  BY DEF IndInv, TypeOK, ToolTypeOK, ControlOK, ScanEntryFails
<1>2. Len(stack) - 1 \in Nat
  BY <1>1, OpenDirsFront
<1> QED BY <1>1, <1>2, ScanFailsKeeps DEF ScanEntryFails

LEMMA ScanAddKeeps == ASSUME IndInv, ScanAdd PROVE IndInv'
<1> DEFINE path == CorrectionPath(enter)
           wd == AddedWd(path)
<1>1. KernelInv /\ ToolTypeOK /\ ControlOK /\ HeldBack /\ EntryBacked /\ FoundBacked
  BY Parts DEF ToolInv
<1>2. /\ pc = "add" /\ pc' = "opendir" /\ CanWatch(path) /\ AddWatch(path)
      /\ found' = Append(found, [wd |-> wd, path |-> path])
      /\ UNCHANGED <<fsVars, dirty, fd, calls, errorCode, buf, wmap, caller, err,
                     made, ret, stack, leaked, failed, move, base, visit>>
  BY DEF ScanAdd, envVars, apiVars, parseVars
<1>3. KernelInv' /\ Announces /\ wd \in DOMAIN marks' /\ wd \in Nat
  BY <1>1, <1>2, AddWatchKeeps
<1> HIDE DEF wd, path
<1>4. InfoListOK(found')
  BY <1>1, <1>2, <1>3, InfoListAppend DEF ToolTypeOK
<1>5. ToolTypeOK'
  BY <1>1, <1>2, <1>4 DEF ToolTypeOK, Stages
<1>6. ControlOK' /\ HeldBack'
  BY <1>1, <1>2 DEF ControlOK, HeldBack, InHandler, BetweenReads, WatchStages
<1>7. \A k \in DOMAIN found' : found'[k].wd = wd \/ \E j \in DOMAIN found :
                                                   found[j].wd = found'[k].wd
  <2> DEFINE e == [wd |-> wd, path |-> path]
             T == [wd : Nat, path : {found[k].path : k \in DOMAIN found}]
  <2>1. found \in Seq(T) /\ e.wd = wd
    BY <1>1 DEF ToolTypeOK, InfoListOK
  <2>2. found' = Append(found, e)
    BY <1>2
  <2> HIDE DEF T, e
  <2>3. \A k \in DOMAIN found' : found'[k] = e \/ (k \in DOMAIN found /\
                                                  found'[k] = found[k])
    BY <2>1, <2>2
  <2> QED BY <2>1, <2>3
<1>8. EntryBacked' /\ FoundBacked'
  <2>1. UNCHANGED buf /\ DOMAIN wmap' = DOMAIN wmap
    BY <1>2
  <2> QED BY <1>1, <1>3, <1>7, <2>1, SameBuffer
<1> QED BY <1>3, <1>5, <1>6, <1>8, Assemble

LEMMA ScanOpenKeeps == ASSUME IndInv, ScanOpen PROVE IndInv'
<1>1. KernelInv /\ ToolTypeOK /\ ControlOK /\ HeldBack /\ EntryBacked /\ FoundBacked
  BY Parts DEF ToolInv
<1>2. /\ pc = "opendir" /\ pc' = "readdir" /\ CanOpen(enter) /\ Opendir(enter)
      /\ stack' = Append(stack, [path |-> enter, left |-> Listing(enter)])
      /\ UNCHANGED <<fsVars, dirty, fd, calls, errorCode, buf, wmap, caller, err,
                     made, ret, found, leaked, failed, move, base, visit>>
  BY DEF ScanOpen, envVars, apiVars, parseVars
<1>3. KernelInv' /\ Announces
  BY <1>1, <1>2, OpendirKeeps
<1>4. OpenDirsOK(stack') /\ stack' # <<>>
  <2>1. Listing(enter) \in SUBSET AllNames
    BY <1>1, ListingType DEF KernelInv
  <2> QED BY <1>1, <1>2, <2>1, OpenDirsAppend DEF ToolTypeOK
<1>5. ToolTypeOK'
  BY <1>1, <1>2, <1>4 DEF ToolTypeOK, Stages
<1>6. ControlOK' /\ HeldBack'
  BY <1>1, <1>2, <1>4 DEF ControlOK, HeldBack, InHandler, BetweenReads, WatchStages
<1>7. EntryBacked' /\ FoundBacked'
  <2>1. UNCHANGED buf /\ UNCHANGED wmap /\ UNCHANGED found
    BY <1>2
  <2> QED BY <1>1, <1>3, <2>1, SameBuffer
<1> QED BY <1>3, <1>5, <1>6, <1>7, Assemble

LEMMA ScanEntryKeeps == ASSUME IndInv, NEW n, ScanEntry(n) PROVE IndInv'
<1>1. ToolTypeOK /\ ControlOK /\ HeldBack
  BY Parts DEF ToolInv
<1>2. /\ pc = "readdir" /\ pc' \in {"readdir", "add"}
      /\ stack' = [stack EXCEPT ![Len(stack)] =
                     [path |-> @.path, left |-> @.left \ {n}]]
      /\ UNCHANGED <<worldVars, buf, wmap>>
      /\ UNCHANGED <<fd, calls, errorCode, caller, err, made, ret, found, leaked,
                     failed, move, base, visit, buf, wmap>>
  BY DEF ScanEntry, worldVars, apiVars, parseVars
<1>3. KernelInv' /\ EntryBacked' /\ FoundBacked'
  BY <1>2, Frame
<1>4. OpenDirsOK(stack') /\ stack' # <<>>
  BY <1>1, <1>2, OpenDirsExcept DEF ToolTypeOK, ControlOK
<1>5. ToolTypeOK'
  BY <1>1, <1>2, <1>4 DEF ToolTypeOK, Stages
<1>6. ControlOK' /\ HeldBack'
  BY <1>1, <1>2, <1>4 DEF ControlOK, HeldBack, InHandler, BetweenReads, WatchStages
<1> QED BY <1>3, <1>5, <1>6, Assemble

LEMMA ScanCloseKeeps == ASSUME IndInv, ScanClose PROVE IndInv'
<1>1. ToolTypeOK /\ ControlOK /\ HeldBack
  BY Parts DEF ToolInv
<1>2. /\ pc = "readdir" /\ pc' = Popped /\ stack' = Front(stack)
      /\ UNCHANGED <<worldVars, buf, wmap>>
      /\ UNCHANGED <<fd, calls, errorCode, caller, err, made, ret, found, leaked,
                     failed, move, base, visit, buf, wmap>>
  BY DEF ScanClose, worldVars, apiVars, parseVars
<1>3. KernelInv' /\ EntryBacked' /\ FoundBacked'
  BY <1>2, Frame
<1>4. OpenDirsOK(stack') /\ (Len(stack) = 1 <=> stack' = <<>>)
  BY <1>1, <1>2, OpenDirsFront DEF ToolTypeOK, ControlOK
<1>5. pc' = IF stack' = <<>> THEN "insert" ELSE "readdir"
  BY <1>2, <1>4 DEF Popped
<1>6. ToolTypeOK'
  BY <1>1, <1>2, <1>4, <1>5 DEF ToolTypeOK, Stages
<1>7. ControlOK' /\ HeldBack'
  BY <1>1, <1>2, <1>5 DEF ControlOK, HeldBack, InHandler, BetweenReads, WatchStages
<1> QED BY <1>3, <1>6, <1>7, Assemble

LEMMA InsertFoundKeeps == ASSUME IndInv, InsertFound PROVE IndInv'
<1>1. KernelInv /\ ToolTypeOK /\ ControlOK /\ HeldBack /\ EntryBacked /\ FoundBacked
  BY Parts DEF ToolInv
<1>2. /\ pc = "insert" /\ found # <<>> /\ found' = Tail(found)
      /\ Insert(Head(found).wd, Head(found).path, TRUE)
      /\ UNCHANGED <<envVars, kernelVars>>
      /\ UNCHANGED <<fd, calls, errorCode, buf, pc, caller, err, made, ret, stack,
                     leaked, failed, move, base, visit>>
  BY DEF InsertFound, worldVars, ctlVars, apiVars, parseVars
<1>3. KernelInv' /\ Announces
  BY <1>1, <1>2, StillKernel
<1>4. InfoListOK(found') /\ Head(found).wd \in Nat
  BY <1>1, <1>2, InfoListTail DEF ToolTypeOK
<1>5. /\ DOMAIN wmap' \subseteq DOMAIN wmap \cup {Head(found).wd}
      /\ DOMAIN wmap' \subseteq Nat
      /\ \A v \in DOMAIN wmap' : wmap'[v].rec \in BOOLEAN
  BY <1>1, <1>2, <1>4, InsertKeeps
<1>6. ToolTypeOK'
  BY <1>1, <1>2, <1>4, <1>5 DEF ToolTypeOK
<1>7. ControlOK' /\ HeldBack'
  BY <1>1, <1>2 DEF ControlOK, HeldBack, InHandler, BetweenReads, WatchStages
<1>8. /\ 1 \in DOMAIN found /\ Head(found) = found[1]
      /\ \A k \in DOMAIN found' : k + 1 \in DOMAIN found /\ found'[k] = found[k + 1]
  <2> DEFINE T == [wd : Nat, path : {found[k].path : k \in DOMAIN found}]
  <2>1. found \in Seq(T)
    BY <1>1 DEF ToolTypeOK, InfoListOK
  <2> HIDE DEF T
  <2> QED BY <1>2, <2>1
<1>9. EntryBacked' /\ FoundBacked'
  <2>1. \A v \in DOMAIN wmap' :
          v \in DOMAIN wmap \/ v \in DOMAIN marks'
            \/ \E k \in DOMAIN found : found[k].wd = v
    BY <1>5, <1>8
  <2>2. \A k \in DOMAIN found' :
          \/ \E j \in DOMAIN found : found[j].wd = found'[k].wd
          \/ found'[k].wd \in DOMAIN marks'
    BY <1>8
  <2>3. UNCHANGED buf
    BY <1>2
  <2> QED BY <1>1, <1>3, <2>1, <2>2, <2>3, SameBuffer
<1> QED BY <1>3, <1>6, <1>7, <1>9, Assemble

LEMMA InsertDoneKeeps == ASSUME IndInv, InsertDone PROVE IndInv'
<1>1. ToolTypeOK /\ ControlOK /\ HeldBack
  BY Parts DEF ToolInv
<1>2. /\ pc = "insert" /\ pc' = (IF caller = "idle" THEN "roots" ELSE caller)
      /\ found = <<>> /\ UNCHANGED <<worldVars, buf, wmap>>
      /\ UNCHANGED <<fd, calls, errorCode, caller, err, made, ret, stack, found,
                     leaked, failed, move, base, visit, buf, wmap>>
  BY DEF InsertDone, worldVars, localVars, apiVars, scanVars, parseVars
<1>3. KernelInv' /\ EntryBacked' /\ FoundBacked'
  BY <1>2, Frame
<1>4. ToolTypeOK'
  BY <1>1, <1>2 DEF ToolTypeOK, Stages
<1>5. ControlOK' /\ HeldBack'
  BY <1>1, <1>2
     DEF ToolTypeOK, ControlOK, HeldBack, InHandler, BetweenReads, WatchStages
<1> QED BY <1>3, <1>4, <1>5, Assemble

-----------------------------------------------------------------------------
(* waitCompleteEvent and _parseEvent.                                      *)
LEMMA ReadKeeps == ASSUME IndInv, Read PROVE IndInv'
<1>1. KernelInv /\ ToolTypeOK /\ ControlOK /\ HeldBack /\ EntryBacked /\ FoundBacked
  BY Parts DEF ToolInv
<1>2. /\ pc = "read" /\ stack = <<>> /\ found = <<>> /\ fd
      /\ UNCHANGED <<envVars, marks, nextWd, lost>>
      /\ UNCHANGED <<fd, calls, wmap, caller, err, made, stack, found, leaked,
                     failed, move, base, visit>>
  BY <1>1 DEF Read, scanVars, parseVars, ControlOK
<1>3. CASE kq # <<>> /\ pc' = "parse"
  <2>1. PICK c \in Capacity : /\ buf' = buf \o SubSeq(kq, 1, AtMost(c))
                              /\ kq' = SubSeq(kq, AtMost(c) + 1, Len(kq))
    BY <1>3 DEF Read
  <2>2. UNCHANGED <<ret, errorCode>>
    BY <1>3 DEF Read
  <2> DEFINE n == AtMost(c)
             r == SubSeq(kq, 1, n)
  <2>3. kq \in Seq(Events) /\ buf \in Seq(Events) /\ Len(kq) \in Nat
        /\ n \in 0..Len(kq)
    BY <1>1, ToolAssumption DEF KernelInv, KernelTypeOK, ToolTypeOK, AtMost
  <2> HIDE DEF n
  <2>4. /\ r \in Seq(Events) /\ Len(r) = n
        /\ \A k \in 1..n : r[k] = kq[k]
    <3>1. \A k \in 1..n : kq[k] \in Events
      BY <2>3, ElementOfSeq
    <3>2. 1 \in Int /\ n \in Int
      BY <2>3
    <3>3. /\ r \in Seq(Events)
          /\ Len(r) = IF 1 <= n THEN n - 1 + 1 ELSE 0
          /\ \A k \in 1..(n - 1 + 1) : r[k] = kq[1 + k - 1]
      BY <3>1, <3>2, SubSeqProperties
    <3> HIDE DEF r
    <3>4. (IF 1 <= n THEN n - 1 + 1 ELSE 0) = n /\ 1..(n - 1 + 1) = 1..n
          /\ \A k \in 1..n : 1 + k - 1 = k
      BY <2>3
    <3> QED BY <3>3, <3>4
  <2>5. /\ kq' \in Seq(Events) /\ Len(kq') = Len(kq) - n
        /\ \A k \in 1..(Len(kq) - n) : kq'[k] = kq[n + k]
    <3>1. \A k \in (n + 1)..Len(kq) : kq[k] \in Events
      BY <2>3, ElementOfSeq
    <3>2. n + 1 \in Int /\ Len(kq) \in Int
      BY <2>3
    <3>3. kq' = SubSeq(kq, n + 1, Len(kq))
      BY <2>1 DEF n
    <3>4. /\ kq' \in Seq(Events)
          /\ Len(kq') = IF n + 1 <= Len(kq) THEN Len(kq) - (n + 1) + 1 ELSE 0
          /\ \A k \in 1..(Len(kq) - (n + 1) + 1) : kq'[k] = kq[n + 1 + k - 1]
      BY <3>1, <3>2, <3>3, SubSeqProperties
    <3>5. (IF n + 1 <= Len(kq) THEN Len(kq) - (n + 1) + 1 ELSE 0) = Len(kq) - n
          /\ Len(kq) - (n + 1) + 1 = Len(kq) - n
          /\ \A k \in 1..(Len(kq) - n) : n + 1 + k - 1 = n + k
      BY <2>3
    <3> QED BY <3>4, <3>5
  <2>6. /\ buf' \in Seq(Events) /\ Len(buf') = Len(buf) + n
        /\ \A k \in 1..(Len(buf) + n) :
             buf'[k] = IF k <= Len(buf) THEN buf[k] ELSE r[k - Len(buf)]
    <3>1. buf' = buf \o r
      BY <2>1 DEF n
    <3> HIDE DEF r
    <3>2. /\ buf \o r \in Seq(Events)
          /\ Len(buf \o r) = Len(buf) + Len(r)
          /\ \A k \in 1..(Len(buf) + Len(r)) :
               (buf \o r)[k] = IF k <= Len(buf) THEN buf[k] ELSE r[k - Len(buf)]
      BY <2>3, <2>4, ConcatProperties
    <3> QED BY <2>4, <3>1, <3>2
  <2>7. \A e \in Pending : e \in Pending'
    <3>1. ASSUME NEW k \in 1..Len(buf) PROVE buf[k] \in Records(buf')
      <4>1. k \in 1..Len(buf') /\ buf'[k] = buf[k]
        BY <2>3, <2>6
      <4> QED BY <4>1 DEF Records
    <3>2. ASSUME NEW k \in 1..Len(kq)
          PROVE  kq[k] \in Records(buf') \/ kq[k] \in Records(kq')
      <4>1. CASE k <= n
        <5>1. Len(buf) + k \in 1..Len(buf') /\ buf'[Len(buf) + k] = r[k]
              /\ r[k] = kq[k]
          <6> HIDE DEF r
          <6> QED BY <2>3, <2>4, <2>6, <4>1
        <5> QED BY <5>1 DEF Records
      <4>2. CASE ~(k <= n)
        <5>1. k - n \in 1..(Len(kq) - n) /\ n + (k - n) = k
          BY <2>3, <4>2
        <5>2. k - n \in 1..Len(kq') /\ kq'[k - n] = kq[k]
          BY <2>5, <5>1
        <5> QED BY <5>2 DEF Records
      <4> QED BY <4>1, <4>2
    <3> QED BY <3>1, <3>2 DEF Pending, Records
  <2>8. KernelInv'
    <3>1. UNCHANGED <<loc, writing, unlinked, ops, cookie, dirty>>
      BY <1>2 DEF envVars, fsVars
    <3> QED
      BY <1>1, <1>2, <2>5, <3>1
         DEF KernelInv, KernelTypeOK, MarksUnique, WritingLive, There, Live
  <2>9. ToolTypeOK'
    BY <1>1, <1>2, <1>3, <2>2, <2>6 DEF ToolTypeOK, Stages
  <2>10. ControlOK' /\ HeldBack'
    BY <1>2, <1>3 DEF ControlOK, HeldBack, InHandler, BetweenReads, WatchStages
  <2>11. EntryBacked' /\ FoundBacked'
    BY <1>1, <1>2, <2>7 DEF EntryBacked, FoundBacked, Backed
  <2> QED BY <2>8, <2>9, <2>10, <2>11, Assemble
<1>4. CASE pc' = "idle" /\ UNCHANGED <<kq, buf>>
  <2>1. ret' \in {"NO_ERROR", "UNKNOWN_ERROR"} /\ errorCode' \in {errorCode, "errno"}
    BY <1>4 DEF Read
  <2>2. UNCHANGED <<envVars, kernelVars>>
    BY <1>2, <1>4 DEF kernelVars
  <2>3. KernelInv' /\ Announces
    BY <1>1, <2>2, StillKernel
  <2>4. EntryBacked' /\ FoundBacked'
    BY <1>1, <1>2, <1>4, <2>3, SameBuffer
  <2>5. ToolTypeOK'
    BY <1>1, <1>2, <1>4, <2>1 DEF ToolTypeOK, Stages
  <2>6. ControlOK' /\ HeldBack'
    BY <1>1, <1>2, <1>4
       DEF ControlOK, HeldBack, InHandler, BetweenReads, WatchStages
  <2> QED BY <2>3, <2>4, <2>5, <2>6, Assemble
<1> QED BY <1>3, <1>4 DEF Read

(* The end of a handler: the record leaves the buffer.                     *)
LEMMA ParsePop ==
  ASSUME ToolInv, pc \in {"parse", "created", "moved_in", "purge"}, pc' = "parse",
         buf # <<>>, buf' = Tail(buf),
         UNCHANGED <<fd, calls, errorCode, caller, err, made, ret, stack, found,
                     leaked, failed>>,
         visit' \subseteq Nat,
         move' \in [name : AllNames \cup {<<>>}, dir : BOOLEAN, cookie : Nat],
         DOMAIN wmap' \subseteq DOMAIN wmap,
         \A v \in DOMAIN wmap' : wmap'[v].rec \in BOOLEAN
  PROVE  ToolTypeOK' /\ ControlOK' /\ HeldBack'
<1>1. ToolTypeOK /\ ControlOK
  BY DEF ToolInv
<1>2. buf' \in Seq(Events)
  BY <1>1, Popping
<1>3. ToolTypeOK'
  BY <1>1, <1>2 DEF ToolTypeOK, Stages
<1>4. ControlOK' /\ HeldBack'
  BY <1>1 DEF ControlOK, HeldBack, InHandler, BetweenReads, WatchStages
<1> QED BY <1>3, <1>4

(* A handler that only reports, for a record other than IGNORED.           *)
LEMMA ReportKeeps ==
  ASSUME IndInv, pc = "parse", HeaderFits(buf), Head(buf).ev # "IGNORED",
         buf' = Tail(buf),
         UNCHANGED <<worldVars, errorCode, wmap, ctlVars, apiVars, scanVars, visit>>,
         move' \in [name : AllNames \cup {<<>>}, dir : BOOLEAN, cookie : Nat]
  PROVE  IndInv'
<1>1. KernelInv /\ ToolInv /\ ToolTypeOK /\ EntryBacked /\ FoundBacked
  BY Parts DEF ToolInv
<1>2. /\ UNCHANGED <<envVars, kernelVars>>
      /\ UNCHANGED <<fd, calls, errorCode, pc, caller, err, made, ret, stack, found,
                     leaked, failed, visit, wmap>>
  BY DEF worldVars, ctlVars, apiVars, scanVars
<1>3. buf # <<>>
  BY <1>1, HeaderFitsNonempty
<1>4. KernelInv' /\ Announces
  BY <1>1, <1>2, StillKernel
<1>5. EntryBacked' /\ FoundBacked'
  BY <1>1, <1>2, <1>3, <1>4, PoppedBuffer
<1>6. ToolTypeOK' /\ ControlOK' /\ HeldBack'
  BY <1>1, <1>2, <1>3, ParsePop DEF ToolTypeOK
<1> QED BY <1>4, <1>5, <1>6, Assemble

LEMMA MoveType ==
  ASSUME IndInv
  PROVE  move \in [name : AllNames \cup {<<>>}, dir : BOOLEAN, cookie : Nat]
  BY DEF IndInv, TypeOK, ToolTypeOK

LEMMA OnOverflowKeeps == ASSUME IndInv, OnOverflow PROVE IndInv'
  BY MoveType, ReportKeeps DEF OnOverflow, Parsing, localVars, parseVars

LEMMA OnNamelessKeeps == ASSUME IndInv, OnNameless PROVE IndInv'
  BY MoveType, ReportKeeps
     DEF OnNameless, Mapped, Parsing, Unnamed, localVars, parseVars

LEMMA OnDeleteKeeps == ASSUME IndInv, OnDelete PROVE IndInv'
  BY MoveType, ReportKeeps
     DEF OnDelete, Named, Mapped, Parsing, Unnamed, localVars, parseVars

LEMMA OnModifyKeeps == ASSUME IndInv, OnModify PROVE IndInv'
  BY MoveType, ReportKeeps
     DEF OnModify, Named, Mapped, Parsing, Unnamed, localVars, parseVars

LEMMA OnMovedFromKeeps == ASSUME IndInv, OnMovedFrom PROVE IndInv'
<1>1. /\ pc = "parse" /\ HeaderFits(buf) /\ Head(buf).ev = "MOVED_FROM"
      /\ move' = [name |-> Head(buf).name, dir |-> Head(buf).dir,
                  cookie |-> Head(buf).cookie]
      /\ buf' = Tail(buf)
      /\ UNCHANGED <<worldVars, errorCode, wmap, ctlVars, apiVars, scanVars, visit>>
  BY DEF OnMovedFrom, Named, Mapped, Parsing
<1>2. Head(buf) \in Events
  BY <1>1, Parts, HeaderFitsNonempty DEF ToolInv
<1>3. move' \in [name : AllNames \cup {<<>>}, dir : BOOLEAN, cookie : Nat]
  BY <1>1, <1>2 DEF Events
<1> QED BY <1>1, <1>3, ReportKeeps

LEMMA OnCloseWriteKeeps == ASSUME IndInv, OnCloseWrite PROVE IndInv'
<1>1. KernelInv /\ ToolInv /\ ToolTypeOK /\ EntryBacked /\ FoundBacked
  BY Parts DEF ToolInv
<1>2. /\ pc = "parse" /\ HeaderFits(buf) /\ Head(buf).ev = "CLOSE_WRITE"
      /\ buf' = Tail(buf)
      /\ UNCHANGED <<fsVars, kernelVars>>
      /\ UNCHANGED <<fd, calls, errorCode, pc, caller, err, made, ret, stack, found,
                     leaked, failed, move, visit, wmap>>
  BY DEF OnCloseWrite, Named, Mapped, Parsing, ctlVars, localVars, apiVars,
         scanVars, parseVars
<1>3. dirty' \subseteq dirty
  BY Zenon DEF OnCloseWrite
<1>4. buf # <<>>
  BY <1>1, <1>2, HeaderFitsNonempty
<1>5. UNCHANGED <<loc, writing, unlinked, used, ops, cookie, marks, nextWd, kq, lost>>
  BY <1>2 DEF fsVars, kernelVars
<1>6. KernelInv' /\ Announces
  BY <1>1, <1>3, <1>5, SameQueue
     DEF KernelInv, KernelTypeOK, MarksUnique, WritingLive, There, Live, Announces
<1>7. EntryBacked' /\ FoundBacked'
  BY <1>1, <1>2, <1>4, <1>6, PoppedBuffer
<1>8. ToolTypeOK' /\ ControlOK' /\ HeldBack'
  BY <1>1, <1>2, <1>4, ParsePop DEF ToolTypeOK
<1> QED BY <1>6, <1>7, <1>8, Assemble

(* A handler that ends the watch of the record's descriptor.               *)
LEMMA RmWatchPopKeeps ==
  ASSUME IndInv, pc = "parse", HeaderFits(buf), Head(buf).ev # "IGNORED",
         buf' = Tail(buf), RmWatch(Head(buf).wd),
         UNCHANGED <<envVars, fd, calls, errorCode, ctlVars, localVars>>,
         DOMAIN wmap' \subseteq DOMAIN wmap,
         \A v \in DOMAIN wmap' : wmap'[v].rec \in BOOLEAN
  PROVE  IndInv'
<1>1. KernelInv /\ ToolInv /\ ToolTypeOK /\ EntryBacked /\ FoundBacked
  BY Parts DEF ToolInv
<1>2. /\ UNCHANGED <<fsVars, dirty>>
      /\ UNCHANGED <<fd, calls, errorCode, pc, caller, err, made, ret, stack, found,
                     leaked, failed, move, visit>>
  BY DEF envVars, ctlVars, localVars, apiVars, scanVars, parseVars
<1>3. buf # <<>>
  BY <1>1, HeaderFitsNonempty
<1>4. KernelInv' /\ Announces
  BY <1>1, <1>2, RmWatchKeeps
<1>5. EntryBacked' /\ FoundBacked'
  BY <1>1, <1>2, <1>3, <1>4, PoppedBuffer
<1>6. ToolTypeOK' /\ ControlOK' /\ HeldBack'
  BY <1>1, <1>2, <1>3, ParsePop DEF ToolTypeOK
<1> QED BY <1>4, <1>5, <1>6, Assemble

LEMMA OnDeleteSelfKeeps == ASSUME IndInv, OnDeleteSelf PROVE IndInv'
<1>1. DOMAIN wmap' \subseteq DOMAIN wmap
      /\ \A v \in DOMAIN wmap' : wmap'[v].rec \in BOOLEAN
  BY DEF IndInv, TypeOK, ToolTypeOK, OnDeleteSelf
<1> QED BY <1>1, RmWatchPopKeeps DEF OnDeleteSelf, Parsing

LEMMA OnUnmountKeeps == ASSUME IndInv, OnUnmount PROVE IndInv'
<1>1. DOMAIN wmap' \subseteq DOMAIN wmap
      /\ \A v \in DOMAIN wmap' : wmap'[v].rec \in BOOLEAN
  BY WithoutKeeps DEF IndInv, TypeOK, OnUnmount
<1> QED BY <1>1, RmWatchPopKeeps DEF OnUnmount, Mapped, Parsing

(* The IGNORED record goes, and with it the entry it backed.               *)
LEMMA OnIgnoredKeeps == ASSUME IndInv, OnIgnored PROVE IndInv'
<1>1. KernelInv /\ ToolInv /\ ToolTypeOK /\ ControlOK /\ EntryBacked /\ FoundBacked
  BY Parts DEF ToolInv
<1>2. /\ pc = "parse" /\ HeaderFits(buf)
      /\ buf' = Tail(buf) /\ wmap' = Without({Head(buf).wd})
      /\ UNCHANGED <<envVars, kernelVars>>
      /\ UNCHANGED <<fd, calls, errorCode, pc, caller, err, made, ret, stack, found,
                     leaked, failed, move, visit>>
  BY DEF OnIgnored, Parsing, worldVars, ctlVars, localVars, apiVars, scanVars,
         parseVars
<1>3. buf # <<>> /\ found = <<>>
  BY <1>1, <1>2, HeaderFitsNonempty DEF ControlOK
<1>4. KernelInv' /\ Announces
  BY <1>1, <1>2, StillKernel
<1>5. /\ DOMAIN wmap' \subseteq DOMAIN wmap
      /\ \A v \in DOMAIN wmap' : v # Head(buf).wd /\ wmap'[v].rec \in BOOLEAN
  BY <1>1, <1>2, WithoutKeeps
<1>6. UNCHANGED <<marks, kq, lost>>
  BY <1>2 DEF kernelVars
<1>7. \A wd : wd # Head(buf).wd /\ Ignored(wd) \in Records(buf)
                => Ignored(wd) \in Records(buf')
  <2>1. \A wd : Ignored(wd).wd = wd
    BY DEF Ignored, Event
  <2> QED BY <1>1, <1>2, <1>3, <2>1, Popping
<1>8. EntryBacked' /\ FoundBacked'
  <2>1. ASSUME ~lost', NEW wd \in DOMAIN wmap' PROVE Backed(wd)'
    <3>1. Backed(wd) /\ wd # Head(buf).wd
      BY <1>1, <1>5, <1>6, <2>1 DEF EntryBacked
    <3>2. CASE wd \in DOMAIN marks
      BY <1>6, <3>2 DEF Backed
    <3>3. CASE Ignored(wd) \in Records(kq)
      BY <1>6, <3>3 DEF Backed, Pending, Ignored
    <3>4. CASE Ignored(wd) \in Records(buf)
      BY <1>7, <3>1, <3>4 DEF Backed, Pending, Ignored
    <3> QED BY <3>1, <3>2, <3>3, <3>4 DEF Backed, Pending
  <2>2. found' = <<>>
    BY <1>2, <1>3
  <2> QED BY <2>1, <2>2 DEF EntryBacked, FoundBacked
<1>9. ToolTypeOK' /\ ControlOK' /\ HeldBack'
  BY <1>1, <1>2, <1>3, <1>5, ParsePop DEF ToolTypeOK
<1> QED BY <1>4, <1>8, <1>9, Assemble

LEMMA OnUnknownWdKeeps == ASSUME IndInv, OnUnknownWd PROVE IndInv'
<1>1. ToolTypeOK /\ ControlOK
  BY Parts DEF ToolInv
<1>2. /\ pc = "parse" /\ pc' = "aborted"
      /\ UNCHANGED <<worldVars, buf, wmap>>
      /\ UNCHANGED <<fd, calls, errorCode, caller, err, made, ret, stack, found,
                     leaked, failed, move, visit, buf, wmap>>
  BY DEF OnUnknownWd, Parsing, worldVars, localVars, apiVars, scanVars, parseVars
<1>3. KernelInv' /\ EntryBacked' /\ FoundBacked'
  BY <1>2, Frame
<1>4. ToolTypeOK'
  BY <1>1, <1>2 DEF ToolTypeOK, Stages
<1>5. ControlOK' /\ HeldBack'
  BY <1>1, <1>2 DEF ControlOK, HeldBack, InHandler, BetweenReads, WatchStages
<1> QED BY <1>3, <1>4, <1>5, Assemble

LEMMA OnCreateKeeps == ASSUME IndInv, OnCreate PROVE IndInv'
<1>1. ToolTypeOK /\ ControlOK
  BY Parts DEF ToolInv
<1>2. /\ pc = "parse" /\ pc' \in {"add", "created"} /\ caller' = "created"
      /\ err' = FALSE /\ HeaderFits(buf) /\ Head(buf).ev = "CREATE"
      /\ UNCHANGED <<worldVars, buf, wmap>>
      /\ UNCHANGED <<fd, calls, errorCode, made, ret, stack, found, leaked, failed,
                     move, visit, buf, wmap>>
  BY DEF OnCreate, Named, Mapped, Parsing, worldVars, apiVars
<1>3. buf # <<>>
  BY <1>1, <1>2, HeaderFitsNonempty
<1>4. KernelInv' /\ EntryBacked' /\ FoundBacked'
  BY <1>2, Frame
<1>5. ToolTypeOK'
  BY <1>1, <1>2 DEF ToolTypeOK, Stages
<1>6. ControlOK' /\ HeldBack'
  BY <1>1, <1>2, <1>3
     DEF ControlOK, HeldBack, InHandler, BetweenReads, WatchStages
<1> QED BY <1>4, <1>5, <1>6, Assemble

LEMMA CreatedKeeps == ASSUME IndInv, Created PROVE IndInv'
<1>1. KernelInv /\ ToolInv /\ ToolTypeOK /\ ControlOK /\ EntryBacked /\ FoundBacked
  BY Parts DEF ToolInv
<1>2. /\ pc = "created" /\ pc' = "parse" /\ buf' = Tail(buf)
      /\ UNCHANGED <<envVars, kernelVars>>
      /\ UNCHANGED <<fd, calls, errorCode, caller, err, made, ret, stack, found,
                     leaked, failed, move, visit, wmap>>
  BY DEF Created, worldVars, apiVars, scanVars
<1>3. buf # <<>> /\ Head(buf).ev # "IGNORED"
  BY <1>1, <1>2 DEF ControlOK, InHandler
<1>4. KernelInv' /\ Announces
  BY <1>1, <1>2, StillKernel
<1>5. EntryBacked' /\ FoundBacked'
  BY <1>1, <1>2, <1>3, <1>4, PoppedBuffer
<1>6. ToolTypeOK' /\ ControlOK' /\ HeldBack'
  BY <1>1, <1>2, <1>3, ParsePop DEF ToolTypeOK
<1> QED BY <1>4, <1>5, <1>6, Assemble

LEMMA OnMovedToKeeps == ASSUME IndInv, OnMovedTo PROVE IndInv'
<1>1. ToolTypeOK /\ ControlOK
  BY Parts DEF ToolInv
<1>2. /\ pc = "parse" /\ pc' \in {"rename", "add", "files", "moved_in"}
      /\ caller' = "moved_in" /\ err' = FALSE
      /\ HeaderFits(buf) /\ Head(buf).ev = "MOVED_TO"
      /\ errorCode' \in {errorCode, "0"}
      /\ UNCHANGED <<worldVars, buf, wmap>>
      /\ UNCHANGED <<fd, calls, made, ret, stack, found, leaked, failed, move,
                     buf, wmap>>
  BY DEF OnMovedTo, Named, Mapped, Parsing, worldVars
<1>3. visit' \subseteq Nat
  <2>1. UNCHANGED visit \/ visit' \subseteq DOMAIN wmap
    BY DEF OnMovedTo
  <2> QED BY <1>1, <2>1 DEF ToolTypeOK
<1>4. buf # <<>>
  BY <1>1, <1>2, HeaderFitsNonempty
<1>5. KernelInv' /\ EntryBacked' /\ FoundBacked'
  BY <1>2, Frame
<1>6. ToolTypeOK'
  BY <1>1, <1>2, <1>3 DEF ToolTypeOK, Stages
<1>7. ControlOK' /\ HeldBack'
  BY <1>1, <1>2, <1>4
     DEF ControlOK, HeldBack, InHandler, BetweenReads, WatchStages
<1> QED BY <1>5, <1>6, <1>7, Assemble

LEMMA RenameEntryKeeps == ASSUME IndInv, RenameEntry PROVE IndInv'
<1>1. KernelInv /\ ToolTypeOK /\ ControlOK /\ HeldBack /\ EntryBacked /\ FoundBacked
  BY Parts DEF ToolInv
<1>2. /\ pc = "rename"
      /\ UNCHANGED <<envVars, kernelVars>>
      /\ UNCHANGED <<fd, calls, errorCode, pc, caller, err, made, ret, stack, found,
                     leaked, failed, move, buf>>
      /\ visit' \subseteq visit
  BY DEF RenameEntry, worldVars, ctlVars, apiVars, scanVars
<1>3. KernelInv' /\ Announces
  BY <1>1, <1>2, StillKernel
<1>4. /\ DOMAIN wmap' \subseteq DOMAIN wmap
      /\ \A v \in DOMAIN wmap' : wmap'[v].rec \in BOOLEAN
  <2>1. CASE UNCHANGED wmap
    BY <1>1, <2>1 DEF ToolTypeOK
  <2>2. CASE \E wd \in DOMAIN wmap : \E path : Update(wd, path)
    BY <1>1, <2>2, UpdateKeeps
  <2> QED BY <2>1, <2>2 DEF RenameEntry
<1>5. ToolTypeOK'
  BY <1>1, <1>2, <1>4 DEF ToolTypeOK
<1>6. ControlOK' /\ HeldBack'
  BY <1>1, <1>2, <1>4 DEF ControlOK, HeldBack, InHandler, BetweenReads, WatchStages
<1>7. EntryBacked' /\ FoundBacked'
  BY <1>1, <1>2, <1>3, <1>4, SameBuffer
<1> QED BY <1>3, <1>5, <1>6, <1>7, Assemble

LEMMA NoMoveType == NoMove \in [name : AllNames \cup {<<>>}, dir : BOOLEAN,
                                cookie : Nat]
  BY DEF NoMove

LEMMA RenameDoneKeeps == ASSUME IndInv, RenameDone PROVE IndInv'
<1>1. ToolTypeOK /\ ControlOK /\ HeldBack
  BY Parts DEF ToolInv
<1>2. /\ pc = "rename" /\ pc' = "moved_in" /\ move' = NoMove
      /\ UNCHANGED <<worldVars, buf, wmap>>
      /\ UNCHANGED <<fd, calls, errorCode, caller, err, made, ret, stack, found,
                     leaked, failed, visit, buf, wmap>>
  BY DEF RenameDone, worldVars, apiVars, scanVars
<1>3. KernelInv' /\ EntryBacked' /\ FoundBacked'
  BY <1>2, Frame
<1>4. ToolTypeOK'
  BY <1>1, <1>2, NoMoveType DEF ToolTypeOK, Stages
<1>5. ControlOK' /\ HeldBack'
  BY <1>1, <1>2 DEF ControlOK, HeldBack, InHandler, BetweenReads, WatchStages
<1> QED BY <1>3, <1>4, <1>5, Assemble

(* The end of the loop body.                                               *)
LEMMA LoopTailKeeps ==
  ASSUME IndInv, LoopTail, pc \in {"parse", "moved_in"}, buf # <<>>,
         Head(buf).ev \in {"CREATE", "MOVED_TO", "OPEN", "MOVE_SELF"},
         UNCHANGED <<worldVars, errorCode, wmap, caller, err, apiVars, scanVars,
                     move>>
  PROVE  IndInv'
<1>1. KernelInv /\ ToolInv /\ ToolTypeOK /\ ControlOK /\ EntryBacked /\ FoundBacked
  BY Parts DEF ToolInv
<1>2. /\ UNCHANGED <<envVars, kernelVars>>
      /\ UNCHANGED <<fd, calls, errorCode, caller, err, made, ret, stack, found,
                     leaked, failed, move, wmap>>
  BY DEF worldVars, apiVars, scanVars
<1>3. KernelInv' /\ Announces
  BY <1>1, <1>2, StillKernel
<1>4. CASE pc' = "purge" /\ visit' \subseteq DOMAIN wmap /\ UNCHANGED buf
  <2>1. EntryBacked' /\ FoundBacked'
    BY <1>1, <1>2, <1>3, <1>4, SameBuffer
  <2>2. ToolTypeOK'
    BY <1>1, <1>2, <1>4 DEF ToolTypeOK, Stages
  <2>3. ControlOK' /\ HeldBack'
    BY <1>1, <1>2, <1>4
       DEF ControlOK, HeldBack, InHandler, BetweenReads, WatchStages
  <2> QED BY <1>3, <2>1, <2>2, <2>3, Assemble
<1>5. CASE pc' = "parse" /\ buf' = Tail(buf) /\ UNCHANGED visit
  <2>1. EntryBacked' /\ FoundBacked'
    BY <1>1, <1>2, <1>3, <1>5, PoppedBuffer
  <2>2. ToolTypeOK' /\ ControlOK' /\ HeldBack'
    BY <1>1, <1>2, <1>5, ParsePop DEF ToolTypeOK
  <2> QED BY <1>3, <2>1, <2>2, Assemble
<1> QED BY <1>4, <1>5 DEF LoopTail, Purged

LEMMA MovedInKeeps == ASSUME IndInv, MovedIn PROVE IndInv'
<1>1. pc = "moved_in" /\ ControlOK
  BY DEF IndInv, MovedIn
<1>2. buf # <<>> /\ Head(buf).ev \in {"CREATE", "MOVED_TO", "OPEN", "MOVE_SELF"}
  BY <1>1 DEF ControlOK, InHandler
<1> QED BY <1>1, <1>2, LoopTailKeeps DEF MovedIn

LEMMA OnOtherKeeps == ASSUME IndInv, OnOther PROVE IndInv'
<1>1. pc = "parse" /\ HeaderFits(buf) /\ Head(buf).ev \in {"OPEN", "MOVE_SELF"}
  BY DEF OnOther, Named, Mapped, Parsing
<1>2. buf # <<>>
  BY <1>1, HeaderFitsNonempty DEF IndInv, TypeOK
<1> QED BY <1>1, <1>2, LoopTailKeeps DEF OnOther

LEMMA PurgeEntryKeeps == ASSUME IndInv, PurgeEntry PROVE IndInv'
<1> DEFINE wd == Smallest(visit)
<1>1. KernelInv /\ ToolTypeOK /\ ControlOK /\ HeldBack /\ EntryBacked /\ FoundBacked
  BY Parts DEF ToolInv
<1>2. /\ pc = "purge" /\ visit' = visit \ {wd} /\ RmWatch(wd)
      /\ wmap' = Without({wd})
      /\ UNCHANGED <<fsVars, dirty>>
      /\ UNCHANGED <<fd, calls, errorCode, buf, pc, caller, err, made, ret, stack,
                     found, leaked, failed, move>>
  BY DEF PurgeEntry, envVars, ctlVars, apiVars, scanVars
<1> HIDE DEF wd
<1>3. KernelInv' /\ Announces
  BY <1>1, <1>2, RmWatchKeeps
<1>4. /\ DOMAIN wmap' \subseteq DOMAIN wmap
      /\ \A v \in DOMAIN wmap' : wmap'[v].rec \in BOOLEAN
  BY <1>1, <1>2, WithoutKeeps
<1>5. ToolTypeOK'
  BY <1>1, <1>2, <1>4 DEF ToolTypeOK
<1>6. ControlOK' /\ HeldBack'
  BY <1>1, <1>2, <1>4 DEF ControlOK, HeldBack, InHandler, BetweenReads, WatchStages
<1>7. EntryBacked' /\ FoundBacked'
  BY <1>1, <1>2, <1>3, <1>4, SameBuffer
<1> QED BY <1>3, <1>5, <1>6, <1>7, Assemble

LEMMA PurgeDoneKeeps == ASSUME IndInv, PurgeDone PROVE IndInv'
<1>1. KernelInv /\ ToolInv /\ ToolTypeOK /\ ControlOK /\ EntryBacked /\ FoundBacked
  BY Parts DEF ToolInv
<1>2. /\ pc = "purge" /\ pc' = "parse" /\ buf' = Tail(buf) /\ move' = NoMove
      /\ UNCHANGED <<envVars, kernelVars>>
      /\ UNCHANGED <<fd, calls, errorCode, caller, err, made, ret, stack, found,
                     leaked, failed, visit, wmap>>
  BY DEF PurgeDone, worldVars, apiVars, scanVars
<1>3. buf # <<>> /\ Head(buf).ev # "IGNORED"
  BY <1>1, <1>2 DEF ControlOK, InHandler
<1>4. KernelInv' /\ Announces
  BY <1>1, <1>2, StillKernel
<1>5. EntryBacked' /\ FoundBacked'
  BY <1>1, <1>2, <1>3, <1>4, PoppedBuffer
<1>6. ToolTypeOK' /\ ControlOK' /\ HeldBack'
  BY <1>1, <1>2, <1>3, NoMoveType, ParsePop DEF ToolTypeOK
<1> QED BY <1>4, <1>5, <1>6, Assemble

(* What _parseEvent leaves: a record that is too short to be parsed.       *)
LEMMA ParseDoneKeeps == ASSUME IndInv, ParseDone PROVE IndInv'
<1>1. ToolTypeOK /\ ControlOK
  BY Parts DEF ToolInv
<1>2. /\ pc = "parse" /\ pc' = "read" /\ move' = NoMove /\ ~HeaderFits(buf)
      /\ UNCHANGED <<worldVars, buf, wmap>>
      /\ UNCHANGED <<fd, calls, errorCode, caller, err, made, ret, stack, found,
                     leaked, failed, visit, buf, wmap>>
  BY DEF ParseDone, worldVars, apiVars, scanVars
<1>3. buf = <<>> \/ (Len(buf) = 1 /\ buf[1].name = <<>>)
  <2>1. buf \in Seq(Events) /\ Len(buf) \in Nat
    BY <1>1 DEF ToolTypeOK
  <2>2. Len(buf) = 0 => buf = <<>>
    BY <2>1, EmptySeq
  <2>3. Len(buf) = 1 => buf[1].name = <<>>
    BY <1>2, Zenon DEF HeaderFits
  <2>4. ~(Len(buf) > 1)
    BY <1>2, Zenon DEF HeaderFits
  <2>5. ASSUME NEW n \in Nat, ~(n > 1) PROVE n = 0 \/ n = 1
    BY <2>5
  <2>6. Len(buf) = 0 \/ Len(buf) = 1
    BY <2>1, <2>4, <2>5, Zenon
  <2> QED BY <2>2, <2>3, <2>6
<1>4. KernelInv' /\ EntryBacked' /\ FoundBacked'
  BY <1>2, Frame
<1>5. ToolTypeOK'
  BY <1>1, <1>2, NoMoveType DEF ToolTypeOK, Stages
<1>6. ControlOK' /\ HeldBack'
  BY <1>1, <1>2, <1>3
     DEF ControlOK, HeldBack, InHandler, BetweenReads, WatchStages
<1> QED BY <1>4, <1>5, <1>6, Assemble

-----------------------------------------------------------------------------
(* What other processes do, and steps that change nothing.                 *)
LEMMA OthersKeep ==
  ASSUME IndInv, OtherProcesses, UNCHANGED toolVars PROVE IndInv'
<1>1. KernelInv /\ ToolTypeOK /\ ControlOK /\ HeldBack /\ EntryBacked /\ FoundBacked
  BY Parts DEF ToolInv
<1>2. UNCHANGED <<fd, calls, errorCode, buf, pc, caller, err, made, ret, stack,
                  found, leaked, failed, move, visit, wmap>>
  BY DEF toolVars, ctlVars, localVars, apiVars, scanVars, parseVars
<1>3. KernelInv' /\ Announces
  BY <1>1, OtherProcessesKeep
<1>4. EntryBacked' /\ FoundBacked'
  BY <1>1, <1>2, <1>3, SameBuffer
<1>5. ToolTypeOK' /\ ControlOK' /\ HeldBack'
  BY <1>1, <1>2 DEF ToolTypeOK, ControlOK, HeldBack, InHandler, BetweenReads
<1> QED BY <1>3, <1>4, <1>5, Assemble

LEMMA StutterKeeps == ASSUME IndInv, UNCHANGED vars PROVE IndInv'
<1>1. UNCHANGED <<worldVars, buf, wmap>> /\ found' = found
      /\ UNCHANGED <<fd, calls, errorCode, buf, pc, caller, err, made, ret, stack,
                     found, leaked, failed, move, visit, wmap>>
  BY DEF vars, worldVars, envVars, toolVars, ctlVars, localVars, apiVars,
         scanVars, parseVars
<1>2. KernelInv' /\ EntryBacked' /\ FoundBacked'
  BY <1>1, Frame
<1>3. ToolTypeOK' /\ ControlOK' /\ HeldBack'
  BY <1>1, Parts
     DEF ToolInv, ToolTypeOK, ControlOK, HeldBack, InHandler, BetweenReads
<1> QED BY <1>2, <1>3, Assemble

LEMMA CallsKeep == ASSUME IndInv, Calls PROVE IndInv'
<1>1. ASSUME NEW paths, NEW ev, watchFiles(paths, ev) PROVE IndInv'
  BY <1>1, WatchCallKeeps DEF watchFiles
<1>2. ASSUME NEW paths, NEW ev, watchRecursive(paths, ev) PROVE IndInv'
  BY <1>2, WatchCallKeeps DEF watchRecursive
<1> QED
  BY <1>1, <1>2, createInotifyKeeps, destroyInotifyKeeps, waitCompleteEventKeeps,
     getEventItemKeeps DEF Calls

LEMMA WatchStepsKeep == ASSUME IndInv, WatchSteps PROVE IndInv'
  BY FilesAddKeeps, FilesFailKeeps, FilesDoneKeeps, RollbackKeeps,
     RollbackDoneKeeps, NextRootKeeps, RootsDoneKeeps, ScanAddKeeps,
     ScanAddFailsKeeps, ScanOpenKeeps, ScanOpenFailsKeeps, ScanEntryKeeps,
     ScanEntryFailsKeeps, ScanCloseKeeps, InsertFoundKeeps, InsertDoneKeeps
  DEF WatchSteps

LEMMA ParseStepsKeep == ASSUME IndInv, ParseSteps PROVE IndInv'
  BY OnOverflowKeeps, OnDeleteSelfKeeps, OnIgnoredKeeps, OnUnknownWdKeeps,
     OnUnmountKeeps, OnNamelessKeeps, OnDeleteKeeps, OnCreateKeeps, CreatedKeeps,
     OnModifyKeeps, OnCloseWriteKeeps, OnMovedFromKeeps, OnMovedToKeeps,
     RenameEntryKeeps, RenameDoneKeeps, MovedInKeeps, OnOtherKeeps,
     PurgeEntryKeeps, PurgeDoneKeeps, ParseDoneKeeps
  DEF ParseSteps

THEOREM NextIndInv == IndInv /\ [Next]_vars => IndInv'
<1> SUFFICES ASSUME IndInv, [Next]_vars PROVE IndInv'
  OBVIOUS
<1> QED
  BY OthersKeep, CallsKeep, WatchStepsKeep, ReadKeeps, ParseStepsKeep, StutterKeeps
  DEF Next, ToolStep

(* IndInv holds of every behaviour: of the code of InotifyTool at any      *)
(* interleaving with the processes that change the tree.                   *)
THEOREM IndInvHolds == Spec => []IndInv
<1>1. Init => IndInv
  BY InitIndInv
<1>2. IndInv /\ [Next]_vars => IndInv'
  BY NextIndInv
<1> QED BY <1>1, <1>2, PTL DEF Spec

(* The type invariant of the tool and of the instance behind it.           *)
THEOREM TypeCorrect == Spec => []TypeOK
<1>1. IndInv => TypeOK
  BY DEF IndInv
<1> QED BY <1>1, IndInvHolds, PTL

(* No entry of m_pathWithWd stays for ever: its watch is in the kernel, or *)
(* the record that removes it is on its way to _parseEvent.                *)
THEOREM EntriesBacked == Spec => []EntryBacked
<1>1. IndInv => EntryBacked
  BY DEF IndInv
<1> QED BY <1>1, IndInvHolds, PTL

(* _parseEvent leaves no record with a name in m_inotifyBuffer.            *)
THEOREM NamedNotHeldBack == Spec => []HeldBack
<1>1. IndInv => HeldBack
  BY DEF IndInv
<1> QED BY <1>1, IndInvHolds, PTL

=============================================================================
