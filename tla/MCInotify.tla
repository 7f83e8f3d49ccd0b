------------------------------ MODULE MCInotify ------------------------------
(***************************************************************************)
(* Small instances of InotifyTool for TLC.  "r" is the watched directory,  *)
(* "o" one outside of it; inodes are strings, names are token sequences.   *)
(***************************************************************************)
EXTENDS InotifyToolProps

A  == <<"a">>
B  == <<"b">>
C  == <<"c">>
AB == <<"a", "b">>   \* a sibling whose name has "a" as a prefix
R  == <<"r">>
O  == <<"o">>
Roots == {R, O}
FileRoots  == {R, B, C}
OneName    == {A}
TwoNames   == {A, B}
NestedNames == {A, AB, C}

PathR  == <<"/", "r">>
PathRSlash == <<"/", "r", "/">>
PathRB == <<"/", "r", "/", "b">>
PathRA == <<"/", "r", "/", "a">>

(* The tree at the start: the inodes named, all others not there yet.      *)
Tree(places) ==
  [i \in Inodes |-> IF i \in DOMAIN places THEN places[i] ELSE Gone]

EmptyRoot  == Tree([r |-> <<R>>])
Chain      == Tree([r |-> <<R>>, d1 |-> <<R, A>>, d2 |-> <<R, A, B>>])
OneDir     == Tree([r |-> <<R>>, d1 |-> <<R, A>>])
Siblings   == Tree([r |-> <<R>>, d1 |-> <<R, A>>, d2 |-> <<R, AB>>])
TwoDirs    == Tree([r |-> <<R>>, o |-> <<O>>, d1 |-> <<R, A>>, d2 |-> <<R, B>>])
Nested     == Tree([r |-> <<R>>, o |-> <<O>>, d1 |-> <<R, A>>,
                    d2 |-> <<R, A, B>>, d3 |-> <<O, B>>, d4 |-> <<O, B, A>>])
FileInRoot == Tree([r |-> <<R>>, f1 |-> <<R, B>>])
TwoFiles   == Tree([r |-> <<R>>, f1 |-> <<R, B>>, f2 |-> <<R, C>>])
FilesTree  == Tree([r |-> <<R>>, o |-> <<O>>, d1 |-> <<O, A>>, f1 |-> <<R, B>>])

(* Stages that only work in memory: what other processes do during one is  *)
(* as good as done before or after it.                                     *)
InMemory == {"roots", "insert", "rename", "created", "moved_in"}
Walking  == InMemory \cup {"add", "opendir", "readdir"}

WatchRoot  == {<<PathR>>}
WatchTwo   == {<<PathR>>, <<PathRA>>}
FileMany   == {<<PathRSlash>>, <<PathRB, PathRA>>, <<PathRA, <<"r">>>>,
               <<PathRB, <<"/", "x">>>>}
AllEvents  == {{"MODIFY_OVER", "CLOSE_WRITE", "MOVED_OUT", "MOVED_IN",
                "CREATE", "DELETE"}}
AllOrNone  == AllEvents \cup {{}}

=============================================================================
