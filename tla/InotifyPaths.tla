---------------------------- MODULE InotifyPaths ----------------------------
(***************************************************************************)
(* The string operations InotifyTool performs on paths                     *)
(* (inotify_tool/inotify_utils.cpp and the std::string calls of            *)
(* inotify_tool.cpp).                                                      *)
(*                                                                         *)
(* A path is a sequence of tokens.  A token is either "/" or a run of      *)
(* characters that no operation of the program cuts: the directory name    *)
(* "docs" is <<"docs">>, and its sibling "docs2", which has "docs" as a    *)
(* proper prefix, is <<"docs", "2">>.  Concatenation, find and replace on  *)
(* token sequences then do what they do on the strings, with and without   *)
(* trailing slashes.                                                       *)
(***************************************************************************)
EXTENDS Naturals, Sequences, SequencesExt

(* opStr.find(from) != npos: anywhere in the string, not only at its head. *)
Occurs(from, opStr) == from \in SubSeqs(opStr)

(* Faulty versions of definitions below, which a property has to notice.   *)
Uncorrected(item) == item
ReplaceBack(opStr, from, to) ==
  IF Occurs(to, opStr) THEN ReplaceFirstSubSeq(from, to, opStr) ELSE opStr

(***************************************************************************)
(* CorrectionPath: append a slash, then collapse runs of slashes (the      *)
(* std::unique call), so that every stored directory ends with one slash.  *)
(***************************************************************************)
Collapse(path, token) ==
  IF token = "/" /\ path # <<>> /\ Last(path) = "/" THEN path
  ELSE Append(path, token)

CorrectionPath(item) ==
  LET slashed == Append(item, "/")
      unique[k \in 0..Len(slashed)] ==
        IF k = 0 THEN <<>> ELSE Collapse(unique[k - 1], slashed[k])
  IN  IF item = <<>> THEN item ELSE unique[Len(slashed)]

(* StringReplace: the first occurrence of from becomes to.                 *)
StringReplace(opStr, from, to) ==
  IF Occurs(from, opStr) THEN ReplaceFirstSubSeq(to, from, opStr) ELSE opStr

(* The parameter checks of the watch calls: non-empty and absolute.        *)
IsAbsolute(path) == path # <<>> /\ path[1] = "/"

(***************************************************************************)
(* The absolute path string of a place in the tree, given as the sequence  *)
(* of the names on the way to it.                                          *)
(***************************************************************************)
PathString(place) == FlattenSeq([k \in DOMAIN place |-> <<"/">> \o place[k]])

=============================================================================
