----------------------------- MODULE HostPaths -----------------------------
(***************************************************************************)
(* Paths as texts and the places they lead to.  A path is its text, split  *)
(* at "/": the one of "/tmp/x" is <<"", "tmp", "x">>, of "a" it is <<"a">>,*)
(* of "/" <<"", "">>.  A place is the names from the root down to it; the  *)
(* root is <<>>.                                                           *)
(*                                                                         *)
(* A segment may hold backslashes.  What it becomes when they are replaced *)
(* by "/" is given by a function from those segments to their pieces; all  *)
(* other segments have none.                                               *)
(***************************************************************************)
EXTENDS JsMap

\* The text begins with "/"; the empty text does not.
IsAbsolute(path) == Len(path) > 1 /\ path[1] = ""

\* The text of a place.
Rooted(place) == IF place = <<>> THEN <<"", "">> ELSE <<"">> \o place

\* A relative path taken from the place start.
Absolute(path, start) == IF IsAbsolute(path) THEN path ELSE Rooted(start) \o path

\* The directory above a place; the root is above itself.
Parent(place) == IF place = <<>> THEN <<>> ELSE SubSeq(place, 1, Len(place) - 1)

\* No segment has a backslash.
SlashesOnly(path, pieces) == \A i \in 1..Len(path) : path[i] \notin DOMAIN pieces

\* value.replace(/\\/g, "/").
Slashed(path, pieces) ==
    LET upto[i \in 0..Len(path)] ==
          IF i = 0 THEN <<>>
          ELSE upto[i - 1] \o (IF path[i] \in DOMAIN pieces THEN pieces[path[i]] ELSE <<path[i]>>)
    IN upto[Len(path)]

\* External: posix.normalize, and path.resolve of an absolute path: whether the result begins
\* at the root, and its names, among them the leading ".." of a relative path.
PosixNormalize(path) ==
    LET from == IF IsAbsolute(path) THEN "/" ELSE "."
        names[i \in 0..Len(path)] ==
          IF i = 0 THEN <<>>
          ELSE IF path[i] \in {"", "."} THEN names[i - 1]
          ELSE IF path[i] # ".." THEN Append(names[i - 1], path[i])
          ELSE IF from = "/" THEN Parent(names[i - 1])
          ELSE IF names[i - 1] = <<>> THEN <<"..">>
          ELSE IF names[i - 1][Len(names[i - 1])] = ".." THEN Append(names[i - 1], "..")
          ELSE Parent(names[i - 1])
    IN [from |-> from, names |-> names[Len(path)]]

\* External: the place a system call reaches from the root, one segment of the path at a
\* time, where no name on the way is a symbolic link.
Moved(place, segment) ==
    CASE segment \in {"", "."} -> place
      [] segment = ".."        -> Parent(place)
      [] OTHER                 -> Append(place, segment)
Follow(path) ==
    LET place[i \in 0..Len(path)] == IF i = 0 THEN <<>> ELSE Moved(place[i - 1], path[i])
    IN place[Len(path)]

\* The place lies in the tree at the directory.
Under(place, directory) == \E n \in 0..Len(place) : SubSeq(place, 1, n) = directory
=============================================================================
