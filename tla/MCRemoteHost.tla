---------------------------- MODULE MCRemoteHost ----------------------------
(***************************************************************************)
(* Small instances of RemoteCommands for TLC: a directory d1 with a         *)
(* directory e1 and, in it, the files f1 and g1; a package and a service.  *)
(***************************************************************************)
EXTENDS RemoteCommands, TLC

CONSTANTS d1, e1, f1, g1, l1

MCParentOf == (e1 :> d1) @@ (f1 :> e1) @@ (g1 :> e1)
MCInitially == (d1 :> Folder) @@ (e1 :> Folder) @@ (f1 :> <<"a">>)

Ensure(path, lines, state) ==
    [op |-> "ensure", path |-> path, lines |-> lines, state |-> state, create |-> TRUE]
Command(op) == [op |-> op, refused |-> FALSE]
Package(state) == [op |-> "package", refused |-> FALSE, state |-> state]

EnsureRequests == {Ensure(f1, <<"b">>, "present"), Ensure(f1, <<"a">>, "absent")}

MCRequests ==
    EnsureRequests \cup
    { Ensure(g1, <<"b">>, "present"),
      [op |-> "write", path |-> f1, data |-> <<"w">>],
      [op |-> "read", path |-> f1],
      [op |-> "patch", path |-> f1, diff |-> <<"-a", "+p">>, from |-> <<"a">>, to |-> <<"p">>],
      [op |-> "upload", path |-> f1, data |-> <<"u">>],
      [op |-> "download", path |-> f1, to |-> l1],
      [op |-> "mkdir", path |-> e1, prefixes |-> <<d1, e1>>],
      [op |-> "remove", path |-> d1],
      [op |-> "rename", path |-> f1, to |-> g1],
      Command("exec"), Command("stream"), Package("present"), Package("absent"),
      [op |-> "sudo", refused |-> TRUE],
      [op |-> "service", refused |-> FALSE, state |-> "started"] }

\* File calls beside file calls, streams beside commands, ensure tools beside each other.
MCMixes == {FileRequests, {Command("exec"), Command("stream")},
            {r \in MCRequests : r.op \in {"sudo", "package", "service"}}}

MCLines == {"", "a", "b", "o", "p", "u", "w", "-a", "+p"}

MCEdits == {<<"a", "o", "o">>, NoFile}

MCHostKinds == {[pm |-> "apt", init |-> "systemd", root |-> FALSE],
                [pm |-> "dnf", init |-> "unknown", root |-> FALSE]}

\* Chunks of a one byte and a two byte character.
MCChunks == {<<1>>, <<2>>}

Symmetry == Permutations(Calls)

=============================================================================
