---------------------------- MODULE RemoteFiles ----------------------------
(***************************************************************************)
(* The file tools (fs-tools.ts), the transfers (transfer.ts) and the two    *)
(* file editing tools (ensureLinesInFile and applyPatch of ensure.ts) of    *)
(* one SSH session, as calls that run concurrently on one remote file       *)
(* system.  Every await of the code is a step: other calls, other users of  *)
(* the host and the end of the session come in between.                     *)
(*                                                                         *)
(* A file's content is the sequence of its lines, as content.split("\n")    *)
(* gives them (so an empty file is one empty line); the empty sequence is a *)
(* torn file, one whose last write did not reach its end.                   *)
(***************************************************************************)
EXTENDS FiniteSets, JsMap

CONSTANTS
    NoFile, Folder,  \* a path with nothing there; a directory
    Lines,        \* texts a line may have
    Calls,        \* tool calls
    Requests,     \* what a call may ask for
    Mixes,        \* bound: sets of requests that are made together
    Dirs, Files,  \* remote paths: directories and files
    ParentOf,     \* the directory of a path; the paths it leaves out are in the root
    Initially,    \* the remote tree before the first call
    Protected,    \* files in directories the login may not write to
    Denied,       \* paths PolicyEngine denies
    LocalFiles,   \* destinations of downloads
    Edits,        \* contents other users of the host write
    MaxFileSize,  \* maxFileSize, maxFileWriteBytes and maxTransferBytes, in lines
    Stamps,       \* milliseconds Date.now() may name a file by
    MaxEdits      \* bound on the edits of other users

VARIABLES
    remote,    \* the remote file system
    local,     \* the MCP server host's file system
    call,      \* the calls: request, position, buffers and answer
    session,   \* "open" or "closed"
    sftp,      \* whether the session has an SFTP channel
    replaces,  \* whether this server's SFTP rename replaces an existing target
    edits      \* edits other users made

fileVars == <<remote, local, call, session, sftp, replaces, edits>>

Torn == <<>>

\* tempPathFor is unique by randomUUID; the staged files of the ensure tools
\* and the temporary file of a download are named by the millisecond.
Temp(c, path) == <<"temp", c, path>>
Stage(t) == <<"stage", t>>
PatchFile(t) == <<"patch", t>>
LocalTemp(path, t) == <<"local", path, t>>

Temporaries == {Stage(t) : t \in Stamps} \cup {PatchFile(t) : t \in Stamps}
Targets == Files \cup Temporaries

Temps == {Temp(c, q) : c \in Calls, q \in Targets}
LocalTemps == {LocalTemp(p, t) : p \in LocalFiles, t \in Stamps}

\* Contents that are whole.
Whole == Seq(Lines) \ {Torn}

FileOps == {"read", "write", "upload", "download", "mkdir", "remove", "rename", "ensure", "patch"}
CommandOps == {"exec", "sudo", "stream", "package", "service"}

\* Temporary files have names of their own, the other users of the host write whole files,
\* and a request has the fields its tool's schema asks for.
ASSUME FilesAssumption ==
    /\ "" \in Lines /\ NoFile \notin Seq(Lines) /\ Folder \notin Seq(Lines)
    /\ Files \cap Dirs = {} /\ (Files \cup Dirs) \cap (Temporaries \cup Temps) = {}
    /\ NoFile \notin Targets /\ LocalFiles \cap LocalTemps = {}
    /\ IsFiniteSet(DOMAIN Initially) /\ DOMAIN Initially \subseteq Files \cup Dirs
    /\ \A p \in DOMAIN Initially : IF p \in Dirs THEN Initially[p] = Folder ELSE Initially[p] \in Whole
    /\ Edits \subseteq Whole \cup {NoFile}
    /\ \A r \in Requests :
          /\ r.op \in FileOps \cup CommandOps
          /\ r.op \in FileOps \ {"mkdir", "remove"} => r.path \in Files
          /\ r.op = "remove" => r.path \in Files \cup Dirs
          /\ r.op = "mkdir" => r.path \in Dirs /\ r.prefixes \in Seq(Dirs) \ {<<>>}
          /\ r.op = "rename" => r.to \in Files
          /\ r.op = "download" => r.to \in LocalFiles
          /\ r.op \in {"write", "upload"} => r.data \in Whole
          /\ r.op = "patch" => r.diff \in Whole /\ r.to \in Whole
          /\ r.op = "ensure" => r.lines \in Seq(Lines) /\ r.state \in {"present", "absent"}

\* The directory a path is in; a temporary file is beside its target.
DirOf == [p \in DOMAIN ParentOf \cup {Temp(c, q) : c \in Calls, q \in Files \cap DOMAIN ParentOf} |->
            IF p \in DOMAIN ParentOf THEN ParentOf[p] ELSE ParentOf[p[3]]]

Idle == [pc |-> "idle", req |-> [op |-> "none"], path |-> NoFile, data |-> Torn, got |-> NoFile,
         err |-> "none", stage |-> NoFile, todo |-> <<>>, res |-> "none"]

FilesInit ==
    /\ remote = Initially
    /\ local = [p \in {} |-> Torn]
    /\ call = [c \in Calls |-> Idle]
    /\ session = "open"
    /\ sftp \in BOOLEAN
    /\ replaces \in (IF sftp THEN BOOLEAN ELSE {FALSE})
    /\ edits = 0

-----------------------------------------------------------------------------
(* The remote side of a round trip, as the code uses it. *)

Up == session = "open"
Exists(p) == p \in DOMAIN remote
IsFolder(p) == Exists(p) /\ remote[p] = Folder
IsFile(p) == Exists(p) /\ remote[p] # Folder
Children(d) == {p \in DOMAIN DirOf \cap DOMAIN remote : DirOf[p] = d}
ParentExists(p) == p \in DOMAIN DirOf => IsFolder(DirOf[p])

\* A file system with path p holding x, and without the paths P.
Put(fs, p, x) == [q \in DOMAIN fs \cup {p} |-> IF q = p THEN x ELSE fs[q]]
Drop(fs, P) == [q \in DOMAIN fs \ P |-> fs[q]]

\* Where a write to path leaves its temporary file decides whether it may be created.
Creatable(path) == path \notin Protected /\ ParentExists(path)

\* isPermissionError tells a refusal for permissions from any other error.
Refusal(path) == IF path \in Protected THEN "denied" ELSE "error"

\* Call c goes on as the record k, is answered, or goes on to its next await.
Continue(c, k) == call' = [call EXCEPT ![c] = k]
Answer(c, r) == Continue(c, [call[c] EXCEPT !.pc = "done", !.res = r])
Goto(c, pc) == Continue(c, [call[c] EXCEPT !.pc = pc])
At(c, op, pc) == call[c].pc = pc /\ call[c].req.op = op
Path(c) == call[c].req.path
Rest == <<local, session, sftp, replaces, edits>>
OnlyCall == UNCHANGED <<remote, Rest>>

-----------------------------------------------------------------------------
(* writeFile: a temporary file beside the target, then a rename.  The ensure *)
(* tools call it too; AfterWrite is where each caller goes on.               *)

WritesFile(c) == call[c].req.op \in {"write", "ensure", "patch"} /\ call[c].pc = "write"
\* Mutant: the target is written in place.
WriteInPlace(c) == call[c].path

WriteTemp(c) == Temp(c, call[c].path)

\* What the caller does with the outcome: writeFileWithPrivilegeFallback
\* stages the content in the temporary directory and moves it with sudo when
\* the direct write was refused for permissions.
AfterWrite(c, outcome) ==
    LET k == call[c] IN
    CASE k.req.op = "patch" /\ outcome = "ok" -> Goto(c, "dryrun")
      [] k.req.op = "ensure" /\ outcome = "ok" /\ k.stage # NoFile -> Goto(c, "move")
      [] k.req.op = "ensure" /\ outcome = "denied" /\ k.stage = NoFile ->
            \E t \in Stamps : Continue(c, [k EXCEPT !.pc = "write", !.stage = Stage(t), !.path = Stage(t)])
      [] OTHER -> Answer(c, IF outcome = "ok" THEN "ok" ELSE "error")

\* The policy and the size limit, before anything is sent.
WriteRefused(c) ==
    /\ WritesFile(c)
    /\ ~Up \/ call[c].path \in Denied \/ Len(call[c].data) > MaxFileSize
    /\ AfterWrite(c, "error")
    /\ OnlyCall

MayWrite(c) ==
    /\ WritesFile(c)
    /\ Up
    /\ call[c].path \notin Denied
    /\ Len(call[c].data) <= MaxFileSize

\* sftpWriteFile of the temporary file; a failure leaves nothing or a torn file.
WriteTempFile(c) ==
    /\ MayWrite(c) /\ sftp
    /\ \/ /\ Creatable(call[c].path)
          /\ remote' = Put(remote, WriteTemp(c), call[c].data)
          /\ Goto(c, "rename")
       \/ /\ Creatable(call[c].path)
          /\ \/ remote' = Put(remote, WriteTemp(c), Torn)
             \/ UNCHANGED remote
          /\ Continue(c, [call[c] EXCEPT !.pc = "unlink", !.err = "error"])
       \/ /\ ~Creatable(call[c].path)
          /\ Continue(c, [call[c] EXCEPT !.pc = "unlink", !.err = Refusal(call[c].path)])
          /\ UNCHANGED remote
    /\ UNCHANGED Rest

\* Mutant: the temporary file is copied and stays.
CopyTempFile(c) ==
    /\ call[c].pc = "rename"
    /\ Up /\ Exists(WriteTemp(c)) /\ ParentExists(call[c].path)
    /\ remote' = Put(remote, call[c].path, remote[WriteTemp(c)])
    /\ AfterWrite(c, "ok")
    /\ UNCHANGED Rest

\* sftpChmod and sftpRename; the chmod can only fail as the rename can.
RenameTempFile(c) ==
    /\ call[c].pc = "rename"
    /\ \/ /\ Up
          /\ Exists(call[c].path) => IsFile(call[c].path) /\ replaces
          /\ Exists(WriteTemp(c)) /\ ParentExists(call[c].path)
          /\ remote' = Drop(Put(remote, call[c].path, remote[WriteTemp(c)]), {WriteTemp(c)})
          /\ AfterWrite(c, "ok")
       \/ /\ Continue(c, [call[c] EXCEPT !.pc = "unlink", !.err = "error"])
          /\ UNCHANGED remote
    /\ UNCHANGED Rest

\* The catch block of writeFile: a failed clean-up is logged, the first error is thrown.
UnlinkTempFile(c) ==
    /\ call[c].pc = "unlink"
    /\ \/ /\ Up
          /\ remote' = Drop(remote, {WriteTemp(c)})
       \/ UNCHANGED remote
    /\ AfterWrite(c, call[c].err)
    /\ UNCHANGED Rest

\* Without SFTP one shell script: printf to the temporary file, then mv on a
\* line of its own, which runs, and decides the exit code, whatever printf did.
ShellWrite(c) ==
    /\ MayWrite(c) /\ ~sftp
    /\ \/ /\ Creatable(call[c].path)
          /\ \E written \in {call[c].data, Torn} :
                remote' = Put(remote, call[c].path, written)
          /\ AfterWrite(c, "ok")
       \/ /\ Creatable(call[c].path)
          /\ \E written \in {call[c].data, Torn} :
                remote' = Put(remote, WriteTemp(c), written)
          /\ AfterWrite(c, "error")
       \/ /\ ~Creatable(call[c].path)
          /\ AfterWrite(c, Refusal(call[c].path))
          /\ UNCHANGED remote
    /\ UNCHANGED Rest

WriteFile(c) ==
    \/ WriteRefused(c) \/ WriteTempFile(c) \/ RenameTempFile(c)
    \/ UnlinkTempFile(c) \/ ShellWrite(c)

-----------------------------------------------------------------------------
(* readFile, makeDirectories, removeRecursive and renameFile. *)

\* A round trip that brings an error back, or a session that has ended.
CallFails(c, pc) ==
    /\ call[c].pc = pc
    /\ Answer(c, "error")
    /\ OnlyCall

\* statFileInternal, then the size limit.
StatForRead(c) ==
    \/ /\ call[c].pc = "size" /\ Up /\ IsFile(Path(c))
       /\ IF Len(remote[Path(c)]) > MaxFileSize THEN Answer(c, "error") ELSE Goto(c, "read")
       /\ OnlyCall
    \/ CallFails(c, "size")

\* sftpReadFile or cat; the file may have changed since its size was taken.
ReadFile(c) ==
    \/ /\ At(c, "read", "read") /\ Up /\ IsFile(Path(c))
       /\ Continue(c, [call[c] EXCEPT !.pc = "done", !.res = "ok", !.got = remote[Path(c)]])
       /\ OnlyCall
    \/ At(c, "read", "read") /\ CallFails(c, "read")

\* sftpMkdirRecursive takes the prefixes of the path in turn: stat, and mkdir
\* where the stat failed for any reason.
StatForMkdir(c) ==
    /\ At(c, "mkdir", "stat")
    /\ LET d == Head(call[c].todo)
           rest == Tail(call[c].todo) IN
       \/ /\ Up /\ Exists(d)
          /\ IF rest = <<>> THEN Answer(c, "ok") ELSE Continue(c, [call[c] EXCEPT !.todo = rest])
       \/ Goto(c, "mkdir")
    /\ OnlyCall

\* SFTP code 4 is a general failure: the directory exists, or the server
\* could not create it.  The code goes on in both cases.
Mkdir(c) ==
    /\ At(c, "mkdir", "mkdir")
    /\ LET d == Head(call[c].todo)
           rest == Tail(call[c].todo)
           goOn == IF rest = <<>> THEN Answer(c, "ok")
                   ELSE Continue(c, [call[c] EXCEPT !.pc = "stat", !.todo = rest]) IN
       \/ /\ Up /\ ~Exists(d) /\ ParentExists(d)
          /\ remote' = Put(remote, d, Folder)
          /\ goOn
       \/ /\ Up /\ ParentExists(d)
          /\ goOn
          /\ UNCHANGED remote
       \/ /\ Answer(c, "error")
          /\ UNCHANGED remote
    /\ UNCHANGED Rest

\* Mutant: a path that is not a directory, or fails, counts as removed.
RemoveForgives(c) ==
    /\ At(c, "remove", "stat")
    /\ Answer(c, "ok")
    /\ OnlyCall

\* stat decides between unlink and sftpRmdirRecursive.
Job(p) == <<IF remote[p] = Folder THEN "list" ELSE "unlink", p>>

StatForRemove(c) ==
    \/ /\ At(c, "remove", "stat") /\ Up /\ Exists(Path(c))
       /\ Continue(c, [call[c] EXCEPT !.pc = "remove", !.todo = << Job(Path(c)) >>])
       /\ OnlyCall
    \/ At(c, "remove", "stat") /\ CallFails(c, "stat")

\* One round trip of sftpRmdirRecursive: the listing of a directory, in some order, is
\* what it held when it was read; rmdir fails when something was added since.
Listings(p) ==
    {l \in [1..Cardinality(Children(p)) -> Children(p)] : Entries(l) = Children(p)}

RemoveNext(c) ==
    /\ At(c, "remove", "remove")
    /\ LET what == Head(call[c].todo)[1]
           p == Head(call[c].todo)[2]
           rest == Tail(call[c].todo)
           goOn == IF rest = <<>> THEN Answer(c, "ok") ELSE Continue(c, [call[c] EXCEPT !.todo = rest])
       IN
       \/ /\ what = "list" /\ Up /\ IsFolder(p)
          /\ \E l \in Listings(p) :
                Continue(c, [call[c] EXCEPT !.todo =
                              [i \in 1..Len(l) |-> Job(l[i])] \o << <<"rmdir", p>> >> \o rest])
          /\ UNCHANGED remote
       \/ /\ what = "unlink" /\ Up /\ IsFile(p)
          /\ remote' = Drop(remote, {p})
          /\ goOn
       \/ /\ what = "rmdir" /\ Up /\ IsFolder(p) /\ Children(p) = {}
          /\ remote' = Drop(remote, {p})
          /\ goOn
       \/ /\ Answer(c, "error")
          /\ UNCHANGED remote
    /\ UNCHANGED Rest

Rename(c) ==
    /\ At(c, "rename", "start")
    /\ \/ /\ Up /\ IsFile(Path(c))
          /\ Exists(call[c].req.to) => IsFile(call[c].req.to) /\ (replaces \/ ~sftp)
          /\ ParentExists(call[c].req.to)
          /\ remote' = Put(Drop(remote, {Path(c)}), call[c].req.to, remote[Path(c)])
          /\ Answer(c, "ok")
       \/ /\ Answer(c, "error")
          /\ UNCHANGED remote
    /\ UNCHANGED Rest

\* Without SFTP: rm -rf and mkdir -p, each one command.
Subtree(p) ==
    LET below[n \in 0..Cardinality(Dirs)] ==
          IF n = 0 THEN Children(p) ELSE below[n - 1] \cup UNION {Children(q) : q \in below[n - 1]}
    IN  {p} \cup below[Cardinality(Dirs)]

ShellTree(c) ==
    /\ call[c].pc = "shell"
    /\ \/ /\ Up /\ call[c].req.op = "remove"
          /\ remote' = Drop(remote, Subtree(Path(c)))
          /\ Answer(c, "ok")
       \/ /\ Up /\ call[c].req.op = "mkdir"
          /\ \A d \in Entries(call[c].todo) : ~IsFile(d)
          /\ remote' = [q \in DOMAIN remote \cup Entries(call[c].todo) |->
                        IF Exists(q) THEN remote[q] ELSE Folder]
          /\ Answer(c, "ok")
       \/ /\ Answer(c, "error")
          /\ UNCHANGED remote
    /\ UNCHANGED Rest

-----------------------------------------------------------------------------
(* ensureLinesInFile: look, read, compute, write.  The write is writeFile. *)

Missing(lines, content) == Kept(lines, Entries(lines) \ Entries(content))
Removed(lines, content) == Kept(content, Entries(content) \ Entries(lines))

\* [].join("\n") is the empty text, which splits into one empty line.
Joined(lines) == IF lines = <<>> THEN <<"">> ELSE lines

\* Nothing has to change: no line was filtered out, or none is missing.
Satisfied(r, content) ==
    IF r.state = "absent" THEN Entries(r.lines) \cap Entries(content) = {}
    ELSE Entries(r.lines) \subseteq Entries(content)

\* The file's new content.
Ensured(r, content) ==
    IF r.state = "absent" THEN Joined(Removed(r.lines, content)) ELSE content \o Missing(r.lines, content)

\* The lines of a file that is not there.
NoLines == <<"">>

\* pathExists is false for every error of the stat, a denied or failed one too.
EnsureLooks(c) ==
    /\ At(c, "ensure", "exists")
    /\ \/ /\ Up /\ IsFile(Path(c)) /\ Path(c) \notin Denied
          /\ Goto(c, "size")
       \/ LET r == call[c].req IN
          IF r.state = "absent" THEN Answer(c, "ok")
          ELSE IF ~r.create THEN Answer(c, "error")
          ELSE IF Satisfied(r, NoLines) THEN Answer(c, "ok")
          ELSE Continue(c, [call[c] EXCEPT !.pc = "write", !.path = Path(c),
                                           !.data = Missing(r.lines, NoLines)])
    /\ OnlyCall

EnsureReads(c) ==
    \/ /\ At(c, "ensure", "read") /\ Up /\ IsFile(Path(c))
       /\ LET r == call[c].req
              old == remote[Path(c)]
          IN  IF Satisfied(r, old)
              THEN Continue(c, [call[c] EXCEPT !.pc = "done", !.res = "ok", !.got = old])
              ELSE Continue(c, [call[c] EXCEPT !.pc = "write", !.path = Path(c), !.got = old,
                                               !.data = Ensured(r, old)])
       /\ OnlyCall
    \/ At(c, "ensure", "read") /\ CallFails(c, "read")

\* sudo mv of the staged file; an answer that is lost leaves either state.
MoveStaged(c) ==
    /\ At(c, "ensure", "move")
    /\ \/ /\ Up /\ IsFile(call[c].stage) /\ ParentExists(Path(c))
          /\ remote' = Drop(Put(remote, Path(c), remote[call[c].stage]), {call[c].stage})
          /\ \E r \in {"ok", "error"} : Answer(c, r)
       \/ /\ Answer(c, "error")
          /\ UNCHANGED remote
    /\ UNCHANGED Rest

-----------------------------------------------------------------------------
(* applyPatch: the diff in a file named by the millisecond, a dry run, the   *)
(* patch, again with sudo when that failed, and the clean-up of the finally. *)

Diffs == {r \in Requests : r.op = "patch"}
PatchApplies(c) ==
    /\ IsFile(Path(c)) /\ IsFile(call[c].stage)
    /\ \E r \in Diffs : remote[call[c].stage] = r.diff /\ remote[Path(c)] = r.from

Patched(c) == (CHOOSE r \in Diffs : remote[call[c].stage] = r.diff).to

DryRun(c) ==
    /\ At(c, "patch", "dryrun")
    /\ \/ Up /\ PatchApplies(c) /\ Goto(c, "patch")
       \/ Continue(c, [call[c] EXCEPT !.pc = "cleanup", !.err = "error"])
    /\ OnlyCall

\* A command whose answer is lost throws past the sudo attempt.
Patch(c) ==
    /\ At(c, "patch", "patch")
    /\ \/ /\ Up /\ PatchApplies(c)
          /\ call[c].err = "sudo" \/ Path(c) \notin Protected
          /\ remote' = Put(remote, Path(c), Patched(c))
          /\ \E e \in {"ok", "error"} : Continue(c, [call[c] EXCEPT !.pc = "cleanup", !.err = e])
       \/ /\ call[c].err # "sudo"
          /\ Continue(c, [call[c] EXCEPT !.err = "sudo"])
          /\ UNCHANGED remote
       \/ /\ Continue(c, [call[c] EXCEPT !.pc = "cleanup", !.err = "error"])
          /\ UNCHANGED remote
    /\ UNCHANGED Rest

PatchCleanup(c) ==
    /\ At(c, "patch", "cleanup")
    /\ \/ Up /\ remote' = Drop(remote, {call[c].stage})
       \/ UNCHANGED remote
    /\ Answer(c, call[c].err)
    /\ UNCHANGED Rest

-----------------------------------------------------------------------------
(* Uploads write the target itself and read it back; downloads write a new  *)
(* local file, read it back and rename it over the destination.             *)

Upload(c) ==
    /\ call[c].req.op = "upload"
    /\ \/ /\ call[c].pc = "start" /\ Up /\ Creatable(Path(c))
          /\ remote' = Put(remote, Path(c), Torn)
          /\ Goto(c, "send")
       \/ /\ call[c].pc = "send" /\ Up /\ IsFile(Path(c))
          /\ remote' = Put(remote, Path(c), call[c].data)
          /\ Goto(c, "verify")
       \/ /\ call[c].pc = "verify" /\ Up /\ IsFile(Path(c))
          /\ Answer(c, IF remote[Path(c)] = call[c].data THEN "ok" ELSE "error")
          /\ UNCHANGED remote
       \/ /\ call[c].pc \in {"start", "send", "verify"}
          /\ Answer(c, "error")
          /\ UNCHANGED remote
    /\ UNCHANGED Rest

DownloadReads(c) ==
    \/ /\ At(c, "download", "read") /\ Up /\ IsFile(Path(c))
       /\ \E t \in Stamps : Continue(c, [call[c] EXCEPT !.pc = "save", !.data = remote[Path(c)],
                                                       !.path = LocalTemp(call[c].req.to, t)])
       /\ OnlyCall
    \/ At(c, "download", "read") /\ CallFails(c, "read")

\* writeFile with the flag "wx" refuses a temporary file that is there.
DownloadSaves(c) ==
    /\ At(c, "download", "save")
    /\ \/ /\ call[c].path \notin DOMAIN local
          /\ local' = Put(local, call[c].path, call[c].data)
          /\ Goto(c, "check")
       \/ /\ \/ call[c].path \notin DOMAIN local /\ local' = Put(local, call[c].path, Torn)
             \/ UNCHANGED local
          /\ Answer(c, "error")
    /\ UNCHANGED <<remote, session, sftp, replaces, edits>>

\* Read back and compare, then authorise the destination again and rename.
\* Only a failed comparison removes the temporary file.
DownloadMoves(c) ==
    /\ At(c, "download", "check")
    /\ \/ /\ local[call[c].path] = call[c].data
          /\ local' = Drop(Put(local, call[c].req.to, call[c].data), {call[c].path})
          /\ Answer(c, "ok")
       \/ /\ local[call[c].path] # call[c].data
          /\ local' = Drop(local, {call[c].path})
          /\ Answer(c, "error")
       \/ /\ Answer(c, "error")
          /\ UNCHANGED local
    /\ UNCHANGED <<remote, session, sftp, replaces, edits>>

-----------------------------------------------------------------------------
(* A call up to its first round trip: the session, the policy and, for the   *)
(* transfers, the SFTP channel and the size of the source.                   *)

Refused(r) ==
    \/ ~Up
    \/ r.op \in {"read", "write", "mkdir", "remove", "rename", "upload", "download"}
       /\ r.path \in Denied
    \/ r.op = "rename" /\ r.to \in Denied
    \/ r.op \in {"upload", "download"} /\ ~sftp
    \/ r.op = "upload" /\ Len(r.data) > MaxFileSize

First(r) ==
    CASE r.op \in {"read", "download"} -> "size"
      [] r.op \in {"mkdir", "remove"} -> IF sftp THEN "stat" ELSE "shell"
      [] r.op \in {"rename", "upload"} -> "start"
      [] r.op = "ensure" -> "exists"
      [] r.op \in {"write", "patch"} -> "write"

InMix(r) == \E m \in Mixes : {r} \cup {call[o].req : o \in {x \in Calls : call[x].pc # "idle"}} \subseteq m

StartCall(c, r) ==
    /\ call[c].pc = "idle" /\ InMix(r)
    /\ \E t \in IF r.op = "patch" THEN Stamps ELSE {0} : Continue(c,
         IF Refused(r) THEN [Idle EXCEPT !.pc = "done", !.req = r, !.res = "error"]
         ELSE [Idle EXCEPT !.pc = First(r), !.req = r,
                 !.path = IF r.op = "patch" THEN PatchFile(t) ELSE r.path,
                 !.stage = IF r.op = "patch" THEN PatchFile(t) ELSE NoFile,
                 !.data = CASE r.op \in {"write", "upload"} -> r.data
                            [] r.op = "patch" -> r.diff
                            [] OTHER -> Torn,
                 !.todo = IF r.op = "mkdir" THEN r.prefixes ELSE <<>>])
    /\ OnlyCall

FileStep(c) ==
    \/ WriteFile(c) \/ StatForRead(c) \/ ReadFile(c) \/ StatForMkdir(c) \/ Mkdir(c)
    \/ StatForRemove(c) \/ RemoveNext(c) \/ Rename(c) \/ ShellTree(c)
    \/ EnsureLooks(c) \/ EnsureReads(c) \/ MoveStaged(c)
    \/ DryRun(c) \/ Patch(c) \/ PatchCleanup(c)
    \/ Upload(c) \/ DownloadReads(c) \/ DownloadSaves(c) \/ DownloadMoves(c)

\* Another user of the host replaces or removes a file.
OtherUserEdits(f, content) ==
    /\ edits < MaxEdits
    /\ ParentExists(f)
    /\ remote' = IF content = NoFile THEN Drop(remote, {f}) ELSE Put(remote, f, content)
    /\ edits' = edits + 1
    /\ UNCHANGED <<local, call, session, sftp, replaces>>

\* The session expires, is evicted or closed, or its connection breaks.
SessionEnds ==
    /\ session = "open"
    /\ session' = "closed"
    /\ UNCHANGED <<remote, local, call, sftp, replaces, edits>>

-----------------------------------------------------------------------------
(* Properties *)

\* Directories and files stay what they are, and only finished calls have an answer.
FilesTypeOK ==
    /\ \A p \in DOMAIN remote : remote[p] = Folder <=> p \in Dirs
    /\ \A c \in Calls : call[c].pc = "done" <=> call[c].res \in {"ok", "error"}

\* A file named by a tool is torn only through an upload, which writes its
\* target in place, or through the shell script a session without SFTP uses:
\* a failed or interrupted writeFile never leaves its target half written.
TornHasAWriter ==
    (\E f \in Files \cap DOMAIN remote : remote[f] = Torn)
      \/ (\E f \in LocalFiles \cap DOMAIN local : local[f] = Torn) =>
        \/ ~sftp
        \/ \E c \in Calls : call[c].req.op = "upload"

\* A write, ensure or download that was answered with success left no
\* temporary file of its own behind (two downloads in one millisecond share one).
OkLeavesNoTemp ==
    \A c \in Calls :
        call[c].res = "ok" =>
            /\ \A q \in Targets : ~Exists(Temp(c, q))
            /\ call[c].req.op = "download" /\ call[c].path \in DOMAIN local =>
                  \E o \in Calls \ {c} : call[o].path = call[c].path

\* Two calls that stage in the same millisecond share the staged file.
StageIsShared(c) == call[c].stage # NoFile /\ \E d \in Calls \ {c} : call[d].stage = call[c].stage

\* The content has the lines, or none of them.  A file that did not exist counts as one
\* empty line, and so does a file all of whose lines were removed.
Fulfils(r, got, content) ==
    IF r.state = "present"
    THEN Entries(r.lines) \ (IF got = NoFile THEN {""} ELSE {}) \subseteq Entries(content)
    ELSE Entries(r.lines) \cap Entries(content) = {} \/ content = NoLines

Promised(c) ==
    LET r == call[c].req IN
    CASE r.op \in {"write", "upload"} -> ~sftp \/ (IsFile(r.path) /\ remote[r.path] = r.data)
      [] r.op = "ensure" ->
            \/ ~sftp \/ StageIsShared(c)
            \/ call[c].got = NoFile /\ (r.state = "absent" \/ Entries(r.lines) \subseteq {""})
            \/ IsFile(r.path) /\ Fulfils(r, call[c].got, remote[r.path])
      [] r.op = "remove" -> ~Exists(r.path)
      [] r.op = "rename" -> Exists(r.to) /\ (r.path # r.to => ~Exists(r.path))
      [] r.op = "download" -> r.to \in DOMAIN local /\ local[r.to] = call[c].data
      [] OTHER -> TRUE

\* A success is reported only in a state in which what the tool promises is
\* true: the file holds what was written, uploaded or ensured, the tree is
\* gone, the download is in place.
AnswerIsTrue ==
    [][\A c \in Calls : call[c].res = "none" /\ call'[c].res = "ok" => Promised(c)']_fileVars

\* The description of ensure_lines_in_file: an answer of success means that
\* the lines are present, or absent, in the file.
EnsureAnswerIsTrue ==
    [][\A c \in Calls :
          call[c].req.op = "ensure" /\ call[c].res = "none" /\ call'[c].res = "ok" =>
            LET r == call[c].req
                now == IF IsFile(r.path)' THEN Entries(remote[r.path])' ELSE {}
            IN  IF r.state = "present" THEN Entries(r.lines) \subseteq now
                ELSE Entries(r.lines) \cap now = {}]_fileVars

=============================================================================
