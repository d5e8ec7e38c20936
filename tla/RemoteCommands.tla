--------------------------- MODULE RemoteCommands ---------------------------
(***************************************************************************)
(* Commands of one SSH session beside its file calls: execCommand, execSudo *)
(* (process.ts, shell.ts), execWithStreaming (streaming.ts), ensurePackage   *)
(* and ensureService (ensure.ts).  The remote process of a command has a    *)
(* life of its own: a local timeout answers the call and lets it run on.    *)
(*                                                                         *)
(* Output is a sequence of chunks, a chunk the sequence of the byte widths  *)
(* of its characters.                                                      *)
(***************************************************************************)
EXTENDS RemoteFiles

CONSTANTS
    HostKinds,       \* what getOSInfo may report: package manager and init system
    Chunks,          \* chunks a remote process may write
    MaxOutputBytes,  \* config.maxCommandOutputBytes
    MaxStreamChunks, \* config.maxStreamChunks
    MaxSent          \* bound on the chunks a process writes

\* The limits are numbers, and so are the widths of characters.
ASSUME CommandsAssumption ==
    /\ MaxOutputBytes \in Nat /\ MaxStreamChunks \in Nat
    /\ Chunks \subseteq Seq(Nat)

VARIABLES
    os,         \* the host, once getOSInfo has looked: package manager, init system, login
    installed,  \* whether the package is installed
    service,    \* the state of the service
    procs,      \* remote processes
    stream      \* per call: what was sent and the buffers of execWithStreaming

cmdVars == <<os, installed, service, procs, stream>>
vars == <<fileVars, cmdVars>>

Undetected == [pm |-> "undetected"]

NoStream == [sent |-> <<>>, out |-> [w \in {"stdout", "stderr"} |-> <<>>], chunks |-> <<>>,
             truncated |-> FALSE]

CommandsInit ==
    /\ FilesInit
    /\ os = Undetected
    /\ installed = FALSE
    /\ service = "stopped"
    /\ procs = {}
    /\ stream = [c \in Calls |-> NoStream]

FilesRest == <<remote, local, session, sftp, replaces, edits>>
IsCommand(c) == call[c].req.op \in CommandOps

-----------------------------------------------------------------------------
(* Building and running a command. *)

\* buildSudoCommand prefixes the command line with sudo -n, which reaches the
\* first of the simple commands that && or || join.
SudoReaches(steps) == {Head(steps)}

InstallSteps == IF os.pm = "apt" THEN <<"update", "install">> ELSE <<"install">>

\* What the command line of a call does when it may: getInstallCommand,
\* getRemoveCommand, the systemctl and service command lines.
Steps(cmd) == IF cmd = "install" THEN InstallSteps ELSE <<cmd>>

\* brew and execCommand run without sudo.
Privileged(cmd) ==
    IF cmd \in {"install", "remove"} /\ os.pm = "brew" THEN Entries(Steps(cmd))
    ELSE IF os.root THEN Entries(Steps(cmd))
    ELSE SudoReaches(Steps(cmd))

Works(cmd) == cmd \in {"exec", "check", "stream"} \/ Privileged(cmd) = Entries(Steps(cmd))

\* The process started for a call and the call's wait for it.
Launch(c, cmd) ==
    /\ Up
    /\ procs' = procs \cup {[by |-> c, cmd |-> cmd, st |-> "running", code |-> 0]}
    /\ Continue(c, [call[c] EXCEPT !.pc = "wait", !.err = cmd])

\* The process ends by itself: a check reports what it saw, the others change
\* the host when their privileges suffice, or fail.
ProcessEnds(p, code) ==
    /\ p \in procs /\ p.st = "running"
    /\ p.cmd = "check" => code = IF installed THEN 0 ELSE 1
    /\ code = 0 => Works(p.cmd)
    /\ procs' = (procs \ {p}) \cup {[p EXCEPT !.st = "ended", !.code = code]}
    /\ installed' = IF code = 0 /\ p.cmd \in {"install", "remove"} THEN p.cmd = "install" ELSE installed
    /\ service' = IF code = 0 /\ p.cmd \in {"started", "stopped"} THEN p.cmd ELSE service
    /\ UNCHANGED <<fileVars, os, stream>>

\* buildRemoteCommandWithTimeout runs execCommand's commands under timeout(1),
\* which ends them with code 124; sudo and streaming commands run without it.
TimeoutKills(p) ==
    /\ p \in procs /\ p.st = "running" /\ p.cmd \in {"exec", "check"}
    /\ procs' = (procs \ {p}) \cup {[p EXCEPT !.st = "ended", !.code = 124]}
    /\ UNCHANGED <<fileVars, os, installed, service, stream>>

-----------------------------------------------------------------------------
(* The calls. *)

\* sanitizePackageName, sanitizeServiceName and the policy come before any await.
StartCommand(c, r) ==
    /\ call[c].pc = "idle" /\ InMix(r)
    /\ Continue(c, IF ~Up \/ r.refused THEN [Idle EXCEPT !.pc = "done", !.req = r, !.res = "error"]
                   ELSE [Idle EXCEPT !.pc = "os", !.req = r])
    /\ UNCHANGED <<FilesRest, cmdVars>>

Supported(r) ==
    CASE r.op = "package" -> os'.pm # "unknown"
      [] r.op = "service" -> os'.init \in {"systemd", "service"}
      [] r.op = "sudo" -> os'.init # "windows-service"
      [] OTHER -> TRUE

FirstCommand(r) ==
    CASE r.op = "package" -> "check"
      [] r.op = "service" -> r.state
      [] OTHER -> r.op

\* getOSInfo, which detects once and keeps the answer, then the command; a
\* host the tool does not manage is refused.
DetectAndLaunch(c) ==
    /\ IsCommand(c) /\ call[c].pc = "os"
    /\ os' \in IF os = Undetected THEN HostKinds ELSE {os}
    /\ \/ Supported(call[c].req) /\ Launch(c, FirstCommand(call[c].req))
       \/ Answer(c, "error") /\ UNCHANGED procs
    /\ UNCHANGED <<FilesRest, installed, service, stream>>

\* ensurePackage after checkPackageInstalled, which is false for every error.
AfterCheck(c, isInstalled) ==
    IF isInstalled = (call[c].req.state = "present") THEN Answer(c, "ok") /\ UNCHANGED procs
    ELSE \/ Launch(c, IF call[c].req.state = "present" THEN "install" ELSE "remove")
         \/ Answer(c, "error") /\ UNCHANGED procs

\* checkPackageInstalled: the query's exit code.
CheckFound(p) == p.code = 0

\* What execWithStreaming adds to the chunks when the command has ended.
StreamEnds(c) ==
    stream[c].chunks \o (IF stream[c].truncated THEN <<"truncated", "exit">> ELSE <<"exit">>)

CommandAnswers(c) ==
    /\ IsCommand(c) /\ call[c].pc = "wait" /\ Up
    /\ \E p \in procs :
         /\ p.by = c /\ p.st = "ended" /\ p.cmd = call[c].err
         /\ IF p.cmd = "check" THEN AfterCheck(c, CheckFound(p))
            ELSE /\ Answer(c, IF p.code = 0 THEN "ok" ELSE "error")
                 /\ UNCHANGED procs
    /\ stream' = IF call[c].req.op # "stream" THEN stream
                 ELSE [stream EXCEPT ![c].chunks = StreamEnds(c)]
    /\ UNCHANGED <<FilesRest, os, installed, service>>

\* Mutant: a check that timed out counts as a package found.
CheckGivenUpIsFound(c) ==
    /\ IsCommand(c) /\ call[c].pc = "wait"
    /\ IF call[c].err = "check" THEN AfterCheck(c, TRUE)
       ELSE Answer(c, "error") /\ UNCHANGED procs
    /\ UNCHANGED <<FilesRest, os, installed, service, stream>>

\* execWithTimeout's timer, or a broken connection: the process is not told.
CommandGivenUp(c) ==
    /\ IsCommand(c) /\ call[c].pc = "wait"
    /\ IF call[c].err = "check" THEN AfterCheck(c, FALSE)
       ELSE Answer(c, "error") /\ UNCHANGED procs
    /\ UNCHANGED <<FilesRest, os, installed, service, stream>>

-----------------------------------------------------------------------------
(* The callbacks of execWithStreaming, which go on after a timeout. *)

Bytes(s) ==
    LET first[n \in 0..Len(s)] == IF n = 0 THEN 0 ELSE first[n - 1] + s[n] IN first[Len(s)]

\* The longest prefix of the characters that fits.
Fitting(data, room) ==
    LET fits == {n \in 0..Len(data) : Bytes(SubSeq(data, 1, n)) <= room}
    IN  SubSeq(data, 1, CHOOSE n \in fits : \A k \in fits : k <= n)

AppendBounded(current, data, maxBytes) ==
    LET room == maxBytes - Bytes(current)
    IN  IF Bytes(current) >= maxBytes THEN [value |-> current, truncated |-> data # <<>>]
        ELSE [value |-> current \o Fitting(data, room), truncated |-> Bytes(data) > room]

\* Mutant: chunks beyond the limit are dropped without a word.
OnChunkSilently(c, which, data) ==
    /\ \E p \in procs : p.by = c /\ p.cmd = "stream" /\ p.st = "running"
    /\ Len(stream[c].sent) < MaxSent
    /\ LET s == stream[c]
           bounded == AppendBounded(s.out[which], data, MaxOutputBytes)
       IN  stream' = [stream EXCEPT ![c] =
             [sent |-> Append(s.sent, <<which, data>>),
              out |-> [s.out EXCEPT ![which] = bounded.value],
              chunks |-> IF Len(s.chunks) >= MaxStreamChunks THEN s.chunks
                         ELSE Append(s.chunks, <<which, data>>),
              truncated |-> s.truncated \/ bounded.truncated]]
    /\ UNCHANGED <<fileVars, os, installed, service, procs>>

OnChunk(c, which, data) ==
    /\ \E p \in procs : p.by = c /\ p.cmd = "stream" /\ p.st = "running"
    /\ Len(stream[c].sent) < MaxSent
    /\ LET s == stream[c]
           bounded == AppendBounded(s.out[which], data, MaxOutputBytes)
           full == Len(s.chunks) >= MaxStreamChunks
       IN  stream' = [stream EXCEPT ![c] =
             [sent |-> Append(s.sent, <<which, data>>),
              out |-> [s.out EXCEPT ![which] = bounded.value],
              chunks |-> IF full \/ bounded.truncated THEN s.chunks
                         ELSE Append(s.chunks, <<which, data>>),
              truncated |-> s.truncated \/ bounded.truncated \/ full]]
    /\ UNCHANGED <<fileVars, os, installed, service, procs>>

\* Another user of the host installs or removes the package.
OtherUserInstalls ==
    /\ edits < MaxEdits
    /\ installed' = ~installed
    /\ edits' = edits + 1
    /\ UNCHANGED <<remote, local, call, session, sftp, replaces, os, service, procs, stream>>

-----------------------------------------------------------------------------
FileRequests == {r \in Requests : r.op \notin CommandOps}

FilesPart ==
    /\ \/ \E c \in Calls, r \in FileRequests : StartCall(c, r)
       \/ \E c \in Calls : FileStep(c)
       \/ \E f \in Files, content \in Edits : OtherUserEdits(f, content)
       \/ SessionEnds
    /\ UNCHANGED cmdVars

CommandStep(c) == DetectAndLaunch(c) \/ CommandAnswers(c) \/ CommandGivenUp(c)

CommandsNext ==
    \/ FilesPart
    \/ \E c \in Calls, r \in Requests \ FileRequests : StartCommand(c, r)
    \/ \E c \in Calls : CommandStep(c)
    \/ OtherUserInstalls
    \/ \E p \in procs, code \in {0, 1} : ProcessEnds(p, code)
    \/ \E p \in procs : TimeoutKills(p)
    \/ \E c \in Calls, which \in {"stdout", "stderr"}, data \in Chunks : OnChunk(c, which, data)

CommandsSpec == CommandsInit /\ [][CommandsNext]_vars

-----------------------------------------------------------------------------
(* Properties *)

CommandsTypeOK ==
    /\ FilesTypeOK
    /\ installed \in BOOLEAN
    /\ service \in {"started", "stopped"}
    /\ \A p \in procs : p.by \in Calls /\ p.st \in {"running", "ended"}

\* Everything a process wrote to one of its outputs.
Written(sent, w) ==
    LET text[n \in 0..Len(sent)] ==
          IF n = 0 THEN <<>> ELSE IF sent[n][1] = w THEN text[n - 1] \o sent[n][2] ELSE text[n - 1]
    IN  text[Len(sent)]

\* A streaming answer that does not say it is truncated holds everything the
\* process wrote, as text and as chunks; a truncated one stays within the
\* limits on bytes and on chunks.
StreamIsHonest ==
    \A c \in Calls :
        LET s == stream[c] IN
            /\ \A w \in {"stdout", "stderr"} : Bytes(s.out[w]) <= MaxOutputBytes
            /\ Len(s.chunks) <= MaxStreamChunks + 2
            /\ ~s.truncated => /\ \A w \in {"stdout", "stderr"} : s.out[w] = Written(s.sent, w)
                               /\ Len(s.sent) <= Len(s.chunks)
                               /\ \A i \in DOMAIN s.sent : s.chunks[i] = s.sent[i]

\* ensure_package answers success for a package that should be present only
\* if a process of that call saw it installed or installed it.
PresentWasSeen ==
    \A c \in Calls :
        call[c].req.op = "package" /\ call[c].req.state = "present" /\ call[c].res = "ok" =>
            \E p \in procs : p.by = c /\ p.cmd \in {"check", "install"} /\ p.code = 0
                             /\ p.st = "ended"

=============================================================================
