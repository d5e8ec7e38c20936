------------------------ MODULE RemoteCommands_proofs ------------------------
(***************************************************************************)
(* Proofs about the tool calls of one SSH session, for any number of calls *)
(* and requests, any remote tree and any limits: what a success promises,  *)
(* which files may be torn, which temporary files may stay, what a         *)
(* streaming answer holds, and what ensure_package saw.                    *)
(***************************************************************************)
EXTENDS RemoteCommands, JsMap_proofs, SequenceTheorems, FiniteSetTheorems

-----------------------------------------------------------------------------
(* What the record of a call holds at each of its awaits. *)

Places == Files \cup Dirs \cup Temporaries \cup Temps
Jobs == {"list", "unlink", "rmdir"} \X Places
NoRequest == [op |-> "none"]

Positions ==
    {"idle", "write", "rename", "unlink", "exists", "move", "size", "read", "save", "check", "stat",
     "shell", "mkdir", "remove", "start", "send", "verify", "dryrun", "patch", "cleanup", "os",
     "wait", "done"}
ServiceStates == {r.state : r \in {x \in Requests : x.op = "service"}}
Words ==
    {"none", "ok", "error", "denied", "sudo", "check", "install", "remove", "exec", "stream"}
      \cup ServiceStates

CallState ==
    [pc : Positions, req : Requests \cup {NoRequest}, path : Places \cup LocalTemps \cup {NoFile},
     data : Seq(Lines), got : Seq(Lines) \cup {NoFile}, err : Words,
     stage : Temporaries \cup {NoFile}, todo : Seq(Dirs \cup Jobs), res : {"none", "ok", "error"}]

\* Which tool waits where, and that only finished calls have an answer.
OpAt(k) ==
    /\ k.pc = "idle" => k.req = NoRequest
    /\ k.pc # "idle" => k.req \in Requests
    /\ k.pc \in {"write", "rename", "unlink"} => k.req.op \in {"write", "ensure", "patch"}
    /\ k.pc \in {"exists", "move"} => k.req.op = "ensure"
    /\ k.pc \in {"size", "read"} => k.req.op \in {"read", "download", "ensure"}
    /\ k.pc \in {"save", "check"} => k.req.op = "download"
    /\ k.pc \in {"stat", "shell"} => k.req.op \in {"mkdir", "remove"}
    /\ k.pc \in {"mkdir", "remove"} => k.req.op = k.pc
    /\ k.pc = "start" => k.req.op \in {"rename", "upload"}
    /\ k.pc \in {"send", "verify"} => k.req.op = "upload"
    /\ k.pc \in {"dryrun", "patch", "cleanup"} => k.req.op = "patch"
    /\ k.pc \in {"os", "wait"} => k.req.op \in CommandOps
    /\ k.pc = "done" <=> k.res # "none"

\* writeFile: what is written where, and what an ensure has computed.
WriteAt(k) ==
    k.pc \in {"write", "rename", "unlink", "move"} =>
        /\ k.data \in Whole
        /\ k.req.op = "write" => k.path = k.req.path /\ k.stage = NoFile /\ k.data = k.req.data
        /\ k.req.op = "patch" => k.path = k.stage /\ k.stage \in Temporaries
        /\ k.req.op = "ensure" => /\ k.path = IF k.stage = NoFile THEN k.req.path ELSE k.stage
                                  /\ Fulfils(k.req, k.got, k.data)
        /\ k.pc = "move" => k.stage \in Temporaries
        /\ k.pc = "unlink" => k.err \in {"error", "denied"}

\* A call that has read nothing, and a patch with its file.
EditAt(k) ==
    /\ k.pc \in {"idle", "exists", "size", "read"} => k.got = NoFile /\ k.stage = NoFile
    /\ k.pc \in {"dryrun", "patch", "cleanup"} => k.stage \in Temporaries
    /\ k.pc = "cleanup" => k.err \in {"ok", "error"}

\* The directories still to make, and the jobs of a removal: the last is the path itself.
TreeAt(k) ==
    /\ k.pc \in {"stat", "shell", "mkdir"} /\ k.req.op = "mkdir" => k.todo \in Seq(Dirs) \ {<<>>}
    /\ k.pc = "remove" => /\ k.todo \in Seq(Jobs) \ {<<>>}
                          /\ k.todo[Len(k.todo)][2] = k.req.path

\* What an upload sends, and where a download is saved.
TransferAt(k) ==
    /\ k.pc \in {"start", "send", "verify"} /\ k.req.op = "upload" => k.data = k.req.data
    /\ k.req.op = "download" /\ (k.pc \in {"save", "check"} \/ k.res = "ok") => k.path \in LocalTemps

\* What a command waits for.
CommandAt(k) ==
    k.pc = "wait" =>
        /\ k.req.op = "stream" => k.err = "stream"
        /\ k.req.op = "package" /\ k.req.state = "present" => k.err \in {"check", "install"}

CallOk(k) ==
    /\ k \in CallState /\ OpAt(k) /\ WriteAt(k) /\ EditAt(k) /\ TreeAt(k) /\ TransferAt(k)
    /\ CommandAt(k)

-----------------------------------------------------------------------------
(* The invariant of the host and of the calls. *)

\* No call is an upload.
Calm == \A c \in Calls : call[c].req.op # "upload"

\* Directories and files are where they belong.
TreeOk ==
    /\ IsFiniteSet(DOMAIN remote)
    /\ DOMAIN remote \subseteq Places
    /\ \A p \in DOMAIN remote : IF p \in Dirs THEN remote[p] = Folder ELSE remote[p] \in Seq(Lines)

\* A temporary file of writeFile with this content belongs to a call that will rename or
\* unlink it, or that has failed.
TempOk(k, q, content) ==
    /\ k.path = q
    /\ \/ k.pc = "rename" /\ content = k.data
       \/ k.pc = "unlink" /\ k.err = "error"
       \/ k.pc = "done" /\ k.res = "error"

TempsOk ==
    \A c \in Calls, q \in Targets : Exists(Temp(c, q)) => TempOk(call[c], q, remote[Temp(c, q)])

\* The staged file of an ensure holds what it computed, unless another call staged there too.
StagesOk ==
    \A c \in Calls :
        sftp /\ call[c].pc = "move" /\ Exists(call[c].stage) =>
            remote[call[c].stage] = call[c].data \/ StageIsShared(c)

\* Without uploads, and with SFTP, only the temporary files of writeFile are torn.
NoTears ==
    sftp /\ Calm =>
        /\ \A p \in DOMAIN remote : p \notin Temps => remote[p] # Torn
        /\ \A f \in DOMAIN local : f \in LocalFiles => local[f] # Torn
        /\ \A c \in Calls : call[c].pc \in {"save", "check"} => call[c].data # Torn

\* A finished download's temporary file is there only for another download.
SavedOk ==
    \A c \in Calls :
        call[c].req.op = "download" /\ call[c].res = "ok" /\ call[c].path \in DOMAIN local =>
            \E d \in Calls \ {c} : /\ call[d].path = call[c].path
                                   /\ call[d].req.op = "download" /\ call[d].pc \in {"check", "done"}

HostInv ==
    /\ call \in [Calls -> CallState] /\ \A c \in Calls : CallOk(call[c])
    /\ TreeOk /\ TempsOk /\ StagesOk /\ NoTears /\ SavedOk

-----------------------------------------------------------------------------
(* A step of one call: how its record goes on, and what it may do to files. *)

\* Call c goes on as n.
Follows(c, n) ==
    /\ Continue(c, n) /\ CallOk(n)
    /\ call[c].pc # "done" /\ n.pc # "idle"
    /\ call[c].pc # "idle" => n.req = call[c].req
    /\ call[c].stage # NoFile => n.stage = call[c].stage
    /\ call[c].pc \in {"save", "check"} => n.path = call[c].path
    /\ call[c].pc = "check" => n.pc = "done"

\* What the call may have put at p.
Placed(c, n, p) ==
    \/ p \in Dirs /\ remote'[p] = Folder
    \/ p \in Files /\ remote'[p] \in Seq(Lines) /\ (sftp /\ Calm => remote'[p] # Torn)
    \/ p \in Temporaries /\ p = n.stage /\ remote'[p] \in Seq(Lines) /\ (sftp => remote'[p] # Torn)
    \/ remote'[p] \in Seq(Lines) /\ \E q \in Targets : p = Temp(c, q)

RemoteStep(c, n) ==
    /\ \E P : IsFiniteSet(P) /\ DOMAIN remote' \subseteq DOMAIN remote \cup P
    /\ \A p \in DOMAIN remote' : \/ p \in DOMAIN remote /\ remote'[p] = remote[p]
                                \/ Placed(c, n, p)
    /\ \A q \in Targets : Temp(c, q) \in DOMAIN remote' => TempOk(n, q, remote'[Temp(c, q)])
    /\ sftp /\ n.pc = "move" /\ n.stage \in DOMAIN remote' => remote'[n.stage] = n.data

LocalStep(c, n) ==
    /\ \A f \in DOMAIN local' :
          \/ f \in DOMAIN local /\ local'[f] = local[f]
          \/ f = n.path /\ f \in LocalTemps /\ n.req.op = "download" /\ n.pc \in {"check", "done"}
          \/ f \in LocalFiles /\ (sftp /\ Calm => local'[f] # Torn)
    /\ n.req.op = "download" /\ n.res = "ok" => n.path \notin DOMAIN local'
    /\ sftp /\ Calm /\ n.pc \in {"save", "check"} => n.data # Torn

\* The whole step of call c, and that its answer of success is true.
Step(c, n) ==
    /\ Follows(c, n) /\ RemoteStep(c, n) /\ LocalStep(c, n)
    /\ n.res = "ok" => Promised(c)'
    /\ sftp' = sftp

\* The records after the step.
LEMMA CallsAfter ==
    ASSUME HostInv, NEW c \in Calls, NEW n, Follows(c, n)
    PROVE  /\ call' \in [Calls -> CallState] /\ \A d \in Calls : CallOk(call'[d])
           /\ call'[c] = n /\ \A d \in Calls \ {c} : call'[d] = call[d]
<1>1. n \in CallState
  BY DEF Follows, CallOk
<1>2. call'[c] = n /\ \A d \in Calls \ {c} : call'[d] = call[d]
  BY DEF HostInv, Follows, Continue
<1>3. call' \in [Calls -> CallState]
  BY <1>1 DEF HostInv, Follows, Continue
<1>4. QED BY <1>2, <1>3 DEF HostInv, Follows

\* Names of files, of staged files and of temporary files do not meet.
LEMMA NamesApart ==
    /\ \A c, d \in Calls, q, r \in Targets : Temp(c, q) = Temp(d, r) => c = d /\ q = r
    /\ Temporaries \cap Temps = {} /\ (Files \cup Dirs) \cap (Temporaries \cup Temps) = {}
    /\ Files \cap Dirs = {} /\ NoFile \notin Temporaries /\ NoFile \notin Files
    /\ \A c \in Calls, q \in Targets : Temp(c, q) \in Temps
<1>1. \A c, d \in Calls, q, r \in Targets : Temp(c, q) = Temp(d, r) => c = d /\ q = r
  BY DEF Temp
<1>2. Temporaries \cap Temps = {}
  BY DEF Temporaries, Temps, Stage, PatchFile, Temp
<1>3. \A c \in Calls, q \in Targets : Temp(c, q) \in Temps
  BY DEF Temps
<1>4. QED BY <1>1, <1>2, <1>3, FilesAssumption DEF Targets

LEMMA StepKeepsTree ==
    ASSUME HostInv, NEW c \in Calls, NEW n, Step(c, n)
    PROVE  TreeOk'
<1>1. IsFiniteSet(DOMAIN remote')
  <2>1. PICK P : IsFiniteSet(P) /\ DOMAIN remote' \subseteq DOMAIN remote \cup P
    BY DEF Step, RemoteStep
  <2>2. IsFiniteSet(DOMAIN remote \cup P)
    BY <2>1, FS_Union DEF HostInv, TreeOk
  <2>3. QED BY <2>1, <2>2, FS_Subset
<1>2. ASSUME NEW p \in DOMAIN remote'
      PROVE  p \in Places /\ IF p \in Dirs THEN remote'[p] = Folder ELSE remote'[p] \in Seq(Lines)
  <2>1. CASE p \in DOMAIN remote /\ remote'[p] = remote[p]
    BY <2>1 DEF HostInv, TreeOk
  <2>2. CASE Placed(c, n, p)
    BY <2>2, NamesApart DEF Placed, Places
  <2>3. QED BY <2>1, <2>2 DEF Step, RemoteStep
<1>3. QED BY <1>1, <1>2 DEF TreeOk

LEMMA StepKeepsTemps ==
    ASSUME HostInv, NEW c \in Calls, NEW n, Step(c, n)
    PROVE  TempsOk'
<1>1. SUFFICES ASSUME NEW d \in Calls, NEW q \in Targets, Temp(d, q) \in DOMAIN remote'
               PROVE  TempOk(call'[d], q, remote'[Temp(d, q)])
  BY DEF TempsOk, Exists
<1>2. CASE d = c
  BY <1>1, <1>2, CallsAfter DEF Step, RemoteStep
<1>3. CASE d # c
  <2>1. call'[d] = call[d]
    BY <1>3, CallsAfter DEF Step
  <2>2. ~Placed(c, n, Temp(d, q))
    BY <1>3, NamesApart DEF Placed
  <2>3. Temp(d, q) \in DOMAIN remote /\ remote'[Temp(d, q)] = remote[Temp(d, q)]
    BY <1>1, <2>2 DEF Step, RemoteStep
  <2>4. QED BY <2>1, <2>3 DEF HostInv, TempsOk, Exists
<1>4. QED BY <1>2, <1>3

LEMMA StepKeepsStages ==
    ASSUME HostInv, NEW c \in Calls, NEW n, Step(c, n)
    PROVE  StagesOk'
<1>1. SUFFICES ASSUME NEW d \in Calls, sftp, call'[d].pc = "move", call'[d].stage \in DOMAIN remote'
               PROVE  remote'[call'[d].stage] = call'[d].data \/ StageIsShared(d)'
  BY DEF StagesOk, Exists, Step
<1>2. CASE d = c
  BY <1>1, <1>2, CallsAfter DEF Step, RemoteStep
<1>3. CASE d # c
  <2>1. call'[d] = call[d] /\ call'[c] = n
    BY <1>3, CallsAfter DEF Step
  <2>2. call[d].stage \in Temporaries
    BY <1>1, <2>1 DEF HostInv, CallOk, OpAt, WriteAt
  <2>3. CASE n.stage = call[d].stage
    BY <2>1, <2>2, <2>3, <1>3, NamesApart DEF StageIsShared
  <2>4. CASE n.stage # call[d].stage
    <3>1. ~Placed(c, n, call[d].stage)
      BY <2>2, <2>4, NamesApart DEF Placed
    <3>2. call[d].stage \in DOMAIN remote /\ remote'[call[d].stage] = remote[call[d].stage]
      BY <1>1, <2>1, <3>1 DEF Step, RemoteStep
    <3>3. remote[call[d].stage] = call[d].data \/ StageIsShared(d)
      BY <1>1, <2>1, <3>2 DEF HostInv, StagesOk, Exists
    <3>4. CASE remote[call[d].stage] = call[d].data
      BY <3>2, <3>4, <2>1
    <3>5. CASE StageIsShared(d)
      <4>1. PICK e \in Calls \ {d} : call[e].stage = call[d].stage
        BY <3>5 DEF StageIsShared
      <4>2. call'[e].stage = call[e].stage
        BY <4>1, <2>2, NamesApart, CallsAfter DEF Step, Follows
      <4>3. QED BY <4>1, <4>2, <2>1, <2>2, NamesApart DEF StageIsShared
    <3>6. QED BY <3>3, <3>4, <3>5
  <2>5. QED BY <2>3, <2>4
<1>4. QED BY <1>2, <1>3

\* An upload stays an upload.
LEMMA CalmBefore ==
    ASSUME HostInv, NEW c \in Calls, NEW n, Step(c, n), Calm'
    PROVE  Calm
<1>1. SUFFICES ASSUME NEW d \in Calls, call[d].req.op = "upload" PROVE call'[d].req.op = "upload"
  BY DEF Calm
<1>2. call[d].pc # "idle"
  BY <1>1 DEF HostInv, CallOk, OpAt, NoRequest
<1>3. QED BY <1>1, <1>2, CallsAfter DEF Step, Follows

LEMMA StepTearsNothing ==
    ASSUME HostInv, NEW c \in Calls, NEW n, Step(c, n)
    PROVE  NoTears'
<1>1. SUFFICES ASSUME sftp, Calm, Calm'
               PROVE  /\ \A p \in DOMAIN remote' : p \notin Temps => remote'[p] # Torn
                      /\ \A f \in DOMAIN local' : f \in LocalFiles => local'[f] # Torn
                      /\ \A d \in Calls : call'[d].pc \in {"save", "check"} => call'[d].data # Torn
  BY CalmBefore DEF NoTears, Step
<1>2. ASSUME NEW p \in DOMAIN remote', p \notin Temps PROVE remote'[p] # Torn
  <2>1. CASE p \in DOMAIN remote /\ remote'[p] = remote[p]
    BY <1>1, <1>2, <2>1 DEF HostInv, NoTears
  <2>2. CASE p \in Dirs /\ remote'[p] = Folder
    <3>1. Torn \in Seq(Lines)
      BY DEF Torn
    <3>2. QED BY <2>2, <3>1, FilesAssumption
  <2>3. CASE Placed(c, n, p) /\ p \notin Dirs
    BY <1>1, <1>2, <2>3, NamesApart DEF Placed
  <2>4. QED BY <2>1, <2>2, <2>3, <1>2, NamesApart DEF Step, RemoteStep, Placed
<1>3. ASSUME NEW f \in DOMAIN local', f \in LocalFiles PROVE local'[f] # Torn
  BY <1>1, <1>3, FilesAssumption DEF HostInv, NoTears, Step, LocalStep
<1>4. ASSUME NEW d \in Calls, call'[d].pc \in {"save", "check"} PROVE call'[d].data # Torn
  BY <1>1, <1>4, CallsAfter DEF HostInv, NoTears, Step, LocalStep
<1>5. QED BY <1>2, <1>3, <1>4

LEMMA StepKeepsSaved ==
    ASSUME HostInv, NEW c \in Calls, NEW n, Step(c, n)
    PROVE  SavedOk'
<1>1. SUFFICES ASSUME NEW d \in Calls, call'[d].req.op = "download", call'[d].res = "ok",
                      call'[d].path \in DOMAIN local'
               PROVE  \E e \in Calls \ {d} :
                         /\ call'[e].path = call'[d].path
                         /\ call'[e].req.op = "download" /\ call'[e].pc \in {"check", "done"}
  BY DEF SavedOk
<1>2. d # c /\ call'[d] = call[d] /\ call'[c] = n
  BY <1>1, CallsAfter DEF Step, LocalStep
<1>3. call[d].path \in LocalTemps
  BY <1>1, <1>2 DEF HostInv, CallOk, TransferAt
<1>4. CASE call[d].path \in DOMAIN local
  <2>1. PICK e \in Calls \ {d} : /\ call[e].path = call[d].path
                                 /\ call[e].req.op = "download" /\ call[e].pc \in {"check", "done"}
    BY <1>1, <1>2, <1>4 DEF HostInv, SavedOk
  <2>2. CASE e # c
    BY <2>1, <2>2, <1>2, CallsAfter DEF Step
  <2>3. CASE e = c
    <3>1. n.path = call[d].path /\ n.req.op = "download"
      BY <2>1, <2>3 DEF Step, Follows
    <3>2. CASE n.pc \in {"check", "done"}
      BY <3>1, <3>2, <2>3, <1>2
    <3>3. QED BY <2>1, <2>3, <3>2 DEF Step, Follows
  <2>4. QED BY <2>2, <2>3
<1>5. CASE call[d].path \notin DOMAIN local
  BY <1>1, <1>2, <1>3, <1>5, FilesAssumption DEF Step, LocalStep
<1>6. QED BY <1>4, <1>5

LEMMA StepKeepsHost ==
    ASSUME HostInv, NEW c \in Calls, NEW n, Step(c, n)
    PROVE  HostInv'
<1>1. call' \in [Calls -> CallState] /\ \A d \in Calls : CallOk(call'[d])
  BY CallsAfter DEF Step
<1>2. (\A d \in Calls : CallOk(call[d]))'
  BY <1>1 DEF CallOk, OpAt, WriteAt, EditAt, TreeAt, TransferAt, CommandAt, Fulfils
<1>3. QED
  BY <1>1, <1>2, StepKeepsTree, StepKeepsTemps, StepKeepsStages, StepTearsNothing, StepKeepsSaved
     DEF HostInv

-----------------------------------------------------------------------------
(* Ways to take a step. *)

\* Between two writes a call has no temporary file.
LEMMA NoTempOf ==
    ASSUME HostInv, NEW c \in Calls, call[c].pc \notin {"rename", "unlink", "done"}
    PROVE  \A q \in Targets : Temp(c, q) \notin DOMAIN remote
BY DEF HostInv, TempsOk, TempOk, Exists

\* Nothing happens to the files.
LEMMA QuietStep ==
    ASSUME HostInv, NEW c \in Calls, NEW n, Follows(c, n), UNCHANGED <<remote, local, sftp>>,
           call[c].pc \notin {"rename", "unlink"}, n.pc # "move",
           sftp /\ Calm /\ n.pc \in {"save", "check"} => n.data # Torn,
           ~(n.req.op = "download" /\ n.res = "ok"),
           n.res = "ok" => Promised(c)'
    PROVE  Step(c, n)
<1>1. call[c].pc # "done"
  BY DEF Follows
<1>2. RemoteStep(c, n)
  BY <1>1, NoTempOf, FS_EmptySet DEF RemoteStep
<1>3. LocalStep(c, n)
  BY DEF LocalStep
<1>4. QED BY <1>2, <1>3 DEF Step

\* One remote path gets a content, others go.
LEMMA PutStep ==
    ASSUME HostInv, NEW c \in Calls, NEW n, Follows(c, n), UNCHANGED <<local, sftp>>,
           NEW p, NEW x, NEW P, remote' = Put(Drop(remote, P), p, x), Placed(c, n, p),
           \A q \in Targets : p # Temp(c, q),
           call[c].pc \notin {"rename", "unlink"}, n.pc \notin {"move", "save", "check"},
           ~(n.req.op = "download" /\ n.res = "ok"),
           n.res = "ok" => Promised(c)'
    PROVE  Step(c, n)
<1>1. call[c].pc # "done"
  BY DEF Follows
<1>2. DOMAIN remote' = (DOMAIN remote \ P) \cup {p}
      /\ \A q \in DOMAIN remote' : q # p => q \in DOMAIN remote /\ remote'[q] = remote[q]
  BY DEF Put, Drop
<1>3. IsFiniteSet({p}) /\ DOMAIN remote' \subseteq DOMAIN remote \cup {p}
  BY <1>2, FS_Singleton
<1>4. \A q \in Targets : Temp(c, q) \notin DOMAIN remote'
  BY <1>1, <1>2, NoTempOf
<1>5. RemoteStep(c, n)
  BY <1>2, <1>3, <1>4 DEF RemoteStep
<1>6. LocalStep(c, n)
  BY DEF LocalStep
<1>7. QED BY <1>5, <1>6 DEF Step

\* Remote paths go.
LEMMA DropStep ==
    ASSUME HostInv, NEW c \in Calls, NEW n, Follows(c, n), UNCHANGED <<local, sftp>>,
           NEW P, remote' = Drop(remote, P),
           call[c].pc \notin {"rename", "unlink"}, n.pc \notin {"move", "save", "check"},
           ~(n.req.op = "download" /\ n.res = "ok"),
           n.res = "ok" => Promised(c)'
    PROVE  Step(c, n)
<1>1. call[c].pc # "done"
  BY DEF Follows
<1>2. DOMAIN remote' = DOMAIN remote \ P /\ \A q \in DOMAIN remote' : remote'[q] = remote[q]
  BY DEF Drop
<1>3. RemoteStep(c, n)
  BY <1>1, <1>2, NoTempOf, FS_EmptySet DEF RemoteStep
<1>4. LocalStep(c, n)
  BY DEF LocalStep
<1>5. QED BY <1>3, <1>4 DEF Step

\* An answered call.
LEMMA Answered ==
    ASSUME NEW k, CallOk(k), k.pc \notin {"idle", "done"}, NEW r \in {"ok", "error"},
           k.req.op = "download" /\ r = "ok" => k.path \in LocalTemps
    PROVE  LET n == [k EXCEPT !.pc = "done", !.res = r]
           IN  /\ CallOk(n) /\ n.pc = "done" /\ n.res = r /\ n.req = k.req /\ n.path = k.path
               /\ n.data = k.data /\ n.got = k.got /\ n.stage = k.stage
<1>1. k \in CallState
  BY DEF CallOk
<1> DEFINE n == [k EXCEPT !.pc = "done", !.res = r]
<1>2. /\ n.pc = "done" /\ n.res = r /\ n.req = k.req /\ n.path = k.path
      /\ n.data = k.data /\ n.got = k.got /\ n.stage = k.stage
  BY <1>1 DEF CallState
<1>3. n \in CallState
  BY <1>1 DEF CallState, Positions
<1> HIDE DEF n
<1>4. CallOk(n)
  BY <1>2, <1>3 DEF CallOk, OpAt, WriteAt, EditAt, TreeAt, TransferAt, CommandAt
<1>5. QED BY <1>2, <1>4 DEF n

LEMMA AnswerFollows ==
    ASSUME HostInv, NEW c \in Calls, call[c].pc \notin {"idle", "done"}, NEW r \in {"ok", "error"},
           call[c].req.op = "download" /\ r = "ok" => call[c].path \in LocalTemps, Answer(c, r)
    PROVE  \E n : /\ Follows(c, n) /\ n.pc = "done" /\ n.res = r /\ n.req = call[c].req
                  /\ n.path = call[c].path /\ n.data = call[c].data /\ n.got = call[c].got
                  /\ n.stage = call[c].stage
<1>1. PICK n : n = [call[c] EXCEPT !.pc = "done", !.res = r]
  OBVIOUS
<1>2. /\ CallOk(n) /\ n.pc = "done" /\ n.res = r /\ n.req = call[c].req /\ n.path = call[c].path
      /\ n.data = call[c].data /\ n.got = call[c].got /\ n.stage = call[c].stage
  BY <1>1, Answered DEF HostInv
<1>3. Continue(c, n)
  BY <1>1 DEF Answer
<1>4. QED BY <1>2, <1>3 DEF Follows

\* A call that fails and touches nothing.
LEMMA FailStep ==
    ASSUME HostInv, NEW c \in Calls, call[c].pc \notin {"idle", "done"}, Answer(c, "error"),
           UNCHANGED <<remote, local, sftp>>
    PROVE  \E n : Step(c, n)
<1>1. PICK n : /\ Follows(c, n) /\ n.pc = "done" /\ n.res = "error" /\ n.req = call[c].req
               /\ n.path = call[c].path
  BY AnswerFollows
<1>2. RemoteStep(c, n)
  BY <1>1, FS_EmptySet DEF RemoteStep, HostInv, TempsOk, TempOk, Exists
<1>3. LocalStep(c, n)
  BY <1>1 DEF LocalStep
<1>4. QED BY <1>1, <1>2, <1>3 DEF Step

\* A call that goes on to its next await.
LEMMA Advanced ==
    ASSUME NEW k, CallOk(k), NEW p \in Positions
    PROVE  LET n == [k EXCEPT !.pc = p]
           IN  /\ n \in CallState /\ n.pc = p /\ n.res = k.res /\ n.req = k.req /\ n.path = k.path
               /\ n.data = k.data /\ n.got = k.got /\ n.stage = k.stage /\ n.todo = k.todo /\ n.err = k.err
BY DEF CallOk, CallState

LEMMA GotoFollows ==
    ASSUME HostInv, NEW c \in Calls, call[c].pc \notin {"idle", "done", "check"},
           NEW p \in Positions \ {"idle", "done"}, Goto(c, p),
           \A n : /\ n \in CallState /\ n.pc = p /\ n.res = call[c].res /\ n.req = call[c].req
                  /\ n.path = call[c].path /\ n.data = call[c].data /\ n.got = call[c].got
                  /\ n.stage = call[c].stage /\ n.todo = call[c].todo /\ n.err = call[c].err
                  => CallOk(n)
    PROVE  \E n : /\ Follows(c, n) /\ n.pc = p /\ n.res = "none" /\ n.req = call[c].req
                  /\ n.path = call[c].path /\ n.data = call[c].data /\ n.got = call[c].got
                  /\ n.stage = call[c].stage
<1>1. PICK n : n = [call[c] EXCEPT !.pc = p]
  OBVIOUS
<1>2. CallOk(call[c]) /\ call[c].res = "none"
  BY DEF HostInv, CallOk, OpAt
<1>3. /\ n \in CallState /\ n.pc = p /\ n.res = call[c].res /\ n.req = call[c].req
      /\ n.path = call[c].path /\ n.data = call[c].data /\ n.got = call[c].got
      /\ n.stage = call[c].stage /\ n.todo = call[c].todo /\ n.err = call[c].err
  BY <1>1, <1>2, Advanced
<1>4. CallOk(n)
  BY <1>3
<1>5. Continue(c, n)
  BY <1>1 DEF Goto
<1>6. QED BY <1>2, <1>3, <1>4, <1>5 DEF Follows

-----------------------------------------------------------------------------
(* readFile, makeDirectories, removeRecursive and renameFile. *)

LEMMA StatForReadSteps ==
    ASSUME HostInv, NEW c \in Calls, StatForRead(c)
    PROVE  \E n : Step(c, n)
<1>1. call[c].pc = "size" /\ CallOk(call[c]) /\ UNCHANGED <<remote, local, sftp>>
  BY DEF StatForRead, CallFails, HostInv, OnlyCall, Rest
<1>2. CASE Answer(c, "error")
  BY <1>1, <1>2, FailStep
<1>3. CASE Goto(c, "read")
  <2>1. "read" \in Positions \ {"idle", "done"}
    BY DEF Positions
  <2>2. ASSUME NEW n, n \in CallState, n.pc = "read", n.res = call[c].res, n.req = call[c].req,
               n.got = call[c].got, n.stage = call[c].stage
        PROVE  CallOk(n)
    BY <1>1, <2>2 DEF CallOk, OpAt, WriteAt, EditAt, TreeAt, TransferAt, CommandAt
  <2>3. PICK n : Follows(c, n) /\ n.pc = "read" /\ n.res = "none"
    BY <1>1, <1>3, <2>1, <2>2, GotoFollows
  <2>4. Step(c, n)
    BY <1>1, <2>3, QuietStep
  <2>5. QED BY <2>4
<1>4. QED BY <1>2, <1>3 DEF StatForRead, CallFails

LEMMA ReadFileSteps ==
    ASSUME HostInv, NEW c \in Calls, ReadFile(c)
    PROVE  \E n : Step(c, n)
<1>1. /\ call[c].pc = "read" /\ call[c].req.op = "read" /\ CallOk(call[c])
      /\ UNCHANGED <<remote, local, sftp>>
  BY DEF ReadFile, At, CallFails, HostInv, OnlyCall, Rest
<1>2. CASE Answer(c, "error")
  BY <1>1, <1>2, FailStep
<1>3. CASE /\ IsFile(Path(c))
           /\ Continue(c, [call[c] EXCEPT !.pc = "done", !.res = "ok", !.got = remote[Path(c)]])
  <2>1. remote[Path(c)] \in Seq(Lines)
    BY <1>3, <1>1, FilesAssumption DEF IsFile, Exists, HostInv, TreeOk
  <2>2. PICK n : n = [call[c] EXCEPT !.pc = "done", !.res = "ok", !.got = remote[Path(c)]]
    OBVIOUS
  <2>3. n \in CallState /\ n.pc = "done" /\ n.res = "ok" /\ n.req = call[c].req /\ n.stage = call[c].stage
    BY <1>1, <2>1, <2>2 DEF CallOk, CallState, Positions
  <2>4. CallOk(n)
    BY <1>1, <2>3 DEF CallOk, OpAt, WriteAt, EditAt, TreeAt, TransferAt, CommandAt
  <2>5. Follows(c, n)
    BY <1>1, <1>3, <2>2, <2>3, <2>4 DEF Follows
  <2>6. Promised(c)'
    BY <1>1, <2>3, <2>5, CallsAfter DEF Promised
  <2>7. Step(c, n)
    BY <1>1, <2>3, <2>5, <2>6, QuietStep
  <2>8. QED BY <2>7
<1>4. QED BY <1>2, <1>3 DEF ReadFile, CallFails

\* A call with other work to do.
LEMMA TodoFollows ==
    ASSUME HostInv, NEW c \in Calls, NEW p \in {"stat", "remove"}, NEW rest,
           rest \in Seq(Dirs) \/ rest \in Seq(Jobs), rest # <<>>,
           IF p = "stat" THEN call[c].pc \in {"stat", "mkdir"} /\ call[c].req.op = "mkdir" /\ rest \in Seq(Dirs)
           ELSE /\ call[c].pc \in {"stat", "remove"} /\ call[c].req.op = "remove"
                /\ rest \in Seq(Jobs) /\ rest[Len(rest)][2] = call[c].req.path,
           Continue(c, [call[c] EXCEPT !.pc = p, !.todo = rest])
    PROVE  \E n : Follows(c, n) /\ n.pc = p /\ n.res = "none" /\ n.req = call[c].req
<1>1. CallOk(call[c])
  BY DEF HostInv
<1>2. PICK n : n = [call[c] EXCEPT !.pc = p, !.todo = rest]
  OBVIOUS
<1>3. rest \in Seq(Dirs \cup Jobs)
  OBVIOUS
<1>4. /\ n \in CallState /\ n.pc = p /\ n.res = call[c].res /\ n.req = call[c].req
      /\ n.stage = call[c].stage /\ n.todo = rest
  BY <1>1, <1>2, <1>3 DEF CallOk, CallState, Positions
<1>5. CallOk(n)
  BY <1>1, <1>4 DEF CallOk, OpAt, WriteAt, EditAt, TreeAt, TransferAt, CommandAt
<1>6. QED BY <1>1, <1>2, <1>4, <1>5 DEF Follows, CallOk, OpAt

LEMMA StatForMkdirSteps ==
    ASSUME HostInv, NEW c \in Calls, StatForMkdir(c)
    PROVE  \E n : Step(c, n)
<1>1. /\ call[c].pc = "stat" /\ call[c].req.op = "mkdir" /\ CallOk(call[c])
      /\ UNCHANGED <<remote, local, sftp>>
  BY DEF StatForMkdir, At, HostInv, OnlyCall, Rest
<1>2. call[c].todo \in Seq(Dirs) /\ call[c].todo # <<>> /\ Tail(call[c].todo) \in Seq(Dirs)
  BY <1>1 DEF CallOk, TreeAt
<1>3. CASE Answer(c, "ok")
  <2>1. PICK n : Follows(c, n) /\ n.pc = "done" /\ n.res = "ok" /\ n.req = call[c].req
    BY <1>1, <1>3, AnswerFollows
  <2>2. Promised(c)'
    BY <1>1, <2>1, CallsAfter DEF Promised
  <2>3. Step(c, n)
    BY <1>1, <2>1, <2>2, QuietStep
  <2>4. QED BY <2>3
<1>4. CASE Tail(call[c].todo) # <<>> /\ Continue(c, [call[c] EXCEPT !.todo = Tail(call[c].todo)])
  <2>1. [call[c] EXCEPT !.todo = Tail(call[c].todo)]
          = [call[c] EXCEPT !.pc = "stat", !.todo = Tail(call[c].todo)]
    BY <1>1 DEF CallOk, CallState
  <2>2. PICK n : Follows(c, n) /\ n.pc = "stat" /\ n.res = "none" /\ n.req = call[c].req
    BY <1>1, <1>2, <1>4, <2>1, TodoFollows
  <2>3. Step(c, n)
    BY <1>1, <2>2, QuietStep
  <2>4. QED BY <2>3
<1>5. CASE Goto(c, "mkdir")
  <2>1. "mkdir" \in Positions \ {"idle", "done"}
    BY DEF Positions
  <2>2. ASSUME NEW n, n \in CallState, n.pc = "mkdir", n.res = call[c].res, n.req = call[c].req,
               n.todo = call[c].todo
        PROVE  CallOk(n)
    BY <1>1, <1>2, <2>2 DEF CallOk, OpAt, WriteAt, EditAt, TreeAt, TransferAt, CommandAt
  <2>3. PICK n : Follows(c, n) /\ n.pc = "mkdir" /\ n.res = "none"
    BY <1>1, <1>5, <2>1, <2>2, GotoFollows
  <2>4. Step(c, n)
    BY <1>1, <2>3, QuietStep
  <2>5. QED BY <2>4
<1>6. QED BY <1>3, <1>4, <1>5 DEF StatForMkdir

LEMMA MkdirSteps ==
    ASSUME HostInv, NEW c \in Calls, Mkdir(c)
    PROVE  \E n : Step(c, n)
<1>1. /\ call[c].pc = "mkdir" /\ call[c].req.op = "mkdir" /\ CallOk(call[c])
      /\ UNCHANGED <<local, sftp>>
  BY DEF Mkdir, At, HostInv, Rest
<1>2. PICK d, rest : d = Head(call[c].todo) /\ rest = Tail(call[c].todo)
  OBVIOUS
<1>3. d \in Dirs /\ rest \in Seq(Dirs)
  BY <1>1, <1>2 DEF CallOk, TreeAt
<1>4. ASSUME IF rest = <<>> THEN Answer(c, "ok")
             ELSE Continue(c, [call[c] EXCEPT !.pc = "stat", !.todo = rest])
      PROVE  \E n : /\ Follows(c, n) /\ n.pc \in {"done", "stat"} /\ n.req = call[c].req
                    /\ n.res = "ok" => Promised(c)'
  <2>1. CASE rest = <<>>
    <3>1. PICK n : Follows(c, n) /\ n.pc = "done" /\ n.res = "ok" /\ n.req = call[c].req
      BY <1>1, <1>4, <2>1, AnswerFollows
    <3>2. Promised(c)'
      BY <1>1, <3>1, CallsAfter DEF Promised
    <3>3. QED BY <3>1, <3>2
  <2>2. CASE rest # <<>>
    <3>1. PICK n : Follows(c, n) /\ n.pc = "stat" /\ n.res = "none" /\ n.req = call[c].req
      BY <1>1, <1>3, <1>4, <2>2, TodoFollows
    <3>2. QED BY <3>1
  <2>3. QED BY <2>1, <2>2
<1>5. CASE /\ remote' = Put(remote, d, Folder)
           /\ IF rest = <<>> THEN Answer(c, "ok")
              ELSE Continue(c, [call[c] EXCEPT !.pc = "stat", !.todo = rest])
  <2>1. PICK n : /\ Follows(c, n) /\ n.pc \in {"done", "stat"} /\ n.req = call[c].req
                 /\ n.res = "ok" => Promised(c)'
    BY <1>4, <1>5
  <2>2. remote' = Put(Drop(remote, {}), d, Folder)
    BY <1>5 DEF Put, Drop
  <2>3. Placed(c, n, d)
    BY <1>3, <1>5 DEF Placed, Put
  <2>4. \A q \in Targets : d # Temp(c, q)
    BY <1>3, NamesApart
  <2>5. Step(c, n)
    BY <1>1, <2>1, <2>2, <2>3, <2>4, PutStep
  <2>6. QED BY <2>5
<1>6. CASE /\ UNCHANGED remote
           /\ IF rest = <<>> THEN Answer(c, "ok")
              ELSE Continue(c, [call[c] EXCEPT !.pc = "stat", !.todo = rest])
  <2>1. PICK n : /\ Follows(c, n) /\ n.pc \in {"done", "stat"} /\ n.req = call[c].req
                 /\ n.res = "ok" => Promised(c)'
    BY <1>4, <1>6
  <2>2. Step(c, n)
    BY <1>1, <1>6, <2>1, QuietStep
  <2>3. QED BY <2>2
<1>7. CASE Answer(c, "error") /\ UNCHANGED remote
  BY <1>1, <1>7, FailStep
<1>8. QED BY <1>2, <1>5, <1>6, <1>7 DEF Mkdir

\* The last job of a removal.
LEMMA LastJob ==
    ASSUME NEW todo \in Seq(Jobs), todo # <<>>
    PROVE  /\ Head(todo) \in Jobs /\ Tail(todo) \in Seq(Jobs)
           /\ Tail(todo) = <<>> => todo[Len(todo)] = Head(todo)
           /\ Tail(todo) # <<>> => Tail(todo)[Len(Tail(todo))] = todo[Len(todo)]
<1>1. PICK t : t = Tail(todo)
  OBVIOUS
<1>2. /\ Head(todo) = todo[1] /\ Head(todo) \in Jobs /\ t \in Seq(Jobs)
      /\ Len(t) = Len(todo) - 1 /\ \A i \in 1..Len(t) : t[i] = todo[i + 1]
  BY <1>1, HeadTailProperties
<1>3. Len(t) \in Nat /\ Len(todo) \in Nat
  BY <1>2
<1>4. CASE t = <<>>
  <2>1. Len(todo) = 1
    BY <1>2, <1>3, <1>4
  <2>2. QED BY <1>1, <1>2, <1>4, <2>1
<1>5. CASE t # <<>>
  <2>1. Len(t) \in 1..Len(t)
    BY <1>2, <1>3, <1>5, EmptySeq
  <2>2. t[Len(t)] = todo[Len(todo)]
    BY <1>2, <1>3, <2>1
  <2>3. QED BY <1>1, <1>2, <1>5, <2>2
<1>6. QED BY <1>4, <1>5

\* The jobs of a listing before those that were left.
LEMMA MoreJobs ==
    ASSUME NEW jobs \in Seq(Jobs), NEW j \in Jobs, NEW rest \in Seq(Jobs)
    PROVE  LET todo == jobs \o <<j>> \o rest
           IN  /\ todo \in Seq(Jobs) /\ todo # <<>>
               /\ todo[Len(todo)] = IF rest = <<>> THEN j ELSE rest[Len(rest)]
<1>1. PICK a : a = jobs \o <<j>>
  OBVIOUS
<1>2. <<j>> \in Seq(Jobs) /\ Len(<<j>>) = 1
  OBVIOUS
<1>3. a \in Seq(Jobs) /\ Len(a) = Len(jobs) + 1
  BY <1>1, <1>2, ConcatProperties
<1>4. a[Len(a)] = j
  BY <1>1, <1>2, <1>3, ConcatProperties
<1>5. PICK todo : todo = a \o rest
  OBVIOUS
<1>6. /\ todo \in Seq(Jobs) /\ Len(todo) = Len(a) + Len(rest)
      /\ \A i \in 1..Len(todo) : todo[i] = IF i <= Len(a) THEN a[i] ELSE rest[i - Len(a)]
  <2>1. /\ a \o rest \in Seq(Jobs) /\ Len(a \o rest) = Len(a) + Len(rest)
        /\ \A i \in 1..(Len(a) + Len(rest)) :
              (a \o rest)[i] = IF i <= Len(a) THEN a[i] ELSE rest[i - Len(a)]
    BY <1>3, ConcatProperties
  <2>2. QED BY <2>1, <1>5
<1>7. Len(a) \in Nat /\ Len(a) > 0 /\ Len(rest) \in Nat /\ (rest = <<>> <=> Len(rest) = 0)
  BY <1>3, EmptySeq
<1>8. todo # <<>> /\ Len(todo) \in 1..Len(todo)
  BY <1>6, <1>7
<1>9. todo[Len(todo)] = IF rest = <<>> THEN j ELSE rest[Len(rest)]
  BY <1>4, <1>6, <1>7, <1>8
<1>10. QED BY <1>1, <1>5, <1>6, <1>8, <1>9

LEMMA JobsAreJobs ==
    ASSUME HostInv, NEW p \in DOMAIN remote
    PROVE  Job(p) \in Jobs /\ Job(p)[2] = p
BY DEF HostInv, TreeOk, Job, Jobs

LEMMA StatForRemoveSteps ==
    ASSUME HostInv, NEW c \in Calls, StatForRemove(c)
    PROVE  \E n : Step(c, n)
<1>1. /\ call[c].pc = "stat" /\ call[c].req.op = "remove" /\ CallOk(call[c])
      /\ UNCHANGED <<remote, local, sftp>>
  BY DEF StatForRemove, At, CallFails, HostInv, OnlyCall, Rest
<1>2. CASE Answer(c, "error")
  BY <1>1, <1>2, FailStep
<1>3. CASE /\ Exists(Path(c))
           /\ Continue(c, [call[c] EXCEPT !.pc = "remove", !.todo = << Job(Path(c)) >>])
  <2>1. PICK rest : rest = << Job(Path(c)) >>
    OBVIOUS
  <2>2. rest \in Seq(Jobs) /\ rest # <<>> /\ Len(rest) = 1 /\ rest[1][2] = call[c].req.path
    BY <1>3, <2>1, JobsAreJobs DEF Exists, Path
  <2>3. Continue(c, [call[c] EXCEPT !.pc = "remove", !.todo = rest])
    BY <1>3, <2>1
  <2>4. PICK n : Follows(c, n) /\ n.pc = "remove" /\ n.res = "none" /\ n.req = call[c].req
    BY <1>1, <2>2, <2>3, TodoFollows
  <2>5. Step(c, n)
    BY <1>1, <2>4, QuietStep
  <2>6. QED BY <2>5
<1>4. QED BY <1>2, <1>3 DEF StatForRemove, CallFails

\* A directory's listing has a job for each of its entries.
LEMMA ListedJobs ==
    ASSUME HostInv, NEW p, NEW l \in Listings(p)
    PROVE  [i \in 1..Len(l) |-> Job(l[i])] \in Seq(Jobs)
<1>1. Children(p) \subseteq DOMAIN remote
  BY DEF Children
<1>2. Cardinality(Children(p)) \in Nat
  BY <1>1, FS_Subset, FS_CardinalityType DEF HostInv, TreeOk
<1>3. l \in Seq(Children(p))
  BY <1>2 DEF Listings
<1>4. Len(l) \in Nat /\ \A i \in 1..Len(l) : l[i] \in DOMAIN remote
  BY <1>1, <1>3
<1>5. \A i \in 1..Len(l) : Job(l[i]) \in Jobs
  BY <1>4, JobsAreJobs
<1>6. QED BY <1>4, <1>5

LEMMA RemoveNextSteps ==
    ASSUME HostInv, NEW c \in Calls, RemoveNext(c)
    PROVE  \E n : Step(c, n)
<1>1. /\ call[c].pc = "remove" /\ call[c].req.op = "remove" /\ CallOk(call[c])
      /\ UNCHANGED <<local, sftp>>
  BY DEF RemoveNext, At, HostInv, Rest
<1>2. PICK todo : todo = call[c].todo
  OBVIOUS
<1>3. todo \in Seq(Jobs) /\ todo # <<>> /\ todo[Len(todo)][2] = call[c].req.path
  BY <1>1, <1>2 DEF CallOk, TreeAt
<1>4. PICK p, rest : p = Head(todo)[2] /\ rest = Tail(todo)
  OBVIOUS
<1>5. /\ Head(todo) \in Jobs /\ p \in Places /\ rest \in Seq(Jobs)
      /\ rest = <<>> => p = call[c].req.path
      /\ rest # <<>> => rest[Len(rest)][2] = call[c].req.path
  <2>1. /\ Head(todo) \in Jobs /\ rest \in Seq(Jobs)
        /\ rest = <<>> => todo[Len(todo)] = Head(todo)
        /\ rest # <<>> => rest[Len(rest)] = todo[Len(todo)]
    BY <1>3, <1>4, LastJob
  <2>2. p \in Places
    BY <2>1, <1>4 DEF Jobs
  <2>3. QED BY <2>1, <2>2, <1>3, <1>4
<1>6. \A t : [call[c] EXCEPT !.todo = t] = [call[c] EXCEPT !.pc = "remove", !.todo = t]
  BY <1>1 DEF CallOk, CallState
<1>7. CASE /\ UNCHANGED remote
           /\ \E l \in Listings(p) :
                Continue(c, [call[c] EXCEPT !.todo =
                              [i \in 1..Len(l) |-> Job(l[i])] \o << <<"rmdir", p>> >> \o rest])
  <2>1. PICK l \in Listings(p) :
           Continue(c, [call[c] EXCEPT !.todo =
                         [i \in 1..Len(l) |-> Job(l[i])] \o << <<"rmdir", p>> >> \o rest])
    BY <1>7
  <2>2. PICK jobs : jobs = [i \in 1..Len(l) |-> Job(l[i])]
    OBVIOUS
  <2>3. jobs \in Seq(Jobs)
    BY <2>2, ListedJobs
  <2>4. <<"rmdir", p>> \in Jobs /\ <<"rmdir", p>>[2] = p
    BY <1>5 DEF Jobs
  <2>5. PICK t : t = jobs \o << <<"rmdir", p>> >> \o rest
    OBVIOUS
  <2>6. /\ t \in Seq(Jobs) /\ t # <<>>
        /\ t[Len(t)] = IF rest = <<>> THEN <<"rmdir", p>> ELSE rest[Len(rest)]
    BY <1>5, <2>3, <2>4, <2>5, MoreJobs
  <2>7. t[Len(t)][2] = call[c].req.path
    BY <1>5, <2>4, <2>6
  <2>8. Continue(c, [call[c] EXCEPT !.pc = "remove", !.todo = t])
    BY <1>6, <2>1, <2>2, <2>5
  <2>9. PICK n : Follows(c, n) /\ n.pc = "remove" /\ n.res = "none" /\ n.req = call[c].req
    BY <1>1, <2>6, <2>7, <2>8, TodoFollows
  <2>10. Step(c, n)
    BY <1>1, <1>7, <2>9, QuietStep
  <2>11. QED BY <2>10
<1>8. CASE /\ remote' = Drop(remote, {p})
           /\ IF rest = <<>> THEN Answer(c, "ok") ELSE Continue(c, [call[c] EXCEPT !.todo = rest])
  <2>1. CASE rest = <<>>
    <3>1. PICK n : Follows(c, n) /\ n.pc = "done" /\ n.res = "ok" /\ n.req = call[c].req
      BY <1>1, <1>8, <2>1, AnswerFollows
    <3>2. Promised(c)'
      BY <1>1, <1>5, <1>8, <2>1, <3>1, CallsAfter DEF Promised, Exists, Drop
    <3>3. Step(c, n)
      BY <1>1, <1>8, <3>1, <3>2, DropStep
    <3>4. QED BY <3>3
  <2>2. CASE rest # <<>>
    <3>1. Continue(c, [call[c] EXCEPT !.pc = "remove", !.todo = rest])
      BY <1>6, <1>8, <2>2
    <3>2. PICK n : Follows(c, n) /\ n.pc = "remove" /\ n.res = "none" /\ n.req = call[c].req
      BY <1>1, <1>5, <2>2, <3>1, TodoFollows
    <3>3. Step(c, n)
      BY <1>1, <1>8, <3>2, DropStep
    <3>4. QED BY <3>3
  <2>3. QED BY <2>1, <2>2
<1>9. CASE Answer(c, "error") /\ UNCHANGED remote
  BY <1>1, <1>9, FailStep
<1>10. QED BY <1>2, <1>4, <1>7, <1>8, <1>9 DEF RemoveNext

\* A file named by a tool has lines, and is not torn as long as nothing may tear it.
LEMMA FileHolds ==
    ASSUME HostInv, NEW p \in Files \cup Temporaries, IsFile(p)
    PROVE  remote[p] \in Seq(Lines) /\ (sftp /\ Calm => remote[p] # Torn)
BY NamesApart DEF IsFile, Exists, HostInv, TreeOk, NoTears

LEMMA RenameSteps ==
    ASSUME HostInv, NEW c \in Calls, Rename(c)
    PROVE  \E n : Step(c, n)
<1>1. /\ call[c].pc = "start" /\ call[c].req.op = "rename" /\ CallOk(call[c])
      /\ UNCHANGED <<local, sftp>>
  BY DEF Rename, At, HostInv, Rest
<1>2. CASE Answer(c, "error") /\ UNCHANGED remote
  BY <1>1, <1>2, FailStep
<1>3. CASE /\ IsFile(Path(c)) /\ Answer(c, "ok")
           /\ remote' = Put(Drop(remote, {Path(c)}), call[c].req.to, remote[Path(c)])
  <2>1. PICK to, x : to = call[c].req.to /\ x = remote[Path(c)]
    OBVIOUS
  <2>2. call[c].req \in Requests /\ Path(c) \in Files /\ to \in Files
    BY <1>1, <2>1, FilesAssumption DEF CallOk, OpAt, Path, FileOps
  <2>3. PICK n : Follows(c, n) /\ n.pc = "done" /\ n.res = "ok" /\ n.req = call[c].req
    BY <1>1, <1>3, AnswerFollows
  <2>4. to \in DOMAIN remote' /\ remote'[to] = x /\ (Path(c) # to => Path(c) \notin DOMAIN remote')
    BY <1>3, <2>1 DEF Put, Drop
  <2>5. Placed(c, n, to)
    BY <1>3, <2>1, <2>2, <2>4, FileHolds DEF Placed
  <2>6. Promised(c)'
    BY <1>1, <2>1, <2>3, <2>4, CallsAfter DEF Promised, Exists, Path
  <2>7. \A q \in Targets : to # Temp(c, q)
    BY <2>2, NamesApart
  <2>8. Step(c, n)
    BY <1>1, <1>3, <2>1, <2>3, <2>5, <2>6, <2>7, PutStep
  <2>9. QED BY <2>8
<1>4. QED BY <1>2, <1>3 DEF Rename

LEMMA EntriesFinite ==
    ASSUME NEW K, NEW seq \in Seq(K)
    PROVE  IsFiniteSet(Entries(seq)) /\ Entries(seq) \subseteq K
<1>1. Len(seq) \in Nat /\ seq \in [1..Len(seq) -> K]
  OBVIOUS
<1>2. seq \in [1..Len(seq) -> Entries(seq)]
  BY <1>1 DEF Entries
<1>3. seq \in Surjection(1..Len(seq), Entries(seq))
  BY <1>2 DEF Surjection, Entries
<1>4. IsFiniteSet(1..Len(seq))
  BY <1>1, FS_Interval
<1>5. QED BY <1>1, <1>3, <1>4, FS_Surjection DEF Entries

LEMMA ShellTreeSteps ==
    ASSUME HostInv, NEW c \in Calls, ShellTree(c)
    PROVE  \E n : Step(c, n)
<1>1. call[c].pc = "shell" /\ CallOk(call[c]) /\ UNCHANGED <<local, sftp>>
  BY DEF ShellTree, HostInv, Rest
<1>2. CASE Answer(c, "error") /\ UNCHANGED remote
  BY <1>1, <1>2, FailStep
<1>3. CASE /\ call[c].req.op = "remove" /\ Answer(c, "ok")
           /\ remote' = Drop(remote, Subtree(Path(c)))
  <2>1. PICK n : Follows(c, n) /\ n.pc = "done" /\ n.res = "ok" /\ n.req = call[c].req
    BY <1>1, <1>3, AnswerFollows
  <2>2. PICK P : P = Subtree(Path(c)) /\ Path(c) \in P
    BY DEF Subtree
  <2>3. Promised(c)'
    BY <1>3, <2>1, <2>2, CallsAfter DEF Promised, Exists, Drop, Path
  <2>4. Step(c, n)
    BY <1>1, <1>3, <2>1, <2>2, <2>3, DropStep
  <2>5. QED BY <2>4
<1>4. CASE /\ call[c].req.op = "mkdir" /\ Answer(c, "ok")
           /\ remote' = [q \in DOMAIN remote \cup Entries(call[c].todo) |->
                         IF Exists(q) THEN remote[q] ELSE Folder]
  <2>1. PICK n : Follows(c, n) /\ n.pc = "done" /\ n.res = "ok" /\ n.req = call[c].req
    BY <1>1, <1>4, AnswerFollows
  <2>2. PICK P : P = Entries(call[c].todo)
    OBVIOUS
  <2>3. IsFiniteSet(P) /\ P \subseteq Dirs
    BY <1>1, <1>4, <2>2, EntriesFinite DEF CallOk, TreeAt
  <2>4. /\ DOMAIN remote' = DOMAIN remote \cup P
        /\ \A q \in DOMAIN remote' : remote'[q] = IF q \in DOMAIN remote THEN remote[q] ELSE Folder
    BY <1>4, <2>2 DEF Exists
  <2>5. \A q \in DOMAIN remote' : \/ q \in DOMAIN remote /\ remote'[q] = remote[q]
                                  \/ Placed(c, n, q)
    BY <2>3, <2>4 DEF Placed
  <2>6. \A q \in Targets : Temp(c, q) \notin DOMAIN remote'
    BY <1>1, <2>3, <2>4, NoTempOf, NamesApart
  <2>7. RemoteStep(c, n)
    BY <2>1, <2>3, <2>4, <2>5, <2>6 DEF RemoteStep
  <2>8. LocalStep(c, n)
    BY <1>1, <1>4, <2>1 DEF LocalStep
  <2>9. Promised(c)'
    BY <1>4, <2>1, CallsAfter DEF Promised
  <2>10. Step(c, n)
    BY <1>1, <2>1, <2>7, <2>8, <2>9 DEF Step
  <2>11. QED BY <2>10
<1>5. QED BY <1>2, <1>3, <1>4 DEF ShellTree

-----------------------------------------------------------------------------
(* ensureLinesInFile: what it computes has the lines, or none of them. *)

LEMMA ConcatEntries ==
    ASSUME NEW K, NEW a \in Seq(K), NEW b \in Seq(K)
    PROVE  a \o b \in Seq(K) /\ Entries(a \o b) = Entries(a) \cup Entries(b)
<1>1. PICK s : s = a \o b
  OBVIOUS
<1>2. /\ s \in Seq(K) /\ Len(s) = Len(a) + Len(b) /\ Len(a) \in Nat /\ Len(b) \in Nat
      /\ \A i \in 1..(Len(a) + Len(b)) : s[i] = IF i <= Len(a) THEN a[i] ELSE b[i - Len(a)]
  BY <1>1, ConcatProperties
<1>3. \A i \in 1..Len(a) : i \in 1..Len(s) /\ s[i] = a[i]
  BY <1>2
<1>4. ASSUME NEW i \in 1..Len(b) PROVE i + Len(a) \in 1..Len(s) /\ s[i + Len(a)] = b[i]
  <2>1. i + Len(a) \in 1..(Len(a) + Len(b)) /\ ~(i + Len(a) <= Len(a)) /\ (i + Len(a)) - Len(a) = i
    BY <1>2
  <2>2. QED BY <1>2, <2>1
<1>5. \A i \in 1..Len(s) : i \in 1..Len(a) \/ (i - Len(a) \in 1..Len(b) /\ s[i] = b[i - Len(a)])
  BY <1>2
<1>6. Entries(s) = Entries(a) \cup Entries(b)
  <2>1. Entries(a) \subseteq Entries(s)
    BY <1>3 DEF Entries
  <2>2. Entries(b) \subseteq Entries(s)
    BY <1>4 DEF Entries
  <2>3. \A i \in 1..Len(s) : s[i] \in Entries(a) \/ s[i] \in Entries(b)
    BY <1>3, <1>5 DEF Entries
  <2>4. Entries(s) \subseteq Entries(a) \cup Entries(b)
    BY <2>3 DEF Entries
  <2>5. QED BY <2>1, <2>2, <2>4
<1>7. QED BY <1>1, <1>2, <1>6

LEMMA EmptyEntries ==
    ASSUME NEW K, NEW s \in Seq(K)
    PROVE  Entries(s) # {} <=> s # <<>>
<1>1. CASE s = <<>>
  BY <1>1 DEF Entries
<1>2. CASE s # <<>>
  <2>1. 1 \in 1..Len(s)
    BY <1>2, EmptySeq
  <2>2. QED BY <1>2, <2>1 DEF Entries
<1>3. QED BY <1>1, <1>2

LEMMA MissingLines ==
    ASSUME NEW lines \in Seq(Lines), NEW content \in Seq(Lines)
    PROVE  /\ Missing(lines, content) \in Seq(Lines)
           /\ Entries(Missing(lines, content)) = Entries(lines) \ Entries(content)
<1>1. Entries(lines) \cap (Entries(lines) \ Entries(content)) = Entries(lines) \ Entries(content)
  OBVIOUS
<1>2. QED BY <1>1, KeptEntries DEF Missing

LEMMA RemovedLines ==
    ASSUME NEW lines \in Seq(Lines), NEW content \in Seq(Lines)
    PROVE  /\ Removed(lines, content) \in Seq(Lines)
           /\ Entries(Removed(lines, content)) = Entries(content) \ Entries(lines)
<1>1. Entries(content) \cap (Entries(content) \ Entries(lines)) = Entries(content) \ Entries(lines)
  OBVIOUS
<1>2. QED BY <1>1, KeptEntries DEF Removed

LEMMA NoLinesEntries == NoLines \in Seq(Lines) /\ NoLines # <<>> /\ Entries(NoLines) = {""}
<1>1. PICK e \in Lines : e = ""
  BY FilesAssumption
<1>2. NoLines = <<e>>
  BY <1>1 DEF NoLines
<1>3. <<e>> \in Seq(Lines) /\ Len(<<e>>) = 1 /\ <<e>>[1] = e /\ <<e>> # <<>>
  OBVIOUS
<1>4. Entries(<<e>>) = {e}
  <2>1. 1..Len(<<e>>) = {1}
    BY <1>3
  <2>2. QED BY <1>3, <2>1 DEF Entries
<1>5. QED BY <1>1, <1>2, <1>3, <1>4

\* What is written over a file that was read.
LEMMA EnsuredFulfils ==
    ASSUME NEW r \in Requests, r.op = "ensure", NEW content \in Seq(Lines), ~Satisfied(r, content)
    PROVE  Ensured(r, content) \in Whole /\ Fulfils(r, content, Ensured(r, content))
<1>1. r.lines \in Seq(Lines) /\ r.state \in {"present", "absent"} /\ content # NoFile
  BY FilesAssumption
<1>2. PICK m : m = Missing(r.lines, content)
  OBVIOUS
<1>3. PICK k : k = Removed(r.lines, content)
  OBVIOUS
<1>4. m \in Seq(Lines) /\ Entries(m) = Entries(r.lines) \ Entries(content)
  BY <1>1, <1>2, MissingLines
<1>5. k \in Seq(Lines) /\ Entries(k) = Entries(content) \ Entries(r.lines)
  BY <1>1, <1>3, RemovedLines
<1>6. CASE r.state = "present"
  <2>1. PICK e : e = content \o m
    OBVIOUS
  <2>2. e \in Seq(Lines) /\ Entries(e) = Entries(content) \cup Entries(m)
    BY <1>4, <2>1, ConcatEntries
  <2>3. Entries(e) # {} /\ Entries(r.lines) \subseteq Entries(e)
    BY <1>4, <1>6, <2>2 DEF Satisfied
  <2>4. e # <<>>
    BY <2>2, <2>3, EmptyEntries
  <2>5. Ensured(r, content) = e
    BY <1>2, <1>6, <2>1 DEF Ensured
  <2>6. QED BY <1>1, <1>6, <2>2, <2>3, <2>4, <2>5 DEF Fulfils, Whole, Torn
<1>7. CASE r.state = "absent"
  <2>1. Ensured(r, content) = IF k = <<>> THEN NoLines ELSE k
    BY <1>3, <1>7 DEF Ensured, Joined, NoLines
  <2>2. QED BY <1>1, <1>5, <1>7, <2>1, NoLinesEntries DEF Fulfils, Whole, Torn
<1>8. QED BY <1>1, <1>6, <1>7

\* What is written where no file was found.
LEMMA CreatedFulfils ==
    ASSUME NEW r \in Requests, r.op = "ensure", r.state # "absent", ~Satisfied(r, NoLines)
    PROVE  Missing(r.lines, NoLines) \in Whole /\ Fulfils(r, NoFile, Missing(r.lines, NoLines))
<1>1. r.lines \in Seq(Lines) /\ r.state = "present"
  BY FilesAssumption
<1>2. PICK m : m = Missing(r.lines, NoLines)
  OBVIOUS
<1>3. m \in Seq(Lines) /\ Entries(m) = Entries(r.lines) \ {""}
  BY <1>1, <1>2, MissingLines, NoLinesEntries
<1>4. m # <<>>
  BY <1>1, <1>3, EmptyEntries, NoLinesEntries DEF Satisfied
<1>5. QED BY <1>1, <1>2, <1>3, <1>4 DEF Fulfils, Whole, Torn

LEMMA EnsureLooksSteps ==
    ASSUME HostInv, NEW c \in Calls, EnsureLooks(c)
    PROVE  \E n : Step(c, n)
<1>1. /\ call[c].pc = "exists" /\ call[c].req.op = "ensure" /\ CallOk(call[c])
      /\ UNCHANGED <<remote, local, sftp>>
  BY DEF EnsureLooks, At, HostInv, OnlyCall, Rest
<1>2. PICK r : r = call[c].req
  OBVIOUS
<1>3. /\ r \in Requests /\ r.op = "ensure" /\ r.path \in Files /\ call[c].got = NoFile
      /\ call[c].stage = NoFile
  BY <1>1, <1>2, FilesAssumption DEF CallOk, OpAt, EditAt, FileOps
<1>4. CASE Goto(c, "size")
  <2>1. "size" \in Positions \ {"idle", "done"}
    BY DEF Positions
  <2>2. ASSUME NEW n, n \in CallState, n.pc = "size", n.res = call[c].res, n.req = call[c].req,
               n.got = call[c].got, n.stage = call[c].stage
        PROVE  CallOk(n)
    BY <1>1, <2>2 DEF CallOk, OpAt, WriteAt, EditAt, TreeAt, TransferAt, CommandAt
  <2>3. PICK n : Follows(c, n) /\ n.pc = "size" /\ n.res = "none"
    BY <1>1, <1>4, <2>1, <2>2, GotoFollows
  <2>4. Step(c, n)
    BY <1>1, <2>3, QuietStep
  <2>5. QED BY <2>4
<1>5. CASE Answer(c, "error")
  BY <1>1, <1>5, FailStep
<1>6. CASE Answer(c, "ok") /\ (r.state = "absent" \/ Entries(r.lines) \subseteq {""})
  <2>1. PICK n : /\ Follows(c, n) /\ n.pc = "done" /\ n.res = "ok" /\ n.req = call[c].req
                 /\ n.got = call[c].got
    BY <1>1, <1>6, AnswerFollows
  <2>2. Promised(c)'
    BY <1>2, <1>3, <1>6, <2>1, CallsAfter DEF Promised
  <2>3. Step(c, n)
    BY <1>1, <2>1, <2>2, QuietStep
  <2>4. QED BY <2>3
<1>7. CASE /\ r.state # "absent" /\ ~Satisfied(r, NoLines)
           /\ Continue(c, [call[c] EXCEPT !.pc = "write", !.path = Path(c),
                                          !.data = Missing(r.lines, NoLines)])
  <2>1. PICK m : m = Missing(r.lines, NoLines)
    OBVIOUS
  <2>2. m \in Whole /\ Fulfils(r, NoFile, m)
    BY <1>3, <1>7, <2>1, CreatedFulfils
  <2>3. PICK n : n = [call[c] EXCEPT !.pc = "write", !.path = r.path, !.data = m]
    OBVIOUS
  <2>4. /\ n \in CallState /\ n.pc = "write" /\ n.res = call[c].res /\ n.req = r /\ n.path = r.path
        /\ n.data = m /\ n.got = NoFile /\ n.stage = NoFile
    BY <1>1, <1>2, <1>3, <2>2, <2>3 DEF CallOk, CallState, Positions, Whole, Places
  <2>5. CallOk(n)
    BY <1>1, <1>2, <1>3, <2>2, <2>4 DEF CallOk, OpAt, WriteAt, EditAt, TreeAt, TransferAt, CommandAt
  <2>6. Continue(c, n)
    BY <1>2, <1>7, <2>1, <2>3 DEF Path
  <2>7. Follows(c, n)
    BY <1>1, <1>2, <1>3, <2>4, <2>5, <2>6 DEF Follows
  <2>8. Step(c, n)
    BY <1>1, <1>3, <2>4, <2>5, <2>7, QuietStep DEF CallOk, OpAt
  <2>9. QED BY <2>8
<1>8. Satisfied(r, NoLines) /\ r.state # "absent" => Entries(r.lines) \subseteq {""}
  BY NoLinesEntries DEF Satisfied
<1>9. QED BY <1>2, <1>4, <1>5, <1>6, <1>7, <1>8 DEF EnsureLooks

LEMMA EnsureReadsSteps ==
    ASSUME HostInv, NEW c \in Calls, EnsureReads(c)
    PROVE  \E n : Step(c, n)
<1>1. /\ call[c].pc = "read" /\ call[c].req.op = "ensure" /\ CallOk(call[c])
      /\ UNCHANGED <<remote, local, sftp>>
  BY DEF EnsureReads, At, CallFails, HostInv, OnlyCall, Rest
<1>2. PICK r : r = call[c].req
  OBVIOUS
<1>3. /\ r \in Requests /\ r.op = "ensure" /\ r.path \in Files /\ call[c].got = NoFile
      /\ call[c].stage = NoFile /\ r.state \in {"present", "absent"}
  BY <1>1, <1>2, FilesAssumption DEF CallOk, OpAt, EditAt, FileOps
<1>4. CASE Answer(c, "error")
  BY <1>1, <1>4, FailStep
<1>5. PICK old : old = remote[Path(c)]
  OBVIOUS
<1>6. CASE /\ IsFile(Path(c)) /\ Satisfied(r, old)
           /\ Continue(c, [call[c] EXCEPT !.pc = "done", !.res = "ok", !.got = old])
  <2>1. old \in Seq(Lines) /\ old # NoFile
    BY <1>2, <1>3, <1>5, <1>6, FileHolds, FilesAssumption DEF Path
  <2>2. PICK n : n = [call[c] EXCEPT !.pc = "done", !.res = "ok", !.got = old]
    OBVIOUS
  <2>3. n \in CallState /\ n.pc = "done" /\ n.res = "ok" /\ n.req = r /\ n.stage = NoFile /\ n.got = old
    BY <1>1, <1>2, <1>3, <2>1, <2>2 DEF CallOk, CallState, Positions
  <2>4. CallOk(n)
    BY <1>1, <1>2, <1>3, <2>3 DEF CallOk, OpAt, WriteAt, EditAt, TreeAt, TransferAt, CommandAt
  <2>5. Follows(c, n)
    BY <1>1, <1>2, <1>3, <1>6, <2>2, <2>3, <2>4 DEF Follows
  <2>6. Fulfils(r, old, old)
    BY <1>3, <1>6, <2>1 DEF Fulfils, Satisfied
  <2>7. IsFile(r.path)' /\ remote'[r.path] = old
    BY <1>1, <1>2, <1>5, <1>6 DEF IsFile, Exists, Path
  <2>8. Promised(c)'
    BY <1>3, <2>3, <2>5, <2>6, <2>7, CallsAfter DEF Promised, Fulfils
  <2>9. Step(c, n)
    BY <1>1, <1>3, <2>3, <2>5, <2>8, QuietStep
  <2>10. QED BY <2>9
<1>7. CASE /\ IsFile(Path(c)) /\ ~Satisfied(r, old)
           /\ Continue(c, [call[c] EXCEPT !.pc = "write", !.path = Path(c), !.got = old,
                                          !.data = Ensured(r, old)])
  <2>1. old \in Seq(Lines)
    BY <1>2, <1>3, <1>5, <1>7, FileHolds DEF Path
  <2>2. PICK new : new = Ensured(r, old)
    OBVIOUS
  <2>3. new \in Whole /\ Fulfils(r, old, new)
    BY <1>3, <1>7, <2>1, <2>2, EnsuredFulfils
  <2>4. PICK n : n = [call[c] EXCEPT !.pc = "write", !.path = r.path, !.got = old, !.data = new]
    OBVIOUS
  <2>5. /\ n \in CallState /\ n.pc = "write" /\ n.res = call[c].res /\ n.req = r /\ n.path = r.path
        /\ n.data = new /\ n.got = old /\ n.stage = NoFile
    BY <1>1, <1>2, <1>3, <2>1, <2>3, <2>4 DEF CallOk, CallState, Positions, Whole, Places
  <2>6. CallOk(n)
    BY <1>1, <1>2, <1>3, <2>3, <2>5 DEF CallOk, OpAt, WriteAt, EditAt, TreeAt, TransferAt, CommandAt
  <2>7. Continue(c, n)
    BY <1>2, <1>7, <2>2, <2>4 DEF Path
  <2>8. Follows(c, n)
    BY <1>1, <1>2, <1>3, <2>5, <2>6, <2>7 DEF Follows
  <2>9. Step(c, n)
    BY <1>1, <1>3, <2>5, <2>6, <2>8, QuietStep DEF CallOk, OpAt
  <2>10. QED BY <2>9
<1>8. QED BY <1>2, <1>4, <1>5, <1>6, <1>7 DEF EnsureReads, CallFails

-----------------------------------------------------------------------------
(* writeFile. *)

\* Where a write writes.
LEMMA WriteTarget ==
    ASSUME HostInv, NEW c \in Calls, call[c].pc \in {"write", "rename", "unlink"}
    PROVE  /\ call[c].path \in Targets /\ call[c].data \in Whole
           /\ call[c].path \in Files \/ (call[c].path \in Temporaries /\ call[c].path = call[c].stage)
           /\ call[c].stage = NoFile => call[c].path = call[c].req.path /\ call[c].path \in Files
<1>1. CallOk(call[c]) /\ call[c].req \in Requests /\ call[c].stage \in Temporaries \cup {NoFile}
  BY DEF HostInv, CallOk, OpAt, CallState
<1>2. call[c].req.op \in {"write", "ensure", "patch"} /\ call[c].req.path \in Files
  BY <1>1, FilesAssumption DEF CallOk, OpAt, FileOps
<1>3. QED BY <1>1, <1>2, NamesApart DEF CallOk, WriteAt, Targets

\* The three ways on after a write that succeeded.
LEMMA AfterWriteOk ==
    ASSUME HostInv, NEW c \in Calls, call[c].pc \in {"write", "rename"}, AfterWrite(c, "ok")
    PROVE  \E n : /\ Follows(c, n) /\ n.req = call[c].req /\ n.path = call[c].path
                  /\ n.data = call[c].data /\ n.stage = call[c].stage /\ n.got = call[c].got
                  /\ \/ n.pc = "dryrun" /\ n.res = "none"
                     \/ n.pc = "move" /\ n.res = "none" /\ n.path = n.stage
                     \/ /\ n.pc = "done" /\ n.res = "ok"
                        /\ n.req.op \in {"write", "ensure"} /\ n.stage = NoFile
<1>1. /\ CallOk(call[c]) /\ call[c].req.op \in {"write", "ensure", "patch"}
      /\ call[c].stage \in Temporaries \cup {NoFile}
  BY DEF HostInv, CallOk, OpAt, CallState
<1>2. CASE call[c].req.op = "patch"
  <2>1. Goto(c, "dryrun")
    BY <1>2 DEF AfterWrite
  <2>2. "dryrun" \in Positions \ {"idle", "done"}
    BY DEF Positions
  <2>3. ASSUME NEW n, n \in CallState, n.pc = "dryrun", n.res = call[c].res, n.req = call[c].req,
               n.stage = call[c].stage
        PROVE  CallOk(n)
    BY <1>1, <1>2, <2>3 DEF CallOk, OpAt, WriteAt, EditAt, TreeAt, TransferAt, CommandAt
  <2>4. PICK n : /\ Follows(c, n) /\ n.pc = "dryrun" /\ n.res = "none" /\ n.req = call[c].req
                 /\ n.path = call[c].path /\ n.data = call[c].data /\ n.got = call[c].got
                 /\ n.stage = call[c].stage
    BY <1>1, <2>1, <2>2, <2>3, GotoFollows
  <2>5. QED BY <2>4
<1>3. CASE call[c].req.op = "ensure" /\ call[c].stage # NoFile
  <2>1. Goto(c, "move")
    BY <1>3 DEF AfterWrite
  <2>2. "move" \in Positions \ {"idle", "done"}
    BY DEF Positions
  <2>3. ASSUME NEW n, n \in CallState, n.pc = "move", n.res = call[c].res, n.req = call[c].req,
               n.path = call[c].path, n.data = call[c].data, n.got = call[c].got,
               n.stage = call[c].stage
        PROVE  CallOk(n)
    BY <1>1, <1>3, <2>3 DEF CallOk, OpAt, WriteAt, EditAt, TreeAt, TransferAt, CommandAt
  <2>4. PICK n : /\ Follows(c, n) /\ n.pc = "move" /\ n.res = "none" /\ n.req = call[c].req
                 /\ n.path = call[c].path /\ n.data = call[c].data /\ n.got = call[c].got
                 /\ n.stage = call[c].stage
    BY <1>1, <2>1, <2>2, <2>3, GotoFollows
  <2>5. n.path = n.stage
    BY <1>1, <1>3, <2>4 DEF CallOk, WriteAt
  <2>6. QED BY <2>4, <2>5
<1>4. CASE call[c].req.op # "patch" /\ ~(call[c].req.op = "ensure" /\ call[c].stage # NoFile)
  <2>1. Answer(c, "ok")
    BY <1>4 DEF AfterWrite
  <2>2. call[c].stage = NoFile
    BY <1>1, <1>4 DEF CallOk, WriteAt
  <2>3. PICK n : /\ Follows(c, n) /\ n.pc = "done" /\ n.res = "ok" /\ n.req = call[c].req
                 /\ n.path = call[c].path /\ n.data = call[c].data /\ n.got = call[c].got
                 /\ n.stage = call[c].stage
    BY <1>1, <2>1, AnswerFollows
  <2>4. QED BY <1>1, <1>4, <2>2, <2>3
<1>5. QED BY <1>1, <1>2, <1>3, <1>4

\* A write that failed is answered, or staged when it was refused for permissions.
LEMMA AfterWriteFails ==
    ASSUME HostInv, NEW c \in Calls, call[c].pc \in {"write", "unlink"},
           NEW outcome \in {"error", "denied"}, AfterWrite(c, outcome)
    PROVE  \/ Answer(c, "error")
           \/ /\ outcome = "denied"
              /\ \E n : Follows(c, n) /\ n.pc = "write" /\ n.res = "none" /\ n.req = call[c].req
<1>1. CallOk(call[c]) /\ call[c].req.op \in {"write", "ensure", "patch"}
  BY DEF HostInv, CallOk, OpAt
<1>2. CASE ~(call[c].req.op = "ensure" /\ outcome = "denied" /\ call[c].stage = NoFile)
  BY <1>1, <1>2 DEF AfterWrite
<1>3. CASE call[c].req.op = "ensure" /\ outcome = "denied" /\ call[c].stage = NoFile
  <2>1. PICK t \in Stamps :
           Continue(c, [call[c] EXCEPT !.pc = "write", !.stage = Stage(t), !.path = Stage(t)])
    BY <1>3 DEF AfterWrite
  <2>2. PICK s : s = Stage(t)
    OBVIOUS
  <2>3. s \in Temporaries /\ s # NoFile
    BY <2>2, NamesApart DEF Temporaries
  <2>4. PICK n : n = [call[c] EXCEPT !.pc = "write", !.stage = s, !.path = s]
    OBVIOUS
  <2>5. /\ n \in CallState /\ n.pc = "write" /\ n.res = call[c].res /\ n.req = call[c].req
        /\ n.path = s /\ n.data = call[c].data /\ n.got = call[c].got /\ n.stage = s
    BY <1>1, <2>3, <2>4 DEF CallOk, CallState, Positions, Places
  <2>6. CallOk(n)
    BY <1>1, <1>3, <2>3, <2>5 DEF CallOk, OpAt, WriteAt, EditAt, TreeAt, TransferAt, CommandAt
  <2>7. Follows(c, n)
    BY <1>1, <1>3, <2>1, <2>2, <2>4, <2>5, <2>6 DEF Follows
  <2>8. n.res = "none"
    BY <2>5, <2>6 DEF CallOk, OpAt
  <2>9. QED BY <1>3, <2>5, <2>7, <2>8
<1>4. QED BY <1>2, <1>3

LEMMA WriteRefusedSteps ==
    ASSUME HostInv, NEW c \in Calls, WriteRefused(c)
    PROVE  \E n : Step(c, n)
<1>1. call[c].pc = "write" /\ UNCHANGED <<remote, local, sftp>> /\ AfterWrite(c, "error")
  BY DEF WriteRefused, WritesFile, OnlyCall, Rest
<1>2. Answer(c, "error")
  BY <1>1, AfterWriteFails
<1>3. QED BY <1>1, <1>2, FailStep

\* The clean-up of a failed write is next.
LEMMA UnlinkFollows ==
    ASSUME HostInv, NEW c \in Calls, call[c].pc \in {"write", "rename"}, NEW e \in {"error", "denied"},
           Continue(c, [call[c] EXCEPT !.pc = "unlink", !.err = e])
    PROVE  \E n : /\ Follows(c, n) /\ n.pc = "unlink" /\ n.res = "none" /\ n.err = e
                  /\ n.req = call[c].req /\ n.path = call[c].path /\ n.data = call[c].data
<1>1. CallOk(call[c])
  BY DEF HostInv
<1>2. PICK n : n = [call[c] EXCEPT !.pc = "unlink", !.err = e]
  OBVIOUS
<1>3. /\ n \in CallState /\ n.pc = "unlink" /\ n.res = call[c].res /\ n.req = call[c].req
      /\ n.path = call[c].path /\ n.data = call[c].data /\ n.got = call[c].got
      /\ n.stage = call[c].stage /\ n.err = e
  BY <1>1, <1>2 DEF CallOk, CallState, Positions, Words
<1>4. CallOk(n)
  BY <1>1, <1>3 DEF CallOk, OpAt, WriteAt, EditAt, TreeAt, TransferAt, CommandAt
<1>5. Follows(c, n)
  BY <1>2, <1>3, <1>4 DEF Follows
<1>6. QED BY <1>3, <1>4, <1>5 DEF CallOk, OpAt

\* A temporary file is written.
LEMMA TempStep ==
    ASSUME HostInv, NEW c \in Calls, call[c].pc = "write", NEW n, Follows(c, n), n.path = call[c].path,
           UNCHANGED <<local, sftp>>, NEW x \in Seq(Lines),
           remote' = Put(remote, Temp(c, call[c].path), x), TempOk(n, call[c].path, x), n.res # "ok"
    PROVE  Step(c, n)
<1>1. call[c].path \in Targets
  BY WriteTarget
<1>2. PICK p : p = Temp(c, call[c].path)
  OBVIOUS
<1>3. /\ DOMAIN remote' = DOMAIN remote \cup {p} /\ remote'[p] = x
      /\ \A q \in DOMAIN remote' : q # p => q \in DOMAIN remote /\ remote'[q] = remote[q]
  BY <1>2 DEF Put
<1>4. Placed(c, n, p)
  BY <1>1, <1>2, <1>3 DEF Placed
<1>5. \A q \in Targets : Temp(c, q) \in DOMAIN remote' => q = call[c].path
  BY <1>1, <1>2, <1>3, NoTempOf, NamesApart
<1>6. IsFiniteSet({p}) /\ DOMAIN remote' \subseteq DOMAIN remote \cup {p}
  BY <1>3, FS_Singleton
<1>7. n.pc \notin {"move", "save", "check"}
  BY DEF TempOk
<1>8. \A q \in Targets : Temp(c, q) \in DOMAIN remote' => TempOk(n, q, remote'[Temp(c, q)])
  BY <1>2, <1>3, <1>5
<1>9. RemoteStep(c, n)
  BY <1>3, <1>4, <1>6, <1>7, <1>8 DEF RemoteStep
<1>10. LocalStep(c, n)
  BY <1>7 DEF LocalStep
<1>11. QED BY <1>9, <1>10 DEF Step

LEMMA WriteTempFileSteps ==
    ASSUME HostInv, NEW c \in Calls, WriteTempFile(c)
    PROVE  \E n : Step(c, n)
<1>1. /\ call[c].pc = "write" /\ CallOk(call[c]) /\ UNCHANGED <<local, sftp>>
      /\ call[c].data \in Seq(Lines) /\ Torn \in Seq(Lines)
  BY DEF WriteTempFile, MayWrite, WritesFile, HostInv, Rest, CallOk, CallState, Torn
<1>2. CASE Goto(c, "rename") /\ remote' = Put(remote, Temp(c, call[c].path), call[c].data)
  <2>1. "rename" \in Positions \ {"idle", "done"}
    BY DEF Positions
  <2>2. ASSUME NEW n, n \in CallState, n.pc = "rename", n.res = call[c].res, n.req = call[c].req,
               n.path = call[c].path, n.data = call[c].data, n.got = call[c].got,
               n.stage = call[c].stage
        PROVE  CallOk(n)
    BY <1>1, <2>2 DEF CallOk, OpAt, WriteAt, EditAt, TreeAt, TransferAt, CommandAt
  <2>3. PICK n : /\ Follows(c, n) /\ n.pc = "rename" /\ n.res = "none" /\ n.path = call[c].path
                 /\ n.data = call[c].data
    BY <1>1, <1>2, <2>1, <2>2, GotoFollows
  <2>4. TempOk(n, call[c].path, call[c].data)
    BY <2>3 DEF TempOk
  <2>5. Step(c, n)
    BY <1>1, <1>2, <2>3, <2>4, TempStep
  <2>6. QED BY <2>5
<1>3. CASE /\ Continue(c, [call[c] EXCEPT !.pc = "unlink", !.err = "error"])
           /\ remote' = Put(remote, Temp(c, call[c].path), Torn)
  <2>1. PICK n : /\ Follows(c, n) /\ n.pc = "unlink" /\ n.res = "none" /\ n.err = "error"
                 /\ n.path = call[c].path
    BY <1>1, <1>3, UnlinkFollows
  <2>2. TempOk(n, call[c].path, Torn)
    BY <2>1 DEF TempOk
  <2>3. Step(c, n)
    BY <1>1, <1>3, <2>1, <2>2, TempStep
  <2>4. QED BY <2>3
<1>4. CASE /\ \E e \in {"error", "denied"} : Continue(c, [call[c] EXCEPT !.pc = "unlink", !.err = e])
           /\ UNCHANGED remote
  <2>1. PICK n : Follows(c, n) /\ n.pc = "unlink" /\ n.res = "none"
    BY <1>1, <1>4, UnlinkFollows
  <2>2. Step(c, n)
    BY <1>1, <1>4, <2>1, QuietStep
  <2>3. QED BY <2>2
<1>5. Refusal(call[c].path) \in {"error", "denied"}
  BY DEF Refusal
<1>6. QED BY <1>2, <1>3, <1>4, <1>5 DEF WriteTempFile, WriteTemp

\* The target gets what the temporary file held: what the call wanted to write.
LEMMA RenameTempFileSteps ==
    ASSUME HostInv, NEW c \in Calls, RenameTempFile(c)
    PROVE  \E n : Step(c, n)
<1>1. call[c].pc = "rename" /\ CallOk(call[c]) /\ UNCHANGED <<local, sftp>>
  BY DEF RenameTempFile, HostInv, Rest
<1>2. CASE Continue(c, [call[c] EXCEPT !.pc = "unlink", !.err = "error"]) /\ UNCHANGED remote
  <2>1. PICK n : /\ Follows(c, n) /\ n.pc = "unlink" /\ n.res = "none" /\ n.err = "error"
                 /\ n.path = call[c].path
    BY <1>1, <1>2, UnlinkFollows
  <2>2. RemoteStep(c, n)
    BY <1>1, <1>2, <2>1, FS_EmptySet DEF RemoteStep, HostInv, TempsOk, TempOk, Exists
  <2>3. LocalStep(c, n)
    BY <1>1, <2>1 DEF LocalStep
  <2>4. QED BY <1>1, <2>1, <2>2, <2>3 DEF Step
<1>3. CASE /\ Exists(Temp(c, call[c].path)) /\ AfterWrite(c, "ok")
           /\ remote' = Drop(Put(remote, call[c].path, remote[Temp(c, call[c].path)]),
                             {Temp(c, call[c].path)})
  <2>1. PICK p, temp : p = call[c].path /\ temp = Temp(c, p)
    OBVIOUS
  <2>2. /\ p \in Targets /\ call[c].data \in Whole
        /\ p \in Files \/ (p \in Temporaries /\ p = call[c].stage)
        /\ call[c].stage = NoFile => p = call[c].req.path /\ p \in Files
    BY <1>1, <2>1, WriteTarget
  <2>3. remote[temp] = call[c].data
    BY <1>1, <1>3, <2>1, <2>2 DEF HostInv, TempsOk, TempOk
  <2>4. temp # p /\ temp \in Temps
    BY <2>1, <2>2, NamesApart DEF Targets
  <2>5. /\ DOMAIN remote' = (DOMAIN remote \cup {p}) \ {temp} /\ remote'[p] = call[c].data
        /\ \A q \in DOMAIN remote' : q # p => q \in DOMAIN remote /\ remote'[q] = remote[q]
    BY <1>3, <2>1, <2>3, <2>4 DEF Put, Drop
  <2>6. PICK n : /\ Follows(c, n) /\ n.req = call[c].req /\ n.path = call[c].path
                 /\ n.data = call[c].data /\ n.stage = call[c].stage /\ n.got = call[c].got
                 /\ \/ n.pc = "dryrun" /\ n.res = "none"
                    \/ n.pc = "move" /\ n.res = "none" /\ n.path = n.stage
                    \/ /\ n.pc = "done" /\ n.res = "ok"
                       /\ n.req.op \in {"write", "ensure"} /\ n.stage = NoFile
    BY <1>1, <1>3, AfterWriteOk
  <2>7. call[c].data \in Seq(Lines) /\ call[c].data # Torn /\ call[c].data # Folder
    BY <2>2, FilesAssumption DEF Whole
  <2>8. Placed(c, n, p)
    BY <2>2, <2>5, <2>6, <2>7 DEF Placed
  <2>9. \A q \in Targets : Temp(c, q) \notin DOMAIN remote'
    <3>1. ASSUME NEW q \in Targets, Temp(c, q) \in DOMAIN remote' PROVE FALSE
      <4>1. Temp(c, q) # p
        BY <2>2, NamesApart DEF Targets
      <4>2. Temp(c, q) \in DOMAIN remote
        BY <3>1, <4>1, <2>5
      <4>3. q = p
        BY <4>2, <2>1 DEF HostInv, TempsOk, TempOk, Exists
      <4>4. QED BY <4>3, <3>1, <2>1, <2>5
    <3>2. QED BY <3>1
  <2>10. IsFiniteSet({p}) /\ DOMAIN remote' \subseteq DOMAIN remote \cup {p}
    BY <2>5, FS_Singleton
  <2>11. RemoteStep(c, n)
    BY <2>1, <2>5, <2>6, <2>8, <2>9, <2>10 DEF RemoteStep
  <2>12. LocalStep(c, n)
    BY <1>1, <2>6 DEF LocalStep
  <2>13. ASSUME n.res = "ok" PROVE Promised(c)'
    <3>1. n.req.op \in {"write", "ensure"} /\ n.req.path = p /\ call'[c] = n
      BY <2>2, <2>6, <2>13, CallsAfter
    <3>2. IsFile(n.req.path)' /\ remote'[n.req.path] = n.data
      BY <2>4, <2>5, <2>6, <2>7, <3>1 DEF IsFile, Exists
    <3>3. n.req.op = "write" => n.data = n.req.data
      BY <1>1, <2>6 DEF CallOk, WriteAt
    <3>4. n.req.op = "ensure" => Fulfils(n.req, n.got, n.data)
      BY <1>1, <2>6 DEF CallOk, WriteAt
    <3>5. QED BY <3>1, <3>2, <3>3, <3>4 DEF Promised, Fulfils
  <2>14. QED BY <1>1, <2>6, <2>11, <2>12, <2>13 DEF Step
<1>4. QED BY <1>2, <1>3 DEF RenameTempFile, WriteTemp

LEMMA UnlinkTempFileSteps ==
    ASSUME HostInv, NEW c \in Calls, UnlinkTempFile(c)
    PROVE  \E n : Step(c, n)
<1>1. /\ call[c].pc = "unlink" /\ CallOk(call[c]) /\ UNCHANGED <<local, sftp>>
      /\ AfterWrite(c, call[c].err) /\ call[c].err \in {"error", "denied"}
      /\ remote' = Drop(remote, {Temp(c, call[c].path)}) \/ UNCHANGED remote
  BY DEF UnlinkTempFile, WriteTemp, HostInv, Rest, CallOk, WriteAt
<1>2. /\ DOMAIN remote' \subseteq DOMAIN remote /\ \A p \in DOMAIN remote' : remote'[p] = remote[p]
  BY <1>1 DEF Drop
<1>3. \A q \in Targets : Temp(c, q) \in DOMAIN remote' => q = call[c].path /\ call[c].err = "error"
  BY <1>1, <1>2 DEF HostInv, TempsOk, TempOk, Exists
<1>4. CASE Answer(c, "error")
  <2>1. PICK n : /\ Follows(c, n) /\ n.pc = "done" /\ n.res = "error" /\ n.path = call[c].path
    BY <1>1, <1>4, AnswerFollows
  <2>2. RemoteStep(c, n)
    BY <1>2, <1>3, <2>1, FS_EmptySet DEF RemoteStep, TempOk
  <2>3. LocalStep(c, n)
    BY <1>1, <2>1 DEF LocalStep
  <2>4. QED BY <1>1, <2>1, <2>2, <2>3 DEF Step
<1>5. CASE /\ call[c].err = "denied"
           /\ \E n : Follows(c, n) /\ n.pc = "write" /\ n.res = "none" /\ n.req = call[c].req
  <2>1. PICK n : Follows(c, n) /\ n.pc = "write" /\ n.res = "none"
    BY <1>5
  <2>2. RemoteStep(c, n)
    BY <1>2, <1>3, <1>5, <2>1, FS_EmptySet DEF RemoteStep
  <2>3. LocalStep(c, n)
    BY <1>1, <2>1 DEF LocalStep
  <2>4. QED BY <1>1, <2>1, <2>2, <2>3 DEF Step
<1>6. QED BY <1>1, <1>4, <1>5, AfterWriteFails

LEMMA ShellWriteSteps ==
    ASSUME HostInv, NEW c \in Calls, ShellWrite(c)
    PROVE  \E n : Step(c, n)
<1>1. /\ call[c].pc = "write" /\ CallOk(call[c]) /\ UNCHANGED <<local, sftp>> /\ ~sftp
      /\ call[c].data \in Seq(Lines) /\ Torn \in Seq(Lines)
  BY DEF ShellWrite, MayWrite, WritesFile, HostInv, Rest, CallOk, CallState, Torn
<1>2. CASE /\ AfterWrite(c, "ok")
           /\ \E written \in {call[c].data, Torn} : remote' = Put(remote, call[c].path, written)
  <2>1. PICK x \in Seq(Lines) : remote' = Put(remote, call[c].path, x)
    BY <1>1, <1>2
  <2>2. PICK p : p = call[c].path
    OBVIOUS
  <2>3. p \in Files \/ (p \in Temporaries /\ p = call[c].stage)
    BY <1>1, <2>2, WriteTarget
  <2>4. PICK n : /\ Follows(c, n) /\ n.req = call[c].req /\ n.path = call[c].path
                 /\ n.data = call[c].data /\ n.stage = call[c].stage /\ n.got = call[c].got
                 /\ \/ n.pc = "dryrun" /\ n.res = "none"
                    \/ n.pc = "move" /\ n.res = "none" /\ n.path = n.stage
                    \/ /\ n.pc = "done" /\ n.res = "ok"
                       /\ n.req.op \in {"write", "ensure"} /\ n.stage = NoFile
    BY <1>1, <1>2, AfterWriteOk
  <2>5. /\ DOMAIN remote' = DOMAIN remote \cup {p} /\ remote'[p] = x
        /\ \A q \in DOMAIN remote' : q # p => q \in DOMAIN remote /\ remote'[q] = remote[q]
    BY <2>1, <2>2 DEF Put
  <2>6. Placed(c, n, p)
    BY <1>1, <2>1, <2>3, <2>4, <2>5 DEF Placed
  <2>7. \A q \in Targets : Temp(c, q) \notin DOMAIN remote'
    BY <1>1, <2>3, <2>5, NoTempOf, NamesApart
  <2>8. IsFiniteSet({p}) /\ DOMAIN remote' \subseteq DOMAIN remote \cup {p}
    BY <2>5, FS_Singleton
  <2>9. RemoteStep(c, n)
    BY <1>1, <2>5, <2>6, <2>7, <2>8 DEF RemoteStep
  <2>10. LocalStep(c, n)
    BY <1>1, <2>4 DEF LocalStep
  <2>11. n.res = "ok" => Promised(c)'
    BY <1>1, <2>4, CallsAfter DEF Promised
  <2>12. QED BY <1>1, <2>4, <2>9, <2>10, <2>11 DEF Step
<1>3. CASE /\ AfterWrite(c, "error")
           /\ \E written \in {call[c].data, Torn} : remote' = Put(remote, Temp(c, call[c].path), written)
  <2>1. PICK x \in Seq(Lines) : remote' = Put(remote, Temp(c, call[c].path), x)
    BY <1>1, <1>3
  <2>2. Answer(c, "error")
    BY <1>1, <1>3, AfterWriteFails
  <2>3. PICK n : /\ Follows(c, n) /\ n.pc = "done" /\ n.res = "error" /\ n.path = call[c].path
    BY <1>1, <2>2, AnswerFollows
  <2>4. TempOk(n, call[c].path, x)
    BY <2>3 DEF TempOk
  <2>5. Step(c, n)
    BY <1>1, <2>1, <2>3, <2>4, TempStep
  <2>6. QED BY <2>5
<1>4. CASE AfterWrite(c, Refusal(call[c].path)) /\ UNCHANGED remote
  <2>1. PICK e \in {"error", "denied"} : AfterWrite(c, e)
    BY <1>4 DEF Refusal
  <2>2. CASE Answer(c, "error")
    BY <1>1, <1>4, <2>2, FailStep
  <2>3. CASE \E n : Follows(c, n) /\ n.pc = "write" /\ n.res = "none" /\ n.req = call[c].req
    <3>1. PICK n : Follows(c, n) /\ n.pc = "write" /\ n.res = "none" /\ n.req = call[c].req
      BY <2>3
    <3>2. Step(c, n)
      BY <1>1, <1>4, <3>1, QuietStep
    <3>3. QED BY <3>2
  <2>4. QED BY <1>1, <2>1, <2>2, <2>3, AfterWriteFails
<1>5. QED BY <1>2, <1>3, <1>4 DEF ShellWrite, WriteTemp

\* The target gets what is staged, which is what the call computed unless the stage is shared.
LEMMA MoveStagedSteps ==
    ASSUME HostInv, NEW c \in Calls, MoveStaged(c)
    PROVE  \E n : Step(c, n)
<1>1. /\ call[c].pc = "move" /\ call[c].req.op = "ensure" /\ CallOk(call[c])
      /\ UNCHANGED <<local, sftp>>
  BY DEF MoveStaged, At, HostInv, Rest
<1>2. CASE Answer(c, "error") /\ UNCHANGED remote
  BY <1>1, <1>2, FailStep
<1>3. CASE /\ IsFile(call[c].stage) /\ \E r \in {"ok", "error"} : Answer(c, r)
           /\ remote' = Drop(Put(remote, Path(c), remote[call[c].stage]), {call[c].stage})
  <2>1. PICK p, s, x : p = Path(c) /\ s = call[c].stage /\ x = remote[s]
    OBVIOUS
  <2>2. p \in Files /\ p = call[c].req.path /\ s \in Temporaries /\ p # s
    BY <1>1, <2>1, FilesAssumption, NamesApart DEF CallOk, OpAt, WriteAt, Path, FileOps
  <2>3. x \in Seq(Lines) /\ (sftp /\ Calm => x # Torn) /\ x # Folder
    BY <1>3, <2>1, <2>2, FileHolds DEF IsFile
  <2>4. remote' = Put(Drop(remote, {s}), p, x)
    BY <1>3, <2>1, <2>2 DEF Put, Drop
  <2>5. PICK r \in {"ok", "error"} : Answer(c, r)
    BY <1>3
  <2>6. PICK n : /\ Follows(c, n) /\ n.pc = "done" /\ n.res = r /\ n.req = call[c].req
                 /\ n.data = call[c].data /\ n.got = call[c].got /\ n.stage = call[c].stage
    BY <1>1, <2>5, AnswerFollows
  <2>7. p \in DOMAIN remote' /\ remote'[p] = x
    BY <2>4 DEF Put
  <2>8. Placed(c, n, p)
    BY <2>2, <2>3, <2>7 DEF Placed
  <2>9. \A q \in Targets : p # Temp(c, q)
    BY <2>2, NamesApart
  <2>10. call'[c] = n /\ \A d \in Calls \ {c} : call'[d] = call[d]
    BY <2>6, CallsAfter
  <2>11. IsFile(p)'
    BY <2>3, <2>7 DEF IsFile, Exists
  <2>12. ASSUME sftp PROVE x = n.data \/ StageIsShared(c)'
    <3>1. x = call[c].data \/ StageIsShared(c)
      BY <1>1, <1>3, <2>1, <2>12 DEF HostInv, StagesOk, IsFile
    <3>2. StageIsShared(c) => StageIsShared(c)'
      BY <2>6, <2>10 DEF StageIsShared
    <3>3. QED BY <2>6, <3>1, <3>2
  <2>13. Fulfils(n.req, n.got, n.data)
    BY <1>1, <2>6 DEF CallOk, WriteAt
  <2>14. Promised(c)'
    BY <1>1, <2>2, <2>6, <2>7, <2>10, <2>11, <2>12, <2>13 DEF Promised, Fulfils
  <2>15. Step(c, n)
    BY <1>1, <2>4, <2>6, <2>8, <2>9, <2>14, PutStep
  <2>16. QED BY <2>15
<1>4. QED BY <1>2, <1>3 DEF MoveStaged

-----------------------------------------------------------------------------
(* applyPatch. *)

LEMMA PatchFollows ==
    ASSUME HostInv, NEW c \in Calls, call[c].req.op = "patch", call[c].pc \in {"dryrun", "patch"},
           NEW p \in {"patch", "cleanup"}, NEW e \in Words, p = "cleanup" => e \in {"ok", "error"},
           Continue(c, [call[c] EXCEPT !.pc = p, !.err = e])
    PROVE  \E n : Follows(c, n) /\ n.pc = p /\ n.res = "none" /\ n.req = call[c].req
<1>1. CallOk(call[c])
  BY DEF HostInv
<1>2. PICK n : n = [call[c] EXCEPT !.pc = p, !.err = e]
  OBVIOUS
<1>3. /\ n \in CallState /\ n.pc = p /\ n.res = call[c].res /\ n.req = call[c].req
      /\ n.stage = call[c].stage /\ n.err = e
  BY <1>1, <1>2 DEF CallOk, CallState, Positions
<1>4. CallOk(n)
  BY <1>1, <1>3 DEF CallOk, OpAt, WriteAt, EditAt, TreeAt, TransferAt, CommandAt
<1>5. Follows(c, n)
  BY <1>2, <1>3, <1>4 DEF Follows
<1>6. QED BY <1>3, <1>4, <1>5 DEF CallOk, OpAt

LEMMA DryRunSteps ==
    ASSUME HostInv, NEW c \in Calls, DryRun(c)
    PROVE  \E n : Step(c, n)
<1>1. /\ call[c].pc = "dryrun" /\ call[c].req.op = "patch" /\ CallOk(call[c])
      /\ UNCHANGED <<remote, local, sftp>>
  BY DEF DryRun, At, HostInv, OnlyCall, Rest
<1>2. CASE Goto(c, "patch")
  <2>1. "patch" \in Positions \ {"idle", "done"}
    BY DEF Positions
  <2>2. ASSUME NEW n, n \in CallState, n.pc = "patch", n.res = call[c].res, n.req = call[c].req,
               n.stage = call[c].stage
        PROVE  CallOk(n)
    BY <1>1, <2>2 DEF CallOk, OpAt, WriteAt, EditAt, TreeAt, TransferAt, CommandAt
  <2>3. PICK n : Follows(c, n) /\ n.pc = "patch" /\ n.res = "none"
    BY <1>1, <1>2, <2>1, <2>2, GotoFollows
  <2>4. Step(c, n)
    BY <1>1, <2>3, QuietStep
  <2>5. QED BY <2>4
<1>3. CASE Continue(c, [call[c] EXCEPT !.pc = "cleanup", !.err = "error"])
  <2>1. "error" \in Words
    BY DEF Words
  <2>2. PICK n : Follows(c, n) /\ n.pc = "cleanup" /\ n.res = "none"
    BY <1>1, <1>3, <2>1, PatchFollows
  <2>3. Step(c, n)
    BY <1>1, <2>2, QuietStep
  <2>4. QED BY <2>3
<1>4. QED BY <1>2, <1>3 DEF DryRun

LEMMA PatchSteps ==
    ASSUME HostInv, NEW c \in Calls, Patch(c)
    PROVE  \E n : Step(c, n)
<1>1. /\ call[c].pc = "patch" /\ call[c].req.op = "patch" /\ CallOk(call[c])
      /\ UNCHANGED <<local, sftp>>
  BY DEF Patch, At, HostInv, Rest
<1>2. {"ok", "error", "sudo"} \subseteq Words
  BY DEF Words
<1>3. CASE /\ PatchApplies(c) /\ remote' = Put(remote, Path(c), Patched(c))
           /\ \E e \in {"ok", "error"} : Continue(c, [call[c] EXCEPT !.pc = "cleanup", !.err = e])
  <2>1. PICK p, x : p = Path(c) /\ x = Patched(c)
    OBVIOUS
  <2>2. x \in Whole
    <3>1. \E r \in Diffs : remote[call[c].stage] = r.diff
      BY <1>3 DEF PatchApplies
    <3>2. PICK r \in Diffs : x = r.to
      BY <2>1, <3>1 DEF Patched
    <3>3. QED BY <3>2, FilesAssumption DEF Diffs
  <2>3. p \in Files
    BY <1>1, <2>1, FilesAssumption DEF CallOk, OpAt, Path, FileOps
  <2>4. PICK n : Follows(c, n) /\ n.pc = "cleanup" /\ n.res = "none"
    BY <1>1, <1>2, <1>3, PatchFollows
  <2>5. remote' = Put(Drop(remote, {}), p, x) /\ remote'[p] = x
    BY <1>3, <2>1 DEF Put, Drop
  <2>6. Placed(c, n, p)
    BY <2>2, <2>3, <2>5 DEF Placed, Whole
  <2>7. \A q \in Targets : p # Temp(c, q)
    BY <2>3, NamesApart
  <2>8. Step(c, n)
    BY <1>1, <2>4, <2>5, <2>6, <2>7, PutStep
  <2>9. QED BY <2>8
<1>4. CASE Continue(c, [call[c] EXCEPT !.err = "sudo"]) /\ UNCHANGED remote
  <2>1. [call[c] EXCEPT !.err = "sudo"] = [call[c] EXCEPT !.pc = "patch", !.err = "sudo"]
    BY <1>1 DEF CallOk, CallState
  <2>2. PICK n : Follows(c, n) /\ n.pc = "patch" /\ n.res = "none"
    BY <1>1, <1>2, <1>4, <2>1, PatchFollows
  <2>3. Step(c, n)
    BY <1>1, <1>4, <2>2, QuietStep
  <2>4. QED BY <2>3
<1>5. CASE Continue(c, [call[c] EXCEPT !.pc = "cleanup", !.err = "error"]) /\ UNCHANGED remote
  <2>1. PICK n : Follows(c, n) /\ n.pc = "cleanup" /\ n.res = "none"
    BY <1>1, <1>2, <1>5, PatchFollows
  <2>2. Step(c, n)
    BY <1>1, <1>5, <2>1, QuietStep
  <2>3. QED BY <2>2
<1>6. QED BY <1>3, <1>4, <1>5 DEF Patch

LEMMA PatchCleanupSteps ==
    ASSUME HostInv, NEW c \in Calls, PatchCleanup(c)
    PROVE  \E n : Step(c, n)
<1>1. /\ call[c].pc = "cleanup" /\ call[c].req.op = "patch" /\ CallOk(call[c])
      /\ UNCHANGED <<local, sftp>> /\ Answer(c, call[c].err)
      /\ UNCHANGED remote \/ remote' = Drop(remote, {call[c].stage})
  BY DEF PatchCleanup, At, HostInv, Rest
<1>2. PICK r \in {"ok", "error"} : r = call[c].err
  BY <1>1 DEF CallOk, EditAt
<1>3. PICK n : Follows(c, n) /\ n.pc = "done" /\ n.res = r /\ n.req = call[c].req
  BY <1>1, <1>2, AnswerFollows
<1>4. Promised(c)'
  BY <1>1, <1>3, CallsAfter DEF Promised
<1>5. Step(c, n)
  BY <1>1, <1>3, <1>4, QuietStep, DropStep
<1>6. QED BY <1>5

-----------------------------------------------------------------------------
(* Transfers. *)

LEMMA UploadSteps ==
    ASSUME HostInv, NEW c \in Calls, Upload(c)
    PROVE  \E n : Step(c, n)
<1>1. /\ call[c].pc \in {"start", "send", "verify"} /\ call[c].req.op = "upload" /\ CallOk(call[c])
      /\ UNCHANGED <<local, sftp>>
  BY DEF Upload, HostInv, Rest
<1>2. /\ Path(c) \in Files /\ call[c].data = call[c].req.data /\ call[c].data \in Whole
      /\ call[c].req.path = Path(c) /\ ~Calm
  BY <1>1, FilesAssumption DEF CallOk, OpAt, TransferAt, Path, FileOps, Calm
<1>3. \A q \in Targets : Path(c) # Temp(c, q)
  BY <1>2, NamesApart
<1>4. Torn \in Seq(Lines) /\ call[c].data \in Seq(Lines) /\ call[c].data # Folder
  <2>1. Torn \in Seq(Lines)
    BY DEF Torn
  <2>2. call[c].data \in Seq(Lines) /\ call[c].data # Folder
    BY <1>2, FilesAssumption DEF Whole
  <2>3. QED BY <2>1, <2>2
<1>5. ASSUME NEW p \in {"send", "verify"}, NEW x \in Seq(Lines), Goto(c, p),
             remote' = Put(remote, Path(c), x)
      PROVE  \E n : Step(c, n)
  <2>1. p \in Positions \ {"idle", "done"}
    BY DEF Positions
  <2>2. ASSUME NEW n, n \in CallState, n.pc = p, n.res = call[c].res, n.req = call[c].req,
               n.data = call[c].data
        PROVE  CallOk(n)
    BY <1>1, <1>2, <2>2 DEF CallOk, OpAt, WriteAt, EditAt, TreeAt, TransferAt, CommandAt
  <2>3. PICK n : Follows(c, n) /\ n.pc = p /\ n.res = "none"
    BY <1>1, <1>5, <2>1, <2>2, GotoFollows
  <2>4. remote' = Put(Drop(remote, {}), Path(c), x) /\ remote'[Path(c)] = x
    BY <1>5 DEF Put, Drop
  <2>5. Placed(c, n, Path(c))
    BY <1>2, <1>5, <2>4 DEF Placed
  <2>6. Step(c, n)
    BY <1>1, <1>3, <2>3, <2>4, <2>5, PutStep
  <2>7. QED BY <2>6
<1>6. CASE /\ IsFile(Path(c)) /\ UNCHANGED remote
           /\ Answer(c, IF remote[Path(c)] = call[c].data THEN "ok" ELSE "error")
  <2>1. CASE remote[Path(c)] = call[c].data
    <3>1. PICK n : Follows(c, n) /\ n.pc = "done" /\ n.res = "ok" /\ n.req = call[c].req
      BY <1>1, <1>6, <2>1, AnswerFollows
    <3>2. IsFile(Path(c))' /\ remote'[Path(c)] = call[c].req.data
      BY <1>2, <1>6, <2>1, <3>1, CallsAfter DEF IsFile, Exists, Path
    <3>3. Promised(c)'
      BY <1>1, <1>2, <3>1, <3>2, CallsAfter DEF Promised, IsFile, Exists, Path
    <3>4. Step(c, n)
      BY <1>1, <1>6, <3>1, <3>3, QuietStep
    <3>5. QED BY <3>4
  <2>2. CASE remote[Path(c)] # call[c].data
    BY <1>1, <1>6, <2>2, FailStep
  <2>3. QED BY <2>1, <2>2
<1>7. CASE Answer(c, "error") /\ UNCHANGED remote
  BY <1>1, <1>7, FailStep
<1>8. QED BY <1>4, <1>5, <1>6, <1>7 DEF Upload

LEMMA DownloadReadsSteps ==
    ASSUME HostInv, NEW c \in Calls, DownloadReads(c)
    PROVE  \E n : Step(c, n)
<1>1. /\ call[c].pc = "read" /\ call[c].req.op = "download" /\ CallOk(call[c])
      /\ UNCHANGED <<remote, local, sftp>>
  BY DEF DownloadReads, At, CallFails, HostInv, OnlyCall, Rest
<1>2. CASE Answer(c, "error")
  BY <1>1, <1>2, FailStep
<1>3. CASE /\ IsFile(Path(c))
           /\ \E t \in Stamps : Continue(c, [call[c] EXCEPT !.pc = "save", !.data = remote[Path(c)],
                                                           !.path = LocalTemp(call[c].req.to, t)])
  <2>1. PICK t \in Stamps : Continue(c, [call[c] EXCEPT !.pc = "save", !.data = remote[Path(c)],
                                                       !.path = LocalTemp(call[c].req.to, t)])
    BY <1>3
  <2>2. PICK x, p : x = remote[Path(c)] /\ p = LocalTemp(call[c].req.to, t)
    OBVIOUS
  <2>3. Path(c) \in Files /\ call[c].req.to \in LocalFiles
    BY <1>1, FilesAssumption DEF CallOk, OpAt, Path, FileOps
  <2>4. x \in Seq(Lines) /\ (sftp /\ Calm => x # Torn) /\ p \in LocalTemps
    BY <1>3, <2>2, <2>3, FileHolds DEF LocalTemps
  <2>5. PICK n : n = [call[c] EXCEPT !.pc = "save", !.data = x, !.path = p]
    OBVIOUS
  <2>6. /\ n \in CallState /\ n.pc = "save" /\ n.res = call[c].res /\ n.req = call[c].req
        /\ n.data = x /\ n.path = p /\ n.stage = call[c].stage
    BY <1>1, <2>4, <2>5 DEF CallOk, CallState, Positions
  <2>7. CallOk(n)
    BY <1>1, <2>4, <2>6 DEF CallOk, OpAt, WriteAt, EditAt, TreeAt, TransferAt, CommandAt
  <2>8. Follows(c, n)
    BY <1>1, <2>1, <2>2, <2>5, <2>6, <2>7 DEF Follows
  <2>9. n.res = "none"
    BY <2>6, <2>7 DEF CallOk, OpAt
  <2>10. Step(c, n)
    BY <1>1, <2>4, <2>6, <2>8, <2>9, QuietStep
  <2>11. QED BY <2>10
<1>4. QED BY <1>2, <1>3 DEF DownloadReads, CallFails

\* A download leaves the remote files alone.
LEMMA RemoteQuiet ==
    ASSUME HostInv, NEW c \in Calls, call[c].pc \in {"save", "check"}, NEW n, Follows(c, n),
           n.pc # "move", UNCHANGED remote
    PROVE  RemoteStep(c, n)
BY NoTempOf, FS_EmptySet DEF RemoteStep

LEMMA DownloadSavesSteps ==
    ASSUME HostInv, NEW c \in Calls, DownloadSaves(c)
    PROVE  \E n : Step(c, n)
<1>1. /\ call[c].pc = "save" /\ call[c].req.op = "download" /\ CallOk(call[c])
      /\ UNCHANGED <<remote, sftp>> /\ call[c].path \in LocalTemps
      /\ sftp /\ Calm => call[c].data # Torn
  BY DEF DownloadSaves, At, HostInv, CallOk, TransferAt, NoTears
<1>2. CASE Goto(c, "check") /\ local' = Put(local, call[c].path, call[c].data)
  <2>1. "check" \in Positions \ {"idle", "done"}
    BY DEF Positions
  <2>2. ASSUME NEW n, n \in CallState, n.pc = "check", n.res = call[c].res, n.req = call[c].req,
               n.path = call[c].path
        PROVE  CallOk(n)
    BY <1>1, <2>2 DEF CallOk, OpAt, WriteAt, EditAt, TreeAt, TransferAt, CommandAt
  <2>3. PICK n : /\ Follows(c, n) /\ n.pc = "check" /\ n.res = "none" /\ n.req = call[c].req
                 /\ n.path = call[c].path /\ n.data = call[c].data
    BY <1>1, <1>2, <2>1, <2>2, GotoFollows
  <2>4. \A f \in DOMAIN local' : f # n.path => f \in DOMAIN local /\ local'[f] = local[f]
    BY <1>2, <2>3 DEF Put
  <2>5. LocalStep(c, n)
    BY <1>1, <2>3, <2>4 DEF LocalStep
  <2>6. QED BY <1>1, <2>3, <2>5, RemoteQuiet DEF Step
<1>3. CASE Answer(c, "error") /\ (local' = Put(local, call[c].path, Torn) \/ UNCHANGED local)
  <2>1. PICK n : /\ Follows(c, n) /\ n.pc = "done" /\ n.res = "error" /\ n.req = call[c].req
                 /\ n.path = call[c].path
    BY <1>1, <1>3, AnswerFollows
  <2>2. \A f \in DOMAIN local' : f # n.path => f \in DOMAIN local /\ local'[f] = local[f]
    BY <1>3, <2>1 DEF Put
  <2>3. LocalStep(c, n)
    BY <1>1, <2>1, <2>2 DEF LocalStep
  <2>4. QED BY <1>1, <2>1, <2>3, RemoteQuiet DEF Step
<1>4. QED BY <1>2, <1>3 DEF DownloadSaves

LEMMA DownloadMovesSteps ==
    ASSUME HostInv, NEW c \in Calls, DownloadMoves(c)
    PROVE  \E n : Step(c, n)
<1>1. /\ call[c].pc = "check" /\ call[c].req.op = "download" /\ CallOk(call[c])
      /\ UNCHANGED <<remote, sftp>> /\ call[c].path \in LocalTemps
      /\ sftp /\ Calm => call[c].data # Torn
  BY DEF DownloadMoves, At, HostInv, CallOk, TransferAt, NoTears
<1>2. CASE /\ local' = Drop(Put(local, call[c].req.to, call[c].data), {call[c].path})
           /\ Answer(c, "ok")
  <2>1. PICK to, p : to = call[c].req.to /\ p = call[c].path
    OBVIOUS
  <2>2. to \in LocalFiles /\ to # p
    BY <1>1, <2>1, FilesAssumption DEF CallOk, OpAt
  <2>3. PICK n : /\ Follows(c, n) /\ n.pc = "done" /\ n.res = "ok" /\ n.req = call[c].req
                 /\ n.path = call[c].path /\ n.data = call[c].data
    BY <1>1, <1>2, AnswerFollows
  <2>4. /\ DOMAIN local' = (DOMAIN local \cup {to}) \ {p} /\ local'[to] = call[c].data
        /\ \A f \in DOMAIN local' : f # to => f \in DOMAIN local /\ local'[f] = local[f]
    BY <1>2, <2>1, <2>2 DEF Put, Drop
  <2>5. LocalStep(c, n)
    BY <1>1, <2>1, <2>2, <2>3, <2>4 DEF LocalStep
  <2>6. Promised(c)'
    <3>1. call'[c] = n /\ n.req.op = "download"
      BY <1>1, <2>3, CallsAfter
    <3>2. n.req.to \in DOMAIN local' /\ local'[n.req.to] = n.data
      BY <2>1, <2>2, <2>3, <2>4
    <3>3. QED BY <3>1, <3>2 DEF Promised
  <2>7. QED BY <1>1, <2>3, <2>5, <2>6, RemoteQuiet DEF Step
<1>3. CASE Answer(c, "error") /\ (local' = Drop(local, {call[c].path}) \/ UNCHANGED local)
  <2>1. PICK n : /\ Follows(c, n) /\ n.pc = "done" /\ n.res = "error" /\ n.req = call[c].req
    BY <1>1, <1>3, AnswerFollows
  <2>2. \A f \in DOMAIN local' : f \in DOMAIN local /\ local'[f] = local[f]
    BY <1>3 DEF Drop
  <2>3. LocalStep(c, n)
    BY <2>1, <2>2 DEF LocalStep
  <2>4. QED BY <1>1, <2>1, <2>3, RemoteQuiet DEF Step
<1>4. QED BY <1>2, <1>3 DEF DownloadMoves

-----------------------------------------------------------------------------
(* All steps of the file calls. *)

LEMMA IdleState == Idle \in CallState
<1>1. Torn \in Seq(Lines) /\ <<>> \in Seq(Dirs \cup Jobs)
  BY DEF Torn
<1>2. "idle" \in Positions /\ "none" \in Words
  BY DEF Positions, Words
<1>3. QED BY <1>1, <1>2 DEF Idle, CallState, NoRequest

LEMMA StartCallSteps ==
    ASSUME HostInv, NEW c \in Calls, NEW r \in FileRequests, StartCall(c, r)
    PROVE  \E n : Step(c, n) /\ n.res # "ok"
<1>1. /\ call[c].pc = "idle" /\ call[c].stage = NoFile /\ UNCHANGED <<remote, local, sftp>>
      /\ r \in Requests /\ r.op \in FileOps
  BY FilesAssumption DEF StartCall, OnlyCall, Rest, HostInv, CallOk, EditAt, FileRequests
<1>2. CASE Refused(r) /\ Continue(c, [Idle EXCEPT !.pc = "done", !.req = r, !.res = "error"])
  <2>1. PICK n : n = [Idle EXCEPT !.pc = "done", !.req = r, !.res = "error"]
    OBVIOUS
  <2>2. n \in CallState /\ n.pc = "done" /\ n.req = r /\ n.res = "error"
    BY <1>1, <2>1, IdleState DEF CallState, Positions
  <2>3. CallOk(n)
    BY <1>1, <2>2 DEF CallOk, OpAt, WriteAt, EditAt, TreeAt, TransferAt, CommandAt
  <2>4. Follows(c, n)
    BY <1>1, <1>2, <2>1, <2>2, <2>3 DEF Follows
  <2>5. Step(c, n)
    BY <1>1, <2>2, <2>4, QuietStep
  <2>6. QED BY <2>2, <2>5
<1>3. CASE /\ ~Refused(r)
           /\ \E t \in IF r.op = "patch" THEN Stamps ELSE {0} : Continue(c,
               [Idle EXCEPT !.pc = First(r), !.req = r,
                 !.path = IF r.op = "patch" THEN PatchFile(t) ELSE r.path,
                 !.stage = IF r.op = "patch" THEN PatchFile(t) ELSE NoFile,
                 !.data = CASE r.op \in {"write", "upload"} -> r.data
                            [] r.op = "patch" -> r.diff
                            [] OTHER -> Torn,
                 !.todo = IF r.op = "mkdir" THEN r.prefixes ELSE <<>>])
  <2>1. PICK t \in IF r.op = "patch" THEN Stamps ELSE {0} : Continue(c,
               [Idle EXCEPT !.pc = First(r), !.req = r,
                 !.path = IF r.op = "patch" THEN PatchFile(t) ELSE r.path,
                 !.stage = IF r.op = "patch" THEN PatchFile(t) ELSE NoFile,
                 !.data = CASE r.op \in {"write", "upload"} -> r.data
                            [] r.op = "patch" -> r.diff
                            [] OTHER -> Torn,
                 !.todo = IF r.op = "mkdir" THEN r.prefixes ELSE <<>>])
    BY <1>3
  <2>2. PICK path : path = IF r.op = "patch" THEN PatchFile(t) ELSE r.path
    OBVIOUS
  <2>3. PICK stage : stage = IF r.op = "patch" THEN PatchFile(t) ELSE NoFile
    OBVIOUS
  <2>4. PICK data : data = CASE r.op \in {"write", "upload"} -> r.data
                             [] r.op = "patch" -> r.diff
                             [] OTHER -> Torn
    OBVIOUS
  <2>5. PICK todo : todo = IF r.op = "mkdir" THEN r.prefixes ELSE <<>>
    OBVIOUS
  <2>6. r.op = "patch" => PatchFile(t) \in Temporaries
    BY <2>1 DEF Temporaries
  <2>7. path \in Places /\ stage \in Temporaries \cup {NoFile}
    BY <1>1, <2>2, <2>3, <2>6, FilesAssumption DEF FileOps, Places
  <2>8. /\ data \in Seq(Lines)
        /\ r.op \in {"write", "upload"} => data = r.data /\ data \in Whole
        /\ r.op = "patch" => data \in Whole
    <3>1. Torn \in Seq(Lines)
      BY DEF Torn
    <3>2. /\ r.op \in {"write", "upload"} => r.data \in Whole
          /\ r.op = "patch" => r.diff \in Whole
      BY <1>1, FilesAssumption
    <3>3. CASE r.op \in {"write", "upload"}
      BY <2>4, <3>2, <3>3 DEF Whole
    <3>4. CASE r.op = "patch"
      BY <2>4, <3>2, <3>4 DEF Whole
    <3>5. CASE r.op \notin {"write", "upload", "patch"}
      BY <2>4, <3>1, <3>5
    <3>6. QED BY <3>3, <3>4, <3>5
  <2>9. todo \in Seq(Dirs \cup Jobs) /\ (r.op = "mkdir" => todo \in Seq(Dirs) \ {<<>>})
    <3>1. r.op = "mkdir" => r.prefixes \in Seq(Dirs) /\ r.prefixes # <<>>
      BY <1>1, FilesAssumption
    <3>2. CASE r.op = "mkdir"
      BY <2>5, <3>1, <3>2
    <3>3. CASE r.op # "mkdir"
      BY <2>5, <3>3
    <3>4. QED BY <3>2, <3>3
  <2>10. PICK p : p = First(r)
    OBVIOUS
  <2>11. /\ r.op \in {"read", "download"} => p = "size"
         /\ r.op \in {"mkdir", "remove"} => p \in {"stat", "shell"}
         /\ r.op \in {"rename", "upload"} => p = "start"
         /\ r.op = "ensure" => p = "exists"
         /\ r.op \in {"write", "patch"} => p = "write"
    BY <2>10 DEF First
  <2>12. p \in {"size", "stat", "shell", "start", "exists", "write"} /\ p \in Positions
    BY <1>1, <2>11 DEF FileOps, Positions
  <2>13. PICK n : n = [Idle EXCEPT !.pc = p, !.req = r, !.path = path, !.stage = stage,
                                   !.data = data, !.todo = todo]
    OBVIOUS
  <2>14. /\ n \in CallState /\ n.pc = p /\ n.req = r /\ n.path = path /\ n.stage = stage
         /\ n.data = data /\ n.todo = todo /\ n.res = "none" /\ n.got = NoFile
    <3>1. Idle.res = "none" /\ Idle.got = NoFile
      BY DEF Idle
    <3>2. QED BY <1>1, <2>7, <2>8, <2>9, <2>12, <2>13, <3>1, IdleState DEF CallState
  <2>15. OpAt(n)
    BY <1>1, <2>11, <2>12, <2>14 DEF OpAt, FileOps
  <2>16. WriteAt(n)
    BY <1>1, <2>2, <2>3, <2>6, <2>8, <2>11, <2>12, <2>14 DEF WriteAt, FileOps
  <2>17. EditAt(n) /\ TreeAt(n) /\ TransferAt(n) /\ CommandAt(n)
    BY <1>1, <2>3, <2>8, <2>9, <2>11, <2>12, <2>14 DEF EditAt, TreeAt, TransferAt, CommandAt, FileOps
  <2>18. Continue(c, n)
    BY <2>1, <2>2, <2>3, <2>4, <2>5, <2>10, <2>13
  <2>19. Follows(c, n)
    BY <1>1, <2>12, <2>14, <2>15, <2>16, <2>17, <2>18 DEF Follows, CallOk
  <2>20. Step(c, n)
    BY <1>1, <2>12, <2>14, <2>19, QuietStep
  <2>21. QED BY <2>14, <2>20
<1>4. QED BY <1>2, <1>3 DEF StartCall

LEMMA FileSteps ==
    ASSUME HostInv, NEW c \in Calls, FileStep(c)
    PROVE  \E n : Step(c, n)
BY StatForReadSteps, ReadFileSteps, StatForMkdirSteps, MkdirSteps, StatForRemoveSteps,
   RemoveNextSteps, RenameSteps, ShellTreeSteps, EnsureLooksSteps, EnsureReadsSteps,
   MoveStagedSteps, DryRunSteps, PatchSteps, PatchCleanupSteps, UploadSteps, DownloadReadsSteps,
   DownloadSavesSteps, DownloadMovesSteps, WriteRefusedSteps, WriteTempFileSteps,
   RenameTempFileSteps, UnlinkTempFileSteps, ShellWriteSteps DEF FileStep, WriteFile

\* A file call is none of the commands.
LEMMA FileStepIsOfAFileCall ==
    ASSUME HostInv, NEW c \in Calls, FileStep(c)
    PROVE  call[c].pc \notin {"idle", "done"} /\ call[c].req.op \notin CommandOps
<1>1. call[c].pc \notin {"idle", "done", "os", "wait"}
  <2>1. ASSUME WriteFile(c) PROVE call[c].pc \in {"write", "rename", "unlink"}
    BY <2>1 DEF WriteFile, WriteRefused, WriteTempFile, RenameTempFile, UnlinkTempFile, ShellWrite,
                MayWrite, WritesFile
  <2>2. ASSUME StatForRead(c) \/ ReadFile(c) \/ StatForMkdir(c) \/ Mkdir(c) \/ StatForRemove(c)
               \/ RemoveNext(c) \/ Rename(c) \/ ShellTree(c)
        PROVE  call[c].pc \in {"size", "read", "stat", "mkdir", "remove", "start", "shell"}
    BY <2>2 DEF StatForRead, ReadFile, StatForMkdir, Mkdir, StatForRemove, RemoveNext, Rename,
                ShellTree, CallFails, At
  <2>3. ASSUME EnsureLooks(c) \/ EnsureReads(c) \/ MoveStaged(c) \/ DryRun(c) \/ Patch(c)
               \/ PatchCleanup(c)
        PROVE  call[c].pc \in {"exists", "read", "move", "dryrun", "patch", "cleanup"}
    BY <2>3 DEF EnsureLooks, EnsureReads, MoveStaged, DryRun, Patch, PatchCleanup, At
  <2>4. ASSUME Upload(c) \/ DownloadReads(c) \/ DownloadSaves(c) \/ DownloadMoves(c)
        PROVE  call[c].pc \in {"start", "send", "verify", "read", "save", "check"}
    BY <2>4 DEF Upload, DownloadReads, DownloadSaves, DownloadMoves, At
  <2>5. QED BY <2>1, <2>2, <2>3, <2>4 DEF FileStep
<1>2. CallOk(call[c]) /\ call[c].pc \in Positions
  BY DEF HostInv, CallOk, CallState
<1>3. call[c].req.op \in FileOps
  BY <1>1, <1>2 DEF CallOk, OpAt, Positions, FileOps
<1>4. QED BY <1>1, <1>3 DEF FileOps, CommandOps

\* The records of calls that do not go on.
LEMMA StillCalls ==
    ASSUME HostInv, UNCHANGED call
    PROVE  (call \in [Calls -> CallState] /\ \A c \in Calls : CallOk(call[c]))'
<1>1. call' \in [Calls -> CallState] /\ \A c \in Calls : CallOk(call'[c])
  BY DEF HostInv
<1>2. QED BY <1>1 DEF CallOk, OpAt, WriteAt, EditAt, TreeAt, TransferAt, CommandAt, Fulfils

\* Another user's file is whole.
LEMMA EditKeepsHost ==
    ASSUME HostInv, NEW f \in Files, NEW content \in Edits, OtherUserEdits(f, content)
    PROVE  HostInv'
<1>1. UNCHANGED <<call, local, sftp>>
  BY DEF OtherUserEdits
<1>2. /\ DOMAIN remote' \subseteq DOMAIN remote \cup {f}
      /\ \A p \in DOMAIN remote' : \/ p \in DOMAIN remote /\ remote'[p] = remote[p]
                                   \/ p = f /\ remote'[p] \in Whole
  BY FilesAssumption DEF OtherUserEdits, Put, Drop
<1>3. f \notin Dirs /\ f \notin Temps /\ f \notin Temporaries
  BY NamesApart
<1>4. TreeOk'
  <2>1. IsFiniteSet(DOMAIN remote')
    BY <1>2, FS_Singleton, FS_Union, FS_Subset DEF HostInv, TreeOk
  <2>2. QED BY <2>1, <1>2, <1>3 DEF HostInv, TreeOk, Places, Whole
<1>5. TempsOk'
  <2>1. \A c \in Calls, q \in Targets : Temp(c, q) # f
    BY <1>3, NamesApart
  <2>2. QED BY <1>1, <1>2, <2>1 DEF HostInv, TempsOk, TempOk, Exists
<1>6. StagesOk'
  <2>1. \A c \in Calls : call[c].pc = "move" => call[c].stage # f
    BY <1>3 DEF HostInv, CallOk, WriteAt
  <2>2. QED BY <1>1, <1>2, <2>1 DEF HostInv, StagesOk, Exists, StageIsShared
<1>7. NoTears'
  BY <1>1, <1>2 DEF HostInv, NoTears, Calm, Whole
<1>8. SavedOk'
  BY <1>1 DEF HostInv, SavedOk
<1>9. (call \in [Calls -> CallState] /\ \A c \in Calls : CallOk(call[c]))'
  BY <1>1, StillCalls
<1>10. QED BY <1>4, <1>5, <1>6, <1>7, <1>8, <1>9 DEF HostInv

\* Nothing the invariant speaks of changes.
LEMMA StillHost ==
    ASSUME HostInv, UNCHANGED <<remote, local, call, sftp>>
    PROVE  HostInv'
<1>1. TreeOk'
  BY DEF HostInv, TreeOk
<1>2. TempsOk' /\ StagesOk'
  BY DEF HostInv, TempsOk, TempOk, StagesOk, StageIsShared, Exists
<1>3. NoTears' /\ SavedOk'
  BY DEF HostInv, NoTears, Calm, SavedOk
<1>4. QED BY <1>1, <1>2, <1>3, StillCalls DEF HostInv

LEMMA HostStarts ==
    ASSUME FilesInit
    PROVE  HostInv
<1>1. Idle \in CallState /\ CallOk(Idle)
  BY IdleState DEF CallOk, Idle, OpAt, WriteAt, EditAt, TreeAt, TransferAt, CommandAt, NoRequest, CommandOps
<1>2. call \in [Calls -> CallState] /\ \A c \in Calls : call[c] = Idle
  BY <1>1 DEF FilesInit
<1>3. Idle.pc = "idle" /\ Idle.res = "none"
  BY DEF Idle
<1>4. \A p \in DOMAIN remote : p \notin Temps
  BY FilesAssumption DEF FilesInit
<1>5. TreeOk
  BY FilesAssumption DEF FilesInit, TreeOk, Places, Whole
<1>6. TempsOk
  BY <1>4, NamesApart DEF TempsOk, Exists
<1>7. StagesOk /\ SavedOk
  BY <1>2, <1>3 DEF StagesOk, SavedOk
<1>8. NoTears
  <2>1. \A p \in DOMAIN remote : remote[p] # Torn
    <3>1. Torn \in Seq(Lines)
      BY DEF Torn
    <3>2. QED BY <3>1, FilesAssumption DEF FilesInit, Whole
  <2>2. DOMAIN local = {}
    BY DEF FilesInit
  <2>3. QED BY <1>2, <1>3, <2>1, <2>2 DEF NoTears
<1>9. QED BY <1>1, <1>2, <1>5, <1>6, <1>7, <1>8 DEF HostInv

-----------------------------------------------------------------------------
(* Commands: their processes, and what a step of a command may do. *)

Process == [by : Calls, cmd : Words, st : {"running", "ended"}, code : Nat]

\* A call starts at most one streaming process, and only when the host is known.
ProcsOk ==
    /\ procs \subseteq Process
    /\ \A p, q \in procs : p.cmd = "stream" /\ q.cmd = "stream" /\ p.by = q.by => p = q
    /\ \A p \in procs : p.cmd = "stream" => call[p.by].pc \notin {"idle", "os"}

\* What a process of this call saw or did makes its success true.
SeenBy(c) ==
    \E p \in procs : p.by = c /\ p.cmd \in {"check", "install"} /\ p.code = 0 /\ p.st = "ended"

\* A step of a command: at most one process is started.
CommandMoves(c, n) ==
    /\ Step(c, n) /\ n.pc \in {"wait", "done"}
    /\ n.req.op = "package" /\ n.req.state = "present" /\ n.res = "ok" => SeenBy(c)
    /\ \/ procs' = procs
       \/ \E cmd \in Words :
             /\ procs' = procs \cup {[by |-> c, cmd |-> cmd, st |-> "running", code |-> 0]}
             /\ cmd = "stream" => call[c].pc = "os"

LEMMA LaunchMoves ==
    ASSUME HostInv, NEW c \in Calls, call[c].pc \in {"os", "wait"}, NEW cmd \in Words, Launch(c, cmd),
           call[c].req.op = "stream" => cmd = "stream",
           cmd = "stream" => call[c].pc = "os",
           call[c].req.op = "package" /\ call[c].req.state = "present" => cmd \in {"check", "install"},
           UNCHANGED <<remote, local, sftp>>
    PROVE  \E n : CommandMoves(c, n) /\ n.pc = "wait"
<1>1. CallOk(call[c])
  BY DEF HostInv
<1>2. PICK n : n = [call[c] EXCEPT !.pc = "wait", !.err = cmd]
  OBVIOUS
<1>3. /\ n \in CallState /\ n.pc = "wait" /\ n.res = call[c].res /\ n.req = call[c].req
      /\ n.stage = call[c].stage /\ n.err = cmd
  BY <1>1, <1>2 DEF CallOk, CallState, Positions
<1>4. CallOk(n)
  BY <1>1, <1>3 DEF CallOk, OpAt, WriteAt, EditAt, TreeAt, TransferAt, CommandAt
<1>5. Follows(c, n)
  BY <1>2, <1>3, <1>4 DEF Follows, Launch
<1>6. n.res = "none"
  BY <1>3, <1>4 DEF CallOk, OpAt
<1>7. Step(c, n)
  BY <1>3, <1>5, <1>6, QuietStep
<1>8. QED BY <1>3, <1>6, <1>7 DEF CommandMoves, Launch

\* A command is answered; its promise is PresentWasSeen.
LEMMA CommandAnswered ==
    ASSUME HostInv, NEW c \in Calls, call[c].pc \in {"os", "wait"}, NEW r \in {"ok", "error"}, Answer(c, r),
           r = "ok" /\ call[c].req.op = "package" /\ call[c].req.state = "present" => SeenBy(c),
           UNCHANGED <<remote, local, sftp, procs>>
    PROVE  \E n : CommandMoves(c, n) /\ n.pc = "done"
<1>1. CallOk(call[c]) /\ call[c].req.op \in CommandOps
  BY DEF HostInv, CallOk, OpAt
<1>2. call[c].req.op # "download"
  BY <1>1 DEF CommandOps
<1>3. PICK n : Follows(c, n) /\ n.pc = "done" /\ n.res = r /\ n.req = call[c].req
  BY <1>2, AnswerFollows
<1>4. call'[c] = n
  BY <1>3, CallsAfter
<1>5. n.req.op \notin {"write", "upload", "ensure", "remove", "rename", "download"}
  BY <1>1, <1>3 DEF CommandOps
<1>6. Promised(c)'
  BY <1>4, <1>5 DEF Promised
<1>7. Step(c, n)
  BY <1>2, <1>3, <1>6, QuietStep
<1>8. QED BY <1>3, <1>7 DEF CommandMoves

LEMMA StartCommandSteps ==
    ASSUME HostInv, NEW c \in Calls, NEW r \in Requests \ FileRequests, StartCommand(c, r)
    PROVE  \E n : Step(c, n) /\ n.res # "ok"
<1>1. /\ call[c].pc = "idle" /\ call[c].stage = NoFile /\ UNCHANGED <<remote, local, sftp>>
      /\ r \in Requests /\ r.op \in CommandOps
  BY DEF StartCommand, FilesRest, HostInv, CallOk, EditAt, FileRequests
<1>2. PICK n : /\ Continue(c, n)
               /\ \/ n = [Idle EXCEPT !.pc = "done", !.req = r, !.res = "error"]
                  \/ n = [Idle EXCEPT !.pc = "os", !.req = r]
  BY DEF StartCommand
<1>3. /\ n \in CallState /\ n.req = r
      /\ \/ n.pc = "done" /\ n.res = "error"
         \/ n.pc = "os" /\ n.res = "none"
  <2>1. Idle.res = "none"
    BY DEF Idle
  <2>2. CASE n = [Idle EXCEPT !.pc = "done", !.req = r, !.res = "error"]
    BY <1>1, <2>2, IdleState DEF CallState, Positions
  <2>3. CASE n = [Idle EXCEPT !.pc = "os", !.req = r]
    BY <1>1, <2>1, <2>3, IdleState DEF CallState, Positions
  <2>4. QED BY <1>2, <2>2, <2>3
<1>4. CallOk(n)
  BY <1>1, <1>3 DEF CallOk, OpAt, WriteAt, EditAt, TreeAt, TransferAt, CommandAt
<1>5. Follows(c, n)
  BY <1>1, <1>2, <1>3, <1>4 DEF Follows
<1>6. Step(c, n)
  BY <1>1, <1>3, <1>5, QuietStep
<1>7. QED BY <1>3, <1>6

LEMMA DetectAndLaunchMoves ==
    ASSUME HostInv, NEW c \in Calls, DetectAndLaunch(c)
    PROVE  \E n : CommandMoves(c, n)
<1>1. /\ call[c].pc = "os" /\ CallOk(call[c]) /\ call[c].req \in Requests
      /\ call[c].req.op \in CommandOps /\ UNCHANGED <<remote, local, sftp>>
  BY DEF DetectAndLaunch, IsCommand, FilesRest, HostInv, CallOk, OpAt
<1>2. PICK cmd : cmd = FirstCommand(call[c].req)
  OBVIOUS
<1>3. /\ cmd \in Words /\ (call[c].req.op = "stream" => cmd = "stream")
      /\ call[c].req.op = "package" => cmd = "check"
  BY <1>1, <1>2 DEF FirstCommand, Words, ServiceStates, CommandOps
<1>4. CASE Launch(c, cmd)
  BY <1>1, <1>3, <1>4, LaunchMoves
<1>5. CASE Answer(c, "error") /\ UNCHANGED procs
  BY <1>1, <1>5, CommandAnswered
<1>6. QED BY <1>2, <1>4, <1>5 DEF DetectAndLaunch

\* ensurePackage after its check.
LEMMA AfterCheckMoves ==
    ASSUME HostInv, NEW c \in Calls, call[c].pc = "wait", call[c].err = "check",
           NEW found \in BOOLEAN, AfterCheck(c, found), found => SeenBy(c),
           UNCHANGED <<remote, local, sftp>>
    PROVE  \E n : CommandMoves(c, n)
<1>1. call[c].req.op # "stream"
  BY DEF HostInv, CallOk, CommandAt
<1>2. PICK present \in BOOLEAN : present = (call[c].req.state = "present")
  OBVIOUS
<1>3. CASE found = present
  <2>1. Answer(c, "ok") /\ UNCHANGED procs
    BY <1>2, <1>3 DEF AfterCheck
  <2>2. call[c].req.state = "present" => SeenBy(c)
    BY <1>2, <1>3
  <2>3. QED BY <2>1, <2>2, CommandAnswered
<1>4. CASE found # present
  <2>1. \/ Launch(c, IF call[c].req.state = "present" THEN "install" ELSE "remove")
        \/ Answer(c, "error") /\ UNCHANGED procs
    BY <1>2, <1>4 DEF AfterCheck
  <2>2. CASE Answer(c, "error") /\ UNCHANGED procs
    BY <2>2, CommandAnswered
  <2>3. CASE Launch(c, IF call[c].req.state = "present" THEN "install" ELSE "remove")
    <3>1. PICK cmd : cmd = IF call[c].req.state = "present" THEN "install" ELSE "remove"
      OBVIOUS
    <3>2. cmd \in Words /\ cmd # "stream" /\ (call[c].req.state = "present" => cmd = "install")
      BY <3>1 DEF Words
    <3>3. Launch(c, cmd)
      BY <2>3, <3>1
    <3>4. QED BY <1>1, <3>2, <3>3, LaunchMoves
  <2>4. QED BY <2>1, <2>2, <2>3
<1>5. QED BY <1>3, <1>4

LEMMA CommandAnswersMoves ==
    ASSUME HostInv, NEW c \in Calls, CommandAnswers(c)
    PROVE  \E n : CommandMoves(c, n)
<1>1. call[c].pc = "wait" /\ CallOk(call[c]) /\ UNCHANGED <<remote, local, sftp>>
  BY DEF CommandAnswers, FilesRest, HostInv
<1>2. PICK p \in procs :
         /\ p.by = c /\ p.st = "ended" /\ p.cmd = call[c].err
         /\ IF p.cmd = "check" THEN AfterCheck(c, CheckFound(p))
            ELSE Answer(c, IF p.code = 0 THEN "ok" ELSE "error") /\ UNCHANGED procs
  BY DEF CommandAnswers
<1>3. CASE p.cmd = "check"
  <2>1. PICK found \in BOOLEAN : found = CheckFound(p)
    BY DEF CheckFound
  <2>2. AfterCheck(c, found)
    BY <1>2, <1>3, <2>1
  <2>3. found => SeenBy(c)
    BY <1>2, <1>3, <2>1 DEF CheckFound, SeenBy
  <2>4. QED BY <1>1, <1>2, <1>3, <2>2, <2>3, AfterCheckMoves
<1>4. CASE p.cmd # "check"
  <2>1. PICK r \in {"ok", "error"} : r = IF p.code = 0 THEN "ok" ELSE "error"
    OBVIOUS
  <2>2. Answer(c, r) /\ UNCHANGED procs
    BY <1>2, <1>4, <2>1
  <2>3. r = "ok" /\ call[c].req.op = "package" /\ call[c].req.state = "present" => SeenBy(c)
    BY <1>1, <1>2, <2>1 DEF CallOk, CommandAt, SeenBy
  <2>4. PICK n : CommandMoves(c, n)
    BY <1>1, <2>2, <2>3, CommandAnswered
  <2>5. QED BY <2>4
<1>5. QED BY <1>3, <1>4

LEMMA CommandGivenUpMoves ==
    ASSUME HostInv, NEW c \in Calls, CommandGivenUp(c)
    PROVE  \E n : CommandMoves(c, n)
<1>1. call[c].pc = "wait" /\ UNCHANGED <<remote, local, sftp>>
  BY DEF CommandGivenUp, FilesRest
<1>2. CASE call[c].err = "check"
  <2>1. AfterCheck(c, FALSE)
    BY <1>2 DEF CommandGivenUp
  <2>2. QED BY <1>1, <1>2, <2>1, AfterCheckMoves
<1>3. CASE call[c].err # "check"
  <2>1. Answer(c, "error") /\ UNCHANGED procs
    BY <1>3 DEF CommandGivenUp
  <2>2. PICK n : CommandMoves(c, n)
    BY <1>1, <2>1, CommandAnswered
  <2>3. QED BY <2>2
<1>4. QED BY <1>2, <1>3

-----------------------------------------------------------------------------
(* Streams: counting bytes and collecting what was written. *)

\* The bytes of the beginnings of s.
ByteSteps(s) == [m \in 1..Len(s) |-> [b \in Nat |-> b + s[m]]]
Counts(f, s) == Solves(f, Nat, 0, Len(s), ByteSteps(s))

LEMMA CountsExist ==
    ASSUME NEW s \in Seq(Nat)
    PROVE  \E f : Counts(f, s)
<1>1. Len(s) \in Nat /\ \A m \in 1..Len(s) : s[m] \in Nat
  OBVIOUS
<1>2. ByteSteps(s) \in [1..Len(s) -> [Nat -> Nat]]
  BY <1>1 DEF ByteSteps
<1>3. QED BY <1>1, <1>2, StepsExist DEF Counts

LEMMA CountStep ==
    ASSUME NEW s \in Seq(Nat), NEW f, Counts(f, s)
    PROVE  /\ f \in [0..Len(s) -> Nat] /\ f[0] = 0
           /\ \A m \in 1..Len(s) : m - 1 \in 0..Len(s) /\ f[m] = f[m - 1] + s[m]
<1>1. Len(s) \in Nat /\ f \in [0..Len(s) -> Nat] /\ f[0] = 0
  BY DEF Counts, Solves
<1>2. ASSUME NEW m \in 1..Len(s) PROVE m - 1 \in 0..Len(s) /\ f[m] = f[m - 1] + s[m]
  <2>1. m \in 0..Len(s) /\ m # 0 /\ m - 1 \in 0..Len(s)
    BY <1>1
  <2>2. f[m - 1] \in Nat
    BY <1>1, <2>1
  <2>3. f[m] = ByteSteps(s)[m][f[m - 1]]
    BY <2>1 DEF Counts, Solves
  <2>4. QED BY <2>1, <2>2, <2>3 DEF ByteSteps
<1>3. QED BY <1>1, <1>2

LEMMA BytesAreCounted ==
    ASSUME NEW s \in Seq(Nat), NEW f, Counts(f, s)
    PROVE  Bytes(s) = f[Len(s)]
<1> DEFINE L == Len(s)
           B(g) == [n \in 0..L |-> IF n = 0 THEN 0 ELSE g[n - 1] + s[n]]
           at == CHOOSE g : g = B(g)
<1>0. L \in Nat
  OBVIOUS
<1>1. f = B(f)
  <2>1. ASSUME NEW m \in 0..L PROVE f[m] = B(f)[m]
    <3>1. CASE m = 0
      BY <3>1, CountStep
    <3>2. CASE m # 0
      <4>1. m \in 1..Len(s)
        BY <3>2, <1>0
      <4>2. f[m] = f[m - 1] + s[m]
        BY <4>1, CountStep
      <4>3. QED BY ONLY <3>2, <4>2, m \in 0..L
    <3>3. QED BY <3>1, <3>2
  <2>2. f = [m \in 0..L |-> f[m]]
    BY DEF Counts, Solves
  <2>3. QED BY <2>1, <2>2
<1>2. at = B(at)
  BY <1>1
<1>3. Bytes(s) = at[L]
  BY DEF Bytes
<1> HIDE DEF at
<1>4. at[0] = 0
  <2>1. 0 \in 0..L
    BY <1>0
  <2>2. QED BY <2>1, <1>2, Zenon
<1>5. ASSUME NEW m \in 1..L, at[m - 1] \in Nat PROVE at[m] = ByteSteps(s)[m][at[m - 1]]
  <2>1. m \in 0..L /\ m # 0
    BY <1>0
  <2>2. at[m] = at[m - 1] + s[m]
    BY <1>2, <2>1
  <2>3. QED BY <2>2, <1>5 DEF ByteSteps
<1>6. at[L] = f[L]
  <2> HIDE DEF L
  <2>1. PICK V, step : V = Nat /\ step = ByteSteps(s)
    OBVIOUS
  <2>2. Solves(f, V, 0, L, step)
    BY <2>1 DEF Counts, L
  <2>3. \A m \in 1..L : at[m - 1] \in V => at[m] = step[m][at[m - 1]]
    BY <2>1, <1>5
  <2>4. QED BY <1>0, <1>4, <2>2, <2>3, FollowsSteps
<1>7. QED BY <1>3, <1>6

\* Whatever counts along s ends with its bytes.
LEMMA CountedAlong ==
    ASSUME NEW s \in Seq(Nat), NEW g, g[0] = 0,
           \A m \in 1..Len(s) : g[m - 1] \in Nat => g[m] = g[m - 1] + s[m]
    PROVE  Bytes(s) = g[Len(s)] /\ Bytes(s) \in Nat
<1>1. PICK f : Counts(f, s)
  BY CountsExist
<1>2. PICK V, step, L : V = Nat /\ step = ByteSteps(s) /\ L = Len(s)
  OBVIOUS
<1>3. L \in Nat /\ Solves(f, V, 0, L, step)
  BY <1>1, <1>2 DEF Counts
<1>4. \A m \in 1..L : g[m - 1] \in V => g[m] = step[m][g[m - 1]]
  BY <1>2 DEF ByteSteps
<1>5. g[L] = f[L]
  BY <1>3, <1>4, FollowsSteps
<1>6. f[L] \in Nat
  BY <1>1, <1>2, <1>3, CountStep
<1>7. QED BY <1>1, <1>2, <1>5, <1>6, BytesAreCounted

LEMMA BytesOfNothing == Bytes(<<>>) = 0
<1>1. PICK g : g = [i \in {0} |-> 0]
  OBVIOUS
<1>2. PICK s : s = <<>>
  OBVIOUS
<1>3. s \in Seq(Nat) /\ Len(s) = 0 /\ g[0] = 0
  BY <1>1, <1>2
<1>4. Bytes(s) = g[0]
  <2>1. \A m \in 1..Len(s) : g[m - 1] \in Nat => g[m] = g[m - 1] + s[m]
    <3>1. \A m : m \notin 1..Len(s)
      BY <1>3
    <3>2. QED BY <3>1
  <2>2. Bytes(s) = g[Len(s)]
    BY <1>3, <2>1, CountedAlong
  <2>3. QED BY <1>3, <2>2
<1>5. QED BY <1>2, <1>3, <1>4

LEMMA BytesOfBoth ==
    ASSUME NEW a \in Seq(Nat), NEW b \in Seq(Nat)
    PROVE  Bytes(a \o b) = Bytes(a) + Bytes(b) /\ Bytes(a) \in Nat /\ Bytes(b) \in Nat
<1>1. PICK s, A, B : s = a \o b /\ A = Len(a) /\ B = Len(b)
  OBVIOUS
<1>2. /\ s \in Seq(Nat) /\ Len(s) = A + B /\ A \in Nat /\ B \in Nat
      /\ \A i \in 1..(A + B) : s[i] = IF i <= A THEN a[i] ELSE b[i - A]
  BY <1>1, ConcatProperties
<1>3. PICK f : Counts(f, s)
  BY <1>2, CountsExist
<1>4. /\ f \in [0..(A + B) -> Nat] /\ f[0] = 0
      /\ \A m \in 1..(A + B) : m - 1 \in 0..(A + B) /\ f[m] = f[m - 1] + s[m]
  <2>1. /\ f \in [0..Len(s) -> Nat] /\ f[0] = 0
        /\ \A m \in 1..Len(s) : m - 1 \in 0..Len(s) /\ f[m] = f[m - 1] + s[m]
    BY <1>2, <1>3, CountStep
  <2>2. Len(s) = A + B
    BY <1>2
  <2>3. QED BY ONLY <2>1, <2>2
<1>5. Bytes(a) = f[A] /\ Bytes(a) \in Nat
  <2>1. \A m \in 1..A : m \in 1..(A + B) /\ s[m] = a[m]
    BY <1>2
  <2>2. \A m \in 1..A : f[m - 1] \in Nat => f[m] = f[m - 1] + a[m]
    BY <1>4, <2>1
  <2>3. QED BY <1>1, <1>4, <2>2, CountedAlong
<1>6. Bytes(b) = f[A + B] - f[A] /\ Bytes(b) \in Nat
  <2>1. PICK g : g = [n \in 0..B |-> f[A + n] - f[A]]
    OBVIOUS
  <2>2. f[A] \in Nat /\ g[0] = 0 /\ g[B] = f[A + B] - f[A]
    BY <1>2, <1>4, <2>1
  <2>3. ASSUME NEW m \in 1..B PROVE g[m] = g[m - 1] + b[m]
    <3>1. A + m \in 1..(A + B) /\ ~(A + m <= A) /\ (A + m) - A = m /\ (A + m) - 1 = A + (m - 1)
      BY <1>2
    <3>2. f[A + m] = f[A + (m - 1)] + b[m]
      BY <1>2, <1>4, <3>1
    <3>3. m \in 0..B /\ m - 1 \in 0..B /\ b[m] \in Nat /\ A + (m - 1) \in 0..(A + B)
      BY <1>1, <1>2
    <3>4. f[A + (m - 1)] \in Nat
      BY <1>4, <3>3
    <3>5. g[m] = f[A + m] - f[A] /\ g[m - 1] = f[A + (m - 1)] - f[A]
      BY <2>1, <3>3
    <3>6. PICK x, y, z : x = f[A + m] /\ y = f[A + (m - 1)] /\ z = f[A]
      OBVIOUS
    <3>7. g[m] = x - z /\ g[m - 1] = y - z /\ x = y + b[m]
      BY <3>2, <3>5, <3>6
    <3>8. y \in Nat /\ z \in Nat /\ b[m] \in Nat
      BY <2>2, <3>3, <3>4, <3>6
    <3>9. QED BY ONLY <3>7, <3>8
  <2>4. Bytes(b) = g[B] /\ Bytes(b) \in Nat
    BY <1>1, <2>2, <2>3, CountedAlong
  <2>5. QED BY <2>2, <2>4
<1>7. Bytes(s) = f[A + B]
  BY <1>2, <1>3, BytesAreCounted
<1>8. f[A] \in Nat /\ f[A + B] \in Nat
  BY <1>2, <1>4
<1>9. QED BY <1>1, <1>5, <1>6, <1>7, <1>8

\* A set of numbers up to L that is not empty has a greatest.
LEMMA GreatestExists ==
    ASSUME NEW L \in Nat, NEW S \in SUBSET (0..L), S # {}
    PROVE  \E n \in S : \A k \in S : k <= n
<1>1. PICK D : D = {d \in Nat : L - d \in S}
  OBVIOUS
<1>2. \A n \in S : n \in 0..L /\ L - n \in D
  BY <1>1
<1>3. D # {} /\ D \subseteq Nat
  BY <1>1, <1>2
<1>4. \E d \in D : \A e \in D : ~(<<e, d>> \in OpToRel(<, Nat))
  BY <1>3, NatLessThanWellFounded, WFMin
<1>5. PICK d \in D : \A e \in D : ~(e < d)
  BY <1>3, <1>4 DEF OpToRel
<1>6. d \in Nat /\ L - d \in S
  BY <1>1
<1>7. ASSUME NEW k \in S PROVE k <= L - d
  <2>1. L - k \in D /\ k \in 0..L
    BY <1>2
  <2>2. ~(L - k < d)
    BY <1>5, <2>1
  <2>3. QED BY <1>6, <2>1, <2>2
<1>8. QED BY <1>6, <1>7

\* appendBounded cuts at the room that is left.
LEMMA FittingFits ==
    ASSUME NEW data \in Seq(Nat), NEW room \in Nat
    PROVE  /\ Fitting(data, room) \in Seq(Nat) /\ Bytes(Fitting(data, room)) <= room
           /\ Bytes(data) <= room => Fitting(data, room) = data
<1>1. PICK L, fits : L = Len(data) /\ fits = {n \in 0..Len(data) : Bytes(SubSeq(data, 1, n)) <= room}
  OBVIOUS
<1>2. L \in Nat /\ fits \in SUBSET (0..L)
  BY <1>1
<1>3. 0 \in fits
  <2>1. SubSeq(data, 1, 0) = <<>>
    OBVIOUS
  <2>2. PICK e : e = SubSeq(data, 1, 0)
    OBVIOUS
  <2>3. Bytes(e) = 0
    BY <2>1, <2>2, BytesOfNothing
  <2>4. Bytes(SubSeq(data, 1, 0)) <= room /\ 0 \in 0..Len(data)
    BY <2>2, <2>3, <1>1, <1>2
  <2>5. QED BY <1>1, <2>4
<1>4. \E n \in fits : \A k \in fits : k <= n
  BY <1>2, <1>3, GreatestExists
<1>5. PICK n : n = CHOOSE m \in fits : \A k \in fits : k <= m
  OBVIOUS
<1>6. n \in fits /\ \A k \in fits : k <= n
  BY <1>4, <1>5
<1>7. Fitting(data, room) = SubSeq(data, 1, n)
  BY <1>1, <1>5 DEF Fitting
<1>8. n \in 0..L /\ Bytes(SubSeq(data, 1, n)) <= room
  BY <1>1, <1>6
<1>9. SubSeq(data, 1, n) \in Seq(Nat)
  BY <1>1, <1>2, <1>8
<1>10. ASSUME Bytes(data) <= room PROVE SubSeq(data, 1, n) = data
  <2>1. SubSeq(data, 1, L) = data
    BY <1>1
  <2>2. L \in fits
    <3>1. L \in 0..Len(data)
      BY <1>1, <1>2
    <3>2. Bytes(SubSeq(data, 1, L)) <= room
      BY ONLY <1>10, <2>1
    <3>3. QED BY ONLY <1>1, <3>1, <3>2
  <2>3. n = L
    BY <1>2, <1>6, <1>8, <2>2
  <2>4. QED BY <2>1, <2>3
<1>11. QED BY <1>7, <1>8, <1>9, <1>10

LEMMA BoundedAppend ==
    ASSUME NEW current \in Seq(Nat), NEW data \in Seq(Nat), NEW max \in Nat, Bytes(current) <= max
    PROVE  LET bounded == AppendBounded(current, data, max)
           IN  /\ bounded.value \in Seq(Nat) /\ Bytes(bounded.value) <= max
               /\ ~bounded.truncated => bounded.value = current \o data
<1>1. PICK b, room : b = Bytes(current) /\ room = max - Bytes(current)
  OBVIOUS
<1>2. b \in Nat /\ room \in Nat /\ Bytes(data) \in Nat
  BY <1>1, BytesOfBoth
<1>3. CASE b >= max
  <2>1. /\ AppendBounded(current, data, max).value = current
        /\ AppendBounded(current, data, max).truncated = (data # <<>>)
    BY <1>1, <1>3 DEF AppendBounded
  <2>2. data = <<>> => current \o data = current
    BY ConcatEmptySeq
  <2>3. QED BY <2>1, <2>2
<1>4. CASE ~(b >= max)
  <2>1. PICK cut : cut = Fitting(data, room)
    OBVIOUS
  <2>2. /\ AppendBounded(current, data, max).value = current \o cut
        /\ AppendBounded(current, data, max).truncated = (Bytes(data) > room)
    BY <1>1, <1>4, <2>1 DEF AppendBounded
  <2>3. cut \in Seq(Nat) /\ Bytes(cut) <= room /\ (Bytes(data) <= room => cut = data)
    BY <1>2, <2>1, FittingFits
  <2>4. current \o cut \in Seq(Nat) /\ Bytes(current \o cut) = b + Bytes(cut) /\ Bytes(cut) \in Nat
    BY <1>1, <2>3, BytesOfBoth, ConcatProperties
  <2>5. Bytes(current \o cut) <= max
    BY <1>1, <1>2, <2>3, <2>4
  <2>6. ~(Bytes(data) > room) => cut = data
    BY <1>2, <2>3
  <2>7. QED BY <2>2, <2>4, <2>5, <2>6
<1>5. QED BY <1>3, <1>4

\* What is written to output w by the beginnings of what was sent.
Outputs == {"stdout", "stderr"}
Sends == Outputs \X Seq(Nat)
Then(t, x, w) == IF x[1] = w THEN t \o x[2] ELSE t
TextSteps(sent, w) == [m \in 1..Len(sent) |-> [t \in Seq(Nat) |-> Then(t, sent[m], w)]]
Texts(f, sent, w) == Solves(f, Seq(Nat), <<>>, Len(sent), TextSteps(sent, w))

LEMMA ThenText ==
    ASSUME NEW t \in Seq(Nat), NEW x \in Sends, NEW w
    PROVE  Then(t, x, w) \in Seq(Nat)
<1>1. x[2] \in Seq(Nat)
  BY DEF Sends
<1>2. t \o x[2] \in Seq(Nat)
  BY <1>1, ConcatProperties
<1>3. QED BY <1>2 DEF Then

LEMMA TextsExist ==
    ASSUME NEW sent \in Seq(Sends), NEW w
    PROVE  \E f : Texts(f, sent, w)
<1>1. PICK L, V, step, none : L = Len(sent) /\ V = Seq(Nat) /\ step = TextSteps(sent, w) /\ none = <<>>
  OBVIOUS
<1>2. L \in Nat /\ \A m \in 1..L : sent[m] \in Sends
  BY <1>1
<1>3. none \in V
  BY <1>1
<1>4. step \in [1..L -> [V -> V]]
  BY <1>1, <1>2, ThenText DEF TextSteps
<1>5. \E f : Solves(f, V, none, L, step)
  BY <1>2, <1>3, <1>4, StepsExist
<1>6. QED BY <1>1, <1>5 DEF Texts

LEMMA TextStep ==
    ASSUME NEW sent \in Seq(Sends), NEW w, NEW f, Texts(f, sent, w)
    PROVE  /\ f \in [0..Len(sent) -> Seq(Nat)] /\ f[0] = <<>>
           /\ \A m \in 1..Len(sent) : m - 1 \in 0..Len(sent) /\ f[m] = Then(f[m - 1], sent[m], w)
<1>1. Len(sent) \in Nat /\ f \in [0..Len(sent) -> Seq(Nat)] /\ f[0] = <<>>
  BY DEF Texts, Solves
<1>2. ASSUME NEW m \in 1..Len(sent)
      PROVE  m - 1 \in 0..Len(sent) /\ f[m] = Then(f[m - 1], sent[m], w)
  <2>1. m \in 0..Len(sent) /\ m # 0 /\ m - 1 \in 0..Len(sent)
    BY <1>1
  <2>2. f[m - 1] \in Seq(Nat)
    BY <1>1, <2>1
  <2>3. f[m] = TextSteps(sent, w)[m][f[m - 1]]
    BY <2>1 DEF Texts, Solves
  <2>4. QED BY <2>1, <2>2, <2>3 DEF TextSteps
<1>3. QED BY <1>1, <1>2

LEMMA WrittenIsText ==
    ASSUME NEW sent \in Seq(Sends), NEW w, NEW f, Texts(f, sent, w)
    PROVE  Written(sent, w) = f[Len(sent)]
<1> DEFINE L == Len(sent)
           B(g) == [n \in 0..L |-> IF n = 0 THEN <<>>
                                   ELSE IF sent[n][1] = w THEN g[n - 1] \o sent[n][2] ELSE g[n - 1]]
           at == CHOOSE g : g = B(g)
<1>0. L \in Nat
  OBVIOUS
<1>1. f = B(f)
  <2>1. ASSUME NEW m \in 0..L PROVE f[m] = B(f)[m]
    <3>1. CASE m = 0
      BY <3>1, TextStep
    <3>2. CASE m # 0
      <4>1. m \in 1..Len(sent)
        BY <3>2, <1>0
      <4>2. f[m] = Then(f[m - 1], sent[m], w)
        BY <4>1, TextStep
      <4>3. QED BY ONLY <3>2, <4>2, m \in 0..L DEF Then
    <3>3. QED BY <3>1, <3>2
  <2>2. f = [m \in 0..L |-> f[m]]
    BY DEF Texts, Solves
  <2>3. QED BY <2>1, <2>2
<1>2. at = B(at)
  BY <1>1
<1>3. Written(sent, w) = at[L]
  BY DEF Written
<1> HIDE DEF at
<1>4. at[0] = <<>>
  <2>1. 0 \in 0..L
    BY <1>0
  <2>2. QED BY <2>1, <1>2, Zenon
<1>5. ASSUME NEW m \in 1..L, at[m - 1] \in Seq(Nat) PROVE at[m] = TextSteps(sent, w)[m][at[m - 1]]
  <2>1. m \in 0..L /\ m # 0
    BY <1>0
  <2>2. at[m] = Then(at[m - 1], sent[m], w)
    BY <1>2, <2>1 DEF Then
  <2>3. QED BY <2>2, <1>5 DEF TextSteps
<1>6. at[L] = f[L]
  <2> HIDE DEF L
  <2>1. PICK V, step, none : V = Seq(Nat) /\ step = TextSteps(sent, w) /\ none = <<>>
    OBVIOUS
  <2>2. Solves(f, V, none, L, step)
    BY <2>1 DEF Texts, L
  <2>3. \A m \in 1..L : at[m - 1] \in V => at[m] = step[m][at[m - 1]]
    BY <2>1, <1>5
  <2>4. at[0] = none
    BY <1>4, <2>1
  <2>5. QED BY <1>0, <2>2, <2>3, <2>4, FollowsSteps
<1>7. QED BY <1>3, <1>6

LEMMA WrittenOfNothing ==
    ASSUME NEW w
    PROVE  Written(<<>>, w) = <<>>
<1>1. PICK s : s = <<>>
  OBVIOUS
<1>2. s \in Seq(Sends) /\ Len(s) = 0
  BY <1>1
<1>3. PICK f : Texts(f, s, w)
  BY <1>2, TextsExist
<1>4. f[0] = <<>>
  BY <1>2, <1>3, TextStep
<1>5. Written(s, w) = f[Len(s)]
  BY <1>2, <1>3, WrittenIsText
<1>6. QED BY <1>1, <1>2, <1>4, <1>5

\* One more chunk, which goes to its own output.
LEMMA WrittenMore ==
    ASSUME NEW sent \in Seq(Sends), NEW x \in Sends, NEW w
    PROVE  Written(Append(sent, x), w) = Then(Written(sent, w), x, w)
<1>1. PICK s, L : s = Append(sent, x) /\ L = Len(sent)
  OBVIOUS
<1>2. /\ s \in Seq(Sends) /\ Len(s) = L + 1 /\ L \in Nat
      /\ s[L + 1] = x /\ \A m \in 1..L : s[m] = sent[m]
  BY <1>1, AppendProperties
<1>3. PICK f : Texts(f, sent, w)
  BY TextsExist
<1>4. PICK g : Texts(g, s, w)
  BY <1>2, TextsExist
<1>5. /\ g \in [0..(L + 1) -> Seq(Nat)] /\ g[0] = <<>>
      /\ \A m \in 1..(L + 1) : m - 1 \in 0..(L + 1) /\ g[m] = Then(g[m - 1], s[m], w)
  <2>1. /\ g \in [0..Len(s) -> Seq(Nat)] /\ g[0] = <<>>
        /\ \A m \in 1..Len(s) : m - 1 \in 0..Len(s) /\ g[m] = Then(g[m - 1], s[m], w)
    BY <1>2, <1>4, TextStep
  <2>2. Len(s) = L + 1
    BY <1>2
  <2>3. QED BY ONLY <2>1, <2>2
<1>6. g[L] = f[L]
  <2>1. PICK V, step, none : V = Seq(Nat) /\ step = TextSteps(sent, w) /\ none = <<>>
    OBVIOUS
  <2>2. Solves(f, V, none, L, step)
    BY <1>1, <1>3, <2>1 DEF Texts
  <2>3. \A m \in 1..L : g[m - 1] \in V => g[m] = step[m][g[m - 1]]
    <3>1. SUFFICES ASSUME NEW m \in 1..L, g[m - 1] \in Seq(Nat)
                   PROVE  g[m] = TextSteps(sent, w)[m][g[m - 1]]
      BY <2>1
    <3>2. m \in 1..(L + 1) /\ m \in 1..Len(sent) /\ s[m] = sent[m]
      BY <1>1, <1>2
    <3>3. g[m] = Then(g[m - 1], sent[m], w)
      BY <1>5, <3>2
    <3>4. QED BY <3>1, <3>2, <3>3 DEF TextSteps
  <2>4. g[0] = none
    BY <1>5, <2>1
  <2>5. L \in Nat
    BY <1>2
  <2>6. QED BY ONLY <2>2, <2>3, <2>4, <2>5, FollowsSteps
<1>7. g[L + 1] = Then(g[L], x, w)
  <2>1. L + 1 \in 1..(L + 1) /\ (L + 1) - 1 = L
    BY <1>2
  <2>2. g[L + 1] = Then(g[(L + 1) - 1], s[L + 1], w)
    BY <1>5, <2>1
  <2>3. QED BY <1>2, <2>1, <2>2
<1>8. Written(s, w) = g[L + 1] /\ Written(sent, w) = f[L]
  <2>1. Written(s, w) = g[Len(s)] /\ Written(sent, w) = f[Len(sent)]
    BY <1>2, <1>3, <1>4, WrittenIsText
  <2>2. QED BY <2>1, <1>1, <1>2
<1>9. QED BY <1>1, <1>6, <1>7, <1>8

-----------------------------------------------------------------------------
(* The invariant of the commands. *)

Items == Sends \cup {"truncated", "exit"}
StreamState == [sent : Seq(Sends), out : [Outputs -> Seq(Nat)], chunks : Seq(Items), truncated : BOOLEAN]

\* The texts are within their limit, and complete unless they say otherwise.
TextsOk(s) ==
    /\ s \in StreamState
    /\ \A w \in Outputs : Bytes(s.out[w]) <= MaxOutputBytes
    /\ ~s.truncated => \A w \in Outputs : s.out[w] = Written(s.sent, w)

\* The chunks before the command is answered, and after.
ChunksOpen(s) == Len(s.chunks) <= MaxStreamChunks /\ (~s.truncated => s.chunks = s.sent)
ChunksEnded(s) ==
    /\ Len(s.chunks) <= MaxStreamChunks + 2
    /\ ~s.truncated => Len(s.sent) <= Len(s.chunks) /\ \A i \in DOMAIN s.sent : s.chunks[i] = s.sent[i]

NoneWrites(c) == \A p \in procs : p.by = c /\ p.cmd = "stream" => p.st = "ended"

StreamOk(c) ==
    /\ TextsOk(stream[c])
    /\ \/ ChunksOpen(stream[c])
       \/ ChunksEnded(stream[c]) /\ call[c].pc = "done" /\ NoneWrites(c)

StreamsOk == stream \in [Calls -> StreamState] /\ \A c \in Calls : StreamOk(c)

CommandsInv ==
    /\ HostInv /\ ProcsOk /\ StreamsOk /\ PresentWasSeen
    /\ installed \in BOOLEAN /\ service \in {"started", "stopped"}

\* A chunk keeps the buffers in order.
LEMMA ChunkFits ==
    ASSUME NEW s, TextsOk(s), ChunksOpen(s), NEW which \in Outputs, NEW data \in Chunks,
           NEW n, NEW bounded, NEW full \in BOOLEAN,
           bounded = AppendBounded(s.out[which], data, MaxOutputBytes),
           full <=> Len(s.chunks) >= MaxStreamChunks,
           n = [sent |-> Append(s.sent, <<which, data>>),
                out |-> [s.out EXCEPT ![which] = bounded.value],
                chunks |-> IF full \/ bounded.truncated THEN s.chunks
                           ELSE Append(s.chunks, <<which, data>>),
                truncated |-> s.truncated \/ bounded.truncated \/ full]
    PROVE  TextsOk(n) /\ ChunksOpen(n)
<1>1. PICK sent, out, chunks, value, x :
         sent = s.sent /\ out = s.out /\ chunks = s.chunks /\ value = bounded.value /\ x = <<which, data>>
  OBVIOUS
<1>2. PICK was \in BOOLEAN : was = s.truncated
  BY DEF TextsOk, StreamState
<1>3. /\ sent \in Seq(Sends) /\ out \in [Outputs -> Seq(Nat)] /\ chunks \in Seq(Items)
      /\ data \in Seq(Nat) /\ x \in Sends /\ x \in Items
  BY <1>1, CommandsAssumption DEF TextsOk, StreamState, Sends, Items
<1>4. PICK cut \in BOOLEAN : cut <=> bounded.truncated
  <2>1. CASE bounded.truncated
    BY <2>1
  <2>2. CASE ~bounded.truncated
    BY <2>2
  <2>3. QED BY <2>1, <2>2
<1>5. value \in Seq(Nat) /\ Bytes(value) <= MaxOutputBytes /\ (~cut => value = out[which] \o data)
  <2>1. PICK current, max : current = out[which] /\ max = MaxOutputBytes
    OBVIOUS
  <2>2. current \in Seq(Nat) /\ max \in Nat /\ Bytes(current) <= max
    BY <1>1, <1>3, <2>1, CommandsAssumption DEF TextsOk
  <2>3. bounded = AppendBounded(current, data, max)
    BY <1>1, <2>1
  <2>4. data \in Seq(Nat)
    BY <1>3
  <2>5. /\ bounded.value \in Seq(Nat) /\ Bytes(bounded.value) <= max
        /\ ~bounded.truncated => bounded.value = current \o data
    BY ONLY <2>2, <2>3, <2>4, BoundedAppend
  <2>6. QED BY <1>1, <1>4, <2>1, <2>5
<1>6. /\ n.sent = Append(sent, x) /\ n.out = [out EXCEPT ![which] = value]
      /\ n.truncated = (was \/ cut \/ full)
      /\ n.chunks = IF full \/ cut THEN chunks ELSE Append(chunks, x)
  BY <1>1, <1>2, <1>4
<1>7. Append(sent, x) \in Seq(Sends) /\ Append(chunks, x) \in Seq(Items)
      /\ Len(Append(chunks, x)) = Len(chunks) + 1 /\ Len(chunks) \in Nat
  BY <1>3, AppendProperties
<1>8. n \in StreamState
  <2>1. [out EXCEPT ![which] = value] \in [Outputs -> Seq(Nat)]
    BY <1>3, <1>5
  <2>2. (was \/ cut \/ full) \in BOOLEAN
    OBVIOUS
  <2>3. (IF full \/ cut THEN chunks ELSE Append(chunks, x)) \in Seq(Items)
    BY <1>3, <1>7
  <2>4. n = [sent |-> Append(sent, x), out |-> [out EXCEPT ![which] = value],
             chunks |-> IF full \/ cut THEN chunks ELSE Append(chunks, x),
             truncated |-> was \/ cut \/ full]
    BY <1>1, <1>2, <1>4
  <2>5. PICK a, o, k, t : /\ a = Append(sent, x) /\ o = [out EXCEPT ![which] = value]
                          /\ k = (IF full \/ cut THEN chunks ELSE Append(chunks, x))
                          /\ t = (was \/ cut \/ full)
    OBVIOUS
  <2>6. n = [sent |-> a, out |-> o, chunks |-> k, truncated |-> t]
    BY <2>4, <2>5
  <2>7. a \in Seq(Sends) /\ o \in [Outputs -> Seq(Nat)] /\ k \in Seq(Items) /\ t \in BOOLEAN
    BY <1>7, <2>1, <2>2, <2>3, <2>5
  <2>8. QED BY ONLY <2>6, <2>7 DEF StreamState
<1>9. ASSUME NEW w \in Outputs
      PROVE  /\ Bytes(n.out[w]) <= MaxOutputBytes
             /\ ~n.truncated => n.out[w] = Written(n.sent, w)
  <2>1. Bytes(out[w]) <= MaxOutputBytes /\ (~was => out[w] = Written(sent, w))
    BY <1>1, <1>2 DEF TextsOk
  <2>2. Written(Append(sent, x), w) = Then(Written(sent, w), x, w)
    BY <1>3, WrittenMore
  <2>3. x[1] = which /\ x[2] = data
    BY <1>1
  <2>4. CASE w = which
    <3>1. n.out[w] = value
      BY <1>3, <1>6, <2>4
    <3>2. ASSUME ~n.truncated PROVE value = Written(n.sent, w)
      BY <1>5, <1>6, <2>1, <2>2, <2>3, <2>4, <3>2 DEF Then
    <3>3. QED BY <1>5, <3>1, <3>2
  <2>5. CASE w # which
    <3>1. n.out[w] = out[w]
      BY <1>3, <1>6, <2>5
    <3>2. ASSUME ~n.truncated PROVE out[w] = Written(n.sent, w)
      BY <1>6, <2>1, <2>2, <2>3, <2>5, <3>2 DEF Then
    <3>3. QED BY <2>1, <3>1, <3>2
  <2>6. QED BY <2>4, <2>5
<1>10. ChunksOpen(n)
  <2>1. Len(chunks) <= MaxStreamChunks /\ (~was => chunks = sent) /\ (full <=> Len(chunks) >= MaxStreamChunks)
    BY <1>1, <1>2 DEF ChunksOpen
  <2>2. Len(n.chunks) <= MaxStreamChunks
    <3>1. CASE full \/ cut
      BY <1>6, <2>1, <3>1
    <3>2. CASE ~(full \/ cut)
      <4>1. PICK l : l = Len(chunks)
        OBVIOUS
      <4>2. l \in Nat /\ ~(l >= MaxStreamChunks)
        BY <1>7, <2>1, <3>2, <4>1
      <4>3. Len(n.chunks) = l + 1
        BY <1>6, <1>7, <3>2, <4>1
      <4>4. QED BY <4>2, <4>3, CommandsAssumption
    <3>3. QED BY <3>1, <3>2
  <2>3. ~n.truncated => n.chunks = n.sent
    BY <1>6, <2>1
  <2>4. QED BY <2>2, <2>3 DEF ChunksOpen
<1>11. QED BY <1>8, <1>9, <1>10 DEF TextsOk

\* The end of the command adds its marks to the chunks.
LEMMA StreamEndFits ==
    ASSUME NEW s, TextsOk(s), ChunksOpen(s), NEW n, NEW marks \in Seq(Items), Len(marks) <= 2,
           n = [s EXCEPT !.chunks = s.chunks \o marks]
    PROVE  TextsOk(n) /\ ChunksEnded(n)
<1>1. PICK chunks, sent : chunks = s.chunks /\ sent = s.sent
  OBVIOUS
<1>2. PICK was \in BOOLEAN : was = s.truncated
  BY DEF TextsOk, StreamState
<1>3. chunks \in Seq(Items) /\ sent \in Seq(Sends)
  BY <1>1 DEF TextsOk, StreamState
<1>4. /\ chunks \o marks \in Seq(Items) /\ Len(chunks \o marks) = Len(chunks) + Len(marks)
      /\ Len(chunks) \in Nat /\ Len(marks) \in Nat
      /\ \A i \in 1..Len(chunks) : (chunks \o marks)[i] = chunks[i]
  BY <1>3, ConcatProperties
<1>5. n \in StreamState /\ n.chunks = chunks \o marks /\ n.sent = sent /\ n.out = s.out /\ n.truncated = s.truncated
  BY <1>1, <1>4 DEF TextsOk, StreamState
<1>6. TextsOk(n)
  BY <1>1, <1>5 DEF TextsOk
<1>7. Len(chunks) <= MaxStreamChunks /\ (~was => chunks = sent)
  BY <1>1, <1>2 DEF ChunksOpen
<1>8. Len(n.chunks) <= MaxStreamChunks + 2
  BY <1>4, <1>5, <1>7, CommandsAssumption
<1>9. ASSUME ~n.truncated
      PROVE  Len(n.sent) <= Len(n.chunks) /\ \A i \in DOMAIN n.sent : n.chunks[i] = n.sent[i]
  <2>1. chunks = sent
    BY <1>2, <1>5, <1>7, <1>9
  <2>2. DOMAIN sent = 1..Len(sent)
    BY <1>3
  <2>3. Len(sent) <= Len(chunks \o marks)
    BY <1>4, <2>1
  <2>4. \A i \in DOMAIN sent : (chunks \o marks)[i] = sent[i]
    BY <1>4, <2>1, <2>2
  <2>5. QED BY <1>5, <2>3, <2>4
<1>10. QED BY <1>6, <1>8, <1>9 DEF ChunksEnded

-----------------------------------------------------------------------------
(* Every step keeps the invariant of the commands. *)

\* A call that is done stays done, and starts no process.
LEMMA StreamsStill ==
    ASSUME StreamsOk, UNCHANGED stream,
           \A c \in Calls : call[c].pc = "done" => call'[c].pc = "done" /\ (NoneWrites(c) => NoneWrites(c)')
    PROVE  StreamsOk'
<1>1. SUFFICES ASSUME NEW c \in Calls PROVE StreamOk(c)'
  BY DEF StreamsOk
<1>2. stream'[c] = stream[c] /\ StreamOk(c)
  BY DEF StreamsOk
<1>3. TextsOk(stream'[c])
  BY <1>2 DEF StreamOk
<1>4. \/ ChunksOpen(stream'[c])
      \/ ChunksEnded(stream'[c]) /\ call'[c].pc = "done" /\ NoneWrites(c)'
  BY <1>2 DEF StreamOk
<1>5. QED BY <1>3, <1>4 DEF StreamOk, TextsOk, ChunksOpen, ChunksEnded

\* A call's step that starts no process.
LEMMA QuietProcs ==
    ASSUME HostInv, ProcsOk, PresentWasSeen, NEW c \in Calls, NEW n, Step(c, n), UNCHANGED procs,
           n.pc = "os" => call[c].pc = "idle",
           n.res = "ok" => n.req.op # "package"
    PROVE  ProcsOk' /\ PresentWasSeen'
<1>1. call'[c] = n /\ \A d \in Calls \ {c} : call'[d] = call[d]
  BY CallsAfter DEF Step
<1>2. ASSUME NEW p \in procs, p.cmd = "stream" PROVE call'[p.by].pc \notin {"idle", "os"}
  <2>1. p.by \in Calls /\ call[p.by].pc \notin {"idle", "os"}
    BY <1>2 DEF ProcsOk, Process
  <2>2. CASE p.by = c
    BY <1>1, <2>1, <2>2 DEF Step, Follows
  <2>3. CASE p.by # c
    BY <1>1, <2>1, <2>3
  <2>4. QED BY <2>2, <2>3
<1>3. ProcsOk'
  BY <1>2 DEF ProcsOk
<1>4. ASSUME NEW d \in Calls, call'[d].req.op = "package", call'[d].req.state = "present", call'[d].res = "ok"
      PROVE  SeenBy(d)
  <2>1. d # c
    BY <1>1, <1>4
  <2>2. QED BY <1>1, <1>4, <2>1 DEF PresentWasSeen, SeenBy
<1>5. PresentWasSeen'
  BY <1>4 DEF PresentWasSeen, SeenBy
<1>6. QED BY <1>3, <1>5

\* A command's step.
LEMMA MoveProcs ==
    ASSUME HostInv, ProcsOk, PresentWasSeen, NEW c \in Calls, NEW n, CommandMoves(c, n)
    PROVE  /\ ProcsOk' /\ PresentWasSeen'
           /\ \A d \in Calls : call[d].pc = "done" => call'[d].pc = "done" /\ (NoneWrites(d) => NoneWrites(d)')
<1>1. call'[c] = n /\ (\A d \in Calls \ {c} : call'[d] = call[d]) /\ n.pc \in {"wait", "done"}
  BY CallsAfter DEF Step, CommandMoves
<1> DEFINE Started(S) ==
             /\ procs' = procs \cup S /\ S \subseteq Process
             /\ \A p, q \in S : p = q
             /\ \A p \in S : p.by = c /\ (p.cmd = "stream" => call[c].pc = "os")
<1>2. PICK started : Started(started)
  <2>1. CASE procs' = procs
    <3>1. Started({})
      BY <2>1
    <3> HIDE DEF Started
    <3>2. QED BY <3>1
  <2>2. CASE \E cmd \in Words :
               /\ procs' = procs \cup {[by |-> c, cmd |-> cmd, st |-> "running", code |-> 0]}
               /\ cmd = "stream" => call[c].pc = "os"
    <3>1. PICK cmd \in Words :
               /\ procs' = procs \cup {[by |-> c, cmd |-> cmd, st |-> "running", code |-> 0]}
               /\ cmd = "stream" => call[c].pc = "os"
      BY <2>2
    <3>2. PICK new : new = [by |-> c, cmd |-> cmd, st |-> "running", code |-> 0]
      OBVIOUS
    <3>3. new \in Process /\ new.by = c /\ new.cmd = cmd
      BY <3>2 DEF Process
    <3>4. Started({new})
      BY <3>1, <3>2, <3>3
    <3> HIDE DEF Started
    <3>5. QED BY <3>4
  <2>3. QED BY <2>1, <2>2 DEF CommandMoves
<1>3. procs' \subseteq Process
  BY <1>2 DEF ProcsOk
<1>4. ASSUME NEW p \in procs', NEW q \in procs', p.cmd = "stream", q.cmd = "stream", p.by = q.by
      PROVE  p = q
  <2>1. CASE p \in procs /\ q \in procs
    BY <1>4, <2>1 DEF ProcsOk
  <2>2. CASE p \in started /\ q \in started
    BY <1>2, <2>2
  <2>3. ~(p \in procs /\ q \in started) /\ ~(p \in started /\ q \in procs)
    BY <1>2, <1>4 DEF ProcsOk
  <2>4. QED BY <1>2, <2>1, <2>2, <2>3
<1>5. ASSUME NEW p \in procs', p.cmd = "stream" PROVE call'[p.by].pc \notin {"idle", "os"}
  BY <1>1, <1>2, <1>3, <1>5 DEF ProcsOk, Process
<1>6. ProcsOk'
  BY <1>3, <1>4, <1>5 DEF ProcsOk
<1>7. ASSUME NEW d \in Calls, call'[d].req.op = "package", call'[d].req.state = "present", call'[d].res = "ok"
      PROVE  SeenBy(d)
  <2>1. CASE d = c
    BY <1>1, <1>7, <2>1 DEF CommandMoves
  <2>2. CASE d # c
    BY <1>1, <1>7, <2>2 DEF PresentWasSeen, SeenBy
  <2>3. QED BY <2>1, <2>2
<1>8. PresentWasSeen'
  BY <1>2, <1>7 DEF PresentWasSeen, SeenBy
<1>9. ASSUME NEW d \in Calls, call[d].pc = "done"
      PROVE  call'[d].pc = "done" /\ (NoneWrites(d) => NoneWrites(d)')
  <2>1. d # c
    BY <1>9 DEF CommandMoves, Step, Follows
  <2>2. QED BY <1>1, <1>2, <1>9, <2>1 DEF NoneWrites
<1>10. QED BY <1>6, <1>8, <1>9

\* The remote process p ends with this code.
LEMMA EndProcs ==
    ASSUME ProcsOk, PresentWasSeen, StreamsOk, NEW p \in procs, p.st = "running", NEW code \in Nat,
           procs' = (procs \ {p}) \cup {[p EXCEPT !.st = "ended", !.code = code]},
           UNCHANGED <<call, stream>>
    PROVE  ProcsOk' /\ PresentWasSeen' /\ StreamsOk'
<1>1. PICK new : new = [p EXCEPT !.st = "ended", !.code = code]
  OBVIOUS
<1>2. new \in Process /\ new.by = p.by /\ new.cmd = p.cmd /\ new.st = "ended"
  BY <1>1 DEF ProcsOk, Process
<1>3. procs' = (procs \ {p}) \cup {new}
  BY <1>1
<1>4. ProcsOk'
  BY <1>2, <1>3 DEF ProcsOk
<1>5. PresentWasSeen'
  <2>1. ASSUME NEW q \in procs, q.st = "ended" PROVE q \in procs'
    BY <1>3, <2>1
  <2>2. QED BY <2>1 DEF PresentWasSeen
<1>6. StreamsOk'
  <2>1. \A c \in Calls : NoneWrites(c) => NoneWrites(c)'
    BY <1>2, <1>3 DEF NoneWrites
  <2>2. QED BY <2>1, StreamsStill
<1>7. QED BY <1>4, <1>5, <1>6

\* A call's step that starts no process and writes no chunk keeps the invariant.
LEMMA QuietKeeps ==
    ASSUME CommandsInv, NEW c \in Calls, NEW n, Step(c, n), UNCHANGED cmdVars,
           n.pc = "os" => call[c].pc = "idle",
           n.res = "ok" => n.req.op # "package"
    PROVE  CommandsInv'
<1>1. UNCHANGED <<procs, stream, installed, service>>
  BY DEF cmdVars
<1>2. HostInv'
  BY StepKeepsHost DEF CommandsInv
<1>3. ProcsOk' /\ PresentWasSeen'
  BY <1>1, QuietProcs DEF CommandsInv
<1>4. \A d \in Calls : call[d].pc = "done" => call'[d].pc = "done" /\ (NoneWrites(d) => NoneWrites(d)')
  <2>1. SUFFICES ASSUME NEW d \in Calls, call[d].pc = "done"
                 PROVE  call'[d].pc = "done" /\ (NoneWrites(d) => NoneWrites(d)')
    OBVIOUS
  <2>2. call'[d] = call[d]
    BY <2>1, CallsAfter DEF CommandsInv, Step, Follows
  <2>3. QED BY <1>1, <2>1, <2>2 DEF NoneWrites
<1>5. StreamsOk'
  BY <1>1, <1>4, StreamsStill DEF CommandsInv
<1>6. (installed \in BOOLEAN /\ service \in {"started", "stopped"})'
  BY <1>1 DEF CommandsInv
<1>7. QED BY <1>2, <1>3, <1>5, <1>6 DEF CommandsInv

\* What leaves the calls and their processes alone.
LEMMA StillKeeps ==
    ASSUME CommandsInv, HostInv', UNCHANGED <<call, procs, stream, service>>, installed' \in BOOLEAN
    PROVE  CommandsInv'
<1>1. ProcsOk' /\ PresentWasSeen'
  BY DEF CommandsInv, ProcsOk, PresentWasSeen
<1>2. StreamsOk'
  <2>1. \A c \in Calls : NoneWrites(c) => NoneWrites(c)'
    BY DEF NoneWrites
  <2>2. QED BY <2>1, StreamsStill DEF CommandsInv
<1>3. QED BY <1>1, <1>2 DEF CommandsInv

LEMMA FilesPartKeeps ==
    ASSUME CommandsInv, FilesPart
    PROVE  CommandsInv'
<1>1. HostInv /\ UNCHANGED cmdVars
  BY DEF CommandsInv, FilesPart
<1>2. CASE \E c \in Calls, r \in FileRequests : StartCall(c, r)
  <2>1. PICK c \in Calls, r \in FileRequests : StartCall(c, r)
    BY <1>2
  <2>2. PICK n : Step(c, n) /\ n.res # "ok"
    BY <1>1, <2>1, StartCallSteps
  <2>3. call[c].pc = "idle"
    BY <2>1 DEF StartCall
  <2>4. QED BY <1>1, <2>2, <2>3, QuietKeeps
<1>3. CASE \E c \in Calls : FileStep(c)
  <2>1. PICK c \in Calls : FileStep(c)
    BY <1>3
  <2>2. call[c].pc \notin {"idle", "done"} /\ call[c].req.op \notin CommandOps
    BY <1>1, <2>1, FileStepIsOfAFileCall
  <2>3. PICK n : Step(c, n)
    BY <1>1, <2>1, FileSteps
  <2>4. n.req = call[c].req /\ CallOk(n)
    BY <2>2, <2>3 DEF Step, Follows
  <2>5. n.pc # "os" /\ n.req.op # "package"
    BY <2>2, <2>4 DEF CallOk, OpAt, CommandOps
  <2>6. QED BY <1>1, <2>3, <2>5, QuietKeeps
<1>4. CASE \E f \in Files, content \in Edits : OtherUserEdits(f, content)
  <2>1. PICK f \in Files, content \in Edits : OtherUserEdits(f, content)
    BY <1>4
  <2>2. HostInv'
    BY <1>1, <2>1, EditKeepsHost
  <2>3. UNCHANGED <<call, procs, stream, service, installed>>
    BY <1>1, <2>1 DEF OtherUserEdits, cmdVars
  <2>4. QED BY <2>2, <2>3, StillKeeps DEF CommandsInv
<1>5. CASE SessionEnds
  <2>1. UNCHANGED <<remote, local, call, sftp, procs, stream, service, installed>>
    BY <1>1, <1>5 DEF SessionEnds, cmdVars
  <2>2. HostInv'
    BY <1>1, <2>1, StillHost
  <2>3. QED BY <2>1, <2>2, StillKeeps DEF CommandsInv
<1>6. QED BY <1>2, <1>3, <1>4, <1>5 DEF FilesPart

LEMMA StartCommandKeeps ==
    ASSUME CommandsInv, NEW c \in Calls, NEW r \in Requests \ FileRequests, StartCommand(c, r)
    PROVE  CommandsInv'
<1>1. HostInv /\ UNCHANGED cmdVars /\ call[c].pc = "idle"
  BY DEF CommandsInv, StartCommand
<1>2. PICK n : Step(c, n) /\ n.res # "ok"
  BY <1>1, StartCommandSteps
<1>3. QED BY <1>1, <1>2, QuietKeeps

\* The answer of a streaming command ends its chunks.
LEMMA StreamAnswered ==
    ASSUME CommandsInv, NEW c \in Calls, CommandAnswers(c), call[c].req.op = "stream", ProcsOk',
           \A d \in Calls : call[d].pc = "done" => call'[d].pc = "done" /\ (NoneWrites(d) => NoneWrites(d)')
    PROVE  StreamsOk'
<1>1. call[c].pc = "wait" /\ stream' = [stream EXCEPT ![c].chunks = StreamEnds(c)]
  BY DEF CommandAnswers
<1>2. call[c].err = "stream"
  BY <1>1 DEF CommandsInv, HostInv, CallOk, CommandAt
<1>3. PICK p \in procs : /\ p.by = c /\ p.st = "ended" /\ p.cmd = "stream"
                         /\ Answer(c, IF p.code = 0 THEN "ok" ELSE "error") /\ UNCHANGED procs
  BY <1>2 DEF CommandAnswers
<1>4. NoneWrites(c)'
  BY <1>3 DEF NoneWrites, CommandsInv, ProcsOk
<1>5. call'[c].pc = "done"
  BY <1>3 DEF Answer, Continue, CommandsInv, HostInv, CallState
<1>6. PICK s, marks, n :
         /\ s = stream[c] /\ n = stream'[c]
         /\ marks = IF stream[c].truncated THEN <<"truncated", "exit">> ELSE <<"exit">>
  OBVIOUS
<1>7. marks \in Seq(Items) /\ Len(marks) <= 2
  <2>1. "truncated" \in Items /\ "exit" \in Items
    BY DEF Items
  <2>2. CASE marks = <<"truncated", "exit">>
    BY <2>1, <2>2
  <2>3. CASE marks = <<"exit">>
    BY <2>1, <2>3
  <2>4. QED BY <1>6, <2>2, <2>3
<1>8. stream' \in [Calls -> StreamState] /\ n = [s EXCEPT !.chunks = s.chunks \o marks]
      /\ \A d \in Calls \ {c} : stream'[d] = stream[d]
  <2>1. StreamEnds(c) = s.chunks \o marks
    BY <1>6 DEF StreamEnds
  <2>2. n = [s EXCEPT !.chunks = s.chunks \o marks] /\ \A d \in Calls \ {c} : stream'[d] = stream[d]
    BY <1>1, <1>6, <2>1 DEF CommandsInv, StreamsOk
  <2>3. s \in StreamState
    BY <1>6 DEF CommandsInv, StreamsOk
  <2>4. s.chunks \o marks \in Seq(Items)
    BY <1>7, <2>3, ConcatProperties DEF StreamState
  <2>5. n \in StreamState
    BY <2>2, <2>3, <2>4 DEF StreamState
  <2>6. QED BY <1>1, <1>6, <2>2, <2>5 DEF CommandsInv, StreamsOk
<1>9. TextsOk(s) /\ ChunksOpen(s)
  BY <1>1, <1>6 DEF CommandsInv, StreamsOk, StreamOk
<1>10. TextsOk(n) /\ ChunksEnded(n)
  BY <1>7, <1>8, <1>9, StreamEndFits
<1>11. ASSUME NEW d \in Calls PROVE StreamOk(d)'
  <2>1. CASE d = c
    BY <1>4, <1>5, <1>6, <1>10, <2>1 DEF StreamOk, TextsOk, ChunksEnded
  <2>2. CASE d # c
    <3>1. stream'[d] = stream[d]
      BY <1>8, <2>2
    <3>2. TextsOk(stream'[d])
      BY <3>1 DEF CommandsInv, StreamsOk, StreamOk
    <3>3. \/ ChunksOpen(stream'[d])
          \/ ChunksEnded(stream'[d]) /\ call'[d].pc = "done" /\ NoneWrites(d)'
      BY <3>1 DEF CommandsInv, StreamsOk, StreamOk
    <3>4. QED BY <3>2, <3>3 DEF StreamOk, TextsOk, ChunksOpen, ChunksEnded
  <2>3. QED BY <2>1, <2>2
<1>12. QED BY <1>8, <1>11 DEF StreamsOk

LEMMA CommandStepKeeps ==
    ASSUME CommandsInv, NEW c \in Calls, CommandStep(c)
    PROVE  CommandsInv'
<1>1. HostInv /\ ProcsOk /\ PresentWasSeen /\ StreamsOk
  BY DEF CommandsInv
<1>2. PICK n : CommandMoves(c, n)
  BY <1>1, DetectAndLaunchMoves, CommandAnswersMoves, CommandGivenUpMoves DEF CommandStep
<1>3. HostInv'
  BY <1>1, <1>2, StepKeepsHost DEF CommandMoves
<1>4. /\ ProcsOk' /\ PresentWasSeen'
      /\ \A d \in Calls : call[d].pc = "done" => call'[d].pc = "done" /\ (NoneWrites(d) => NoneWrites(d)')
  BY <1>1, <1>2, MoveProcs
<1>5. UNCHANGED <<installed, service>>
  BY DEF CommandStep, DetectAndLaunch, CommandAnswers, CommandGivenUp
<1>6. StreamsOk'
  <2>1. CASE UNCHANGED stream
    BY <1>1, <1>4, <2>1, StreamsStill
  <2>2. CASE CommandAnswers(c) /\ call[c].req.op = "stream"
    BY <1>4, <2>2, StreamAnswered
  <2>3. QED BY <2>1, <2>2 DEF CommandStep, DetectAndLaunch, CommandAnswers, CommandGivenUp
<1>7. (installed \in BOOLEAN /\ service \in {"started", "stopped"})'
  BY <1>5 DEF CommandsInv
<1>8. QED BY <1>3, <1>4, <1>6, <1>7 DEF CommandsInv

LEMMA OtherUserKeeps ==
    ASSUME CommandsInv, OtherUserInstalls
    PROVE  CommandsInv'
<1>1. UNCHANGED <<remote, local, call, sftp, procs, stream, service>> /\ installed' \in BOOLEAN
  BY DEF OtherUserInstalls
<1>2. HostInv'
  BY <1>1, StillHost DEF CommandsInv
<1>3. QED BY <1>1, <1>2, StillKeeps

\* A process that ends by itself, or is ended by its timeout.
LEMMA ProcessEndKeeps ==
    ASSUME CommandsInv, NEW p \in procs,
           (\E code \in {0, 1} : ProcessEnds(p, code)) \/ TimeoutKills(p)
    PROVE  CommandsInv'
<1>1. p.st = "running" /\ UNCHANGED <<remote, local, call, sftp, stream>>
  BY DEF ProcessEnds, TimeoutKills, fileVars
<1>2. PICK code \in Nat : procs' = (procs \ {p}) \cup {[p EXCEPT !.st = "ended", !.code = code]}
  <2>1. CASE \E code \in {0, 1} : ProcessEnds(p, code)
    <3>1. PICK code \in {0, 1} : ProcessEnds(p, code)
      BY <2>1
    <3>2. code \in Nat
      OBVIOUS
    <3>3. QED BY <3>1, <3>2 DEF ProcessEnds
  <2>2. CASE TimeoutKills(p)
    BY <2>2, 124 \in Nat DEF TimeoutKills
  <2>3. QED BY <2>1, <2>2
<1>3. ProcsOk' /\ PresentWasSeen' /\ StreamsOk'
  BY <1>1, <1>2, EndProcs DEF CommandsInv
<1>4. HostInv'
  BY <1>1, StillHost DEF CommandsInv
<1>5. installed' \in BOOLEAN
  <2>1. PICK b \in BOOLEAN : b = (p.cmd = "install")
    OBVIOUS
  <2>2. installed' = b \/ installed' = installed
    BY <2>1 DEF ProcessEnds, TimeoutKills
  <2>3. QED BY <2>2 DEF CommandsInv
<1>6. service' \in {"started", "stopped"}
  BY DEF ProcessEnds, TimeoutKills, CommandsInv
<1>7. QED BY <1>3, <1>4, <1>5, <1>6 DEF CommandsInv

LEMMA OnChunkKeeps ==
    ASSUME CommandsInv, NEW c \in Calls, NEW which \in {"stdout", "stderr"}, NEW data \in Chunks,
           OnChunk(c, which, data)
    PROVE  CommandsInv'
<1>1. UNCHANGED <<remote, local, call, sftp, procs, installed, service>>
  BY DEF OnChunk, fileVars
<1>2. PICK s, bounded : s = stream[c] /\ bounded = AppendBounded(s.out[which], data, MaxOutputBytes)
  OBVIOUS
<1>3. PICK full \in BOOLEAN : full <=> Len(s.chunks) >= MaxStreamChunks
  <2>1. CASE Len(s.chunks) >= MaxStreamChunks
    BY <2>1
  <2>2. CASE ~(Len(s.chunks) >= MaxStreamChunks)
    BY <2>2
  <2>3. QED BY <2>1, <2>2
<1>4. PICK n : n = [sent |-> Append(s.sent, <<which, data>>),
                    out |-> [s.out EXCEPT ![which] = bounded.value],
                    chunks |-> IF full \/ bounded.truncated THEN s.chunks
                               ELSE Append(s.chunks, <<which, data>>),
                    truncated |-> s.truncated \/ bounded.truncated \/ full]
  OBVIOUS
<1>5. stream' = [stream EXCEPT ![c] = n]
  BY <1>2, <1>3, <1>4 DEF OnChunk
<1>6. TextsOk(s) /\ ChunksOpen(s)
  <2>1. ~NoneWrites(c)
    BY DEF OnChunk, NoneWrites
  <2>2. QED BY <1>2, <2>1 DEF CommandsInv, StreamsOk, StreamOk
<1>7. TextsOk(n) /\ ChunksOpen(n)
  <2>1. which \in Outputs
    BY DEF Outputs
  <2>2. QED BY <1>2, <1>3, <1>4, <1>6, <2>1, ChunkFits
<1>8. stream' \in [Calls -> StreamState] /\ stream'[c] = n /\ \A d \in Calls \ {c} : stream'[d] = stream[d]
  BY <1>5, <1>7 DEF CommandsInv, StreamsOk, TextsOk
<1>9. ASSUME NEW d \in Calls PROVE StreamOk(d)'
  <2>1. CASE d = c
    BY <1>7, <1>8, <2>1 DEF StreamOk, TextsOk, ChunksOpen
  <2>2. CASE d # c
    <3>1. stream'[d] = stream[d]
      BY <1>8, <2>2
    <3>2. TextsOk(stream'[d])
      BY <3>1 DEF CommandsInv, StreamsOk, StreamOk
    <3>3. \/ ChunksOpen(stream'[d])
          \/ ChunksEnded(stream'[d]) /\ call'[d].pc = "done" /\ NoneWrites(d)'
      BY <1>1, <3>1 DEF CommandsInv, StreamsOk, StreamOk, NoneWrites
    <3>4. QED BY <3>2, <3>3 DEF StreamOk, TextsOk, ChunksOpen, ChunksEnded
  <2>3. QED BY <2>1, <2>2
<1>10. StreamsOk'
  BY <1>8, <1>9 DEF StreamsOk
<1>11. HostInv'
  BY <1>1, StillHost DEF CommandsInv
<1>12. ProcsOk' /\ PresentWasSeen'
  BY <1>1 DEF CommandsInv, ProcsOk, PresentWasSeen
<1>13. QED BY <1>1, <1>10, <1>11, <1>12 DEF CommandsInv

LEMMA CommandsStart ==
    ASSUME CommandsInit
    PROVE  CommandsInv
<1>1. HostInv
  BY HostStarts DEF CommandsInit
<1>2. procs = {} /\ installed = FALSE /\ service = "stopped"
  BY DEF CommandsInit
<1>3. ProcsOk
  BY <1>2 DEF ProcsOk
<1>4. PresentWasSeen
  <2>1. \A c \in Calls : call[c].res = "none"
    BY DEF CommandsInit, FilesInit, Idle
  <2>2. QED BY <2>1 DEF PresentWasSeen
<1>5. StreamsOk
  <2>1. PICK none : none = <<>>
    OBVIOUS
  <2>2. none \in Seq(Nat) /\ none \in Seq(Sends) /\ none \in Seq(Items) /\ Len(none) = 0
    BY <2>1
  <2>3. NoStream = [sent |-> none, out |-> [w \in Outputs |-> none], chunks |-> none, truncated |-> FALSE]
    BY <2>1 DEF NoStream, Outputs
  <2>4. NoStream \in StreamState
    BY <2>2, <2>3 DEF StreamState
  <2>5. \A w \in Outputs : NoStream.out[w] = none
    BY <2>3
  <2>6. NoStream.sent = none /\ NoStream.chunks = none
    BY <2>3
  <2>7. Bytes(none) = 0 /\ \A w : Written(none, w) = none
    BY <2>1, BytesOfNothing, WrittenOfNothing
  <2>8. TextsOk(NoStream)
    BY <2>4, <2>5, <2>6, <2>7, CommandsAssumption DEF TextsOk
  <2>9. ChunksOpen(NoStream)
    BY <2>2, <2>6, CommandsAssumption DEF ChunksOpen
  <2>10. stream = [c \in Calls |-> NoStream]
    BY DEF CommandsInit
  <2>11. stream \in [Calls -> StreamState] /\ \A c \in Calls : stream[c] = NoStream
    BY <2>4, <2>10
  <2>12. QED BY <2>8, <2>9, <2>11 DEF StreamsOk, StreamOk
<1>6. QED BY <1>1, <1>2, <1>3, <1>4, <1>5 DEF CommandsInv

LEMMA CommandsNextKeeps ==
    ASSUME CommandsInv, [CommandsNext]_vars
    PROVE  CommandsInv'
<1>1. CASE FilesPart
  BY <1>1, FilesPartKeeps
<1>2. CASE \E c \in Calls, r \in Requests \ FileRequests : StartCommand(c, r)
  BY <1>2, StartCommandKeeps
<1>3. CASE \E c \in Calls : CommandStep(c)
  BY <1>3, CommandStepKeeps
<1>4. CASE OtherUserInstalls
  BY <1>4, OtherUserKeeps
<1>5. CASE \E p \in procs, code \in {0, 1} : ProcessEnds(p, code)
  BY <1>5, ProcessEndKeeps
<1>6. CASE \E p \in procs : TimeoutKills(p)
  BY <1>6, ProcessEndKeeps
<1>7. CASE \E c \in Calls, which \in {"stdout", "stderr"}, data \in Chunks : OnChunk(c, which, data)
  BY <1>7, OnChunkKeeps
<1>8. CASE UNCHANGED vars
  <2>1. UNCHANGED <<remote, local, call, sftp, procs, stream, service, installed>>
    BY <1>8 DEF vars, fileVars, cmdVars
  <2>2. HostInv'
    BY <2>1, StillHost DEF CommandsInv
  <2>3. QED BY <2>1, <2>2, StillKeeps DEF CommandsInv
<1>9. QED BY <1>1, <1>2, <1>3, <1>4, <1>5, <1>6, <1>7, <1>8 DEF CommandsNext

-----------------------------------------------------------------------------
(* Theorems. *)

\* The invariant holds in every behaviour.
THEOREM CommandsInvariant == CommandsSpec => []CommandsInv
<1>1. CommandsInit => CommandsInv
  BY CommandsStart
<1>2. CommandsInv /\ [CommandsNext]_vars => CommandsInv'
  BY CommandsNextKeeps
<1>3. QED BY <1>1, <1>2, PTL DEF CommandsSpec

\* Directories stay directories and files files, whatever the tools and the other users of
\* the host do, and exactly the finished calls have an answer.
THEOREM CommandsAreTyped == CommandsSpec => []CommandsTypeOK
<1>1. CommandsInv => CommandsTypeOK
  <2>1. SUFFICES ASSUME CommandsInv PROVE CommandsTypeOK
    OBVIOUS
  <2>2. ASSUME NEW p \in DOMAIN remote PROVE remote[p] = Folder <=> p \in Dirs
    BY <2>1, FilesAssumption DEF CommandsInv, HostInv, TreeOk
  <2>3. \A c \in Calls : call[c].pc = "done" <=> call[c].res \in {"ok", "error"}
    BY <2>1 DEF CommandsInv, HostInv, CallOk, CallState, OpAt
  <2>4. \A p \in procs : p.by \in Calls /\ p.st \in {"running", "ended"}
    BY <2>1 DEF CommandsInv, ProcsOk, Process
  <2>5. QED BY <2>1, <2>2, <2>3, <2>4 DEF CommandsTypeOK, FilesTypeOK, CommandsInv
<1>2. QED BY <1>1, CommandsInvariant, PTL

\* With SFTP and without uploads no file a tool is asked for is ever half written: writeFile
\* tears its temporary file at most, and a download its own.
THEOREM TornFilesHaveAWriter == CommandsSpec => []TornHasAWriter
<1>1. CommandsInv => TornHasAWriter
  <2>1. SUFFICES ASSUME CommandsInv, sftp, Calm
                 PROVE  /\ \A f \in Files \cap DOMAIN remote : remote[f] # Torn
                        /\ \A f \in LocalFiles \cap DOMAIN local : local[f] # Torn
    BY DEF TornHasAWriter, Calm
  <2>2. QED BY <2>1, NamesApart DEF CommandsInv, HostInv, NoTears
<1>2. QED BY <1>1, CommandsInvariant, PTL

\* A call answered with success has left no temporary file of its own behind.
THEOREM SuccessLeavesNoTemp == CommandsSpec => []OkLeavesNoTemp
<1>1. CommandsInv => OkLeavesNoTemp
  <2>1. SUFFICES ASSUME CommandsInv, NEW c \in Calls, call[c].res = "ok"
                 PROVE  /\ \A q \in Targets : ~Exists(Temp(c, q))
                        /\ call[c].req.op = "download" /\ call[c].path \in DOMAIN local =>
                              \E o \in Calls \ {c} : call[o].path = call[c].path
    BY DEF OkLeavesNoTemp
  <2>2. call[c].pc = "done"
    BY <2>1 DEF CommandsInv, HostInv, CallOk, OpAt
  <2>3. \A q \in Targets : ~Exists(Temp(c, q))
    BY <2>1, <2>2 DEF CommandsInv, HostInv, TempsOk, TempOk
  <2>4. QED BY <2>1, <2>3 DEF CommandsInv, HostInv, SavedOk
<1>2. QED BY <1>1, CommandsInvariant, PTL

\* A streaming answer that does not say it is truncated holds everything the process wrote;
\* its texts and its chunks stay within their limits whatever the process writes, and when.
THEOREM StreamsAreHonest == CommandsSpec => []StreamIsHonest
<1>1. CommandsInv => StreamIsHonest
  <2>1. SUFFICES ASSUME CommandsInv, NEW c \in Calls, NEW s, s = stream[c]
                 PROVE  /\ \A w \in {"stdout", "stderr"} : Bytes(s.out[w]) <= MaxOutputBytes
                        /\ Len(s.chunks) <= MaxStreamChunks + 2
                        /\ ~s.truncated => /\ \A w \in {"stdout", "stderr"} : s.out[w] = Written(s.sent, w)
                                           /\ Len(s.sent) <= Len(s.chunks)
                                           /\ \A i \in DOMAIN s.sent : s.chunks[i] = s.sent[i]
    BY DEF StreamIsHonest
  <2>2. TextsOk(s) /\ (ChunksOpen(s) \/ ChunksEnded(s))
    BY <2>1 DEF CommandsInv, StreamsOk, StreamOk
  <2>3. CASE ChunksOpen(s)
    <3>1. s.sent \in Seq(Sends) /\ s.chunks \in Seq(Items)
      BY <2>2 DEF TextsOk, StreamState
    <3>2. Len(s.chunks) <= MaxStreamChunks + 2
      <4>1. PICK l : l = Len(s.chunks)
        OBVIOUS
      <4>2. l \in Nat /\ l <= MaxStreamChunks
        BY <2>3, <3>1, <4>1 DEF ChunksOpen
      <4>3. QED BY <4>1, <4>2, CommandsAssumption
    <3>3. ~s.truncated => Len(s.sent) <= Len(s.chunks) /\ \A i \in DOMAIN s.sent : s.chunks[i] = s.sent[i]
      BY <2>3, <3>1 DEF ChunksOpen
    <3>4. QED BY <2>2, <3>2, <3>3 DEF TextsOk, Outputs
  <2>4. CASE ChunksEnded(s)
    BY <2>2, <2>4 DEF TextsOk, ChunksEnded, Outputs
  <2>5. QED BY <2>2, <2>3, <2>4
<1>2. QED BY <1>1, CommandsInvariant, PTL

\* ensure_package's success for a package that should be present was seen by a process of
\* that call, or is its work.
THEOREM PresentPackageWasSeen == CommandsSpec => []PresentWasSeen
<1>1. CommandsInv => PresentWasSeen
  BY DEF CommandsInv
<1>2. QED BY <1>1, CommandsInvariant, PTL

\* Every answer of success is given in a state in which the tool's promise is true.
THEOREM AnswersAreTrue == CommandsSpec => AnswerIsTrue
<1>1. CommandsInv /\ [CommandsNext]_vars =>
        [\A c \in Calls : call[c].res = "none" /\ call'[c].res = "ok" => Promised(c)']_fileVars
  <2>1. SUFFICES ASSUME CommandsInv, [CommandsNext]_vars, NEW c \in Calls,
                        call[c].res = "none", call'[c].res = "ok"
                 PROVE  Promised(c)'
    OBVIOUS
  <2>2. ASSUME NEW d \in Calls, NEW n, Step(d, n) PROVE Promised(c)'
    <3>1. d = c /\ n.res = "ok"
      BY <2>1, <2>2, CallsAfter DEF CommandsInv, Step
    <3>2. QED BY <2>2, <3>1 DEF Step
  <2>3. call' # call
    BY <2>1
  <2>4. \E d \in Calls : \E n : Step(d, n)
    <3>1. CASE FilesPart
      <4>1. ~(\E f \in Files, content \in Edits : OtherUserEdits(f, content)) /\ ~SessionEnds
        BY <2>3 DEF OtherUserEdits, SessionEnds
      <4>2. QED BY <2>1, <3>1, <4>1, StartCallSteps, FileSteps DEF FilesPart, CommandsInv, FileRequests
    <3>2. CASE \E d \in Calls, r \in Requests \ FileRequests : StartCommand(d, r)
      BY <2>1, <3>2, StartCommandSteps DEF CommandsInv
    <3>3. CASE \E d \in Calls : CommandStep(d)
      BY <2>1, <3>3, DetectAndLaunchMoves, CommandAnswersMoves, CommandGivenUpMoves
         DEF CommandStep, CommandMoves, CommandsInv
    <3>4. ~OtherUserInstalls /\ ~(\E p \in procs, code \in {0, 1} : ProcessEnds(p, code))
          /\ ~(\E p \in procs : TimeoutKills(p))
          /\ ~(\E d \in Calls, which \in {"stdout", "stderr"}, data \in Chunks : OnChunk(d, which, data))
      BY <2>3 DEF OtherUserInstalls, ProcessEnds, TimeoutKills, OnChunk, fileVars
    <3>5. ~(UNCHANGED vars)
      BY <2>3 DEF vars, fileVars
    <3>6. QED BY <2>1, <3>1, <3>2, <3>3, <3>4, <3>5 DEF CommandsNext
  <2>5. QED BY <2>2, <2>4
<1>2. QED BY <1>1, CommandsInvariant, PTL DEF CommandsSpec, AnswerIsTrue

=============================================================================
