------------------------------ MODULE SshConfig ------------------------------
(***************************************************************************)
(* The cache of ~/.ssh/config of src/ssh-config.ts.                        *)
(*                                                                         *)
(* A file is a sequence of blocks [patterns, hostName, user]: a Host line  *)
(* and the options under it.  getSSHConfigParser publishes a new parser    *)
(* before it awaits the read, and returns whatever parser is published     *)
(* when the read is over.                                                  *)
(***************************************************************************)
EXTENDS Settings, SequencesExt

CONSTANTS
    Files,         \* contents ~/.ssh/config can have
    Wildcards,     \* pairs of a pattern with * or ? and an alias it matches
    CacheTtl       \* CONFIG_CACHE_TTL_MS

VARIABLES
    file,          \* the file on disk
    globalParser,  \* globalConfigParser: the call that reads it in, or "parsed"
    hosts,         \* its hosts, none until it has parsed; no other parser is looked at
    parsedAt,      \* globalConfigParsedAt
    versions       \* history: <<content, last instant it was on disk>>

configVars == <<file, globalParser, hosts, parsedAt, versions>>

ConfigInit ==
    /\ file \in Files
    /\ globalParser = Unset
    /\ hosts = <<>>
    /\ parsedAt = 0
    /\ versions = {}

-----------------------------------------------------------------------------
\* parseContent: an entry per pattern of each Host line; the options go to the last
\* pattern of the line only.
ParseContent(blocks) ==
    FlattenSeq([b \in 1..Len(blocks) |->
        [i \in 1..Len(blocks[b].patterns) |->
            [pattern |-> blocks[b].patterns[i],
             hostName |-> IF i = Len(blocks[b].patterns) THEN blocks[b].hostName ELSE Unset,
             user |-> IF i = Len(blocks[b].patterns) THEN blocks[b].user ELSE Unset]]])

\* matchPattern.
MatchPattern(pattern, alias) == pattern = "*" \/ pattern = alias \/ <<pattern, alias>> \in Wildcards

\* hosts.get: a pattern named twice keeps its place and takes the later options.
Entry(entries, pattern) == entries[Max({i \in 1..Len(entries) : entries[i].pattern = pattern})]

\* getHostConfig: the alias itself, else the first pattern that matches it.
GetHostConfig(entries, alias) ==
    LET matching == {i \in 1..Len(entries) : MatchPattern(entries[i].pattern, alias)}
    IN CASE \E i \in matching : entries[i].pattern = alias -> Entry(entries, alias)
         [] matching = {} -> Unset
         [] OTHER -> Entry(entries, entries[Min(matching)].pattern)

\* resolveHost.
ResolveHost(entries, alias) ==
    LET config == GetHostConfig(entries, alias)
    IN IF config = Unset THEN [host |-> alias, user |-> Unset]
       ELSE [host |-> IF config.hostName = Unset THEN alias ELSE config.hostName,
             user |-> config.user]

\* getAllHosts.
GetAllHosts(entries) == {entries[i].pattern : i \in 1..Len(entries)} \ {"*"}

-----------------------------------------------------------------------------
\* Mutant: a parser once published is kept.
CacheIsForever(now) == globalParser # Unset

\* getSSHConfigParser: the published parser is used as it is.
CacheIsFresh(now) == globalParser # Unset /\ now - parsedAt <= CacheTtl

\* getSSHConfigParser of call c up to its await: a new parser is published, not parsed
\* yet.  A call reads one parser at a time, so the call stands for it.
PublishParser(c) ==
    /\ globalParser' = c
    /\ hosts' = <<>>
    /\ UNCHANGED <<file, parsedAt, versions>>

\* parse of the parser of c after the read, and the end of its getSSHConfigParser, which
\* began at start.  A file that is missing or cannot be read is one without blocks.
ParserRead(c, start) ==
    /\ IF globalParser = c
       THEN globalParser' = "parsed" /\ hosts' = ParseContent(file)
       ELSE UNCHANGED <<globalParser, hosts>>
    /\ parsedAt' = start
    /\ UNCHANGED <<file, versions>>

\* External: someone edits the file.
EditFile(f, now) ==
    /\ f \in Files /\ f # file
    /\ file' = f
    /\ versions' = {v \in versions : v[1] # file} \cup {<<file, now>>}
    /\ UNCHANGED <<globalParser, hosts, parsedAt>>
=============================================================================
