---------------------------- MODULE WorkspaceTools ----------------------------
(***************************************************************************)
(* One read-only tool call, from the frozen arguments to what the model is *)
(* told (packages/tool-runtime/read-only-workspace-tools.ts, the Node host *)
(* packages/workspace-host/node-workspace-host.ts, and the server's        *)
(* artifact writer and projector in apps/server/src/                       *)
(* turn-command-composition.ts).                                           *)
(*                                                                         *)
(* The host awaits between system calls, and the workspace may change in   *)
(* between: other programs replace, remove and move names and put back     *)
(* what was there, they rewrite files, git writes its output in pieces and *)
(* ends, the signal aborts.  A call that reads is an action.  The calls    *)
(* that only check (realpath and stat in Resolve, validateDirectoryIdentity*)
(* and VerifyFile) are one action where the last of them compares: that    *)
(* the reads stay within the root is not modelled.                         *)
(*                                                                         *)
(* Text is a sequence of units: "x", "q" (what search_text looks for) and  *)
(* "n" (a line end) are one byte each, "lead", "rest" the two bytes of one *)
(* scalar.  Encodings other than UTF-8 count as bytes that do not decode.  *)
(***************************************************************************)
EXTENDS Integers, SequencesExt, FiniteSetsExt

CONSTANTS
    Dirs, Files, Links, \* inodes; the links lead out of the workspace
    Root,               \* the directory the workspace is at
    NameOrder,          \* the names, in the order the host sorts them
    InitialEntries,     \* the directories before the call
    InitialData,        \* the files before the call
    Contents,           \* what other programs write into files
    Outside,            \* what readdir may find where a link leads
    GitOutputs,         \* what git may want to write
    Nothing,            \* no inode, no value
    OutputLimit,        \* outputLimit of the tools, and their DEFAULT_*_BYTES
    StatusLimit,        \* what the host reads of git status
    MaxDepth,           \* MAX_LIST_DEPTH and MAX_SEARCH_DEPTH
    MaxResults,         \* MAX_LIST_ENTRIES and MAX_SEARCH_RESULTS
    MaxCandidates,      \* MAX_SEARCH_FILE_CANDIDATES
    MaxScanBytes,       \* MAX_SEARCH_SCAN_BYTES
    MaxNames,           \* bound: names in the path of an argument
    MaxChanges          \* bound: changes of the workspace during the call

VARIABLES
    fs,         \* the directories, the files, the changes so far, and as
                \* history the directories without a place up to now (fresh)
                \* and those that got another place, or theirs again (moved)
    git,        \* the child process
    aborted,    \* the signal of the Run
    call,       \* the tool call and its locals
    artifact    \* the private artifact it wrote, if any

toolVars == <<fs, git, aborted, call, artifact>>

Inodes == Dirs \cup Files \cup Links
Names == ToSet(NameOrder)
Tools == {"list_files", "read_file", "search_text", "git_status", "git_diff"}
GitTools == {"git_status", "git_diff"}

-----------------------------------------------------------------------------
(* Text *)

Unit == {"x", "q", "n", "lead", "rest"}

ASSUME ToolAssumption ==
    /\ OutputLimit \in Nat /\ StatusLimit \in Nat /\ MaxScanBytes \in Nat
    /\ MaxDepth \in Nat /\ MaxResults \in Nat /\ MaxNames \in Nat
    /\ InitialData \in [Files -> Seq(Unit)]
    /\ Contents \subseteq Seq(Unit) /\ Outside \subseteq Seq(Names)
    /\ GitOutputs \subseteq Seq(Unit)
    /\ Nothing \notin {"utf-8", "clean git status"}

\* The workspace before the call is made of directories, files and links, which
\* differ, and no directory is found under two names.
ASSUME TreeAssumption ==
    /\ Root \in Dirs
    /\ Dirs \cap Links = {} /\ Files \cap (Dirs \cup Links) = {}
    /\ Nothing \notin Inodes
    /\ NameOrder \in Seq(Names)
    /\ InitialEntries \in [Dirs -> [Names -> Inodes \cup {Nothing}]]
    /\ \A d, e \in Dirs, n, m \in Names :
          InitialEntries[d][n] \in Dirs /\ InitialEntries[d][n] = InitialEntries[e][m]
             => d = e /\ n = m

Cut(s, n) == SubSeq(s, 1, Min({n, Len(s)}))

\* What the fatal UTF-8 decoder accepts.
Decodes(bytes) ==
    \A k \in DOMAIN bytes :
        /\ bytes[k] = "lead" => k < Len(bytes) /\ bytes[k + 1] = "rest"
        /\ bytes[k] = "rest" => k > 1 /\ bytes[k - 1] = "lead"

\* decodeText
DecodeText(bytes) ==
    IF Decodes(bytes) THEN [content |-> bytes, encoding |-> "utf-8"]
    ELSE [content |-> <<>>, encoding |-> "binary"]

\* outputFromBytes, and the end of readCappedFile: bytes are what was read, one
\* more than the limit if there is more.
OutputFromBytes(bytes, byteLimit) ==
    LET decoded == DecodeText(Cut(bytes, byteLimit)) IN
    [content |-> decoded.content, encoding |-> decoded.encoding,
     bytesRead |-> Len(Cut(bytes, byteLimit)),
     truncated |-> Len(bytes) > byteLimit]

\* capText: the longest whole text within the limit, looked for in the last
\* three bytes.
CapText(text, byteLimit) ==
    LET ends == {e \in Max({0, byteLimit - 3}) .. byteLimit :
                    Decodes(Cut(text, e))} IN
    IF Len(text) <= byteLimit THEN [text |-> text, truncated |-> FALSE]
    ELSE [text |-> IF ends = {} THEN <<>> ELSE Cut(text, Max(ends)),
          truncated |-> TRUE]

\* textOutput: text, and the metadata of the artifact.
TextOutput(value) ==
    LET capped == CapText(value.content, OutputLimit) IN
    [text |-> capped.text, encoding |-> value.encoding,
     bytesRead |-> value.bytesRead,
     truncated |-> value.truncated \/ capped.truncated]

\* serializeList and serializeSearch: a line of one byte for each row.
RowsOutput(rows) ==
    LET rendered == FlattenSeq([k \in DOMAIN rows |->
                        IF k = 1 THEN <<"x">> ELSE <<"n", "x">>])
        capped == CapText(rendered, OutputLimit) IN
    [text |-> capped.text, encoding |-> Nothing, bytesRead |-> Nothing,
     truncated |-> capped.truncated]

\* content.split(/\r?\n/u)
Lines(content) ==
    LET Step(lines, x) == IF x = "n" THEN Append(lines, <<>>)
                          ELSE [lines EXCEPT ![Len(lines)] = Append(@, x)]
    IN FoldLeft(Step, << <<>> >>, content)

-----------------------------------------------------------------------------
(* The workspace *)

\* The inode a path leads to; a link in it leads out and stays out.
InodeIn(entries, path) ==
    LET Down(i, name) == IF i \in Dirs THEN entries[i][name]
                         ELSE IF i \in Links THEN i ELSE Nothing
    IN FoldLeft(Down, Root, path)
InodeAt(path) == InodeIn(fs.entries, path)

Kind(i) == IF i \in Links THEN "symlink"
           ELSE IF i \in Dirs THEN "directory" ELSE "file"

\* readdir, sorted.
ChildrenOf(d) ==
    FoldLeft(LAMBDA names, n : IF fs.entries[d][n] = Nothing THEN names
                               ELSE Append(names, n), <<>>, NameOrder)

Paths == SeqOf(Names, MaxNames)
\* Long enough to name every directory.
PathsOfDirs == SeqOf(Names, Cardinality(Dirs))

\* Another program gives a name in the directory at a path another inode, or
\* removes it.  A file or a link may have several names, a directory has one, so
\* a move takes two steps; what was removed may come back, there or elsewhere.
Relink(path, name, i) ==
    LET d == InodeAt(path) IN
    /\ fs.changes < MaxChanges
    /\ d \in Dirs
    /\ fs.entries[d][name] # i
    /\ i \in Dirs => i # Root /\ \A e \in Dirs, n \in Names : fs.entries[e][n] # i
    /\ fs' = [fs EXCEPT !.entries[d][name] = i, !.changes = @ + 1,
                        !.fresh = @ \ {i},
                        !.moved = @ \cup (({i} \cap Dirs) \ fs.fresh)]
    /\ UNCHANGED <<git, aborted, call, artifact>>

\* Another program rewrites a file in place.
Rewrite(f, content) ==
    /\ fs.changes < MaxChanges
    /\ fs.data[f] # content
    /\ fs' = [fs EXCEPT !.data[f] = content, !.changes = @ + 1]
    /\ UNCHANGED <<git, aborted, call, artifact>>

Abort ==
    /\ ~aborted
    /\ aborted' = TRUE
    /\ UNCHANGED <<fs, git, call, artifact>>

-----------------------------------------------------------------------------
(* The call *)

NoArgs == [path |-> <<>>, depth |-> 0, limit |-> 0, byteLimit |-> 0]

Init ==
    /\ fs = [entries |-> InitialEntries, data |-> InitialData, changes |-> 0,
             fresh |-> {d \in Dirs \ {Root} :
                           \A e \in Dirs, n \in Names :
                              InitialEntries[e][n] # d},
             moved |-> {}]
    /\ git = [status |-> "none", out |-> <<>>, sent |-> 0, code |-> Nothing]
    /\ aborted = FALSE
    /\ call = [pc |-> "execute", tool |-> Nothing, args |-> NoArgs,
               stack |-> <<>>, entries |-> <<>>, files |-> <<>>,
               matches |-> <<>>, matchBytes |-> 0, scanned |-> 0,
               handle |-> Nothing, source |-> Nothing,
               captured |-> <<>>, length |-> 0, killed |-> FALSE,
               output |-> Nothing, status |-> "none", told |-> Nothing]
    /\ artifact = Nothing

\* A step of the host or of the tool moves nothing but the call.
CallOnly == UNCHANGED <<fs, git, aborted, artifact>>

\* execute returns, without the locals of the host; the projector is next.
Returned(c, status) == [c EXCEPT !.pc = "project", !.status = status,
                                 !.stack = <<>>, !.files = <<>>]

\* hostOutput of a failure, whatever its code: no host method of a read-only
\* tool is given the signal, so none answers cancelled.
Fails(c) == Returned(c, "failed")

\* The host has answered and execute goes on without an await: it looks at the
\* signal and starts to write the artifact.
Answers(c, output) ==
    IF aborted THEN Returned(c, "cancelled")
    ELSE [c EXCEPT !.pc = "write", !.output = output]

\* boundedInteger
BoundedInteger(value, fallback, maximum) ==
    IF value = Nothing THEN fallback
    ELSE IF value \in 0 .. maximum THEN value ELSE Nothing

\* normalizeReadOnlyWorkspaceToolArguments; a path the tools refuse is Nothing.
Normalize(tool, path, depth, limit, byteLimit) ==
    [path |-> IF tool = "git_status" THEN <<>> ELSE path,
     depth |-> IF tool = "list_files" THEN BoundedInteger(depth, 1, MaxDepth)
               ELSE 0,
     limit |-> IF tool \in {"list_files", "search_text"}
               THEN BoundedInteger(limit, MaxResults, MaxResults) ELSE 0,
     byteLimit |-> IF tool = "git_status" THEN StatusLimit
                   ELSE IF tool = "list_files" THEN 0
                   ELSE BoundedInteger(byteLimit, OutputLimit, OutputLimit)]

\* execute up to the first await of the host.
Execute(tool, path, depth, limit, byteLimit) ==
    LET args == Normalize(tool, path, depth, limit, byteLimit)
        c == [call EXCEPT !.tool = tool] IN
    /\ call.pc = "execute"
    /\ call' = IF aborted THEN Returned(c, "cancelled")
               ELSE IF \E f \in DOMAIN args : args[f] = Nothing
               THEN Returned(c, "failed")
               ELSE [c EXCEPT !.pc = "resolve", !.args = args]
    /\ CallOnly

\* Any system call may fail: the catch block of the method turns it into a
\* failure.
SystemError ==
    /\ call.pc \in {"resolve", "open", "readdir", "validate", "lstat", "confirm",
                    "find", "openFile", "verify", "pread"}
    /\ call' = Fails(call)
    /\ CallOnly

Frame(path, depth) == [path |-> path, depth |-> depth, opened |-> Nothing,
                       from |-> Nothing, names |-> <<>>, looked |-> Nothing,
                       way |-> {}]

\* #workspaceRoot, #resolveExisting and the stat after it, for one path (search
\* and git diff take a list of them); #resolveGitPath also takes a path that is
\* not there.
Resolve ==
    LET i == InodeAt(call.args.path) IN
    /\ call.pc = "resolve"
    /\ call' = CASE call.tool = "git_status" -> [call EXCEPT !.pc = "spawn"]
                 [] call.tool = "git_diff" /\ i \notin Links ->
                       [call EXCEPT !.pc = "spawn"]
                 [] call.tool = "list_files" /\ i \in Dirs ->
                       [call EXCEPT !.pc = "open",
                            !.stack = <<Frame(call.args.path, call.args.depth)>>]
                 [] call.tool = "read_file" /\ i \in Files ->
                       [call EXCEPT !.pc = "openFile",
                                    !.files = <<call.args.path>>]
                 [] call.tool = "search_text" /\ i \in Files ->
                       [call EXCEPT !.pc = "nextFile",
                                    !.files = <<call.args.path>>]
                 [] call.tool = "search_text" /\ i \in Dirs ->
                       [call EXCEPT !.pc = "find",
                            !.stack = <<Frame(call.args.path, 0)>>]
                 [] OTHER -> Fails(call)
    /\ CallOnly

-----------------------------------------------------------------------------
(* list: a frame for each directory that is being read *)

Dir == call.stack[1]
\* A frame returns to the one below it, or the listing is complete.
LeavesDirectory(c) ==
    IF Len(c.stack) = 1 THEN Answers(c, RowsOutput(c.entries))
    ELSE [c EXCEPT !.stack = Tail(@), !.pc = "next"]
ListIsFull == Len(call.entries) >= call.args.limit

\* What a path leads through, from the root on.
Way(path) == {InodeAt(SubSeq(path, 1, k)) : k \in 0 .. Len(path)}

\* The handle is open; the directory it stands for is remembered.  A link that
\* is followed here leads to a directory that the next check refuses.
OpenDirectory ==
    /\ call.pc = "open"
    /\ call' = IF ListIsFull THEN LeavesDirectory(call)
               ELSE IF InodeAt(Dir.path) \in Dirs
               THEN [call EXCEPT !.stack[1].opened = InodeAt(Dir.path),
                                 !.stack[1].way = Way(Dir.path),
                                 !.pc = "readdir"]
               ELSE Fails(call)
    /\ CallOnly

\* What readdir may find in a directory, or through a link.
NamesIn(d) == IF d \in Dirs THEN {ChildrenOf(d)} ELSE Outside

\* readdir goes by the name again, not by the handle.
ReadDirectory ==
    LET d == InodeAt(Dir.path) IN
    /\ call.pc = "readdir"
    /\ \/ /\ d \in Dirs \cup Links
          /\ \E names \in NamesIn(d) :
                call' = [call EXCEPT !.stack[1].names = names,
                                     !.stack[1].from = d, !.pc = "validate"]
       \/ d \notin Dirs \cup Links /\ call' = Fails(call)
    /\ CallOnly

\* Mutant: any directory at the name will do.
StillADirectory == InodeAt(Dir.path) \in Dirs
\* validateDirectoryIdentity does not throw.
SameDirectory == InodeAt(Dir.path) = Dir.opened

ValidateDirectory ==
    /\ call.pc = "validate"
    /\ call' = IF SameDirectory THEN [call EXCEPT !.pc = "next"] ELSE Fails(call)
    /\ CallOnly

\* The head of the loop over the children, up to lstat.
NextChild ==
    /\ call.pc = "next"
    /\ call' = IF Dir.names = <<>> \/ ListIsFull THEN LeavesDirectory(call)
               ELSE IF SameDirectory THEN [call EXCEPT !.pc = "lstat"]
               ELSE Fails(call)
    /\ CallOnly

ChildPath == Append(Dir.path, Head(Dir.names))

\* What lstat may say of the child: what is behind a link can be anything.
KindsOfChild == IF InodeAt(Dir.path) \in Links THEN {"symlink", "directory", "file"}
                ELSE {Kind(InodeAt(ChildPath))}

\* lstat goes by the name as well.
LstatChild ==
    /\ call.pc = "lstat"
    /\ \/ /\ InodeAt(ChildPath) # Nothing
          /\ \E kind \in KindsOfChild :
                call' = [call EXCEPT
                    !.stack[1].looked = [dir |-> InodeAt(Dir.path), kind |-> kind],
                    !.pc = "confirm"]
       \/ InodeAt(ChildPath) = Nothing /\ call' = Fails(call)
    /\ CallOnly

\* The entry is taken, and a directory entered while depth remains.  The last
\* three fields, and way of a frame, are kept for ListingReadsWhatItOpened.
ConfirmChild ==
    LET entry == [path |-> ChildPath, kind |-> Dir.looked.kind,
                  opened |-> Dir.opened, way |-> Dir.way,
                  looked |-> {Dir.from, Dir.looked.dir}]
        taken == [call EXCEPT !.entries = Append(@, entry),
                              !.stack[1].names = Tail(@)] IN
    /\ call.pc = "confirm"
    /\ call' = IF ~SameDirectory THEN Fails(call)
               ELSE IF entry.kind = "directory" /\ Dir.depth > 0
               THEN [taken EXCEPT
                   !.stack = <<Frame(ChildPath, Dir.depth - 1)>> \o @,
                   !.pc = "open"]
               ELSE [taken EXCEPT !.pc = "next"]
    /\ CallOnly

-----------------------------------------------------------------------------
(* read, and the files of search: readCappedFile *)

\* search looks at its limits before each file.
NextFile ==
    /\ call.pc = "nextFile"
    /\ call' = IF \/ call.files = <<>>
                  \/ Len(call.matches) >= call.args.limit
                  \/ call.scanned >= MaxScanBytes
               THEN Answers(call, RowsOutput(call.matches))
               ELSE [call EXCEPT !.pc = "openFile"]
    /\ CallOnly

OpenFile ==
    LET i == InodeAt(Head(call.files)) IN
    /\ call.pc = "openFile"
    /\ call' = IF i \in Files \cup Dirs
               THEN [call EXCEPT !.handle = i, !.pc = "verify"]
               ELSE Fails(call)
    /\ CallOnly

\* The handle is the file the name leads to now, and a regular one: stat of the
\* handle, realpath and stat of its result, of which the last compares.
VerifyFile ==
    /\ call.pc = "verify"
    /\ call' = IF /\ InodeAt(Head(call.files)) = call.handle
                  /\ call.handle \in Files
               THEN [call EXCEPT !.pc = "pread"]
               ELSE Fails(call)
    /\ CallOnly

\* The lines of a file that match, until a limit is met; full: search answers
\* at once.
SearchLines(c, path, content) ==
    LET lines == Lines(content)
        Step(acc, k) ==
            LET match == [path |-> path, line |-> k, preview |-> lines[k]]
                cost == 1 + Len(match.preview) IN
            IF \/ acc.full
               \/ Len(acc.matches) >= c.args.limit
               \/ "q" \notin ToSet(lines[k]) THEN acc
            ELSE IF acc.bytes + cost > c.args.byteLimit
            THEN [acc EXCEPT !.full = TRUE]
            ELSE [acc EXCEPT !.matches = Append(@, match), !.bytes = @ + cost]
    IN FoldLeftDomain(Step, [matches |-> c.matches, bytes |-> c.matchBytes,
                             full |-> FALSE], lines)

\* Mutant: a file that is not text ends the search.
StopsAtBinary(c) == [c EXCEPT !.files = <<>>, !.pc = "nextFile"]
\* A file that is not text is passed over.
SkipsBinary(c) == [c EXCEPT !.files = Tail(@), !.pc = "nextFile"]

\* Bytes of the open file, whatever has become of its name.  One read fills the
\* buffer if the file has so many bytes.
ReadFile ==
    LET limit == IF call.tool = "read_file" THEN call.args.byteLimit
                 ELSE Min({call.args.byteLimit, MaxScanBytes - call.scanned})
        value == OutputFromBytes(Cut(fs.data[call.handle], limit + 1), limit)
        read == [call EXCEPT !.source = fs.data[call.handle],
                             !.scanned = @ + value.bytesRead]
        found == SearchLines(read, Head(call.files), value.content)
        searched == [read EXCEPT !.matches = found.matches,
                                 !.matchBytes = found.bytes] IN
    /\ call.pc = "pread"
    /\ call' = IF call.tool = "read_file" THEN Answers(read, TextOutput(value))
               ELSE IF value.encoding = "binary" THEN SkipsBinary(read)
               ELSE IF found.full
               THEN Answers(searched, RowsOutput(found.matches))
               ELSE [searched EXCEPT !.files = Tail(@), !.pc = "nextFile"]
    /\ CallOnly

-----------------------------------------------------------------------------
(* search: #findFiles *)

\* Candidates in the order of their paths, name by name; the code compares whole
\* strings, which differs for a-b and a/x.  An earlier name is the one that comes
\* first in NameOrder.
Earlier(n, m) == \E k \in DOMAIN NameOrder :
    NameOrder[k] = n /\ \A i \in 1 .. k : NameOrder[i] # m
Before(p, r) == \E k \in DOMAIN r :
    /\ \A i \in 1 .. k - 1 : i \in DOMAIN p /\ p[i] = r[i]
    /\ k \in DOMAIN p => Earlier(p[k], r[k])
Sorted(files) ==
    [k \in 1 .. Cardinality(files) |-> CHOOSE p \in files :
        Cardinality({r \in files : Before(r, p)}) = k - 1]

\* A frame's readdir when it is entered; depth and candidates are checked first.
\* A directory that realpath finds to have become a link is passed over; readdir
\* follows one that comes later.
EnterDirectory ==
    LET d == InodeAt(Dir.path)
        full == Dir.depth > MaxDepth \/ Len(call.files) >= MaxCandidates IN
    /\ call.pc = "find"
    /\ Dir.from = Nothing
    /\ \/ /\ full \/ d \notin Dirs \cup Links
          /\ call' = Fails(call)
       \/ /\ ~full /\ d \in Dirs \cup Links
          /\ \E names \in NamesIn(d) :
                call' = [call EXCEPT !.stack[1].names = names,
                                     !.stack[1].from = d]
       \/ /\ d \in Links /\ Len(call.stack) > 1
          /\ call' = [call EXCEPT !.stack[1].from = d]
    /\ CallOnly

\* One child: lstat, then skipped, entered or taken; what is behind a link may be
\* taken for a file, or is skipped.
FindChild ==
    LET i == InodeAt(ChildPath)
        past == [call EXCEPT !.stack[1].names = Tail(@)]
        taken == [past EXCEPT !.files = Append(@, ChildPath)] IN
    /\ call.pc = "find"
    /\ Dir.from # Nothing
    /\ Dir.names # <<>>
    /\ \/ i = Nothing /\ call' = Fails(call)
       \/ i \in Links /\ call' = past
       \/ /\ i \in Dirs
          /\ call' = [past EXCEPT
                         !.stack = <<Frame(ChildPath, Dir.depth + 1)>> \o @]
       \/ /\ i \in Files \/ InodeAt(Dir.path) \in Links
          /\ call' = IF Len(taken.files) >= MaxCandidates THEN Fails(call)
                     ELSE taken
    /\ CallOnly

FoundAll ==
    /\ call.pc = "find"
    /\ Dir.from # Nothing
    /\ Dir.names = <<>>
    /\ call' = IF Len(call.stack) > 1 THEN [call EXCEPT !.stack = Tail(@)]
               ELSE [call EXCEPT !.files = Sorted(ToSet(@)), !.pc = "nextFile"]
    /\ CallOnly

-----------------------------------------------------------------------------
(* git *)

Spawn ==
    /\ call.pc = "spawn"
    /\ \/ \E out \in GitOutputs :
             git' = [git EXCEPT !.status = "running", !.out = out]
          /\ call' = [call EXCEPT !.pc = "git"]
       \/ \* error: the child did not start
          /\ UNCHANGED git
          /\ call' = Fails(call)
    /\ UNCHANGED <<fs, aborted, artifact>>

\* Mutant: no room for the byte that tells a cut output from a whole one.
RoomForLimit(c) == Max({0, c.args.byteLimit - Len(c.captured)})
\* What the data handler still keeps.
Remaining(c) == Max({0, c.args.byteLimit + 1 - Len(c.captured)})

\* A chunk arrives, also when the child was killed already.
GitData(n) ==
    LET chunk == SubSeq(git.out, git.sent + 1, git.sent + n)
        length == call.length + n IN
    /\ call.pc = "git"
    /\ git.sent + n <= Len(git.out)
    /\ git' = [git EXCEPT !.sent = @ + n]
    /\ call' = [call EXCEPT !.captured = @ \o Cut(chunk, Remaining(call)),
                            !.length = length,
                            !.killed = @ \/ length > call.args.byteLimit]
    /\ UNCHANGED <<fs, aborted, artifact>>

\* close: a child that exits with 0 has written everything; one that fails or
\* is killed, code 1, may not have.
GitClose(code) ==
    /\ call.pc = "git"
    /\ code = 0 => git.sent = Len(git.out)
    /\ git' = [git EXCEPT !.status = "closed", !.code = code]
    /\ call' = IF call.killed \/ code = 0
               THEN Answers(call, TextOutput(OutputFromBytes(
                                     call.captured, call.args.byteLimit)))
               ELSE Fails(call)
    /\ UNCHANGED <<fs, aborted, artifact>>

-----------------------------------------------------------------------------
(* The private artifact and the projection for the model *)

\* writePrivate: stored, or it throws.  The signal is read once more.
WriteArtifact ==
    /\ call.pc = "write"
    /\ \/ /\ artifact' = call.output
          /\ call' = Returned(call, IF aborted THEN "cancelled" ELSE "succeeded")
       \/ /\ call' = Returned(call, "failed")
          /\ UNCHANGED artifact
    /\ UNCHANGED <<fs, git, aborted>>

\* projected.trim() is empty.
Blank(text) == ToSet(text) \subseteq {"n"}

\* Mutant: any artifact without text will do.
LooksClean(tool) == tool = "git_status" /\ artifact.text = <<>>
\* isVerifiedCleanGitStatusArtifact
IsVerifiedClean(tool) ==
    /\ tool = "git_status"
    /\ artifact.text = <<>>
    /\ artifact.encoding = "utf-8"
    /\ artifact.bytesRead = 0
    /\ ~artifact.truncated

\* createServerOwnedToolProjector
Project ==
    /\ call.pc = "project"
    /\ call' = [call EXCEPT !.pc = "done", !.told =
          IF call.status # "succeeded" THEN "summary"
          ELSE IF Blank(artifact.text) /\ IsVerifiedClean(call.tool)
          THEN "clean git status"
          ELSE IF Blank(artifact.text) THEN "summary"
          ELSE "text"]
    /\ CallOnly

-----------------------------------------------------------------------------

ListStep == OpenDirectory \/ ReadDirectory \/ ValidateDirectory \/ NextChild
            \/ LstatChild \/ ConfirmChild
FileStep == NextFile \/ OpenFile \/ VerifyFile \/ ReadFile
SearchStep == EnterDirectory \/ FindChild \/ FoundAll
GitStep == Spawn \/ (\E n \in 1 .. Len(git.out) : GitData(n))
           \/ (\E code \in {0, 1} : GitClose(code))

\* Nothing reads the signal once the artifact is written, or the workspace once
\* the host has answered.  What git reads is a choice of Spawn already.
Environment ==
    \/ call.pc \notin {"project", "done"} /\ Abort
    \/ /\ call.pc \notin {"execute", "write", "project", "done"}
       /\ call.tool \notin GitTools
       /\ \/ \E path \in PathsOfDirs, n \in Names, i \in Inodes \cup {Nothing} :
                Relink(path, n, i)
          \/ \E f \in Files, content \in Contents : Rewrite(f, content)

Next ==
    \/ \E tool \in Tools, path \in Paths \cup {Nothing},
          depth \in 0 .. MaxDepth + 1, limit \in 0 .. MaxResults + 1,
          byteLimit \in 0 .. OutputLimit + 1 :
             Execute(tool, path, depth, limit, byteLimit)
    \/ SystemError \/ Resolve \/ ListStep \/ FileStep \/ SearchStep \/ GitStep
    \/ WriteArtifact \/ Project
    \/ Environment

Spec == Init /\ [][Next]_toolVars

-----------------------------------------------------------------------------
(* Properties *)

\* The evidence of a file or of git that does not say it was cut is the whole:
\* of a file as it was when it was read, or of a git that exited by itself.
\* Evidence that was cut is a beginning of it that ends between two scalars.
WholeUnlessTruncated ==
    artifact # Nothing /\ artifact.encoding = "utf-8" =>
        LET source == IF call.tool = "read_file" THEN call.source ELSE git.out IN
        /\ IsPrefix(artifact.text, source)
        /\ Decodes(artifact.text)
        /\ ~artifact.truncated =>
              /\ artifact.text = source
              /\ call.tool \in GitTools => git.code = 0

\* The fixed sentence that the worktree is clean, which the model may repeat in
\* public, is told only if git status succeeded and wrote nothing at all.
CleanFactIsEarned ==
    call.told = "clean git status" => git.code = 0 /\ git.out = <<>>

\* However other programs replace, remove or move directories under it, a listing
\* shows under a directory only names and kinds that it read from the directory
\* it opened, unless that directory, or one that was above it then, gets a place
\* a second time during the call: if one is taken away and put back between two
\* checks, dev and ino are the same again and nothing is noticed.
ListingReadsWhatItOpened ==
    \A k \in DOMAIN call.entries :
        call.entries[k].way \cap fs.moved = {} =>
            call.entries[k].looked = {call.entries[k].opened}

\* Every line that contains the query, of a text file and of all regular files
\* below path that a search may reach.
MatchesIn(path, bytes) ==
    LET lines == Lines(bytes)
        Look(found, k) == IF "q" \notin ToSet(lines[k]) THEN found
            ELSE Append(found, [path |-> path, line |-> k, preview |-> lines[k]])
    IN IF Decodes(bytes) THEN FoldLeftDomain(Look, <<>>, lines) ELSE <<>>
FilesBelow(path) ==
    {p \in SeqOf(Names, Len(path) + MaxDepth + 1) :
        IsPrefix(path, p) /\ InodeAt(p) \in Files}
AllMatches(path) ==
    FoldLeft(LAMBDA all, p : all \o MatchesIn(p, fs.data[InodeAt(p)]),
             <<>>, Sorted(FilesBelow(path)))

\* In a workspace that stands still, whose files fit into the limits, a search
\* answers the matches in order and leaves out none before the limit on
\* results or on bytes is met: what is not text only costs itself.
SearchMissesNothing ==
    LET all == AllMatches(call.args.path)
        found == Len(call.matches) IN
    /\ call.tool = "search_text"
    /\ call.output # Nothing
    /\ fs.changes = 0
    /\ call.scanned < MaxScanBytes
    /\ \A f \in Files : Len(fs.data[f]) <= call.args.byteLimit
    => /\ IsPrefix(call.matches, all)
       /\ \/ call.matches = all
          \/ found = call.args.limit
          \/ call.matchBytes + 1 + Len(all[found + 1].preview)
                > call.args.byteLimit
===============================================================================
