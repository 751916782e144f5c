-------------------------- MODULE WorkspaceToolsProofs -------------------------
(***************************************************************************)
(* What a tool call may say of a file, of git or of a directory: its       *)
(* evidence is a beginning of what was read, it says so when it is not all *)
(* of it, the worktree is called clean only if git said nothing,           *)
(* successfully, and a listing shows under a directory only what was read  *)
(* from it, unless it was moved meanwhile.  A search in a workspace that   *)
(* stands still leaves out no match before a limit is met.  The limits, the *)
(* pieces in which git writes, the workspace and what other programs do to *)
(* it are arbitrary.                                                       *)
(***************************************************************************)
EXTENDS WorkspaceTools, FoldLemmas, FiniteSetTheorems

-----------------------------------------------------------------------------
(* Cutting text *)

LEMMA MinOfTwo ==
    ASSUME NEW a \in Int, NEW b \in Int
    PROVE  Min({a, b}) = IF a <= b THEN a ELSE b
  <1> DEFINE least == IF a <= b THEN a ELSE b
  <1>1. least \in {a, b} /\ \A y \in {a, b} : least <= y
    OBVIOUS
  <1>2. \A x \in {a, b} : (\A y \in {a, b} : x <= y) => x = least
    OBVIOUS
  <1> QED
    BY <1>1, <1>2 DEF Min

LEMMA MaxOfTwo ==
    ASSUME NEW a \in Int, NEW b \in Int
    PROVE  Max({a, b}) = IF a >= b THEN a ELSE b
  <1> DEFINE most == IF a >= b THEN a ELSE b
  <1>1. most \in {a, b} /\ \A y \in {a, b} : most >= y
    OBVIOUS
  <1>2. \A x \in {a, b} : (\A y \in {a, b} : x >= y) => x = most
    OBVIOUS
  <1> QED
    BY <1>1, <1>2 DEF Max

LEMMA FewHaveAMax ==
    ASSUME NEW n \in Int, NEW S \in SUBSET (n - 3 .. n), S # {}
    PROVE  Max(S) \in S
  <1>1. \E x \in S : \A y \in S : x >= y
    <2>1. CASE n \in S
      BY <2>1
    <2>2. CASE n \notin S /\ n - 1 \in S
      BY <2>2
    <2>3. CASE n \notin S /\ n - 1 \notin S /\ n - 2 \in S
      BY <2>3
    <2>4. CASE n \notin S /\ n - 1 \notin S /\ n - 2 \notin S
      <3>1. \A y \in S : y = n - 3
        BY <2>4
      <3>2. PICK x \in S : TRUE
        OBVIOUS
      <3>3. \A y \in S : x >= y
        BY <3>1, <3>2
      <3> QED
        BY <3>3
    <2> QED
      BY <2>1, <2>2, <2>3, <2>4
  <1> QED
    BY <1>1 DEF Max

\* A cut is a beginning, and the whole if the limit allows it.
LEMMA CutIsABeginning ==
    ASSUME NEW s \in Seq(Unit), NEW n \in Nat
    PROVE  /\ Cut(s, n) \in Seq(Unit)
           /\ Len(Cut(s, n)) = IF n <= Len(s) THEN n ELSE Len(s)
           /\ \A k \in 1 .. Len(Cut(s, n)) : Cut(s, n)[k] = s[k]
           /\ Len(s) <= n => Cut(s, n) = s
           /\ IsPrefix(Cut(s, n), s)
  <1> DEFINE m == IF n <= Len(s) THEN n ELSE Len(s)
  <1>1. Cut(s, n) = SubSeq(s, 1, m) /\ m \in 0 .. Len(s)
    BY MinOfTwo DEF Cut
  <1>2. /\ SubSeq(s, 1, m) \in Seq(Unit)
        /\ Len(SubSeq(s, 1, m)) = m
        /\ \A k \in 1 .. m : SubSeq(s, 1, m)[k] = s[k]
    BY <1>1
  <1>3. Len(s) <= n => SubSeq(s, 1, m) = s
    OBVIOUS
  <1>4. IsPrefix(SubSeq(s, 1, m), s)
    BY <1>1, <1>2 DEF IsPrefix
  <1> QED
    BY <1>1, <1>2, <1>3, <1>4

\* What is kept of a text is a beginning of it that decodes, and all of it
\* unless it says that it was cut.
LEMMA CapTextKeepsABeginning ==
    ASSUME NEW s \in Seq(Unit), Decodes(s), NEW n \in Nat
    PROVE  LET c == CapText(s, n) IN
           /\ c.text \in Seq(Unit)
           /\ IsPrefix(c.text, s)
           /\ Decodes(c.text)
           /\ ~c.truncated => c.text = s
  <1> DEFINE first == Max({0, n - 3})
             ends == {e \in first .. n : Decodes(Cut(s, e))}
  <1>1. CASE Len(s) <= n
    <2>1. CapText(s, n) = [text |-> s, truncated |-> FALSE]
      BY <1>1 DEF CapText
    <2>2. IsPrefix(s, s)
      BY DEF IsPrefix
    <2> QED
      BY <2>1, <2>2
  <1>2. CASE ~(Len(s) <= n) /\ ends = {}
    <2>1. CapText(s, n) = [text |-> <<>>, truncated |-> TRUE]
      BY <1>2 DEF CapText
    <2>2. IsPrefix(<<>>, s) /\ Decodes(<<>>) /\ <<>> \in Seq(Unit)
      BY DEF IsPrefix, Decodes
    <2> QED
      BY <2>1, <2>2
  <1>3. CASE ~(Len(s) <= n) /\ ends # {}
    <2>1. first \in Nat /\ first >= n - 3
      BY MaxOfTwo
    <2>2. ends \subseteq Nat /\ ends \in SUBSET (n - 3 .. n)
      <3> HIDE DEF first
      <3> QED
        BY <2>1
    <2>3. Max(ends) \in ends
      <3> HIDE DEF ends
      <3> QED
        BY <1>3, <2>2, FewHaveAMax, n \in Int
    <2>4. CapText(s, n) = [text |-> Cut(s, Max(ends)), truncated |-> TRUE]
      BY <1>3 DEF CapText
    <2>5. Max(ends) \in Nat /\ Decodes(Cut(s, Max(ends)))
      BY <2>2, <2>3
    <2> QED
      BY <2>4, <2>5, CutIsABeginning
  <1> QED
    BY <1>1, <1>2, <1>3

\* The output made of the first bytes of a source, one more than the limit if
\* there are more: a beginning of the source, and the source itself unless it
\* says that something was cut.
LEMMA OutputIsABeginning ==
    ASSUME NEW source \in Seq(Unit), NEW n \in Nat,
           NEW o, o = TextOutput(OutputFromBytes(Cut(source, n + 1), n)),
           o.encoding = "utf-8"
    PROVE  /\ IsPrefix(o.text, source)
           /\ Decodes(o.text)
           /\ ~o.truncated => o.text = source /\ Len(source) <= n
  <1> DEFINE bytes == Cut(source, n + 1)
             whole == Cut(bytes, n)
             value == OutputFromBytes(bytes, n)
             capped == CapText(value.content, OutputLimit)
  <1>1. /\ bytes \in Seq(Unit) /\ whole \in Seq(Unit)
        /\ Len(bytes) = IF n + 1 <= Len(source) THEN n + 1 ELSE Len(source)
        /\ Len(whole) = IF n <= Len(bytes) THEN n ELSE Len(bytes)
        /\ \A k \in 1 .. Len(bytes) : bytes[k] = source[k]
        /\ \A k \in 1 .. Len(whole) : whole[k] = bytes[k]
    BY CutIsABeginning
  <1>2. /\ value.encoding = DecodeText(whole).encoding
        /\ value.content = DecodeText(whole).content
        /\ Len(bytes) > n => value.truncated
    BY DEF OutputFromBytes
  <1>3. /\ o.encoding = value.encoding
        /\ o.text = capped.text
        /\ value.truncated \/ capped.truncated => o.truncated
    BY DEF TextOutput
  <1>4. Decodes(whole) /\ value.content = whole
    BY <1>2, <1>3 DEF DecodeText
  <1>5. /\ capped.text \in Seq(Unit)
        /\ IsPrefix(capped.text, whole)
        /\ Decodes(capped.text)
        /\ ~capped.truncated => capped.text = whole
    BY <1>1, <1>4, CapTextKeepsABeginning, ToolAssumption
  <1> HIDE DEF bytes, whole, value, capped
  <1>6. IsPrefix(capped.text, source)
    <2>1. Len(capped.text) <= Len(whole)
          /\ \A k \in 1 .. Len(capped.text) : capped.text[k] = whole[k]
      <3>1. Len(capped.text) <= Len(whole)
        BY <1>1, <1>5 DEF IsPrefix
      <3>2. SubSeq(capped.text, 1, Len(capped.text)) = SubSeq(whole, 1, Len(capped.text))
        BY <1>5 DEF IsPrefix
      <3> QED
        BY <1>1, <1>5, <3>1, <3>2
    <2>2. Len(capped.text) <= Len(source)
          /\ \A k \in 1 .. Len(capped.text) : capped.text[k] = source[k]
      BY <1>1, <1>5, <2>1
    <2> QED
      BY <1>5, <2>2 DEF IsPrefix
  <1>7. ASSUME ~o.truncated
        PROVE  o.text = source /\ Len(source) <= n
    <2>1. Len(bytes) <= n /\ o.text = whole
      BY <1>1, <1>2, <1>3, <1>5, <1>7
    <2>2. Len(source) <= n
      BY <1>1, <2>1
    <2>3. bytes = source /\ whole = bytes
      BY <1>1, <2>1, <2>2, CutIsABeginning DEF bytes, whole
    <2> QED
      BY <2>1, <2>2, <2>3
  <1> QED
    BY <1>3, <1>5, <1>6, <1>7

-----------------------------------------------------------------------------
(* What each place of the call knows *)

CallFields == {"pc", "tool", "args", "stack", "entries", "files", "matches",
               "matchBytes", "scanned", "handle", "source", "captured",
               "length", "killed", "output", "status", "told"}

\* The places of a call whose host is still at work, git apart.
HostPcs == {"resolve", "open", "readdir", "validate", "next", "lstat", "confirm",
            "find", "nextFile", "openFile", "verify", "pread", "spawn"}

Projected == {"project", "done"}

\* What WholeUnlessTruncated says of an output, written or not.
Source(c, g) == IF c.tool = "read_file" THEN c.source ELSE g.out
HonestOf(c, g, o) ==
    o.encoding = "utf-8" =>
        /\ IsPrefix(o.text, Source(c, g))
        /\ Decodes(o.text)
        /\ ~o.truncated =>
              /\ o.text = Source(c, g)
              /\ c.tool \in GitTools => g.code = 0
Honest(o) == HonestOf(call, git, o)

\* What is kept of the first bytes of s: one more than the limit, if there are.
Kept(s, sent, limit) == Cut(SubSeq(s, 1, sent), limit + 1)

\* What was kept of the output of git is its beginning, up to one byte more
\* than the limit, and git was killed exactly if there was that byte.
GitIsRead ==
    /\ call.tool \in GitTools
    /\ git.out \in Seq(Unit)
    /\ git.sent \in 0 .. Len(git.out)
    /\ call.captured = Kept(git.out, git.sent, call.args.byteLimit)
    /\ call.length = git.sent
    /\ call.killed => call.length > call.args.byteLimit

NothingIsRead ==
    call.captured = <<>> /\ call.length = 0 /\ call.killed = FALSE /\ git.sent = 0

TypesOK ==
    /\ DOMAIN fs = {"entries", "data", "changes", "fresh", "moved"}
    /\ fs.data \in [Files -> Seq(Unit)]
    /\ DOMAIN git = {"status", "out", "sent", "code"}
    /\ DOMAIN call = CallFields
    /\ call.pc \in {"execute", "git", "write"} \cup HostPcs \cup Projected

PlaceOK ==
    /\ call.pc \in {"execute"} \cup HostPcs => NothingIsRead
    /\ call.pc \in {"git"} \cup HostPcs => call.args.byteLimit \in Nat
    /\ call.pc = "spawn" => call.tool \in GitTools
    /\ call.pc = "pread" => call.handle \in Files
    /\ call.pc = "git" => GitIsRead
    /\ call.pc \notin Projected => artifact = Nothing /\ call.status = "none"
    /\ call.pc # "done" => call.told = Nothing

OutputOK ==
    /\ call.pc = "write" => Honest(call.output)
    /\ call.status = "succeeded" => Honest(artifact)
    /\ artifact # Nothing => Honest(artifact)
    /\ call.told = "clean git status" => git.code = 0 /\ git.out = <<>>

ToolInv == TypesOK /\ PlaceOK /\ OutputOK

LEMMA ToolInvInit == Init => ToolInv
  <1> SUFFICES ASSUME Init PROVE ToolInv
    OBVIOUS
  <1>1. TypesOK
    BY ToolAssumption DEF Init, TypesOK, CallFields
  <1>2. PlaceOK
    BY DEF Init, PlaceOK, HostPcs, Projected, NothingIsRead
  <1>3. OutputOK
    BY ToolAssumption DEF Init, OutputOK
  <1> QED
    BY <1>1, <1>2, <1>3 DEF ToolInv

-----------------------------------------------------------------------------
(* How a step of the host may leave the call *)

\* It goes on to another place.
Proceeds ==
    /\ CallOnly
    /\ DOMAIN call' = CallFields
    /\ call'.pc \in HostPcs
    /\ call'.tool = call.tool /\ call'.args = call.args
    /\ call'.captured = call.captured /\ call'.length = call.length
    /\ call'.killed = call.killed /\ call'.status = call.status
    /\ call'.told = call.told
    /\ call'.pc = "spawn" => call.tool \in GitTools
    /\ call'.pc = "pread" => call'.handle \in Files

\* It ends with nothing to say.
Ends ==
    /\ UNCHANGED <<fs, artifact, aborted>>
    /\ DOMAIN call' = CallFields
    /\ call'.pc = "project" /\ call'.status \in {"failed", "cancelled"}
    /\ call'.told = call.told

\* It has an answer, which may be of a file or of git or of neither.
Concludes(output) ==
    /\ UNCHANGED <<fs, artifact, aborted>>
    /\ DOMAIN call' = CallFields
    /\ call'.pc = "write" /\ call'.output = output
    /\ call'.tool = call.tool /\ call'.status = call.status
    /\ call'.told = call.told

Working == call.pc \in {"execute", "git"} \cup HostPcs

LEMMA ProceedsKeeps ==
    ASSUME ToolInv, call.pc \in HostPcs, Proceeds
    PROVE  ToolInv'
  <1> USE DEF ToolInv, Proceeds, CallOnly
  <1>1. TypesOK'
    BY DEF TypesOK
  <1>2. PlaceOK'
    BY DEF PlaceOK, HostPcs, Projected, NothingIsRead
  <1>3. OutputOK'
    BY ToolAssumption DEF PlaceOK, OutputOK, Honest, HostPcs, Projected
  <1> QED
    BY <1>1, <1>2, <1>3

LEMMA EndsKeeps ==
    ASSUME ToolInv, Working, Ends, DOMAIN git' = DOMAIN git
    PROVE  ToolInv'
  <1> USE DEF ToolInv, Ends, Working
  <1>1. TypesOK'
    BY DEF TypesOK, Projected
  <1>2. PlaceOK'
    BY DEF PlaceOK, HostPcs, Projected
  <1>3. OutputOK'
    BY ToolAssumption DEF PlaceOK, OutputOK, Honest, HostPcs, Projected
  <1> QED
    BY <1>1, <1>2, <1>3

LEMMA ConcludesKeeps ==
    ASSUME ToolInv, Working, NEW output, Concludes(output), DOMAIN git' = DOMAIN git,
           HonestOf(call', git', output)
    PROVE  ToolInv'
  <1> USE DEF ToolInv, Concludes, Working
  <1>1. TypesOK'
    BY DEF TypesOK, Projected
  <1>2. PlaceOK'
    BY DEF PlaceOK, HostPcs, Projected
  <1>3. OutputOK'
    BY ToolAssumption DEF PlaceOK, OutputOK, Honest, HostPcs, Projected
  <1> QED
    BY <1>1, <1>2, <1>3

\* Whatever execute decides when the host fails or answers.
LEMMA FailsIsAnEnd ==
    ASSUME TypesOK, call' = Fails(call), UNCHANGED <<fs, artifact, aborted>>
    PROVE  Ends
  BY DEF Fails, Returned, Ends, TypesOK, CallFields

LEMMA AnswerShapes ==
    ASSUME NEW c, DOMAIN c = CallFields, NEW output, call' = Answers(c, output),
           c.tool = call.tool, c.status = call.status, c.told = call.told,
           UNCHANGED <<fs, artifact, aborted>>
    PROVE  /\ Ends \/ Concludes(output)
           /\ call'.tool = c.tool /\ call'.source = c.source
  BY DEF Answers, Returned, Ends, Concludes, CallFields

\* Rows have no encoding: they are evidence of neither file nor git.
LEMMA RowsAreHonest ==
    ASSUME NEW rows
    PROVE  HonestOf(call', git', RowsOutput(rows))
  <1>1. RowsOutput(rows).encoding = Nothing
    BY DEF RowsOutput
  <1> QED
    BY <1>1, ToolAssumption DEF HonestOf

LEMMA RowsKeep ==
    ASSUME ToolInv, Working, NEW c, DOMAIN c = CallFields, NEW rows,
           call' = Answers(c, RowsOutput(rows)),
           c.tool = call.tool, c.status = call.status, c.told = call.told,
           CallOnly
    PROVE  ToolInv'
  <1> DEFINE output == RowsOutput(rows)
  <1>1. HonestOf(call', git', output)
    BY RowsAreHonest
  <1>2. UNCHANGED <<fs, git, artifact, aborted>>
    BY DEF CallOnly
  <1> HIDE DEF output
  <1>3. Ends \/ Concludes(output)
    BY <1>2, AnswerShapes DEF output
  <1> QED
    BY <1>1, <1>2, <1>3, EndsKeeps, ConcludesKeeps

-----------------------------------------------------------------------------
(* The steps *)

LEMMA ExecuteKeeps ==
    ASSUME ToolInv, NEW tool, NEW path, NEW depth, NEW limit,
           NEW byteLimit \in 0 .. OutputLimit + 1,
           Execute(tool, path, depth, limit, byteLimit)
    PROVE  ToolInv'
  <1> DEFINE args == Normalize(tool, path, depth, limit, byteLimit)
  <1>1. /\ call.pc = "execute" /\ Working /\ CallOnly
        /\ TypesOK /\ NothingIsRead /\ artifact = Nothing
        /\ call.status = "none" /\ call.told = Nothing
    BY DEF Execute, ToolInv, PlaceOK, Working, HostPcs, Projected
  <1>2. args.byteLimit # Nothing => args.byteLimit \in Nat
    <2>1. args.byteLimit = IF tool = "git_status" THEN StatusLimit
                           ELSE IF tool = "list_files" THEN 0
                           ELSE BoundedInteger(byteLimit, OutputLimit, OutputLimit)
      BY DEF Normalize
    <2>2. \/ BoundedInteger(byteLimit, OutputLimit, OutputLimit) = Nothing
          \/ BoundedInteger(byteLimit, OutputLimit, OutputLimit) \in Nat
      <3>1. OutputLimit \in Nat
        BY ToolAssumption
      <3>3. byteLimit \in Nat
        BY <3>1
      <3>2. BoundedInteger(byteLimit, OutputLimit, OutputLimit)
               \in {Nothing, OutputLimit, byteLimit}
        BY DEF BoundedInteger
      <3> QED
        BY <3>1, <3>2, <3>3
    <2>3. args.byteLimit \in {StatusLimit, 0,
                              BoundedInteger(byteLimit, OutputLimit, OutputLimit)}
      BY <2>1
    <2> HIDE DEF args
    <2>4. StatusLimit \in Nat
      BY ToolAssumption
    <2> QED
      BY <2>2, <2>3, <2>4
  <1>3. "byteLimit" \in DOMAIN args
    BY DEF Normalize
  <1>6. \/ call' = Returned([call EXCEPT !.tool = tool], "cancelled")
        \/ call' = Returned([call EXCEPT !.tool = tool], "failed")
        \/ /\ call' = [call EXCEPT !.tool = tool, !.pc = "resolve", !.args = args]
           /\ args.byteLimit # Nothing
    <2>1. /\ aborted => call' = Returned([call EXCEPT !.tool = tool], "cancelled")
          /\ ~aborted /\ (\E f \in DOMAIN args : args[f] = Nothing) =>
                call' = Returned([call EXCEPT !.tool = tool], "failed")
          /\ ~aborted /\ ~(\E f \in DOMAIN args : args[f] = Nothing) =>
                call' = [call EXCEPT !.tool = tool, !.pc = "resolve", !.args = args]
      <3> HIDE DEF args
      <3> QED
        BY Zenon DEF Execute, args
    <2> HIDE DEF args
    <2> QED
      BY <1>3, <2>1
  <1> HIDE DEF args
  <1>4. CASE call' = Returned([call EXCEPT !.tool = tool], "cancelled")
             \/ call' = Returned([call EXCEPT !.tool = tool], "failed")
    <2>1. Ends /\ DOMAIN git' = DOMAIN git
      BY <1>1, <1>4 DEF Returned, Ends, CallOnly, TypesOK, CallFields
    <2> QED
      BY <1>1, <2>1, EndsKeeps
  <1>5. CASE /\ call' = [call EXCEPT !.tool = tool, !.pc = "resolve", !.args = args]
             /\ args.byteLimit # Nothing
    <2>1. /\ DOMAIN call' = CallFields /\ call'.pc = "resolve"
          /\ call'.args.byteLimit \in Nat
          /\ call'.captured = <<>> /\ call'.length = 0 /\ call'.killed = FALSE
          /\ call'.status = "none" /\ call'.told = Nothing
          /\ git'.sent = 0
      BY <1>1, <1>2, <1>5 DEF TypesOK, CallFields, NothingIsRead, CallOnly
    <2>2. TypesOK'
      BY <1>1, <2>1 DEF TypesOK, CallOnly, HostPcs
    <2>3. PlaceOK'
      BY <1>1, <2>1 DEF PlaceOK, HostPcs, Projected, NothingIsRead, CallOnly
    <2>4. OutputOK'
      BY <1>1, <2>1, ToolAssumption DEF OutputOK, CallOnly
    <2> QED
      BY <2>2, <2>3, <2>4 DEF ToolInv
  <1> QED
    BY <1>4, <1>5, <1>6

\* A step of list or search, of open or readdir: the call goes on, fails, or
\* answers with rows.
Browses ==
    /\ call.pc \in HostPcs /\ CallOnly
    /\ \/ Proceeds
       \/ call' = Fails(call)
       \/ \E rows : call' = Answers(call, RowsOutput(rows))

LEMMA BrowsesKeeps ==
    ASSUME ToolInv, Browses
    PROVE  ToolInv'
  <1>1. Working /\ TypesOK /\ DOMAIN call = CallFields
    BY DEF Browses, Working, ToolInv, TypesOK
  <1>2. CASE Proceeds
    BY <1>2, ProceedsKeeps DEF Browses
  <1>3. CASE call' = Fails(call)
    <2>1. Ends /\ DOMAIN git' = DOMAIN git
      BY <1>1, <1>3, FailsIsAnEnd DEF Browses, CallOnly
    <2> QED
      BY <1>1, <2>1, EndsKeeps
  <1>4. ASSUME NEW rows, call' = Answers(call, RowsOutput(rows))
        PROVE  ToolInv'
    BY <1>1, <1>4, RowsKeep DEF Browses
  <1> QED
    BY <1>2, <1>3, <1>4 DEF Browses

LEMMA LeavingBrowses ==
    ASSUME ToolInv, call.pc \in HostPcs, CallOnly, call' = LeavesDirectory(call)
    PROVE  Browses
  <1>1. CASE Len(call.stack) = 1
    BY <1>1 DEF LeavesDirectory, Browses
  <1>2. CASE Len(call.stack) # 1
    <2>1. call' = [call EXCEPT !.stack = Tail(@), !.pc = "next"]
      BY <1>2 DEF LeavesDirectory
    <2> QED
      BY <2>1 DEF Browses, Proceeds, HostPcs, ToolInv, TypesOK, CallFields
  <1> QED
    BY <1>1, <1>2

LEMMA ResolveBrowses ==
    ASSUME ToolInv, Resolve
    PROVE  Browses
  <1>1. call.pc \in HostPcs /\ CallOnly /\ DOMAIN call = CallFields
    BY DEF Resolve, HostPcs, ToolInv, TypesOK
  <1>2. CASE call.tool = "git_status" \/ call.tool = "git_diff"
    <2>1. call' = Fails(call) \/ call' = [call EXCEPT !.pc = "spawn"]
      BY <1>2 DEF Resolve
    <2> QED
      BY <1>1, <1>2, <2>1 DEF Browses, Proceeds, HostPcs, CallFields, GitTools
  <1>3. CASE call.tool \notin {"git_status", "git_diff"}
    <2>1. call' = Fails(call) \/ Proceeds
      BY <1>1, <1>3 DEF Resolve, Proceeds, HostPcs, CallFields
    <2> QED
      BY <1>1, <2>1 DEF Browses
  <1> QED
    BY <1>2, <1>3

LEMMA ListBrowses ==
    ASSUME ToolInv, ListStep
    PROVE  Browses
  <1>1. DOMAIN call = CallFields
    BY DEF ToolInv, TypesOK
  <1>2. call.pc \in HostPcs /\ CallOnly
    BY DEF ListStep, OpenDirectory, ReadDirectory, ValidateDirectory, NextChild,
           LstatChild, ConfirmChild, HostPcs
  <1>3. \/ call' = Fails(call)
        \/ call' = LeavesDirectory(call)
        \/ Proceeds
    <2>1. CASE OpenDirectory
      BY <1>1, <1>2, <2>1 DEF OpenDirectory, Proceeds, HostPcs, CallFields
    <2>2. CASE ReadDirectory
      BY <1>1, <1>2, <2>2 DEF ReadDirectory, Proceeds, HostPcs, CallFields
    <2>3. CASE ValidateDirectory
      BY <1>1, <1>2, <2>3 DEF ValidateDirectory, Proceeds, HostPcs, CallFields
    <2>4. CASE NextChild
      BY <1>1, <1>2, <2>4 DEF NextChild, Proceeds, HostPcs, CallFields
    <2>5. CASE LstatChild
      BY <1>1, <1>2, <2>5 DEF LstatChild, Proceeds, HostPcs, CallFields
    <2>6. CASE ConfirmChild
      BY <1>1, <1>2, <2>6 DEF ConfirmChild, Proceeds, HostPcs, CallFields
    <2> QED
      BY <2>1, <2>2, <2>3, <2>4, <2>5, <2>6 DEF ListStep
  <1> QED
    BY <1>2, <1>3, LeavingBrowses DEF Browses

LEMMA SearchBrowses ==
    ASSUME ToolInv, SearchStep
    PROVE  Browses
  <1>1. DOMAIN call = CallFields
    BY DEF ToolInv, TypesOK
  <1>2. call.pc = "find" /\ call.pc \in HostPcs /\ CallOnly
    BY DEF SearchStep, EnterDirectory, FindChild, FoundAll, HostPcs
  <1>3. CASE EnterDirectory
    BY <1>1, <1>2, <1>3 DEF EnterDirectory, Browses, Proceeds, HostPcs, CallFields
  <1>4. CASE FindChild
    <2> DEFINE i == InodeAt(ChildPath)
               past == [call EXCEPT !.stack[1].names = Tail(@)]
               entered == [past EXCEPT
                     !.stack = <<Frame(ChildPath, Dir.depth + 1)>> \o @]
               taken == [past EXCEPT !.files = Append(@, ChildPath)]
    <2>1. call' \in {Fails(call), past, entered, taken}
      BY <1>4 DEF FindChild
    <2>2. \A c \in {past, entered, taken} :
             /\ DOMAIN c = CallFields /\ c.pc = call.pc
             /\ c.tool = call.tool /\ c.args = call.args
             /\ c.captured = call.captured /\ c.length = call.length
             /\ c.killed = call.killed /\ c.status = call.status
             /\ c.told = call.told
      BY <1>1 DEF CallFields
    <2> HIDE DEF past, entered, taken
    <2> QED
      BY <1>1, <1>2, <2>1, <2>2 DEF Browses, Proceeds, HostPcs
  <1>5. CASE FoundAll
    BY <1>1, <1>2, <1>5 DEF FoundAll, Browses, Proceeds, HostPcs, CallFields
  <1> QED
    BY <1>3, <1>4, <1>5 DEF SearchStep

\* readCappedFile hands over the beginning of one reading of one open file.
LEMMA ReadFileKeeps ==
    ASSUME ToolInv, ReadFile
    PROVE  ToolInv'
  <1> DEFINE data == fs.data[call.handle]
             limit == IF call.tool = "read_file" THEN call.args.byteLimit
                      ELSE Min({call.args.byteLimit, MaxScanBytes - call.scanned})
             value == OutputFromBytes(Cut(data, limit + 1), limit)
             read == [call EXCEPT !.source = data, !.scanned = @ + value.bytesRead]
             found == SearchLines(read, Head(call.files), value.content)
             searched == [read EXCEPT !.matches = found.matches,
                                      !.matchBytes = found.bytes]
             onward == [searched EXCEPT !.files = Tail(@), !.pc = "nextFile"]
             skipped == SkipsBinary(read)
             output == TextOutput(value)
  <1>1. /\ call.pc = "pread" /\ call.pc \in HostPcs /\ Working /\ CallOnly
        /\ DOMAIN call = CallFields /\ TypesOK
        /\ data \in Seq(Unit)
        /\ call.args.byteLimit \in Nat
    BY DEF ReadFile, HostPcs, Working, ToolInv, TypesOK, PlaceOK
  <1>2. /\ \A c \in {read, searched, onward, skipped} :
              /\ DOMAIN c = CallFields
              /\ c.tool = call.tool /\ c.args = call.args
              /\ c.captured = call.captured /\ c.length = call.length
              /\ c.killed = call.killed /\ c.status = call.status
              /\ c.told = call.told
        /\ onward.pc = "nextFile" /\ skipped.pc = "nextFile"
        /\ read.source = data
    <2> HIDE DEF data, value, found
    <2> QED
      BY <1>1 DEF CallFields, SkipsBinary
  <1>3. \/ call.tool = "read_file" /\ call' = Answers(read, output)
        \/ call' = skipped
        \/ call' = Answers(searched, RowsOutput(found.matches))
        \/ call' = onward
    BY DEF ReadFile
  <1>4. CASE call.tool = "read_file" /\ call' = Answers(read, output)
    <2>1. output = TextOutput(OutputFromBytes(Cut(data, call.args.byteLimit + 1),
                                              call.args.byteLimit))
      BY <1>4
    <2> HIDE DEF data, value, read, output
    <2>2. /\ Ends \/ Concludes(output)
          /\ call'.tool = "read_file" /\ call'.source = data
      BY <1>1, <1>2, <1>4, AnswerShapes DEF CallOnly
    <2>3. HonestOf(call', git', output)
      <3>1. output.encoding = "utf-8" =>
               /\ IsPrefix(output.text, data)
               /\ Decodes(output.text)
               /\ ~output.truncated => output.text = data
        BY <1>1, <2>1, OutputIsABeginning
      <3> QED
        BY <2>2, <3>1 DEF HonestOf, Source, GitTools
    <2> QED
      BY <1>1, <2>2, <2>3, EndsKeeps, ConcludesKeeps DEF CallOnly
  <1>5. CASE call' = skipped \/ call' = onward
    <2> HIDE DEF skipped, onward
    <2>1. Browses
      BY <1>1, <1>2, <1>5 DEF Browses, Proceeds, HostPcs
    <2> QED
      BY <2>1, BrowsesKeeps
  <1>6. CASE call' = Answers(searched, RowsOutput(found.matches))
    <2> HIDE DEF searched, found
    <2> QED
      BY <1>1, <1>2, <1>6, RowsKeep
  <1> QED
    BY <1>3, <1>4, <1>5, <1>6

LEMMA FilesKeep ==
    ASSUME ToolInv, FileStep
    PROVE  ToolInv'
  <1>1. DOMAIN call = CallFields
    BY DEF ToolInv, TypesOK
  <1>2. CASE NextFile
    <2>1. Browses
      BY <1>1, <1>2 DEF NextFile, Browses, Proceeds, HostPcs, CallFields
    <2> QED
      BY <2>1, BrowsesKeeps
  <1>3. CASE OpenFile
    <2>1. Browses
      BY <1>1, <1>3 DEF OpenFile, Browses, Proceeds, HostPcs, CallFields
    <2> QED
      BY <2>1, BrowsesKeeps
  <1>4. CASE VerifyFile
    <2>1. Browses
      BY <1>1, <1>4 DEF VerifyFile, Browses, Proceeds, HostPcs, CallFields
    <2> QED
      BY <2>1, BrowsesKeeps
  <1>5. CASE ReadFile
    BY <1>5, ReadFileKeeps
  <1> QED
    BY <1>2, <1>3, <1>4, <1>5 DEF FileStep

LEMMA SpawnKeeps ==
    ASSUME ToolInv, Spawn
    PROVE  ToolInv'
  <1>1. /\ call.pc = "spawn" /\ Working /\ TypesOK /\ NothingIsRead
        /\ call.tool \in GitTools /\ call.args.byteLimit \in Nat
        /\ artifact = Nothing /\ call.status = "none" /\ call.told = Nothing
    BY DEF Spawn, Working, ToolInv, PlaceOK, HostPcs, Projected
  <1>2. CASE UNCHANGED git /\ call' = Fails(call)
    <2>1. Ends
      BY <1>1, <1>2, FailsIsAnEnd DEF Spawn
    <2> QED
      BY <1>1, <1>2, <2>1, EndsKeeps
  <1>3. ASSUME NEW text \in GitOutputs,
               git' = [git EXCEPT !.status = "running", !.out = text],
               call' = [call EXCEPT !.pc = "git"]
        PROVE  ToolInv'
    <2>1. text \in Seq(Unit)
      BY ToolAssumption
    <2>2. /\ DOMAIN git' = DOMAIN git /\ git'.out = text /\ git'.sent = 0
          /\ DOMAIN call' = CallFields /\ call'.pc = "git"
          /\ call'.tool = call.tool /\ call'.args = call.args
          /\ call'.captured = <<>> /\ call'.length = 0 /\ call'.killed = FALSE
          /\ call'.status = "none" /\ call'.told = Nothing
      BY <1>1, <1>3 DEF TypesOK, CallFields, NothingIsRead
    <2>3. GitIsRead'
      <3>1. SubSeq(text, 1, 0) = <<>> /\ <<>> \in Seq(Unit) /\ Len(<<>>) = 0
        BY <2>1
      <3>2. Kept(text, 0, call.args.byteLimit) = <<>>
        <4>1. call.args.byteLimit + 1 \in Nat /\ 0 <= call.args.byteLimit + 1
          BY <1>1
        <4> QED
          BY <3>1, <4>1, CutIsABeginning DEF Kept
      <3>3. 0 \in 0 .. Len(text)
        BY <2>1
      <3> QED
        BY <1>1, <2>1, <2>2, <3>1, <3>2, <3>3 DEF GitIsRead
    <2>4. TypesOK'
      BY <1>1, <2>2 DEF Spawn, TypesOK
    <2>5. PlaceOK'
      BY <1>1, <2>2, <2>3 DEF Spawn, PlaceOK, HostPcs, Projected
    <2>6. OutputOK'
      BY <1>1, <2>2, ToolAssumption DEF Spawn, OutputOK
    <2> QED
      BY <2>4, <2>5, <2>6 DEF ToolInv
  <1> QED
    BY <1>2, <1>3 DEF Spawn

LEMMA Joined ==
    ASSUME NEW s \in Seq(Unit), NEW t \in Seq(Unit)
    PROVE  /\ s \o t \in Seq(Unit)
           /\ Len(s \o t) = Len(s) + Len(t)
           /\ \A k \in 1 .. Len(s) : (s \o t)[k] = s[k]
           /\ \A k \in 1 .. Len(t) : (s \o t)[Len(s) + k] = t[k]
  OBVIOUS

LEMMA SameSequence ==
    ASSUME NEW s \in Seq(Unit), NEW t \in Seq(Unit), Len(s) = Len(t),
           \A k \in 1 .. Len(t) : s[k] = t[k]
    PROVE  s = t
  OBVIOUS

\* The beginning of a sequence and the piece that follows it.
LEMMA Pieces ==
    ASSUME NEW s \in Seq(Unit), NEW sent \in Nat, NEW n \in Nat, sent + n <= Len(s)
    PROVE  /\ SubSeq(s, 1, sent) \in Seq(Unit) /\ Len(SubSeq(s, 1, sent)) = sent
           /\ \A k \in 1 .. sent : SubSeq(s, 1, sent)[k] = s[k]
           /\ SubSeq(s, sent + 1, sent + n) \in Seq(Unit)
           /\ Len(SubSeq(s, sent + 1, sent + n)) = n
           /\ \A k \in 1 .. n : SubSeq(s, sent + 1, sent + n)[k] = s[sent + k]
  OBVIOUS

\* What is kept of another piece, as far as there is room, makes what would be
\* kept of all of it at once.
LEMMA KeepingMore ==
    ASSUME NEW s \in Seq(Unit), NEW sent \in Nat, NEW n \in Nat,
           sent + n <= Len(s), NEW limit \in Nat
    PROVE  Kept(s, sent, limit)
              \o Cut(SubSeq(s, sent + 1, sent + n),
                     Max({0, limit + 1 - Len(Kept(s, sent, limit))}))
              = Kept(s, sent + n, limit)
  <1> DEFINE before == SubSeq(s, 1, sent)
             chunk == SubSeq(s, sent + 1, sent + n)
             after == SubSeq(s, 1, sent + n)
  <1>1. /\ before \in Seq(Unit) /\ Len(before) = sent
        /\ \A k \in 1 .. sent : before[k] = s[k]
        /\ chunk \in Seq(Unit) /\ Len(chunk) = n
        /\ \A k \in 1 .. n : chunk[k] = s[sent + k]
    <2>1. /\ before \in Seq(Unit) /\ Len(before) = sent
          /\ \A k \in 1 .. sent : before[k] = s[k]
      BY Pieces
    <2>2. /\ chunk \in Seq(Unit) /\ Len(chunk) = n
      BY Pieces
    <2>3. \A k \in 1 .. n : chunk[k] = s[sent + k]
      BY Pieces
    <2> QED
      BY <2>1, <2>2, <2>3
  <1>2. /\ after \in Seq(Unit) /\ Len(after) = sent + n
        /\ \A k \in 1 .. sent + n : after[k] = s[k]
    OBVIOUS
  <1> HIDE DEF before, chunk, after
  <1> DEFINE captured == Cut(before, limit + 1)
             room == Max({0, limit + 1 - Len(captured)})
             kept == Cut(chunk, room)
             all == Cut(after, limit + 1)
  <1>3. limit + 1 \in Nat
    OBVIOUS
  <1>4. /\ captured \in Seq(Unit)
        /\ Len(captured) = IF limit + 1 <= sent THEN limit + 1 ELSE sent
        /\ \A k \in 1 .. Len(captured) : captured[k] = before[k]
    BY <1>1, <1>2, <1>3, CutIsABeginning
  <1>5. /\ all \in Seq(Unit)
        /\ Len(all) = IF limit + 1 <= sent + n THEN limit + 1 ELSE sent + n
        /\ \A k \in 1 .. Len(all) : all[k] = after[k]
    <2>1. PICK bound \in Nat : bound = limit + 1
      BY <1>3
    <2>2. PICK whole \in Seq(Unit) : whole = after
      BY <1>2
    <2>3. /\ Cut(whole, bound) \in Seq(Unit)
          /\ Len(Cut(whole, bound)) = IF bound <= Len(whole) THEN bound ELSE Len(whole)
          /\ \A k \in 1 .. Len(Cut(whole, bound)) : Cut(whole, bound)[k] = whole[k]
      BY CutIsABeginning
    <2>4. all = Cut(whole, bound) /\ Len(whole) = sent + n
      BY <1>2, <2>1, <2>2
    <2> HIDE DEF all
    <2> QED
      BY <2>1, <2>2, <2>3, <2>4
  <1> HIDE DEF captured, all
  <1>6. room = limit + 1 - Len(captured) /\ room \in Nat
    <2> DEFINE left == limit + 1 - Len(captured)
    <2>1. left \in Nat
      BY <1>4
    <2> HIDE DEF left
    <2>2. Max({0, left}) = left
      <3>1. Max({0, left}) = IF 0 >= left THEN 0 ELSE left
        BY <2>1, MaxOfTwo
      <3> QED
        BY <2>1, <3>1
    <2> QED
      BY <2>1, <2>2 DEF left
  <1> HIDE DEF room
  <1>7. /\ kept \in Seq(Unit)
        /\ Len(kept) = IF room <= n THEN room ELSE n
        /\ \A k \in 1 .. Len(kept) : kept[k] = chunk[k]
    <2>1. room \in Nat
      BY <1>6
    <2>2. chunk \in Seq(Unit) /\ Len(chunk) = n
      BY <1>1
    <2> QED
      BY <2>1, <2>2, CutIsABeginning
  <1> HIDE DEF kept
  <1>8. /\ Len(captured) \in Nat /\ Len(kept) \in Nat
        /\ Len(captured) + Len(kept) = Len(all)
    BY <1>4, <1>5, <1>6, <1>7
  <1>9. /\ captured \o kept \in Seq(Unit)
        /\ Len(captured \o kept) = Len(all)
        /\ \A k \in 1 .. Len(captured) : (captured \o kept)[k] = captured[k]
        /\ \A k \in 1 .. Len(kept) :
              (captured \o kept)[Len(captured) + k] = kept[k]
    BY <1>4, <1>7, <1>8, Joined
  <1>10. ASSUME NEW k \in 1 .. Len(all)
        PROVE  (captured \o kept)[k] = all[k]
    <2>1. all[k] = s[k]
      BY <1>2, <1>5
    <2>2. CASE k <= Len(captured)
      <3>1. k \in 1 .. Len(captured) /\ k \in 1 .. sent
        BY <1>4, <1>8, <2>2
      <3> QED
        BY <1>1, <1>4, <1>9, <2>1, <3>1
    <2>3. CASE k > Len(captured)
      <3>1. Len(captured) = sent
        BY <1>4, <1>5, <1>6, <1>7, <2>3
      <3>2. PICK i \in 1 .. Len(kept) : k = sent + i
        <4>1. k - sent \in 1 .. Len(kept) /\ k = sent + (k - sent)
          BY <1>8, <2>3, <3>1
        <4> QED
          BY <4>1
      <3>3. i \in 1 .. n
        <4>1. Len(kept) <= n
          BY <1>6, <1>7
        <4> QED
          BY <1>8, <4>1
      <3>4. (captured \o kept)[k] = kept[i]
        BY <1>9, <3>1, <3>2
      <3>5. kept[i] = chunk[i]
        BY <1>7
      <3>6. chunk[i] = s[sent + i]
        BY <1>1, <3>3
      <3> QED
        BY <2>1, <3>2, <3>4, <3>5, <3>6
    <2> QED
      BY <1>8, <2>2, <2>3
  <1>11. captured \o kept = all
    BY <1>5, <1>9, <1>10, SameSequence
  <1> QED
    BY <1>11 DEF kept, all, captured, room, Kept, before, chunk, after

\* The handler of one piece keeps what there is room for, and kills git when
\* the limit is passed.
LEMMA GitDataKeeps ==
    ASSUME ToolInv, NEW n \in Nat, GitData(n)
    PROVE  ToolInv'
  <1> DEFINE chunk == SubSeq(git.out, git.sent + 1, git.sent + n)
             room == Remaining(call)
             limit == call.args.byteLimit
  <1>1. /\ call.pc = "git" /\ TypesOK /\ GitIsRead /\ limit \in Nat
        /\ artifact = Nothing /\ call.status = "none" /\ call.told = Nothing
        /\ UNCHANGED <<fs, artifact>>
        /\ git.sent + n <= Len(git.out)
    BY DEF GitData, ToolInv, PlaceOK, HostPcs, Projected
  <1>2. git.sent \in Nat /\ git.sent + n \in 0 .. Len(git.out) /\ git.out \in Seq(Unit)
    BY <1>1 DEF GitIsRead
  <1>3. /\ git' = [git EXCEPT !.sent = git.sent + n]
        /\ call' = [call EXCEPT
              !.captured = call.captured \o Cut(chunk, room),
              !.length = call.length + n,
              !.killed = call.killed \/ call.length + n > limit]
    BY DEF GitData
  <1>4. /\ DOMAIN git' = DOMAIN git /\ git'.out = git.out
        /\ git'.sent = git.sent + n
        /\ DOMAIN call' = CallFields /\ call'.pc = "git"
        /\ call'.tool = call.tool /\ call'.args = call.args
        /\ call'.captured = call.captured \o Cut(chunk, room)
        /\ call'.length = call.length + n
        /\ call'.killed => call.killed \/ call.length + n > limit
        /\ call'.status = "none" /\ call'.told = Nothing
    <2> HIDE DEF chunk, room, limit
    <2> QED
      BY <1>1, <1>3 DEF TypesOK, CallFields
  <1>5. call.captured \o Cut(chunk, room) = Kept(git.out, git.sent + n, limit)
    <2> DEFINE s == git.out
               sent == git.sent
    <2>1. /\ call.captured = Kept(s, sent, limit)
          /\ room = Max({0, limit + 1 - Len(call.captured)})
          /\ chunk = SubSeq(s, sent + 1, sent + n)
      BY <1>1 DEF GitIsRead, Remaining
    <2>2. /\ s \in Seq(Unit) /\ sent \in Nat /\ limit \in Nat
          /\ sent + n <= Len(s)
      BY <1>1, <1>2
    <2> HIDE DEF s, sent, limit
    <2>3. Kept(s, sent, limit)
              \o Cut(SubSeq(s, sent + 1, sent + n),
                     Max({0, limit + 1 - Len(Kept(s, sent, limit))}))
              = Kept(s, sent + n, limit)
      BY <2>2, KeepingMore
    <2> HIDE DEF room, chunk
    <2>4. call.captured \o Cut(chunk, room) = Kept(s, sent + n, limit)
      BY <2>1, <2>3
    <2> QED
      BY <2>4 DEF s, sent
  <1>6. GitIsRead'
    <2>1. call'.length = git.sent + n
      BY <1>1, <1>4 DEF GitIsRead
    <2>2. call'.killed => call'.length > limit
      BY <1>1, <1>2, <1>4 DEF GitIsRead
    <2> HIDE DEF chunk, room
    <2> QED
      BY <1>1, <1>2, <1>4, <1>5, <2>1, <2>2 DEF GitIsRead
  <1>7. TypesOK'
    BY <1>1, <1>4 DEF TypesOK
  <1>8. PlaceOK'
    BY <1>1, <1>4, <1>6 DEF PlaceOK, HostPcs, Projected
  <1>9. OutputOK'
    BY <1>1, <1>4, ToolAssumption DEF OutputOK
  <1> QED
    BY <1>7, <1>8, <1>9 DEF ToolInv

\* Output that was not cut was not longer than the limit: git was not killed,
\* and it has written everything.
LEMMA GitCloseKeeps ==
    ASSUME ToolInv, NEW code, GitClose(code)
    PROVE  ToolInv'
  <1> DEFINE limit == call.args.byteLimit
             read == SubSeq(git.out, 1, git.sent)
             output == TextOutput(OutputFromBytes(call.captured, limit))
  <1>1. /\ call.pc = "git" /\ Working /\ TypesOK /\ GitIsRead /\ limit \in Nat
        /\ UNCHANGED <<fs, artifact, aborted>>
        /\ code = 0 => git.sent = Len(git.out)
        /\ git' = [git EXCEPT !.status = "closed", !.code = code]
    BY DEF GitClose, Working, ToolInv, PlaceOK
  <1>2. /\ DOMAIN git' = DOMAIN git /\ git'.out = git.out /\ git'.code = code
    BY <1>1 DEF TypesOK
  <1>3. CASE call' = Fails(call)
    <2>1. Ends
      BY <1>1, <1>3, FailsIsAnEnd
    <2> QED
      BY <1>1, <1>2, <2>1, EndsKeeps
  <1>4. CASE (call.killed \/ code = 0) /\ call' = Answers(call, output)
    <2>1. /\ read \in Seq(Unit) /\ Len(read) = git.sent
          /\ git.out \in Seq(Unit) /\ git.sent \in 0 .. Len(git.out)
          /\ call.captured = Cut(read, limit + 1)
          /\ \A k \in 1 .. git.sent : read[k] = git.out[k]
          /\ git.sent = Len(git.out) => read = git.out
      BY <1>1 DEF GitIsRead, Kept
    <2> HIDE DEF limit, read, output
    <2>2. /\ Ends \/ Concludes(output)
          /\ call'.tool = call.tool
      BY <1>1, <1>4, AnswerShapes DEF TypesOK
    <2>3. ASSUME output.encoding = "utf-8"
          PROVE  /\ IsPrefix(output.text, git.out)
                 /\ Decodes(output.text)
                 /\ ~output.truncated => output.text = git.out /\ code = 0
      <3>1. /\ IsPrefix(output.text, read)
            /\ Decodes(output.text)
            /\ ~output.truncated => output.text = read /\ Len(read) <= limit
        BY <1>1, <2>1, <2>3, OutputIsABeginning DEF output
      <3>2. IsPrefix(output.text, git.out)
        <4>1. SubSeq(read, 1, Len(output.text)) = SubSeq(git.out, 1, Len(output.text))
          BY <2>1, <3>1 DEF IsPrefix
        <4> QED
          BY <2>1, <3>1, <4>1 DEF IsPrefix
      <3>3. ASSUME ~output.truncated
            PROVE  code = 0
        BY <1>1, <1>4, <2>1, <3>1, <3>3 DEF GitIsRead, limit
      <3> QED
        BY <1>1, <2>1, <3>1, <3>2, <3>3
    <2>4. HonestOf(call', git', output)
      <3>1. Source(call', git') = git.out
        BY <1>1, <1>2, <2>2 DEF GitIsRead, GitTools, Source
      <3> QED
        BY <1>2, <2>3, <3>1 DEF HonestOf
    <2> QED
      BY <1>1, <1>2, <2>2, <2>4, EndsKeeps, ConcludesKeeps
  <1> QED
    BY <1>3, <1>4 DEF GitClose

-----------------------------------------------------------------------------
(* The artifact, the projection and the other programs *)

LEMMA WriteKeeps ==
    ASSUME ToolInv, WriteArtifact
    PROVE  ToolInv'
  <1>1. /\ call.pc = "write" /\ UNCHANGED <<fs, git, aborted>> /\ TypesOK
        /\ artifact = Nothing /\ call.status = "none" /\ call.told = Nothing
        /\ Honest(call.output)
    BY DEF WriteArtifact, ToolInv, PlaceOK, OutputOK, HostPcs, Projected
  <1>2. /\ DOMAIN call' = CallFields /\ call'.pc = "project"
        /\ call'.tool = call.tool /\ call'.source = call.source
        /\ call'.told = Nothing
        /\ call'.status \in {"cancelled", "succeeded", "failed"}
    BY <1>1 DEF WriteArtifact, Returned, TypesOK, CallFields
  <1>3. \/ artifact' = call.output
        \/ artifact' = Nothing /\ call'.status = "failed"
    BY <1>1 DEF WriteArtifact, Returned, TypesOK, CallFields
  <1>4. artifact' = call.output => HonestOf(call', git', artifact')
    BY <1>1, <1>2 DEF Honest, HonestOf, Source
  <1>5. TypesOK'
    BY <1>1, <1>2 DEF TypesOK, Projected
  <1>6. PlaceOK'
    BY <1>2 DEF PlaceOK, HostPcs, Projected
  <1>7. OutputOK'
    BY <1>2, <1>3, <1>4, ToolAssumption DEF OutputOK, Honest
  <1> QED
    BY <1>5, <1>6, <1>7 DEF ToolInv

\* An artifact of git status that holds nothing, by all its metadata, is all
\* that git wrote.
LEMMA ProjectKeeps ==
    ASSUME ToolInv, Project
    PROVE  ToolInv'
  <1>1. /\ call.pc = "project" /\ CallOnly /\ TypesOK /\ call.told = Nothing
        /\ call.status = "succeeded" => Honest(artifact)
        /\ artifact # Nothing => Honest(artifact)
    BY DEF Project, ToolInv, PlaceOK, OutputOK
  <1>2. /\ DOMAIN call' = CallFields /\ call'.pc = "done"
        /\ call'.tool = call.tool /\ call'.source = call.source
        /\ call'.status = call.status
    BY <1>1 DEF Project, TypesOK, CallFields
  <1>3. call'.told = "clean git status" =>
           call.status = "succeeded" /\ IsVerifiedClean(call.tool)
    BY <1>1 DEF Project, TypesOK, CallFields
  <1>4. ASSUME call'.told = "clean git status"
        PROVE  git.code = 0 /\ git.out = <<>>
    <2>1. Honest(artifact) /\ IsVerifiedClean(call.tool)
      BY <1>1, <1>3, <1>4
    <2>2. /\ call.tool = "git_status" /\ artifact.text = <<>>
          /\ artifact.encoding = "utf-8" /\ ~artifact.truncated
      BY <2>1 DEF IsVerifiedClean
    <2> QED
      BY <2>1, <2>2 DEF Honest, HonestOf, Source, GitTools
  <1>5. TypesOK'
    BY <1>1, <1>2 DEF TypesOK, CallOnly, Projected
  <1>6. PlaceOK'
    BY <1>2 DEF PlaceOK, HostPcs, Projected
  <1>7. OutputOK'
    BY <1>1, <1>2, <1>4 DEF OutputOK, Honest, HonestOf, Source, CallOnly
  <1> QED
    BY <1>5, <1>6, <1>7 DEF ToolInv

\* What other programs do is neither evidence nor claim.
LEMMA EnvironmentKeeps ==
    ASSUME ToolInv, Environment
    PROVE  ToolInv'
  <1>1. UNCHANGED <<git, call, artifact>>
    BY DEF Environment, Abort, Relink, Rewrite
  <1>2. DOMAIN fs' = DOMAIN fs /\ fs'.data \in [Files -> Seq(Unit)]
    <2>1. DOMAIN fs = {"entries", "data", "changes", "fresh", "moved"}
          /\ fs.data \in [Files -> Seq(Unit)]
      BY DEF ToolInv, TypesOK
    <2>2. CASE Abort
      BY <2>1, <2>2 DEF Abort
    <2>3. ASSUME NEW path, NEW name, NEW i, Relink(path, name, i)
          PROVE  DOMAIN fs' = DOMAIN fs /\ fs'.data = fs.data
      BY <2>1, <2>3 DEF Relink
    <2>4. ASSUME NEW f \in Files, NEW content \in Contents, Rewrite(f, content)
          PROVE  DOMAIN fs' = DOMAIN fs /\ fs'.data \in [Files -> Seq(Unit)]
      <3>1. content \in Seq(Unit)
        BY ToolAssumption
      <3>2. DOMAIN fs' = DOMAIN fs /\ fs'.data = [fs.data EXCEPT ![f] = content]
        BY <2>1, <2>4 DEF Rewrite
      <3> QED
        BY <2>1, <3>1, <3>2
    <2> QED
      BY <2>1, <2>2, <2>3, <2>4 DEF Environment
  <1>3. TypesOK'
    BY <1>1, <1>2 DEF ToolInv, TypesOK
  <1>4. PlaceOK' /\ OutputOK'
    BY <1>1 DEF ToolInv, PlaceOK, OutputOK, GitIsRead, NothingIsRead, Honest
  <1> QED
    BY <1>3, <1>4 DEF ToolInv

LEMMA ToolInvNext == ToolInv /\ [Next]_toolVars => ToolInv'
  <1> SUFFICES ASSUME ToolInv, [Next]_toolVars
               PROVE  ToolInv'
    OBVIOUS
  <1>1. ASSUME NEW tool \in Tools, NEW path \in Paths \cup {Nothing},
               NEW depth \in 0 .. MaxDepth + 1, NEW limit \in 0 .. MaxResults + 1,
               NEW byteLimit \in 0 .. OutputLimit + 1,
               Execute(tool, path, depth, limit, byteLimit)
        PROVE  ToolInv'
    BY <1>1, ExecuteKeeps
  <1>2. CASE SystemError
    <2>1. Working /\ TypesOK /\ call' = Fails(call) /\ CallOnly
      BY <1>2 DEF SystemError, Working, HostPcs, ToolInv
    <2>2. Ends /\ DOMAIN git' = DOMAIN git
      BY <2>1, FailsIsAnEnd DEF CallOnly
    <2> QED
      BY <2>1, <2>2, EndsKeeps
  <1>3. CASE Resolve \/ ListStep \/ SearchStep
    BY <1>3, ResolveBrowses, ListBrowses, SearchBrowses, BrowsesKeeps
  <1>4. CASE FileStep
    BY <1>4, FilesKeep
  <1>5. CASE GitStep
    <2>1. ASSUME NEW n \in 1 .. Len(git.out), GitData(n)
          PROVE  ToolInv'
      <3>1. GitIsRead
        BY <2>1 DEF GitData, ToolInv, PlaceOK
      <3>2. n \in Nat
        <4>1. Len(git.out) \in Nat
          BY <3>1 DEF GitIsRead
        <4> QED
          BY <4>1
      <3> QED
        BY <2>1, <3>2, GitDataKeeps
    <2> QED
      BY <1>5, <2>1, SpawnKeeps, GitCloseKeeps DEF GitStep
  <1>6. CASE WriteArtifact \/ Project \/ Environment
    BY <1>6, WriteKeeps, ProjectKeeps, EnvironmentKeeps
  <1>7. CASE UNCHANGED toolVars
    <2>1. UNCHANGED <<fs, git, call, artifact>>
      BY <1>7 DEF toolVars
    <2>2. TypesOK' /\ PlaceOK' /\ OutputOK'
      BY <2>1 DEF ToolInv, TypesOK, PlaceOK, OutputOK, GitIsRead, NothingIsRead,
                  Honest
    <2> QED
      BY <2>2 DEF ToolInv
  <1> QED
    BY <1>1, <1>2, <1>3, <1>4, <1>5, <1>6, <1>7 DEF Next

LEMMA ToolInvHolds == Spec => []ToolInv
  BY ToolInvInit, ToolInvNext, PTL DEF Spec

-----------------------------------------------------------------------------
(* Paths *)

Entered == Inodes \cup {Nothing}
Tree == [Dirs -> [Names -> Entered]]

Down(entries, i, name) == IF i \in Dirs THEN entries[i][name]
                          ELSE IF i \in Links THEN i ELSE Nothing

LEMMA DownIsTyped ==
    ASSUME NEW entries \in Tree, NEW i \in Entered, NEW name \in Names
    PROVE  Down(entries, i, name) \in Entered
  BY DEF Down, Tree, Entered

\* The inodes on the way along a path.
Walk(w, entries, path) ==
    /\ w \in [0 .. Len(path) -> Entered]
    /\ w[0] = Root
    /\ \A k \in 1 .. Len(path) : w[k] = Down(entries, w[k - 1], path[k])

LEMMA PathIsWalked ==
    ASSUME NEW entries \in Tree, NEW path \in Seq(Names)
    PROVE  \E w : Walk(w, entries, path) /\ w[Len(path)] = InodeIn(entries, path)
  <1> DEFINE n == Len(path)
             F == [p \in (1 .. n) \X Entered |-> Down(entries, p[2], path[p[1]])]
             Is(it) == it = [t \in SUBSET (1 .. n) |-> IF t = {} THEN Root
                              ELSE Down(entries, it[t \ {Max(t)}], path[Max(t)])]
             c == CHOOSE it : Is(it)
  <1>1. n \in Nat /\ DOMAIN path = 1 .. n /\ \A k \in 1 .. n : path[k] \in Names
    OBVIOUS
  <1>2. \A k \in 1 .. n, a \in Entered :
           F[<<k, a>>] = Down(entries, a, path[k]) /\ F[<<k, a>>] \in Entered
    BY <1>1, DownIsTyped
  <1>3. Root \in Entered
    BY TreeAssumption DEF Entered, Inodes
  <1>4. InodeIn(entries, path) = c[1 .. n]
    BY <1>1 DEF InodeIn, FoldLeft, MapThenFoldSet, Down
  <1> HIDE DEF F, n
  <1>5. Closed(F, n, Entered)
    BY <1>2 DEF Closed
  <1>6. PICK it : FoldBy(it, F, n, Entered, Root)
    BY <1>1, <1>3, <1>5, FoldExists
  <1>7. Is(it)
    <2>1. ASSUME NEW t \in SUBSET (1 .. n), t # {}
          PROVE  F[<<Max(t), it[t \ {Max(t)}]>>] =
                    Down(entries, it[t \ {Max(t)}], path[Max(t)])
      <3>1. it[t \ {Max(t)}] \in Entered
        BY <1>6 DEF FoldBy
      <3>2. Max(t) \in 1 .. n
        BY <1>1, <2>1, MaxIsThere
      <3> QED
        BY <1>2, <3>1, <3>2
    <2> QED
      BY <1>6, <2>1 DEF FoldBy
  <1>8. Is(c)
    BY <1>7
  <1> HIDE DEF c
  <1>9. c[{}] = Root
    BY <1>8, {} \in SUBSET (1 .. n)
  <1>10. ASSUME NEW k \in 1 .. n, c[1 .. k - 1] \in Entered
         PROVE  c[1 .. k] = F[<<k, c[1 .. k - 1]>>]
    <2>1. /\ 1 .. k \in SUBSET (1 .. n) /\ 1 .. k # {} /\ Max(1 .. k) = k
          /\ (1 .. k) \ {k} = 1 .. k - 1
      BY <1>1, WholeInterval
    <2>2. c[1 .. k] = Down(entries, c[1 .. k - 1], path[k])
      BY <1>8, <2>1
    <2> QED
      BY <1>2, <1>10, <2>2
  <1>11. PICK w : Follows(w, F, n, Entered, Root) /\ w[n] = c[1 .. n]
    BY <1>1, <1>3, <1>5, <1>9, <1>10, FoldIsFollowed
  <1>12. Walk(w, entries, path)
    <2>1. ASSUME NEW k \in 1 .. n PROVE w[k] = Down(entries, w[k - 1], path[k])
      <3>1. w[k - 1] \in Entered /\ w[k] = F[<<k, w[k - 1]>>]
        BY <1>1, <1>11 DEF Follows
      <3> QED
        BY <1>2, <3>1
    <2> QED
      BY <1>11, <2>1 DEF Walk, Follows, n
  <1> QED
    BY <1>4, <1>11, <1>12 DEF n

-----------------------------------------------------------------------------
(* Chains of directories *)

\* w[j] .. w[Len(path)] are directories, each in the one before under its name
\* in path, and the last is d.
Chain(w, j, entries, path, d) ==
    /\ w \in [j .. Len(path) -> Dirs]
    /\ w[Len(path)] = d
    /\ \A l \in j + 1 .. Len(path) : entries[w[l - 1]][path[l]] = w[l]

LEMMA LengthOfPath ==
    ASSUME NEW path \in Seq(Names)
    PROVE  Len(path) \in Nat /\ \A k \in 1 .. Len(path) : path[k] \in Names
  OBVIOUS

\* A path to a directory goes through directories.
LEMMA ReachedByChain ==
    ASSUME NEW entries \in Tree, NEW path \in Seq(Names),
           InodeIn(entries, path) \in Dirs
    PROVE  \E w : Chain(w, 0, entries, path, InodeIn(entries, path)) /\ w[0] = Root
  <1>1. PICK w : Walk(w, entries, path) /\ w[Len(path)] = InodeIn(entries, path)
    BY PathIsWalked
  <1> DEFINE n == Len(path)
             S == {k \in 0 .. n : w[k] \in Dirs}
  <1>2. n \in Nat
    BY LengthOfPath
  <1>3. ASSUME NEW k \in 0 + 1 .. n, k \in S PROVE k - 1 \in S
    <2>1. k \in 1 .. n /\ k - 1 \in 0 .. n /\ w[k] \in Dirs
      BY <1>2, <1>3
    <2>2. w[k] = Down(entries, w[k - 1], path[k])
      BY <1>1, <2>1 DEF Walk
    <2>3. w[k - 1] \in Dirs
      BY <2>1, <2>2, TreeAssumption DEF Down, Inodes
    <2> QED
      BY <2>1, <2>3
  <1>4. \A k \in 0 .. n : k \in S
    <2>1. n \in S
      BY <1>1, <1>2
    <2> HIDE DEF S, n
    <2> QED
      BY <1>2, <1>3, <2>1, 0 \in Int, n \in Int, Downwards
  <1>5. w \in [0 .. n -> Dirs]
    <2>1. \A k \in 0 .. n : w[k] \in Dirs
      BY <1>4
    <2> QED
      BY <1>1, <2>1 DEF Walk
  <1>6. ASSUME NEW l \in 0 + 1 .. n PROVE entries[w[l - 1]][path[l]] = w[l]
    <2>1. l \in 1 .. n /\ l - 1 \in 0 .. n
      BY <1>2
    <2>2. w[l] = Down(entries, w[l - 1], path[l]) /\ w[l - 1] \in Dirs
      BY <1>1, <1>5, <2>1 DEF Walk
    <2> QED
      BY <2>2 DEF Down
  <1> QED
    BY <1>1, <1>5, <1>6 DEF Chain, Walk

\* A chain from the root is the path.
LEMMA ChainReaches ==
    ASSUME NEW entries \in Tree, NEW path \in Seq(Names), NEW d, NEW w,
           Chain(w, 0, entries, path, d), w[0] = Root
    PROVE  InodeIn(entries, path) = d
  <1>1. PICK v : Walk(v, entries, path) /\ v[Len(path)] = InodeIn(entries, path)
    BY PathIsWalked
  <1> DEFINE n == Len(path)
             S == {k \in 0 .. n : v[k] = w[k]}
  <1>2. n \in Nat
    BY LengthOfPath
  <1>3. ASSUME NEW k \in 0 .. n - 1, k \in S PROVE k + 1 \in S
    <2>1. k + 1 \in 1 .. n /\ k + 1 \in 0 + 1 .. n /\ (k + 1) - 1 = k
          /\ k \in 0 .. n /\ k + 1 \in 0 .. n
      BY <1>2
    <2>2. v[k + 1] = Down(entries, v[k], path[k + 1])
      BY <1>1, <2>1 DEF Walk
    <2>3. w[k + 1] = entries[w[k]][path[k + 1]] /\ w[k] \in Dirs
      BY <2>1 DEF Chain
    <2>4. v[k] = w[k]
      BY <1>3
    <2>5. v[k + 1] = w[k + 1]
      BY <2>2, <2>3, <2>4 DEF Down
    <2> QED
      BY <2>1, <2>5
  <1>4. 0 \in S
    BY <1>1, <1>2 DEF Walk
  <1>5. \A k \in 0 .. n : k \in S
    <2> HIDE DEF S, n
    <2> QED
      BY <1>2, <1>3, <1>4, Upwards
  <1>6. v[n] = w[n]
    BY <1>2, <1>5
  <1> QED
    BY <1>1, <1>6 DEF Chain

OneParent(entries) ==
    \A d, e \in Dirs, n, m \in Names :
        entries[d][n] \in Dirs /\ entries[d][n] = entries[e][m] => d = e /\ n = m

\* A directory has one name, so there is one way up from it.
LEMMA ChainsAgree ==
    ASSUME NEW entries, OneParent(entries), NEW path \in Seq(Names), NEW d,
           NEW j \in 0 .. Len(path), NEW w, NEW v,
           Chain(w, j, entries, path, d), Chain(v, 0, entries, path, d)
    PROVE  w[j] = v[j]
  <1> DEFINE n == Len(path)
             S == {k \in j .. n : v[k] = w[k]}
  <1>1. n \in Nat
    BY LengthOfPath
  <1>2. ASSUME NEW k \in j + 1 .. n, k \in S PROVE k - 1 \in S
    <2>1. k \in 1 .. n /\ k \in 0 + 1 .. n /\ k - 1 \in j .. n /\ k - 1 \in 0 .. n
          /\ k \in 0 .. n
      BY <1>1
    <2>2. /\ v[k] = entries[v[k - 1]][path[k]] /\ v[k - 1] \in Dirs /\ v[k] \in Dirs
          /\ w[k] = entries[w[k - 1]][path[k]] /\ w[k - 1] \in Dirs
          /\ path[k] \in Names
      BY <2>1, LengthOfPath DEF Chain
    <2>3. v[k] = w[k]
      BY <1>2
    <2>4. \A e \in Dirs, f \in Dirs, m \in Names :
             entries[e][m] \in Dirs /\ entries[e][m] = entries[f][m] => e = f
      BY DEF OneParent
    <2>5. v[k - 1] = w[k - 1]
      BY <2>2, <2>3, <2>4
    <2> QED
      BY <2>1, <2>5
  <1>3. n \in S
    BY <1>1 DEF Chain
  <1>4. \A k \in j .. n : k \in S
    <2>1. j \in Int /\ n \in Int
      BY <1>1
    <2> HIDE DEF S, n
    <2> QED
      BY <2>1, <1>2, <1>3, Downwards
  <1>5. j \in S
    BY <1>1, <1>4
  <1> QED
    BY <1>5

\* What leads down to d along path is on the way on which d was opened.
Anchored(tree, path, d, way) ==
    \A j \in 0 .. Len(path) : \A w :
        Chain(w, j, tree.entries, path, d) => w[j] \in way

\* Directories without a place up to now have none, and a directory is at one.
TreeOK(tree) ==
    /\ DOMAIN tree = {"entries", "data", "changes", "fresh", "moved"}
    /\ tree.entries \in Tree
    /\ tree.fresh \subseteq Dirs \ {Root}
    /\ OneParent(tree.entries)
    /\ \A i \in tree.fresh, d \in Dirs, n \in Names : tree.entries[d][n] # i

\* A path that leads to a directory leads through the chain down to it.
LEMMA ChainIsTheWay ==
    ASSUME NEW entries \in Tree, NEW path \in Seq(Names), NEW d, NEW v,
           Chain(v, 0, entries, path, d), v[0] = Root, NEW j \in 0 .. Len(path)
    PROVE  InodeIn(entries, SubSeq(path, 1, j)) = v[j]
  <1>1. PICK part : part = SubSeq(path, 1, j)
    OBVIOUS
  <1>2. PICK u : u = [k \in 0 .. j |-> v[k]]
    OBVIOUS
  <1>3. j \in Nat /\ Len(path) \in Nat /\ j <= Len(path)
    BY LengthOfPath
  <1>4. /\ part \in Seq(Names) /\ Len(part) = j
        /\ \A k \in 1 .. j : part[k] = path[k]
    BY <1>1, <1>3
  <1>5. /\ DOMAIN u = 0 .. j /\ \A k \in 0 .. j : u[k] = v[k]
        /\ u[0] = Root /\ u[j] = v[j]
    BY <1>2, <1>3
  <1>6. u \in [0 .. j -> Dirs]
    <2>1. \A k \in 0 .. j : v[k] \in Dirs
      BY <1>3 DEF Chain
    <2> QED
      BY <1>2, <2>1
  <1>7. ASSUME NEW l \in 0 + 1 .. j PROVE entries[u[l - 1]][part[l]] = u[l]
    <2>1. l \in 0 + 1 .. Len(path) /\ l \in 1 .. j /\ l \in 0 .. j /\ l - 1 \in 0 .. j
      BY <1>3
    <2>2. entries[v[l - 1]][path[l]] = v[l]
      BY <2>1 DEF Chain
    <2> QED
      BY <1>4, <1>5, <2>1, <2>2
  <1>8. Chain(u, 0, entries, part, v[j])
    BY <1>4, <1>5, <1>6, <1>7 DEF Chain
  <1> QED
    BY <1>1, <1>4, <1>5, <1>8, ChainReaches

LEMMA OpenedIsAnchored ==
    ASSUME NEW tree, TreeOK(tree), NEW path \in Seq(Names),
           InodeIn(tree.entries, path) \in Dirs, NEW way,
           way = {InodeIn(tree.entries, SubSeq(path, 1, k)) : k \in 0 .. Len(path)}
    PROVE  /\ Anchored(tree, path, InodeIn(tree.entries, path), way)
           /\ way \cap tree.fresh = {}
  <1> DEFINE d == InodeIn(tree.entries, path)
  <1>1. PICK v : Chain(v, 0, tree.entries, path, d) /\ v[0] = Root
    BY ReachedByChain DEF TreeOK
  <1> HIDE DEF d
  <1>2. \A k \in 0 .. Len(path) : InodeIn(tree.entries, SubSeq(path, 1, k)) = v[k]
    BY <1>1, ChainIsTheWay DEF TreeOK
  <1>3. way = {v[k] : k \in 0 .. Len(path)}
    BY <1>2
  <1>4. ASSUME NEW j \in 0 .. Len(path), NEW w, Chain(w, j, tree.entries, path, d)
        PROVE  w[j] \in way
    <2>1. w[j] = v[j]
      BY <1>1, <1>4, ChainsAgree DEF TreeOK
    <2> QED
      BY <1>3, <2>1
  <1>5. ASSUME NEW j \in 0 .. Len(path) PROVE v[j] \notin tree.fresh
    <2>1. CASE j = 0
      BY <1>1, <2>1 DEF TreeOK
    <2>2. CASE j # 0
      <3>1. Len(path) \in Nat /\ j \in 1 .. Len(path) /\ path[j] \in Names
        BY <2>2, LengthOfPath
      <3>2. j \in 0 + 1 .. Len(path) /\ j - 1 \in 0 .. Len(path)
        BY <3>1
      <3>3. tree.entries[v[j - 1]][path[j]] = v[j] /\ v[j - 1] \in Dirs
        BY <1>1, <3>2 DEF Chain
      <3> QED
        BY <3>1, <3>3 DEF TreeOK
    <2> QED
      BY <2>1, <2>2
  <1>6. Anchored(tree, path, d, way)
    BY <1>4 DEF Anchored
  <1> QED
    BY <1>3, <1>5, <1>6 DEF d

-----------------------------------------------------------------------------
(* Another program gives a name another inode *)

Relinked(old, new, dir, name, i) ==
    /\ dir \in Dirs /\ name \in Names /\ i \in Inodes \cup {Nothing}
    /\ i \in Dirs => \A e \in Dirs, n \in Names : old.entries[e][n] # i
    /\ new.entries = [old.entries EXCEPT ![dir][name] = i]
    /\ new.fresh = old.fresh \ {i}
    /\ new.moved = old.moved \cup (({i} \cap Dirs) \ old.fresh)
    /\ DOMAIN new = DOMAIN old

LEMMA RelinkedPlaces ==
    ASSUME NEW old, NEW new, NEW dir, NEW name, NEW i, TreeOK(old),
           Relinked(old, new, dir, name, i)
    PROVE  /\ new.entries \in Tree
           /\ \A e \in Dirs, m \in Names :
                 new.entries[e][m] = IF e = dir /\ m = name THEN i
                                     ELSE old.entries[e][m]
  <1>1. i \in Entered
    BY DEF Relinked, TreeOK, Entered
  <1>2. old.entries \in [Dirs -> [Names -> Entered]]
    BY DEF TreeOK, Tree
  <1> QED
    BY <1>1, <1>2 DEF Relinked, Tree

LEMMA RelinkedIsATree ==
    ASSUME NEW old, NEW new, NEW dir, NEW name, NEW i, TreeOK(old),
           Relinked(old, new, dir, name, i)
    PROVE  TreeOK(new)
  <1>1. /\ new.entries \in Tree
        /\ \A e \in Dirs, m \in Names :
              new.entries[e][m] = IF e = dir /\ m = name THEN i
                                  ELSE old.entries[e][m]
    BY RelinkedPlaces
  <1>2. i \in Dirs => \A e \in Dirs, m \in Names : old.entries[e][m] # i
    BY DEF Relinked
  <1>3. OneParent(new.entries)
    BY <1>1, <1>2 DEF OneParent, TreeOK
  <1>4. \A x \in new.fresh, d \in Dirs, n \in Names : new.entries[d][n] # x
    BY <1>1 DEF TreeOK, Relinked
  <1> QED
    BY <1>1, <1>3, <1>4 DEF TreeOK, Relinked

\* No chain down to an anchored directory is new while nothing on the way to it
\* was moved.
LEMMA ChainsAreOld ==
    ASSUME NEW old, NEW new, NEW dir, NEW name, NEW i, TreeOK(old),
           Relinked(old, new, dir, name, i), NEW path \in Seq(Names), NEW d,
           NEW way, Anchored(old, path, d, way), way \cap old.fresh = {},
           way \cap new.moved = {}, NEW j \in 0 .. Len(path), NEW w,
           Chain(w, j, new.entries, path, d)
    PROVE  Chain(w, j, old.entries, path, d)
  <1> DEFINE n == Len(path)
             Suffix(l) == [x \in l .. n |-> w[x]]
             S == {l \in j .. n : \A x \in l + 1 .. n :
                                     old.entries[w[x - 1]][path[x]] = w[x]}
  <1>1. n \in Nat /\ \A k \in 1 .. n : path[k] \in Names
    BY LengthOfPath
  <1>2. /\ \A x \in j .. n : w[x] \in Dirs
        /\ w[n] = d
        /\ \A x \in j + 1 .. n : new.entries[w[x - 1]][path[x]] = w[x]
    BY DEF Chain
  <1>3. n \in S
    BY <1>1
  <1>4. ASSUME NEW l \in j + 1 .. n, l \in S PROVE l - 1 \in S
    <2>1. l \in j .. n /\ l - 1 \in j .. n /\ l \in 1 .. n /\ l \in 0 .. n
      BY <1>1
    <2>2. w[l] \in Dirs /\ w[l - 1] \in Dirs /\ path[l] \in Names
          /\ new.entries[w[l - 1]][path[l]] = w[l]
      BY <1>1, <1>2, <1>4, <2>1
    <2>3. \A x \in l .. n : Suffix(l)[x] = w[x]
      OBVIOUS
    <2>4. Suffix(l) \in [l .. n -> Dirs]
      BY <1>2, <2>1, <2>3
    <2>5. \A x \in l + 1 .. n : x \in l .. n /\ x - 1 \in l .. n
      BY <1>1, <2>1
    <2>6. \A x \in l + 1 .. n : old.entries[w[x - 1]][path[x]] = w[x]
      BY <1>4
    <2>7. l \in l .. n /\ n \in l .. n
      BY <1>1, <2>1
    <2> HIDE DEF Suffix
    <2>8. Chain(Suffix(l), l, old.entries, path, d)
      BY <1>2, <2>3, <2>4, <2>5, <2>6, <2>7 DEF Chain
    <2>9. w[l] \in way
      BY <2>1, <2>3, <2>7, <2>8 DEF Anchored
    <2>10. w[l] \notin old.fresh /\ w[l] \notin new.moved
      BY <2>9
    <2>11. w[l] # i
      BY <2>2, <2>10 DEF Relinked
    <2>12. old.entries[w[l - 1]][path[l]] = w[l]
      BY <2>2, <2>11, RelinkedPlaces
    <2>13. \A x \in (l - 1) + 1 .. n : x = l \/ x \in l + 1 .. n
      BY <1>1, <2>1
    <2> QED
      BY <2>1, <2>6, <2>12, <2>13
  <1>5. \A l \in j .. n : l \in S
    <2>1. j \in Int /\ n \in Int
      BY <1>1
    <2> HIDE DEF S, n
    <2> QED
      BY <2>1, <1>3, <1>4, Downwards
  <1>6. j \in S
    BY <1>1, <1>5
  <1>7. \A x \in j + 1 .. n : old.entries[w[x - 1]][path[x]] = w[x]
    BY <1>6
  <1> QED
    BY <1>7 DEF Chain

\* What was opened under a path and is found there after the change was there
\* before it, and stays so: it does not come back unless it is moved back.
LEMMA RelinkedAnchors ==
    ASSUME NEW old, NEW new, NEW dir, NEW name, NEW i, TreeOK(old),
           Relinked(old, new, dir, name, i), NEW path \in Seq(Names), NEW d \in Dirs,
           NEW way, Anchored(old, path, d, way), way \cap old.fresh = {},
           way \cap new.moved = {}
    PROVE  /\ Anchored(new, path, d, way)
           /\ InodeIn(new.entries, path) = d => InodeIn(old.entries, path) = d
  <1>1. ASSUME NEW j \in 0 .. Len(path), NEW w, Chain(w, j, new.entries, path, d)
        PROVE  w[j] \in way
    <2>1. Chain(w, j, old.entries, path, d)
      BY <1>1, ChainsAreOld
    <2> QED
      BY <2>1 DEF Anchored
  <1>2. ASSUME InodeIn(new.entries, path) = d
        PROVE  InodeIn(old.entries, path) = d
    <2>1. PICK w : Chain(w, 0, new.entries, path, d) /\ w[0] = Root
      BY <1>2, RelinkedPlaces, ReachedByChain
    <2>2. 0 \in 0 .. Len(path)
      BY LengthOfPath
    <2>3. Chain(w, 0, old.entries, path, d)
      BY <2>1, <2>2, ChainsAreOld
    <2> QED
      BY <2>1, <2>3, ChainReaches DEF TreeOK
  <1> QED
    BY <1>1, <1>2 DEF Anchored

-----------------------------------------------------------------------------
(* What a listing has in hand *)

\* What readdir has after each name.
Reads(w, d) ==
    /\ w \in [0 .. Len(NameOrder) -> Seq(Names)]
    /\ w[0] = <<>>
    /\ \A k \in 1 .. Len(NameOrder) :
          w[k] = IF fs.entries[d][NameOrder[k]] = Nothing THEN w[k - 1]
                 ELSE Append(w[k - 1], NameOrder[k])

\* readdir goes through all names in their order.
LEMMA ChildrenAreFollowed ==
    ASSUME NEW d
    PROVE  \E w : Reads(w, d) /\ w[Len(NameOrder)] = ChildrenOf(d)
  <1> DEFINE n == Len(NameOrder)
             A == Seq(Names)
             Take(a, m) == IF fs.entries[d][m] = Nothing THEN a ELSE Append(a, m)
             F == [p \in (1 .. n) \X A |-> Take(p[2], NameOrder[p[1]])]
             Is(it) == it = [t \in SUBSET (1 .. n) |-> IF t = {} THEN <<>>
                              ELSE Take(it[t \ {Max(t)}], NameOrder[Max(t)])]
             c == CHOOSE it : Is(it)
  <1>1. /\ n \in Nat /\ DOMAIN NameOrder = 1 .. n
        /\ \A k \in 1 .. n : NameOrder[k] \in Names
    BY TreeAssumption
  <1>2. ASSUME NEW k \in 1 .. n, NEW a \in A
        PROVE  F[<<k, a>>] = Take(a, NameOrder[k]) /\ F[<<k, a>>] \in A
    <2>1. F[<<k, a>>] = Take(a, NameOrder[k])
      OBVIOUS
    <2>2. Take(a, NameOrder[k]) \in A
      BY <1>1
    <2> QED
      BY <2>1, <2>2
  <1>3. <<>> \in A
    OBVIOUS
  <1>4. ChildrenOf(d) = c[1 .. n]
    BY <1>1 DEF ChildrenOf, FoldLeft, MapThenFoldSet
  <1> HIDE DEF F, n, A, Take
  <1>5. Closed(F, n, A)
    BY <1>2 DEF Closed
  <1>6. PICK it : FoldBy(it, F, n, A, <<>>)
    BY <1>1, <1>3, <1>5, FoldExists
  <1>7. Is(it)
    <2>1. ASSUME NEW t \in SUBSET (1 .. n), t # {}
          PROVE  F[<<Max(t), it[t \ {Max(t)}]>>] =
                    Take(it[t \ {Max(t)}], NameOrder[Max(t)])
      <3>1. it[t \ {Max(t)}] \in A
        BY <1>6 DEF FoldBy
      <3>2. Max(t) \in 1 .. n
        BY <1>1, <2>1, MaxIsThere
      <3> QED
        BY <1>2, <3>1, <3>2
    <2> QED
      BY <1>6, <2>1 DEF FoldBy
  <1>8. Is(c)
    BY <1>7
  <1> HIDE DEF c
  <1>9. c[{}] = <<>>
    BY <1>8, {} \in SUBSET (1 .. n)
  <1>10. ASSUME NEW k \in 1 .. n, c[1 .. k - 1] \in A
         PROVE  c[1 .. k] = F[<<k, c[1 .. k - 1]>>]
    <2>1. /\ 1 .. k \in SUBSET (1 .. n) /\ 1 .. k # {} /\ Max(1 .. k) = k
          /\ (1 .. k) \ {k} = 1 .. k - 1
      BY <1>1, WholeInterval
    <2>2. c[1 .. k] = Take(c[1 .. k - 1], NameOrder[k])
      BY <1>8, <2>1
    <2> QED
      BY <1>2, <1>10, <2>2
  <1>11. PICK w : Follows(w, F, n, A, <<>>) /\ w[n] = c[1 .. n]
    BY <1>1, <1>3, <1>5, <1>9, <1>10, FoldIsFollowed
  <1>12. Reads(w, d)
    <2>1. ASSUME NEW k \in 1 .. n PROVE w[k] = Take(w[k - 1], NameOrder[k])
      <3>1. w[k - 1] \in A /\ w[k] = F[<<k, w[k - 1]>>]
        BY <1>1, <1>11 DEF Follows
      <3> QED
        BY <1>2, <3>1
    <2> QED
      BY <1>11, <2>1 DEF Reads, Follows, n, A, Take
  <1> QED
    BY <1>4, <1>11, <1>12 DEF n

\* The children of a directory are names.
LEMMA ChildrenAreNames ==
    ASSUME NEW d
    PROVE  ChildrenOf(d) \in Seq(Names)
  <1>1. PICK w : Reads(w, d) /\ w[Len(NameOrder)] = ChildrenOf(d)
    BY ChildrenAreFollowed
  <1>2. Len(NameOrder) \in 0 .. Len(NameOrder)
    BY TreeAssumption
  <1> QED
    BY <1>1, <1>2 DEF Reads

FrameFields == {"path", "depth", "opened", "from", "names", "looked", "way"}

\* Nothing on the way on which the directory was opened was moved since.
Unmoved(tree, frame) == frame.way \cap tree.moved = {}

\* A directory that was opened under its path.
Held(tree, frame) ==
    /\ DOMAIN frame = FrameFields
    /\ frame.path \in Seq(Names)
    /\ frame.opened \in Dirs
    /\ frame.way \cap tree.fresh = {}
    /\ Unmoved(tree, frame) => Anchored(tree, frame.path, frame.opened, frame.way)

\* Its children were read from it.
Listed(tree, frame) ==
    /\ Held(tree, frame)
    /\ frame.names \in Seq(Names)
    /\ Unmoved(tree, frame) => frame.from = frame.opened

\* The path of the frame leads to the directory it opened and has done so since.
StillThere(tree, frame) ==
    Unmoved(tree, frame) /\ InodeIn(tree.entries, frame.path) = frame.opened

\* The directory that is being read, at each place of the loop.  What was read
\* by name counts only if the name still leads to the directory that was opened:
\* then it did when it was read.
TopOK(tree, pc, frame) ==
    /\ pc = "open" => DOMAIN frame = FrameFields /\ frame.path \in Seq(Names)
    /\ pc = "readdir" => Held(tree, frame)
    /\ pc = "validate" =>
          /\ Held(tree, frame) /\ frame.names \in Seq(Names)
          /\ StillThere(tree, frame) => frame.from = frame.opened
    /\ pc \in {"next", "lstat", "confirm"} => Listed(tree, frame)
    /\ pc \in {"lstat", "confirm"} => frame.names # <<>>
    /\ pc = "confirm" =>
          (StillThere(tree, frame) => frame.looked.dir = frame.opened)

ListPcs == {"open", "readdir", "validate", "next", "lstat", "confirm"}

StackOK(tree, pc, stack) ==
    /\ \E S : stack \in Seq(S)
    /\ stack # <<>>
    /\ TopOK(tree, pc, stack[1])
    /\ \A k \in 2 .. Len(stack) : Listed(tree, stack[k])

EntriesOK(entries, moved) ==
    /\ \E S : entries \in Seq(S)
    /\ \A k \in DOMAIN entries :
          entries[k].way \cap moved = {} => entries[k].looked = {entries[k].opened}

ListInv ==
    /\ TreeOK(fs)
    /\ call.pc \in ListPcs => StackOK(fs, call.pc, call.stack)
    /\ call.pc = "resolve" => call.args.path \in Seq(Names)
    /\ EntriesOK(call.entries, fs.moved)

LEMMA ListInvInit == Init => ListInv
  <1> SUFFICES ASSUME Init PROVE ListInv
    OBVIOUS
  <1>1. DOMAIN fs = {"entries", "data", "changes", "fresh", "moved"}
        /\ fs.entries = InitialEntries
        /\ fs.fresh = {d \in Dirs \ {Root} :
                          \A e \in Dirs, n \in Names : InitialEntries[e][n] # d}
    BY DEF Init
  <1>2. TreeOK(fs)
    <2>1. InitialEntries \in Tree
      BY TreeAssumption DEF Tree, Entered
    <2>2. OneParent(InitialEntries)
      BY TreeAssumption DEF OneParent
    <2> QED
      BY <1>1, <2>1, <2>2 DEF TreeOK
  <1>3. call.pc = "execute" /\ call.entries = <<>>
    BY DEF Init
  <1>4. EntriesOK(call.entries, fs.moved)
    <2>1. <<>> \in Seq({}) /\ DOMAIN <<>> = {}
      OBVIOUS
    <2> QED
      BY <1>3, <2>1 DEF EntriesOK
  <1> QED
    BY <1>2, <1>3, <1>4 DEF ListInv, ListPcs

\* A step that leaves the listing, or never was in it.
LEMMA ElsewhereKeeps ==
    ASSUME ListInv, fs' = fs, call'.entries = call.entries,
           call'.pc \notin ListPcs, call'.pc # "resolve"
    PROVE  ListInv'
  BY DEF ListInv

LEMMA ListInvRelink ==
    ASSUME ListInv, NEW path, NEW name \in Names, NEW i \in Inodes \cup {Nothing},
           Relink(path, name, i)
    PROVE  ListInv'
  <1>1. PICK dir : dir = InodeAt(path)
    OBVIOUS
  <1>2. Relinked(fs, fs', dir, name, i) /\ call' = call
    BY <1>1 DEF Relink, Relinked, ListInv, TreeOK
  <1>3. TreeOK(fs) /\ TreeOK(fs') /\ fs.moved \subseteq fs'.moved
        /\ fs'.fresh \subseteq fs.fresh
    BY <1>2, RelinkedIsATree DEF ListInv, Relinked
  <1>4. ASSUME NEW frame, Held(fs, frame), Unmoved(fs', frame)
        PROVE  /\ Unmoved(fs, frame)
               /\ Anchored(fs', frame.path, frame.opened, frame.way)
               /\ InodeIn(fs'.entries, frame.path) = frame.opened
                     => InodeIn(fs.entries, frame.path) = frame.opened
    <2>1. Unmoved(fs, frame) /\ frame.way \cap fs'.moved = {}
      BY <1>3, <1>4 DEF Unmoved
    <2>2. /\ frame.path \in Seq(Names) /\ frame.opened \in Dirs
          /\ frame.way \cap fs.fresh = {}
          /\ Anchored(fs, frame.path, frame.opened, frame.way)
      BY <1>4, <2>1 DEF Held
    <2> QED
      BY <1>2, <1>3, <2>1, <2>2, RelinkedAnchors
  <1>5. ASSUME NEW frame, Held(fs, frame) PROVE Held(fs', frame)
    BY <1>3, <1>4, <1>5 DEF Held
  <1>6. ASSUME NEW frame, Held(fs, frame), StillThere(fs', frame)
        PROVE  StillThere(fs, frame)
    BY <1>4, <1>6 DEF StillThere
  <1>7. ASSUME NEW frame, Listed(fs, frame) PROVE Listed(fs', frame)
    BY <1>4, <1>5, <1>7 DEF Listed
  <1>8. ASSUME NEW frame, NEW pc, TopOK(fs, pc, frame) PROVE TopOK(fs', pc, frame)
    BY <1>5, <1>6, <1>7, <1>8 DEF TopOK, Listed
  <1>9. ASSUME NEW pc, NEW stack, StackOK(fs, pc, stack)
        PROVE  StackOK(fs', pc, stack)
    BY <1>7, <1>8, <1>9 DEF StackOK
  <1>10. call.pc \in ListPcs => StackOK(fs', call.pc, call.stack)
    BY <1>9 DEF ListInv
  <1>11. EntriesOK(call.entries, fs'.moved)
    BY <1>3 DEF ListInv, EntriesOK
  <1> QED
    BY <1>2, <1>3, <1>10, <1>11 DEF ListInv

\* The frame on top moves on.
LEMMA TopMoves ==
    ASSUME ListInv, call.pc \in ListPcs, NEW pc \in ListPcs, NEW frame,
           fs' = fs, call'.entries = call.entries, call'.pc = pc,
           call'.stack = [call.stack EXCEPT ![1] = frame],
           TopOK(fs, pc, frame)
    PROVE  ListInv'
  <1>1. StackOK(fs, call.pc, call.stack)
    BY DEF ListInv
  <1>2. PICK S : call.stack \in Seq(S)
    BY <1>1 DEF StackOK
  <1>3. call.stack # <<>> /\ Len(call.stack) \in Nat /\ Len(call.stack) >= 1
    BY <1>1, <1>2 DEF StackOK
  <1>4. /\ call'.stack \in Seq(S \cup {frame})
        /\ Len(call'.stack) = Len(call.stack)
        /\ call'.stack[1] = frame
        /\ \A k \in 2 .. Len(call.stack) : call'.stack[k] = call.stack[k]
    BY <1>2, <1>3
  <1>5. StackOK(fs, pc, call'.stack)
    BY <1>1, <1>3, <1>4 DEF StackOK
  <1> QED
    BY <1>5 DEF ListInv, ListPcs

\* A step of the listing that fails or answers.
LEMMA FailingKeeps ==
    ASSUME ListInv, TypesOK, call' = Fails(call), fs' = fs
    PROVE  ListInv'
  <1>1. call'.pc = "project" /\ call'.entries = call.entries
    BY DEF Fails, Returned, TypesOK, CallFields
  <1> QED
    BY <1>1, ElsewhereKeeps DEF ListPcs

LEMMA AnsweringKeeps ==
    ASSUME ListInv, NEW c, DOMAIN c = CallFields, c.entries = call.entries,
           NEW output, call' = Answers(c, output), fs' = fs
    PROVE  ListInv'
  <1>1. call'.pc \in {"project", "write"} /\ call'.entries = call.entries
    BY DEF Answers, Returned, CallFields
  <1> QED
    BY <1>1, ElsewhereKeeps DEF ListPcs

LEMMA LeavingKeeps ==
    ASSUME ListInv, TypesOK, call.pc \in ListPcs, call' = LeavesDirectory(call), fs' = fs
    PROVE  ListInv'
  <1>1. StackOK(fs, call.pc, call.stack)
    BY DEF ListInv
  <1>2. PICK S : call.stack \in Seq(S)
    BY <1>1 DEF StackOK
  <1>3. Len(call.stack) \in Nat /\ Len(call.stack) >= 1
    BY <1>1, <1>2 DEF StackOK
  <1>4. CASE Len(call.stack) = 1
    <2>1. call' = Answers(call, RowsOutput(call.entries))
      BY <1>4 DEF LeavesDirectory
    <2> QED
      BY <2>1, AnsweringKeeps DEF TypesOK
  <1>5. CASE Len(call.stack) # 1
    <2>1. /\ call'.stack = Tail(call.stack) /\ call'.pc = "next"
          /\ call'.entries = call.entries
      BY <1>5 DEF LeavesDirectory, TypesOK, CallFields
    <2>2. /\ Tail(call.stack) \in Seq(S) /\ Len(Tail(call.stack)) = Len(call.stack) - 1
          /\ \A k \in 1 .. Len(call.stack) - 1 : Tail(call.stack)[k] = call.stack[k + 1]
      BY <1>2, <1>3
    <2>3. PICK rest : rest = Tail(call.stack)
      OBVIOUS
    <2>4. /\ call'.stack = rest /\ rest \in Seq(S)
          /\ Len(rest) \in Nat /\ Len(rest) = Len(call.stack) - 1
          /\ \A k \in 1 .. Len(call.stack) - 1 : rest[k] = call.stack[k + 1]
      BY <1>3, <2>1, <2>2, <2>3
    <2>5. ASSUME NEW k \in 1 .. Len(rest)
          PROVE  Listed(fs, rest[k])
      <3>1. k + 1 \in 2 .. Len(call.stack) /\ k \in 1 .. Len(call.stack) - 1
        BY <1>3, <2>4
      <3>2. Listed(fs, call.stack[k + 1])
        BY <1>1, <3>1 DEF StackOK
      <3> QED
        BY <2>4, <3>1, <3>2
    <2>6. rest # <<>> /\ Len(rest) >= 1
      <3>1. Len(rest) >= 1
        <4>1. PICK m \in Nat : m = Len(call.stack)
          BY <1>3
        <4>2. m >= 1 /\ m # 1
          BY <1>3, <1>5, <4>1
        <4>3. m - 1 >= 1
          BY <4>2
        <4> QED
          BY <2>4, <4>1, <4>3
      <3>2. Len(<<>>) = 0
        OBVIOUS
      <3> QED
        BY <3>1, <3>2
    <2>7. TopOK(fs, "next", rest[1])
      BY <2>4, <2>5, <2>6 DEF TopOK
    <2>8. \A k \in 2 .. Len(rest) : Listed(fs, rest[k])
      BY <2>4, <2>5
    <2>9. StackOK(fs, "next", rest)
      BY <2>4, <2>6, <2>7, <2>8 DEF StackOK
    <2> QED
      BY <2>1, <2>4, <2>9 DEF ListInv, ListPcs
  <1> QED
    BY <1>4, <1>5

\* The frame on top, as the place of the call says.
LEMMA TopIsOK ==
    ASSUME ListInv, call.pc \in ListPcs
    PROVE  TopOK(fs, call.pc, Dir) /\ TreeOK(fs)
  BY DEF ListInv, StackOK, Dir

LEMMA SameStack ==
    ASSUME ListInv, call.pc \in ListPcs, NEW pc \in ListPcs,
           fs' = fs, call'.entries = call.entries, call'.pc = pc,
           call'.stack = call.stack, TopOK(fs, pc, Dir)
    PROVE  ListInv'
  <1>1. StackOK(fs, pc, call.stack)
    BY DEF ListInv, StackOK, Dir
  <1> QED
    BY <1>1 DEF ListInv, ListPcs

LEMMA ListStackIsSeq ==
    ASSUME ListInv, call.pc \in ListPcs
    PROVE  1 \in DOMAIN call.stack
  <1>1. StackOK(fs, call.pc, call.stack)
    BY DEF ListInv
  <1>2. PICK S : call.stack \in Seq(S)
    BY <1>1 DEF StackOK
  <1> QED
    BY <1>1, <1>2 DEF StackOK

LEMMA OpenDirectoryLists ==
    ASSUME ListInv, TypesOK, OpenDirectory
    PROVE  ListInv'
  <1>1. call.pc = "open" /\ call.pc \in ListPcs /\ fs' = fs
    BY DEF OpenDirectory, CallOnly, ListPcs
  <1>2. CASE call' = LeavesDirectory(call)
    BY <1>1, <1>2, LeavingKeeps
  <1>3. CASE call' = Fails(call)
    BY <1>1, <1>3, FailingKeeps
  <1>4. CASE /\ InodeAt(Dir.path) \in Dirs
             /\ call' = [call EXCEPT !.stack[1].opened = InodeAt(Dir.path),
                                     !.stack[1].way = Way(Dir.path),
                                     !.pc = "readdir"]
    <2> DEFINE frame == [Dir EXCEPT !.opened = InodeAt(Dir.path),
                                    !.way = Way(Dir.path)]
    <2>1. DOMAIN Dir = FrameFields /\ Dir.path \in Seq(Names)
      BY <1>1, TopIsOK DEF TopOK
    <2>2. frame.path = Dir.path /\ frame.opened = InodeAt(Dir.path)
          /\ frame.way = Way(Dir.path) /\ DOMAIN frame = FrameFields
      BY <2>1 DEF FrameFields
    <2>3. /\ call'.stack = [call.stack EXCEPT ![1] = frame]
          /\ call'.pc = "readdir" /\ call'.entries = call.entries
      BY <1>1, <1>4, ListStackIsSeq DEF TypesOK, CallFields, Dir
    <2> HIDE DEF frame
    <2>4. /\ Anchored(fs, Dir.path, InodeAt(Dir.path), Way(Dir.path))
          /\ Way(Dir.path) \cap fs.fresh = {}
      <3>1. Way(Dir.path) = {InodeIn(fs.entries, SubSeq(Dir.path, 1, k)) :
                                k \in 0 .. Len(Dir.path)}
        BY DEF Way, InodeAt
      <3> QED
        BY <1>1, <1>4, <2>1, <3>1, TopIsOK, OpenedIsAnchored DEF InodeAt
    <2>5. TopOK(fs, "readdir", frame)
      BY <1>4, <2>1, <2>2, <2>4 DEF TopOK, Held
    <2> QED
      BY <1>1, <2>3, <2>5, TopMoves DEF ListPcs
  <1> QED
    BY <1>2, <1>3, <1>4 DEF OpenDirectory

LEMMA ReadDirectoryLists ==
    ASSUME ListInv, TypesOK, ReadDirectory
    PROVE  ListInv'
  <1> DEFINE d == InodeAt(Dir.path)
  <1>1. call.pc = "readdir" /\ call.pc \in ListPcs /\ fs' = fs
    BY DEF ReadDirectory, CallOnly, ListPcs
  <1>2. CASE call' = Fails(call)
    BY <1>1, <1>2, FailingKeeps
  <1>3. ASSUME NEW names \in NamesIn(d),
               call' = [call EXCEPT !.stack[1].names = names,
                                    !.stack[1].from = d, !.pc = "validate"]
        PROVE  ListInv'
    <2> DEFINE frame == [Dir EXCEPT !.names = names, !.from = d]
    <2>1. Held(fs, Dir)
      BY <1>1, TopIsOK DEF TopOK
    <2>2. /\ frame.path = Dir.path /\ frame.opened = Dir.opened
          /\ frame.from = d /\ frame.names = names
          /\ frame.way = Dir.way /\ DOMAIN frame = FrameFields
      BY <2>1 DEF Held, FrameFields
    <2>3. /\ call'.stack = [call.stack EXCEPT ![1] = frame]
          /\ call'.pc = "validate" /\ call'.entries = call.entries
      BY <1>1, <1>3, ListStackIsSeq DEF TypesOK, CallFields, Dir
    <2> HIDE DEF frame
    <2>4. names \in Seq(Names)
      BY <1>3, ChildrenAreNames, ToolAssumption DEF NamesIn
    <2>5. Held(fs, frame)
      BY <2>1, <2>2 DEF Held, Unmoved
    <2>6. TopOK(fs, "validate", frame)
      BY <2>1, <2>2, <2>4, <2>5 DEF TopOK, StillThere, InodeAt
    <2> QED
      BY <1>1, <2>3, <2>6, TopMoves DEF ListPcs
  <1> QED
    BY <1>2, <1>3 DEF ReadDirectory

LEMMA ValidateDirectoryLists ==
    ASSUME ListInv, TypesOK, ValidateDirectory
    PROVE  ListInv'
  <1>1. call.pc = "validate" /\ call.pc \in ListPcs /\ fs' = fs
    BY DEF ValidateDirectory, CallOnly, ListPcs
  <1>2. CASE call' = Fails(call)
    BY <1>1, <1>2, FailingKeeps
  <1>3. CASE SameDirectory /\ call' = [call EXCEPT !.pc = "next"]
    <2>1. /\ call'.stack = call.stack
          /\ call'.pc = "next" /\ call'.entries = call.entries
      BY <1>3 DEF TypesOK, CallFields
    <2>2. TopOK(fs, "next", Dir)
      <3>1. TopOK(fs, "validate", Dir)
        BY <1>1, TopIsOK
      <3> QED
        BY <1>3, <3>1 DEF TopOK, Listed, StillThere, SameDirectory, InodeAt
    <2> QED
      BY <1>1, <2>1, <2>2, SameStack DEF ListPcs
  <1> QED
    BY <1>2, <1>3 DEF ValidateDirectory

LEMMA NextChildLists ==
    ASSUME ListInv, TypesOK, NextChild
    PROVE  ListInv'
  <1>1. call.pc = "next" /\ call.pc \in ListPcs /\ fs' = fs
    BY DEF NextChild, CallOnly, ListPcs
  <1>2. CASE call' = LeavesDirectory(call)
    BY <1>1, <1>2, LeavingKeeps
  <1>3. CASE call' = Fails(call)
    BY <1>1, <1>3, FailingKeeps
  <1>4. CASE Dir.names # <<>> /\ call' = [call EXCEPT !.pc = "lstat"]
    <2>1. /\ call'.stack = call.stack
          /\ call'.pc = "lstat" /\ call'.entries = call.entries
      BY <1>4 DEF TypesOK, CallFields
    <2>2. TopOK(fs, "lstat", Dir)
      <3>1. TopOK(fs, "next", Dir)
        BY <1>1, TopIsOK
      <3> QED
        BY <1>4, <3>1 DEF TopOK
    <2> QED
      BY <1>1, <2>1, <2>2, SameStack DEF ListPcs
  <1> QED
    BY <1>2, <1>3, <1>4 DEF NextChild

LEMMA LstatChildLists ==
    ASSUME ListInv, TypesOK, LstatChild
    PROVE  ListInv'
  <1>1. call.pc = "lstat" /\ call.pc \in ListPcs /\ fs' = fs
    BY DEF LstatChild, CallOnly, ListPcs
  <1>2. CASE call' = Fails(call)
    BY <1>1, <1>2, FailingKeeps
  <1>3. ASSUME NEW kind,
               call' = [call EXCEPT
                   !.stack[1].looked = [dir |-> InodeAt(Dir.path), kind |-> kind],
                   !.pc = "confirm"]
        PROVE  ListInv'
    <2> DEFINE seen == [dir |-> InodeAt(Dir.path), kind |-> kind]
    <2> DEFINE frame == [Dir EXCEPT !.looked = seen]
    <2>1. Listed(fs, Dir) /\ Dir.names # <<>>
      BY <1>1, TopIsOK DEF TopOK
    <2>2. /\ frame.path = Dir.path /\ frame.opened = Dir.opened
          /\ frame.from = Dir.from /\ frame.names = Dir.names
          /\ frame.looked = seen /\ frame.way = Dir.way
          /\ DOMAIN frame = FrameFields
      BY <2>1 DEF Listed, Held, FrameFields
    <2>3. /\ call'.stack = [call.stack EXCEPT ![1] = frame]
          /\ call'.pc = "confirm" /\ call'.entries = call.entries
      BY <1>3 DEF TypesOK, CallFields, Dir
    <2>4. frame.looked.dir = InodeAt(Dir.path)
      BY <2>2
    <2> HIDE DEF frame, seen
    <2>5. Listed(fs, frame)
      BY <2>1, <2>2 DEF Listed, Held, Unmoved
    <2>6. TopOK(fs, "confirm", frame)
      BY <2>1, <2>2, <2>4, <2>5 DEF TopOK, StillThere, InodeAt
    <2> QED
      BY <1>1, <2>3, <2>6, TopMoves DEF ListPcs
  <1> QED
    BY <1>2, <1>3 DEF LstatChild

\* The entry that is taken was read from the directory that was opened.
LEMMA ConfirmChildLists ==
    ASSUME ListInv, TypesOK, ConfirmChild
    PROVE  ListInv'
  <1> DEFINE entry == [path |-> ChildPath, kind |-> Dir.looked.kind,
                       opened |-> Dir.opened, way |-> Dir.way,
                       looked |-> {Dir.from, Dir.looked.dir}]
             frame == [Dir EXCEPT !.names = Tail(Dir.names)]
             under == Frame(ChildPath, Dir.depth - 1)
             taken == [call EXCEPT !.entries = Append(@, entry),
                                   !.stack[1].names = Tail(@)]
  <1>1. call.pc = "confirm" /\ call.pc \in ListPcs /\ fs' = fs
    BY DEF ConfirmChild, CallOnly, ListPcs
  <1>2. CASE call' = Fails(call)
    BY <1>1, <1>2, FailingKeeps
  <1>3. CASE /\ SameDirectory
             /\ \/ call' = [taken EXCEPT !.stack = <<under>> \o @, !.pc = "open"]
                \/ call' = [taken EXCEPT !.pc = "next"]
    <2>1. /\ Listed(fs, Dir) /\ Dir.names # <<>>
          /\ StillThere(fs, Dir) => Dir.looked.dir = Dir.opened
      BY <1>1, TopIsOK DEF TopOK
    <2>2. Unmoved(fs, Dir) => Dir.looked.dir = Dir.opened /\ Dir.from = Dir.opened
      BY <1>3, <2>1 DEF SameDirectory, InodeAt, Listed, StillThere
    <2>3. entry.way \cap fs.moved = {} => entry.looked = {entry.opened}
      BY <2>2 DEF Unmoved
    <2>4. /\ frame.path = Dir.path /\ frame.opened = Dir.opened
          /\ frame.from = Dir.from /\ frame.names = Tail(Dir.names)
          /\ frame.way = Dir.way /\ DOMAIN frame = FrameFields
      BY <2>1 DEF Listed, Held, FrameFields
    <2>5. Tail(Dir.names) \in Seq(Names) /\ Head(Dir.names) \in Names
      BY <2>1 DEF Listed
    <2>6. ChildPath \in Seq(Names)
      BY <2>1, <2>5 DEF Listed, Held, ChildPath
    <2>7. under.path = ChildPath /\ DOMAIN under = FrameFields
      BY DEF Frame, FrameFields
    <2>8. /\ taken.stack = [call.stack EXCEPT ![1] = frame]
          /\ taken.entries = Append(call.entries, entry)
          /\ DOMAIN taken = CallFields
      BY DEF TypesOK, CallFields, Dir
    <2> HIDE DEF entry, frame, under, taken
    <2>9. /\ call'.entries = Append(call.entries, entry)
          /\ \/ call'.pc = "next" /\ call'.stack = [call.stack EXCEPT ![1] = frame]
             \/ /\ call'.pc = "open"
                /\ call'.stack = <<under>> \o [call.stack EXCEPT ![1] = frame]
      BY <1>3, <2>8 DEF CallFields
    <2>10. EntriesOK(call'.entries, fs.moved)
      <3>1. EntriesOK(call.entries, fs.moved)
        BY DEF ListInv
      <3>2. PICK S : call.entries \in Seq(S)
        BY <3>1 DEF EntriesOK
      <3>3. /\ call'.entries \in Seq(S \cup {entry})
            /\ \A k \in DOMAIN call'.entries :
                  \/ k \in DOMAIN call.entries /\ call'.entries[k] = call.entries[k]
                  \/ call'.entries[k] = entry
        BY <2>9, <3>2
      <3> QED
        BY <2>3, <3>1, <3>3 DEF EntriesOK
    <2>11. PICK stack : stack = [call.stack EXCEPT ![1] = frame]
      OBVIOUS
    <2>12. StackOK(fs, call.pc, call.stack)
      BY <1>1 DEF ListInv
    <2>13. PICK S : call.stack \in Seq(S)
      BY <2>12 DEF StackOK
    <2>14. /\ stack \in Seq(S \cup {frame})
           /\ Len(stack) = Len(call.stack) /\ Len(stack) \in Nat /\ Len(stack) >= 1
           /\ stack[1] = frame
           /\ \A k \in 2 .. Len(stack) : stack[k] = call.stack[k]
      BY <2>11, <2>12, <2>13 DEF StackOK
    <2>15. Listed(fs, frame)
      BY <2>1, <2>4, <2>5 DEF Listed, Held, Unmoved
    <2>16. \A k \in 1 .. Len(stack) : Listed(fs, stack[k])
      <3>1. \A k \in 2 .. Len(stack) : Listed(fs, stack[k])
        BY <2>12, <2>14 DEF StackOK
      <3>2. \A k \in 1 .. Len(stack) : k = 1 \/ k \in 2 .. Len(stack)
        BY <2>14
      <3> QED
        BY <2>14, <2>15, <3>1, <3>2
    <2>17. CASE call'.pc = "next" /\ call'.stack = stack
      <3>1. TopOK(fs, "next", stack[1])
        BY <2>14, <2>15 DEF TopOK
      <3>2. \A k \in 2 .. Len(stack) : Listed(fs, stack[k])
        BY <2>14, <2>16
      <3>3. stack # <<>>
        BY <2>14
      <3>4. StackOK(fs, "next", stack)
        BY <2>14, <3>1, <3>2, <3>3 DEF StackOK
      <3> QED
        BY <1>1, <2>10, <2>17, <3>4 DEF ListInv, ListPcs
    <2>18. CASE call'.pc = "open" /\ call'.stack = <<under>> \o stack
      <3>1. PICK deeper : deeper = <<under>> \o stack
        OBVIOUS
      <3>2. /\ deeper \in Seq((S \cup {frame}) \cup {under})
            /\ Len(deeper) = Len(stack) + 1
            /\ deeper[1] = under
            /\ \A k \in 2 .. Len(stack) + 1 : deeper[k] = stack[k - 1]
        BY <2>14, <3>1
      <3>3. ASSUME NEW k \in 2 .. Len(deeper) PROVE Listed(fs, deeper[k])
        <4>1. k \in 2 .. Len(stack) + 1 /\ k - 1 \in 1 .. Len(stack)
          BY <2>14, <3>2
        <4> QED
          BY <2>16, <3>2, <4>1
      <3>4. TopOK(fs, "open", deeper[1])
        BY <2>6, <2>7, <3>2 DEF TopOK
      <3>5. deeper # <<>>
        BY <2>14, <3>2
      <3>6. StackOK(fs, "open", deeper)
        BY <3>2, <3>3, <3>4, <3>5 DEF StackOK
      <3> QED
        BY <1>1, <2>10, <2>18, <3>1, <3>6 DEF ListInv, ListPcs
    <2> QED
      BY <2>9, <2>11, <2>17, <2>18
  <1> QED
    BY <1>2, <1>3 DEF ConfirmChild

LEMMA ResolveLists ==
    ASSUME ListInv, TypesOK, Resolve
    PROVE  ListInv'
  <1> DEFINE frame == Frame(call.args.path, call.args.depth)
  <1>1. call.pc = "resolve" /\ fs' = fs /\ call.args.path \in Seq(Names)
    BY DEF Resolve, CallOnly, ListInv
  <1>2. CASE call' = Fails(call)
    BY <1>1, <1>2, FailingKeeps
  <1>3. CASE call' = [call EXCEPT !.pc = "open", !.stack = <<frame>>]
    <2>1. call'.pc = "open" /\ call'.stack = <<frame>> /\ call'.entries = call.entries
      BY <1>3 DEF TypesOK, CallFields
    <2>2. DOMAIN frame = FrameFields /\ frame.path = call.args.path
      BY DEF Frame, FrameFields
    <2> HIDE DEF frame
    <2>3. /\ <<frame>> \in Seq({frame}) /\ <<frame>> # <<>> /\ <<frame>>[1] = frame
          /\ Len(<<frame>>) = 1
      OBVIOUS
    <2>4. TopOK(fs, "open", frame)
      BY <1>1, <2>2 DEF TopOK
    <2>5. PICK stack : stack = <<frame>>
      OBVIOUS
    <2>6. 2 .. Len(stack) = {}
      BY <2>3, <2>5
    <2>7. StackOK(fs, "open", stack)
      BY <2>3, <2>4, <2>5, <2>6 DEF StackOK
    <2> QED
      BY <1>1, <2>1, <2>5, <2>7 DEF ListInv, ListPcs
  <1>4. CASE /\ call'.pc \in {"spawn", "openFile", "nextFile", "find"}
             /\ call'.entries = call.entries
    BY <1>1, <1>4, ElsewhereKeeps DEF ListPcs
  <1>5. \/ call' = Fails(call)
        \/ call' = [call EXCEPT !.pc = "open", !.stack = <<frame>>]
        \/ /\ call'.pc \in {"spawn", "openFile", "nextFile", "find"}
           /\ call'.entries = call.entries
    BY DEF Resolve, TypesOK, CallFields
  <1> QED
    BY <1>2, <1>3, <1>4, <1>5

LEMMA ExecuteLists ==
    ASSUME ListInv, TypesOK, NEW tool, NEW path \in Paths \cup {Nothing}, NEW depth,
           NEW limit, NEW byteLimit, Execute(tool, path, depth, limit, byteLimit)
    PROVE  ListInv'
  <1> DEFINE args == Normalize(tool, path, depth, limit, byteLimit)
  <1>1. call.pc = "execute" /\ fs' = fs
    BY DEF Execute, CallOnly
  <1>2. /\ DOMAIN args = {"path", "depth", "limit", "byteLimit"}
        /\ args.path \in {<<>>, path}
    BY DEF Normalize
  <1>3. \/ call' = Returned([call EXCEPT !.tool = tool], "cancelled")
        \/ call' = Returned([call EXCEPT !.tool = tool], "failed")
        \/ /\ call' = [[call EXCEPT !.tool = tool] EXCEPT !.pc = "resolve", !.args = args]
           /\ \A f \in DOMAIN args : args[f] # Nothing
    BY DEF Execute
  <1> HIDE DEF args
  <1>4. CASE call'.pc = "project" /\ call'.entries = call.entries
    BY <1>1, <1>4, ElsewhereKeeps DEF ListPcs
  <1>5. CASE /\ call'.pc = "resolve" /\ call'.entries = call.entries
             /\ call'.args = args /\ args["path"] # Nothing
    <2>1. args.path \in Seq(Names)
      <3>1. args.path \in Paths \cup {<<>>}
        BY <1>2, <1>5
      <3>2. ASSUME NEW p \in Paths PROVE p \in Seq(Names)
        <4>1. PICK k \in 0 .. MaxNames : p \in [1 .. k -> Names]
          BY DEF Paths, SeqOf
        <4> QED
          BY <4>1
      <3>3. <<>> \in Seq(Names)
        OBVIOUS
      <3> QED
        BY <3>1, <3>2, <3>3
    <2> QED
      BY <1>1, <1>5, <2>1 DEF ListInv, ListPcs
  <1>6. \/ call'.pc = "project" /\ call'.entries = call.entries
        \/ /\ call'.pc = "resolve" /\ call'.entries = call.entries
           /\ call'.args = args /\ args["path"] # Nothing
    BY <1>2, <1>3 DEF Returned, TypesOK, CallFields
  <1> QED
    BY <1>4, <1>5, <1>6

\* The other steps take no entry and stay out of the loop over directories.
LEMMA OtherStepsAreElsewhere ==
    ASSUME ListInv, TypesOK,
           SystemError \/ FileStep \/ SearchStep \/ GitStep \/ WriteArtifact \/ Project
    PROVE  ListInv'
  <1>1. CASE SystemError
    BY <1>1, FailingKeeps DEF SystemError, CallOnly
  <1>2. CASE FileStep
    <2>1. CASE NextFile
      <3>1. /\ fs' = fs
            /\ \/ call' = Answers(call, RowsOutput(call.matches))
               \/ call' = [call EXCEPT !.pc = "openFile"]
        BY <2>1 DEF NextFile, CallOnly
      <3>2. CASE call' = [call EXCEPT !.pc = "openFile"]
        <4>1. call'.pc = "openFile" /\ call'.entries = call.entries
          BY <3>2 DEF TypesOK, CallFields
        <4> QED
          BY <3>1, <4>1, ElsewhereKeeps DEF ListPcs
      <3> QED
        BY <3>1, <3>2, AnsweringKeeps DEF TypesOK
    <2>2. CASE OpenFile \/ VerifyFile
      <3>1. /\ fs' = fs
            /\ \/ call' = Fails(call)
               \/ call'.pc \in {"verify", "pread"} /\ call'.entries = call.entries
        BY <2>2 DEF OpenFile, VerifyFile, CallOnly, TypesOK, CallFields
      <3> QED
        BY <3>1, FailingKeeps, ElsewhereKeeps DEF ListPcs
    <2>3. CASE ReadFile
      <3>1. PICK c, output :
               /\ fs' = fs /\ DOMAIN c = CallFields /\ c.entries = call.entries
               /\ \/ call' = Answers(c, output)
                  \/ call' = SkipsBinary(c)
                  \/ call' = [c EXCEPT !.files = Tail(@), !.pc = "nextFile"]
        <4> DEFINE limit == IF call.tool = "read_file" THEN call.args.byteLimit
                            ELSE Min({call.args.byteLimit, MaxScanBytes - call.scanned})
                   value == OutputFromBytes(Cut(fs.data[call.handle], limit + 1), limit)
                   read == [call EXCEPT !.source = fs.data[call.handle],
                                        !.scanned = @ + value.bytesRead]
                   found == SearchLines(read, Head(call.files), value.content)
                   searched == [read EXCEPT !.matches = found.matches,
                                            !.matchBytes = found.bytes]
        <4>1. /\ DOMAIN read = CallFields /\ read.entries = call.entries
              /\ DOMAIN searched = CallFields /\ searched.entries = call.entries
          BY DEF TypesOK, CallFields
        <4>2. fs' = fs
          BY <2>3 DEF ReadFile, CallOnly
        <4>3. \/ call' = Answers(read, TextOutput(value))
              \/ call' = SkipsBinary(read)
              \/ call' = Answers(searched, RowsOutput(found.matches))
              \/ call' = [searched EXCEPT !.files = Tail(@), !.pc = "nextFile"]
          BY <2>3 DEF ReadFile
        <4> HIDE DEF read, searched, value, found
        <4> QED
          BY <4>1, <4>2, <4>3
      <3>2. CASE call' = Answers(c, output)
        BY <3>1, <3>2, AnsweringKeeps
      <3>3. CASE \/ call' = SkipsBinary(c)
                 \/ call' = [c EXCEPT !.files = Tail(@), !.pc = "nextFile"]
        <4>1. call'.pc = "nextFile" /\ call'.entries = call.entries
          BY <3>1, <3>3 DEF SkipsBinary, CallFields
        <4> QED
          BY <3>1, <4>1, ElsewhereKeeps DEF ListPcs
      <3> QED
        BY <3>1, <3>2, <3>3
    <2> QED
      BY <1>2, <2>1, <2>2, <2>3 DEF FileStep
  <1>3. CASE SearchStep
    <2>1. fs' = fs
      BY <1>3 DEF SearchStep, EnterDirectory, FindChild, FoundAll, CallOnly
    <2>2. \/ call' = Fails(call)
          \/ call'.pc \in {"find", "nextFile"} /\ call'.entries = call.entries
      <3>1. call.pc = "find"
        BY <1>3 DEF SearchStep, EnterDirectory, FindChild, FoundAll
      <3>2. CASE EnterDirectory
        BY <3>1, <3>2 DEF EnterDirectory, TypesOK, CallFields
      <3>3. CASE FindChild
        BY <3>1, <3>3 DEF FindChild, TypesOK, CallFields
      <3>4. CASE FoundAll
        BY <3>1, <3>4 DEF FoundAll, TypesOK, CallFields
      <3> QED
        BY <1>3, <3>2, <3>3, <3>4 DEF SearchStep
    <2> QED
      BY <2>1, <2>2, FailingKeeps, ElsewhereKeeps DEF ListPcs
  <1>4. CASE GitStep
    <2>1. fs' = fs
      BY <1>4 DEF GitStep, Spawn, GitData, GitClose
    <2>2. CASE call' = Fails(call)
      BY <2>1, <2>2, FailingKeeps
    <2>3. CASE call'.pc = "git" /\ call'.entries = call.entries
      BY <2>1, <2>3, ElsewhereKeeps DEF ListPcs
    <2>4. ASSUME NEW output, call' = Answers(call, output) PROVE ListInv'
      BY <2>1, <2>4, AnsweringKeeps DEF TypesOK
    <2>5. CASE Spawn
      <3>1. call' = Fails(call) \/ call' = [call EXCEPT !.pc = "git"]
        BY <2>5 DEF Spawn
      <3> QED
        BY <2>2, <2>3, <3>1 DEF TypesOK, CallFields
    <2>6. ASSUME NEW n, GitData(n) PROVE ListInv'
      <3>1. call'.pc = "git" /\ call'.entries = call.entries
        BY <2>6 DEF GitData, TypesOK, CallFields
      <3> QED
        BY <2>3, <3>1
    <2>7. ASSUME NEW code, GitClose(code) PROVE ListInv'
      <3>1. \/ call' = Fails(call)
            \/ call' = Answers(call, TextOutput(OutputFromBytes(
                                  call.captured, call.args.byteLimit)))
        BY <2>7 DEF GitClose
      <3> QED
        BY <2>2, <2>4, <3>1
    <2> QED
      BY <1>4, <2>5, <2>6, <2>7 DEF GitStep
  <1>5. CASE WriteArtifact
    <2>1. fs' = fs /\ call'.pc = "project" /\ call'.entries = call.entries
      BY <1>5 DEF WriteArtifact, Returned, TypesOK, CallFields
    <2> QED
      BY <2>1, ElsewhereKeeps DEF ListPcs
  <1>6. CASE Project
    <2>1. fs' = fs /\ call'.pc = "done" /\ call'.entries = call.entries
      BY <1>6 DEF Project, CallOnly, TypesOK, CallFields
    <2> QED
      BY <2>1, ElsewhereKeeps DEF ListPcs
  <1> QED
    BY <1>1, <1>2, <1>3, <1>4, <1>5, <1>6

\* A step that changes neither the places in the workspace nor the call.
LEMMA SamePlacesKeep ==
    ASSUME ListInv, call' = call, DOMAIN fs' = DOMAIN fs,
           fs'.entries = fs.entries, fs'.fresh = fs.fresh, fs'.moved = fs.moved
    PROVE  ListInv'
  <1>1. TreeOK(fs')
    BY DEF ListInv, TreeOK
  <1>2. ASSUME NEW path, NEW d, NEW way, Anchored(fs, path, d, way)
        PROVE  Anchored(fs', path, d, way)
    BY <1>2 DEF Anchored
  <1>3. ASSUME NEW frame, Held(fs, frame) PROVE Held(fs', frame)
    BY <1>2, <1>3 DEF Held, Unmoved
  <1>4. ASSUME NEW frame, Listed(fs, frame) PROVE Listed(fs', frame)
    BY <1>3, <1>4 DEF Listed, Unmoved
  <1>5. ASSUME NEW frame, NEW pc, TopOK(fs, pc, frame) PROVE TopOK(fs', pc, frame)
    BY <1>3, <1>4, <1>5 DEF TopOK, StillThere, Unmoved
  <1>6. ASSUME NEW pc, NEW stack, StackOK(fs, pc, stack)
        PROVE  StackOK(fs', pc, stack)
    BY <1>4, <1>5, <1>6 DEF StackOK
  <1> QED
    BY <1>1, <1>6 DEF ListInv

LEMMA ListInvNext == ListInv /\ ToolInv /\ [Next]_toolVars => ListInv'
  <1> SUFFICES ASSUME ListInv, TypesOK, [Next]_toolVars
               PROVE  ListInv'
    BY DEF ToolInv
  <1>1. ASSUME NEW tool \in Tools, NEW path \in Paths \cup {Nothing},
               NEW depth \in 0 .. MaxDepth + 1, NEW limit \in 0 .. MaxResults + 1,
               NEW byteLimit \in 0 .. OutputLimit + 1,
               Execute(tool, path, depth, limit, byteLimit)
        PROVE  ListInv'
    BY <1>1, ExecuteLists
  <1>2. CASE Resolve
    BY <1>2, ResolveLists
  <1>3. CASE ListStep
    BY <1>3, OpenDirectoryLists, ReadDirectoryLists, ValidateDirectoryLists,
       NextChildLists, LstatChildLists, ConfirmChildLists DEF ListStep
  <1>4. CASE SystemError \/ FileStep \/ SearchStep \/ GitStep \/ WriteArtifact \/ Project
    BY <1>4, OtherStepsAreElsewhere
  <1>5. CASE Environment
    <2>1. CASE Abort
      BY <2>1, SamePlacesKeep DEF Abort
    <2>2. ASSUME NEW path, NEW n \in Names, NEW i \in Inodes \cup {Nothing},
                 Relink(path, n, i)
          PROVE  ListInv'
      BY <2>2, ListInvRelink
    <2>3. ASSUME NEW f, NEW content, Rewrite(f, content)
          PROVE  ListInv'
      <3>1. /\ call' = call /\ DOMAIN fs' = DOMAIN fs
            /\ fs'.entries = fs.entries /\ fs'.fresh = fs.fresh
            /\ fs'.moved = fs.moved
        BY <2>3 DEF Rewrite, TypesOK
      <3> QED
        BY <3>1, SamePlacesKeep
    <2> QED
      BY <1>5, <2>1, <2>2, <2>3 DEF Environment
  <1>6. CASE UNCHANGED toolVars
    <2>1. fs' = fs /\ call' = call
      BY <1>6 DEF toolVars
    <2> QED
      BY <2>1, SamePlacesKeep
  <1> QED
    BY <1>1, <1>2, <1>3, <1>4, <1>5, <1>6 DEF Next

-----------------------------------------------------------------------------
(* The order of paths *)

\* The first position of a name.
FirstAt(n, k) ==
    /\ k \in DOMAIN NameOrder /\ NameOrder[k] = n
    /\ \A i \in 1 .. k - 1 : NameOrder[i] # n

\* Every name has one first position.
LEMMA NamesHaveAPosition ==
    ASSUME NEW n \in Names
    PROVE  \E k \in Nat : FirstAt(n, k)
  <1> DEFINE S == {k \in DOMAIN NameOrder : NameOrder[k] = n}
  <1>1. DOMAIN NameOrder = 1 .. Len(NameOrder) /\ Len(NameOrder) \in Nat
    BY TreeAssumption
  <1>2. S # {} /\ S \in SUBSET Nat
    <2>1. n \in {NameOrder[i] : i \in DOMAIN NameOrder}
      BY DEF Names, ToSet
    <2> QED
      BY <1>1, <2>1
  <1>3. PICK k \in S : \A j \in S : k <= j
    BY <1>2, LeastOf
  <1>4. ASSUME NEW i \in 1 .. k - 1 PROVE NameOrder[i] # n
    <2>1. i \in DOMAIN NameOrder /\ ~(k <= i)
      BY <1>1, <1>3
    <2> QED
      BY <1>3, <2>1
  <1> QED
    BY <1>1, <1>3, <1>4 DEF FirstAt

\* An earlier name is one with an earlier first position.
LEMMA EarlierIsByPosition ==
    ASSUME NEW n \in Names, NEW m \in Names, NEW a \in Nat, NEW b \in Nat,
           FirstAt(n, a), FirstAt(m, b)
    PROVE  Earlier(n, m) <=> a < b
  <1>1. DOMAIN NameOrder = 1 .. Len(NameOrder) /\ Len(NameOrder) \in Nat
    BY TreeAssumption
  <1>2. ASSUME Earlier(n, m) PROVE a < b
    <2>1. PICK k \in DOMAIN NameOrder : NameOrder[k] = n /\ \A i \in 1 .. k : NameOrder[i] # m
      BY <1>2 DEF Earlier
    <2>2. k \in Nat /\ ~(k \in 1 .. a - 1) /\ ~(b \in 1 .. k) /\ b >= 1 /\ k >= 1
      BY <1>1, <2>1 DEF FirstAt
    <2> QED
      BY <2>2
  <1>3. ASSUME a < b PROVE Earlier(n, m)
    <2>1. \A i \in 1 .. a : NameOrder[i] # m
      BY <1>3 DEF FirstAt
    <2> QED
      BY <2>1 DEF Earlier, FirstAt
  <1> QED
    BY <1>2, <1>3

\* Names are ordered, strictly and totally.
LEMMA EarlierIsAnOrder ==
    ASSUME NEW n \in Names, NEW m \in Names, NEW l \in Names
    PROVE  /\ ~Earlier(n, n)
           /\ Earlier(n, m) /\ Earlier(m, l) => Earlier(n, l)
           /\ n # m => Earlier(n, m) \/ Earlier(m, n)
  <1>1. PICK a \in Nat : FirstAt(n, a)
    BY NamesHaveAPosition
  <1>2. PICK b \in Nat : FirstAt(m, b)
    BY NamesHaveAPosition
  <1>3. PICK c \in Nat : FirstAt(l, c)
    BY NamesHaveAPosition
  <1>4. /\ Earlier(n, n) <=> a < a
        /\ Earlier(n, m) <=> a < b
        /\ Earlier(m, n) <=> b < a
        /\ Earlier(m, l) <=> b < c
        /\ Earlier(n, l) <=> a < c
    BY <1>1, <1>2, <1>3, EarlierIsByPosition
  <1>5. a = b => n = m
    BY <1>1, <1>2 DEF FirstAt
  <1> QED
    BY <1>4, <1>5

\* So are paths.
LEMMA BeforeIsAnOrder ==
    ASSUME NEW p \in Seq(Names), NEW q \in Seq(Names), NEW r \in Seq(Names)
    PROVE  /\ ~Before(p, p)
           /\ Before(p, q) /\ Before(q, r) => Before(p, r)
           /\ p # q => Before(p, q) \/ Before(q, p)
  <1>1. /\ DOMAIN p = 1 .. Len(p) /\ DOMAIN q = 1 .. Len(q) /\ DOMAIN r = 1 .. Len(r)
        /\ Len(p) \in Nat /\ Len(q) \in Nat /\ Len(r) \in Nat
        /\ \A k \in 1 .. Len(p) : p[k] \in Names
        /\ \A k \in 1 .. Len(q) : q[k] \in Names
        /\ \A k \in 1 .. Len(r) : r[k] \in Names
    OBVIOUS
  <1>2. ~Before(p, p)
    <2> SUFFICES ASSUME Before(p, p) PROVE FALSE
      OBVIOUS
    <2>1. PICK k \in DOMAIN p : Earlier(p[k], p[k])
      BY DEF Before
    <2> QED
      BY <1>1, <2>1, EarlierIsAnOrder
  <1>3. ASSUME Before(p, q), Before(q, r) PROVE Before(p, r)
    <2>1. PICK k \in 1 .. Len(q) :
             /\ \A i \in 1 .. k - 1 : i \in 1 .. Len(p) /\ p[i] = q[i]
             /\ k \in 1 .. Len(p) => Earlier(p[k], q[k])
      BY <1>1, <1>3 DEF Before
    <2>2. PICK j \in 1 .. Len(r) :
             /\ \A i \in 1 .. j - 1 : i \in 1 .. Len(q) /\ q[i] = r[i]
             /\ j \in 1 .. Len(q) => Earlier(q[j], r[j])
      BY <1>1, <1>3 DEF Before
    <2>3. CASE k < j
      <3>1. k \in 1 .. Len(r) /\ q[k] = r[k] /\ \A i \in 1 .. k - 1 : q[i] = r[i]
        BY <1>1, <2>2, <2>3
      <3> QED
        BY <1>1, <2>1, <3>1 DEF Before
    <2>4. CASE k = j
      <3>1. k \in 1 .. Len(p) => Earlier(p[k], r[k])
        BY <1>1, <2>1, <2>2, <2>4, EarlierIsAnOrder
      <3>2. \A i \in 1 .. k - 1 : i \in 1 .. Len(p) /\ p[i] = r[i]
        BY <1>1, <2>1, <2>2, <2>4
      <3> QED
        BY <1>1, <2>2, <2>4, <3>1, <3>2 DEF Before
    <2>5. CASE k > j
      <3>1. j \in 1 .. Len(p) /\ j \in 1 .. Len(q) /\ p[j] = q[j]
        BY <1>1, <2>1, <2>2, <2>5
      <3>2. \A i \in 1 .. j - 1 : i \in 1 .. Len(p) /\ p[i] = r[i]
        BY <1>1, <2>1, <2>2, <2>5
      <3> QED
        BY <1>1, <2>2, <3>1, <3>2 DEF Before
    <2> QED
      BY <2>3, <2>4, <2>5
  <1>4. ASSUME p # q PROVE Before(p, q) \/ Before(q, p)
    <2> DEFINE S == {k \in Nat \ {0} : /\ k <= Len(p) \/ k <= Len(q)
                                       /\ ~(k <= Len(p) /\ k <= Len(q) /\ p[k] = q[k])}
    <2>1. S # {}
      <3>1. CASE Len(p) = Len(q)
        <4>1. PICK k \in 1 .. Len(p) : p[k] # q[k]
          BY <1>1, <1>4, <3>1
        <4> QED
          BY <1>1, <3>1, <4>1
      <3>2. CASE Len(p) < Len(q)
        <4>1. Len(p) + 1 \in S
          BY <1>1, <3>2
        <4> QED
          BY <4>1
      <3>3. CASE Len(q) < Len(p)
        <4>1. Len(q) + 1 \in S
          BY <1>1, <3>3
        <4> QED
          BY <4>1
      <3>4. Len(p) \in Nat /\ Len(q) \in Nat
        BY <1>1
      <3>5. \A a, b \in Nat : a = b \/ a < b \/ b < a
        OBVIOUS
      <3> HIDE DEF S
      <3> QED
        BY <3>1, <3>2, <3>3, <3>4, <3>5
    <2>2. PICK k \in S : \A j \in S : k <= j
      <3>1. S \in SUBSET Nat
        OBVIOUS
      <3> HIDE DEF S
      <3> QED
        BY <2>1, <3>1, LeastOf
    <2>3. ASSUME NEW i \in 1 .. k - 1
          PROVE  i \in 1 .. Len(p) /\ i \in 1 .. Len(q) /\ p[i] = q[i]
      <3>1. i \notin S /\ i \in Nat \ {0} /\ (i <= Len(p) \/ i <= Len(q))
        BY <1>1, <2>2
      <3> QED
        BY <1>1, <3>1
    <2>4. CASE k <= Len(p) /\ k <= Len(q)
      <3>1. k \in 1 .. Len(p) /\ k \in 1 .. Len(q) /\ p[k] # q[k]
        BY <2>2, <2>4
      <3>2. Earlier(p[k], q[k]) \/ Earlier(q[k], p[k])
        BY <1>1, <3>1, EarlierIsAnOrder
      <3> QED
        BY <1>1, <2>3, <3>1, <3>2 DEF Before
    <2>5. CASE ~(k <= Len(p))
      <3>1. k \in 1 .. Len(q) /\ k \notin 1 .. Len(p)
        BY <1>1, <2>2, <2>5
      <3> QED
        BY <1>1, <2>3, <3>1 DEF Before
    <2>6. CASE ~(k <= Len(q))
      <3>1. k \in 1 .. Len(p) /\ k \notin 1 .. Len(q)
        BY <1>1, <2>2, <2>6
      <3> QED
        BY <1>1, <2>3, <3>1 DEF Before
    <2> QED
      BY <2>4, <2>5, <2>6
  <1> QED
    BY <1>2, <1>3, <1>4

\* The paths before one of a set, and how many they are.
Rank(S, p) == Cardinality({r \in S : Before(r, p)})

\* Different paths of a set have different ranks, below its size.
LEMMA RanksDiffer ==
    ASSUME NEW S \in SUBSET Seq(Names), IsFiniteSet(S), NEW p \in S, NEW q \in S
    PROVE  /\ Rank(S, p) \in 0 .. Cardinality(S) - 1
           /\ Before(p, q) => Rank(S, p) < Rank(S, q)
  <1>1. PICK P : P = {r \in S : Before(r, p)}
    OBVIOUS
  <1>2. PICK Q : Q = {r \in S : Before(r, q)}
    OBVIOUS
  <1>3. P \in SUBSET S /\ Q \in SUBSET S /\ p \notin P
    BY <1>1, <1>2, BeforeIsAnOrder
  <1>4. IsFiniteSet(P) /\ IsFiniteSet(Q) /\ P # S
    BY <1>3, FS_Subset
  <1>5. Cardinality(P) \in Nat /\ Cardinality(S) \in Nat /\ Cardinality(Q) \in Nat
    BY <1>4, FS_CardinalityType
  <1>6. Cardinality(P) <= Cardinality(S) /\ Cardinality(P) # Cardinality(S)
    BY <1>3, <1>4, FS_Subset
  <1>7. ASSUME Before(p, q) PROVE Cardinality(P) < Cardinality(Q)
    <2>1. \A r \in P : Before(r, q)
      BY <1>1, <1>3, <1>7, BeforeIsAnOrder
    <2>2. P \in SUBSET Q /\ p \in Q
      BY <1>1, <1>2, <1>7, <2>1
    <2> QED
      BY <1>3, <1>4, <1>5, <2>2, FS_Subset
  <1> QED
    BY <1>1, <1>2, <1>5, <1>6, <1>7 DEF Rank

\* Sorted has each member of a finite set once, in order.
LEMMA SortedHasEach ==
    ASSUME NEW S \in SUBSET Seq(Names), IsFiniteSet(S)
    PROVE  /\ Sorted(S) \in Seq(S) /\ Len(Sorted(S)) = Cardinality(S)
           /\ ToSet(Sorted(S)) = S
           /\ \A i, j \in DOMAIN Sorted(S) : i < j => Before(Sorted(S)[i], Sorted(S)[j])
  <1> DEFINE n == Cardinality(S)
             R == [p \in S |-> Rank(S, p)]
             Is(p, k) == Rank(S, p) = k - 1
  <1>1. n \in Nat
    BY FS_CardinalityType
  <1>2. \A p \in S : Rank(S, p) \in 0 .. n - 1
    BY RanksDiffer
  <1>3. \A p, q \in S : p # q => Rank(S, p) # Rank(S, q)
    <2>1. ASSUME NEW p \in S, NEW q \in S, p # q PROVE Rank(S, p) # Rank(S, q)
      <3>1. Before(p, q) \/ Before(q, p)
        BY <2>1, BeforeIsAnOrder
      <3>2. Rank(S, p) \in Nat /\ Rank(S, q) \in Nat
        BY <1>1, <1>2
      <3> QED
        BY <3>1, <3>2, RanksDiffer
    <2> QED
      BY <2>1
  <1>4. IsFiniteSet(0 .. n - 1) /\ Cardinality(0 .. n - 1) = n
    BY <1>1, FS_Interval
  <1>5. R \in Injection(S, 0 .. n - 1)
    BY <1>2, <1>3 DEF Injection, IsInjective
  <1>6. R \in Surjection(S, 0 .. n - 1)
    <2> HIDE DEF R, n
    <2> QED
      BY <1>4, <1>5, FS_Injection DEF n
  <1>7. ASSUME NEW k \in 1 .. n PROVE \E p \in S : Is(p, k)
    <2>1. k - 1 \in 0 .. n - 1
      BY <1>1
    <2>2. \E p \in S : R[p] = k - 1
      BY <1>6, <2>1 DEF Surjection
    <2> QED
      BY <2>2
  <1>8. PICK s : s = Sorted(S)
    OBVIOUS
  <1>9. s = [k \in 1 .. n |-> CHOOSE p \in S : Is(p, k)]
    BY <1>8 DEF Sorted, Rank
  <1>10. ASSUME NEW k \in 1 .. n PROVE s[k] \in S /\ Is(s[k], k)
    <2>1. s[k] = CHOOSE p \in S : Is(p, k)
      BY <1>9
    <2> HIDE DEF Is
    <2> QED
      BY <1>7, <2>1
  <1>11. s \in Seq(S) /\ Len(s) = n /\ DOMAIN s = 1 .. n
    BY <1>1, <1>9, <1>10
  <1>12. ASSUME NEW p \in S PROVE \E k \in 1 .. n : s[k] = p
    <2>1. Rank(S, p) \in 0 .. n - 1
      BY <1>2
    <2>2. PICK k \in 1 .. n : k - 1 = Rank(S, p)
      <3>1. Rank(S, p) + 1 \in 1 .. n /\ (Rank(S, p) + 1) - 1 = Rank(S, p)
        BY <1>1, <2>1
      <3> QED
        BY <3>1
    <2> QED
      BY <1>3, <1>10, <2>2
  <1>13. ToSet(s) = S
    BY <1>10, <1>11, <1>12 DEF ToSet
  <1>14. ASSUME NEW i \in 1 .. n, NEW j \in 1 .. n, i < j PROVE Before(s[i], s[j])
    <2>1. s[i] \in S /\ s[j] \in S /\ Rank(S, s[i]) = i - 1 /\ Rank(S, s[j]) = j - 1
      BY <1>10
    <2>2. s[i] # s[j]
      BY <1>14, <2>1
    <2>3. ~Before(s[j], s[i])
      BY <1>14, <2>1, RanksDiffer
    <2> QED
      BY <2>1, <2>2, <2>3, BeforeIsAnOrder
  <1> QED
    BY <1>8, <1>11, <1>13, <1>14

-----------------------------------------------------------------------------
(* Where a path leads *)

\* One name more.
LEMMA WalkIsOne ==
    ASSUME NEW entries \in Tree, NEW path \in Seq(Names), NEW w, NEW v,
           Walk(w, entries, path), Walk(v, entries, path)
    PROVE  \A k \in 0 .. Len(path) : w[k] = v[k]
  <1> DEFINE S == {k \in 0 .. Len(path) : w[k] = v[k]}
  <1>1. Len(path) \in Nat
    OBVIOUS
  <1>2. 0 \in S
    BY <1>1 DEF Walk
  <1>3. ASSUME NEW k \in 0 .. Len(path) - 1, k \in S PROVE k + 1 \in S
    <2>1. k + 1 \in 1 .. Len(path) /\ (k + 1) - 1 = k /\ k + 1 \in 0 .. Len(path)
      BY <1>1
    <2>2. w[k + 1] = Down(entries, w[k], path[k + 1])
      BY <2>1 DEF Walk
    <2>3. v[k + 1] = Down(entries, v[k], path[k + 1])
      BY <2>1 DEF Walk
    <2>4. w[k] = v[k]
      BY <1>3
    <2> QED
      BY <2>1, <2>2, <2>3, <2>4
  <1>4. \A k \in 0 .. Len(path) : k \in S
    <2>1. 0 \in Int /\ Len(path) \in Int
      BY <1>1
    <2> HIDE DEF S
    <2> QED
      BY <2>1, <1>2, <1>3, Upwards
  <1> QED
    BY <1>4

\* The way along a path that continues another begins with the way along that.
LEMMA WalkOfLonger ==
    ASSUME NEW entries \in Tree, NEW path \in Seq(Names), NEW p \in Seq(Names),
           Len(path) <= Len(p), \A i \in 1 .. Len(path) : path[i] = p[i],
           NEW w, Walk(w, entries, p)
    PROVE  w[Len(path)] = InodeIn(entries, path)
  <1> DEFINE v == [k \in 0 .. Len(path) |-> w[k]]
  <1>1. Len(path) \in Nat /\ Len(p) \in Nat
    OBVIOUS
  <1>2. Walk(v, entries, path)
    <2>1. v \in [0 .. Len(path) -> Entered]
      BY <1>1 DEF Walk
    <2>2. v[0] = Root
      BY <1>1 DEF Walk
    <2>3. ASSUME NEW k \in 1 .. Len(path) PROVE v[k] = Down(entries, v[k - 1], path[k])
      <3>1. k \in 1 .. Len(p) /\ k - 1 \in 0 .. Len(path) /\ k \in 0 .. Len(path)
        BY <1>1
      <3> QED
        BY <3>1 DEF Walk
    <2> HIDE DEF v
    <2> QED
      BY <2>1, <2>2, <2>3 DEF Walk
  <1>3. PICK u : Walk(u, entries, path) /\ u[Len(path)] = InodeIn(entries, path)
    BY PathIsWalked
  <1>4. v[Len(path)] = u[Len(path)]
    <2> HIDE DEF v
    <2> QED
      BY <1>1, <1>2, <1>3, WalkIsOne
  <1> QED
    BY <1>1, <1>3, <1>4

\* path, and more names.
Continues(path, p) ==
    /\ path \in Seq(Names) /\ p \in Seq(Names) /\ Len(path) <= Len(p)
    /\ \A i \in 1 .. Len(path) : path[i] = p[i]

\* Continuing is having a prefix.
LEMMA PrefixContinues ==
    ASSUME NEW path \in Seq(Names), NEW p \in Seq(Names)
    PROVE  IsPrefix(path, p) <=> Continues(path, p)
  <1>1. Len(path) \in Nat /\ Len(p) \in Nat
    OBVIOUS
  <1>2. ASSUME Len(path) <= Len(p)
        PROVE  /\ Len(SubSeq(path, 1, Len(path))) = Len(path)
               /\ Len(SubSeq(p, 1, Len(path))) = Len(path)
               /\ SubSeq(path, 1, Len(path)) \in Seq(Names)
               /\ SubSeq(p, 1, Len(path)) \in Seq(Names)
               /\ \A i \in 1 .. Len(path) : SubSeq(path, 1, Len(path))[i] = path[i]
               /\ \A i \in 1 .. Len(path) : SubSeq(p, 1, Len(path))[i] = p[i]
    BY <1>1, <1>2
  <1>3. ASSUME IsPrefix(path, p) PROVE Continues(path, p)
    BY <1>2, <1>3 DEF IsPrefix, Continues
  <1>4. ASSUME Continues(path, p) PROVE IsPrefix(path, p)
    <2>1. Len(path) <= Len(p) /\ \A i \in 1 .. Len(path) : path[i] = p[i]
      BY <1>4 DEF Continues
    <2>2. SubSeq(path, 1, Len(path)) = SubSeq(p, 1, Len(path))
      BY <1>1, <1>2, <2>1
    <2> QED
      BY <2>1, <2>2 DEF IsPrefix
  <1> QED
    BY <1>3, <1>4

\* What a name of a directory leads to.
LEMMA InodeOfChild ==
    ASSUME NEW entries \in Tree, NEW path \in Seq(Names), NEW name \in Names
    PROVE  /\ Append(path, name) \in Seq(Names)
           /\ InodeIn(entries, Append(path, name)) =
                 Down(entries, InodeIn(entries, path), name)
           /\ InodeIn(entries, path) \in Entered
  <1>1. PICK p : p = Append(path, name)
    OBVIOUS
  <1>2. /\ p \in Seq(Names) /\ Len(p) = Len(path) + 1 /\ Len(path) \in Nat
        /\ p[Len(path) + 1] = name /\ \A i \in 1 .. Len(path) : path[i] = p[i]
    BY <1>1
  <1>3. PICK w : Walk(w, entries, p) /\ w[Len(p)] = InodeIn(entries, p)
    BY <1>2, PathIsWalked
  <1>4. w[Len(path)] = InodeIn(entries, path)
    BY <1>2, <1>3, WalkOfLonger
  <1>5. w[Len(p)] = Down(entries, w[Len(path)], name) /\ w[Len(path)] \in Entered
    <2>1. Len(p) \in 1 .. Len(p) /\ Len(p) - 1 = Len(path) /\ Len(path) \in 0 .. Len(p)
      BY <1>2
    <2> QED
      BY <1>2, <1>3, <2>1 DEF Walk
  <1> QED
    BY <1>1, <1>2, <1>3, <1>4, <1>5

\* A file below path is path itself, or path is a directory and the next name is
\* one of its own.
LEMMA WayToAFile ==
    ASSUME NEW entries \in Tree, NEW path, NEW p, Continues(path, p),
           InodeIn(entries, p) \in Files
    PROVE  \/ p = path
           \/ /\ Len(path) + 1 \in 1 .. Len(p) /\ p[Len(path) + 1] \in Names
              /\ InodeIn(entries, path) \in Dirs
              /\ entries[InodeIn(entries, path)][p[Len(path) + 1]] # Nothing
              /\ Continues(Append(path, p[Len(path) + 1]), p)
  <1> DEFINE n == Len(path)
             N == Len(p)
  <1>1. /\ path \in Seq(Names) /\ p \in Seq(Names) /\ n \in Nat /\ N \in Nat /\ n <= N
        /\ \A i \in 1 .. n : path[i] = p[i]
        /\ \A i \in 1 .. N : p[i] \in Names
    BY DEF Continues
  <1>2. CASE n = N
    <2>1. p = path
      BY <1>1, <1>2
    <2> QED
      BY <2>1
  <1>3. CASE n < N
    <2> DEFINE m == p[n + 1]
               d == InodeIn(entries, path)
    <2>1. PICK w : Walk(w, entries, p) /\ w[N] = InodeIn(entries, p)
      BY <1>1, PathIsWalked
    <2>2. w[n] = d
      BY <1>1, <2>1, WalkOfLonger
    <2>3. ASSUME NEW i \in Links \cup {Nothing}, NEW a \in 0 .. N, w[a] = i
          PROVE  FALSE
      <3> DEFINE S == {k \in a .. N : w[k] = i}
      <3>1. a \in S
        BY <1>1, <2>3
      <3>2. ASSUME NEW k \in a .. N - 1, k \in S PROVE k + 1 \in S
        <4>1. k + 1 \in 1 .. N /\ (k + 1) - 1 = k /\ k + 1 \in a .. N
          BY <1>1
        <4>2. w[k + 1] = Down(entries, w[k], p[k + 1]) /\ w[k] = i
          BY <2>1, <3>2, <4>1 DEF Walk
        <4>3. i \notin Dirs
          BY <2>3, TreeAssumption DEF Inodes
        <4>4. Down(entries, i, p[k + 1]) = i
          BY <4>3, <2>3, TreeAssumption DEF Down
        <4> QED
          BY <4>1, <4>2, <4>4
      <3>3. \A k \in a .. N : k \in S
        <4>1. a \in Int /\ N \in Int
          BY <1>1
        <4> HIDE DEF S
        <4> QED
          BY <3>1, <3>2, <4>1, Upwards
      <3>4. w[N] = i
        BY <1>1, <3>3
      <3> QED
        BY <2>1, <2>3, <3>4, TreeAssumption DEF Inodes
    <2>4. ASSUME d \notin Dirs PROVE FALSE
      <3>1. d \in Links \/ d \notin Dirs \cup Links
        BY <2>4
      <3>2. n + 1 \in 1 .. N /\ (n + 1) - 1 = n /\ n + 1 \in 0 .. N /\ n \in 0 .. N
        BY <1>1, <1>3
      <3>3. w[n + 1] = Down(entries, w[n], p[n + 1])
        BY <2>1, <3>2 DEF Walk
      <3>4. CASE d \in Links
        BY <2>2, <2>3, <3>2, <3>4
      <3>5. CASE d \notin Dirs \cup Links
        <4>1. w[n + 1] = Nothing
          BY <2>2, <3>3, <3>5 DEF Down
        <4> QED
          BY <2>3, <3>2, <4>1
      <3> QED
        BY <3>1, <3>4, <3>5
    <2>5. n + 1 \in 1 .. N /\ m \in Names /\ n + 1 \in 0 .. N
      BY <1>1, <1>3
    <2>6. entries[d][m] # Nothing
      <3> SUFFICES ASSUME entries[d][m] = Nothing PROVE FALSE
        OBVIOUS
      <3>1. (n + 1) - 1 = n
        BY <1>1
      <3>2. w[n + 1] = Down(entries, w[n], m)
        BY <2>1, <2>5, <3>1 DEF Walk
      <3>3. w[n + 1] = Nothing
        BY <2>2, <2>4, <3>2 DEF Down
      <3> QED
        BY <2>3, <2>5, <3>3
    <2>7. Continues(Append(path, m), p)
      <3>1. Append(path, m) \in Seq(Names) /\ Len(Append(path, m)) = n + 1
        BY <1>1, <2>5
      <3>2. ASSUME NEW i \in 1 .. n + 1 PROVE Append(path, m)[i] = p[i]
        <4>1. CASE i = n + 1
          BY <1>1, <4>1
        <4>2. CASE i \in 1 .. n
          BY <1>1, <4>2
        <4> QED
          BY <1>1, <4>1, <4>2
      <3> QED
        BY <1>1, <1>3, <3>1, <3>2 DEF Continues
    <2> QED
      BY <2>4, <2>5, <2>6, <2>7
  <1> QED
    BY <1>1, <1>2, <1>3

\* A name that stands for something is among the children.
LEMMA ChildrenAreAll ==
    ASSUME NEW d, NEW n \in Names, fs.entries[d][n] # Nothing
    PROVE  \E i \in DOMAIN ChildrenOf(d) : ChildrenOf(d)[i] = n
  <1> DEFINE N == Len(NameOrder)
             Has(s) == \E i \in DOMAIN s : s[i] = n
  <1>1. PICK w : Reads(w, d) /\ w[N] = ChildrenOf(d)
    BY ChildrenAreFollowed
  <1>2. /\ N \in Nat /\ DOMAIN NameOrder = 1 .. N
        /\ \A k \in 1 .. N : NameOrder[k] \in Names
    BY TreeAssumption
  <1>3. PICK k \in 1 .. N : NameOrder[k] = n
    BY <1>2 DEF Names, ToSet
  <1> DEFINE S == {j \in k .. N : Has(w[j])}
  <1>4. ASSUME NEW j \in 1 .. N
        PROVE  /\ w[j - 1] \in Seq(Names) /\ w[j] \in Seq(Names)
               /\ w[j] = IF fs.entries[d][NameOrder[j]] = Nothing THEN w[j - 1]
                         ELSE Append(w[j - 1], NameOrder[j])
    <2>1. j - 1 \in 0 .. N /\ j \in 0 .. N
      BY <1>2
    <2> QED
      BY <1>1, <2>1 DEF Reads
  <1>5. Has(w[k])
    <2>1. w[k] = Append(w[k - 1], n) /\ w[k - 1] \in Seq(Names)
      BY <1>3, <1>4
    <2>2. PICK s : s = w[k - 1]
      OBVIOUS
    <2>3. Len(s) + 1 \in DOMAIN Append(s, n) /\ Append(s, n)[Len(s) + 1] = n
      BY <2>1, <2>2
    <2> QED
      BY <2>1, <2>2, <2>3
  <1>6. ASSUME NEW j \in k .. N - 1, j \in S PROVE j + 1 \in S
    <2>1. j + 1 \in 1 .. N /\ (j + 1) - 1 = j /\ j + 1 \in k .. N
      BY <1>2
    <2>2. Has(w[j]) /\ w[j] \in Seq(Names)
      BY <1>4, <1>6, <2>1
    <2>3. w[j + 1] = w[j] \/ w[j + 1] = Append(w[j], NameOrder[j + 1])
      BY <1>4, <2>1
    <2>4. Has(w[j + 1])
      <3>1. PICK s \in Seq(Names) : s = w[j]
        BY <2>2
      <3>2. PICK m : m = NameOrder[j + 1]
        OBVIOUS
      <3>3. PICK i \in DOMAIN s : s[i] = n
        BY <2>2, <3>1
      <3>4. i \in DOMAIN Append(s, m) /\ Append(s, m)[i] = n
        BY <3>3
      <3>5. w[j + 1] = s \/ w[j + 1] = Append(s, m)
        BY <2>3, <3>1, <3>2
      <3> QED
        BY <3>3, <3>4, <3>5
    <2> QED
      BY <2>1, <2>4
  <1>7. \A j \in k .. N : j \in S
    <2>1. k \in Int /\ N \in Int /\ k \in S
      BY <1>2, <1>5
    <2> HIDE DEF S
    <2> QED
      BY <1>6, <2>1, Upwards
  <1> QED
    BY <1>1, <1>2, <1>7

-----------------------------------------------------------------------------
(* What a search has found, and what lies ahead of it *)

FilesIn(entries, path) ==
    {p \in SeqOf(Names, Len(path) + MaxDepth + 1) :
        IsPrefix(path, p) /\ InodeIn(entries, p) \in Files}

\* FilesBelow by where the path leads.
LEMMA FilesAreBelow ==
    ASSUME NEW entries, NEW path \in Seq(Names), NEW p
    PROVE  p \in FilesIn(entries, path) <=>
              /\ Continues(path, p) /\ Len(p) <= Len(path) + MaxDepth + 1
              /\ InodeIn(entries, p) \in Files
  <1> DEFINE n == Len(path) + MaxDepth + 1
  <1>1. n \in Nat
    <2>1. Len(path) \in Nat
      OBVIOUS
    <2>2. MaxDepth \in Nat
      BY ToolAssumption
    <2> QED
      BY <2>1, <2>2
  <1>2. p \in SeqOf(Names, n) <=> p \in Seq(Names) /\ Len(p) <= n
    <2>1. ASSUME p \in SeqOf(Names, n) PROVE p \in Seq(Names) /\ Len(p) <= n
      <3>1. PICK m \in 0 .. n : p \in [1 .. m -> Names]
        BY <2>1 DEF SeqOf
      <3>2. p \in Seq(Names) /\ Len(p) = m
        BY <1>1, <3>1
      <3> QED
        BY <1>1, <3>2
    <2>2. ASSUME p \in Seq(Names), Len(p) <= n PROVE p \in SeqOf(Names, n)
      <3>1. Len(p) \in 0 .. n /\ p \in [1 .. Len(p) -> Names]
        BY <1>1, <2>2
      <3> QED
        BY <3>1 DEF SeqOf
    <2> QED
      BY <2>1, <2>2
  <1>3. p \in Seq(Names) => (IsPrefix(path, p) <=> Continues(path, p))
    BY PrefixContinues
  <1>4. Continues(path, p) => p \in Seq(Names)
    BY DEF Continues
  <1> HIDE DEF n
  <1> QED
    BY <1>2, <1>3, <1>4 DEF FilesIn, n

\* A directory that is being searched below path.
FindsFrom(entries, path, frame) ==
    /\ DOMAIN frame = FrameFields
    /\ Continues(path, frame.path)
    /\ frame.depth \in Nat /\ Len(frame.path) = Len(path) + frame.depth
    /\ InodeIn(entries, frame.path) \in Dirs
    /\ frame.from # Nothing => frame.names \in Seq(Names) /\ frame.depth <= MaxDepth

\* The file at p is still to be found from a frame.
Ahead(frame, p) ==
    IF frame.from = Nothing THEN Continues(frame.path, p)
    ELSE \E i \in DOMAIN frame.names : Continues(Append(frame.path, frame.names[i]), p)

\* Every file is found or ahead.
Collected(files, p) == \E i \in DOMAIN files : files[i] = p
Awaited(stack, p) == \E k \in DOMAIN stack : Ahead(stack[k], p)
Collecting(entries, path, stack, files) ==
    /\ \E S : stack \in Seq(S)
    /\ stack # <<>>
    /\ \A k \in DOMAIN stack : FindsFrom(entries, path, stack[k])
    /\ files \in Seq(FilesIn(entries, path))
    /\ \A p \in FilesIn(entries, path) : Collected(files, p) \/ Awaited(stack, p)

\* The frame on top gives way to others.
LEMMA CollectingMoves ==
    ASSUME NEW entries, NEW path, NEW stack, NEW files,
           Collecting(entries, path, stack, files),
           NEW stack2, NEW files2, NEW S, stack2 \in Seq(S), stack2 # <<>>,
           files2 \in Seq(FilesIn(entries, path)),
           \A k \in DOMAIN stack2 : FindsFrom(entries, path, stack2[k]),
           \A k \in DOMAIN stack : k # 1 => \E j \in DOMAIN stack2 : stack2[j] = stack[k],
           \A i \in DOMAIN files : Collected(files2, files[i]),
           \A p \in FilesIn(entries, path) : Ahead(stack[1], p) =>
              Collected(files2, p) \/ Awaited(stack2, p)
    PROVE  Collecting(entries, path, stack2, files2)
  <1>1. ASSUME NEW p \in FilesIn(entries, path)
        PROVE  Collected(files2, p) \/ Awaited(stack2, p)
    <2>1. CASE Collected(files, p)
      BY <2>1 DEF Collected
    <2>2. ASSUME NEW k \in DOMAIN stack, Ahead(stack[k], p)
          PROVE  Collected(files2, p) \/ Awaited(stack2, p)
      <3>1. CASE k = 1
        BY <2>2, <3>1
      <3>2. CASE k # 1
        <4>1. PICK j \in DOMAIN stack2 : stack2[j] = stack[k]
          BY <3>2
        <4>2. Ahead(stack2[j], p)
          BY <2>2, <4>1
        <4> QED
          BY <4>2 DEF Awaited
      <3> QED
        BY <3>1, <3>2
    <2> QED
      BY <2>1, <2>2 DEF Collecting, Awaited
  <1> QED
    BY <1>1 DEF Collecting

\* What a search keeps while it looks for files.
SameWork(c, d) ==
    /\ d.tool = c.tool /\ d.args = c.args /\ d.matches = c.matches
    /\ d.matchBytes = c.matchBytes /\ d.scanned = c.scanned /\ d.output = c.output

CollectingCall(c) == Collecting(fs.entries, c.args.path, c.stack, c.files)

\* The frame on top is replaced by one for the same directory.
LEMMA TopIsReplaced ==
    ASSUME NEW stack, NEW S, stack \in Seq(S), stack # <<>>, NEW frame
    PROVE  /\ [stack EXCEPT ![1] = frame] \in Seq(S \cup {frame})
           /\ [stack EXCEPT ![1] = frame] # <<>>
           /\ DOMAIN [stack EXCEPT ![1] = frame] = DOMAIN stack
           /\ 1 \in DOMAIN stack
           /\ [stack EXCEPT ![1] = frame][1] = frame
           /\ \A k \in DOMAIN stack : k # 1 => [stack EXCEPT ![1] = frame][k] = stack[k]
  <1>1. DOMAIN stack = 1 .. Len(stack) /\ Len(stack) \in Nat /\ Len(stack) # 0
    OBVIOUS
  <1>2. PICK s : s = [stack EXCEPT ![1] = frame]
    OBVIOUS
  <1>3. /\ DOMAIN s = DOMAIN stack /\ 1 \in DOMAIN stack /\ s[1] = frame
        /\ \A k \in DOMAIN stack : k # 1 => s[k] = stack[k]
    BY <1>1, <1>2
  <1>4. s \in Seq(S \cup {frame}) /\ s # <<>>
    <2>1. \A k \in 1 .. Len(stack) : s[k] \in S \cup {frame}
      BY <1>1, <1>3
    <2>2. s = [k \in 1 .. Len(stack) |-> s[k]]
      BY <1>1, <1>2
    <2>3. s \in [1 .. Len(stack) -> S \cup {frame}]
      BY <2>1, <2>2
    <2> QED
      BY <1>1, <1>3, <2>3
  <1> QED
    BY <1>2, <1>3, <1>4

\* Opening a directory puts its children ahead in the place of it.
LEMMA EnterDirectoryFinds ==
    ASSUME TypesOK, TreeOK(fs), CollectingCall(call), EnterDirectory
    PROVE  \/ call' = Fails(call)
           \/ /\ call'.pc = "find" /\ SameWork(call, call')
              /\ Collecting(fs.entries, call.args.path, call'.stack, call'.files)
  <1> DEFINE t == call.stack[1]
             d == InodeAt(Dir.path)
             t2 == [t EXCEPT !.names = ChildrenOf(d), !.from = d]
             stack2 == [call.stack EXCEPT ![1] = t2]
             path == call.args.path
  <1>1. SUFFICES ASSUME call' # Fails(call)
                 PROVE  /\ call'.pc = "find" /\ SameWork(call, call')
                        /\ Collecting(fs.entries, path, call'.stack, call'.files)
    OBVIOUS
  <1>2. PICK S : call.stack \in Seq(S)
    BY DEF CollectingCall, Collecting
  <1>3. call.stack # <<>> /\ 1 \in DOMAIN call.stack
    BY <1>2, TopIsReplaced DEF CollectingCall, Collecting
  <1>4. FindsFrom(fs.entries, path, t)
    BY <1>3 DEF CollectingCall, Collecting
  <1>5. d \in Dirs /\ d = InodeIn(fs.entries, t.path)
    BY <1>4 DEF FindsFrom, Dir, InodeAt
  <1>6. /\ call' = [call EXCEPT !.stack[1].names = ChildrenOf(d), !.stack[1].from = d]
        /\ call.pc = "find" /\ t.from = Nothing /\ ~(t.depth > MaxDepth)
    <2>1. d \notin Links /\ NamesIn(d) = {ChildrenOf(d)}
      BY <1>5, TreeAssumption DEF NamesIn
    <2> QED
      BY <1>1, <1>5, <2>1 DEF EnterDirectory, Dir
  <1>7. call'.stack = stack2 /\ call'.files = call.files
        /\ call'.pc = "find" /\ SameWork(call, call')
    BY <1>3, <1>4, <1>6 DEF TypesOK, CallFields, SameWork, FindsFrom, FrameFields
  <1>8. /\ DOMAIN t2 = FrameFields /\ t2.path = t.path /\ t2.depth = t.depth
        /\ t2.from = d /\ t2.names = ChildrenOf(d)
    BY <1>4 DEF FindsFrom, FrameFields
  <1>9. d # Nothing
    BY <1>5, TreeAssumption DEF Inodes
  <1> HIDE DEF t2
  <1>10. FindsFrom(fs.entries, path, t2)
    <2>1. t2.depth <= MaxDepth
      <3>1. t2.depth \in Nat /\ MaxDepth \in Nat /\ ~(t2.depth > MaxDepth)
        BY <1>4, <1>6, <1>8, ToolAssumption DEF FindsFrom
      <3> QED
        BY <3>1
    <2>2. t2.names \in Seq(Names)
      BY <1>8, ChildrenAreNames
    <2> QED
      BY <1>4, <1>8, <2>1, <2>2 DEF FindsFrom
  <1>11. ASSUME NEW p \in FilesIn(fs.entries, path), Ahead(t, p)
         PROVE  Ahead(t2, p)
    <2>1. Continues(t.path, p) /\ t.path \in Seq(Names) /\ path \in Seq(Names)
      BY <1>4, <1>6, <1>11 DEF Ahead, Continues, FindsFrom
    <2>2. InodeIn(fs.entries, p) \in Files
      BY <2>1, FilesAreBelow
    <2>3. p # t.path
      <3>1. d \notin Files
        BY <1>5, TreeAssumption
      <3> QED
        BY <1>5, <2>2, <3>1
    <2> DEFINE m == p[Len(t.path) + 1]
    <2>4. /\ m \in Names /\ fs.entries[d][m] # Nothing
          /\ Continues(Append(t.path, m), p)
      <3>1. fs.entries \in Tree
        BY DEF TreeOK
      <3> QED
        BY <1>5, <2>1, <2>2, <2>3, <3>1, WayToAFile
    <2>5. PICK i \in DOMAIN ChildrenOf(d) : ChildrenOf(d)[i] = m
      BY <2>4, ChildrenAreAll
    <2> HIDE DEF m
    <2> QED
      BY <1>8, <1>9, <2>4, <2>5 DEF Ahead
  <1>12. /\ stack2 \in Seq(S \cup {t2}) /\ stack2 # <<>> /\ DOMAIN stack2 = DOMAIN call.stack
         /\ stack2[1] = t2
         /\ \A k \in DOMAIN call.stack : k # 1 => stack2[k] = call.stack[k]
    BY <1>2, <1>3, TopIsReplaced
  <1> HIDE DEF stack2, t, path, d
  <1>13. Collecting(fs.entries, path, stack2, call.files)
    <2>1. Collecting(fs.entries, path, call.stack, call.files)
      BY DEF CollectingCall, path
    <2>2. ASSUME NEW k \in DOMAIN stack2 PROVE FindsFrom(fs.entries, path, stack2[k])
      BY <1>10, <1>12, <2>1 DEF Collecting
    <2>3. \A k \in DOMAIN call.stack : k # 1 => \E j \in DOMAIN stack2 : stack2[j] = call.stack[k]
      BY <1>12
    <2>4. \A i \in DOMAIN call.files : Collected(call.files, call.files[i])
      BY DEF Collected
    <2>5. call.files \in Seq(FilesIn(fs.entries, path))
      BY <2>1 DEF Collecting
    <2>6. ASSUME NEW p \in FilesIn(fs.entries, path), Ahead(call.stack[1], p)
          PROVE  Awaited(stack2, p)
      <3>1. Ahead(stack2[1], p) /\ 1 \in DOMAIN stack2
        BY <1>3, <1>11, <1>12, <2>6 DEF t
      <3> QED
        BY <3>1 DEF Awaited
    <2> QED
      BY <1>12, <2>1, <2>2, <2>3, <2>4, <2>5, <2>6, CollectingMoves
  <1> QED
    BY <1>7, <1>13

\* Continuing is transitive.
LEMMA ContinuesFurther ==
    ASSUME NEW a, NEW b, NEW c, Continues(a, b), Continues(b, c)
    PROVE  Continues(a, c)
  <1>1. Len(a) \in Nat /\ Len(b) \in Nat /\ Len(c) \in Nat
    BY DEF Continues
  <1> QED
    BY <1>1 DEF Continues

\* A child continues its directory.
LEMMA ChildContinues ==
    ASSUME NEW path \in Seq(Names), NEW name \in Names
    PROVE  Continues(path, Append(path, name)) /\ Len(Append(path, name)) = Len(path) + 1
  BY DEF Continues

\* What is ahead of a frame is below its next child or ahead of the others.
LEMMA NextIsAhead ==
    ASSUME NEW t, NEW rest, NEW p, t.names \in Seq(Names), t.names # <<>>,
           t.from # Nothing, rest.names = Tail(t.names), rest.from = t.from,
           rest.path = t.path, Ahead(t, p)
    PROVE  Continues(Append(t.path, Head(t.names)), p) \/ Ahead(rest, p)
  <1>1. PICK s \in Seq(Names) : s = t.names
    OBVIOUS
  <1>2. PICK i \in DOMAIN s : Continues(Append(t.path, s[i]), p)
    BY <1>1 DEF Ahead
  <1>3. /\ DOMAIN s = 1 .. Len(s) /\ Len(s) \in Nat /\ Head(s) = s[1]
        /\ DOMAIN Tail(s) = 1 .. Len(s) - 1
        /\ \A j \in 1 .. Len(s) - 1 : Tail(s)[j] = s[j + 1]
    BY <1>1
  <1>4. CASE i = 1
    BY <1>1, <1>2, <1>3, <1>4
  <1>5. CASE i # 1
    <2>1. i - 1 \in DOMAIN Tail(s) /\ Tail(s)[i - 1] = s[i]
      BY <1>3, <1>5
    <2>2. /\ Continues(Append(rest.path, rest.names[i - 1]), p)
          /\ i - 1 \in DOMAIN rest.names
      BY <1>1, <1>2, <2>1
    <2> QED
      BY <2>2 DEF Ahead
  <1> QED
    BY <1>4, <1>5

\* A child, and what is left of the frame on top.
LEMMA ChildOfTop ==
    ASSUME TypesOK, TreeOK(fs), CollectingCall(call), FindChild,
           NEW t, t = call.stack[1], NEW rest, rest = [t EXCEPT !.names = Tail(@)],
           NEW q, q = ChildPath
    PROVE  /\ FindsFrom(fs.entries, call.args.path, t)
           /\ FindsFrom(fs.entries, call.args.path, rest)
           /\ t.names \in Seq(Names) /\ t.names # <<>> /\ t.from # Nothing
           /\ rest.names = Tail(t.names) /\ rest.from = t.from /\ rest.path = t.path
           /\ q = Append(t.path, Head(t.names))
           /\ Continues(call.args.path, q)
           /\ Len(q) = Len(call.args.path) + t.depth + 1
           /\ t.depth \in Nat /\ t.depth <= MaxDepth
           /\ InodeAt(q) = InodeIn(fs.entries, q) /\ InodeAt(q) \in Entered
           /\ \A p : Ahead(t, p) => Continues(q, p) \/ Ahead(rest, p)
  <1>1. 1 \in DOMAIN call.stack
    BY TopIsReplaced DEF CollectingCall, Collecting
  <1>2. FindsFrom(fs.entries, call.args.path, t)
    BY <1>1 DEF CollectingCall, Collecting
  <1>3. t.from # Nothing /\ t.names # <<>> /\ q = Append(t.path, Head(t.names))
    BY DEF FindChild, Dir, ChildPath
  <1>4. t.names \in Seq(Names) /\ t.depth <= MaxDepth /\ t.depth \in Nat
    BY <1>2, <1>3 DEF FindsFrom
  <1>5. /\ DOMAIN rest = FrameFields /\ rest.names = Tail(t.names) /\ rest.from = t.from
        /\ rest.path = t.path /\ rest.depth = t.depth
    BY <1>2 DEF FindsFrom, FrameFields
  <1>6. Tail(t.names) \in Seq(Names) /\ Head(t.names) \in Names
    BY <1>3, <1>4
  <1>7. FindsFrom(fs.entries, call.args.path, rest)
    BY <1>2, <1>4, <1>5, <1>6 DEF FindsFrom
  <1>8. t.path \in Seq(Names) /\ Continues(call.args.path, t.path)
        /\ Len(t.path) = Len(call.args.path) + t.depth
    BY <1>2 DEF FindsFrom, Continues
  <1>9. Continues(call.args.path, q) /\ Len(q) = Len(call.args.path) + t.depth + 1
    <2>1. Continues(t.path, q) /\ Len(q) = Len(t.path) + 1
      BY <1>3, <1>6, <1>8, ChildContinues
    <2> QED
      BY <1>8, <2>1, ContinuesFurther
  <1>10. InodeAt(q) = InodeIn(fs.entries, q) /\ InodeAt(q) \in Entered
    <2>1. /\ q \in Seq(Names) /\ fs.entries \in Tree
          /\ Append(q, Head(t.names)) \in Seq(Names)
      BY <1>6, <1>9 DEF Continues, TreeOK
    <2> QED
      BY <1>6, <2>1, InodeOfChild DEF InodeAt
  <1>11. ASSUME NEW p, Ahead(t, p) PROVE Continues(q, p) \/ Ahead(rest, p)
    <2>1. Continues(Append(t.path, Head(t.names)), p) \/ Ahead(rest, p)
      BY ONLY <1>3, <1>4, <1>5, <1>11, NextIsAhead
    <2> QED
      BY <1>3, <2>1
  <1> QED
    BY <1>2, <1>3, <1>4, <1>5, <1>7, <1>9, <1>10, <1>11

\* A child that is taken from the frame is found, or put on top.
LEMMA FindChildFinds ==
    ASSUME TypesOK, TreeOK(fs), CollectingCall(call), FindChild
    PROVE  \/ call' = Fails(call)
           \/ /\ call'.pc = "find" /\ SameWork(call, call')
              /\ Collecting(fs.entries, call.args.path, call'.stack, call'.files)
  <1> DEFINE path == call.args.path
             E == fs.entries
  <1>1. PICK t : t = call.stack[1]
    OBVIOUS
  <1>2. PICK rest : rest = [t EXCEPT !.names = Tail(@)]
    OBVIOUS
  <1>3. PICK q : q = ChildPath
    OBVIOUS
  <1>4. PICK i : i = InodeAt(q)
    OBVIOUS
  <1>5. PICK stack2 : stack2 = [call.stack EXCEPT ![1] = rest]
    OBVIOUS
  <1>6. PICK frame : frame = Frame(q, t.depth + 1)
    OBVIOUS
  <1>7. /\ FindsFrom(E, path, t) /\ FindsFrom(E, path, rest)
        /\ Continues(path, q) /\ Len(q) = Len(path) + t.depth + 1
        /\ t.depth \in Nat /\ t.depth <= MaxDepth
        /\ i = InodeIn(E, q) /\ i \in Entered
        /\ \A p : Ahead(t, p) => Continues(q, p) \/ Ahead(rest, p)
    BY <1>1, <1>2, <1>3, <1>4, ChildOfTop
  <1>8. PICK S : call.stack \in Seq(S)
    BY DEF CollectingCall, Collecting
  <1>9. /\ stack2 \in Seq(S \cup {rest}) /\ stack2 # <<>> /\ DOMAIN stack2 = DOMAIN call.stack
        /\ stack2[1] = rest /\ 1 \in DOMAIN stack2
        /\ \A k \in DOMAIN call.stack : k # 1 => stack2[k] = call.stack[k]
    BY <1>5, <1>8, TopIsReplaced DEF CollectingCall, Collecting
  <1>10. \/ i = Nothing /\ call' = Fails(call)
         \/ i \in Links /\ call' = [call EXCEPT !.stack = stack2]
         \/ i \in Dirs /\ call' = [call EXCEPT !.stack = <<frame>> \o stack2]
         \/ /\ i \in Files
            /\ call' = IF Len(Append(call.files, q)) >= MaxCandidates THEN Fails(call)
                       ELSE [call EXCEPT !.stack = stack2,
                                         !.files = Append(call.files, q)]
    <2>1. InodeAt(Dir.path) \notin Links
      BY <1>1, <1>7, TreeAssumption DEF FindsFrom, Dir, InodeAt
    <2> QED
      BY <1>1, <1>2, <1>3, <1>4, <1>5, <1>6, <2>1 DEF FindChild, Dir, TypesOK, CallFields
  <1>11. Collecting(E, path, call.stack, call.files) /\ call.pc = "find"
    BY DEF CollectingCall, FindChild
  <1>12. /\ \A k \in DOMAIN stack2 : FindsFrom(E, path, stack2[k])
         /\ \A k \in DOMAIN call.stack : k # 1 => \E j \in DOMAIN stack2 : stack2[j] = call.stack[k]
    BY <1>7, <1>9, <1>11 DEF Collecting
  <1>13. ASSUME NEW p \in FilesIn(E, path), Continues(q, p), i \notin Dirs
         PROVE  p = q /\ i \in Files
    <2>1. InodeIn(E, p) \in Files
      BY DEF FilesIn
    <2>2. E \in Tree
      BY DEF TreeOK
    <2> QED
      BY <1>7, <1>13, <2>1, <2>2, WayToAFile
  <1>14. call.files \in Seq(FilesIn(E, path)) /\ \A j \in DOMAIN call.files : Collected(call.files, call.files[j])
    BY <1>11 DEF Collecting, Collected
  <1>15. CASE i = Nothing
    <2>1. i \notin Links /\ i \notin Dirs /\ i \notin Files
      BY <1>15, TreeAssumption DEF Inodes
    <2>2. call' = Fails(call)
      BY <1>10, <1>15, <2>1
    <2> QED
      BY <2>2
  <1>16. CASE i \in Links
    <2>1. i # Nothing /\ i \notin Dirs /\ i \notin Files
      BY <1>16, TreeAssumption DEF Inodes
    <2>2. call' = [call EXCEPT !.stack = stack2]
      BY <1>10, <1>16, <2>1
    <2>3. /\ call'.pc = "find" /\ SameWork(call, call') /\ call'.stack = stack2
          /\ call'.files = call.files
      BY <1>11, <2>2 DEF TypesOK, CallFields, SameWork
    <2>4. ASSUME NEW p \in FilesIn(E, path), Ahead(call.stack[1], p) PROVE Awaited(stack2, p)
      <3>1. Ahead(stack2[1], p)
        BY <1>1, <1>7, <1>9, <1>13, <2>1, <2>4
      <3> QED
        BY <1>9, <3>1 DEF Awaited
    <2> HIDE DEF path, E
    <2>5. Collecting(E, path, stack2, call.files)
      BY <1>9, <1>11, <1>12, <1>14, <2>4, CollectingMoves
    <2> QED
      BY <2>3, <2>5 DEF path, E
  <1>17. CASE i \in Dirs
    <2>1. i # Nothing /\ i \notin Links /\ i \notin Files
      BY <1>17, TreeAssumption DEF Inodes
    <2>2. call' = [call EXCEPT !.stack = <<frame>> \o stack2]
      BY <1>10, <1>17, <2>1
    <2>3. PICK stack3 : stack3 = <<frame>> \o stack2
      OBVIOUS
    <2>4. /\ call'.pc = "find" /\ SameWork(call, call') /\ call'.stack = stack3
          /\ call'.files = call.files
      BY <1>11, <2>2, <2>3 DEF TypesOK, CallFields, SameWork
    <2>5. /\ stack3 \in Seq(S \cup {rest, frame}) /\ stack3 # <<>> /\ stack3[1] = frame
          /\ 1 \in DOMAIN stack3
          /\ \A k \in DOMAIN stack2 : k + 1 \in DOMAIN stack3 /\ stack3[k + 1] = stack2[k]
          /\ \A k \in DOMAIN stack3 : k # 1 => k - 1 \in DOMAIN stack2 /\ stack3[k] = stack2[k - 1]
      <3>1. /\ stack2 \in Seq(S \cup {rest, frame})
            /\ <<frame>> \in Seq(S \cup {rest, frame})
        BY <1>9
      <3>2. Len(stack2) \in Nat /\ DOMAIN stack2 = 1 .. Len(stack2)
            /\ Len(stack3) = Len(stack2) + 1 /\ DOMAIN stack3 = 1 .. Len(stack2) + 1
            /\ stack3 \in Seq(S \cup {rest, frame})
        BY <2>3, <3>1
      <3>3. stack3[1] = frame /\ \A k \in 1 .. Len(stack2) : stack3[k + 1] = stack2[k]
        BY <2>3, <3>1
      <3>4. stack3 # <<>>
        BY <3>2
      <3>5. \A k \in 2 .. Len(stack2) + 1 : stack3[k] = stack2[k - 1]
        <4>1. \A k \in 2 .. Len(stack2) + 1 : k - 1 \in 1 .. Len(stack2) /\ (k - 1) + 1 = k
          BY <3>2
        <4> QED
          BY <3>3, <4>1
      <3> QED
        BY <3>2, <3>3, <3>4, <3>5
    <2>6. FindsFrom(E, path, frame)
      <3>1. /\ DOMAIN frame = FrameFields /\ frame.path = q /\ frame.depth = t.depth + 1
            /\ frame.from = Nothing
        BY <1>6 DEF Frame, FrameFields
      <3>2. Len(path) \in Nat
        BY <1>7 DEF Continues
      <3>3. frame.depth \in Nat /\ Len(frame.path) = Len(path) + frame.depth
        BY <1>7, <3>1, <3>2
      <3> QED
        BY <1>7, <1>17, <3>1, <3>3 DEF FindsFrom
    <2>7. ASSUME NEW p \in FilesIn(E, path), Ahead(call.stack[1], p) PROVE Awaited(stack3, p)
      <3>1. CASE Continues(q, p)
        <4>1. Ahead(stack3[1], p)
          BY <1>6, <2>5, <3>1 DEF Ahead, Frame
        <4> QED
          BY <2>5, <4>1 DEF Awaited
      <3>2. CASE Ahead(rest, p)
        <4>1. 2 \in DOMAIN stack3 /\ Ahead(stack3[2], p)
          BY <1>9, <2>5, <3>2
        <4> QED
          BY <4>1 DEF Awaited
      <3> QED
        BY <1>1, <1>7, <2>7, <3>1, <3>2
    <2>8. \A k \in DOMAIN stack3 : FindsFrom(E, path, stack3[k])
      BY <1>12, <2>5, <2>6
    <2>9. \A k \in DOMAIN call.stack : k # 1 => \E j \in DOMAIN stack3 : stack3[j] = call.stack[k]
      BY <1>12, <2>5
    <2> HIDE DEF path, E
    <2>10. Collecting(E, path, stack3, call.files)
      BY <1>11, <1>14, <2>5, <2>7, <2>8, <2>9, CollectingMoves
    <2> QED
      BY <2>4, <2>10 DEF path, E
  <1>18. CASE i \notin Dirs \cup Links /\ i # Nothing
    <2>1. CASE Len(Append(call.files, q)) >= MaxCandidates
      BY <1>10, <1>18, <2>1
    <2>2. CASE ~(Len(Append(call.files, q)) >= MaxCandidates)
      <3>1. PICK files2 : files2 = Append(call.files, q)
        OBVIOUS
      <3>2. call' = [call EXCEPT !.stack = stack2, !.files = files2]
        BY <1>10, <1>18, <2>2, <3>1
      <3>3. /\ call'.pc = "find" /\ SameWork(call, call') /\ call'.stack = stack2
            /\ call'.files = files2
        BY <1>11, <3>2 DEF TypesOK, CallFields, SameWork
      <3>4. i \in Files
        BY <1>7, <1>18 DEF Entered, Inodes
      <3>5. q \in FilesIn(E, path)
        <4>1. Len(q) <= Len(path) + MaxDepth + 1
          <5>1. MaxDepth \in Nat
            BY ToolAssumption
          <5>2. path \in Seq(Names)
            BY <1>7 DEF Continues
          <5>3. Len(path) \in Nat
            BY <5>2
          <5> QED
            BY <1>7, <5>1, <5>3
        <4>2. path \in Seq(Names)
          BY <1>7 DEF Continues
        <4> HIDE DEF path, E
        <4> QED
          BY <1>7, <3>4, <4>1, <4>2, FilesAreBelow
      <3>6. /\ files2 \in Seq(FilesIn(E, path))
            /\ \A j \in DOMAIN call.files : j \in DOMAIN files2 /\ files2[j] = call.files[j]
            /\ Len(files2) \in DOMAIN files2 /\ files2[Len(files2)] = q
        BY <1>14, <3>1, <3>5
      <3>7. \A j \in DOMAIN call.files : Collected(files2, call.files[j])
        BY <3>6 DEF Collected
      <3>8. ASSUME NEW p \in FilesIn(E, path), Ahead(call.stack[1], p)
            PROVE  Collected(files2, p) \/ Awaited(stack2, p)
        <4>1. CASE Continues(q, p)
          <5>1. p = q
            BY <1>13, <1>18, <4>1
          <5> QED
            BY <3>6, <5>1 DEF Collected
        <4>2. CASE Ahead(rest, p)
          BY <1>9, <4>2 DEF Awaited
        <4> QED
          BY <1>1, <1>7, <3>8, <4>1, <4>2
      <3> HIDE DEF path, E
      <3>9. Collecting(E, path, stack2, files2)
        BY <1>9, <1>11, <1>12, <3>6, <3>7, <3>8, CollectingMoves
      <3> QED
        BY <3>3, <3>9 DEF path, E
    <2> QED
      BY <2>1, <2>2
  <1> QED
    BY <1>15, <1>16, <1>17, <1>18

\* All files below path are found, and in order.
Found(entries, path, files) ==
    IsFiniteSet(FilesIn(entries, path)) /\ files = Sorted(FilesIn(entries, path))

\* What is found are paths.
LEMMA FilesArePaths ==
    ASSUME NEW entries, NEW path
    PROVE  FilesIn(entries, path) \in SUBSET Seq(Names)
  BY DEF FilesIn, SeqOf

\* A sequence has finitely many members.
LEMMA MembersAreFinite ==
    ASSUME NEW S, NEW s \in Seq(S)
    PROVE  IsFiniteSet(ToSet(s))
  <1>1. Len(s) \in Nat /\ DOMAIN s = 1 .. Len(s)
    OBVIOUS
  <1>2. s \in Surjection(1 .. Len(s), ToSet(s))
    BY <1>1 DEF Surjection, ToSet
  <1>3. IsFiniteSet(1 .. Len(s))
    BY <1>1, FS_Interval
  <1> QED
    BY <1>2, <1>3, FS_Surjection

\* A sequence of one.
LEMMA OnlyOne ==
    ASSUME NEW x, NEW s \in Seq({x}), Len(s) = 1
    PROVE  s = <<x>>
  <1>1. s[1] \in {x}
    OBVIOUS
  <1> QED
    BY <1>1

\* A frame that has no names left held nothing that is not found; with the
\* last frame all files are, and are sorted.
LEMMA FoundAllFinds ==
    ASSUME TypesOK, TreeOK(fs), CollectingCall(call), FoundAll
    PROVE  /\ SameWork(call, call')
           /\ \/ /\ call'.pc = "find"
                 /\ Collecting(fs.entries, call.args.path, call'.stack, call'.files)
              \/ /\ call'.pc = "nextFile"
                 /\ Found(fs.entries, call.args.path, call'.files)
  <1> DEFINE path == call.args.path
             E == fs.entries
             F == FilesIn(E, path)
  <1>1. PICK stack : stack = call.stack
    OBVIOUS
  <1>2. Collecting(E, path, stack, call.files) /\ call.pc = "find"
    BY <1>1 DEF CollectingCall, FoundAll
  <1>3. PICK S : stack \in Seq(S)
    BY <1>2 DEF Collecting
  <1>4. DOMAIN stack = 1 .. Len(stack) /\ Len(stack) \in Nat /\ Len(stack) # 0
    BY <1>2, <1>3 DEF Collecting
  <1>5. \A p : ~Ahead(stack[1], p)
    <2>1. PICK t : t = stack[1]
      OBVIOUS
    <2>2. t.from # Nothing /\ t.names = <<>>
      BY <1>1, <2>1 DEF FoundAll, Dir
    <2> QED
      BY <2>1, <2>2 DEF Ahead
  <1>6. CASE Len(stack) > 1
    <2>1. PICK rest : rest = Tail(stack)
      OBVIOUS
    <2>2. /\ rest \in Seq(S) /\ rest # <<>> /\ DOMAIN rest = 1 .. Len(stack) - 1
          /\ \A j \in 1 .. Len(stack) - 1 : rest[j] = stack[j + 1]
      <3>1. stack # <<>>
        BY <1>4
      <3>2. rest \in Seq(S) /\ Len(rest) = Len(stack) - 1
        BY <1>3, <2>1, <3>1
      <3>3. \A j \in 1 .. Len(stack) - 1 : rest[j] = stack[j + 1]
        BY <1>3, <2>1, <3>1
      <3>4. rest # <<>> /\ DOMAIN rest = 1 .. Len(stack) - 1
        BY <1>4, <1>6, <3>2
      <3> QED
        BY <3>2, <3>3, <3>4
    <2>3. call' = [call EXCEPT !.stack = rest]
      BY <1>1, <1>6, <2>1 DEF FoundAll
    <2>4. /\ call'.pc = "find" /\ SameWork(call, call') /\ call'.stack = rest
          /\ call'.files = call.files
      BY <1>2, <2>3 DEF TypesOK, CallFields, SameWork
    <2>5. \A k \in DOMAIN rest : FindsFrom(E, path, rest[k])
      <3>1. \A k \in DOMAIN rest : k + 1 \in DOMAIN stack
        BY <1>4, <2>2
      <3> QED
        BY <1>2, <2>2, <3>1 DEF Collecting
    <2>6. \A k \in DOMAIN stack : k # 1 => \E j \in DOMAIN rest : rest[j] = stack[k]
      <3>1. ASSUME NEW k \in DOMAIN stack, k # 1 PROVE \E j \in DOMAIN rest : rest[j] = stack[k]
        <4>1. k - 1 \in DOMAIN rest /\ (k - 1) + 1 = k
          BY <1>4, <2>2, <3>1
        <4> QED
          BY <2>2, <4>1
      <3> QED
        BY <3>1
    <2>7. call.files \in Seq(F) /\ \A j \in DOMAIN call.files : Collected(call.files, call.files[j])
      BY <1>2 DEF Collecting, Collected
    <2> HIDE DEF path, E
    <2>8. Collecting(E, path, rest, call.files)
      BY <1>2, <1>5, <2>2, <2>5, <2>6, <2>7, CollectingMoves DEF F
    <2> QED
      BY <2>4, <2>8 DEF path, E
  <1>7. CASE ~(Len(stack) > 1)
    <2>1. call' = [call EXCEPT !.files = Sorted(ToSet(call.files)), !.pc = "nextFile"]
      BY <1>1, <1>7 DEF FoundAll
    <2>2. /\ call'.pc = "nextFile" /\ SameWork(call, call')
          /\ call'.files = Sorted(ToSet(call.files))
      BY <2>1 DEF TypesOK, CallFields, SameWork
    <2>3. \A k \in DOMAIN stack : k = 1
      BY <1>4, <1>7
    <2>4. ASSUME NEW p \in F PROVE p \in ToSet(call.files)
      <3>1. ~Awaited(stack, p)
        BY <1>5, <2>3 DEF Awaited
      <3>2. Collected(call.files, p)
        BY <1>2, <3>1 DEF Collecting
      <3> QED
        BY <3>2 DEF Collected, ToSet
    <2>5. call.files \in Seq(F)
      BY <1>2 DEF Collecting
    <2>6. ToSet(call.files) \in SUBSET F
      <3> HIDE DEF F
      <3> QED
        BY <2>5 DEF ToSet
    <2>7. ToSet(call.files) = F
      BY <2>4, <2>6
    <2>8. IsFiniteSet(F)
      BY <2>5, <2>7, MembersAreFinite
    <2> QED
      BY <2>2, <2>7, <2>8 DEF Found
  <1> QED
    BY <1>6, <1>7

\* A search begins in a directory, or with a file that is all it reads.
LEMMA ResolveFinds ==
    ASSUME TypesOK, TreeOK(fs), Resolve, call.tool = "search_text",
           call.args.path \in Seq(Names), call.files = <<>>
    PROVE  \/ call' = Fails(call)
           \/ /\ SameWork(call, call')
              /\ \/ /\ call'.pc = "find"
                    /\ Collecting(fs.entries, call.args.path, call'.stack, call'.files)
                 \/ /\ call'.pc = "nextFile"
                    /\ Found(fs.entries, call.args.path, call'.files)
  <1> DEFINE path == call.args.path
             E == fs.entries
             F == FilesIn(E, path)
  <1>1. PICK i : i = InodeIn(E, path)
    OBVIOUS
  <1>2. CASE i \in Files
    <2>1. i \notin Links /\ i \notin Dirs
      BY <1>2, TreeAssumption
    <2>2. call' = [call EXCEPT !.pc = "nextFile", !.files = <<path>>]
      BY <1>1, <1>2, <2>1 DEF Resolve, InodeAt
    <2>3. call'.pc = "nextFile" /\ SameWork(call, call') /\ call'.files = <<path>>
      BY <2>2 DEF TypesOK, CallFields, SameWork
    <2>4. F = {path}
      <3>1. path \in F
        <4>1. Continues(path, path)
          <5>1. Len(path) \in Nat
            OBVIOUS
          <5> QED
            BY <5>1 DEF Continues
        <4>2. Len(path) <= Len(path) + MaxDepth + 1
          <5>1. Len(path) \in Nat
            OBVIOUS
          <5>2. MaxDepth \in Nat
            BY ToolAssumption
          <5> QED
            BY <5>1, <5>2
        <4> QED
          BY <1>1, <1>2, <4>1, <4>2, FilesAreBelow
      <3>2. ASSUME NEW p \in F PROVE p = path
        <4>1. Continues(path, p) /\ InodeIn(E, p) \in Files
          BY FilesAreBelow
        <4>2. E \in Tree
          BY DEF TreeOK
        <4> QED
          BY <1>1, <2>1, <4>1, <4>2, WayToAFile
      <3> QED
        BY <3>1, <3>2
    <2>5. IsFiniteSet(F) /\ Cardinality(F) = 1
      BY <2>4, FS_Singleton
    <2>6. PICK s : s = Sorted(F)
      OBVIOUS
    <2>7. s \in Seq(F) /\ Len(s) = 1
      <3>1. F \in SUBSET Seq(Names)
        BY FilesArePaths
      <3> HIDE DEF F
      <3> QED
        BY <2>5, <2>6, <3>1, SortedHasEach
    <2>8. s = <<path>>
      BY <2>4, <2>7, OnlyOne
    <2> QED
      BY <2>3, <2>5, <2>6, <2>8 DEF Found
  <1>3. CASE i \in Dirs
    <2>1. i \notin Links /\ i \notin Files
      BY <1>3, TreeAssumption
    <2>2. PICK frame : frame = Frame(path, 0)
      OBVIOUS
    <2>3. call' = [call EXCEPT !.pc = "find", !.stack = <<frame>>]
      BY <1>1, <1>3, <2>1, <2>2 DEF Resolve, InodeAt
    <2>4. /\ call'.pc = "find" /\ SameWork(call, call') /\ call'.stack = <<frame>>
          /\ call'.files = <<>>
      BY <2>3 DEF TypesOK, CallFields, SameWork
    <2>5. FindsFrom(E, path, frame)
      <3>1. /\ DOMAIN frame = FrameFields /\ frame.path = path /\ frame.depth = 0
            /\ frame.from = Nothing
        BY <2>2 DEF Frame, FrameFields
      <3>2. Len(path) \in Nat
        OBVIOUS
      <3>3. Continues(path, path)
        BY <3>2 DEF Continues
      <3> QED
        BY <1>1, <1>3, <3>1, <3>2, <3>3 DEF FindsFrom
    <2>6. ASSUME NEW p \in F PROVE Awaited(<<frame>>, p)
      <3>1. Continues(path, p)
        BY FilesAreBelow
      <3>2. Ahead(frame, p)
        BY <2>2, <3>1 DEF Ahead, Frame
      <3> QED
        BY <3>2 DEF Awaited
    <2>7. Collecting(E, path, <<frame>>, <<>>)
      <3>1. <<frame>> \in Seq({frame}) /\ <<frame>> # <<>> /\ \A k \in DOMAIN <<frame>> : <<frame>>[k] = frame
        OBVIOUS
      <3>2. <<>> \in Seq(F)
        OBVIOUS
      <3> QED
        BY <2>5, <2>6, <3>1, <3>2 DEF Collecting
    <2> QED
      BY <2>4, <2>7
  <1>4. CASE i \notin Files \cup Dirs
    <2>1. call' = Fails(call)
      BY <1>1, <1>4 DEF Resolve, InodeAt
    <2> QED
      BY <2>1
  <1> QED
    BY <1>2, <1>3, <1>4

-----------------------------------------------------------------------------
(* The lines of a file *)

Text == Seq(Unit)

\* A text is split into texts.
LEMMA LinesAreTexts ==
    ASSUME NEW content \in Text
    PROVE  Lines(content) \in Seq(Text)
  <1> DEFINE n == Len(content)
             A == Seq(Text)
             Put(a, x) == IF x = "n" THEN Append(a, <<>>)
                          ELSE [a EXCEPT ![Len(a)] = Append(@, x)]
             F == [p \in (1 .. n) \X A |-> Put(p[2], content[p[1]])]
             Is(it) == it = [t \in SUBSET (1 .. n) |-> IF t = {} THEN << <<>> >>
                              ELSE Put(it[t \ {Max(t)}], content[Max(t)])]
             c == CHOOSE it : Is(it)
  <1>1. n \in Nat /\ DOMAIN content = 1 .. n /\ \A k \in 1 .. n : content[k] \in Unit
    BY DEF Text
  <1>2. ASSUME NEW k \in 1 .. n, NEW a \in A
        PROVE  F[<<k, a>>] = Put(a, content[k]) /\ F[<<k, a>>] \in A
    <2>1. F[<<k, a>>] = Put(a, content[k])
      OBVIOUS
    <2>2. PICK x : x = content[k]
      OBVIOUS
    <2>3. x \in Unit
      BY <1>1, <2>2
    <2>4. Put(a, x) \in A
      <3>1. CASE x = "n"
        <4>1. <<>> \in Text
          BY DEF Text
        <4> HIDE DEF Text
        <4>2. Append(a, <<>>) \in A
          BY <4>1
        <4> QED
          BY <3>1, <4>2
      <3>2. CASE x # "n"
        <4>1. Len(a) \in Nat /\ DOMAIN a = 1 .. Len(a) /\ \A j \in 1 .. Len(a) : a[j] \in Text
          OBVIOUS
        <4>2. PICK b : b = [a EXCEPT ![Len(a)] = Append(@, x)]
          OBVIOUS
        <4>3. \A j \in 1 .. Len(a) : Append(a[j], x) \in Text
          BY <2>3, <4>1 DEF Text
        <4>4. \A j \in 1 .. Len(a) : b[j] \in Text
          BY <4>1, <4>2, <4>3
        <4>5. b = [j \in 1 .. Len(a) |-> b[j]]
          BY <4>1, <4>2
        <4>6. b \in [1 .. Len(a) -> Text]
          BY <4>4, <4>5
        <4>7. b \in A
          BY <4>1, <4>6
        <4> QED
          BY <3>2, <4>2, <4>7
      <3> QED
        BY <3>1, <3>2
    <2> QED
      BY <2>1, <2>2, <2>4
  <1>3. << <<>> >> \in A
    BY DEF Text
  <1>4. Lines(content) = c[1 .. n]
    BY <1>1 DEF Lines, FoldLeft, MapThenFoldSet
  <1> HIDE DEF F, n, A, Put
  <1>5. Closed(F, n, A)
    BY <1>2 DEF Closed
  <1>6. PICK it : FoldBy(it, F, n, A, << <<>> >>)
    BY <1>1, <1>3, <1>5, FoldExists
  <1>7. Is(it)
    <2>1. ASSUME NEW t \in SUBSET (1 .. n), t # {}
          PROVE  F[<<Max(t), it[t \ {Max(t)}]>>] =
                    Put(it[t \ {Max(t)}], content[Max(t)])
      <3>1. it[t \ {Max(t)}] \in A
        BY <1>6 DEF FoldBy
      <3>2. Max(t) \in 1 .. n
        BY <1>1, <2>1, MaxIsThere
      <3> QED
        BY <1>2, <3>1, <3>2
    <2> QED
      BY <1>6, <2>1 DEF FoldBy
  <1>8. Is(c)
    BY <1>7
  <1> HIDE DEF c
  <1>9. c[{}] = << <<>> >>
    BY <1>8, {} \in SUBSET (1 .. n)
  <1>10. ASSUME NEW k \in 1 .. n, c[1 .. k - 1] \in A
         PROVE  c[1 .. k] = F[<<k, c[1 .. k - 1]>>]
    <2>1. /\ 1 .. k \in SUBSET (1 .. n) /\ 1 .. k # {} /\ Max(1 .. k) = k
          /\ (1 .. k) \ {k} = 1 .. k - 1
      BY <1>1, WholeInterval
    <2>2. c[1 .. k] = Put(c[1 .. k - 1], content[k])
      BY <1>8, <2>1
    <2> QED
      BY <1>2, <1>10, <2>2
  <1>11. PICK w : Follows(w, F, n, A, << <<>> >>) /\ w[n] = c[1 .. n]
    BY <1>1, <1>3, <1>5, <1>9, <1>10, FoldIsFollowed
  <1>12. n \in 0 .. n
    BY <1>1
  <1> QED
    BY <1>4, <1>11, <1>12 DEF Follows, A

\* The matches a search shows.
MatchesFound == [path : Seq(Names), line : Nat, preview : Text]
MatchAt(path, lines, k) == [path |-> path, line |-> k, preview |-> lines[k]]

\* All matches of a file, line by line.
Looks(g, path, lines) ==
    /\ g \in [0 .. Len(lines) -> Seq(MatchesFound)]
    /\ g[0] = <<>>
    /\ \A k \in 1 .. Len(lines) :
          g[k] = IF "q" \notin ToSet(lines[k]) THEN g[k - 1]
                 ELSE Append(g[k - 1], MatchAt(path, lines, k))

\* MatchesIn goes through the lines.
LEMMA MatchesAreFollowed ==
    ASSUME NEW path \in Seq(Names), NEW content \in Text, Decodes(content)
    PROVE  \E g : /\ Looks(g, path, Lines(content))
                  /\ g[Len(Lines(content))] = MatchesIn(path, content)
  <1> DEFINE lines == Lines(content)
             n == Len(lines)
             A == Seq(MatchesFound)
             Look(a, k) == IF "q" \notin ToSet(lines[k]) THEN a
                           ELSE Append(a, [path |-> path, line |-> k, preview |-> lines[k]])
             F == [p \in (1 .. n) \X A |-> Look(p[2], p[1])]
             Is(it) == it = [t \in SUBSET (1 .. n) |-> IF t = {} THEN <<>>
                              ELSE Look(it[t \ {Max(t)}], [i \in 1 .. n |-> i][Max(t)])]
             c == CHOOSE it : Is(it)
  <1>1. n \in Nat /\ DOMAIN lines = 1 .. n /\ \A k \in 1 .. n : lines[k] \in Text
    BY LinesAreTexts
  <1>2. ASSUME NEW k \in 1 .. n, NEW a \in A
        PROVE  F[<<k, a>>] = Look(a, k) /\ F[<<k, a>>] \in A
    <2>1. F[<<k, a>>] = Look(a, k)
      OBVIOUS
    <2>2. [path |-> path, line |-> k, preview |-> lines[k]] \in MatchesFound
      BY <1>1 DEF MatchesFound
    <2>3. Look(a, k) \in A
      BY <2>2
    <2> QED
      BY <2>1, <2>3
  <1>3. <<>> \in A
    OBVIOUS
  <1>4. MatchesIn(path, content) = c[1 .. n]
    BY <1>1 DEF MatchesIn, FoldLeftDomain, FoldLeft, MapThenFoldSet
  <1> HIDE DEF F, n, A, Look, lines
  <1>5. Closed(F, n, A)
    BY <1>2 DEF Closed
  <1>6. PICK it : FoldBy(it, F, n, A, <<>>)
    BY <1>1, <1>3, <1>5, FoldExists
  <1>7. Is(it)
    <2>1. ASSUME NEW t \in SUBSET (1 .. n), t # {}
          PROVE  F[<<Max(t), it[t \ {Max(t)}]>>] =
                    Look(it[t \ {Max(t)}], [i \in 1 .. n |-> i][Max(t)])
      <3>1. it[t \ {Max(t)}] \in A
        BY <1>6 DEF FoldBy
      <3>2. Max(t) \in 1 .. n /\ [i \in 1 .. n |-> i][Max(t)] = Max(t)
        BY <1>1, <2>1, MaxIsThere
      <3> QED
        BY <1>2, <3>1, <3>2
    <2> QED
      BY <1>6, <2>1 DEF FoldBy
  <1>8. Is(c)
    BY <1>7
  <1> HIDE DEF c
  <1>9. c[{}] = <<>>
    BY <1>8, {} \in SUBSET (1 .. n)
  <1>10. ASSUME NEW k \in 1 .. n, c[1 .. k - 1] \in A
         PROVE  c[1 .. k] = F[<<k, c[1 .. k - 1]>>]
    <2>1. /\ 1 .. k \in SUBSET (1 .. n) /\ 1 .. k # {} /\ Max(1 .. k) = k
          /\ (1 .. k) \ {k} = 1 .. k - 1
      BY <1>1, WholeInterval
    <2>2. c[1 .. k] = Look(c[1 .. k - 1], k)
      BY <1>8, <2>1
    <2> QED
      BY <1>2, <1>10, <2>2
  <1>11. PICK g : Follows(g, F, n, A, <<>>) /\ g[n] = c[1 .. n]
    BY <1>1, <1>3, <1>5, <1>9, <1>10, FoldIsFollowed
  <1>12. Looks(g, path, lines)
    <2>1. ASSUME NEW k \in 1 .. n PROVE g[k] = Look(g[k - 1], k)
      <3>1. g[k - 1] \in A /\ g[k] = F[<<k, g[k - 1]>>]
        BY <1>1, <1>11 DEF Follows
      <3> QED
        BY <1>2, <3>1
    <2> QED
      BY <1>11, <2>1 DEF Looks, Follows, n, A, Look, MatchAt
  <1> QED
    BY <1>4, <1>11, <1>12 DEF n, lines

\* What a search has after each line.
Searched == [matches : Seq(MatchesFound), bytes : Nat, full : BOOLEAN]
CostOf(match) == 1 + Len(match.preview)
Searches(h, c, path, lines) ==
    /\ h \in [0 .. Len(lines) -> Searched]
    /\ h[0] = [matches |-> c.matches, bytes |-> c.matchBytes, full |-> FALSE]
    /\ \A k \in 1 .. Len(lines) :
          h[k] = IF \/ h[k - 1].full
                    \/ Len(h[k - 1].matches) >= c.args.limit
                    \/ "q" \notin ToSet(lines[k]) THEN h[k - 1]
                 ELSE IF h[k - 1].bytes + CostOf(MatchAt(path, lines, k)) > c.args.byteLimit
                 THEN [h[k - 1] EXCEPT !.full = TRUE]
                 ELSE [h[k - 1] EXCEPT
                          !.matches = Append(@, MatchAt(path, lines, k)),
                          !.bytes = @ + CostOf(MatchAt(path, lines, k))]

\* SearchLines goes through the lines.
LEMMA SearchIsFollowed ==
    ASSUME NEW path \in Seq(Names), NEW content \in Text, NEW c,
           c.matches \in Seq(MatchesFound), c.matchBytes \in Nat
    PROVE  \E h : /\ Searches(h, c, path, Lines(content))
                  /\ h[Len(Lines(content))] = SearchLines(c, path, content)
  <1> DEFINE lines == Lines(content)
             n == Len(lines)
             A == Searched
             base == [matches |-> c.matches, bytes |-> c.matchBytes, full |-> FALSE]
             Step(acc, k) ==
                IF \/ acc.full
                   \/ Len(acc.matches) >= c.args.limit
                   \/ "q" \notin ToSet(lines[k]) THEN acc
                ELSE IF acc.bytes + (1 + Len([path |-> path, line |-> k, preview |-> lines[k]].preview))
                          > c.args.byteLimit
                THEN [acc EXCEPT !.full = TRUE]
                ELSE [acc EXCEPT
                    !.matches = Append(@, [path |-> path, line |-> k, preview |-> lines[k]]),
                    !.bytes = @ + (1 + Len([path |-> path, line |-> k, preview |-> lines[k]].preview))]
             F == [p \in (1 .. n) \X A |-> Step(p[2], p[1])]
             Is(it) == it = [t \in SUBSET (1 .. n) |-> IF t = {} THEN base
                              ELSE Step(it[t \ {Max(t)}], [i \in 1 .. n |-> i][Max(t)])]
             d == CHOOSE it : Is(it)
  <1>1. n \in Nat /\ DOMAIN lines = 1 .. n /\ \A k \in 1 .. n : lines[k] \in Text
    BY LinesAreTexts
  <1>2. ASSUME NEW k \in 1 .. n, NEW a \in A
        PROVE  F[<<k, a>>] = Step(a, k) /\ F[<<k, a>>] \in A
    <2>1. F[<<k, a>>] = Step(a, k)
      OBVIOUS
    <2>2. PICK match : match = [path |-> path, line |-> k, preview |-> lines[k]]
      OBVIOUS
    <2>3. match \in MatchesFound
      BY <1>1, <2>2 DEF MatchesFound
    <2>4. 1 + Len(match.preview) \in Nat
      <3>1. match.preview \in Text
        BY <1>1, <2>2
      <3>2. Len(match.preview) \in Nat
        BY <3>1 DEF Text
      <3> QED
        BY <3>2
    <2>5. /\ a.matches \in Seq(MatchesFound) /\ a.bytes \in Nat
          /\ [a EXCEPT !.full = TRUE] \in A
          /\ [a EXCEPT !.matches = Append(@, match), !.bytes = @ + (1 + Len(match.preview))] \in A
      <3>1. a.matches \in Seq(MatchesFound) /\ a.bytes \in Nat
        BY DEF Searched
      <3>2. /\ Append(a.matches, match) \in Seq(MatchesFound)
            /\ a.bytes + (1 + Len(match.preview)) \in Nat
        BY <2>3, <2>4, <3>1
      <3> QED
        BY <3>1, <3>2 DEF Searched
    <2>6. \/ Step(a, k) = a \/ Step(a, k) = [a EXCEPT !.full = TRUE]
          \/ Step(a, k) = [a EXCEPT !.matches = Append(@, match), !.bytes = @ + (1 + Len(match.preview))]
      BY <2>2
    <2> HIDE DEF Step, F, A
    <2> QED
      BY <2>1, <2>5, <2>6
  <1>3. base \in A
    BY DEF Searched
  <1>4. SearchLines(c, path, content) = d[1 .. n]
    BY <1>1 DEF SearchLines, FoldLeftDomain, FoldLeft, MapThenFoldSet
  <1> HIDE DEF F, n, A, Step, lines, base
  <1>5. Closed(F, n, A)
    BY <1>2 DEF Closed
  <1>6. PICK it : FoldBy(it, F, n, A, base)
    BY <1>1, <1>3, <1>5, FoldExists
  <1>7. Is(it)
    <2>1. ASSUME NEW t \in SUBSET (1 .. n), t # {}
          PROVE  F[<<Max(t), it[t \ {Max(t)}]>>] =
                    Step(it[t \ {Max(t)}], [i \in 1 .. n |-> i][Max(t)])
      <3>1. it[t \ {Max(t)}] \in A
        BY <1>6 DEF FoldBy
      <3>2. Max(t) \in 1 .. n /\ [i \in 1 .. n |-> i][Max(t)] = Max(t)
        BY <1>1, <2>1, MaxIsThere
      <3> QED
        BY <1>2, <3>1, <3>2
    <2> QED
      BY <1>6, <2>1 DEF FoldBy
  <1>8. Is(d)
    BY <1>7
  <1> HIDE DEF d
  <1>9. d[{}] = base
    BY <1>8, {} \in SUBSET (1 .. n)
  <1>10. ASSUME NEW k \in 1 .. n, d[1 .. k - 1] \in A
         PROVE  d[1 .. k] = F[<<k, d[1 .. k - 1]>>]
    <2>1. /\ 1 .. k \in SUBSET (1 .. n) /\ 1 .. k # {} /\ Max(1 .. k) = k
          /\ (1 .. k) \ {k} = 1 .. k - 1
      BY <1>1, WholeInterval
    <2>2. d[1 .. k] = Step(d[1 .. k - 1], k)
      BY <1>8, <2>1
    <2> QED
      BY <1>2, <1>10, <2>2
  <1>11. PICK h : Follows(h, F, n, A, base) /\ h[n] = d[1 .. n]
    BY <1>1, <1>3, <1>5, <1>9, <1>10, FoldIsFollowed
  <1>12. Searches(h, c, path, lines)
    <2>1. ASSUME NEW k \in 1 .. n PROVE h[k] = Step(h[k - 1], k)
      <3>1. h[k - 1] \in A /\ h[k] = F[<<k, h[k - 1]>>]
        BY <1>1, <1>11 DEF Follows
      <3> QED
        BY <1>2, <3>1
    <2> QED
      BY <1>11, <2>1 DEF Searches, Follows, n, A, base, Step, MatchAt, CostOf
  <1> QED
    BY <1>4, <1>11, <1>12 DEF n, lines

\* m is s and the first n of g.
Joins(m, s, g, n) ==
    /\ m \in Seq(MatchesFound) /\ n \in 0 .. Len(g) /\ Len(m) = Len(s) + n
    /\ \A i \in 1 .. Len(s) : m[i] = s[i]
    /\ \A i \in 1 .. n : m[Len(s) + i] = g[i]

\* The matches so far are shown, or those that meet a limit.
Shown(acc, s, g, limit, byteLimit) ==
    \E n : /\ Joins(acc.matches, s, g, n)
           /\ Len(acc.matches) <= limit
           /\ acc.full => n < Len(g) /\ acc.bytes + CostOf(g[n + 1]) > byteLimit
           /\ acc.full \/ n = Len(g) \/ Len(acc.matches) = limit

\* One match more, which is shown or not.
LEMMA OneMoreMatch ==
    ASSUME NEW g \in Seq(MatchesFound), NEW s \in Seq(MatchesFound),
           NEW limit \in Nat, NEW byteLimit \in Nat, NEW match \in MatchesFound,
           NEW acc \in Searched, NEW acc2,
           Shown(acc, s, g, limit, byteLimit),
           acc2 = IF acc.full \/ Len(acc.matches) >= limit THEN acc
                  ELSE IF acc.bytes + CostOf(match) > byteLimit
                  THEN [acc EXCEPT !.full = TRUE]
                  ELSE [acc EXCEPT !.matches = Append(@, match), !.bytes = @ + CostOf(match)]
    PROVE  Shown(acc2, s, Append(g, match), limit, byteLimit)
  <1>1. PICK n : /\ Joins(acc.matches, s, g, n)
                 /\ Len(acc.matches) <= limit
                 /\ acc.full => n < Len(g) /\ acc.bytes + CostOf(g[n + 1]) > byteLimit
                 /\ acc.full \/ n = Len(g) \/ Len(acc.matches) = limit
    BY DEF Shown
  <1>2. PICK g2 : g2 = Append(g, match)
    OBVIOUS
  <1>3. PICK m \in Seq(MatchesFound) : m = acc.matches
    BY DEF Searched
  <1>4. Len(g) \in Nat /\ Len(s) \in Nat /\ Len(m) \in Nat /\ n \in 0 .. Len(g)
    BY <1>1 DEF Joins
  <1>5. /\ Len(g2) = Len(g) + 1 /\ g2[Len(g) + 1] = match
        /\ \A i \in 1 .. Len(g) : g2[i] = g[i]
    BY <1>2, <1>4
  <1>6. Joins(m, s, g2, n)
    BY <1>1, <1>3, <1>4, <1>5 DEF Joins
  <1>7. CASE acc.full
    <2>1. acc2 = acc
      BY <1>7
    <2>2. n < Len(g) /\ n + 1 \in 1 .. Len(g) /\ acc.bytes + CostOf(g[n + 1]) > byteLimit
      BY <1>1, <1>4, <1>7
    <2>3. n < Len(g2) /\ acc.bytes + CostOf(g2[n + 1]) > byteLimit
      BY <1>4, <1>5, <2>2
    <2> QED
      BY <1>1, <1>2, <1>3, <1>6, <1>7, <2>1, <2>3 DEF Shown
  <1>8. CASE ~acc.full /\ Len(m) >= limit
    <2>1. acc2 = acc
      BY <1>3, <1>8
    <2>2. Len(m) = limit
      BY <1>1, <1>3, <1>4, <1>8
    <2> QED
      BY <1>1, <1>2, <1>3, <1>6, <1>8, <2>1, <2>2 DEF Shown
  <1>9. CASE ~acc.full /\ ~(Len(m) >= limit)
    <2>1. n = Len(g)
      BY <1>1, <1>3, <1>4, <1>9
    <2>2. CASE acc.bytes + CostOf(match) > byteLimit
      <3>1. acc2 = [acc EXCEPT !.full = TRUE]
        BY <1>3, <1>9, <2>2
      <3>2. acc2.matches = m /\ acc2.bytes = acc.bytes /\ acc2.full
        BY <1>3, <3>1 DEF Searched
      <3>3. n < Len(g2) /\ g2[n + 1] = match
        BY <1>4, <1>5, <2>1
      <3> QED
        BY <1>1, <1>2, <1>3, <1>6, <2>2, <3>2, <3>3 DEF Shown
    <2>3. CASE ~(acc.bytes + CostOf(match) > byteLimit)
      <3>1. acc2 = [acc EXCEPT !.matches = Append(m, match), !.bytes = @ + CostOf(match)]
        BY <1>3, <1>9, <2>3
      <3>2. acc2.matches = Append(m, match) /\ acc2.full = acc.full
        BY <3>1 DEF Searched
      <3>3. PICK m2 : m2 = Append(m, match)
        OBVIOUS
      <3>4. /\ m2 \in Seq(MatchesFound) /\ Len(m2) = Len(m) + 1
            /\ m2[Len(m) + 1] = match /\ \A i \in 1 .. Len(m) : m2[i] = m[i]
        BY <3>3
      <3>5. /\ Len(m) = Len(s) + n
            /\ \A i \in 1 .. Len(s) : m[i] = s[i]
        BY <1>1, <1>3 DEF Joins
      <3>11. \A a \in 1 .. n : m[Len(s) + a] = g[a]
        BY <1>1, <1>3 DEF Joins
      <3>6. ASSUME NEW i \in 1 .. n + 1 PROVE m2[Len(s) + i] = g2[i]
        <4>1. CASE i = n + 1
          <5>1. Len(s) + i = Len(m) + 1 /\ i = Len(g) + 1
            BY <1>4, <2>1, <3>5, <4>1
          <5> QED
            BY <1>5, <3>4, <5>1
        <4>2. CASE i # n + 1
          <5>1. i \in 1 .. n /\ Len(s) + i \in 1 .. Len(m) /\ i \in 1 .. Len(g)
            BY <1>4, <3>5, <4>2
          <5>2. m2[Len(s) + i] = m[Len(s) + i]
            BY <3>4, <5>1
          <5>3. g2[i] = g[i]
            BY <1>5, <5>1
          <5>4. m[Len(s) + i] = g[i]
            BY <3>11, <5>1
          <5> QED
            BY <5>2, <5>3, <5>4
        <4> QED
          BY <4>1, <4>2
      <3>7. \A i \in 1 .. Len(s) : m2[i] = s[i]
        <4>1. \A i \in 1 .. Len(s) : i \in 1 .. Len(m)
          BY <1>4, <3>5
        <4> QED
          BY <3>4, <3>5, <4>1
      <3>8. n + 1 \in 0 .. Len(g2) /\ Len(m2) = Len(s) + (n + 1) /\ n + 1 = Len(g2)
        BY <1>4, <1>5, <2>1, <3>4, <3>5
      <3>9. Joins(m2, s, g2, n + 1)
        BY <3>4, <3>6, <3>7, <3>8 DEF Joins
      <3>10. Len(m2) <= limit
        BY <1>4, <1>9, <3>4
      <3> QED
        BY <1>2, <1>9, <3>2, <3>3, <3>8, <3>9, <3>10 DEF Shown
    <2> QED
      BY <2>2, <2>3
  <1> QED
    BY <1>3, <1>7, <1>8, <1>9

\* What search shows of a text file.
LEMMA FileIsSearched ==
    ASSUME NEW path \in Seq(Names), NEW content \in Text, Decodes(content), NEW c,
           c.matches \in Seq(MatchesFound), c.matchBytes \in Nat,
           c.args.limit \in Nat, c.args.byteLimit \in Nat,
           Len(c.matches) <= c.args.limit
    PROVE  /\ SearchLines(c, path, content) \in Searched
           /\ MatchesIn(path, content) \in Seq(MatchesFound)
           /\ Shown(SearchLines(c, path, content), c.matches, MatchesIn(path, content),
                    c.args.limit, c.args.byteLimit)
  <1> DEFINE lines == Lines(content)
             n == Len(lines)
  <1>1. PICK g : Looks(g, path, lines) /\ g[n] = MatchesIn(path, content)
    BY MatchesAreFollowed
  <1>2. PICK h : Searches(h, c, path, lines) /\ h[n] = SearchLines(c, path, content)
    BY SearchIsFollowed
  <1>3. n \in Nat /\ \A k \in 1 .. n : lines[k] \in Text
    BY LinesAreTexts
  <1> DEFINE S == {k \in 0 .. n : Shown(h[k], c.matches, g[k], c.args.limit, c.args.byteLimit)}
  <1>4. 0 \in S
    <2>1. /\ h[0] = [matches |-> c.matches, bytes |-> c.matchBytes, full |-> FALSE]
          /\ g[0] = <<>>
      BY <1>1, <1>2 DEF Looks, Searches
    <2>2. Len(c.matches) \in Nat /\ Len(<<>>) = 0
      OBVIOUS
    <2>3. Joins(h[0].matches, c.matches, g[0], 0)
      BY <2>1, <2>2 DEF Joins
    <2>4. Shown(h[0], c.matches, g[0], c.args.limit, c.args.byteLimit)
      BY <2>1, <2>2, <2>3 DEF Shown
    <2> QED
      BY <1>3, <2>4
  <1> HIDE DEF lines, n
  <1>5. ASSUME NEW k \in 0 .. n - 1, k \in S PROVE k + 1 \in S
    <2>1. k + 1 \in 1 .. n /\ (k + 1) - 1 = k /\ k + 1 \in 0 .. n /\ k \in 0 .. n
      BY <1>3
    <2>2. PICK j : j = k + 1
      OBVIOUS
    <2>3. g[k] \in Seq(MatchesFound) /\ h[k] \in Searched
      BY <1>1, <1>2, <2>1 DEF Looks, Searches, n
    <2>4. g[j] = IF "q" \notin ToSet(lines[j]) THEN g[k]
                 ELSE Append(g[k], MatchAt(path, lines, j))
      BY <1>1, <2>1, <2>2 DEF Looks, n
    <2>5. h[j] = IF \/ h[k].full
                    \/ Len(h[k].matches) >= c.args.limit
                    \/ "q" \notin ToSet(lines[j]) THEN h[k]
                 ELSE IF h[k].bytes + CostOf(MatchAt(path, lines, j)) > c.args.byteLimit
                 THEN [h[k] EXCEPT !.full = TRUE]
                 ELSE [h[k] EXCEPT
                          !.matches = Append(@, MatchAt(path, lines, j)),
                          !.bytes = @ + CostOf(MatchAt(path, lines, j))]
      BY <1>2, <2>1, <2>2 DEF Searches, n
    <2>6. PICK match : match = MatchAt(path, lines, j)
      OBVIOUS
    <2>7. match \in MatchesFound
      BY <1>3, <2>1, <2>2, <2>6 DEF MatchAt, MatchesFound
    <2>8. Shown(h[k], c.matches, g[k], c.args.limit, c.args.byteLimit)
      BY <1>5
    <2>9. CASE "q" \notin ToSet(lines[j])
      <3>1. g[j] = g[k] /\ h[j] = h[k]
        BY <2>4, <2>5, <2>9
      <3> QED
        BY <2>1, <2>2, <2>8, <3>1
    <2>10. CASE "q" \in ToSet(lines[j])
      <3>1. g[j] = Append(g[k], match)
        BY <2>4, <2>6, <2>10
      <3>2. h[j] = IF h[k].full \/ Len(h[k].matches) >= c.args.limit THEN h[k]
                   ELSE IF h[k].bytes + CostOf(match) > c.args.byteLimit
                   THEN [h[k] EXCEPT !.full = TRUE]
                   ELSE [h[k] EXCEPT !.matches = Append(@, match), !.bytes = @ + CostOf(match)]
        BY <2>5, <2>6, <2>10
      <3>3. Shown(h[j], c.matches, Append(g[k], match), c.args.limit, c.args.byteLimit)
        BY <2>3, <2>7, <2>8, <3>2, OneMoreMatch
      <3> QED
        BY <2>1, <2>2, <3>1, <3>3
    <2> QED
      BY <2>9, <2>10
  <1>6. \A k \in 0 .. n : k \in S
    <2>1. 0 \in Int /\ n \in Int
      BY <1>3
    <2> HIDE DEF S
    <2> QED
      BY <1>4, <1>5, <2>1, Upwards
  <1>7. n \in 0 .. n /\ n \in S
    BY <1>3, <1>6
  <1>8. g[n] \in Seq(MatchesFound) /\ h[n] \in Searched
    BY <1>1, <1>2, <1>7 DEF Looks, Searches, n
  <1> QED
    BY <1>1, <1>2, <1>7, <1>8

-----------------------------------------------------------------------------
(* All matches, file by file *)

MatchesOf(tree, p) == MatchesIn(p, tree.data[InodeIn(tree.entries, p)])
AllIn(tree, path) ==
    FoldLeft(LAMBDA all, p : all \o MatchesOf(tree, p), <<>>,
             Sorted(FilesIn(tree.entries, path)))

\* AllMatches, by the workspace and the path.
LEMMA AllMatchesIsAllIn ==
    ASSUME NEW path
    PROVE  AllMatches(path) = AllIn(fs, path)
  <1>1. FilesBelow(path) = FilesIn(fs.entries, path)
    BY DEF FilesBelow, FilesIn, InodeAt
  <1>2. AllMatches(path) =
          FoldLeft(LAMBDA all, p : all \o MatchesIn(p, fs.data[InodeIn(fs.entries, p)]),
             <<>>, Sorted(FilesBelow(path)))
    BY DEF AllMatches, InodeAt
  <1> QED
    BY <1>1, <1>2 DEF AllIn, MatchesOf

\* What AllMatches has after each file.
Adds(G, tree, F) ==
    /\ G \in [0 .. Len(F) -> Seq(MatchesFound)]
    /\ G[0] = <<>>
    /\ \A k \in 1 .. Len(F) : G[k] = G[k - 1] \o MatchesOf(tree, F[k])

\* The files, which are all of text or not.
DataOK(tree) == tree.data \in [Files -> Text]

\* The matches of a file are matches.
LEMMA MatchesOfAFile ==
    ASSUME NEW tree, DataOK(tree), NEW path, NEW p \in FilesIn(tree.entries, path)
    PROVE  MatchesOf(tree, p) \in Seq(MatchesFound)
  <1> DEFINE content == tree.data[InodeIn(tree.entries, p)]
  <1>1. content \in Text /\ p \in Seq(Names)
    BY FilesArePaths DEF FilesIn, DataOK
  <1>2. CASE Decodes(content)
    <2> HIDE DEF content
    <2>1. PICK g : /\ Looks(g, p, Lines(content))
                   /\ g[Len(Lines(content))] = MatchesIn(p, content)
      BY <1>1, <1>2, MatchesAreFollowed
    <2>2. Lines(content) \in Seq(Text)
      BY <1>1, LinesAreTexts
    <2>3. Len(Lines(content)) \in 0 .. Len(Lines(content))
      <3>1. Len(Lines(content)) \in Nat
        BY <2>2
      <3> QED
        BY <3>1
    <2>4. MatchesIn(p, content) \in Seq(MatchesFound)
      BY <2>1, <2>3 DEF Looks
    <2> QED
      BY <2>4 DEF MatchesOf, content
  <1>3. CASE ~Decodes(content)
    <2>1. MatchesOf(tree, p) = <<>>
      BY <1>3 DEF MatchesOf, MatchesIn
    <2> QED
      BY <2>1
  <1> QED
    BY <1>2, <1>3

\* AllMatches goes through the files in their order.
LEMMA AllIsFollowed ==
    ASSUME NEW tree, DataOK(tree), NEW path, IsFiniteSet(FilesIn(tree.entries, path)),
           NEW S, S = Sorted(FilesIn(tree.entries, path))
    PROVE  \E G : Adds(G, tree, S) /\ G[Len(S)] = AllIn(tree, path)
  <1> DEFINE P == FilesIn(tree.entries, path)
             n == Len(S)
             A == Seq(MatchesFound)
             F == [q \in (1 .. n) \X A |-> q[2] \o MatchesOf(tree, S[q[1]])]
             Is(it) == it = [t \in SUBSET (1 .. n) |-> IF t = {} THEN <<>>
                              ELSE it[t \ {Max(t)}] \o MatchesOf(tree, S[Max(t)])]
             c == CHOOSE it : Is(it)
  <1>1. /\ n \in Nat /\ DOMAIN S = 1 .. n
        /\ \A k \in 1 .. n : S[k] \in P
    <2>1. S \in Seq(P)
      <3>1. P \in SUBSET Seq(Names)
        BY FilesArePaths
      <3> HIDE DEF P
      <3> QED
        BY <3>1, SortedHasEach DEF P
    <2> HIDE DEF P
    <2> QED
      BY <2>1
  <1>2. ASSUME NEW k \in 1 .. n, NEW a \in A
        PROVE  F[<<k, a>>] = a \o MatchesOf(tree, S[k]) /\ F[<<k, a>>] \in A
    <2>1. F[<<k, a>>] = a \o MatchesOf(tree, S[k])
      OBVIOUS
    <2>2. MatchesOf(tree, S[k]) \in A
      BY <1>1, MatchesOfAFile
    <2>3. a \o MatchesOf(tree, S[k]) \in A
      BY <2>2
    <2> QED
      BY <2>1, <2>3
  <1>3. <<>> \in A
    OBVIOUS
  <1>4. AllIn(tree, path) = c[1 .. n]
    BY <1>1 DEF AllIn, FoldLeft, MapThenFoldSet
  <1> HIDE DEF F, n, A, P
  <1>5. Closed(F, n, A)
    BY <1>2 DEF Closed
  <1>6. PICK it : FoldBy(it, F, n, A, <<>>)
    BY <1>1, <1>3, <1>5, FoldExists
  <1>7. Is(it)
    <2>1. ASSUME NEW t \in SUBSET (1 .. n), t # {}
          PROVE  F[<<Max(t), it[t \ {Max(t)}]>>] =
                    it[t \ {Max(t)}] \o MatchesOf(tree, S[Max(t)])
      <3>1. it[t \ {Max(t)}] \in A
        BY <1>6 DEF FoldBy
      <3>2. Max(t) \in 1 .. n
        BY <1>1, <2>1, MaxIsThere
      <3> QED
        BY <1>2, <3>1, <3>2
    <2> QED
      BY <1>6, <2>1 DEF FoldBy
  <1>8. Is(c)
    BY <1>7
  <1> HIDE DEF c
  <1>9. c[{}] = <<>>
    BY <1>8, {} \in SUBSET (1 .. n)
  <1>10. ASSUME NEW k \in 1 .. n, c[1 .. k - 1] \in A
         PROVE  c[1 .. k] = F[<<k, c[1 .. k - 1]>>]
    <2>1. /\ 1 .. k \in SUBSET (1 .. n) /\ 1 .. k # {} /\ Max(1 .. k) = k
          /\ (1 .. k) \ {k} = 1 .. k - 1
      BY <1>1, WholeInterval
    <2>2. c[1 .. k] = c[1 .. k - 1] \o MatchesOf(tree, S[k])
      BY <1>8, <2>1
    <2> QED
      BY <1>2, <1>10, <2>2
  <1>11. PICK G : Follows(G, F, n, A, <<>>) /\ G[n] = c[1 .. n]
    BY <1>1, <1>3, <1>5, <1>9, <1>10, FoldIsFollowed
  <1>12. Adds(G, tree, S)
    <2>1. ASSUME NEW k \in 1 .. n PROVE G[k] = G[k - 1] \o MatchesOf(tree, S[k])
      <3>1. G[k - 1] \in A /\ G[k] = F[<<k, G[k - 1]>>]
        BY <1>1, <1>11 DEF Follows
      <3> QED
        BY <1>2, <3>1
    <2> QED
      BY <1>11, <2>1 DEF Adds, Follows, n, A
  <1> QED
    BY <1>4, <1>11, <1>12 DEF n

\* s is a beginning of t.
Begins(s, t) ==
    /\ s \in Seq(MatchesFound) /\ t \in Seq(MatchesFound) /\ Len(s) <= Len(t)
    /\ \A i \in 1 .. Len(s) : s[i] = t[i]

\* A beginning is a prefix.
LEMMA BeginsIsPrefix ==
    ASSUME NEW s, NEW t, Begins(s, t)
    PROVE  IsPrefix(s, t)
  <1>1. Len(s) \in Nat /\ Len(t) \in Nat /\ Len(s) <= Len(t)
    BY DEF Begins
  <1>2. SubSeq(s, 1, Len(s)) = SubSeq(t, 1, Len(s))
    <2>1. /\ SubSeq(s, 1, Len(s)) \in Seq(MatchesFound) /\ SubSeq(t, 1, Len(s)) \in Seq(MatchesFound)
          /\ Len(SubSeq(s, 1, Len(s))) = Len(s) /\ Len(SubSeq(t, 1, Len(s))) = Len(s)
          /\ \A i \in 1 .. Len(s) : SubSeq(s, 1, Len(s))[i] = s[i]
          /\ \A i \in 1 .. Len(s) : SubSeq(t, 1, Len(s))[i] = t[i]
      BY <1>1 DEF Begins
    <2>2. \A i \in 1 .. Len(s) : s[i] = t[i]
      BY DEF Begins
    <2> QED
      BY <1>1, <2>1, <2>2
  <1> QED
    BY <1>1, <1>2 DEF IsPrefix

\* A beginning of a beginning is one.
LEMMA BeginsBefore ==
    ASSUME NEW s, NEW t, NEW u, Begins(s, t), Begins(t, u)
    PROVE  Begins(s, u)
  <1>1. Len(s) \in Nat /\ Len(t) \in Nat /\ Len(u) \in Nat
    BY DEF Begins
  <1> QED
    BY <1>1 DEF Begins

\* Matches that agree one by one.
LEMMA SameMatches ==
    ASSUME NEW s \in Seq(MatchesFound), NEW t \in Seq(MatchesFound), Len(s) = Len(t),
           \A k \in 1 .. Len(s) : s[k] = t[k]
    PROVE  s = t
  OBVIOUS

\* Matches and the matches that follow.
LEMMA JoinedMatches ==
    ASSUME NEW s \in Seq(MatchesFound), NEW t \in Seq(MatchesFound)
    PROVE  /\ s \o t \in Seq(MatchesFound)
           /\ Len(s \o t) = Len(s) + Len(t)
           /\ \A k \in 1 .. Len(s) : (s \o t)[k] = s[k]
           /\ \A k \in 1 .. Len(t) : (s \o t)[Len(s) + k] = t[k]
           /\ Begins(s, s \o t)
  <1>1. Len(s) \in Nat /\ Len(t) \in Nat
    OBVIOUS
  <1>2. /\ s \o t \in Seq(MatchesFound)
        /\ Len(s \o t) = Len(s) + Len(t)
        /\ \A k \in 1 .. Len(s) : (s \o t)[k] = s[k]
        /\ \A k \in 1 .. Len(t) : (s \o t)[Len(s) + k] = t[k]
    OBVIOUS
  <1>3. PICK j : j = s \o t
    OBVIOUS
  <1>4. Begins(s, j)
    BY <1>1, <1>2, <1>3 DEF Begins
  <1> QED
    BY <1>2, <1>3, <1>4

\* The matches of the first files begin those of all.
LEMMA FirstOnesBegin ==
    ASSUME NEW tree, NEW F, Len(F) \in Nat, NEW G, Adds(G, tree, F),
           \A k \in 1 .. Len(F) : MatchesOf(tree, F[k]) \in Seq(MatchesFound)
    PROVE  \A k \in 0 .. Len(F) : Begins(G[k], G[Len(F)])
  <1> DEFINE N == Len(F)
             S == {k \in 0 .. N : Begins(G[k], G[N])}
  <1>1. \A k \in 0 .. N : G[k] \in Seq(MatchesFound)
    BY DEF Adds
  <1>2. N \in S
    <2>1. N \in 0 .. N /\ G[N] \in Seq(MatchesFound)
      BY <1>1
    <2>2. Len(G[N]) \in Nat
      BY <2>1
    <2> QED
      BY <2>1, <2>2 DEF Begins
  <1>3. ASSUME NEW k \in 0 + 1 .. N, k \in S PROVE k - 1 \in S
    <2>1. k \in 1 .. N /\ k - 1 \in 0 .. N
      OBVIOUS
    <2>2. G[k] = G[k - 1] \o MatchesOf(tree, F[k])
      BY <2>1 DEF Adds
    <2>3. Begins(G[k - 1], G[k])
      BY <1>1, <2>1, <2>2, JoinedMatches
    <2>4. Begins(G[k], G[N])
      BY <1>3
    <2> QED
      BY <2>1, <2>3, <2>4, BeginsBefore
  <1>4. \A k \in 0 .. N : k \in S
    <2>1. 0 \in Int /\ N \in Int
      OBVIOUS
    <2> HIDE DEF S, N
    <2> QED
      BY <1>2, <1>3, <2>1, Downwards
  <1> QED
    BY <1>4

\* The first of all matches t are shown; a limit was met, or they are all.
ShownOf(acc, t, limit, byteLimit) ==
    /\ Begins(acc.matches, t) /\ Len(acc.matches) <= limit
    /\ acc.full => /\ Len(acc.matches) + 1 \in 1 .. Len(t)
                   /\ acc.bytes + CostOf(t[Len(acc.matches) + 1]) > byteLimit
    /\ acc.full \/ acc.matches = t \/ Len(acc.matches) = limit

\* What one file more shows.
LEMMA FileIsTaken ==
    ASSUME NEW s \in Seq(MatchesFound), NEW M \in Seq(MatchesFound), NEW t, t = s \o M,
           NEW acc, NEW limit, NEW byteLimit, Shown(acc, s, M, limit, byteLimit)
    PROVE  ShownOf(acc, t, limit, byteLimit)
  <1>1. PICK n : /\ Joins(acc.matches, s, M, n)
                 /\ Len(acc.matches) <= limit
                 /\ acc.full => n < Len(M) /\ acc.bytes + CostOf(M[n + 1]) > byteLimit
                 /\ acc.full \/ n = Len(M) \/ Len(acc.matches) = limit
    BY DEF Shown
  <1>2. PICK m : m = acc.matches
    OBVIOUS
  <1>3. /\ m \in Seq(MatchesFound) /\ n \in 0 .. Len(M) /\ Len(m) = Len(s) + n
        /\ Len(s) \in Nat /\ Len(M) \in Nat
    BY <1>1, <1>2 DEF Joins
  <1>4. \A i \in 1 .. Len(s) : m[i] = s[i]
    BY <1>1, <1>2 DEF Joins
  <1>5. \A i \in 1 .. n : m[Len(s) + i] = M[i]
    BY <1>1, <1>2 DEF Joins
  <1>6. t \in Seq(MatchesFound) /\ Len(t) = Len(s) + Len(M)
    BY JoinedMatches
  <1>7. \A k \in 1 .. Len(s) : t[k] = s[k]
    BY JoinedMatches
  <1>8. \A k \in 1 .. Len(M) : t[Len(s) + k] = M[k]
    BY JoinedMatches
  <1>9. ASSUME NEW k \in 1 .. Len(m) PROVE m[k] = t[k]
    <2>1. CASE k \in 1 .. Len(s)
      BY <1>4, <1>7, <2>1
    <2>2. CASE k \notin 1 .. Len(s)
      <3>1. PICK j : j = k - Len(s)
        OBVIOUS
      <3>2. j \in 1 .. n /\ j \in 1 .. Len(M) /\ k = Len(s) + j
        BY <1>3, <2>2, <3>1
      <3>3. m[k] = M[j]
        BY <1>5, <3>2
      <3>4. t[k] = M[j]
        BY <1>8, <3>2
      <3> QED
        BY <3>3, <3>4
    <2> QED
      BY <2>1, <2>2
  <1>10. Len(m) <= Len(t)
    BY <1>3, <1>6
  <1>11. Begins(m, t)
    BY <1>3, <1>6, <1>9, <1>10 DEF Begins
  <1>12. ASSUME acc.full
         PROVE  /\ Len(m) + 1 \in 1 .. Len(t)
                /\ acc.bytes + CostOf(t[Len(m) + 1]) > byteLimit
    <2>1. /\ n + 1 \in 1 .. Len(M) /\ Len(m) + 1 = Len(s) + (n + 1)
          /\ Len(m) + 1 \in 1 .. Len(t)
      BY <1>1, <1>3, <1>6, <1>12
    <2>2. t[Len(m) + 1] = M[n + 1]
      BY <1>8, <2>1
    <2> QED
      BY <1>1, <1>12, <2>1, <2>2
  <1>13. ASSUME n = Len(M) PROVE m = t
    <2>1. Len(m) = Len(t)
      BY <1>3, <1>6, <1>13
    <2> QED
      BY <1>3, <1>6, <1>9, <2>1, SameMatches
  <1> QED
    BY <1>1, <1>2, <1>11, <1>12, <1>13 DEF ShownOf

-----------------------------------------------------------------------------
(* The invariant of a search in a workspace that stands still *)

ReadPcs == {"nextFile", "openFile", "verify", "pread"}
SearchPcs == {"execute", "resolve", "find", "write", "project", "done"} \cup ReadPcs

ArgsOK(args) == args.path \in Seq(Names) /\ args.limit \in Nat /\ args.byteLimit \in Nat

\* The premises of SearchMissesNothing: the limits on what is read were not met.
Fits(tree, c) ==
    /\ c.scanned < MaxScanBytes
    /\ \A f \in Files : Len(tree.data[f]) <= c.args.byteLimit

\* The files left are those after the first m.
Remains(files, F, m) ==
    /\ m \in 0 .. Len(F) /\ DOMAIN files = 1 .. Len(F) - m /\ \E S : files \in Seq(S)
    /\ \A i \in 1 .. Len(F) - m : files[i] = F[m + i]

\* The matches are those of these m files, unless a limit was met before.
Taken(c, so_far) ==
    /\ c.matchBytes \in Nat
    /\ Begins(c.matches, so_far)
    /\ Len(c.matches) <= c.args.limit
    /\ c.matches = so_far \/ Len(c.matches) = c.args.limit

Reading(tree, c) ==
    \E F, G, m :
        /\ F = Sorted(FilesIn(tree.entries, c.args.path))
        /\ IsFiniteSet(FilesIn(tree.entries, c.args.path))
        /\ Adds(G, tree, F) /\ G[Len(F)] = AllIn(tree, c.args.path)
        /\ Remains(c.files, F, m)
        /\ Fits(tree, c) => Taken(c, G[m])

\* A file is open, or about to be.
Opening(tree, c) ==
    /\ c.pc \in {"openFile", "verify", "pread"} =>
          /\ c.files # <<>>
          /\ ~(Len(c.matches) >= c.args.limit)
          /\ ~(c.scanned >= MaxScanBytes)
    /\ c.pc = "pread" => InodeIn(tree.entries, Head(c.files)) = c.handle

\* What SearchMissesNothing says of an answer.
Answered(tree, c) ==
    LET all == AllIn(tree, c.args.path) IN
    Fits(tree, c) =>
        /\ Begins(c.matches, all)
        /\ \/ c.matches = all
           \/ Len(c.matches) = c.args.limit
           \/ c.matchBytes + 1 + Len(all[Len(c.matches) + 1].preview) > c.args.byteLimit

SearchOK(tree, c) ==
    /\ c.pc \in SearchPcs
    /\ c.pc \in {"resolve", "find"} \cup ReadPcs =>
          ArgsOK(c.args) /\ c.scanned \in Nat /\ c.output = Nothing
    /\ c.pc \in {"resolve", "find"} => c.matches = <<>> /\ c.matchBytes = 0 /\ c.scanned = 0
    /\ c.pc = "resolve" => c.files = <<>>
    /\ c.pc = "find" => Collecting(tree.entries, c.args.path, c.stack, c.files)
    /\ c.pc \in ReadPcs => Reading(tree, c) /\ Opening(tree, c)
    /\ c.output # Nothing => Answered(tree, c)

\* The files are all those below path, and how many.
LEMMA FilesInOrder ==
    ASSUME NEW tree, NEW path, IsFiniteSet(FilesIn(tree.entries, path)),
           NEW F, F = Sorted(FilesIn(tree.entries, path))
    PROVE  /\ F \in Seq(FilesIn(tree.entries, path)) /\ Len(F) \in Nat
           /\ \A k \in 1 .. Len(F) : F[k] \in FilesIn(tree.entries, path)
  <1>1. PICK P : P = FilesIn(tree.entries, path)
    OBVIOUS
  <1>2. P \in SUBSET Seq(Names)
    BY <1>1, FilesArePaths
  <1>3. F \in Seq(P)
    BY <1>1, <1>2, SortedHasEach
  <1>4. Len(F) \in Nat /\ \A k \in 1 .. Len(F) : F[k] \in P
    BY <1>3
  <1> QED
    BY <1>1, <1>3, <1>4

\* Before the first file nothing is taken and everything remains.
LEMMA ReadingBegins ==
    ASSUME NEW tree, DataOK(tree), NEW c, Found(tree.entries, c.args.path, c.files),
           c.matches = <<>>, c.matchBytes = 0, ArgsOK(c.args)
    PROVE  Reading(tree, c)
  <1> DEFINE P == FilesIn(tree.entries, c.args.path)
  <1>1. PICK F : F = Sorted(P)
    OBVIOUS
  <1>2. IsFiniteSet(P) /\ c.files = F
    BY <1>1 DEF Found
  <1>3. PICK G : Adds(G, tree, F) /\ G[Len(F)] = AllIn(tree, c.args.path)
    BY <1>1, <1>2, AllIsFollowed
  <1>4. F \in Seq(P) /\ Len(F) \in Nat
    BY <1>1, <1>2, FilesInOrder
  <1>5. Remains(c.files, F, 0)
    <2>1. DOMAIN F = 1 .. Len(F) - 0 /\ 0 \in 0 .. Len(F)
          /\ \A i \in 1 .. Len(F) - 0 : F[i] = F[0 + i]
      BY <1>4
    <2> QED
      BY <1>2, <1>4, <2>1 DEF Remains
  <1>6. Taken(c, G[0])
    <2>1. G[0] = <<>>
      BY <1>3 DEF Adds
    <2>2. <<>> \in Seq(MatchesFound) /\ Len(<<>>) = 0
      OBVIOUS
    <2>3. Begins(<<>>, <<>>)
      BY <2>2 DEF Begins
    <2> QED
      BY <2>1, <2>2, <2>3 DEF Taken, ArgsOK
  <1> HIDE DEF P
  <1> QED
    BY <1>1, <1>2, <1>3, <1>5, <1>6 DEF Reading, P

\* The call moves on with the files and matches it has.
LEMMA ReadingGoesOn ==
    ASSUME NEW tree, NEW c, NEW d, Reading(tree, c), SameWork(c, d), d.files = c.files
    PROVE  Reading(tree, d)
  <1>1. /\ d.args = c.args /\ d.matches = c.matches /\ d.matchBytes = c.matchBytes
        /\ d.scanned = c.scanned
    BY DEF SameWork
  <1>2. Fits(tree, d) => Fits(tree, c)
    BY <1>1 DEF Fits
  <1>3. \A g : Taken(c, g) => Taken(d, g)
    BY <1>1 DEF Taken
  <1>4. PICK F, G, m :
           /\ F = Sorted(FilesIn(tree.entries, c.args.path))
           /\ IsFiniteSet(FilesIn(tree.entries, c.args.path))
           /\ Adds(G, tree, F) /\ G[Len(F)] = AllIn(tree, c.args.path)
           /\ Remains(c.files, F, m)
           /\ Fits(tree, c) => Taken(c, G[m])
    BY DEF Reading
  <1> QED
    BY <1>1, <1>2, <1>3, <1>4 DEF Reading

\* An answer stays what it is while the call moves on.
LEMMA AnswerStands ==
    ASSUME NEW tree, NEW c, NEW d, Answered(tree, c), SameWork(c, d)
    PROVE  Answered(tree, d)
  <1>1. /\ d.args = c.args /\ d.matches = c.matches /\ d.matchBytes = c.matchBytes
        /\ d.scanned = c.scanned
    BY DEF SameWork
  <1>2. Fits(tree, d) => Fits(tree, c)
    BY <1>1 DEF Fits
  <1> QED
    BY <1>1, <1>2 DEF Answered

\* The loop over the files ends: all are read, or a limit is met.
LEMMA ReadingEnds ==
    ASSUME NEW tree, DataOK(tree), NEW c, Reading(tree, c), ArgsOK(c.args),
           \/ c.files = <<>>
           \/ Len(c.matches) >= c.args.limit
           \/ c.scanned >= MaxScanBytes,
           c.scanned \in Nat
    PROVE  Answered(tree, c)
  <1>1. SUFFICES ASSUME Fits(tree, c)
                 PROVE  /\ Begins(c.matches, AllIn(tree, c.args.path))
                        /\ \/ c.matches = AllIn(tree, c.args.path)
                           \/ Len(c.matches) = c.args.limit
    BY DEF Answered
  <1>2. PICK F, G, m :
           /\ F = Sorted(FilesIn(tree.entries, c.args.path))
           /\ IsFiniteSet(FilesIn(tree.entries, c.args.path))
           /\ Adds(G, tree, F) /\ G[Len(F)] = AllIn(tree, c.args.path)
           /\ Remains(c.files, F, m)
           /\ Fits(tree, c) => Taken(c, G[m])
    BY DEF Reading
  <1>3. Taken(c, G[m])
    BY <1>1, <1>2
  <1>4. Len(F) \in Nat /\ \A k \in 1 .. Len(F) : F[k] \in FilesIn(tree.entries, c.args.path)
    BY <1>2, FilesInOrder
  <1>5. \A k \in 1 .. Len(F) : MatchesOf(tree, F[k]) \in Seq(MatchesFound)
    BY <1>4, MatchesOfAFile
  <1>6. m \in 0 .. Len(F)
    BY <1>2 DEF Remains
  <1>7. Begins(G[m], G[Len(F)])
    BY <1>2, <1>4, <1>5, <1>6, FirstOnesBegin
  <1>8. Begins(c.matches, AllIn(tree, c.args.path))
    BY <1>2, <1>3, <1>7, BeginsBefore DEF Taken
  <1>9. CASE c.files = <<>>
    <2>1. DOMAIN c.files = 1 .. Len(F) - m
      BY <1>2 DEF Remains
    <2>2. DOMAIN c.files = {}
      BY <1>9
    <2>3. m = Len(F)
      <3>1. 1 \notin 1 .. Len(F) - m
        BY <2>1, <2>2
      <3> QED
        BY <1>4, <1>6, <3>1
    <2> QED
      BY <1>2, <1>3, <1>8, <2>3 DEF Taken
  <1>10. CASE Len(c.matches) >= c.args.limit
    <2>1. Len(c.matches) \in Nat /\ c.args.limit \in Nat
      BY <1>3 DEF Taken, Begins, ArgsOK
    <2>2. Len(c.matches) = c.args.limit
      BY <1>3, <1>10, <2>1 DEF Taken
    <2> QED
      BY <1>8, <2>2
  <1>11. CASE c.scanned >= MaxScanBytes
    <2>1. c.scanned < MaxScanBytes /\ MaxScanBytes \in Nat
      BY <1>1, ToolAssumption DEF Fits
    <2> QED
      BY <1>11, <2>1
  <1> QED
    BY <1>9, <1>10, <1>11

\* One file less is left.
LEMMA NextRemains ==
    ASSUME NEW files, NEW P, NEW F \in Seq(P), NEW m, Remains(files, F, m), files # <<>>
    PROVE  /\ m + 1 \in 1 .. Len(F) /\ m \in 0 .. Len(F) /\ m + 1 \in 0 .. Len(F)
           /\ Head(files) = F[m + 1]
           /\ Remains(Tail(files), F, m + 1)
  <1>1. Len(F) \in Nat /\ m \in 0 .. Len(F)
    BY DEF Remains
  <1>2. PICK S : files \in Seq(S)
    BY DEF Remains
  <1>3. /\ DOMAIN files = 1 .. Len(F) - m /\ DOMAIN files = 1 .. Len(files)
        /\ Len(files) \in Nat
    BY <1>2 DEF Remains
  <1>4. Len(files) # 0
    BY <1>2
  <1>5. Len(files) = Len(F) - m
    <2>1. 1 .. Len(files) = 1 .. Len(F) - m
      BY <1>3
    <2>2. Len(files) \in Nat /\ Len(files) \in 1 .. Len(files)
      BY <1>3, <1>4
    <2>3. Len(files) \in 1 .. Len(F) - m
      BY <2>1, <2>2
    <2>4. Len(F) - m \in 1 .. Len(F) - m
      BY <1>1, <2>3
    <2>5. Len(F) - m \in 1 .. Len(files)
      BY <2>1, <2>4
    <2> QED
      BY <1>1, <2>2, <2>3, <2>5
  <1>6. m + 1 \in 1 .. Len(F) /\ m + 1 \in 0 .. Len(F)
    BY <1>1, <1>3, <1>4, <1>5
  <1>7. \A i \in 1 .. Len(F) - m : files[i] = F[m + i]
    BY DEF Remains
  <1>8. Head(files) = F[m + 1]
    <2>1. Head(files) = files[1] /\ 1 \in 1 .. Len(F) - m
      BY <1>1, <1>2, <1>4, <1>6
    <2> QED
      BY <1>7, <2>1
  <1>9. PICK rest : rest = Tail(files)
    OBVIOUS
  <1>10. rest \in Seq(S) /\ Len(rest) = Len(files) - 1
    BY <1>2, <1>4, <1>9
  <1>11. \A i \in 1 .. Len(files) - 1 : rest[i] = files[i + 1]
    BY <1>2, <1>4, <1>9
  <1>12. DOMAIN rest = 1 .. Len(F) - (m + 1)
    BY <1>1, <1>5, <1>10
  <1>13. ASSUME NEW i \in 1 .. Len(F) - (m + 1) PROVE rest[i] = F[(m + 1) + i]
    <2>1. /\ i \in 1 .. Len(files) - 1 /\ i + 1 \in 1 .. Len(F) - m
          /\ m + (i + 1) = (m + 1) + i
      BY <1>1, <1>5
    <2>2. rest[i] = files[i + 1]
      BY <1>11, <2>1
    <2>3. files[i + 1] = F[m + (i + 1)]
      BY <1>7, <2>1
    <2> QED
      BY <2>1, <2>2, <2>3
  <1>14. Remains(rest, F, m + 1)
    BY <1>6, <1>10, <1>12, <1>13 DEF Remains
  <1> QED
    BY <1>1, <1>6, <1>8, <1>9, <1>14

\* What readCappedFile reads of a file, and that it is all of it if the limits
\* were not met.
LEMMA FileIsReadWhole ==
    ASSUME NEW data \in Text, NEW byteLimit \in Nat, NEW scanned \in Nat,
           ~(scanned >= MaxScanBytes), NEW limit, limit = Min({byteLimit, MaxScanBytes - scanned}),
           NEW value, value = OutputFromBytes(Cut(data, limit + 1), limit)
    PROVE  /\ value.bytesRead \in Nat
           /\ Len(data) <= byteLimit /\ scanned + value.bytesRead < MaxScanBytes =>
                 /\ Decodes(data) => value.content = data /\ value.encoding # "binary"
                 /\ ~Decodes(data) => value.encoding = "binary"
  <1>1. MaxScanBytes \in Nat
    BY ToolAssumption
  <1>2. limit \in Nat /\ limit = IF byteLimit <= MaxScanBytes - scanned THEN byteLimit
                                 ELSE MaxScanBytes - scanned
    BY <1>1, MinOfTwo
  <1>3. data \in Seq(Unit) /\ Len(data) \in Nat
    BY DEF Text
  <1>4. PICK bytes : bytes = Cut(data, limit + 1)
    OBVIOUS
  <1>5. /\ bytes \in Seq(Unit)
        /\ Len(bytes) = IF limit + 1 <= Len(data) THEN limit + 1 ELSE Len(data)
        /\ Len(data) <= limit + 1 => bytes = data
    BY <1>2, <1>3, <1>4, CutIsABeginning
  <1>6. PICK whole : whole = Cut(bytes, limit)
    OBVIOUS
  <1>7. /\ whole \in Seq(Unit)
        /\ Len(whole) = IF limit <= Len(bytes) THEN limit ELSE Len(bytes)
        /\ Len(bytes) <= limit => whole = bytes
    BY <1>2, <1>5, <1>6, CutIsABeginning
  <1>8. /\ value.bytesRead = Len(whole) /\ value.encoding = DecodeText(whole).encoding
        /\ value.content = DecodeText(whole).content
    BY <1>4, <1>6 DEF OutputFromBytes
  <1>9. Len(whole) \in Nat
    BY <1>7
  <1>10. ASSUME Len(data) <= byteLimit, scanned + Len(whole) < MaxScanBytes
         PROVE  whole = data
    <2>1. Len(data) <= limit
      BY <1>1, <1>2, <1>3, <1>5, <1>7, <1>10
    <2>2. bytes = data /\ Len(bytes) <= limit
      BY <1>2, <1>3, <1>5, <2>1
    <2> QED
      BY <1>7, <2>2
  <1>11. ASSUME whole = data
         PROVE  /\ Decodes(data) => value.content = data /\ value.encoding # "binary"
                /\ ~Decodes(data) => value.encoding = "binary"
    BY <1>8, <1>11 DEF DecodeText
  <1> QED
    BY <1>8, <1>9, <1>10, <1>11

\* Reading goes on with the next file, or the search answers.
LEMMA ReadFileSearches ==
    ASSUME TypesOK, SearchOK(fs, call), ReadFile, call.handle \in Files,
           call.tool = "search_text"
    PROVE  SearchOK(fs, call') /\ call'.tool = call.tool /\ call'.pc # "execute"
  <1> DEFINE limit0 == IF call.tool = "read_file" THEN call.args.byteLimit
                       ELSE Min({call.args.byteLimit, MaxScanBytes - call.scanned})
             value0 == OutputFromBytes(Cut(fs.data[call.handle], limit0 + 1), limit0)
             read0 == [call EXCEPT !.source = fs.data[call.handle],
                                   !.scanned = @ + value0.bytesRead]
             found0 == SearchLines(read0, Head(call.files), value0.content)
             searched0 == [read0 EXCEPT !.matches = found0.matches,
                                        !.matchBytes = found0.bytes]
  <1>1. call' = IF call.tool = "read_file" THEN Answers(read0, TextOutput(value0))
                ELSE IF value0.encoding = "binary" THEN SkipsBinary(read0)
                ELSE IF found0.full THEN Answers(searched0, RowsOutput(found0.matches))
                ELSE [searched0 EXCEPT !.files = Tail(@), !.pc = "nextFile"]
    BY DEF ReadFile
  <1>2. PICK data, limit, value, read, found, searched :
           /\ data = fs.data[call.handle]
           /\ limit = limit0 /\ value = value0 /\ read = read0 /\ found = found0
           /\ searched = searched0
    OBVIOUS
  <1>3. /\ limit = Min({call.args.byteLimit, MaxScanBytes - call.scanned})
        /\ value = OutputFromBytes(Cut(data, limit + 1), limit)
    BY <1>2
  <1>4. read = [call EXCEPT !.source = data, !.scanned = @ + value.bytesRead]
    BY <1>2
  <1>5. found = SearchLines(read, Head(call.files), value.content)
    BY <1>2
  <1>6. searched = [read EXCEPT !.matches = found.matches, !.matchBytes = found.bytes]
    BY <1>2
  <1>7. call.pc = "pread" /\ DOMAIN call = CallFields /\ DataOK(fs)
    BY DEF ReadFile, TypesOK, DataOK, Text
  <1> HIDE DEF limit0, value0, read0, found0, searched0
  <1>8. call' = IF value.encoding = "binary" THEN SkipsBinary(read)
                ELSE IF found.full THEN Answers(searched, RowsOutput(found.matches))
                ELSE [searched EXCEPT !.files = Tail(@), !.pc = "nextFile"]
    BY <1>1, <1>2
  <1>9. /\ ArgsOK(call.args) /\ call.scanned \in Nat /\ call.output = Nothing
        /\ Reading(fs, call) /\ Opening(fs, call)
    BY <1>7 DEF SearchOK, ReadPcs
  <1>10. /\ call.files # <<>> /\ ~(Len(call.matches) >= call.args.limit)
         /\ ~(call.scanned >= MaxScanBytes) /\ InodeIn(fs.entries, Head(call.files)) = call.handle
    BY <1>7, <1>9 DEF Opening
  <1>11. /\ call.args.limit \in Nat /\ call.args.byteLimit \in Nat
         /\ data \in Text
    BY <1>2, <1>7, <1>9 DEF ArgsOK, DataOK
  <1>12. /\ value.bytesRead \in Nat
         /\ Len(data) <= call.args.byteLimit /\ call.scanned + value.bytesRead < MaxScanBytes =>
                 /\ Decodes(data) => value.content = data /\ value.encoding # "binary"
                 /\ ~Decodes(data) => value.encoding = "binary"
    BY <1>3, <1>9, <1>10, <1>11, FileIsReadWhole
  <1>13. /\ DOMAIN read = CallFields /\ read.scanned = call.scanned + value.bytesRead
         /\ read.args = call.args /\ read.matches = call.matches
         /\ read.matchBytes = call.matchBytes /\ read.files = call.files
         /\ read.tool = call.tool /\ read.output = call.output
    BY <1>4, <1>7 DEF CallFields
  <1>14. /\ DOMAIN searched = CallFields /\ searched.scanned = read.scanned
         /\ searched.args = call.args /\ searched.matches = found.matches
         /\ searched.matchBytes = found.bytes /\ searched.files = call.files
         /\ searched.tool = call.tool /\ searched.output = call.output
    BY <1>6, <1>13 DEF CallFields
  <1>15. /\ call'.scanned = call.scanned + value.bytesRead /\ call'.scanned \in Nat
         /\ call'.args = call.args /\ call'.tool = call.tool
    <2>1. CASE value.encoding = "binary"
      BY <1>8, <1>9, <1>12, <1>13, <2>1 DEF SkipsBinary, CallFields
    <2>2. CASE value.encoding # "binary" /\ found.full
      BY <1>8, <1>9, <1>12, <1>13, <1>14, <2>2 DEF Answers, Returned, CallFields
    <2>3. CASE value.encoding # "binary" /\ ~found.full
      BY <1>8, <1>9, <1>12, <1>13, <1>14, <2>3 DEF CallFields
    <2> QED
      BY <2>1, <2>2, <2>3
  <1>16. PICK F, G, m :
            /\ F = Sorted(FilesIn(fs.entries, call.args.path))
            /\ IsFiniteSet(FilesIn(fs.entries, call.args.path))
            /\ Adds(G, fs, F) /\ G[Len(F)] = AllIn(fs, call.args.path)
            /\ Remains(call.files, F, m)
            /\ Fits(fs, call) => Taken(call, G[m])
    BY <1>9 DEF Reading
  <1>17. /\ F \in Seq(FilesIn(fs.entries, call.args.path)) /\ Len(F) \in Nat
         /\ \A k \in 1 .. Len(F) : F[k] \in FilesIn(fs.entries, call.args.path)
    BY <1>16, FilesInOrder
  <1>18. \A k \in 1 .. Len(F) : MatchesOf(fs, F[k]) \in Seq(MatchesFound)
    BY <1>7, <1>17, MatchesOfAFile
  <1>19. PICK j : j = m + 1
    OBVIOUS
  <1>20. /\ j \in 1 .. Len(F) /\ m \in 0 .. Len(F) /\ j \in 0 .. Len(F) /\ j - 1 = m
         /\ Head(call.files) = F[j] /\ Remains(Tail(call.files), F, j)
    <2>1. /\ j \in 1 .. Len(F) /\ m \in 0 .. Len(F) /\ j \in 0 .. Len(F)
          /\ Head(call.files) = F[j] /\ Remains(Tail(call.files), F, j)
      BY <1>10, <1>16, <1>17, <1>19, NextRemains
    <2>2. j - 1 = m
      BY <1>17, <1>19, <2>1
    <2> QED
      BY <2>1, <2>2
  <1>21. ASSUME Fits(fs, call')
         PROVE  /\ Fits(fs, call) /\ call.matches = G[m] /\ call.matchBytes \in Nat
                /\ Len(call.matches) <= call.args.limit
                /\ Decodes(data) => value.content = data /\ value.encoding # "binary"
                /\ ~Decodes(data) => value.encoding = "binary"
    <2>1. call'.scanned < MaxScanBytes /\ \A f \in Files : Len(fs.data[f]) <= call.args.byteLimit
      BY <1>15, <1>21 DEF Fits
    <2>2. call.scanned < MaxScanBytes
      <3>1. MaxScanBytes \in Nat
        BY ToolAssumption
      <3> QED
        BY <1>9, <1>12, <1>15, <2>1, <3>1
    <2>3. Fits(fs, call)
      BY <2>1, <2>2 DEF Fits
    <2>4. Taken(call, G[m])
      BY <1>16, <2>3
    <2>5. call.matches = G[m]
      <3>1. Len(call.matches) \in Nat
        BY <2>4 DEF Taken, Begins
      <3> QED
        BY <1>10, <1>11, <2>4, <3>1 DEF Taken
    <2>6. Len(data) <= call.args.byteLimit
      BY <1>2, <2>1
    <2> QED
      BY <1>12, <1>15, <2>1, <2>3, <2>4, <2>5, <2>6 DEF Taken
  <1>22. G[j] = G[m] \o MatchesOf(fs, F[j]) /\ G[m] \in Seq(MatchesFound)
    BY <1>16, <1>20 DEF Adds
  <1>28. G[j] \in Seq(MatchesFound)
    BY <1>16, <1>20 DEF Adds
  <1>29. Len(G[j]) \in Nat /\ \A i \in 1 .. Len(G[j]) : G[j][i] \in MatchesFound
    BY <1>28
  <1>23. MatchesOf(fs, F[j]) = MatchesIn(F[j], data) /\ F[j] \in Seq(Names)
    <2>1. InodeIn(fs.entries, F[j]) = call.handle
      BY <1>10, <1>20
    <2>2. F[j] \in FilesIn(fs.entries, call.args.path)
      BY <1>17, <1>20
    <2> QED
      BY <1>2, <2>1, <2>2, FilesArePaths DEF MatchesOf
  <1>24. CASE value.encoding = "binary"
    <2>1. call' = SkipsBinary(read)
      BY <1>8, <1>24
    <2>2. /\ call'.pc = "nextFile" /\ call'.files = Tail(call.files)
          /\ call'.matches = call.matches /\ call'.matchBytes = call.matchBytes
          /\ call'.output = Nothing
      BY <1>9, <1>13, <2>1 DEF SkipsBinary, CallFields
    <2>3. ASSUME Fits(fs, call') PROVE Taken(call', G[j])
      <3>1. MatchesOf(fs, F[j]) = <<>>
        BY <1>21, <1>23, <1>24, <2>3 DEF MatchesIn
      <3>2. G[j] = G[m]
        BY <1>22, <3>1
      <3>3. /\ call'.matches = G[j] /\ call'.matchBytes \in Nat
            /\ Len(call'.matches) <= call'.args.limit
        BY <1>15, <1>21, <2>2, <2>3, <3>2
      <3>4. Begins(call'.matches, G[j])
        <4>1. Len(G[j]) <= Len(G[j])
          BY <1>29
        <4> QED
          BY <1>28, <3>3, <4>1 DEF Begins
      <3> QED
        BY <3>3, <3>4 DEF Taken
    <2>4. Reading(fs, call')
      BY <1>15, <1>16, <1>20, <2>2, <2>3 DEF Reading
    <2>5. SearchOK(fs, call')
      BY <1>9, <1>15, <2>2, <2>4 DEF SearchOK, SearchPcs, ReadPcs, Opening
    <2> QED
      BY <1>15, <2>2, <2>5
  <1>25. ASSUME value.encoding # "binary", Fits(fs, call')
         PROVE  /\ Begins(found.matches, G[j]) /\ Len(found.matches) <= call.args.limit
                /\ found.bytes \in Nat
                /\ found.full =>
                      /\ Len(found.matches) + 1 \in 1 .. Len(G[j])
                      /\ found.bytes + CostOf(G[j][Len(found.matches) + 1]) > call.args.byteLimit
                /\ found.full \/ found.matches = G[j] \/ Len(found.matches) = call.args.limit
    <2>1. Decodes(data) /\ value.content = data
      BY <1>21, <1>25
    <2>2. found = SearchLines(read, F[j], data)
      BY <1>5, <1>20, <2>1
    <2>3. /\ read.matches \in Seq(MatchesFound) /\ read.matchBytes \in Nat
          /\ read.args.limit \in Nat /\ read.args.byteLimit \in Nat
          /\ Len(read.matches) <= read.args.limit /\ read.matches = G[m]
      BY <1>11, <1>13, <1>21, <1>22, <1>25
    <2>4. /\ found \in Searched
          /\ Shown(found, G[m], MatchesIn(F[j], data), call.args.limit, call.args.byteLimit)
      BY <1>11, <1>13, <1>23, <2>1, <2>2, <2>3, FileIsSearched
    <2>5. /\ MatchesIn(F[j], data) \in Seq(MatchesFound)
          /\ G[j] = G[m] \o MatchesIn(F[j], data)
      BY <1>18, <1>20, <1>22, <1>23
    <2>6. found.bytes \in Nat
      BY <2>4 DEF Searched
    <2>7. PICK M, t, s : M = MatchesIn(F[j], data) /\ t = G[j] /\ s = G[m]
      OBVIOUS
    <2>8. /\ s \in Seq(MatchesFound) /\ M \in Seq(MatchesFound) /\ t = s \o M
          /\ Shown(found, s, M, call.args.limit, call.args.byteLimit)
      BY <1>22, <2>4, <2>5, <2>7
    <2>9. ShownOf(found, t, call.args.limit, call.args.byteLimit)
      BY <2>8, FileIsTaken
    <2> QED
      BY <2>6, <2>7, <2>9 DEF ShownOf
  <1>26. CASE value.encoding # "binary" /\ found.full
    <2>1. call' = Answers(searched, RowsOutput(found.matches))
      BY <1>8, <1>26
    <2>2. /\ call'.pc \in {"write", "project"}
          /\ call'.matches = found.matches /\ call'.matchBytes = found.bytes
      BY <1>14, <2>1 DEF Answers, Returned, CallFields
    <2>3. Answered(fs, call')
      <3>1. SUFFICES ASSUME Fits(fs, call')
                     PROVE  /\ Begins(call'.matches, AllIn(fs, call.args.path))
                            /\ call'.matchBytes + 1
                                  + Len(AllIn(fs, call.args.path)[Len(call'.matches) + 1].preview)
                                  > call.args.byteLimit
        BY <1>15 DEF Answered
      <3>2. PICK all : all = AllIn(fs, call.args.path)
        OBVIOUS
      <3>3. Begins(G[j], all)
        BY <1>16, <1>17, <1>18, <1>20, <3>2, FirstOnesBegin
      <3>4. Begins(found.matches, G[j])
        BY <1>25, <1>26, <3>1
      <3>5. PICK i : i = Len(found.matches) + 1
        OBVIOUS
      <3>6. i \in 1 .. Len(G[j]) /\ found.bytes + CostOf(G[j][i]) > call.args.byteLimit
            /\ found.bytes \in Nat
        BY <1>25, <1>26, <3>1, <3>5
      <3>7. all[i] = G[j][i] /\ G[j][i] \in MatchesFound
        BY <1>29, <3>3, <3>6 DEF Begins
      <3>8. CostOf(all[i]) = 1 + Len(all[i].preview) /\ Len(all[i].preview) \in Nat
        <4>1. all[i].preview \in Text
          BY <3>7 DEF MatchesFound
        <4>2. Len(all[i].preview) \in Nat
          BY <4>1 DEF Text
        <4> QED
          BY <4>2 DEF CostOf
      <3>9. found.bytes + 1 + Len(all[i].preview) > call.args.byteLimit
        <4>1. found.bytes + (1 + Len(all[i].preview)) > call.args.byteLimit
          BY <3>6, <3>7, <3>8
        <4>2. found.bytes + (1 + Len(all[i].preview)) = found.bytes + 1 + Len(all[i].preview)
          BY <3>6, <3>8
        <4> QED
          BY <4>1, <4>2
      <3>10. Begins(found.matches, all)
        BY <3>3, <3>4, BeginsBefore
      <3> QED
        BY <2>2, <3>2, <3>5, <3>9, <3>10
    <2>4. SearchOK(fs, call')
      BY <2>2, <2>3 DEF SearchOK, SearchPcs, ReadPcs
    <2> QED
      BY <1>15, <2>2, <2>4
  <1>27. CASE value.encoding # "binary" /\ ~found.full
    <2>1. call' = [searched EXCEPT !.files = Tail(@), !.pc = "nextFile"]
      BY <1>8, <1>27
    <2>2. /\ call'.pc = "nextFile" /\ call'.files = Tail(call.files)
          /\ call'.matches = found.matches /\ call'.matchBytes = found.bytes
          /\ call'.output = Nothing
      BY <1>9, <1>14, <2>1 DEF CallFields
    <2>3. ASSUME Fits(fs, call') PROVE Taken(call', G[j])
      BY <1>15, <1>25, <1>27, <2>2, <2>3 DEF Taken
    <2>4. Reading(fs, call')
      BY <1>15, <1>16, <1>20, <2>2, <2>3 DEF Reading
    <2>5. SearchOK(fs, call')
      BY <1>9, <1>15, <2>2, <2>4 DEF SearchOK, SearchPcs, ReadPcs, Opening
    <2> QED
      BY <1>15, <2>2, <2>5
  <1> QED
    BY <1>24, <1>26, <1>27

\* A search that is over, with an answer or without.
LEMMA OutOfSearch ==
    ASSUME NEW tree, NEW d, d.pc \in {"write", "project", "done"},
           d.output # Nothing => Answered(tree, d)
    PROVE  SearchOK(tree, d)
  BY DEF SearchOK, SearchPcs, ReadPcs

\* A search that fails has no answer.
LEMMA FailedSearch ==
    ASSUME TypesOK, SearchOK(fs, call), call' = Fails(call),
           call.pc \in {"resolve", "find"} \cup ReadPcs
    PROVE  SearchOK(fs, call')
  <1>1. call.output = Nothing
    BY DEF SearchOK
  <1>2. call'.output = Nothing /\ call'.pc = "project"
    BY <1>1 DEF Fails, Returned, TypesOK, CallFields
  <1> QED
    BY <1>2, OutOfSearch

\* resolve.
LEMMA ResolveSearches ==
    ASSUME TypesOK, TreeOK(fs), SearchOK(fs, call), call.tool = "search_text", Resolve
    PROVE  SearchOK(fs, call')
  <1>1. call.pc = "resolve" /\ DataOK(fs)
    BY DEF Resolve, TypesOK, DataOK, Text
  <1>2. /\ ArgsOK(call.args) /\ call.scanned = 0 /\ call.output = Nothing
        /\ call.matches = <<>> /\ call.matchBytes = 0 /\ call.files = <<>>
    BY <1>1 DEF SearchOK
  <1>3. call.args.path \in Seq(Names)
    BY <1>2 DEF ArgsOK
  <1>4. CASE call' = Fails(call)
    BY <1>1, <1>4, FailedSearch
  <1>5. ASSUME SameWork(call, call')
        PROVE  /\ call'.args = call.args /\ call'.scanned = 0 /\ call'.output = Nothing
               /\ call'.matches = <<>> /\ call'.matchBytes = 0
    BY <1>2, <1>5 DEF SameWork
  <1>6. CASE /\ SameWork(call, call') /\ call'.pc = "find"
             /\ Collecting(fs.entries, call.args.path, call'.stack, call'.files)
    BY <1>2, <1>5, <1>6 DEF SearchOK, SearchPcs, ReadPcs
  <1>7. CASE /\ SameWork(call, call') /\ call'.pc = "nextFile"
             /\ Found(fs.entries, call.args.path, call'.files)
    <2>1. Reading(fs, call')
      BY <1>1, <1>2, <1>5, <1>7, ReadingBegins
    <2> QED
      BY <1>2, <1>5, <1>7, <2>1 DEF SearchOK, SearchPcs, ReadPcs, Opening
  <1> QED
    BY <1>2, <1>3, <1>4, <1>6, <1>7, ResolveFinds

\* findFiles.
LEMMA FindingSearches ==
    ASSUME TypesOK, TreeOK(fs), SearchOK(fs, call), call.tool = "search_text", SearchStep
    PROVE  SearchOK(fs, call')
  <1>1. call.pc = "find" /\ DataOK(fs)
    BY DEF SearchStep, EnterDirectory, FindChild, FoundAll, TypesOK, DataOK, Text
  <1>2. /\ ArgsOK(call.args) /\ call.scanned = 0 /\ call.output = Nothing
        /\ call.matches = <<>> /\ call.matchBytes = 0
        /\ CollectingCall(call)
    BY <1>1 DEF SearchOK, CollectingCall
  <1>3. \/ call' = Fails(call)
        \/ /\ SameWork(call, call')
           /\ \/ /\ call'.pc = "find"
                 /\ Collecting(fs.entries, call.args.path, call'.stack, call'.files)
              \/ /\ call'.pc = "nextFile"
                 /\ Found(fs.entries, call.args.path, call'.files)
    <2>1. CASE EnterDirectory
      BY <1>2, <2>1, EnterDirectoryFinds
    <2>2. CASE FindChild
      BY <1>2, <2>2, FindChildFinds
    <2>3. CASE FoundAll
      BY <1>2, <2>3, FoundAllFinds
    <2> QED
      BY <2>1, <2>2, <2>3 DEF SearchStep
  <1>4. CASE call' = Fails(call)
    BY <1>1, <1>4, FailedSearch
  <1>5. ASSUME SameWork(call, call')
        PROVE  /\ call'.args = call.args /\ call'.scanned = 0 /\ call'.output = Nothing
               /\ call'.matches = <<>> /\ call'.matchBytes = 0
    BY <1>2, <1>5 DEF SameWork
  <1>6. CASE /\ SameWork(call, call') /\ call'.pc = "find"
             /\ Collecting(fs.entries, call.args.path, call'.stack, call'.files)
    BY <1>2, <1>5, <1>6 DEF SearchOK, SearchPcs, ReadPcs
  <1>7. CASE /\ SameWork(call, call') /\ call'.pc = "nextFile"
             /\ Found(fs.entries, call.args.path, call'.files)
    <2>1. Reading(fs, call')
      BY <1>1, <1>2, <1>5, <1>7, ReadingBegins
    <2> QED
      BY <1>2, <1>5, <1>7, <2>1 DEF SearchOK, SearchPcs, ReadPcs, Opening
  <1> QED
    BY <1>3, <1>4, <1>6, <1>7

\* The loop over the files, before one is opened.
LEMMA NextFileSearches ==
    ASSUME TypesOK, SearchOK(fs, call), NextFile
    PROVE  SearchOK(fs, call')
  <1>1. call.pc = "nextFile" /\ DataOK(fs)
    BY DEF NextFile, TypesOK, DataOK, Text
  <1>2. /\ ArgsOK(call.args) /\ call.scanned \in Nat /\ call.output = Nothing
        /\ Reading(fs, call)
    BY <1>1 DEF SearchOK, ReadPcs
  <1>3. CASE \/ call.files = <<>>
             \/ Len(call.matches) >= call.args.limit
             \/ call.scanned >= MaxScanBytes
    <2>1. call' = Answers(call, RowsOutput(call.matches))
      BY <1>3 DEF NextFile
    <2>2. /\ call'.pc \in {"write", "project"}
          /\ call'.args = call.args /\ call'.matches = call.matches
          /\ call'.matchBytes = call.matchBytes /\ call'.scanned = call.scanned
      BY <2>1 DEF Answers, Returned, TypesOK, CallFields
    <2>3. Answered(fs, call)
      BY <1>1, <1>2, <1>3, ReadingEnds
    <2>4. Fits(fs, call') => Fits(fs, call)
      BY <2>2 DEF Fits
    <2>5. Answered(fs, call')
      BY <2>2, <2>3, <2>4 DEF Answered
    <2> QED
      BY <2>2, <2>5, OutOfSearch
  <1>4. CASE ~ \/ call.files = <<>>
               \/ Len(call.matches) >= call.args.limit
               \/ call.scanned >= MaxScanBytes
    <2>1. call' = [call EXCEPT !.pc = "openFile"]
      BY <1>4 DEF NextFile
    <2>2. call'.pc = "openFile" /\ call'.files = call.files /\ SameWork(call, call')
      BY <2>1 DEF SameWork, TypesOK, CallFields
    <2>3. Reading(fs, call')
      BY <1>2, <2>2, ReadingGoesOn
    <2>4. /\ call'.args = call.args /\ call'.scanned = call.scanned /\ call'.output = Nothing
          /\ call'.matches = call.matches
      BY <1>2, <2>2 DEF SameWork
    <2>5. Opening(fs, call')
      BY <1>4, <2>2, <2>4 DEF Opening
    <2> QED
      BY <1>2, <2>2, <2>3, <2>4, <2>5 DEF SearchOK, SearchPcs, ReadPcs
  <1> QED
    BY <1>3, <1>4

\* The file that is opened is the one that was found.
LEMMA OpeningSearches ==
    ASSUME TypesOK, SearchOK(fs, call), OpenFile \/ VerifyFile
    PROVE  SearchOK(fs, call')
  <1>1. call.pc \in {"openFile", "verify"}
    BY DEF OpenFile, VerifyFile
  <1>2. /\ ArgsOK(call.args) /\ call.scanned \in Nat /\ call.output = Nothing
        /\ Reading(fs, call) /\ Opening(fs, call)
    BY <1>1 DEF SearchOK, ReadPcs
  <1>3. CASE call' = Fails(call)
    BY <1>1, <1>3, FailedSearch DEF ReadPcs
  <1>4. CASE call' # Fails(call)
    <2>1. /\ call'.pc \in {"verify", "pread"} /\ call'.files = call.files
          /\ SameWork(call, call')
          /\ call'.pc = "pread" => InodeAt(Head(call.files)) = call'.handle
      <3>1. CASE OpenFile
        <4>1. call' = [call EXCEPT !.handle = InodeAt(Head(call.files)), !.pc = "verify"]
          BY <1>4, <3>1 DEF OpenFile
        <4> QED
          BY <4>1 DEF SameWork, TypesOK, CallFields
      <3>2. CASE VerifyFile
        <4>1. /\ call' = [call EXCEPT !.pc = "pread"]
              /\ InodeAt(Head(call.files)) = call.handle
          BY <1>4, <3>2 DEF VerifyFile
        <4> QED
          BY <4>1 DEF SameWork, TypesOK, CallFields
      <3> QED
        BY <3>1, <3>2
    <2>2. Reading(fs, call')
      BY <1>2, <2>1, ReadingGoesOn
    <2>3. /\ call'.args = call.args /\ call'.scanned = call.scanned /\ call'.output = Nothing
          /\ call'.matches = call.matches
      BY <1>2, <2>1 DEF SameWork
    <2>4. Opening(fs, call')
      BY <1>1, <1>2, <2>1, <2>3 DEF Opening, InodeAt
    <2> QED
      BY <1>2, <2>1, <2>2, <2>3, <2>4 DEF SearchOK, SearchPcs, ReadPcs
  <1> QED
    BY <1>3, <1>4

\* The artifact and the projection.
LEMMA WritingSearches ==
    ASSUME TypesOK, SearchOK(fs, call), WriteArtifact \/ Project
    PROVE  SearchOK(fs, call')
  <1>1. call'.pc \in {"project", "done"} /\ SameWork(call, call')
    BY DEF WriteArtifact, Project, Returned, SameWork, TypesOK, CallFields
  <1>2. call.output # Nothing => Answered(fs, call)
    BY DEF SearchOK
  <1>3. call'.output # Nothing => Answered(fs, call')
    BY <1>1, <1>2, AnswerStands DEF SameWork
  <1> QED
    BY <1>1, <1>3, OutOfSearch

\* A system error.
LEMMA SystemErrorSearches ==
    ASSUME TypesOK, SearchOK(fs, call), SystemError
    PROVE  SearchOK(fs, call')
  <1>1. call' = Fails(call) /\ call.pc \in {"resolve", "find"} \cup ReadPcs
    BY DEF SystemError, SearchOK, SearchPcs, ReadPcs
  <1> QED
    BY <1>1, FailedSearch

\* Steps of the call after the first.
Proceeding == \/ SystemError \/ Resolve \/ ListStep \/ FileStep \/ SearchStep
              \/ GitStep \/ WriteArtifact \/ Project

\* Every step of a search keeps what is known of it.
LEMMA SearchProceeds ==
    ASSUME TypesOK, PlaceOK, TreeOK(fs), SearchOK(fs, call), call.tool = "search_text",
           Proceeding
    PROVE  SearchOK(fs, call')
  <1>1. CASE SystemError
    BY <1>1, SystemErrorSearches
  <1>2. CASE Resolve
    BY <1>2, ResolveSearches
  <1>3. CASE ListStep
    <2>1. call.pc \in {"open", "readdir", "validate", "next", "lstat", "confirm"}
      BY <1>3 DEF ListStep, OpenDirectory, ReadDirectory, ValidateDirectory, NextChild,
                  LstatChild, ConfirmChild
    <2> QED
      BY <2>1 DEF SearchOK, SearchPcs, ReadPcs
  <1>4. CASE FileStep
    <2>1. CASE ReadFile
      <3>1. call.handle \in Files
        BY <2>1 DEF ReadFile, PlaceOK
      <3> QED
        BY <2>1, <3>1, ReadFileSearches
    <2> QED
      BY <1>4, <2>1, NextFileSearches, OpeningSearches DEF FileStep
  <1>5. CASE SearchStep
    BY <1>5, FindingSearches
  <1>6. CASE GitStep
    <2>1. call.pc \in {"spawn", "git"}
      BY <1>6 DEF GitStep, Spawn, GitData, GitClose
    <2> QED
      BY <2>1 DEF SearchOK, SearchPcs, ReadPcs
  <1>7. CASE WriteArtifact \/ Project
    BY <1>7, WritingSearches
  <1> QED
    BY <1>1, <1>2, <1>3, <1>4, <1>5, <1>6, <1>7 DEF Proceeding

\* The tool stays what it is.
LEMMA ToolStays ==
    ASSUME TypesOK, Proceeding
    PROVE  call'.tool = call.tool /\ call'.pc # "execute" /\ fs' = fs
  <1>1. DOMAIN call = CallFields
    BY DEF TypesOK
  <1>2. ASSUME NEW c, NEW output, DOMAIN c = CallFields, c.tool = call.tool, call' = Answers(c, output)
        PROVE  call'.tool = call.tool /\ call'.pc # "execute"
    BY <1>2 DEF Answers, Returned, CallFields
  <1>3. CASE SystemError \/ Resolve
    <2>1. fs' = fs
      BY <1>3 DEF SystemError, Resolve, CallOnly
    <2>2. CASE call' = Fails(call)
      BY <1>1, <2>1, <2>2 DEF Fails, Returned, CallFields
    <2>3. CASE Resolve /\ call' # Fails(call)
      BY <1>1, <2>1, <2>3 DEF Resolve, CallFields
    <2> QED
      BY <1>3, <2>2, <2>3 DEF SystemError
  <1>4. CASE ListStep
    <2>1. fs' = fs
      BY <1>4 DEF ListStep, OpenDirectory, ReadDirectory, ValidateDirectory, NextChild,
                  LstatChild, ConfirmChild, CallOnly
    <2>2. CASE call' = Fails(call)
      BY <1>1, <2>1, <2>2 DEF Fails, Returned, CallFields
    <2>3. CASE call' = LeavesDirectory(call)
      <3>1. CASE Len(call.stack) = 1
        BY <1>1, <1>2, <2>1, <2>3, <3>1 DEF LeavesDirectory
      <3>2. CASE Len(call.stack) # 1
        BY <1>1, <2>1, <2>3, <3>2 DEF LeavesDirectory, CallFields
      <3> QED
        BY <3>1, <3>2
    <2>4. CASE call' # Fails(call) /\ call' # LeavesDirectory(call)
      <3>1. CASE OpenDirectory
        BY <1>1, <2>1, <2>4, <3>1 DEF OpenDirectory, CallFields
      <3>2. CASE ReadDirectory
        BY <1>1, <2>1, <2>4, <3>2 DEF ReadDirectory, CallFields
      <3>3. CASE ValidateDirectory
        BY <1>1, <2>1, <2>4, <3>3 DEF ValidateDirectory, CallFields
      <3>4. CASE NextChild
        BY <1>1, <2>1, <2>4, <3>4 DEF NextChild, CallFields
      <3>5. CASE LstatChild
        BY <1>1, <2>1, <2>4, <3>5 DEF LstatChild, CallFields
      <3>6. CASE ConfirmChild
        BY <1>1, <2>1, <2>4, <3>6 DEF ConfirmChild, CallFields
      <3> QED
        BY <1>4, <3>1, <3>2, <3>3, <3>4, <3>5, <3>6 DEF ListStep
    <2> QED
      BY <2>2, <2>3, <2>4
  <1>5. CASE FileStep
    <2>1. CASE NextFile
      <3>1. /\ fs' = fs
            /\ \/ call' = Answers(call, RowsOutput(call.matches))
               \/ call' = [call EXCEPT !.pc = "openFile"]
        BY <2>1 DEF NextFile, CallOnly
      <3> QED
        BY <1>1, <1>2, <3>1 DEF CallFields
    <2>2. CASE OpenFile \/ VerifyFile
      BY <1>1, <2>2 DEF OpenFile, VerifyFile, CallOnly, Fails, Returned, CallFields
    <2>3. CASE ReadFile
      <3> DEFINE limit == IF call.tool = "read_file" THEN call.args.byteLimit
                          ELSE Min({call.args.byteLimit, MaxScanBytes - call.scanned})
                 value == OutputFromBytes(Cut(fs.data[call.handle], limit + 1), limit)
                 read == [call EXCEPT !.source = fs.data[call.handle],
                                      !.scanned = @ + value.bytesRead]
                 found == SearchLines(read, Head(call.files), value.content)
                 searched == [read EXCEPT !.matches = found.matches,
                                          !.matchBytes = found.bytes]
      <3>1. /\ DOMAIN read = CallFields /\ read.tool = call.tool
            /\ DOMAIN searched = CallFields /\ searched.tool = call.tool
        BY <1>1 DEF CallFields
      <3>2. fs' = fs
        BY <2>3 DEF ReadFile, CallOnly
      <3>3. \/ call' = Answers(read, TextOutput(value))
            \/ call' = SkipsBinary(read)
            \/ call' = Answers(searched, RowsOutput(found.matches))
            \/ call' = [searched EXCEPT !.files = Tail(@), !.pc = "nextFile"]
        BY <2>3 DEF ReadFile
      <3> HIDE DEF read, searched, value, found
      <3>4. CASE \/ call' = Answers(read, TextOutput(value))
                 \/ call' = Answers(searched, RowsOutput(found.matches))
        BY <1>2, <3>1, <3>2, <3>4
      <3>5. CASE \/ call' = SkipsBinary(read)
                 \/ call' = [searched EXCEPT !.files = Tail(@), !.pc = "nextFile"]
        BY <3>1, <3>2, <3>5 DEF SkipsBinary, CallFields
      <3> QED
        BY <3>3, <3>4, <3>5
    <2> QED
      BY <1>5, <2>1, <2>2, <2>3 DEF FileStep
  <1>6. CASE SearchStep
    <2>1. fs' = fs /\ call.pc = "find"
      BY <1>6 DEF SearchStep, EnterDirectory, FindChild, FoundAll, CallOnly
    <2>2. CASE EnterDirectory
      BY <1>1, <2>1, <2>2 DEF EnterDirectory, Fails, Returned, CallFields
    <2>3. CASE FindChild
      BY <1>1, <2>1, <2>3 DEF FindChild, Fails, Returned, CallFields
    <2>4. CASE FoundAll
      BY <1>1, <2>1, <2>4 DEF FoundAll, CallFields
    <2> QED
      BY <1>6, <2>2, <2>3, <2>4 DEF SearchStep
  <1>7. CASE GitStep
    <2>1. fs' = fs
      BY <1>7 DEF GitStep, Spawn, GitData, GitClose
    <2>2. CASE Spawn
      BY <1>1, <2>1, <2>2 DEF Spawn, Fails, Returned, CallFields
    <2>3. ASSUME NEW n, GitData(n)
          PROVE  call'.tool = call.tool /\ call'.pc # "execute" /\ fs' = fs
      BY <1>1, <2>1, <2>3 DEF GitData, CallFields
    <2>4. ASSUME NEW code, GitClose(code)
          PROVE  call'.tool = call.tool /\ call'.pc # "execute" /\ fs' = fs
      <3>1. \/ call' = Fails(call)
            \/ call' = Answers(call, TextOutput(OutputFromBytes(
                                  call.captured, call.args.byteLimit)))
        BY <2>4 DEF GitClose
      <3> QED
        BY <1>1, <1>2, <2>1, <3>1 DEF Fails, Returned, CallFields
    <2> QED
      BY <1>7, <2>2, <2>3, <2>4 DEF GitStep
  <1>8. CASE WriteArtifact \/ Project
    BY <1>1, <1>8 DEF WriteArtifact, Project, Returned, CallOnly, CallFields
  <1> QED
    BY <1>3, <1>4, <1>5, <1>6, <1>7, <1>8 DEF Proceeding

\* A call that has not begun.
Idle(c) ==
    /\ c.files = <<>> /\ c.matches = <<>> /\ c.matchBytes = 0 /\ c.scanned = 0
    /\ c.output = Nothing

SearchInv ==
    /\ fs.changes \in Nat
    /\ call.pc = "execute" => Idle(call)
    /\ call.tool = "search_text" /\ fs.changes = 0 => SearchOK(fs, call)

\* A call that has not begun has nothing.
LEMMA SearchInvInit == Init => SearchInv
  <1> SUFFICES ASSUME Init PROVE SearchInv
    OBVIOUS
  <1>1. fs.changes = 0 /\ call.pc = "execute" /\ Idle(call)
    BY DEF Init, Idle
  <1>2. SearchOK(fs, call)
    BY <1>1 DEF SearchOK, SearchPcs, ReadPcs, Idle
  <1> QED
    BY <1>1, <1>2 DEF SearchInv

\* An integer that is accepted is one.
LEMMA BoundedIsNat ==
    ASSUME NEW value, NEW maximum \in Nat,
           BoundedInteger(value, maximum, maximum) # Nothing
    PROVE  BoundedInteger(value, maximum, maximum) \in Nat
  <1>1. CASE value = Nothing
    BY <1>1 DEF BoundedInteger
  <1>2. CASE value # Nothing
    <2>1. value \in 0 .. maximum
      BY <1>2 DEF BoundedInteger
    <2> QED
      BY <1>2, <2>1 DEF BoundedInteger
  <1> QED
    BY <1>1, <1>2

\* The arguments of a call are normalised, or the call fails.
LEMMA ExecuteSearches ==
    ASSUME SearchInv, TypesOK, NEW tool, NEW path \in Paths \cup {Nothing}, NEW depth,
           NEW limit, NEW byteLimit, Execute(tool, path, depth, limit, byteLimit)
    PROVE  SearchInv'
  <1> DEFINE args == Normalize(tool, path, depth, limit, byteLimit)
             c == [call EXCEPT !.tool = tool]
  <1>1. call.pc = "execute" /\ fs' = fs /\ Idle(call)
    BY DEF Execute, CallOnly, SearchInv
  <1>2. \/ call' = Returned(c, "cancelled")
        \/ call' = Returned(c, "failed")
        \/ /\ call' = [c EXCEPT !.pc = "resolve", !.args = args]
           /\ \A f \in DOMAIN args : args[f] # Nothing
    BY DEF Execute
  <1>3. ASSUME \A f \in DOMAIN args : args[f] # Nothing, tool = "search_text"
        PROVE  ArgsOK(args)
    <2>1. /\ DOMAIN args = {"path", "depth", "limit", "byteLimit"}
          /\ args.path = path
          /\ args.limit = BoundedInteger(limit, MaxResults, MaxResults)
          /\ args.byteLimit = BoundedInteger(byteLimit, OutputLimit, OutputLimit)
      BY <1>3 DEF Normalize
    <2>2. args["path"] # Nothing /\ args["limit"] # Nothing /\ args["byteLimit"] # Nothing
      BY <1>3, <2>1
    <2> HIDE DEF args
    <2>6. MaxResults \in Nat /\ OutputLimit \in Nat
      BY ToolAssumption
    <2>3. args.limit \in Nat
      <3>1. BoundedInteger(limit, MaxResults, MaxResults) # Nothing
        BY <2>1, <2>2
      <3>2. BoundedInteger(limit, MaxResults, MaxResults) \in Nat
        BY <2>6, <3>1, BoundedIsNat
      <3> QED
        BY <2>1, <3>2
    <2>4. args.byteLimit \in Nat
      <3>1. BoundedInteger(byteLimit, OutputLimit, OutputLimit) # Nothing
        BY <2>1, <2>2
      <3>2. BoundedInteger(byteLimit, OutputLimit, OutputLimit) \in Nat
        BY <2>6, <3>1, BoundedIsNat
      <3> QED
        BY <2>1, <3>2
    <2>5. args.path \in Seq(Names)
      <3>1. args.path \in Paths
        BY <2>1, <2>2
      <3>2. PICK k \in 0 .. MaxNames : args.path \in [1 .. k -> Names]
        BY <3>1 DEF Paths, SeqOf
      <3> QED
        BY <3>2
    <2> QED
      BY <2>3, <2>4, <2>5 DEF ArgsOK
  <1> HIDE DEF args
  <1>4. CASE call' = Returned(c, "cancelled") \/ call' = Returned(c, "failed")
    <2>1. call'.pc = "project" /\ call'.output = Nothing
      BY <1>1, <1>4 DEF Returned, Idle, TypesOK, CallFields
    <2>2. SearchOK(fs, call')
      BY <2>1, OutOfSearch
    <2> QED
      BY <1>1, <2>1, <2>2 DEF SearchInv
  <1>5. CASE /\ call' = [c EXCEPT !.pc = "resolve", !.args = args]
             /\ \A f \in DOMAIN args : args[f] # Nothing
    <2>1. /\ call'.pc = "resolve" /\ call'.args = args /\ call'.tool = tool
          /\ call'.files = call.files /\ call'.matches = call.matches
          /\ call'.matchBytes = call.matchBytes /\ call'.scanned = call.scanned
          /\ call'.output = call.output
      BY <1>5 DEF TypesOK, CallFields
    <2>2. ASSUME tool = "search_text" PROVE SearchOK(fs, call')
      BY <1>1, <1>3, <1>5, <2>1, <2>2 DEF SearchOK, SearchPcs, ReadPcs, Idle
    <2> QED
      BY <1>1, <2>1, <2>2 DEF SearchInv
  <1> QED
    BY <1>2, <1>4, <1>5

\* Another program that changes anything ends the promise: it counts its changes.
LEMMA SearchInvNext == SearchInv /\ ToolInv /\ ListInv /\ [Next]_toolVars => SearchInv'
  <1> SUFFICES ASSUME SearchInv, TypesOK, PlaceOK, TreeOK(fs), [Next]_toolVars
               PROVE  SearchInv'
    BY DEF ToolInv, ListInv
  <1>1. ASSUME NEW tool \in Tools, NEW path \in Paths \cup {Nothing},
               NEW depth \in 0 .. MaxDepth + 1, NEW limit \in 0 .. MaxResults + 1,
               NEW byteLimit \in 0 .. OutputLimit + 1,
               Execute(tool, path, depth, limit, byteLimit)
        PROVE  SearchInv'
    BY <1>1, ExecuteSearches
  <1>2. CASE Proceeding
    <2>1. call'.tool = call.tool /\ call'.pc # "execute" /\ fs' = fs
      BY <1>2, ToolStays
    <2>2. ASSUME call.tool = "search_text", fs.changes = 0 PROVE SearchOK(fs, call')
      BY <1>2, <2>2, SearchProceeds DEF SearchInv
    <2> QED
      BY <2>1, <2>2 DEF SearchInv
  <1>3. CASE Environment
    <2>1. CASE Abort
      BY <2>1 DEF Abort, SearchInv
    <2>2. ASSUME call' = call, fs'.changes = fs.changes + 1 PROVE SearchInv'
      <3>1. fs'.changes \in Nat /\ fs'.changes # 0
        BY <2>2 DEF SearchInv
      <3> QED
        BY <2>2, <3>1 DEF SearchInv
    <2>3. ASSUME NEW path, NEW n, NEW i, Relink(path, n, i) PROVE SearchInv'
      <3>1. call' = call /\ fs'.changes = fs.changes + 1
        BY <2>3 DEF Relink, TypesOK
      <3> QED
        BY <2>2, <3>1
    <2>4. ASSUME NEW f, NEW content, Rewrite(f, content) PROVE SearchInv'
      <3>1. call' = call /\ fs'.changes = fs.changes + 1
        BY <2>4 DEF Rewrite, TypesOK
      <3> QED
        BY <2>2, <3>1
    <2> QED
      BY <1>3, <2>1, <2>3, <2>4 DEF Environment
  <1>4. CASE UNCHANGED toolVars
    <2>1. fs' = fs /\ call' = call
      BY <1>4 DEF toolVars
    <2> QED
      BY <2>1 DEF SearchInv
  <1> QED
    BY <1>1, <1>2, <1>3, <1>4 DEF Next, Proceeding

-----------------------------------------------------------------------------
(* Theorems *)

\* WholeUnlessTruncated: whatever the limits, the pieces in which git writes
\* and the changes of other programs, the private evidence of read_file and of
\* git (textOutput of what readCappedFile or runGit kept) decodes, is a
\* beginning of the bytes that were read, and is all of them, of a git that
\* ended with 0, unless it says truncated.
THEOREM EvidenceIsWhole == Spec => []WholeUnlessTruncated
  <1>1. ToolInv => WholeUnlessTruncated
    BY DEF ToolInv, OutputOK, Honest, HonestOf, Source, WholeUnlessTruncated
  <1> QED
    BY <1>1, ToolInvHolds, PTL

\* CleanFactIsEarned: the projector (createServerOwnedToolProjector) calls the
\* worktree clean only after a git status that ended with 0 and wrote nothing.
THEOREM CleanIsEarned == Spec => []CleanFactIsEarned
  <1>1. ToolInv => CleanFactIsEarned
    BY DEF ToolInv, OutputOK, CleanFactIsEarned
  <1> QED
    BY <1>1, ToolInvHolds, PTL

\* ListingReadsWhatItOpened: while other programs replace, remove and move what
\* they like, as often as they like, a listing shows under a directory only names
\* and kinds that it read from the directory it opened there, unless that one or
\* one that was above it then is put at a place again during the call.  A rename
\* away and back is not noticed by the checks of the identity before and after
\* each read by name (validateDirectoryIdentity); of other changes they are enough.
THEOREM ListingIsOfWhatWasOpened == Spec => []ListingReadsWhatItOpened
  <1>1. ListInv => ListingReadsWhatItOpened
    BY DEF ListInv, EntriesOK, ListingReadsWhatItOpened
  <1>2. Spec => []ListInv
    BY ListInvInit, ListInvNext, ToolInvHolds, PTL DEF Spec
  <1> QED
    BY <1>1, <1>2, PTL

\* SearchMissesNothing: in a workspace that stands still and whose files fit
\* into the limits, search shows the matches in the order of their files and
\* lines, and leaves none out before the limit on results or on bytes is met.
\* #findFiles comes to every file below the path, whatever the tree; a file that
\* is not text is passed over and costs only the bytes that were read of it; and
\* the loops of search end where a limit is met and nowhere else.
THEOREM SearchesMissNothing == Spec => []SearchMissesNothing
  <1>1. SearchInv => SearchMissesNothing
    <2> SUFFICES ASSUME SearchInv, call.tool = "search_text", call.output # Nothing,
                        fs.changes = 0, call.scanned < MaxScanBytes,
                        \A f \in Files : Len(fs.data[f]) <= call.args.byteLimit
                 PROVE  LET all == AllMatches(call.args.path)
                            found == Len(call.matches) IN
                        /\ IsPrefix(call.matches, all)
                        /\ \/ call.matches = all
                           \/ found = call.args.limit
                           \/ call.matchBytes + 1 + Len(all[found + 1].preview)
                                 > call.args.byteLimit
      BY DEF SearchMissesNothing
    <2>1. Answered(fs, call)
      BY DEF SearchInv, SearchOK
    <2>2. PICK all : all = AllIn(fs, call.args.path)
      OBVIOUS
    <2>3. AllMatches(call.args.path) = all
      BY <2>2, AllMatchesIsAllIn
    <2>4. /\ Begins(call.matches, all)
          /\ \/ call.matches = all
             \/ Len(call.matches) = call.args.limit
             \/ call.matchBytes + 1 + Len(all[Len(call.matches) + 1].preview)
                   > call.args.byteLimit
      BY <2>1, <2>2 DEF Answered, Fits
    <2>5. IsPrefix(call.matches, all)
      BY <2>4, BeginsIsPrefix
    <2> QED
      BY <2>3, <2>4, <2>5
  <1>2. Spec => []ListInv
    BY ListInvInit, ListInvNext, ToolInvHolds, PTL DEF Spec
  <1>3. Spec => []SearchInv
    BY <1>2, SearchInvInit, SearchInvNext, ToolInvHolds, PTL DEF Spec
  <1> QED
    BY <1>1, <1>3, PTL

=============================================================================
