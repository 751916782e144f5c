--------------------------- MODULE MCWorkspaceTools ---------------------------
(* A bounded instance of WorkspaceTools for TLC. *)
EXTENDS WorkspaceTools

CONSTANTS root, sub, other, f, g, out, nothing

\* root/a is a directory with one file, root/b a file; another directory, which
\* has a link under the same name, waits to take a place, as the link may.
MCNames == <<"a", "b">>
MCEntries == [d \in Dirs |-> [n \in Names |->
    IF d = root THEN (IF n = "a" THEN sub ELSE g)
    ELSE IF d = sub /\ n = "b" THEN f
    ELSE IF d = other /\ n = "b" THEN out
    ELSE nothing]]
MCData == [file \in Files |-> IF file = f THEN <<"rest">>
                              ELSE <<"q", "n", "q">>]
MCOutside == {<<"a">>}
MCContents == {<<"q", "lead", "rest">>}
MCGitOutputs == {<<>>, <<"n">>, <<"rest">>, <<"x", "lead", "rest", "x", "x">>}
===============================================================================
