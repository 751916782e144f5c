--------------------------- MODULE MCProviderStream ---------------------------
(* Bounded instances of ProviderStream for TLC. *)
EXTENDS ProviderStream

Text(data) == [choice |-> 0, part |-> [kind |-> "text", data |-> data],
               reason |-> "none"]
Call(index, named, data) ==
    [choice |-> 0, reason |-> "none",
     part |-> [kind |-> "call", index |-> index, named |-> named, data |-> data]]
Ending(choice, reason) == [choice |-> choice, part |-> Nothing, reason |-> reason]

\* Text and the arguments of one call may spell the credential; that call gets
\* its name with its second fragment, or first; another call comes between; and
\* another choice may finish first.
MCFrames ==
    {Text("head"), Text("tail"),
     Call(1, FALSE, "head"), Call(1, TRUE, "tail"),
     Call(2, TRUE, "other"), Ending(0, "stop"), Ending(1, "length")}
=============================================================================
