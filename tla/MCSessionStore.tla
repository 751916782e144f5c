--------------------------- MODULE MCSessionStore ---------------------------
(* Bounded instances of SessionStore for TLC. *)
EXTENDS SessionStoreLog, TLC

\* Who may write the log and in which order: a whole pre-dispatch prefix in one
\* batch, its two halves, and the end of a Run.
LogBatches == {<<"preparing">>, <<"model_streaming">>, <<"run_completed">>,
               <<"preparing", "model_streaming">>}

\* What steps and receipts need of the log: room that other events may take.
WorkBatches == {<<"status">>}

\* Bound: a state with a tool call is extended only before a model step and
\* while the Command is reserved; it is there to put receipts into the log.
ToolWorkAlone ==
    \/ \A i \in Invocations : invocations[i].status = "none"
    \/ /\ \A m \in ModelSteps : steps[m].status = "none"
       /\ command.status \in {"none", "reserved"}

MCSymmetry == Permutations(ModelSteps) \cup Permutations(Invocations)
=============================================================================
