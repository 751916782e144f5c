---------------------------- MODULE MCMemoryStore ----------------------------
(* A bounded instance of MemoryStore for TLC. *)
EXTENDS MemoryStore

\* Both statuses of a pre-dispatch prefix, one at a time.
MCBatches == {<<"preparing">>, <<"model_streaming">>}

\* Bound: a state with both a Provider call and a tool call is not extended.
\* The two write different Maps and meet in the leases and the log, which
\* either kind fills by itself.
OneKindOfWork ==
    \/ db.snapshots = NoSnapshot /\ \A m \in ModelSteps : db.modelSteps[m] = Absent
    \/ \A i \in Invocations : db.invocations[i] = Absent
=============================================================================
