--------------------------- MODULE SessionStoreLog ---------------------------
(***************************************************************************)
(* The session store implements FencedLog: Attempts are the epochs, an     *)
(* unexpired lease is the right to write, and the rows of events, read in  *)
(* the order of their sequence up to the active watermark, are the log.    *)
(***************************************************************************)
EXTENDS SessionStore

\* The Attempt that wrote the row with this sequence.
Writer(seq) == (CHOOSE e \in events : e.seq = seq).attempt

Promise == INSTANCE FencedLog WITH
    epoch <- active,
    held <- ~NoLiveLease,
    log <- [seq \in 1 .. Watermark |-> Writer(seq)]

\* The store under any callers is a log with one writer at a time: every
\* operation of sqlite-session-store.ts is a step of FencedLog or leaves the
\* epoch, the right to write and the log as they are.
ImplementsFencedLog == Promise!AbstractSpec
=============================================================================
