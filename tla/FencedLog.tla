------------------------------ MODULE FencedLog ------------------------------
(***************************************************************************)
(* What the session store promises about one Run, without rows, tokens,    *)
(* clocks or watermarks: a log that only grows, written by one authority   *)
(* at a time.  Authority is an epoch (an Attempt) that may hold the right  *)
(* to write.  The right may lapse and be granted again to the same epoch,  *)
(* or pass for good to the next epoch, which may write as it takes over.   *)
(* No entry of an earlier epoch ever follows one of a later epoch.         *)
(***************************************************************************)
EXTENDS Integers, Sequences

VARIABLES
    epoch,              \* the epoch in force; 0 before the first
    held,               \* that epoch may write now
    log                 \* the epoch that wrote each entry

logVars == <<epoch, held, log>>

\* n entries written by epoch e at the end of the log.
Extended(e, n) == log \o [k \in 1 .. n |-> e]

AbstractInit ==
    /\ epoch = 0
    /\ held = FALSE
    /\ log = <<>>

\* The Run comes into being with its first epoch.
Open ==
    /\ epoch = 0
    /\ epoch' = 1
    /\ UNCHANGED <<held, log>>

\* The epoch in force gets, or gets back, the right to write.
Grant ==
    /\ epoch # 0
    /\ ~held
    /\ held' = TRUE
    /\ UNCHANGED <<epoch, log>>

\* The right to write runs out.
Lapse ==
    /\ held
    /\ held' = FALSE
    /\ UNCHANGED <<epoch, log>>

\* The next epoch takes over, only from an epoch that may not write any more.
TakeOver ==
    /\ epoch # 0
    /\ ~held
    /\ held' = TRUE
    /\ epoch' = epoch + 1
    /\ \E n \in 0 .. 1 : log' = Extended(epoch', n)

\* The holder adds entries.
Write ==
    /\ held
    /\ Len(log') > Len(log)
    /\ log' = Extended(epoch, Len(log') - Len(log))
    /\ UNCHANGED <<epoch, held>>

AbstractNext == Open \/ Grant \/ Lapse \/ TakeOver \/ Write

AbstractSpec == AbstractInit /\ [][AbstractNext]_logVars
=============================================================================
