------------------------- MODULE MCMailboxScheduler -------------------------
(***************************************************************************)
(* MailboxScheduler on a few commands and two messages.                    *)
(***************************************************************************)
EXTENDS MailboxScheduler, TLC

Plain(kinds) == [kind : kinds, peek : {FALSE}]

PeekFetch == [kind |-> "FETCH", peek |-> TRUE]

\* Every row and column of would_conflict that differs from another.
MCEveryKind == Plain({"DELETE", "COPY", "EXPUNGE", "FETCH", "NOOP", "SEARCH", "STORE"})
                 \cup {PeekFetch}

\* For the run in which time matters: with a command that takes the mailbox away.
MCWithDelete == Plain({"DELETE", "STORE"})

MCSymmetry == Permutations(Cmds)
=============================================================================
