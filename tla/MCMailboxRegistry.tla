------------------------- MODULE MCMailboxRegistry -------------------------
EXTENDS MailboxRegistry, TLC

CONSTANTS leaf

\* One mailbox is in INBOX.
MCParent == [n \in {leaf} |-> Inbox]

\* The tasks are alike.
MCTasks == Permutations(Tasks)
=============================================================================
