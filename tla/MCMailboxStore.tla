--------------------------- MODULE MCMailboxStore ---------------------------
(***************************************************************************)
(* MailboxStore on a folder with a gap in its keys.                        *)
(***************************************************************************)
EXTENDS MailboxStore

MCInitialKeys == {3}

\* Once something was cut short, what becomes of the flags reported until then
\* is followed through one more start, and nothing once they may be lost.
MCFollowed == ~ lost /\ (torn => starts <= 2 /\ acked # {})

\* The client flags messages \Deleted, or takes the flag away.
MCFlags == [seq : {"Deleted"}, in : BOOLEAN]
=============================================================================
