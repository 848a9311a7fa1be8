------------------------------- MODULE MCLogin -------------------------------
EXTENDS Login

CONSTANTS imap, pop, alice, bob, home

\* Both come from one address.
MCAddrOf == [c \in Conns |-> home]

\* bob leaves with the second version of the password file.
MCListed == [v \in 1..MaxVersion |-> IF v = 1 THEN {alice, bob} ELSE {alice}]
=============================================================================
