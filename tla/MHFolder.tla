------------------------------ MODULE MHFolder ------------------------------
(***************************************************************************)
(* An MH folder (mailbox.MH of the standard library) as a function from    *)
(* the keys of its files to the messages in them, and the positions of the *)
(* keys in a Mailbox's list of them.                                       *)
(***************************************************************************)
EXTENDS Integers, FiniteSets, SequencesExt

\* How many elements of S are not above k.
Rank(S, k) == Cardinality({j \in S : j <= k})

Ascending(S) == [n \in 1..Cardinality(S) |-> CHOOSE k \in S : Rank(S, k) = n]

\* The key of the next file.
Above(S) == IF S = {} THEN 1 ELSE Max(S) + 1

\* The folder f with one more file, the message m.
Added(f, m) ==
  LET new == Above(DOMAIN f)
  IN [k \in DOMAIN f \cup {new} |-> IF k = new THEN m ELSE f[k]]

\* The files take the keys from 1 on.
Packed(f) == [n \in 1..Cardinality(DOMAIN f) |-> f[Ascending(DOMAIN f)[n]]]

\* _rebuild_index_dicts: the position of each element of a list.
Index(list) == [x \in Range(list) |-> CHOOSE i \in DOMAIN list : list[i] = x]
=============================================================================
