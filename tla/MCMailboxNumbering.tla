------------------------- MODULE MCMailboxNumbering -------------------------
(***************************************************************************)
(* MailboxNumbering on two or three commands and up to three messages.     *)
(***************************************************************************)
EXTENDS MailboxNumbering, TLC

Ask(kind, by, msgs) == [kind |-> kind, peek |-> FALSE, by |-> by, msgs |-> msgs]

\* Flagging, copying, expunging, and moving with the EXPUNGE it sends for
\* whatever it has copied.  A UID EXPUNGE of messages that are gone expunges
\* whatever is flagged, as a plain EXPUNGE does.
MCEverything ==
  {Ask("EXPUNGE", "uid", {1, 2}), Ask("STORE", "num", {1, 2}),
   Ask("COPY", "uid", {2, 3}), Ask("MOVE", "num", {1, 2}), Ask("APPEND", "none", {})}
    \cup {Ask("EXPUNGE", "move", S) : S \in SUBSET MsgNums}

\* Once an EXPUNGE has failed half-way, one command after the other is followed,
\* and no MOVE that has its EXPUNGE to come.
MCFollowed ==
  cut => moved = {} /\ Cardinality({c \in Cmds : phase[c] \in {"waiting", "running"}}) <= 1

MCSymmetry == Permutations(Cmds)
=============================================================================
