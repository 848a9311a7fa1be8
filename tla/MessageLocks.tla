---------------------------- MODULE MessageLocks ----------------------------
(***************************************************************************)
(* What the scheduler of a mailbox promises to the IMAP commands that work *)
(* on it: a command holds a claim on the mailbox while it runs, and two    *)
(* claims that clash are never held together.                              *)
(*                                                                         *)
(* The kinds of claim are read off the table in Mailbox.would_conflict():  *)
(*                                                                         *)
(*   alone    APPEND CHECK DELETE MOVE RENAME: nothing else may run        *)
(*   expunge  CLOSE EXPUNGE: may join others, but nothing joins it         *)
(*   flags    STORE: changes the flags of its messages                     *)
(*   body     FETCH of a body without .PEEK: marks its messages \Seen      *)
(*   read     COPY: needs the flags of its messages to stay put            *)
(*   peek     FETCH that changes nothing                                   *)
(*   scan     SEARCH: needs the flags of every message to stay put         *)
(*   watch    NOOP SELECT EXAMINE STATUS: no message is looked at          *)
(***************************************************************************)
CONSTANTS Holders,    \* the commands
          Messages    \* message sequence numbers

VARIABLE held         \* held[h]: the claim of h, or NoClaim

Modes == {"alone", "expunge", "flags", "body", "read", "peek", "scan", "watch"}

Claims == [mode : Modes, msgs : SUBSET Messages]

NoClaim == [mode |-> "none", msgs |-> {}]

LocksTypeOK == held \in [Holders -> Claims \cup {NoClaim}]

Shares(a, b) == a.msgs \cap b.msgs # {}

(***************************************************************************)
(* Which claims may not be held together.  Bars is written for one order   *)
(* of the arguments; Clash is its symmetric closure.                       *)
(***************************************************************************)
Bars(a, b) ==
  \/ a.mode = "alone"
  \/ a.mode = "expunge" /\ b.mode = "expunge"
  \/ a.mode \in {"flags", "body"} /\ b.mode = "scan"
  \/ a.mode = "flags" /\ b.mode \in {"flags", "body", "read", "peek"} /\ Shares(a, b)
  \/ a.mode = "body"  /\ b.mode \in {"body", "read"} /\ Shares(a, b)

Clash(a, b) == Bars(a, b) \/ Bars(b, a)

\* What keeps every newcomer out, whatever it wants.
Closed == \E h \in Holders : held[h].mode \in {"alone", "expunge"}

-----------------------------------------------------------------------------

LocksInit == held = [h \in Holders |-> NoClaim]

\* h is granted the claim it holds in the next state, whichever that is.
Grant(h) ==
  /\ held[h] = NoClaim
  /\ held'[h] \in Claims
  /\ ~ Closed
  /\ held' = [held EXCEPT ![h] = held'[h]]
  /\ \A g \in Holders : held[g] # NoClaim => ~ Clash(held'[h], held[g])

Release(h) ==
  /\ held[h] # NoClaim
  /\ held' = [held EXCEPT ![h] = NoClaim]

LocksNext == \E h \in Holders : Grant(h) \/ Release(h)

LocksSpec == LocksInit /\ [][LocksNext]_held
=============================================================================
