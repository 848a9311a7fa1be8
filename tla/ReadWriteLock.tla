--------------------------- MODULE ReadWriteLock ---------------------------
(***************************************************************************)
(* UpgradeableReadWriteLock of utils.py: many tasks may read; one that     *)
(* reads may go on to write.  `_read_ready' is an asyncio.Condition: its    *)
(* lock is held by the writer, and by others for one step only; whoever    *)
(* wants to write waits on it until the readers all do.                    *)
(***************************************************************************)
EXTENDS Integers, FiniteSets

CONSTANTS Tasks, Nobody,
          LockFaults  \* {"cancel"}: a task that waits to write may be cancelled

VARIABLES
  at,          \* where each task is
  writer,      \* who holds the lock of the condition over more than one step
  _readers,
  _want_write

lockVars == <<at, writer, _readers, _want_write>>

\* Inside read_lock(), and of those the ones that wait on the condition.
Inside  == {"reading", "upgrade", "waiting", "woken", "writing", "leave"}
Wanting == {"waiting", "woken"}

LockTypeOK ==
  /\ at \in [Tasks -> {"out", "enter"} \cup Inside]
  /\ writer \in Tasks \cup {Nobody}
  /\ _readers \in Int /\ _want_write \in Int

LockInit ==
  /\ at = [t \in Tasks |-> "out"] /\ writer = Nobody
  /\ _readers = 0 /\ _want_write = 0

Moves(t, from, to) == at[t] = from /\ at' = [at EXCEPT ![t] = to]

-----------------------------------------------------------------------------

ReadLock(t)  == Moves(t, "out", "enter") /\ UNCHANGED <<writer, _readers, _want_write>>
WriteLock(t) == Moves(t, "reading", "upgrade") /\ UNCHANGED <<writer, _readers, _want_write>>
ReadUnlock(t) == Moves(t, "reading", "leave") /\ UNCHANGED <<writer, _readers, _want_write>>

Enter(t) ==
  /\ writer = Nobody
  /\ Moves(t, "enter", "reading")
  /\ _readers' = _readers + 1
  /\ UNCHANGED <<writer, _want_write>>

\* The lock of the condition is kept.
Writes(t, from, want) ==
  /\ _readers = want
  /\ Moves(t, from, "writing")
  /\ writer' = t /\ _want_write' = want - 1
  /\ UNCHANGED _readers

Upgrade(t) ==
  /\ writer = Nobody
  /\ \/ Writes(t, "upgrade", _want_write + 1)
     \/ /\ _readers # _want_write + 1
        /\ Moves(t, "upgrade", "waiting")
        /\ _want_write' = _want_write + 1
        /\ UNCHANGED <<writer, _readers>>

Recheck(t) ==
  /\ writer = Nobody
  /\ \/ Writes(t, "woken", _want_write)
     \/ /\ _readers # _want_write
        /\ Moves(t, "woken", "waiting")
        /\ UNCHANGED <<writer, _readers, _want_write>>

WriteUnlock(t) ==
  /\ Moves(t, "writing", "reading")
  /\ writer' = Nobody
  /\ UNCHANGED <<_readers, _want_write>>

\* Mutant: nobody is told that a reader has left.
LeaveSilently(t) ==
  /\ writer = Nobody
  /\ Moves(t, "leave", "out")
  /\ _readers' = _readers - 1
  /\ UNCHANGED <<writer, _want_write>>

Leave(t) ==
  /\ writer = Nobody /\ at[t] = "leave"
  /\ _readers' = _readers - 1
  /\ at' = [u \in Tasks |-> IF u = t THEN "out"
                            ELSE IF at[u] = "waiting" /\ _readers - 1 = _want_write THEN "woken"
                            ELSE at[u]]
  /\ UNCHANGED <<writer, _want_write>>

\* Cancelled in wait_for: on to the end of read_lock(), and _want_write stays.
Cancel(t) ==
  /\ "cancel" \in LockFaults /\ at[t] \in Wanting /\ writer = Nobody
  /\ at' = [at EXCEPT ![t] = "leave"]
  /\ UNCHANGED <<writer, _readers, _want_write>>

\* What goes on by itself once it has been called for.
LockStep(t) == Enter(t) \/ Upgrade(t) \/ Recheck(t) \/ Leave(t)

LockNext ==
  \E t \in Tasks : \/ LockStep(t) \/ ReadLock(t) \/ WriteLock(t) \/ ReadUnlock(t)
                   \/ WriteUnlock(t) \/ Cancel(t)

LockSpec == LockInit /\ [][LockNext]_lockVars

-----------------------------------------------------------------------------
(* Properties *)

\* While a task writes, no other one reads: those that are inside read_lock()
\* wait to write.
WritesAlone ==
  \A t, u \in Tasks : at[t] = "writing" /\ u # t => at[u] \in {"out", "enter"} \cup Wanting

\* _want_write counts the tasks in wait_for: only so does _readers = _want_write
\* mean that nobody else reads.
WantIsCount == _want_write = Cardinality({t \in Tasks : at[t] \in Wanting})
=============================================================================
