---------------------------- MODULE MailboxProofs ----------------------------
(***************************************************************************)
(* Proofs about MailboxScheduler and MailboxNumbering, for any commands,   *)
(* messages and requests.  What runs together, and on what, is right       *)
(* provided the mailbox has only one management task; that a command is    *)
(* let in once, and not forgotten, is so for any number of them.           *)
(*                                                                         *)
(* The steps of MailboxNumbering are steps of the scheduler, so that all   *)
(* that is proved of it holds there as well; on that rests the proof that  *)
(* the message numbers and UIDs are handled rightly.                       *)
(***************************************************************************)
EXTENDS MailboxNumbering, SequenceTheorems, FiniteSetTheorems, TLAPS

OneTask == \A s, t \in Tasks : s = t

-----------------------------------------------------------------------------
(* Initially *)

\* The management task that Mailbox.new creates finds nothing executing.
LEMMA InitInv == Init => SchedulerInv
<1> SUFFICES ASSUME Init PROVE SchedulerInv
  OBVIOUS
<1>1. AnyRequest \in Requests
  BY RequestsAssumption DEF AnyRequest
<1>2. TypeOK
  <2>1. queue \in Seq(Cmds) /\ mgmtTask \in Tasks /\ executing \subseteq Cmds
    BY DEF Init
  <2>2. pc \in [Tasks -> {"off", "start", "get", "conflict", "resync", "done"}]
    BY DEF Init
  <2>3. taken \in [Tasks -> Cmds \cup {NoCmd}] /\ req \in [Cmds -> Requests]
    BY <1>1 DEF Init
  <2>4. set \in [Cmds -> SUBSET MsgNums]
    BY DEF Init
  <2>5. phase \in [Cmds -> {"waiting", "running", "completed"}]
    BY DEF Init
  <2>6. ready \in [Cmds -> BOOLEAN] /\ deleted \in BOOLEAN /\ noselect \in BOOLEAN
    BY DEF Init
  <2> QED
    BY <2>1, <2>2, <2>3, <2>4, <2>5, <2>6 DEF TypeOK
<1>3. HandFull /\ StartedTask /\ LetInExecute /\ QuietResync
  BY DEF Init, HandFull, StartedTask, LetInExecute, QuietResync, Running
<1>4. OnePlace
  BY DEF Init, OnePlace
<1>5. ExecutingApart
  BY DEF Init, ExecutingApart, Uncompleted
<1> QED
  BY <1>2, <1>3, <1>4, <1>5 DEF SchedulerInv

-----------------------------------------------------------------------------
(* The table of would_conflict *)

\* A newcomer that conflicts with nobody clashes with nobody.
LEMMA NoConflictNoClash ==
  ASSUME TypeOK,
         NEW c \in Cmds, NEW running \in SUBSET Cmds, NEW anyDeleted \in BOOLEAN,
         ~ WouldConflict(c, running, anyDeleted),
         NEW d \in running
  PROVE  ~ Locks!Clash(Claim(c), Claim(d))
<1>1. d \in Cmds /\ req[c] \in Requests /\ req[d] \in Requests
  BY DEF TypeOK
<1>2. req[c].kind \in Kinds /\ req[d].kind \in Kinds
  BY <1>1, RequestsAssumption
<1>3. req[d].kind \notin Conflicting /\ req[c].kind \notin Solitary
  BY DEF WouldConflict
<1>4. Claim(d).mode \notin {"alone", "expunge"} /\ Claim(c).mode # "alone"
  BY <1>2, <1>3 DEF Claim, Mode, Conflicting, Solitary, Kinds, Is, MarksSeen, Peeks
<1>5. Locks!Shares(Claim(c), Claim(d)) <=> Intersect(c, d)
  BY DEF Locks!Shares, Claim, Intersect
<1>6. Locks!Shares(Claim(d), Claim(c)) <=> Intersect(c, d)
  BY DEF Locks!Shares, Claim, Intersect
<1>7. ~ Locks!Bars(Claim(c), Claim(d))
  BY <1>2, <1>3, <1>4, <1>5
     DEF Locks!Bars, Claim, Mode, WouldConflict, Conflicting, Solitary, Is, MarksSeen, Peeks
<1>8. ~ Locks!Bars(Claim(d), Claim(c))
  BY <1>2, <1>3, <1>4, <1>6
     DEF Locks!Bars, Claim, Mode, WouldConflict, Conflicting, Solitary, Is, MarksSeen, Peeks
<1> QED
  BY <1>7, <1>8 DEF Locks!Clash

\* Clash does not depend on the order of its arguments.
LEMMA ClashSymmetric ==
  ASSUME NEW a, NEW b PROVE Locks!Clash(a, b) <=> Locks!Clash(b, a)
BY DEF Locks!Clash

-----------------------------------------------------------------------------
(* Each step *)

\* What queue.get() returns, and what stays on the queue.
LEMMA HeadTail ==
  ASSUME NEW S, NEW q \in Seq(S), q # << >>
  PROVE  /\ Head(q) \in S
         /\ Tail(q) \in Seq(S)
         /\ Head(q) = q[1]
         /\ Len(q) \in Nat \ {0}
         /\ Len(Tail(q)) = Len(q) - 1
         /\ \A i \in 1..Len(Tail(q)) : Tail(q)[i] = q[i + 1]
         /\ \A i \in 1..Len(Tail(q)) : i + 1 \in 1..Len(q) /\ i + 1 # 1
OBVIOUS

\* A command that goes on the queue: ready_and_okay before its wait.
LEMMA IssueInv ==
  ASSUME SchedulerInv, NEW c \in Cmds, NEW r \in Requests, Issue(c, r)
  PROVE  SchedulerInv'
<1> USE DEF SchedulerInv, TypeOK, Issue, cmdVars, mboxVars
<1>1. TypeOK'
  OBVIOUS
<1>2. c \notin executing /\ \A t \in Tasks : taken[t] # c
  BY DEF Referenced
<1>3. \A i \in 1..Len(queue) : queue[i] # c
  BY DEF Referenced, Queued
<1>4. HandFull' /\ StartedTask' /\ QuietResync'
  BY DEF HandFull, StartedTask, QuietResync
<1>5. LetInExecute'
  BY DEF LetInExecute, Running
<1>6. OnePlace'
  <2>1. Len(queue') = Len(queue) + 1 /\ Len(queue) \in Nat
    OBVIOUS
  <2>2. \A i \in 1..Len(queue') : queue'[i] = IF i = Len(queue) + 1 THEN c ELSE queue[i]
    OBVIOUS
  <2> QED
    BY <1>2, <1>3, <2>1, <2>2 DEF OnePlace
<1>7. ExecutingApart'
  <2>1. Uncompleted' = Uncompleted
    BY <1>2 DEF Uncompleted
  <2>2. \A d \in Uncompleted : Claim(d)' = Claim(d)
    BY <1>2 DEF Uncompleted, Claim, Mode, Is, MarksSeen, Peeks
  <2> QED
    BY <2>1, <2>2 DEF ExecutingApart, Locks!Clash, Locks!Bars, Locks!Shares
<1> QED
  BY <1>1, <1>4, <1>5, <1>6, <1>7

\* A step that changes no queue, hand, set or list of executing commands keeps
\* the parts of the invariant that only look at those.
LEMMA FrameInv ==
  ASSUME SchedulerInv,
         UNCHANGED <<queue, taken, executing, req, set>>,
         \A c \in Cmds : phase[c] = "completed" => phase'[c] = "completed"
  PROVE  OnePlace' /\ ExecutingApart'
<1>1. OnePlace'
  BY DEF SchedulerInv, OnePlace
<1>2. Uncompleted' \subseteq Uncompleted
  BY DEF Uncompleted, SchedulerInv, TypeOK
<1>3. \A c \in Uncompleted : Claim(c)' = Claim(c)
  BY DEF Uncompleted, Claim, Mode, Is, MarksSeen, Peeks
<1>4. ExecutingApart'
  BY <1>2, <1>3 DEF SchedulerInv, ExecutingApart, Locks!Clash, Locks!Bars, Locks!Shares
<1> QED
  BY <1>1, <1>4

\* The steps of a command after its wait, and of a DELETE that keeps the name.
LEMMA ClientInv ==
  ASSUME SchedulerInv, NEW c \in Cmds, ClientStep(c)
  PROVE  SchedulerInv'
<1> USE DEF SchedulerInv, TypeOK, cmdVars, mboxVars
<1>1. CASE Wake(c)
  <2>1. TypeOK' /\ HandFull' /\ StartedTask' /\ QuietResync'
    BY <1>1 DEF Wake, HandFull, StartedTask, QuietResync
  <2>2. LetInExecute'
    BY <1>1 DEF Wake, LetInExecute, Running
  <2>3. OnePlace' /\ ExecutingApart'
    BY <1>1, FrameInv DEF Wake
  <2> QED
    BY <2>1, <2>2, <2>3
<1>2. CASE Refuse(c) \/ Complete(c) \/ Timeout(c)
  <2>1. TypeOK' /\ HandFull' /\ StartedTask' /\ QuietResync'
    BY <1>2 DEF Refuse, Complete, Timeout, HandFull, StartedTask, QuietResync
  <2>2. LetInExecute'
    BY <1>2 DEF Refuse, Complete, Timeout, LetInExecute, Running
  <2>3. OnePlace' /\ ExecutingApart'
    BY <1>2, FrameInv DEF Refuse, Complete, Timeout
  <2> QED
    BY <2>1, <2>2, <2>3
<1>3. CASE MakeNoselect(c)
  <2>1. TypeOK' /\ HandFull' /\ StartedTask' /\ QuietResync' /\ LetInExecute'
    BY <1>3 DEF MakeNoselect, HandFull, StartedTask, QuietResync, LetInExecute, Running
  <2>2. OnePlace' /\ ExecutingApart'
    BY <1>3, FrameInv DEF MakeNoselect
  <2> QED
    BY <2>1, <2>2
<1> QED
  BY <1>1, <1>2, <1>3 DEF ClientStep

\* Taking the first command off the queue.
LEMMA DequeueInv ==
  ASSUME SchedulerInv, queue # << >>, queue' = Tail(queue),
         UNCHANGED <<executing, phase, req>>,
         NEW t \in Tasks,
         taken' \in {taken, [taken EXCEPT ![t] = Head(queue)]},
         set' = set \/ \E S : set' = [set EXCEPT ![Head(queue)] = S]
  PROVE  OnePlace' /\ ExecutingApart'
<1> USE DEF SchedulerInv, TypeOK
<1>1. Head(queue) \in Cmds /\ Head(queue) \notin executing
  BY HeadTail DEF OnePlace
<1>2. \A i \in 1..Len(queue') : queue'[i] = queue[i + 1] /\ i + 1 \in 1..Len(queue) /\ i + 1 # 1
  BY HeadTail
<1>3. \A i \in 1..Len(queue') : queue'[i] # Head(queue)
  BY <1>2, HeadTail DEF OnePlace
<1>4. OnePlace'
  <2>1. \A i \in 1..Len(queue') : queue'[i] \notin executing'
    BY <1>2 DEF OnePlace
  <2>2. \A i, j \in 1..Len(queue') : queue'[i] = queue'[j] => i = j
    <3>1. \A i \in 1..Len(queue') : i \in Nat
      OBVIOUS
    <3> QED
      BY <1>2, <3>1 DEF OnePlace
  <2>3. \A s \in Tasks : taken'[s] \notin executing'
    BY <1>1 DEF OnePlace
  <2>4. \A s \in Tasks : \A i \in 1..Len(queue') : queue'[i] # taken'[s]
    BY <1>2, <1>3 DEF OnePlace
  <2> QED
    BY <2>1, <2>2, <2>3, <2>4 DEF OnePlace
<1>5. ExecutingApart'
  <2>1. Uncompleted' = Uncompleted
    BY DEF Uncompleted
  <2>2. \A c \in Uncompleted : Claim(c)' = Claim(c)
    BY <1>1 DEF Uncompleted, Claim, Mode, Is, MarksSeen, Peeks
  <2> QED
    BY <2>1, <2>2 DEF ExecutingApart, Locks!Clash, Locks!Bars, Locks!Shares
<1> QED
  BY <1>4, <1>5

\* management_task takes a command and resolves its message set.
LEMMA TakeInv ==
  ASSUME SchedulerInv, NEW t \in Tasks, NEW S \in SUBSET MsgNums, Take(t, S)
  PROVE  SchedulerInv'
<1> USE DEF SchedulerInv, TypeOK, Take, cmdVars, mboxVars
<1>1. Head(queue) \in Cmds /\ Tail(queue) \in Seq(Cmds)
  BY HeadTail
<1>2. TypeOK'
  BY <1>1
<1>3. HandFull' /\ StartedTask' /\ QuietResync' /\ LetInExecute'
  BY <1>1 DEF HandFull, StartedTask, QuietResync, LetInExecute, Running
<1>4. OnePlace' /\ ExecutingApart'
  BY DequeueInv
<1> QED
  BY <1>2, <1>3, <1>4

\* management_task drops a command whose message set is bad.
LEMMA TakeBadInv ==
  ASSUME SchedulerInv, NEW t \in Tasks, TakeBad(t)
  PROVE  SchedulerInv'
<1> USE DEF SchedulerInv, TypeOK, TakeBad, cmdVars, mboxVars
<1>1. TypeOK'
  BY HeadTail
<1>2. HandFull' /\ StartedTask' /\ QuietResync' /\ LetInExecute'
  BY DEF HandFull, StartedTask, QuietResync, LetInExecute, Running
<1>3. OnePlace' /\ ExecutingApart'
  BY DequeueInv
<1> QED
  BY <1>1, <1>2, <1>3

\* Signalling a command that clashes with none of those that stay executing.
LEMMA AdmitInv ==
  ASSUME SchedulerInv, OneTask, NEW t \in Tasks, NEW S \in SUBSET MsgNums,
         NEW n \in Cmds, taken[t] = n, pc[t] # "off",
         Admit(t, S, Uncompleted),
         \A d \in Uncompleted : ~ Locks!Clash(Claim(n)', Claim(d))
  PROVE  SchedulerInv'
<1> USE DEF SchedulerInv, TypeOK, Admit, mboxVars
<1>1. TypeOK'
  BY DEF Uncompleted
<1>2. HandFull' /\ StartedTask' /\ QuietResync'
  BY DEF OneTask, HandFull, StartedTask, QuietResync
<1>3. LetInExecute'
  BY DEF LetInExecute, Running, Uncompleted
<1>4. n \notin Uncompleted
  BY DEF OnePlace, Uncompleted
<1>5. OnePlace'
  <2>1. \A i \in 1..Len(queue) : queue[i] # n /\ queue[i] \in Cmds
    BY DEF OnePlace
  <2> QED
    BY <2>1, CmdsAssumption DEF OnePlace, Uncompleted, OneTask
<1>6. ExecutingApart'
  <2>1. Uncompleted' \subseteq Uncompleted \cup {n}
    BY DEF Uncompleted
  <2>2. \A d \in Uncompleted : Claim(d)' = Claim(d)
    BY <1>4 DEF Uncompleted, Claim, Mode, Is, MarksSeen, Peeks
  <2>3. \A d \in Uncompleted : ~ Locks!Clash(Claim(n)', Claim(d)')
    BY <2>2
  <2>4. ASSUME NEW c \in Uncompleted', NEW d \in Uncompleted', c # d
        PROVE  ~ Locks!Clash(Claim(c)', Claim(d)')
    <3>1. CASE c = n
      <4>1. d \in Uncompleted
        BY <2>1, <2>4, <3>1
      <4> QED
        BY <4>1, <2>3, <3>1
    <3>2. CASE d = n
      <4>1. c \in Uncompleted
        BY <2>1, <2>4, <3>2
      <4>2. ~ Locks!Clash(Claim(d)', Claim(c)')
        BY <4>1, <2>3, <3>2
      <4> QED
        BY <4>2, ClashSymmetric
    <3>3. CASE c # n /\ d # n
      <4>1. c \in Uncompleted /\ d \in Uncompleted
        BY <2>1, <3>3
      <4>2. ~ Locks!Clash(Claim(c), Claim(d))
        BY <4>1, <2>4 DEF ExecutingApart
      <4> QED
        BY <4>1, <4>2, <2>2
    <3> QED
      BY <3>1, <3>2, <3>3
  <2> QED
    BY <2>4 DEF ExecutingApart, Locks!Clash, Locks!Bars, Locks!Shares
<1> QED
  BY <1>1, <1>2, <1>3, <1>5, <1>6

\* A newcomer's claim does not change when it joins with the set it has.
LEMMA JoinInv ==
  ASSUME SchedulerInv, OneTask, NEW t \in Tasks, NEW anyDeleted \in BOOLEAN,
         Join(t, anyDeleted)
  PROVE  SchedulerInv'
<1>1. PICK n \in Cmds : taken[t] = n
  BY DEF SchedulerInv, HandFull, Join
<1>2. set[n] \in SUBSET MsgNums /\ Uncompleted \in SUBSET Cmds
  BY <1>1 DEF SchedulerInv, TypeOK, Uncompleted
<1>3. Admit(t, set[n], Uncompleted) /\ pc[t] # "off"
  BY <1>1 DEF Join
<1>4. Claim(n)' = Claim(n)
  BY <1>1, <1>3 DEF SchedulerInv, TypeOK, Admit, Claim, Mode, Is, MarksSeen, Peeks
<1>5. \A d \in Uncompleted : ~ Locks!Clash(Claim(n), Claim(d))
  BY <1>1, <1>2, NoConflictNoClash DEF Join, SchedulerInv
<1> QED
  BY <1>1, <1>2, <1>3, <1>4, <1>5, AdmitInv

\* The command that is let in after a resync joins an empty list.
LEMMA EndResyncInv ==
  ASSUME SchedulerInv, OneTask, NEW t \in Tasks, NEW S \in SUBSET MsgNums,
         EndResync(t, S)
  PROVE  SchedulerInv'
<1>1. PICK n \in Cmds : taken[t] = n /\ pc[t] = "resync" /\ executing = {}
  BY DEF SchedulerInv, HandFull, QuietResync, EndResync
<1>2. Uncompleted = {}
  BY <1>1 DEF Uncompleted
<1>3. Admit(t, S, Uncompleted)
  BY <1>1, <1>2 DEF EndResync
<1> QED
  BY <1>1, <1>2, <1>3, AdmitInv

\* Steps of a management task that leave the list shorter or as it was.
LEMMA OtherTaskInv ==
  ASSUME SchedulerInv, OneTask, NEW t \in Tasks,
         StartTask(t) \/ Poll(t) \/ BeginResync(t) \/ ResyncFails(t) \/ TaskReturns(t)
  PROVE  SchedulerInv'
<1> USE DEF SchedulerInv, TypeOK, cmdVars, mboxVars
<1>0. Uncompleted \subseteq executing
  BY DEF Uncompleted
<1>1. /\ UNCHANGED <<queue, req, set, phase, ready, mgmtTask, deleted, noselect>>
      /\ taken' \in {taken, [taken EXCEPT ![t] = NoCmd]}
      /\ executing' \in {executing, Uncompleted}
  BY DEF StartTask, Poll, BeginResync, ResyncFails, TaskReturns, QuietResync, Uncompleted
<1>2. TypeOK'
  BY <1>0, <1>1 DEF StartTask, Poll, BeginResync, ResyncFails, TaskReturns
<1>3. HandFull' /\ StartedTask' /\ QuietResync'
  BY <1>0 DEF StartTask, Poll, BeginResync, ResyncFails, TaskReturns, OneTask,
              HandFull, StartedTask, QuietResync
<1>4. LetInExecute'
  BY <1>1 DEF LetInExecute, Running, Uncompleted
<1>5. OnePlace'
  BY <1>0, <1>1, CmdsAssumption DEF OnePlace
<1>6. ExecutingApart'
  <2>1. Uncompleted' = Uncompleted
    BY <1>1 DEF Uncompleted
  <2>2. \A c \in Uncompleted : Claim(c)' = Claim(c)
    BY <1>1 DEF Claim, Mode, Is, MarksSeen, Peeks
  <2> QED
    BY <2>1, <2>2 DEF ExecutingApart, Locks!Clash, Locks!Bars, Locks!Shares
<1> QED
  BY <1>2, <1>3, <1>4, <1>5, <1>6

\* Mailbox.shutdown empties the queue and cancels the management task.
LEMMA ShutdownInv ==
  ASSUME SchedulerInv, Shutdown
  PROVE  SchedulerInv'
<1> USE DEF SchedulerInv, TypeOK, Shutdown
<1>1. TypeOK'
  OBVIOUS
<1>2. HandFull' /\ StartedTask' /\ QuietResync' /\ LetInExecute'
  BY DEF HandFull, StartedTask, QuietResync, LetInExecute, Running
<1>3. OnePlace'
  BY CmdsAssumption DEF OnePlace
<1>4. ExecutingApart'
  <2>1. Uncompleted' = Uncompleted
    BY DEF Uncompleted
  <2>2. \A c \in Uncompleted : Claim(c)' = Claim(c)
    BY DEF Claim, Mode, Is, MarksSeen, Peeks
  <2> QED
    BY <2>1, <2>2 DEF ExecutingApart, Locks!Clash, Locks!Bars, Locks!Shares
<1> QED
  BY <1>1, <1>2, <1>3, <1>4

\* Every step keeps the invariant.
LEMMA NextInv ==
  ASSUME OneTask, SchedulerInv, [Next]_vars
  PROVE  SchedulerInv'
<1>1. ASSUME NEW c \in Cmds, NEW r \in Requests, Issue(c, r) PROVE SchedulerInv'
  BY <1>1, IssueInv
<1>2. ASSUME NEW c \in Cmds, ClientStep(c) PROVE SchedulerInv'
  BY <1>2, ClientInv
<1>3. ASSUME NEW t \in Tasks, TaskStep(t) PROVE SchedulerInv'
  BY <1>3, TakeInv, TakeBadInv, JoinInv, EndResyncInv, OtherTaskInv DEF TaskStep
<1>4. ASSUME NEW t \in Tasks, Recreate(t) PROVE SchedulerInv'
  \* The only task has been started already.
  BY <1>4 DEF Recreate, OneTask, SchedulerInv, StartedTask, TypeOK
<1>5. CASE Shutdown
  BY <1>5, ShutdownInv
<1>6. CASE UNCHANGED vars
  BY <1>6 DEF vars, SchedulerInv, TypeOK, HandFull, StartedTask, LetInExecute, QuietResync,
              OnePlace, ExecutingApart, Running, Uncompleted, Claim, Mode, Is, MarksSeen, Peeks,
              Locks!Clash, Locks!Bars, Locks!Shares
<1> QED
  BY <1>1, <1>2, <1>3, <1>4, <1>5, <1>6 DEF Next

-----------------------------------------------------------------------------
(* The theorems *)

\* The inductive invariant holds in every state management_task can reach.
THEOREM InvariantHolds == ASSUME OneTask PROVE Spec => []SchedulerInv
<1>1. Init => SchedulerInv
  BY InitInv
<1>2. SchedulerInv /\ [Next]_vars => SchedulerInv'
  BY NextInv
<1> QED
  BY <1>1, <1>2, PTL DEF Spec

\* Every variable of the scheduler keeps its type.
THEOREM TypeCorrect == ASSUME OneTask PROVE Spec => []TypeOK
<1>1. SchedulerInv => TypeOK
  BY DEF SchedulerInv
<1> QED
  BY <1>1, InvariantHolds, PTL

\* Who runs is executing, and those who execute do not clash.
LEMMA InvExcludes == SchedulerInv => Exclusion
BY DEF SchedulerInv, LetInExecute, ExecutingApart, Exclusion, Uncompleted, Running

\* Two commands that would_conflict keeps apart never run at the same time,
\* whatever order they come in, however many there are and whatever fails.
THEOREM ExclusionHolds == ASSUME OneTask PROVE Spec => []Exclusion
BY InvExcludes, InvariantHolds, PTL

\* The management task resyncs only while no command runs.
THEOREM ResyncAloneHolds == ASSUME OneTask PROVE Spec => []ResyncAlone
<1>1. SchedulerInv => ResyncAlone
  BY DEF SchedulerInv, LetInExecute, QuietResync, ResyncAlone
<1> QED
  BY <1>1, InvariantHolds, PTL

-----------------------------------------------------------------------------
(* The refinement *)

Held == [c \in Cmds |-> IF c \in Uncompleted THEN Claim(c) ELSE Unclaimed]

\* What a command holds is a claim of the lock manager.
LEMMA ClaimIsClaim ==
  ASSUME TypeOK, NEW c \in Cmds
  PROVE  Claim(c) \in Locks!Claims /\ Claim(c) # Unclaimed
<1>1. Mode(c) \in Locks!Modes /\ Mode(c) # "none"
  BY DEF Mode, Locks!Modes
<1>2. Claim(c).mode # Unclaimed.mode
  BY <1>1 DEF Claim, Unclaimed
<1> QED
  BY <1>1, <1>2 DEF TypeOK, Claim, Locks!Claims

\* A step that leaves the executing commands and their claims alone is a stutter.
LEMMA HeldUnchanged ==
  ASSUME Uncompleted' = Uncompleted, \A c \in Uncompleted : Claim(c)' = Claim(c)
  PROVE  Held' = Held
BY DEF Held, Unclaimed

\* A command that completes gives its claim back.
LEMMA CompletedReleases ==
  ASSUME SchedulerInv, NEW c \in Cmds,
         phase' = [phase EXCEPT ![c] = "completed"],
         UNCHANGED <<executing, req, set>>
  PROVE  Locks!Release(c) \/ Held' = Held
<1>1. \A d \in Cmds : Claim(d)' = Claim(d)
  BY DEF Claim, Mode, Is, MarksSeen, Peeks
<1>2. CASE c \in Uncompleted
  <2>1. Uncompleted' = Uncompleted \ {c}
    BY <1>2 DEF Uncompleted, SchedulerInv, TypeOK
  <2>2. Held' = [Held EXCEPT ![c] = Unclaimed]
    BY <1>1, <2>1 DEF Held, Unclaimed
  <2>3. Held[c] # Unclaimed
    BY <1>2, ClaimIsClaim DEF Held, SchedulerInv
  <2> QED
    BY <2>2, <2>3 DEF Locks!Release, Held, Locks!NoClaim, Unclaimed
<1>3. CASE c \notin Uncompleted
  <2>1. Uncompleted' = Uncompleted
    BY <1>3 DEF Uncompleted, SchedulerInv, TypeOK
  <2> QED
    BY <1>1, <2>1, HeldUnchanged DEF Uncompleted, SchedulerInv, TypeOK
<1> QED
  BY <1>2, <1>3

\* A command that is signalled is granted its claim, unless it has timed out.
LEMMA AdmittedIsGranted ==
  ASSUME SchedulerInv, SchedulerInv', NEW t \in Tasks, NEW n \in Cmds, taken[t] = n,
         NEW S \in SUBSET MsgNums, Admit(t, S, Uncompleted),
         \A d \in Uncompleted : Claim(d).mode \notin {"alone", "expunge"}
  PROVE  Locks!Grant(n) \/ Held' = Held
<1> USE DEF SchedulerInv, TypeOK
<1>1. n \notin Uncompleted
  BY DEF OnePlace, Uncompleted
<1>2. \A d \in Uncompleted : Claim(d)' = Claim(d) /\ d \in Cmds
  BY <1>1 DEF Admit, Uncompleted, Claim, Mode, Is, MarksSeen, Peeks
<1>3. CASE phase[n] = "completed"
  <2>1. Uncompleted' = Uncompleted
    BY <1>3 DEF Admit, Uncompleted
  <2> QED
    BY <1>2, <2>1, HeldUnchanged
<1>4. CASE phase[n] # "completed"
  <2>1. Uncompleted' = Uncompleted \cup {n}
    BY <1>4 DEF Admit, Uncompleted
  <2>2. PICK claim \in Locks!Claims : claim = Claim(n)'
    <3>1. Mode(n)' \in Locks!Modes
      BY DEF Mode, Locks!Modes
    <3> QED
      BY <3>1 DEF Claim, Locks!Claims
  <2>3. Held' = [Held EXCEPT ![n] = claim]
    BY <1>2, <2>1, <2>2 DEF Held, Unclaimed
  <2>4. Held[n] = Unclaimed
    BY <1>1 DEF Held
  <2>5. \A g \in Cmds : Held[g] # Unclaimed => g \in Uncompleted /\ Held[g] = Claim(g)
    BY DEF Held
  <2>6. \A g \in Cmds : Held[g] # Unclaimed => ~ Locks!Clash(claim, Held[g])
    <3>1. SUFFICES ASSUME NEW g \in Cmds, Held[g] # Unclaimed
                   PROVE  ~ Locks!Clash(claim, Held[g])
      OBVIOUS
    <3>2. g \in Uncompleted /\ Held[g] = Claim(g) /\ Claim(g)' = Claim(g) /\ g # n
      BY <2>5, <3>1, <1>1, <1>2
    <3>3. ~ Locks!Clash(Claim(n)', Claim(g)')
      BY <2>1, <3>2 DEF ExecutingApart, Locks!Clash, Locks!Bars, Locks!Shares
    <3> QED
      BY <2>2, <3>2, <3>3
  <2>7. \A g \in Cmds : Held[g].mode \notin {"alone", "expunge"}
    BY DEF Held, Unclaimed
  <2>8. ~ Locks!Closed
    BY <2>7 DEF Locks!Closed, Held
  <2>9. Locks!NoClaim = Unclaimed
    BY DEF Locks!NoClaim, Unclaimed
  <2>10. Held'[n] = claim
    BY <2>3 DEF Held
  <2>11. \A g \in Cmds : Held[g] # Locks!NoClaim => ~ Locks!Clash(Held'[n], Held[g])
    BY <2>6, <2>9, <2>10
  <2> QED
    BY <2>2, <2>3, <2>4, <2>8, <2>9, <2>10, <2>11 DEF Locks!Grant, Held
<1> QED
  BY <1>3, <1>4

\* Every step of the scheduler is a Grant, a Release or no step of the claims.
LEMMA StepRefines ==
  ASSUME OneTask, SchedulerInv, SchedulerInv', [Next]_vars
  PROVE  Locks!LocksNext \/ Held' = Held
<1> USE DEF SchedulerInv, cmdVars, mboxVars
<1>1. ASSUME NEW c \in Cmds, NEW r \in Requests, Issue(c, r)
      PROVE  Held' = Held
  <2>1. c \notin executing
    BY <1>1 DEF Issue, Referenced
  <2>2. Uncompleted' = Uncompleted
    BY <1>1, <2>1 DEF Issue, Uncompleted, TypeOK
  <2>3. \A d \in Uncompleted : Claim(d)' = Claim(d)
    BY <1>1, <2>1 DEF Issue, Uncompleted, TypeOK, Claim, Mode, Is, MarksSeen, Peeks
  <2> QED
    BY <2>2, <2>3, HeldUnchanged
<1>2. ASSUME NEW c \in Cmds, ClientStep(c)
      PROVE  Locks!LocksNext \/ Held' = Held
  <2>1. CASE Wake(c) \/ MakeNoselect(c)
    <3>1. Uncompleted' = Uncompleted
      BY <2>1 DEF Wake, MakeNoselect, Uncompleted, TypeOK
    <3>2. \A d \in Uncompleted : Claim(d)' = Claim(d)
      BY <2>1 DEF Wake, MakeNoselect, Claim, Mode, Is, MarksSeen, Peeks
    <3> QED
      BY <3>1, <3>2, HeldUnchanged
  <2>2. CASE Refuse(c) \/ Complete(c) \/ Timeout(c)
    BY <2>2, CompletedReleases DEF Refuse, Complete, Timeout, Locks!LocksNext
  <2> QED
    BY <1>2, <2>1, <2>2 DEF ClientStep
<1>3. ASSUME NEW t \in Tasks, NEW S \in SUBSET MsgNums, Take(t, S)
      PROVE  Held' = Held
  <2>1. Head(queue) \notin executing
    BY <1>3, HeadTail DEF Take, OnePlace, TypeOK
  <2>2. Uncompleted' = Uncompleted
    BY <1>3 DEF Take, Uncompleted
  <2>3. \A d \in Uncompleted : Claim(d)' = Claim(d)
    BY <1>3, <2>1 DEF Take, Uncompleted, TypeOK, Claim, Mode, Is, MarksSeen, Peeks
  <2> QED
    BY <2>2, <2>3, HeldUnchanged
<1>4. ASSUME NEW t \in Tasks, NEW anyDeleted \in BOOLEAN, Join(t, anyDeleted)
      PROVE  Locks!LocksNext \/ Held' = Held
  <2>1. PICK n \in Cmds : taken[t] = n
    BY <1>4 DEF HandFull, Join
  <2>2. set[n] \in SUBSET MsgNums /\ Uncompleted \subseteq Cmds
    BY DEF TypeOK, Uncompleted
  <2>3. \A d \in Uncompleted : req[d].kind \notin Conflicting
    BY <1>4 DEF Join, WouldConflict
  <2>4. \A d \in Uncompleted : Claim(d).mode \notin {"alone", "expunge"}
    BY <2>3 DEF Claim, Mode, Conflicting, Solitary
  <2> QED
    BY <1>4, <2>1, <2>2, <2>4, AdmittedIsGranted DEF Join, Locks!LocksNext
<1>5. ASSUME NEW t \in Tasks, NEW S \in SUBSET MsgNums, EndResync(t, S)
      PROVE  Locks!LocksNext \/ Held' = Held
  <2>1. PICK n \in Cmds : taken[t] = n
    BY <1>5 DEF HandFull, EndResync
  <2>2. executing = {} /\ Uncompleted = {}
    BY <1>5 DEF QuietResync, EndResync, Uncompleted
  <2> QED
    BY <1>5, <2>1, <2>2, AdmittedIsGranted DEF EndResync, Locks!LocksNext
<1>6. ASSUME NEW t \in Tasks,
             \/ StartTask(t) \/ Poll(t) \/ BeginResync(t) \/ ResyncFails(t)
             \/ TaskReturns(t) \/ TakeBad(t)
      PROVE  Held' = Held
  <2>1. UNCHANGED cmdVars
    BY <1>6 DEF StartTask, Poll, BeginResync, ResyncFails, TaskReturns, TakeBad
  <2>2. executing' \in {executing, Uncompleted}
    BY <1>6 DEF StartTask, Poll, BeginResync, ResyncFails, TaskReturns, TakeBad,
                QuietResync, Uncompleted
  <2>3. Uncompleted' = Uncompleted
    BY <2>1, <2>2 DEF Uncompleted
  <2>4. \A d \in Uncompleted : Claim(d)' = Claim(d)
    BY <2>1 DEF Claim, Mode, Is, MarksSeen, Peeks
  <2> QED
    BY <2>3, <2>4, HeldUnchanged
<1>7. ASSUME NEW t \in Tasks, Recreate(t) PROVE FALSE
  BY <1>7 DEF Recreate, OneTask, StartedTask, TypeOK
<1>8. CASE Shutdown \/ UNCHANGED vars
  <2>1. Uncompleted' = Uncompleted
    BY <1>8 DEF Shutdown, vars, Uncompleted
  <2>2. \A d \in Uncompleted : Claim(d)' = Claim(d)
    BY <1>8 DEF Shutdown, vars, Claim, Mode, Is, MarksSeen, Peeks
  <2> QED
    BY <2>1, <2>2, HeldUnchanged
<1> QED
  BY <1>1, <1>2, <1>3, <1>4, <1>5, <1>6, <1>7, <1>8 DEF Next, TaskStep

\* The scheduler implements MessageLocks: what executing_tasks holds at any
\* time are claims that were granted, and given back, as a lock manager would.
THEOREM ImplementsLocks == ASSUME OneTask PROVE Spec => ImplementsMessageLocks
<1>1. Init => Locks!LocksInit
  BY DEF Init, Uncompleted, Locks!LocksInit, Locks!NoClaim, Unclaimed
<1>2. SchedulerInv /\ SchedulerInv' /\ [Next]_vars => Locks!LocksNext \/ Held' = Held
  BY StepRefines
<1>3. SchedulerInv /\ SchedulerInv' /\ [Next]_vars => [Locks!LocksNext]_Held
  BY <1>2
<1> QED
  BY <1>1, <1>3, InvariantHolds, PTL DEF Spec, ImplementsMessageLocks, Locks!LocksSpec, Held

-----------------------------------------------------------------------------
(* A mailbox that goes away *)

\* While a DELETE runs nobody else does: it is let in alone, and bars the rest.
LEMMA DeleteRunsAlone ==
  ASSUME SchedulerInv, NEW c \in Cmds, Running(c), Is(c, "DELETE"),
         NEW d \in Cmds, Running(d)
  PROVE  d = c
<1> SUFFICES ASSUME d # c PROVE FALSE
  OBVIOUS
<1>1. ~ Locks!Clash(Claim(c), Claim(d))
  BY InvExcludes DEF Exclusion
<1>2. Claim(c).mode = "alone" /\ Claim(d).mode # "none"
  BY DEF Claim, Mode, Is, Solitary, Conflicting
<1> QED
  BY <1>1, <1>2 DEF Locks!Clash, Locks!Bars

\* A step that takes the mailbox away finds nobody but the DELETE that asks for
\* it, and after that nobody is woken to run.
LEMMA NobodyOnDeletedKept ==
  ASSUME "stop" \notin Faults, SchedulerInv, NobodyOnDeleted, [Next]_vars
  PROVE  NobodyOnDeleted'
<1> USE DEF SchedulerInv, TypeOK, NobodyOnDeleted, Running, Is, cmdVars, mboxVars
<1>1. ASSUME NEW c \in Cmds, NEW r \in Requests, Issue(c, r) PROVE NobodyOnDeleted'
  BY <1>1 DEF Issue
<1>2. ASSUME NEW c \in Cmds, ClientStep(c) PROVE NobodyOnDeleted'
  BY <1>2 DEF ClientStep, Wake, Refuse, Complete, Timeout, MakeNoselect
<1>3. ASSUME NEW t \in Tasks, TaskStep(t) \/ Recreate(t) PROVE NobodyOnDeleted'
  <2>1. UNCHANGED <<phase, req, deleted>>
    BY <1>3 DEF TaskStep, Recreate, StartTask, Poll, TakeBad, BeginResync, ResyncFails,
                TaskReturns, Take, EndResync, Join, Admit
  <2> QED
    BY <2>1
<1>4. CASE Shutdown
  <2>1. PICK c \in Cmds : Running(c) /\ Is(c, "DELETE")
    BY <1>4 DEF Shutdown
  <2>2. \A d \in Cmds : Running(d) => d = c
    BY <2>1, DeleteRunsAlone
  <2> QED
    BY <1>4, <2>1, <2>2 DEF Shutdown
<1>5. CASE UNCHANGED vars
  BY <1>5 DEF vars
<1> QED
  BY <1>1, <1>2, <1>3, <1>4, <1>5 DEF Next

\* Once a DELETE has shut the mailbox down no other command works on it: neither
\* one that ran before nor one that was signalled before.
THEOREM NobodyOnDeletedHolds ==
  ASSUME OneTask, "stop" \notin Faults PROVE Spec => []NobodyOnDeleted
<1>1. Init => NobodyOnDeleted
  BY DEF Init, NobodyOnDeleted
<1>2. SchedulerInv /\ NobodyOnDeleted /\ [Next]_vars => NobodyOnDeleted'
  BY NobodyOnDeletedKept
<1> QED
  BY <1>1, <1>2, InvariantHolds, PTL DEF Spec

-----------------------------------------------------------------------------
(* Any number of management tasks: a command waits in one place *)

\* A hand is full while the task has a command to place, and only then.
Hands ==
  \A t \in Tasks :
    IF pc[t] \in {"conflict", "resync"} THEN taken[t] \in Cmds ELSE taken[t] = NoCmd

\* No command is twice on the queue, in two hands, or on the queue and in a hand.
Places ==
  /\ \A i, j \in 1..Len(queue) : queue[i] = queue[j] => i = j
  /\ \A t \in Tasks : \A i \in 1..Len(queue) : queue[i] # taken[t]
  /\ \A s, t \in Tasks : taken[s] = taken[t] => s = t \/ taken[s] = NoCmd

\* Nothing that waits there has been signalled.
Unsignalled ==
  /\ \A i \in 1..Len(queue) : ~ ready[queue[i]]
  /\ \A t \in Tasks : taken[t] \in Cmds => ~ ready[taken[t]]

WaitingInv == TypeOK /\ Hands /\ Places /\ Unsignalled

\* Signalling a command leaves all others where they are.
LEMMA AdmitWaiting ==
  ASSUME WaitingInv, NEW t \in Tasks, pc[t] \in {"conflict", "resync"},
         NEW S \in SUBSET MsgNums, NEW others \in SUBSET Cmds, Admit(t, S, others)
  PROVE  WaitingInv'
<1> USE DEF WaitingInv, TypeOK, Admit, mboxVars
<1>1. PICK n \in Cmds : taken[t] = n
  BY DEF Hands
<1>2. TypeOK'
  BY <1>1
<1>3. Hands'
  BY DEF Hands
<1>4. \A i \in 1..Len(queue) : queue[i] \in Cmds /\ queue[i] # n /\ queue[i] # NoCmd
  BY <1>1, CmdsAssumption DEF Places
<1>5. Places'
  BY <1>4 DEF Places
<1>6. \A s \in Tasks : taken'[s] \in Cmds => taken'[s] = taken[s] /\ taken[s] # n
  BY <1>1, CmdsAssumption DEF Places
<1>7. Unsignalled'
  BY <1>1, <1>4, <1>6 DEF Unsignalled
<1> QED
  BY <1>2, <1>3, <1>5, <1>7

\* A command moves from the head of the queue to a hand that is empty, or is gone.
LEMMA DequeueWaiting ==
  ASSUME WaitingInv, queue # << >>, queue' = Tail(queue),
         NEW t \in Tasks, taken[t] = NoCmd,
         taken' \in {taken, [taken EXCEPT ![t] = Head(queue)]},
         UNCHANGED ready
  PROVE  Places' /\ Unsignalled'
<1> USE DEF WaitingInv, TypeOK
<1>1. Head(queue) \in Cmds /\ Head(queue) = queue[1] /\ 1 \in 1..Len(queue)
  BY HeadTail
<1>2. \A i \in 1..Len(queue') :
        /\ queue'[i] = queue[i + 1] /\ i + 1 \in 1..Len(queue) /\ i + 1 # 1 /\ i \in Nat
  BY HeadTail
<1>3. \A i \in 1..Len(queue') : queue'[i] # Head(queue)
  BY <1>1, <1>2 DEF Places
<1>4. \A s \in Tasks : taken[s] # Head(queue)
  BY <1>1 DEF Places
<1>5. Places'
  <2>1. \A i, j \in 1..Len(queue') : queue'[i] = queue'[j] => i = j
    BY <1>2 DEF Places
  <2>2. \A s \in Tasks : \A i \in 1..Len(queue') : queue'[i] # taken'[s]
    BY <1>2, <1>3 DEF Places
  <2>3. \A s, u \in Tasks : taken'[s] = taken'[u] => s = u \/ taken'[s] = NoCmd
    BY <1>4 DEF Places
  <2> QED
    BY <2>1, <2>2, <2>3 DEF Places
<1>6. Unsignalled'
  BY <1>1, <1>2 DEF Unsignalled
<1> QED
  BY <1>5, <1>6

\* Every step keeps each waiting command in its one place.
LEMMA WaitingKept ==
  ASSUME WaitingInv, [Next]_vars PROVE WaitingInv'
<1> USE DEF WaitingInv, cmdVars, mboxVars
<1>1. ASSUME NEW c \in Cmds, NEW r \in Requests, Issue(c, r) PROVE WaitingInv'
  <2> USE <1>1 DEF TypeOK, Issue
  <2>1. TypeOK' /\ Hands'
    BY DEF Hands
  <2>2. \A t \in Tasks : taken[t] # c
    BY DEF Referenced
  <2>3. \A i \in 1..Len(queue) : queue[i] # c /\ queue[i] \in Cmds
    BY DEF Referenced, Queued
  <2>4. Len(queue') = Len(queue) + 1 /\ Len(queue) \in Nat
    OBVIOUS
  <2>5. \A i \in 1..Len(queue') : queue'[i] = IF i = Len(queue) + 1 THEN c ELSE queue[i]
    OBVIOUS
  <2>6. Places'
    BY <2>2, <2>3, <2>4, <2>5 DEF Places
  <2>7. Unsignalled'
    BY <2>2, <2>3, <2>4, <2>5 DEF Unsignalled
  <2> QED
    BY <2>1, <2>6, <2>7
<1>2. ASSUME NEW c \in Cmds, ClientStep(c) PROVE WaitingInv'
  <2>1. UNCHANGED <<queue, pc, taken, ready>>
    BY <1>2 DEF ClientStep, Wake, Refuse, Complete, Timeout, MakeNoselect
  <2>2. TypeOK'
    BY <1>2 DEF TypeOK, ClientStep, Wake, Refuse, Complete, Timeout, MakeNoselect
  <2> QED
    BY <2>1, <2>2 DEF Hands, Places, Unsignalled
<1>3. ASSUME NEW t \in Tasks, NEW S \in SUBSET MsgNums, Take(t, S) PROVE WaitingInv'
  <2>1. Head(queue) \in Cmds /\ Tail(queue) \in Seq(Cmds)
    BY <1>3, HeadTail DEF TypeOK, Take
  <2>2. TypeOK' /\ Hands'
    BY <1>3, <2>1 DEF TypeOK, Hands, Take
  <2>3. taken[t] = NoCmd
    BY <1>3 DEF Hands, Take
  <2>4. Places' /\ Unsignalled'
    BY <1>3, <2>3, DequeueWaiting DEF Take
  <2> QED
    BY <2>2, <2>4
<1>4. ASSUME NEW t \in Tasks, TakeBad(t) PROVE WaitingInv'
  <2>1. TypeOK' /\ Hands'
    BY <1>4, HeadTail DEF TypeOK, Hands, TakeBad
  <2>2. taken[t] = NoCmd
    BY <1>4 DEF Hands, TakeBad
  <2>3. Places' /\ Unsignalled'
    BY <1>4, <2>2, DequeueWaiting DEF TakeBad
  <2> QED
    BY <2>1, <2>3
<1>5. ASSUME NEW t \in Tasks, NEW anyDeleted \in BOOLEAN, Join(t, anyDeleted)
      PROVE  WaitingInv'
  <2>1. taken[t] \in Cmds /\ pc[t] = "conflict"
    BY <1>5 DEF Hands, Join
  <2>2. set[taken[t]] \in SUBSET MsgNums /\ Uncompleted \in SUBSET Cmds
    BY <2>1 DEF TypeOK, Uncompleted
  <2> QED
    BY <1>5, <2>1, <2>2, AdmitWaiting DEF Join
<1>6. ASSUME NEW t \in Tasks, NEW S \in SUBSET MsgNums, EndResync(t, S)
      PROVE  WaitingInv'
  <2>1. pc[t] = "resync" /\ executing \in SUBSET Cmds /\ Admit(t, S, executing)
    BY <1>6 DEF EndResync, TypeOK
  <2> QED
    BY <2>1, AdmitWaiting
<1>7. ASSUME NEW t \in Tasks,
             \/ StartTask(t) \/ Poll(t) \/ BeginResync(t) \/ ResyncFails(t)
             \/ TaskReturns(t) \/ Recreate(t)
      PROVE  WaitingInv'
  <2>1. UNCHANGED <<queue, ready>> /\ taken' \in {taken, [taken EXCEPT ![t] = NoCmd]}
    BY <1>7 DEF StartTask, Poll, BeginResync, ResyncFails, TaskReturns, Recreate
  <2>2. TypeOK'
    BY <1>7 DEF TypeOK, StartTask, Poll, BeginResync, ResyncFails, TaskReturns, Recreate,
                Uncompleted
  <2>3. Hands'
    BY <1>7 DEF TypeOK, Hands, StartTask, Poll, BeginResync, ResyncFails, TaskReturns, Recreate
  <2>4. \A i \in 1..Len(queue) : queue[i] \in Cmds
    BY DEF TypeOK
  <2>5. NoCmd \notin Cmds /\ \A u \in Tasks : taken'[u] \in {taken[u], NoCmd}
    BY <2>1, CmdsAssumption DEF TypeOK
  <2>6. Places'
    <3>1. \A i, j \in 1..Len(queue') : queue'[i] = queue'[j] => i = j
      BY <2>1 DEF Places
    <3>2. ASSUME NEW u \in Tasks, NEW i \in 1..Len(queue) PROVE queue'[i] # taken'[u]
      BY <2>1, <2>4, <2>5 DEF Places
    <3>3. ASSUME NEW u \in Tasks, NEW v \in Tasks, taken'[u] = taken'[v]
          PROVE  u = v \/ taken'[u] = NoCmd
      BY <2>5, <3>3 DEF Places
    <3> QED
      BY <2>1, <3>1, <3>2, <3>3 DEF Places
  <2>7. Unsignalled'
    BY <2>1, <2>5 DEF Unsignalled
  <2> QED
    BY <2>2, <2>3, <2>6, <2>7 DEF WaitingInv
<1>8. CASE Shutdown
  <2>1. TypeOK' /\ Hands' /\ Places'
    BY <1>8, CmdsAssumption DEF TypeOK, Hands, Places, Shutdown
  <2>2. \A t \in Tasks : taken'[t] \in Cmds => taken'[t] = taken[t] /\ ~ Queued(taken[t])
    BY <1>8, CmdsAssumption DEF TypeOK, Places, Queued, Shutdown
  <2>3. Unsignalled'
    BY <1>8, <2>2 DEF TypeOK, Unsignalled, Shutdown
  <2> QED
    BY <2>1, <2>3
<1>9. CASE UNCHANGED vars
  BY <1>9 DEF vars, TypeOK, Hands, Places, Unsignalled
<1> QED
  BY <1>1, <1>2, <1>3, <1>4, <1>5, <1>6, <1>7, <1>8, <1>9 DEF Next, TaskStep

\* However many tasks serve the queue, each waiting command has one place.
THEOREM WaitingHolds == Spec => []WaitingInv
<1>1. Init => WaitingInv
  <2> SUFFICES ASSUME Init PROVE WaitingInv
    OBVIOUS
  <2>1. TypeOK
    BY InitInv DEF SchedulerInv
  <2>2. Hands /\ Places /\ Unsignalled
    BY CmdsAssumption DEF Init, Hands, Places, Unsignalled
  <2> QED
    BY <2>1, <2>2 DEF WaitingInv
<1>2. WaitingInv /\ [Next]_vars => WaitingInv'
  BY WaitingKept
<1> QED
  BY <1>1, <1>2, PTL DEF Spec

\* No command is let in twice, nor taken from the queue twice, even by the two
\* management tasks of a mailbox that was created again.
THEOREM LetInOnceHolds == Spec => []LetInOnce
<1>1. WaitingInv => LetInOnce
  <2> SUFFICES ASSUME WaitingInv, NEW c \in Cmds
               PROVE  LET places == {<<"queue", i>> : i \in {j \in 1..Len(queue) : queue[j] = c}}
                                      \cup {<<"taken", t>> : t \in {s \in Tasks : taken[s] = c}}
                      IN /\ \A p, q \in places : p = q
                         /\ ready[c] => places = {}
    BY DEF LetInOnce
  <2> DEFINE spots == {j \in 1..Len(queue) : queue[j] = c}
             hands == {s \in Tasks : taken[s] = c}
  <2>1. \A i, j \in spots : i = j
    BY DEF WaitingInv, Places
  <2>2. \A s, t \in hands : s = t
    BY CmdsAssumption DEF WaitingInv, Places
  <2>3. spots = {} \/ hands = {}
    BY DEF WaitingInv, Places
  <2>4. ready[c] => spots = {} /\ hands = {}
    BY DEF WaitingInv, Unsignalled
  <2> HIDE DEF spots, hands
  <2>5. \A p, q \in {<<"queue", i>> : i \in spots} \cup {<<"taken", t>> : t \in hands} : p = q
    BY <2>1, <2>2, <2>3
  <2>6. ready[c] => {<<"queue", i>> : i \in spots} \cup {<<"taken", t>> : t \in hands} = {}
    BY <2>4
  <2> QED
    BY <2>5, <2>6 DEF spots, hands
<1> QED
  BY <1>1, WaitingHolds, PTL

\* The faults that lose a command: its message set is bad, or the resync before
\* it raises, with or without the end of the task.
LossyFaults == {"badset", "error", "exit"}

\* A step puts a command that waits in another place, or signals it.
LEMMA NothingForgottenKept ==
  ASSUME Faults \cap LossyFaults = {}, WaitingInv, NothingForgotten, [Next]_vars
  PROVE  NothingForgotten'
<1> DEFINE Kept(c) == Queued(c) \/ \E t \in Tasks : taken[t] = c
           Sound(c) == phase[c] = "waiting" /\ ~ ready[c] => Kept(c)
<1> SUFFICES ASSUME ~ deleted', NEW c \in Cmds, phase'[c] = "waiting", ~ ready'[c]
             PROVE  Kept(c)'
  BY DEF NothingForgotten
<1> USE DEF WaitingInv, TypeOK, cmdVars, mboxVars
<1>0. ~ deleted => Sound(c)
  BY DEF NothingForgotten
<1>1. ASSUME NEW d \in Cmds, NEW r \in Requests, Issue(d, r) PROVE Kept(c)'
  <2>1. /\ Len(queue') = Len(queue) + 1 /\ Len(queue) \in Nat /\ queue'[Len(queue) + 1] = d
        /\ \A i \in 1..Len(queue) : queue'[i] = queue[i] /\ i \in 1..Len(queue')
        /\ Len(queue) + 1 \in 1..Len(queue')
    BY <1>1 DEF Issue
  <2>2. CASE c = d
    BY <2>1, <2>2 DEF Queued
  <2>3. CASE c # d
    BY <1>0, <1>1, <2>1, <2>3 DEF Issue, Queued
  <2> QED
    BY <2>2, <2>3
<1>2. ASSUME NEW d \in Cmds, ClientStep(d) PROVE Kept(c)'
  BY <1>0, <1>2 DEF ClientStep, Wake, Refuse, Complete, Timeout, MakeNoselect, Queued
<1>3. ASSUME NEW t \in Tasks, NEW S \in SUBSET MsgNums, Take(t, S) PROVE Kept(c)'
  <2>1. Sound(c) /\ phase[c] = "waiting" /\ ~ ready[c]
    BY <1>0, <1>3 DEF Take
  <2>2. taken[t] = NoCmd /\ NoCmd \notin Cmds
    BY <1>3, CmdsAssumption DEF Hands, Take
  <2>3. CASE \E s \in Tasks : taken[s] = c
    BY <1>3, <2>2, <2>3 DEF Take
  <2>4. CASE Queued(c)
    <3>1. PICK i \in 1..Len(queue) : queue[i] = c
      BY <2>4 DEF Queued
    <3>2. CASE i = 1
      BY <1>3, <3>1, <3>2, HeadTail DEF Take
    <3>3. CASE i # 1
      <4>1. i - 1 \in 1..Len(Tail(queue)) /\ Tail(queue)[i - 1] = queue[i]
        BY <1>3, <3>3 DEF Take
      <4> QED
        BY <1>3, <3>1, <4>1 DEF Take, Queued
    <3> QED
      BY <3>2, <3>3
  <2> QED
    BY <2>1, <2>3, <2>4
<1>4. ASSUME NEW t \in Tasks, NEW S, NEW others, pc[t] \in {"conflict", "resync"},
             Admit(t, S, others)
      PROVE  Kept(c)'
  <2>1. taken[t] \in Cmds /\ c # taken[t] /\ ~ ready[c]
    BY <1>4 DEF Hands, Admit
  <2> QED
    BY <1>0, <1>4, <2>1 DEF Admit, Queued
<1>5. ASSUME NEW t \in Tasks, StartTask(t) \/ Poll(t) \/ BeginResync(t) \/ Recreate(t)
      PROVE  Kept(c)'
  BY <1>0, <1>5 DEF StartTask, Poll, BeginResync, Recreate, Queued
<1>6. ASSUME NEW t \in Tasks, TakeBad(t) \/ ResyncFails(t) \/ TaskReturns(t)
      PROVE  FALSE
  BY <1>6 DEF LossyFaults, TakeBad, ResyncFails, TaskReturns
<1>7. CASE Shutdown
  BY <1>7 DEF Shutdown
<1>8. CASE UNCHANGED vars
  BY <1>0, <1>8 DEF vars, Queued
<1> HIDE DEF Kept
<1>9. ASSUME NEW t \in Tasks, TaskStep(t) PROVE Kept(c)'
  BY <1>3, <1>4, <1>5, <1>6, <1>9 DEF TaskStep, Join, EndResync
<1> QED
  BY <1>1, <1>2, <1>5, <1>7, <1>8, <1>9 DEF Next

\* As long as nothing raises, a command that waits for its event is on the queue
\* or in a hand, so that somebody will set it.
THEOREM NothingForgottenHolds ==
  ASSUME Faults \cap LossyFaults = {} PROVE Spec => []NothingForgotten
<1>1. Init => NothingForgotten
  BY DEF Init, NothingForgotten
<1>2. WaitingInv /\ NothingForgotten /\ [Next]_vars => NothingForgotten'
  BY NothingForgottenKept
<1> QED
  BY <1>1, <1>2, WaitingHolds, PTL DEF Spec

-----------------------------------------------------------------------------
(* The commands at work follow the scheduler *)

\* What is resolved for a command is one of its Resolutions, if Take allows it.
LEMMA TaskActsSchedules ==
  ASSUME NEW t \in Tasks, TaskActs(t)
  PROVE  Next \/ UNCHANGED vars
<1>0. \A c, S : S \in Resolutions(c) => S \in SUBSET MsgNums
  BY DEF Resolutions
<1>1. CASE TaskStarts(t)
  BY <1>1 DEF TaskStarts, Next, TaskStep
<1>2. CASE TaskTakes(t)
  <2>1. TakeBad(t) \/ Take(t, Resolve(Head(queue), index))
    BY <1>2 DEF TaskTakes
  <2>2. Take(t, Resolve(Head(queue), index)) =>
          Resolve(Head(queue), index) \in SUBSET MsgNums
    BY <1>0 DEF Take
  <2> QED
    BY <2>1, <2>2 DEF Next, TaskStep
<1>3. CASE TaskProceeds(t)
  BY <1>3 DEF TaskProceeds, Next, TaskStep
<1>4. CASE TaskResyncs(t)
  <2>1. ResyncFails(t) \/ \E S : EndResync(t, S)
    BY <1>4 DEF TaskResyncs
  <2>2. \A S : EndResync(t, S) => S \in SUBSET MsgNums
    BY <1>0 DEF EndResync
  <2> QED
    BY <2>1, <2>2 DEF Next, TaskStep
<1>5. CASE TaskPolls(t)
  BY <1>5 DEF TaskPolls, Next, TaskStep
<1> QED
  BY <1>1, <1>2, <1>3, <1>4, <1>5 DEF TaskActs

\* Every step of the numbering is a step of the scheduler, or none to it.
LEMMA StepSchedules == NumberingNext => Next \/ UNCHANGED vars
<1>1. Deliver => UNCHANGED vars
  BY DEF Deliver
<1>2. ASSUME NEW c \in Cmds, NEW r \in Requests, Send(c, r) \/ SendMoveExpunge(c, r)
      PROVE  Next
  BY <1>2 DEF Send, SendMoveExpunge, Next
<1>3. ASSUME NEW c \in Cmds, CommandActs(c)
      PROVE  Next \/ UNCHANGED vars
  <2>1. CASE Begin(c)
    BY <2>1 DEF Begin, BeginReading, BeginAppend, BeginExpunge, BeginStore, BeginIdly,
                Next, ClientStep
  <2>2. CASE FetchOne(c) \/ ExpungeOne(c)
    BY <2>2 DEF FetchOne, ExpungeOne
  <2>3. CASE FetchBeyondEnd(c) \/ Finish(c)
    BY <2>3 DEF FetchBeyondEnd, Finish, FinishExpunge, FinishAppend, FinishReading,
                Next, ClientStep
  <2> QED
    BY <1>3, <2>1, <2>2, <2>3 DEF CommandActs
<1>4. ASSUME NEW c \in Cmds, GiveUp(c) PROVE Next
  BY <1>4 DEF GiveUp, Next, ClientStep
<1>5. ASSUME NEW c \in Cmds, ExpungeFails(c) PROVE Next
  BY <1>5 DEF ExpungeFails, Next, ClientStep
<1> QED
  BY <1>1, <1>2, <1>3, <1>4, <1>5, TaskActsSchedules DEF NumberingNext, Uncut

(***************************************************************************)
(* The mailbox at work implements its scheduler: whatever the commands do  *)
(* to the list of messages, they come and go as MailboxScheduler says.     *)
(***************************************************************************)
THEOREM NumberingSchedules == NumberingSpec => Spec
<1>1. NumberingInit => Init
  BY DEF NumberingInit
<1>2. [NumberingNext]_allVars => [Next]_vars
  BY StepSchedules DEF allVars
<1> QED
  BY <1>1, <1>2, PTL DEF NumberingSpec, Spec

-----------------------------------------------------------------------------
(* Who runs beside whom *)

\* Who runs, or is about to, counts among the executing.
LEMMA LetInCounts ==
  ASSUME SchedulerInv, NEW c \in Cmds,
         Running(c) \/ (phase[c] = "waiting" /\ ready[c] /\ ~ deleted)
  PROVE  c \in Uncompleted
BY DEF SchedulerInv, LetInExecute, Uncompleted, Running

\* An APPEND executes alone.
LEMMA AppendAlone ==
  ASSUME SchedulerInv, NEW c \in Uncompleted, NEW d \in Uncompleted, Is(c, "APPEND")
  PROVE  c = d
<1>1. Claim(c).mode = "alone"
  BY DEF Claim, Mode, Is, Solitary, Conflicting
<1> QED
  BY <1>1 DEF SchedulerInv, ExecutingApart, Locks!Clash, Locks!Bars

\* There are never two EXPUNGEs executing.
LEMMA OneExpunge ==
  ASSUME SchedulerInv, NEW c \in Uncompleted, NEW d \in Uncompleted,
         Is(c, "EXPUNGE"), Is(d, "EXPUNGE")
  PROVE  c = d
<1>1. Claim(c).mode = "expunge" /\ Claim(d).mode = "expunge"
  BY DEF Claim, Mode, Is, Solitary, Conflicting
<1> QED
  BY <1>1 DEF SchedulerInv, ExecutingApart, Locks!Clash, Locks!Bars

\* Nothing runs while the management task resyncs or finds nobody executing.
LEMMA NobodyRuns ==
  ASSUME SchedulerInv, NEW t \in Tasks, pc[t] = "resync" \/ Uncompleted = {},
         NEW c \in Cmds
  PROVE  ~ Running(c)
BY DEF SchedulerInv, LetInExecute, QuietResync, Uncompleted, Running

-----------------------------------------------------------------------------
(* Lists and look-up tables *)

Sorted(us) == \A i, j \in DOMAIN us : i < j => us[i] < us[j]

\* A set of the family F that contains none of the others.
Innermost(A, F) == \A B \in F : B \subseteq A => B = A

\* Of the subsets in a family, over a finite set, one is innermost.
LEMMA InnermostSet ==
  ASSUME NEW D, IsFiniteSet(D), NEW F, F # {}, F \subseteq SUBSET D
  PROVE  \E A \in F : Innermost(A, F)
<1>1. IsWellFoundedOn(StrictSubsetOrdering(D), FiniteSubsetsOf(D))
  BY FS_StrictSubsetOrderingWellFounded
<1>2. F \subseteq FiniteSubsetsOf(D)
  BY FS_FiniteSubsetsOfFinite
<1>3. PICK A \in F : \A B \in F : ~ (<<B, A>> \in StrictSubsetOrdering(D))
  BY <1>1, <1>2, WFMin
<1> QED
  BY <1>3 DEF StrictSubsetOrdering, Innermost

\* A finite set of numbers has a least element.
LEMMA Least ==
  ASSUME NEW S, IsFiniteSet(S), S # {}, S \subseteq Int
  PROVE  \E x \in S : \A y \in S : x <= y
<1> DEFINE below(x) == {z \in S : z < x}
           family == {below(x) : x \in S}
<1>1. \E A \in family : Innermost(A, family)
  <2>1. family # {} /\ family \subseteq SUBSET S
    OBVIOUS
  <2> HIDE DEF family
  <2> QED
    BY <2>1, InnermostSet
<1>2. PICK x \in S : \A y \in S : below(y) \subseteq below(x) => below(y) = below(x)
  <2>1. PICK A \in family : Innermost(A, family)
    BY <1>1
  <2>2. PICK x \in S : A = below(x)
    OBVIOUS
  <2>3. \A y \in S : below(y) \in family
    OBVIOUS
  <2> HIDE DEF below, family
  <2> QED
    BY <2>1, <2>2, <2>3 DEF Innermost
<1>3. ASSUME NEW y \in S PROVE x <= y
  <2>1. SUFFICES ASSUME y < x PROVE FALSE
    OBVIOUS
  <2>2. y \in below(x) /\ y \notin below(y)
    BY <2>1
  <2>3. \A z \in S : z < y => z < x
    BY <2>1
  <2>4. below(y) \subseteq below(x)
    BY <2>3
  <2> QED
    BY <1>2, <2>2, <2>4
<1> QED
  BY <1>3

\* ... and a greatest.
LEMMA Greatest ==
  ASSUME NEW S, IsFiniteSet(S), S # {}, S \subseteq Int
  PROVE  \E x \in S : \A y \in S : x >= y
<1> DEFINE above(x) == {z \in S : z > x}
           family == {above(x) : x \in S}
<1>1. \E A \in family : Innermost(A, family)
  <2>1. family # {} /\ family \subseteq SUBSET S
    OBVIOUS
  <2> HIDE DEF family
  <2> QED
    BY <2>1, InnermostSet
<1>2. PICK x \in S : \A y \in S : above(y) \subseteq above(x) => above(y) = above(x)
  <2>1. PICK A \in family : Innermost(A, family)
    BY <1>1
  <2>2. PICK x \in S : A = above(x)
    OBVIOUS
  <2>3. \A y \in S : above(y) \in family
    OBVIOUS
  <2> HIDE DEF above, family
  <2> QED
    BY <2>1, <2>2, <2>3 DEF Innermost
<1>3. ASSUME NEW y \in S PROVE x >= y
  <2>1. SUFFICES ASSUME y > x PROVE FALSE
    OBVIOUS
  <2>2. y \in above(x) /\ y \notin above(y)
    BY <2>1
  <2>3. \A z \in S : z > y => z > x
    BY <2>1
  <2>4. above(y) \subseteq above(x)
    BY <2>3
  <2> QED
    BY <1>2, <2>2, <2>4
<1> QED
  BY <1>3

\* Min and Max of a bounded set of numbers are what their names say.
LEMMA MinAndMax ==
  ASSUME NEW N \in Nat, NEW S \in SUBSET (1..N), S # {}
  PROVE  /\ Min(S) \in S /\ \A y \in S : Min(S) <= y
         /\ Max(S) \in S /\ \A y \in S : Max(S) >= y
<1>1. IsFiniteSet(1..N)
  BY FS_Interval
<1>2. IsFiniteSet(S)
  BY <1>1, FS_Subset
<1>3. S \subseteq Int
  OBVIOUS
<1> QED
  BY <1>2, <1>3, Least, Greatest DEF Min, Max

\* The elements of a list of messages are numbers.
LEMMA ListProperties ==
  ASSUME NEW us \in Seq(1..MaxUid)
  PROVE  /\ Len(us) \in Nat /\ DOMAIN us = 1..Len(us)
         /\ \A i \in 1..Len(us) : us[i] \in 1..MaxUid /\ us[i] \in Nat
<1>1. /\ Len(us) \in Nat /\ DOMAIN us = 1..Len(us)
      /\ us \in [1..Len(us) -> 1..MaxUid]
  BY LenProperties
<1> QED
  BY <1>1, NumberingAssumption

\* In a sorted list a table leads every message to its position.
LEMMA RebuiltLeads ==
  ASSUME NEW us \in Seq(1..MaxUid), Sorted(us)
  PROVE  /\ DOMAIN Rebuilt(us) = Range(us)
         /\ \A u \in Range(us) : Rebuilt(us)[u] \in DOMAIN us /\ us[Rebuilt(us)[u]] = u
<1>1. \A u \in Range(us) : \E i \in DOMAIN us : us[i] = u
  BY DEF Range
<1> QED
  BY <1>1 DEF Rebuilt

\* What is left of a list without the message at one position.
LEMMA RemovedAt ==
  ASSUME NEW us \in Seq(1..MaxUid), NEW p \in 1..Len(us)
  PROVE  /\ RemoveAt(us, p) \in Seq(1..MaxUid)
         /\ Len(RemoveAt(us, p)) = Len(us) - 1
         /\ \A i \in 1..(Len(us) - 1) :
              RemoveAt(us, p)[i] = IF i < p THEN us[i] ELSE us[i + 1]
<1> DEFINE left  == SubSeq(us, 1, p - 1)
           right == SubSeq(us, p + 1, Len(us))
<1>1. Len(us) \in Nat /\ p \in Int /\ \A i \in 1..Len(us) : us[i] \in 1..MaxUid
  BY ListProperties
<1>2. /\ left \in Seq(1..MaxUid) /\ Len(left) = p - 1
      /\ \A i \in 1..(p - 1) : left[i] = us[i]
  <2>1. \A i \in 1..(p - 1) : us[i] \in 1..MaxUid
    BY <1>1
  <2>2. /\ left \in Seq(1..MaxUid) /\ Len(left) = IF 1 <= p - 1 THEN p - 1 - 1 + 1 ELSE 0
        /\ \A i \in 1..(p - 1 - 1 + 1) : left[i] = us[1 + i - 1]
    BY <1>1, <2>1, SubSeqProperties
  <2> QED
    BY <1>1, <2>2
<1>3. /\ right \in Seq(1..MaxUid) /\ Len(right) = Len(us) - p
      /\ \A i \in 1..(Len(us) - p) : right[i] = us[p + i]
  <2>1. \A i \in (p + 1)..Len(us) : us[i] \in 1..MaxUid
    BY <1>1
  <2>2. /\ right \in Seq(1..MaxUid)
        /\ Len(right) = IF p + 1 <= Len(us) THEN Len(us) - (p + 1) + 1 ELSE 0
        /\ \A i \in 1..(Len(us) - (p + 1) + 1) : right[i] = us[(p + 1) + i - 1]
    BY <1>1, <2>1, SubSeqProperties
  <2> QED
    BY <1>1, <2>2
<1>4. RemoveAt(us, p) = left \o right
  BY DEF RemoveAt
<1> HIDE DEF left, right
<1>5. /\ left \o right \in Seq(1..MaxUid)
      /\ Len(left \o right) = Len(left) + Len(right)
      /\ \A i \in 1..(Len(left) + Len(right)) :
           (left \o right)[i] = IF i <= Len(left) THEN left[i] ELSE right[i - Len(left)]
  BY <1>2, <1>3, ConcatProperties
<1> QED
  BY <1>1, <1>2, <1>3, <1>4, <1>5

\* A sorted list stays sorted, and loses that message only.
LEMMA RemovedSorted ==
  ASSUME NEW us \in Seq(1..MaxUid), NEW p \in 1..Len(us), Sorted(us)
  PROVE  /\ Sorted(RemoveAt(us, p))
         /\ Range(RemoveAt(us, p)) = Range(us) \ {us[p]}
<1> DEFINE rest == RemoveAt(us, p)
<1>1. /\ rest \in Seq(1..MaxUid) /\ Len(rest) = Len(us) - 1
      /\ \A i \in 1..(Len(us) - 1) : rest[i] = IF i < p THEN us[i] ELSE us[i + 1]
  BY RemovedAt
<1>2. /\ Len(us) \in Nat /\ DOMAIN us = 1..Len(us) /\ \A i \in 1..Len(us) : us[i] \in Nat
      /\ DOMAIN rest = 1..(Len(us) - 1)
  BY <1>1, ListProperties
<1> HIDE DEF rest
<1>3. Sorted(rest)
  <2> SUFFICES ASSUME NEW i \in DOMAIN rest, NEW j \in DOMAIN rest, i < j
               PROVE  rest[i] < rest[j]
    BY DEF Sorted
  <2> DEFINE at(k) == IF k < p THEN k ELSE k + 1
  <2>1. at(i) \in DOMAIN us /\ at(j) \in DOMAIN us /\ at(i) < at(j)
    BY <1>2
  <2>2. rest[i] = us[at(i)] /\ rest[j] = us[at(j)]
    BY <1>1, <1>2
  <2> HIDE DEF at
  <2> QED
    BY <2>1, <2>2 DEF Sorted
<1>4. ASSUME NEW i \in DOMAIN rest PROVE rest[i] \in Range(us) \ {us[p]}
  <2> DEFINE k == IF i < p THEN i ELSE i + 1
  <2>1. k \in DOMAIN us /\ (k < p \/ p < k) /\ p \in DOMAIN us
    BY <1>2
  <2>2. rest[i] = us[k]
    BY <1>1, <1>2
  <2> HIDE DEF k
  <2>3. us[k] < us[p] \/ us[p] < us[k]
    BY <2>1 DEF Sorted
  <2>4. us[k] # us[p]
    BY <1>2, <2>1, <2>3
  <2> QED
    BY <2>1, <2>2, <2>4 DEF Range
<1>5. ASSUME NEW i \in DOMAIN us, i # p PROVE us[i] \in Range(rest)
  <2>1. CASE i < p
    BY <1>1, <1>2, <2>1 DEF Range
  <2>2. CASE i > p
    <3>1. i - 1 \in DOMAIN rest /\ rest[i - 1] = us[i]
      BY <1>1, <1>2, <2>2
    <3> QED
      BY <3>1 DEF Range
  <2> QED
    BY <1>2, <1>5, <2>1, <2>2
<1>6. Range(rest) = Range(us) \ {us[p]}
  BY <1>4, <1>5 DEF Range
<1> QED
  BY <1>3, <1>6 DEF rest

-----------------------------------------------------------------------------
(* Steps that leave the EXPUNGE at work alone *)

\* No EXPUNGE begins, and one that is at work keeps what it has to do.
WorkersKept ==
  \A d \in Cmds : victims[d] # {} \/ (Running(d) /\ Is(d, "EXPUNGE"))' =>
    /\ Running(d) /\ Is(d, "EXPUNGE")
    /\ Running(d)' /\ req'[d] = req[d] /\ todo'[d] = todo[d]

\* The work of the commands keeps its type.
WorkTyped ==
  /\ todo' \in [Cmds -> SUBSET (1..MaxUid + 1)]
  /\ touched' \in [Cmds -> SUBSET (1..MaxUid)]
  /\ moved' \subseteq SUBSET (1..MaxUid)

\* With the list as it was, and no flag lost.
LEMMA FrameNumbering ==
  ASSUME NumberingInv, TypeOK', WorkersKept, WorkTyped,
         UNCHANGED <<uids, index, nextUid, victims, cut>>,
         flagged \subseteq flagged', flagged' \subseteq flagged \cup Known,
         arrived' \in Nat, nextUid + arrived' <= MaxUid + 1
  PROVE  NumberingInv'
<1> USE DEF NumberingInv
<1>1. NumberingTypeOK'
  <2>1. arrived' \in 0..MaxUid
    BY NumberingAssumption DEF NumberingTypeOK
  <2>2. Known \subseteq 1..MaxUid
    BY ListProperties DEF NumberingTypeOK, Known, Range
  <2> QED
    BY <2>1, <2>2 DEF NumberingTypeOK, WorkTyped
<1>2. UidsAscend' /\ RoomForUids'
  BY DEF UidsAscend, RoomForUids
<1>3. VictimsOfExpunge'
  BY DEF VictimsOfExpunge, WorkersKept, Is, Running
<1>4. PositionsAhead'
  BY DEF PositionsAhead, WorkersKept, Known
<1>5. InStepAtRest'
  BY DEF InStepAtRest, Known, Rebuilt
<1> QED
  BY <1>1, <1>2, <1>3, <1>4, <1>5

\* With new mail at the end of the list, while there are no victims.
LEMMA NewMailInv ==
  ASSUME NumberingInv, TypeOK', WorkersKept, WorkTyped,
         CheckNew, UNCHANGED <<victims, cut>>, \A c \in Cmds : victims[c] = {}
  PROVE  NumberingInv'
<1> USE DEF NumberingInv
<1>1. nextUid \in Nat /\ arrived \in Nat /\ nextUid + arrived <= MaxUid + 1
  BY NumberingAssumption DEF NumberingTypeOK, RoomForUids
<1>2. CASE arrived = 0
  BY <1>1, <1>2, FrameNumbering DEF CheckNew, mailVars
<1>3. CASE arrived # 0
  <2> DEFINE fresh == [i \in 1..arrived |-> nextUid + i - 1]
  <2>1. /\ uids' = uids \o fresh /\ index' = Rebuilt(uids')
        /\ nextUid' = Last(uids') + 1 /\ arrived' = 0 /\ flagged' = flagged
    BY <1>3 DEF CheckNew
  <2>2. /\ uids \in Seq(1..MaxUid) /\ Len(uids) \in Nat /\ DOMAIN uids = 1..Len(uids)
        /\ \A i \in 1..Len(uids) : uids[i] \in Nat
    BY ListProperties DEF NumberingTypeOK
  <2>3. fresh \in Seq(1..MaxUid) /\ Len(fresh) = arrived /\ \A i \in 1..arrived : fresh[i] = nextUid + i - 1
    <3>1. \A i \in 1..arrived : nextUid + i - 1 \in 1..MaxUid
      BY <1>1, NumberingAssumption DEF NumberingTypeOK
    <3> QED
      BY <1>1, <3>1
  <2> HIDE DEF fresh
  <2>4. /\ uids' \in Seq(1..MaxUid) /\ Len(uids') = Len(uids) + arrived
        /\ \A i \in 1..(Len(uids) + arrived) :
             uids'[i] = IF i <= Len(uids) THEN uids[i] ELSE nextUid + (i - Len(uids)) - 1
    <3>1. /\ uids \o fresh \in Seq(1..MaxUid) /\ Len(uids \o fresh) = Len(uids) + Len(fresh)
          /\ \A i \in 1..(Len(uids) + Len(fresh)) : (uids \o fresh)[i] =
               IF i <= Len(uids) THEN uids[i] ELSE fresh[i - Len(uids)]
      BY <2>2, <2>3, ConcatProperties
    <3>2. \A i \in 1..(Len(uids) + arrived) : i <= Len(uids) \/ i - Len(uids) \in 1..arrived
      BY <1>1, <2>2
    <3> QED
      BY <2>1, <2>3, <3>1, <3>2
  <2>5. DOMAIN uids' = 1..(Len(uids) + arrived) /\ nextUid' = nextUid + arrived
    <3>1. DOMAIN uids' = 1..(Len(uids) + arrived)
      BY <2>4, LenProperties
    <3>2. Last(uids') = uids'[Len(uids) + arrived]
      BY <2>4 DEF Last
    <3>3. uids'[Len(uids) + arrived] = nextUid + (Len(uids) + arrived - Len(uids)) - 1
      BY <1>1, <1>3, <2>2, <2>4
    <3> QED
      BY <1>1, <2>1, <2>2, <3>1, <3>2, <3>3
  <2>6. UidsAscend'
    <3>1. \A i \in DOMAIN uids' : uids'[i] < nextUid'
      BY <1>1, <2>1, <2>2, <2>4, <2>5 DEF UidsAscend
    <3>2. \A i, j \in DOMAIN uids' : i < j => uids'[i] < uids'[j]
      BY <1>1, <2>2, <2>4, <2>5 DEF UidsAscend
    <3> QED
      BY <3>1, <3>2 DEF UidsAscend
  <2>7. Sorted(uids')
    BY <2>6 DEF UidsAscend, Sorted
  <2>8. /\ DOMAIN index' = Range(uids')
        /\ \A u \in Range(uids') : index'[u] \in DOMAIN uids' /\ uids'[index'[u]] = u
    BY <2>1, <2>4, <2>7, RebuiltLeads
  <2>9. Range(uids') \subseteq 1..MaxUid /\ Range(uids) \subseteq Range(uids')
    <3>1. \A i \in DOMAIN uids : i \in DOMAIN uids' /\ uids'[i] = uids[i]
      BY <1>1, <2>2, <2>4, <2>5
    <3>2. \A i \in DOMAIN uids' : uids'[i] \in 1..MaxUid
      BY <2>4, <2>5, ElementOfSeq
    <3> QED
      BY <3>1, <3>2 DEF Range
  <2>10. Len(uids') < nextUid' /\ nextUid' + arrived' <= MaxUid + 1 /\ nextUid' \in Nat \ {0}
    BY <1>1, <2>1, <2>2, <2>4, <2>5, NumberingAssumption DEF RoomForUids, NumberingTypeOK
  <2>11. RoomForUids'
    <3>1. \A u \in DOMAIN index' : index'[u] \in 1..MaxUid
      BY <1>1, <2>1, <2>2, <2>4, <2>5, <2>8, <2>10, NumberingAssumption
    <3> QED
      BY <2>10, <3>1 DEF RoomForUids
  <2>12. NumberingTypeOK'
    BY <2>1, <2>4, <2>8, <2>9, <2>10, NumberingAssumption DEF NumberingTypeOK, WorkTyped
  <2>13. VictimsOfExpunge'
    BY <2>1 DEF VictimsOfExpunge, WorkersKept, Is, Running
  <2>14. PositionsAhead'
    BY DEF PositionsAhead
  <2>15. InStepAtRest'
    BY <2>1, <2>9 DEF InStepAtRest, Known, Rebuilt
  <2> QED
    BY <2>6, <2>11, <2>12, <2>13, <2>14, <2>15
<1> QED
  BY <1>2, <1>3

-----------------------------------------------------------------------------
(* Each step *)

\* Steps that change neither the commands nor their work keep the workers.
LEMMA StillKept ==
  ASSUME NumberingInv, UNCHANGED <<req, phase, todo, touched, moved>>
  PROVE  WorkersKept /\ WorkTyped
BY DEF NumberingInv, NumberingTypeOK, VictimsOfExpunge, WorkersKept, WorkTyped, Is, Running

\* A message arrives in the folder.
LEMMA DeliverNumbering ==
  ASSUME NumberingInv, TypeOK', Deliver, UNCHANGED cut
  PROVE  NumberingInv'
<1>1. WorkersKept /\ WorkTyped
  BY StillKept DEF Deliver, vars, workVars
<1>2. arrived' \in Nat /\ nextUid + arrived' <= MaxUid + 1
  BY NumberingAssumption DEF Deliver, NumberingInv, NumberingTypeOK
<1> QED
  BY <1>1, <1>2, FrameNumbering DEF Deliver, workVars

\* A client sends a command, or a MOVE the EXPUNGE that follows it.
LEMMA SendNumbering ==
  ASSUME NumberingInv, TypeOK', NEW c \in Cmds, NEW r \in Requests,
         Send(c, r) \/ SendMoveExpunge(c, r), UNCHANGED cut
  PROVE  NumberingInv'
<1>1. Issue(c, r) /\ UNCHANGED <<mailVars, todo, victims>>
  BY DEF Send, SendMoveExpunge
<1>2. WorkersKept
  BY <1>1 DEF Issue, NumberingInv, NumberingTypeOK, TypeOK, VictimsOfExpunge, WorkersKept,
              Is, Running
<1>3. WorkTyped
  BY DEF Send, SendMoveExpunge, WorkTyped, NumberingInv, NumberingTypeOK
<1> QED
  BY <1>1, <1>2, <1>3, FrameNumbering DEF mailVars, NumberingInv, NumberingTypeOK, RoomForUids

\* A command gives up waiting.
LEMMA GiveUpNumbering ==
  ASSUME NumberingInv, TypeOK', NEW c \in Cmds, GiveUp(c), UNCHANGED cut
  PROVE  NumberingInv'
<1>1. WorkersKept
  BY DEF GiveUp, Timeout, NumberingInv, NumberingTypeOK, TypeOK, VictimsOfExpunge,
         WorkersKept, Is, Running, workVars
<1>2. WorkTyped
  BY DEF GiveUp, workVars, WorkTyped, NumberingInv, NumberingTypeOK
<1> QED
  BY <1>1, <1>2, FrameNumbering
     DEF GiveUp, mailVars, workVars, NumberingInv, NumberingTypeOK, RoomForUids

\* The management task does something: the list grows only if nothing runs.
LEMMA TaskNumbering ==
  ASSUME NumberingInv, SchedulerInv, TypeOK', NEW t \in Tasks, TaskActs(t),
         UNCHANGED cut
  PROVE  NumberingInv'
<1>1. UNCHANGED <<req, phase>>
  BY DEF TaskActs, TaskStarts, TaskTakes, TaskProceeds, TaskResyncs, TaskPolls, StartTask,
         TakeBad, Take, Join, Admit, BeginResync, EndResync, ResyncFails, Poll, cmdVars
<1>2. UNCHANGED workVars
  BY DEF TaskActs, TaskStarts, TaskTakes, TaskProceeds, TaskResyncs, TaskPolls
<1>3. WorkersKept /\ WorkTyped /\ UNCHANGED victims
  BY <1>1, <1>2, StillKept DEF workVars
<1>4. CASE UNCHANGED mailVars
  BY <1>3, <1>4, FrameNumbering DEF mailVars, NumberingInv, NumberingTypeOK, RoomForUids
<1>5. CASE CheckNew /\ (pc[t] = "resync" \/ Uncompleted = {})
  <2>1. \A c \in Cmds : victims[c] = {}
    BY <1>5, NobodyRuns DEF NumberingInv, VictimsOfExpunge
  <2> QED
    BY <1>3, <1>5, <2>1, NewMailInv
<1> QED
  BY <1>4, <1>5
     DEF TaskActs, TaskStarts, TaskTakes, TaskProceeds, TaskResyncs, TaskPolls

(* The commands at work *)

\* A command begins or goes on with something other than expunging.
LEMMA OthersKept ==
  ASSUME NumberingInv, NEW c \in Cmds, ~ Is(c, "EXPUNGE"),
         UNCHANGED req,
         \/ UNCHANGED phase
         \/ phase' = [phase EXCEPT ![c] = "running"]
         \/ phase' = [phase EXCEPT ![c] = "completed"],
         \A d \in Cmds \ {c} : todo'[d] = todo[d]
  PROVE  WorkersKept
BY DEF NumberingInv, NumberingTypeOK, TypeOK, VictimsOfExpunge, WorkersKept, Is, Running

\* The numbers of a message set are numbers of messages, or just beyond them.
LEMMA NumbersTyped ==
  ASSUME NumberingInv, NEW c \in Cmds
  PROVE  /\ set[c] \subseteq 1..MaxUid + 1
         /\ CopySet(c) \subseteq 1..MaxUid + 1
<1>1. /\ MaxUid \in Nat /\ Len(uids) \in Nat /\ nextUid \in Nat
      /\ Len(uids) + 1 <= MaxUid + 1
  BY NumberingAssumption, ListProperties DEF NumberingInv, NumberingTypeOK, RoomForUids
<1>2. req[c].msgs \subseteq 1..MaxUid /\ set[c] \subseteq 1..MaxUid
  BY NumberingAssumption DEF NumberingInv, NumberingTypeOK, TypeOK
<1>3. \A u \in DOMAIN index : index[u] \in 1..MaxUid
  BY DEF NumberingInv, RoomForUids
<1>4. 1..MaxUid \subseteq 1..MaxUid + 1 /\ Len(uids) + 1 \in 1..MaxUid + 1
  BY <1>1
<1>5. Resolve(c, index) \subseteq 1..MaxUid
  BY <1>2, <1>3 DEF Resolve, AskedUids
<1> QED
  BY <1>2, <1>4, <1>5 DEF CopySet

\* A command begins.
LEMMA BeginNumbering ==
  ASSUME NumberingInv, TypeOK', NEW c \in Cmds,
         BeginReading(c) \/ BeginAppend(c) \/ BeginStore(c) \/ BeginIdly(c), UNCHANGED cut
  PROVE  NumberingInv'
<1>1. ~ Is(c, "EXPUNGE") /\ UNCHANGED <<req, uids, index, nextUid, victims>>
  BY DEF BeginReading, BeginAppend, BeginStore, BeginIdly, Wake, Is, mailVars, workVars
<1>2. WorkersKept
  BY <1>1, OthersKept
     DEF BeginReading, BeginAppend, BeginStore, BeginIdly, Wake, workVars,
         NumberingInv, NumberingTypeOK
<1>3. arrived' \in Nat /\ nextUid + arrived' <= MaxUid + 1
  BY NumberingAssumption
     DEF BeginReading, BeginAppend, BeginStore, BeginIdly, mailVars,
         NumberingInv, NumberingTypeOK, RoomForUids
<1>4. CASE BeginReading(c)
  <2>1. WorkTyped
    BY <1>4, NumbersTyped DEF BeginReading, WorkTyped, NumberingInv, NumberingTypeOK
  <2> QED
    BY <1>1, <1>2, <1>3, <1>4, <2>1, FrameNumbering DEF BeginReading, mailVars
<1>5. CASE BeginStore(c)
  <2>1. \A n \in set[c] : uids[n] \in Known /\ uids[n] \in 1..MaxUid
    BY <1>5, ListProperties
       DEF BeginStore, Known, Range, NumberingInv, NumberingTypeOK
  <2>2. WorkTyped
    BY <1>5, <2>1 DEF BeginStore, WorkTyped, NumberingInv, NumberingTypeOK
  <2>3. flagged \subseteq flagged' /\ flagged' \subseteq flagged \cup Known
    BY <1>5, <2>1 DEF BeginStore
  <2> QED
    BY <1>1, <1>2, <1>3, <2>2, <2>3, FrameNumbering
<1>6. CASE BeginAppend(c) \/ BeginIdly(c)
  <2>1. WorkTyped /\ UNCHANGED flagged
    BY <1>6 DEF BeginAppend, BeginIdly, WorkTyped, mailVars, workVars,
                NumberingInv, NumberingTypeOK
  <2> QED
    BY <1>1, <1>2, <1>3, <2>1, FrameNumbering
<1> QED
  BY <1>4, <1>5, <1>6

\* A command that reads goes on, fails, or is through.
LEMMA ReadingNumbering ==
  ASSUME NumberingInv, TypeOK', NEW c \in Cmds,
         FetchOne(c) \/ FetchBeyondEnd(c) \/ FinishReading(c), UNCHANGED cut
  PROVE  NumberingInv'
<1>1. UNCHANGED <<mailVars, victims, req>>
  BY DEF FetchOne, FetchBeyondEnd, FinishReading, Complete, vars
<1>2. UNCHANGED <<uids, index, nextUid, flagged, arrived>>
  BY <1>1 DEF mailVars
<1>3. WorkersKept /\ WorkTyped
  <2>1. CASE FetchOne(c)
    <3>1. ~ Is(c, "EXPUNGE")
      BY <2>1 DEF FetchOne, Is
    <3>2. WorkersKept
      BY <2>1, <3>1, OthersKept DEF FetchOne, vars, NumberingInv, NumberingTypeOK
    <3>3. Min(todo[c]) \in 1..MaxUid + 1
      BY <2>1, NumberingAssumption, MinAndMax, MaxUid + 1 \in Nat
         DEF FetchOne, NumberingInv, NumberingTypeOK
    <3>4. uids[Min(todo[c])] \in 1..MaxUid
      BY <2>1, <3>3, NumberingAssumption, ListProperties
         DEF FetchOne, NumberingInv, NumberingTypeOK
    <3>5. todo' \in [Cmds -> SUBSET (1..MaxUid + 1)]
      BY <2>1 DEF FetchOne, NumberingInv, NumberingTypeOK
    <3>6. touched' \in [Cmds -> SUBSET (1..MaxUid)] /\ moved' = moved
      BY <2>1, <3>4 DEF FetchOne, NumberingInv, NumberingTypeOK
    <3>7. WorkTyped
      BY <3>5, <3>6 DEF WorkTyped, NumberingInv, NumberingTypeOK
    <3> QED
      BY <3>2, <3>7
  <2>2. CASE FetchBeyondEnd(c)
    <3>1. ~ Is(c, "EXPUNGE")
      BY <2>2 DEF FetchBeyondEnd, Is
    <3>2. WorkersKept
      BY <2>2, <3>1, OthersKept DEF FetchBeyondEnd, Complete, NumberingInv, NumberingTypeOK
    <3>3. WorkTyped
      <4>1. todo' \in [Cmds -> SUBSET (1..MaxUid + 1)] /\ UNCHANGED <<touched, moved>>
        BY <2>2 DEF FetchBeyondEnd, NumberingInv, NumberingTypeOK
      <4> QED
        BY <4>1 DEF WorkTyped, NumberingInv, NumberingTypeOK
    <3> QED
      BY <3>2, <3>3
  <2>3. CASE FinishReading(c)
    <3>1. WorkersKept
      BY <2>3 DEF FinishReading, Complete, NumberingInv, NumberingTypeOK, TypeOK,
                  VictimsOfExpunge, WorkersKept, Is, Running
    <3>2. touched[c] \in SUBSET (1..MaxUid) /\ UNCHANGED <<todo, touched>>
      BY <2>3 DEF FinishReading, NumberingInv, NumberingTypeOK
    <3>3. moved' \subseteq moved \cup {touched[c]}
      BY <2>3 DEF FinishReading
    <3>4. WorkTyped
      BY <3>2, <3>3 DEF WorkTyped, NumberingInv, NumberingTypeOK
    <3> QED
      BY <3>1, <3>4
  <2> QED
    BY <2>1, <2>2, <2>3
<1> QED
  BY <1>1, <1>2, <1>3, FrameNumbering DEF NumberingInv, NumberingTypeOK, RoomForUids

\* An APPEND finds its message: it executes alone, so that there are no victims.
LEMMA AppendNumbering ==
  ASSUME NumberingInv, SchedulerInv, TypeOK', NEW c \in Cmds, FinishAppend(c),
         UNCHANGED cut
  PROVE  NumberingInv'
<1>1. ~ Is(c, "EXPUNGE") /\ UNCHANGED workVars
  BY DEF FinishAppend, Is
<1>2. WorkersKept
  BY <1>1, OthersKept
     DEF FinishAppend, Complete, workVars, NumberingInv, NumberingTypeOK
<1>3. WorkTyped
  BY <1>1 DEF workVars, WorkTyped, NumberingInv, NumberingTypeOK
<1>4. ASSUME NEW d \in Cmds, victims[d] # {} PROVE FALSE
  <2>1. Running(d) /\ Is(d, "EXPUNGE")
    BY <1>4 DEF NumberingInv, VictimsOfExpunge
  <2>2. c \in Uncompleted /\ d \in Uncompleted
    BY <2>1, LetInCounts DEF FinishAppend, Complete, Running
  <2> QED
    BY <1>1, <2>1, <2>2, AppendAlone DEF FinishAppend
<1> QED
  BY <1>1, <1>2, <1>3, <1>4, NewMailInv DEF FinishAppend, workVars

\* EXPUNGE looks up what it will remove.  No other EXPUNGE is at work, so that
\* the tables are in step and the positions it finds are right.
LEMMA BeginExpungeNumbering ==
  ASSUME NumberingInv, SchedulerInv, TypeOK', NEW c \in Cmds, BeginExpunge(c),
         UNCHANGED cut
  PROVE  NumberingInv'
<1> USE DEF NumberingInv
<1>1. /\ phase[c] = "waiting" /\ ready[c] /\ ~ deleted /\ Is(c, "EXPUNGE")
      /\ phase' = [phase EXCEPT ![c] = "running"] /\ UNCHANGED <<req, set>>
      /\ todo' = [todo EXCEPT ![c] = ToDelete(c)]
      /\ victims' = [victims EXCEPT ![c] = ToDelete(c)]
      /\ UNCHANGED <<uids, index, nextUid, flagged, arrived, touched, moved>>
  BY DEF BeginExpunge, Wake, mailVars
<1>2. ASSUME NEW d \in Cmds, Running(d), Is(d, "EXPUNGE") PROVE FALSE
  <2>1. c \in Uncompleted /\ d \in Uncompleted
    BY <1>1, <1>2, LetInCounts
  <2>2. c = d
    BY <1>1, <1>2, <2>1, OneExpunge
  <2> QED
    BY <1>1, <1>2, <2>2 DEF Running
<1>3. \A d \in Cmds : victims[d] = {}
  BY <1>2 DEF VictimsOfExpunge
<1>4. cut \/ (index = Rebuilt(uids) /\ flagged \subseteq Known)
  BY <1>3 DEF InStepAtRest
<1>4a. cut \/ \A u \in DOMAIN index : index[u] \in DOMAIN uids /\ uids[index[u]] = u
  <2>1. Sorted(uids) /\ uids \in Seq(1..MaxUid)
    BY DEF UidsAscend, Sorted, NumberingTypeOK
  <2> QED
    BY <1>4, <2>1, RebuiltLeads
<1>5. /\ ToDelete(c) \subseteq 1..MaxUid
      /\ cut \/ ToDelete(c) \subseteq flagged
         \/ (req[c].by = "move" /\ ToDelete(c) \subseteq req[c].msgs)
  <2>1. req[c].msgs \subseteq 1..MaxUid /\ flagged \subseteq 1..MaxUid
    BY NumberingAssumption DEF NumberingTypeOK, TypeOK
  <2>2. \A u \in DOMAIN index : index[u] <= Len(uids) => uids[index[u]] \in 1..MaxUid
    <3>1. \A u \in DOMAIN index : index[u] \in 1..MaxUid
      BY DEF RoomForUids
    <3>2. \A i \in 1..Len(uids) : uids[i] \in 1..MaxUid
      BY ListProperties DEF NumberingTypeOK
    <3> QED
      BY <3>1, <3>2
  <2>3. CASE ToDelete(c) = {}
    BY <2>3
  <2>4. CASE /\ \A u \in LookedUp(c) : u \in DOMAIN index /\ ~ (index[u] > Len(uids))
             /\ req[c].by = "move" /\ ToDelete(c) = {uids[index[u]] : u \in LookedUp(c)}
    <3>1. \A u \in LookedUp(c) : u \in req[c].msgs /\ u \in DOMAIN index /\ index[u] <= Len(uids)
      <4>1. Len(uids) \in Nat /\ \A u \in DOMAIN index : index[u] \in Int
        BY ListProperties DEF NumberingTypeOK, RoomForUids
      <4> QED
        BY <2>4, <4>1 DEF LookedUp
    <3>2. cut \/ \A u \in LookedUp(c) : uids[index[u]] = u
      BY <1>4a, <3>1
    <3> QED
      BY <2>2, <2>4, <3>1, <3>2
  <2>5. CASE req[c].by # "move" /\ ToDelete(c) \subseteq LookedUp(c)
    BY <2>1, <2>5 DEF LookedUp
  <2> QED
    BY <2>3, <2>4, <2>5 DEF ToDelete
<1>6. NumberingTypeOK'
  <2>1. ToDelete(c) \subseteq 1..MaxUid + 1
    BY <1>5, NumberingAssumption
  <2>2. todo' \in [Cmds -> SUBSET (1..MaxUid + 1)] /\ victims' \in [Cmds -> SUBSET (1..MaxUid)]
    BY <1>1, <1>5, <2>1 DEF NumberingTypeOK
  <2> QED
    BY <1>1, <2>2 DEF NumberingTypeOK
<1>7. UidsAscend' /\ RoomForUids'
  BY <1>1 DEF UidsAscend, RoomForUids
<1>8. /\ todo'[c] = ToDelete(c) /\ victims'[c] = ToDelete(c) /\ phase'[c] = "running"
      /\ \A d \in Cmds \ {c} : victims'[d] = {} /\ phase'[d] = phase[d]
  BY <1>1, <1>3 DEF NumberingTypeOK, TypeOK
<1>9. VictimsOfExpunge'
  BY <1>1, <1>2, <1>5, <1>8 DEF VictimsOfExpunge, Is, Running
<1>10. PositionsAhead'
  BY <1>1, <1>4, <1>4a, <1>8 DEF PositionsAhead, Known
<1>11. InStepAtRest'
  BY <1>1, <1>4 DEF InStepAtRest, Known, Rebuilt
<1> QED
  BY <1>6, <1>7, <1>9, <1>10, <1>11

\* EXPUNGE removes a message.  The ones it has yet to remove have lower UIDs,
\* so that they keep their positions.
LEMMA ExpungeOneNumbering ==
  ASSUME NumberingInv, SchedulerInv, NEW c \in Cmds, ExpungeOne(c), UNCHANGED cut
  PROVE  NumberingInv'
<1> USE DEF NumberingInv
<1> DEFINE u == Max(todo[c])
           p == index[u]
<1>1. /\ Running(c) /\ Is(c, "EXPUNGE") /\ todo[c] # {}
      /\ todo' = [todo EXCEPT ![c] = @ \ {u}]
      /\ IF u \in DOMAIN index THEN p <= Len(uids) /\ uids' = RemoveAt(uids, p) ELSE uids' = uids
      /\ UNCHANGED <<vars, index, nextUid, flagged, arrived, victims, touched, moved>>
  BY DEF ExpungeOne, Running
<1>2. u \in todo[c] /\ \A v \in todo[c] : u >= v
  BY <1>1, NumberingAssumption, MinAndMax, MaxUid + 1 \in Nat DEF NumberingTypeOK
<1> HIDE DEF u, p
<1>3. u \in victims[c] /\ todo[c] \subseteq victims[c] /\ victims[c] # {}
  BY <1>1, <1>2 DEF VictimsOfExpunge
<1>4. ASSUME NEW d \in Cmds, victims[d] # {} PROVE d = c
  <2>1. Running(d) /\ Is(d, "EXPUNGE")
    BY <1>4 DEF VictimsOfExpunge
  <2>2. c \in Uncompleted /\ d \in Uncompleted
    BY <1>1, <2>1, LetInCounts
  <2> QED
    BY <1>1, <2>1, <2>2, OneExpunge
<1>5. \/ cut
      \/ /\ flagged \subseteq Known \cup (victims[c] \ todo[c])
         /\ \A v \in todo[c] \cap DOMAIN index : index[v] \in DOMAIN uids /\ uids[index[v]] = v
  BY <1>3 DEF PositionsAhead
<1>6. /\ todo'[c] = todo[c] \ {u}
      /\ \A d \in Cmds \ {c} : todo'[d] = todo[d]
      /\ todo' \in [Cmds -> SUBSET (1..MaxUid + 1)]
  BY <1>1 DEF NumberingTypeOK
<1>7. UNCHANGED <<phase, req>> /\ TypeOK'
  BY <1>1 DEF vars, NumberingTypeOK, TypeOK
<1>8. VictimsOfExpunge'
  BY <1>1, <1>6, <1>7 DEF VictimsOfExpunge, Is, Running
<1>9. InStepAtRest'
  BY <1>1, <1>3 DEF InStepAtRest
<1>10. uids \in Seq(1..MaxUid) /\ Sorted(uids) /\ Len(uids) \in Nat /\ DOMAIN uids = 1..Len(uids)
  BY ListProperties DEF NumberingTypeOK, UidsAscend, Sorted
<1>11. CASE u \in DOMAIN index
  <2>1. p \in 1..Len(uids) /\ (cut \/ uids[p] = u) /\ uids' = RemoveAt(uids, p)
    <3>1. p \in 1..MaxUid
      BY <1>11 DEF p, RoomForUids
    <3> QED
      BY <1>1, <1>2, <1>5, <1>10, <1>11, <3>1 DEF p
  <2>2. /\ uids' \in Seq(1..MaxUid) /\ Len(uids') = Len(uids) - 1
        /\ \A i \in 1..(Len(uids) - 1) : uids'[i] = IF i < p THEN uids[i] ELSE uids[i + 1]
    BY <1>10, <2>1, RemovedAt
  <2>3. Sorted(uids') /\ Range(uids') = Range(uids) \ {uids[p]}
    BY <1>10, <2>1, RemovedSorted
  <2>4. DOMAIN uids' = 1..(Len(uids) - 1)
    BY <2>2, ListProperties
  <2>5. NumberingTypeOK'
    BY <1>1, <1>6, <1>7, <2>2 DEF NumberingTypeOK
  <2>6. UidsAscend'
    <3>1. \A i \in DOMAIN uids' : uids'[i] \in Range(uids)
      BY <2>3 DEF Range
    <3>2. \A v \in Range(uids) : v < nextUid
      BY DEF Range, UidsAscend
    <3> QED
      BY <1>1, <2>3, <3>1, <3>2 DEF UidsAscend, Sorted
  <2>7. RoomForUids'
    <3>1. nextUid \in Nat
      BY NumberingAssumption DEF NumberingTypeOK
    <3> QED
      BY <1>1, <1>10, <2>2, <3>1 DEF RoomForUids
  <2>8. ASSUME ~ cut PROVE PositionsAhead'
    <3>1. flagged \subseteq Known' \cup (victims[c] \ todo'[c])
      BY <1>3, <1>5, <1>6, <2>1, <2>3, <2>8 DEF Known
    <3>2. ASSUME NEW v \in todo'[c] \cap DOMAIN index
          PROVE  index[v] \in DOMAIN uids' /\ uids'[index[v]] = v
      <4>1. v \in todo[c] /\ v # u /\ u >= v /\ v \in Int /\ u \in Int
        BY <1>2, <1>6 DEF NumberingTypeOK
      <4>2. index[v] \in 1..Len(uids) /\ uids[index[v]] = v
        BY <1>5, <1>10, <2>8, <4>1
      <4>3. index[v] < p
        BY <1>10, <2>1, <2>8, <4>1, <4>2 DEF Sorted
      <4> QED
        BY <1>10, <2>1, <2>2, <2>4, <4>2, <4>3
    <3> QED
      BY <1>1, <1>4, <3>1, <3>2 DEF PositionsAhead
  <2>9. PositionsAhead'
    BY <2>8 DEF PositionsAhead
  <2> QED
    BY <1>8, <1>9, <2>5, <2>6, <2>7, <2>9
<1>12. CASE u \notin DOMAIN index
  <2>1. uids' = uids
    BY <1>1, <1>12
  <2>2. NumberingTypeOK'
    BY <1>1, <1>6, <1>7, <2>1 DEF NumberingTypeOK
  <2>3. UidsAscend' /\ RoomForUids'
    BY <1>1, <2>1 DEF UidsAscend, RoomForUids
  <2>4. PositionsAhead'
    BY <1>1, <1>4, <1>5, <1>6, <2>1 DEF PositionsAhead, Known
  <2> QED
    BY <1>8, <1>9, <2>2, <2>3, <2>4
<1> QED
  BY <1>11, <1>12

\* EXPUNGE is through: the table is rebuilt, and the flags of its victims go.
LEMMA FinishExpungeNumbering ==
  ASSUME NumberingInv, SchedulerInv, TypeOK', NEW c \in Cmds, FinishExpunge(c),
         UNCHANGED cut
  PROVE  NumberingInv'
<1> USE DEF NumberingInv
<1>1. /\ Running(c) /\ todo[c] = {} /\ victims[c] # {}
      /\ phase' = [phase EXCEPT ![c] = "completed"] /\ UNCHANGED req
      /\ index' = Rebuilt(uids)
      /\ flagged' = flagged \ victims[c]
      /\ victims' = [victims EXCEPT ![c] = {}]
      /\ UNCHANGED <<uids, nextUid, arrived, todo, touched, moved>>
  BY DEF FinishExpunge, Complete, Running
<1>2. Is(c, "EXPUNGE") /\ (cut \/ flagged \subseteq Known \cup victims[c])
  BY <1>1 DEF VictimsOfExpunge, PositionsAhead
<1>3. ASSUME NEW d \in Cmds, Running(d), Is(d, "EXPUNGE") PROVE d = c
  <2>1. c \in Uncompleted /\ d \in Uncompleted
    BY <1>1, <1>3, LetInCounts
  <2> QED
    BY <1>2, <1>3, <2>1, OneExpunge
<1>4. \A d \in Cmds : victims'[d] = {}
  BY <1>1, <1>3 DEF VictimsOfExpunge, NumberingTypeOK
<1>5. uids \in Seq(1..MaxUid) /\ Sorted(uids) /\ Len(uids) \in Nat /\ DOMAIN uids = 1..Len(uids)
  BY ListProperties DEF NumberingTypeOK, UidsAscend, Sorted
<1>6. /\ DOMAIN index' = Range(uids)
      /\ \A u \in Range(uids) : index'[u] \in DOMAIN uids
  BY <1>1, <1>5, RebuiltLeads
<1>7. NumberingTypeOK'
  <2>1. Range(uids) \subseteq 1..MaxUid
    BY <1>5, ListProperties DEF Range
  <2> QED
    BY <1>1, <1>6, <2>1 DEF NumberingTypeOK
<1>8. UidsAscend'
  BY <1>1 DEF UidsAscend
<1>9. RoomForUids'
  <2>1. \A u \in DOMAIN index' : index'[u] \in 1..MaxUid
    BY <1>5, <1>6, NumberingAssumption DEF RoomForUids, NumberingTypeOK
  <2> QED
    BY <1>1, <2>1 DEF RoomForUids
<1>10. VictimsOfExpunge'
  <2>1. \A d \in Cmds : ~ (Running(d) /\ Is(d, "EXPUNGE"))'
    BY <1>1, <1>3 DEF Is, Running, NumberingTypeOK, TypeOK
  <2> QED
    BY <1>4, <2>1 DEF VictimsOfExpunge
<1>11. PositionsAhead'
  BY <1>4 DEF PositionsAhead
<1>12. InStepAtRest'
  BY <1>1, <1>2 DEF InStepAtRest, Known, Rebuilt
<1> QED
  BY <1>7, <1>8, <1>9, <1>10, <1>11, <1>12

\* EXPUNGE fails: a message may be off the list, and nothing is rebuilt.
LEMMA ExpungeFailsNumbering ==
  ASSUME NumberingInv, SchedulerInv, TypeOK', NEW c \in Cmds, ExpungeFails(c)
  PROVE  NumberingInv'
<1> USE DEF NumberingInv
<1> DEFINE u == Max(todo[c])
           p == index[u]
<1>1. /\ Running(c) /\ Is(c, "EXPUNGE")
      /\ phase' = [phase EXCEPT ![c] = "completed"] /\ UNCHANGED req
      /\ u \in DOMAIN index
      /\ uids' = IF p <= Len(uids) THEN RemoveAt(uids, p) ELSE uids
      /\ todo' = [todo EXCEPT ![c] = {}]
      /\ victims' = [victims EXCEPT ![c] = {}]
      /\ cut'
      /\ UNCHANGED <<index, nextUid, flagged, arrived, touched, moved>>
  BY DEF ExpungeFails, Complete, Running
<1> HIDE DEF u, p
<1>2. p \in 1..MaxUid
  BY <1>1 DEF p, RoomForUids
<1>3. uids \in Seq(1..MaxUid) /\ Sorted(uids) /\ Len(uids) \in Nat /\ DOMAIN uids = 1..Len(uids)
  BY ListProperties DEF NumberingTypeOK, UidsAscend, Sorted
<1>4. /\ uids' \in Seq(1..MaxUid) /\ Len(uids') \in Nat /\ Len(uids') <= Len(uids)
      /\ Sorted(uids') /\ Range(uids') \subseteq Range(uids)
  <2>1. CASE p <= Len(uids)
    <3>1. p \in 1..Len(uids) /\ uids' = RemoveAt(uids, p)
      BY <1>1, <1>2, <1>3, <2>1
    <3> QED
      BY <1>3, <3>1, RemovedAt, RemovedSorted
  <2>2. CASE ~ (p <= Len(uids))
    BY <1>1, <1>3, <2>2
  <2> QED
    BY <2>1, <2>2
<1>5. NumberingTypeOK'
  <2>1. todo' \in [Cmds -> SUBSET (1..MaxUid + 1)] /\ victims' \in [Cmds -> SUBSET (1..MaxUid)]
    BY <1>1 DEF NumberingTypeOK
  <2>2. cut' \in BOOLEAN
    BY DEF ExpungeFails
  <2> QED
    BY <1>1, <1>4, <2>1, <2>2 DEF NumberingTypeOK
<1>6. UidsAscend'
  <2>1. \A i \in DOMAIN uids' : uids'[i] \in Range(uids)
    BY <1>4 DEF Range
  <2>2. \A v \in Range(uids) : v < nextUid
    BY DEF Range, UidsAscend
  <2> QED
    BY <1>1, <1>4, <2>1, <2>2 DEF UidsAscend, Sorted
<1>7. RoomForUids'
  <2>1. nextUid \in Nat
    BY NumberingAssumption DEF NumberingTypeOK
  <2> QED
    BY <1>1, <1>3, <1>4, <2>1 DEF RoomForUids
<1>8. VictimsOfExpunge'
  <2>1. /\ victims'[c] = {} /\ phase'[c] = "completed"
        /\ \A d \in Cmds \ {c} : victims'[d] = victims[d] /\ todo'[d] = todo[d] /\ phase'[d] = phase[d]
    BY <1>1 DEF NumberingTypeOK, TypeOK
  <2> QED
    BY <1>1, <2>1 DEF VictimsOfExpunge, Is, Running
<1>9. PositionsAhead' /\ InStepAtRest'
  BY <1>1 DEF PositionsAhead, InStepAtRest
<1> QED
  BY <1>5, <1>6, <1>7, <1>8, <1>9

-----------------------------------------------------------------------------
(* The invariant, and what follows from it *)

\* A command acts.
LEMMA CommandNumbering ==
  ASSUME NumberingInv, SchedulerInv, TypeOK', NEW c \in Cmds, CommandActs(c),
         UNCHANGED cut
  PROVE  NumberingInv'
BY BeginNumbering, BeginExpungeNumbering, ReadingNumbering, ExpungeOneNumbering,
   FinishExpungeNumbering, AppendNumbering DEF CommandActs, Begin, Finish

\* Every step keeps the invariant.
LEMMA NumberingStep ==
  ASSUME NumberingInv, SchedulerInv, TypeOK', [NumberingNext]_allVars
  PROVE  NumberingInv'
<1>1. CASE UNCHANGED allVars
  <2>1. WorkersKept /\ WorkTyped
    BY <1>1, StillKept DEF allVars, vars, workVars
  <2> QED
    BY <1>1, <2>1, FrameNumbering
       DEF allVars, mailVars, workVars, NumberingInv, NumberingTypeOK, RoomForUids
<1>2. CASE Uncut /\ UNCHANGED cut
  BY <1>2, DeliverNumbering, SendNumbering, GiveUpNumbering, TaskNumbering, CommandNumbering
     DEF Uncut
<1>3. CASE \E c \in Cmds : ExpungeFails(c)
  BY <1>3, ExpungeFailsNumbering
<1> QED
  BY <1>1, <1>2, <1>3 DEF NumberingNext

\* The mailbox starts with the messages 1 to InitialMail, and nobody at work.
LEMMA NumberingStarts ==
  ASSUME NumberingInit, TypeOK
  PROVE  NumberingInv
<1> USE DEF NumberingInit
<1>1. /\ InitialMail \in Nat /\ MaxUid \in Nat /\ InitialMail <= MaxUid
      /\ \A i \in 1..InitialMail : uids[i] = i /\ i \in 1..MaxUid
  BY NumberingAssumption
<1>2. uids \in Seq(1..MaxUid) /\ Len(uids) = InitialMail /\ DOMAIN uids = 1..InitialMail
  BY <1>1
<1>3. UidsAscend /\ Sorted(uids)
  BY <1>1, <1>2 DEF UidsAscend, Sorted
<1>4. /\ DOMAIN index = Range(uids)
      /\ \A u \in Range(uids) : index[u] \in DOMAIN uids
  BY <1>2, <1>3, RebuiltLeads
<1>5. Range(uids) \subseteq 1..MaxUid
  BY <1>1, <1>2 DEF Range
<1>6. NumberingTypeOK
  <2>1. /\ uids \in Seq(1..MaxUid) /\ DOMAIN index \subseteq 1..MaxUid
        /\ nextUid \in 1..MaxUid + 1 /\ flagged \subseteq 1..MaxUid /\ arrived \in 0..MaxUid
    BY <1>1, <1>2, <1>4, <1>5
  <2>2. /\ todo \in [Cmds -> SUBSET (1..MaxUid + 1)] /\ victims \in [Cmds -> SUBSET (1..MaxUid)]
        /\ touched \in [Cmds -> SUBSET (1..MaxUid)] /\ moved \subseteq SUBSET (1..MaxUid)
    OBVIOUS
  <2>3. cut \in BOOLEAN
    OBVIOUS
  <2> QED
    BY <2>1, <2>2, <2>3 DEF NumberingTypeOK
<1>7. RoomForUids
  BY <1>1, <1>2, <1>4 DEF RoomForUids
<1>8. VictimsOfExpunge
  BY DEF Init, VictimsOfExpunge, Running
<1>9. PositionsAhead /\ InStepAtRest
  BY DEF PositionsAhead, InStepAtRest
<1> QED
  BY <1>3, <1>6, <1>7, <1>8, <1>9 DEF NumberingInv

(***************************************************************************)
(* With one management task, UIDs ascend and are never given out twice,    *)
(* and, until an EXPUNGE fails half-way, the victims of an EXPUNGE are     *)
(* messages it was to remove, the positions it has yet to use are right,   *)
(* and at rest all tables are in step.                                     *)
(***************************************************************************)
THEOREM NumberingInvHolds ==
  ASSUME OneTask
  PROVE  NumberingSpec => []NumberingInv
<1>1. NumberingSpec => []SchedulerInv
  BY NumberingSchedules, InvariantHolds, PTL
<1>2. NumberingInit /\ SchedulerInv => NumberingInv
  BY NumberingStarts DEF SchedulerInv
<1>3. NumberingInv /\ SchedulerInv /\ SchedulerInv' /\ [NumberingNext]_allVars => NumberingInv'
  BY NumberingStep DEF SchedulerInv
<1> QED
  BY <1>1, <1>2, <1>3, PTL DEF NumberingSpec

(***************************************************************************)
(* UIDs ascend along the list and stay below next_uid: no UID is ever used *)
(* for a second message.                                                   *)
(***************************************************************************)
COROLLARY UidsAscendHolds ==
  ASSUME OneTask
  PROVE  NumberingSpec => []UidsAscend
<1>1. NumberingInv => UidsAscend
  BY DEF NumberingInv
<1> QED
  BY <1>1, NumberingInvHolds, PTL

(***************************************************************************)
(* The look-up tables and the Deleted sequence are out of step with the    *)
(* list of messages only while an EXPUNGE is at work, or after one that    *)
(* has failed half-way.                                                    *)
(***************************************************************************)
COROLLARY TablesInStepHolds ==
  ASSUME OneTask
  PROVE  NumberingSpec => []TablesInStep
<1>1. NumberingInv => TablesInStep
  BY DEF NumberingInv, VictimsOfExpunge, InStepAtRest, TablesInStep
<1> QED
  BY <1>1, NumberingInvHolds, PTL

\* Only new mail and EXPUNGE change the list; for mail nobody but an APPEND runs.
LEMMA ListChanges ==
  ASSUME NumberingInv, SchedulerInv, [NumberingNext]_allVars, uids' # uids
  PROVE  \/ /\ \A c \in Cmds : Running(c) => Is(c, "APPEND")
            /\ uids' = uids \o [i \in 1..arrived |-> nextUid + i - 1]
         \/ \E c \in Cmds : ExpungeOne(c) \/ ExpungeFails(c)
<1>1. (\E t \in Tasks : TaskActs(t)) \/ (\E c \in Cmds : CommandActs(c) \/ ExpungeFails(c))
  BY DEF NumberingNext, Uncut, allVars, mailVars, Deliver, Send, SendMoveExpunge, GiveUp
<1>2. CASE \E t \in Tasks : TaskActs(t)
  <2>1. PICK t \in Tasks : TaskActs(t)
    BY <1>2
  <2>2. CheckNew /\ (pc[t] = "resync" \/ Uncompleted = {})
    BY <2>1 DEF TaskActs, TaskStarts, TaskTakes, TaskProceeds, TaskResyncs, TaskPolls, mailVars
  <2> QED
    BY <2>2, NobodyRuns DEF CheckNew, mailVars
<1>3. CASE \E c \in Cmds : CommandActs(c) \/ ExpungeFails(c)
  <2>1. PICK c \in Cmds : CommandActs(c) \/ ExpungeFails(c)
    BY <1>3
  <2>2. CASE FinishAppend(c)
    <3>1. ASSUME NEW d \in Cmds, Running(d) PROVE Is(d, "APPEND")
      <4>1. c \in Uncompleted /\ d \in Uncompleted
        BY <2>2, <3>1, LetInCounts DEF FinishAppend, Complete, Running
      <4> QED
        BY <2>2, <4>1, AppendAlone DEF FinishAppend
    <3> QED
      BY <2>2, <3>1 DEF FinishAppend, CheckNew, mailVars
  <2> QED
    BY <2>1, <2>2
       DEF CommandActs, Begin, BeginReading, BeginAppend, BeginExpunge, BeginStore, BeginIdly,
           FetchOne, FetchBeyondEnd, Finish, FinishExpunge, FinishReading, mailVars
<1> QED
  BY <1>1, <1>2, <1>3

\* An EXPUNGE takes one message away: at the position the table has.
LEMMA ExpungeShortens ==
  ASSUME NumberingInv, NEW c \in Cmds, ExpungeOne(c) \/ ExpungeFails(c), uids' # uids
  PROVE  \E u \in todo[c] :
           /\ Running(c) /\ Is(c, "EXPUNGE") /\ u \in DOMAIN index
           /\ index[u] \in 1..Len(uids) /\ uids' = RemoveAt(uids, index[u])
           /\ Len(uids') < Len(uids)
<1> USE DEF NumberingInv
<1> DEFINE u == Max(todo[c])
<1>1. /\ Running(c) /\ Is(c, "EXPUNGE") /\ todo[c] # {}
      /\ u \in DOMAIN index /\ index[u] <= Len(uids) /\ uids' = RemoveAt(uids, index[u])
  BY DEF ExpungeOne, ExpungeFails, Complete, Running
<1>2. u \in todo[c]
  BY <1>1, NumberingAssumption, MinAndMax, MaxUid + 1 \in Nat DEF NumberingTypeOK
<1> HIDE DEF u
<1>3. uids \in Seq(1..MaxUid) /\ Len(uids) \in Nat
  BY ListProperties DEF NumberingTypeOK
<1>4. index[u] \in 1..Len(uids)
  BY <1>1, <1>3 DEF RoomForUids
<1>5. Len(uids') = Len(uids) - 1
  BY <1>1, <1>3, <1>4, RemovedAt
<1> QED
  BY <1>1, <1>2, <1>3, <1>4, <1>5

\* Unless another has failed half-way before, it is one of its victims.
LEMMA ExpungeTakes ==
  ASSUME NumberingInv, ~ cut, NEW c \in Cmds, ExpungeOne(c) \/ ExpungeFails(c), uids' # uids
  PROVE  Running(c) /\ Known \ Known' \subseteq victims[c]
<1> USE DEF NumberingInv
<1>1. PICK u \in todo[c] :
        /\ Running(c) /\ Is(c, "EXPUNGE") /\ u \in DOMAIN index
        /\ index[u] \in 1..Len(uids) /\ uids' = RemoveAt(uids, index[u])
  BY ExpungeShortens
<1>2. u \in victims[c] /\ victims[c] # {}
  BY <1>1 DEF VictimsOfExpunge
<1>3. uids[index[u]] = u
  BY <1>1, <1>2 DEF PositionsAhead
<1>4. uids \in Seq(1..MaxUid) /\ Sorted(uids)
  BY DEF NumberingTypeOK, UidsAscend, Sorted
<1>5. Known' = Known \ {u}
  BY <1>1, <1>3, <1>4, RemovedSorted DEF Known
<1> QED
  BY <1>1, <1>2, <1>5

\* New mail makes the list longer and takes nothing away.
LEMMA MailAdds ==
  ASSUME NumberingInv, uids' = uids \o [i \in 1..arrived |-> nextUid + i - 1]
  PROVE  Known \subseteq Known'
<1> DEFINE fresh == [i \in 1..arrived |-> nextUid + i - 1]
<1>1. uids \in Seq(Nat) /\ fresh \in Seq(Nat) /\ Len(uids) \in Nat /\ Len(fresh) \in Nat
  <2>1. arrived \in Nat /\ nextUid \in Nat \ {0} /\ uids \in Seq(1..MaxUid) /\ Len(uids) \in Nat
    BY NumberingAssumption, ListProperties DEF NumberingInv, NumberingTypeOK
  <2>2. \A i \in 1..arrived : nextUid + i - 1 \in Nat
    BY <2>1
  <2>3. \A i \in 1..Len(uids) : uids[i] \in Nat
    BY <2>1, ListProperties
  <2> QED
    BY <2>1, <2>2, <2>3
<1> HIDE DEF fresh
<1>2. /\ DOMAIN uids = 1..Len(uids) /\ DOMAIN (uids \o fresh) = 1..(Len(uids) + Len(fresh))
      /\ \A i \in 1..Len(uids) : (uids \o fresh)[i] = uids[i]
  BY <1>1, ConcatProperties, LenProperties
<1>3. uids' = uids \o fresh
  BY DEF fresh
<1>4. ASSUME NEW i \in DOMAIN uids PROVE i \in DOMAIN uids' /\ uids'[i] = uids[i]
  <2>1. i \in 1..Len(uids) /\ i \in 1..(Len(uids) + Len(fresh))
    BY <1>1, <1>2
  <2>2. i \in DOMAIN (uids \o fresh) /\ (uids \o fresh)[i] = uids[i]
    BY <1>2, <2>1
  <2> QED
    BY <1>3, <2>2
<1> QED
  BY <1>4 DEF Known, Range

(***************************************************************************)
(* Message numbers come into being only while nothing but an APPEND runs.  *)
(***************************************************************************)
THEOREM GrowsAloneHolds ==
  ASSUME OneTask
  PROVE  NumberingSpec => GrowsAlone
<1>1. NumberingSpec => []SchedulerInv
  BY NumberingSchedules, InvariantHolds, PTL
<1>2. NumberingInv /\ SchedulerInv /\ [NumberingNext]_allVars =>
        [Len(uids') > Len(uids) => \A c \in Cmds : Running(c) => Is(c, "APPEND")]_allVars
  <2>1. SUFFICES ASSUME NumberingInv, SchedulerInv, [NumberingNext]_allVars,
                        Len(uids') > Len(uids)
                 PROVE  \A c \in Cmds : Running(c) => Is(c, "APPEND")
    OBVIOUS
  <2>2. Len(uids) \in Nat
    BY ListProperties DEF NumberingInv, NumberingTypeOK
  <2>3. uids' # uids /\ ~ (Len(uids') < Len(uids))
    BY <2>1, <2>2
  <2> QED
    BY <2>1, <2>3, ListChanges, ExpungeShortens
<1> QED
  BY <1>1, <1>2, NumberingInvHolds, PTL DEF NumberingSpec, GrowsAlone

(***************************************************************************)
(* EXPUNGE removes by positions, and removes what it set out to remove;    *)
(* up to and including the first that fails half-way.                      *)
(***************************************************************************)
THEOREM RemovesItsVictimsHolds ==
  ASSUME OneTask
  PROVE  NumberingSpec => RemovesItsVictims
<1> DEFINE Rightly(u) ==
      \E c \in Cmds : Running(c) /\ u \in victims[c]
                      /\ (u \in flagged \/ (req[c].by = "move" /\ u \in req[c].msgs))
<1>1. NumberingSpec => []SchedulerInv
  BY NumberingSchedules, InvariantHolds, PTL
<1>2. NumberingInv /\ SchedulerInv /\ [NumberingNext]_allVars =>
        [cut \/ \A u \in Known \ Known' : Rightly(u)]_allVars
  <2>1. SUFFICES ASSUME NumberingInv, SchedulerInv, [NumberingNext]_allVars, ~ cut,
                        NEW u \in Known \ Known'
                 PROVE  Rightly(u)
    OBVIOUS
  <2>2. uids' # uids
    BY <2>1 DEF Known
  <2>3. PICK c \in Cmds : ExpungeOne(c) \/ ExpungeFails(c)
    BY <2>1, <2>2, ListChanges, MailAdds
  <2>4. Running(c) /\ u \in victims[c]
    BY <2>1, <2>2, <2>3, ExpungeTakes
  <2>5. u \in flagged \/ (req[c].by = "move" /\ u \in req[c].msgs)
    BY <2>1, <2>4 DEF NumberingInv, VictimsOfExpunge
  <2> QED
    BY <2>4, <2>5
<1> QED
  BY <1>1, <1>2, NumberingInvHolds, PTL DEF NumberingSpec, RemovesItsVictims
=============================================================================
