----------------------- MODULE MailboxRegistryProofs -----------------------
(***************************************************************************)
(* For any tasks, names, mailboxes, bounds and faults: one mailbox for a   *)
(* name, what is served is registered, and whoever waits for a mailbox     *)
(* waits for a task.                                                       *)
(***************************************************************************)
EXTENDS MailboxRegistry, FiniteSetTheorems, TLAPS

(* Types *)

Proc == [op : Offered \cup {None}, name : Names, to : Names, pc : Points,
         then : Points \cup {None}, held : Objects \cup {None}, obj : Objects \cup {None}]

AtGet      == {"get", "waiting", "woken"} \cup Activating
Handed     == {"queued", "selected", "exists", "made", "delete", "recount", "stopping",
               "forgetting", "unregister", "link", "rename", "switch", "unlink", "move", "moved",
               "done"}
Goals      == {"queued", "exists", "made", "delete", "link", "rename", "moved", "done"}
Ousting    == {"delete", "stopping", "forgetting", "unregister"}

\* Every variable but proc.
StateTyped ==
  /\ folders \subseteq Names
  /\ row \in [Names -> Row]
  /\ \A n \in Names : row[n] = NoRow \/ row[n].id # 0
  /\ \A n, m \in Names : row[n].id = row[m].id => n = m \/ row[n] = NoRow
  /\ uid_vv \in 0..MaxVv /\ calls \in 0..MaxCalls
  /\ active \in [Names -> Objects \cup {None}]
  /\ activating \in [Names -> {"no", "yes", "failed"}]
  /\ mbox \in [Objects -> Object]
  /\ disputed \subseteq Names

\* A task has what it goes on with, and goes on where its command has it.
TaskTyped(p) ==
  /\ p.pc \in AtGet => p.then \in Goals
  /\ p.pc \in Handed \cup Activating => p.obj # None
  /\ p.pc = "queued" \/ (p.pc \in AtGet /\ p.then = "queued") => p.op \in {"SELECT", "DELETE", "RENAME"}
  /\ p.pc \in AtGet /\ p.then = "queued" => p.held = None

-----------------------------------------------------------------------------
(* The invariant behind the properties *)

Alive    == {o \in Objects : mbox[o].alive}
Served   == {o \in Objects : mbox[o].served}
Deleted  == {o \in Objects : mbox[o].deleted}
Noselect == {o \in Objects : mbox[o].noselect}

\* An object has the name it was asked for by, unless RENAME came between.
Named(o, n) == mbox[o].name = n \/ {mbox[o].name, n} \subseteq disputed

\* What a task relies on across its awaits: what it refers to is there,
Refers(p) ==
  /\ p.obj \in Alive \cup {None} /\ p.held \in Alive \cup {None}
  /\ p.pc \in Handed => Named(p.obj, p.name)
  /\ p.pc = "queued" /\ p.held # None => Named(p.held, p.name)
\* what it waits for is on its way,
Waits(p) == p.pc = "waiting" => activating[p.name] # "no"
\* what it makes is nobody else's,
Makes(p) ==
  p.pc \in Activating =>
    /\ activating[p.name] = "yes"
    /\ active[p.name] = None \/ p.name \in disputed
    /\ mbox[p.obj].name = p.name /\ p.obj \notin Deleted
    /\ p.held # p.obj /\ \A n \in Names : active[n] # p.obj
    /\ p.pc # "registering" => p.obj \notin Served
    /\ \A o \in Served : mbox[o].name = p.name =>
         p.name \in disputed \/ (o = p.obj /\ p.pc = "registering")
\* what it meddles with is disputed,
Meddles(p) ==
  /\ p.pc \in {"rename", "switch", "unlink", "move"} \/ (p.pc \in AtGet /\ p.then = "rename")
       => p.name \in disputed /\ p.to \in disputed
  /\ p.pc = "pop" => p.name \in disputed
\* what CREATE revives is registered,
Revives(p) ==
  p.pc = "exists" /\ p.obj \in Noselect => active[p.name] = p.obj \/ p.name \in disputed
\* and what DELETE deletes is what it was let in by, and what is registered.
Deletes(p) ==
  /\ p.pc \in AtGet /\ p.then = "delete" =>
       \/ p.name \in disputed
       \/ /\ p.pc = "get" /\ p.held # None /\ active[p.name] = p.held
          /\ p.held \in Served /\ p.held \notin Deleted
  /\ p.pc \in Ousting =>
       \/ p.name \in disputed
       \/ /\ p.held = p.obj /\ active[p.name] = p.obj
          /\ p.pc = "delete" => p.obj \in Served /\ p.obj \notin Deleted
          /\ p.pc # "delete" => p.obj \notin Noselect
          /\ p.pc \in {"forgetting", "unregister"} => p.obj \notin Served

TaskInv(p) == Refers(p) /\ Waits(p) /\ Makes(p) /\ Meddles(p) /\ Revives(p) /\ Deletes(p)

\* Two tasks: one of them waits for the mailbox the other is at work on, and
\* nobody has an object that is being made.
PairInv(p, q) ==
  /\ p.held = q.held /\ p.held # None => p.pc = "queued" \/ q.pc = "queued"
  /\ p.pc \in Activating /\ q.pc \in Activating => p.name # q.name
  /\ p.pc \in Activating => p.obj # q.obj /\ p.obj # q.held

\* Whatever is registered has the name, and what is served is registered, or
\* about to be.
ObjectsInv ==
  /\ \A n \in Names : active[n] # None => active[n] \in Alive /\ mbox[active[n]].name = n
  /\ \A o \in Served :
       /\ o \in Alive
       /\ active[mbox[o].name] = o \/ mbox[o].name \in disputed \/ activating[mbox[o].name] = "yes"
       /\ o \in Noselect => mbox[o].name \in Kept \/ mbox[o].name \in disputed

\* Where there is an event, there is a task that will set it.
EventsInv ==
  \A n \in Names : activating[n] = "yes" => \E t \in Tasks : proc[t].pc \in Activating /\ proc[t].name = n

RegistryInv ==
  /\ StateTyped
  /\ proc \in [Tasks -> Proc]
  /\ \A t \in Tasks : TaskTyped(proc[t]) /\ TaskInv(proc[t])
  /\ \A t, u \in Tasks : t # u => PairInv(proc[t], proc[u])
  /\ ObjectsInv /\ EventsInv

-----------------------------------------------------------------------------
(* Ids that are free *)

\* With values for all names, one is free when a name has none.
LEMMA FreeValue ==
  ASSUME NEW V, IsFiniteSet(V), Cardinality(Names) <= Cardinality(V),
         NEW g, NEW n \in Names
  PROVE  \E v \in V : \A m \in Names \ {n} : g[m] # v
<1> SUFFICES ASSUME \A v \in V : \E m \in Names \ {n} : g[m] = v PROVE FALSE
  OBVIOUS
<1> DEFINE others == Names \ {n}
           h == [v \in V |-> CHOOSE m \in others : g[m] = v]
<1>1. IsFiniteSet(others) /\ Cardinality(others) = Cardinality(Names) - 1 /\ Cardinality(Names) \in Nat
  BY RegistryAssumption, FS_RemoveElement, FS_CardinalityType
<1>2. Cardinality(V) \in Nat
  BY FS_CardinalityType
<1>3. Cardinality(others) < Cardinality(V)
  BY <1>1, <1>2
<1>4. \A v \in V : h[v] \in others /\ g[h[v]] = v
  OBVIOUS
<1>5. h \in [V -> others]
  BY <1>4
<1> HIDE DEF h, others
<1>6. \E x, y \in V : x # y /\ h[x] = h[y]
  BY <1>1, <1>3, <1>5, FS_PigeonHole
<1> QED
  BY <1>4, <1>6

\* The database has an id for a new row.
LEMMA FreeIdFacts ==
  ASSUME StateTyped, NEW n \in Names, row[n] = NoRow
  PROVE  FreeId \in 1..Cardinality(Names) /\ \A m \in Names : row[m].id # FreeId
<1>1. Cardinality(Names) \in Nat
  BY RegistryAssumption, FS_CardinalityType
<1>2. IsFiniteSet(1..Cardinality(Names)) /\ Cardinality(1..Cardinality(Names)) = Cardinality(Names)
  <2>1. Cardinality(Names) \in Int /\ 1 \in Int /\ Cardinality(Names) >= 0
    BY <1>1
  <2>2. /\ IsFiniteSet(1..Cardinality(Names))
        /\ Cardinality(1..Cardinality(Names)) = IF 1 > Cardinality(Names) THEN 0 ELSE Cardinality(Names) - 1 + 1
    BY <2>1, FS_Interval
  <2> QED
    BY <1>1, <2>2
<1> DEFINE ids == [m \in Names |-> row[m].id]
<1>3. PICK i \in 1..Cardinality(Names) : \A m \in Names \ {n} : ids[m] # i
  <2> HIDE DEF ids
  <2> QED
    BY <1>1, <1>2, FreeValue
<1>4. row[n].id # i
  BY DEF NoRow
<1>5. \A m \in Names : row[m].id # i
  BY <1>3, <1>4
<1> QED
  BY <1>5 DEF FreeId

-----------------------------------------------------------------------------
(* The records of tasks *)

\* Where tasks can be.
LEMMA PointsFacts ==
  /\ Goals \subseteq Points /\ Handed \subseteq Points /\ AtGet \subseteq Points
  /\ Activating \subseteq AtGet /\ Handed \cap AtGet = {}
  /\ None \notin Points
BY DEF Goals, Handed, AtGet, Activating, Points, None

\* A task without a call.
LEMMA IdleFacts ==
  /\ Idle \in Proc /\ TaskTyped(Idle) /\ Idle.pc = "idle" /\ Idle.held = None /\ Idle.obj = None
  /\ TaskInv(Idle)
<1>1. Idle \in Proc /\ Idle.pc = "idle" /\ Idle.held = None /\ Idle.obj = None
  BY RegistryAssumption DEF Idle, Proc, Points
<1>2. TaskTyped(Idle)
  BY <1>1 DEF TaskTyped, AtGet, Handed, Activating
<1>3. Refers(Idle) /\ Waits(Idle)
  BY <1>1 DEF Refers, Waits, Handed
<1>4. Makes(Idle) /\ Meddles(Idle)
  BY <1>1 DEF Makes, Meddles, Activating, AtGet
<1>5. Revives(Idle) /\ Deletes(Idle)
  BY <1>1 DEF Revives, Deletes, AtGet, Activating, Ousting
<1> QED
  BY <1>1, <1>2, <1>3, <1>4, <1>5 DEF TaskInv

\* A task that goes on somewhere else.
LEMMA GotoFacts ==
  ASSUME NEW p \in Proc, NEW pc \in Points, NEW r, r = [p EXCEPT !.pc = pc]
  PROVE  /\ r \in Proc /\ r.pc = pc /\ r.op = p.op /\ r.name = p.name /\ r.to = p.to
         /\ r.then = p.then /\ r.held = p.held /\ r.obj = p.obj
BY DEF Proc

-----------------------------------------------------------------------------
(* What a step does to the tasks *)

\* The task that takes the step may wake one that waits, and close a session.
Follows(p, q) ==
  \/ q = p
  \/ p.pc = "selected" /\ q = Idle
  \/ p.pc = "waiting" /\ q = [p EXCEPT !.pc = "woken"]

\* What holds of a task holds of it then.
LEMMA FollowsFacts ==
  ASSUME NEW p \in Proc, NEW q, Follows(p, q)
  PROVE  /\ q \in Proc
         /\ TaskTyped(p) => TaskTyped(q)
         /\ TaskInv(p) => TaskInv(q)
         /\ q.held \in {p.held, None} /\ q.obj \in {p.obj, None}
         /\ q.pc = "queued" <=> p.pc = "queued"
         /\ q.pc \in Activating <=> p.pc \in Activating
         /\ p.pc \in Activating => q = p
<1>1. CASE q = p
  BY <1>1
<1>2. CASE p.pc = "selected" /\ q = Idle
  BY <1>2, IdleFacts DEF Activating
<1>3. CASE p.pc = "waiting" /\ q = [p EXCEPT !.pc = "woken"]
  <2>1. /\ q \in Proc /\ q.pc = "woken" /\ q.op = p.op /\ q.name = p.name /\ q.to = p.to
        /\ q.then = p.then /\ q.held = p.held /\ q.obj = p.obj
    <3>1. "woken" \in Points
      BY DEF Points
    <3> QED
      BY <1>3, <3>1, GotoFacts
  <2>2. TaskTyped(p) => TaskTyped(q)
    BY <1>3, <2>1 DEF TaskTyped, AtGet, Handed, Activating
  <2>3. Refers(p) => Refers(q)
    BY <2>1 DEF Refers, Handed
  <2>4. Waits(q) /\ Makes(q) /\ Revives(q)
    BY <2>1 DEF Waits, Makes, Revives, Activating
  <2>5. Meddles(p) => Meddles(q)
    BY <1>3, <2>1 DEF Meddles, AtGet, Activating
  <2>6. Deletes(p) => Deletes(q)
    BY <1>3, <2>1 DEF Deletes, AtGet, Activating, Ousting
  <2> QED
    BY <1>3, <2>1, <2>2, <2>3, <2>4, <2>5, <2>6 DEF TaskInv, Activating
<1> QED
  BY <1>1, <1>2, <1>3 DEF Follows

\* The same after a step.
LEMMA FollowsNext ==
  (\A p \in Proc : \A q : Follows(p, q) /\ TaskInv(p) => TaskInv(q))'
<1>1. \A p \in Proc : \A q : Follows(p, q) /\ TaskInv(p) => TaskInv(q)
  BY FollowsFacts
<1> QED
  BY <1>1, PTL

\* What has to be shown of a step of a task.
LEMMA StepsOf ==
  ASSUME RegistryInv, StateTyped', ObjectsInv', EventsInv',
         NEW t \in Tasks, NEW r \in Proc, TaskTyped(r), TaskInv(r)',
         \A q \in {proc'[u] : u \in Tasks \ {t}} : TaskInv(q)',
         \A u \in Tasks \ {t} : PairInv(r, proc[u]) /\ PairInv(proc[u], r),
         proc' = [u \in Tasks |-> proc'[u]], proc'[t] = r,
         \A u \in Tasks \ {t} : Follows(proc[u], proc'[u])
  PROVE  RegistryInv'
<1>1. /\ \A u \in Tasks : proc[u] \in Proc /\ TaskTyped(proc[u])
      /\ \A u, v \in Tasks : u # v => PairInv(proc[u], proc[v])
  BY DEF RegistryInv
<1>2. ASSUME NEW u \in Tasks PROVE proc'[u] \in Proc /\ TaskTyped(proc'[u])
  <2>1. CASE u = t
    BY <2>1
  <2>2. CASE u # t
    <3>1. PICK p \in Proc : p = proc[u]
      BY <1>1
    <3>2. PICK q : q = proc'[u]
      OBVIOUS
    <3>3. Follows(p, q) /\ TaskTyped(p)
      BY <1>1, <2>2, <3>1, <3>2
    <3> QED
      BY <3>2, <3>3, FollowsFacts
  <2> QED
    BY <2>1, <2>2
<1>3. ASSUME NEW u \in Tasks, NEW v \in Tasks, u # v PROVE PairInv(proc'[u], proc'[v])
  <2>1. \A w \in Tasks \ {t} :
          /\ proc[w] \in Proc
          /\ proc'[w].held \in {proc[w].held, None} /\ proc'[w].obj \in {proc[w].obj, None}
          /\ proc'[w].pc = "queued" <=> proc[w].pc = "queued"
          /\ proc'[w].pc \in Activating <=> proc[w].pc \in Activating
          /\ proc[w].pc \in Activating => proc'[w] = proc[w]
    BY <1>1, FollowsFacts
  <2>a. \A w \in Tasks : proc'[w].pc \in Activating => proc'[w].obj # None
    BY <1>2 DEF TaskTyped
  <2>2. CASE u = t
    <3>1. PairInv(r, proc[v])
      BY <1>3, <2>2
    <3> QED
      BY <1>3, <2>1, <2>a, <2>2, <3>1 DEF PairInv
  <2>3. CASE v = t
    <3>1. PairInv(proc[u], r)
      BY <1>3, <2>3
    <3> QED
      BY <1>3, <2>1, <2>a, <2>3, <3>1 DEF PairInv
  <2>4. CASE u # t /\ v # t
    <3>1. PairInv(proc[u], proc[v])
      BY <1>1, <1>3
    <3> QED
      BY <1>3, <2>1, <2>a, <2>4, <3>1 DEF PairInv
  <2> QED
    BY <2>2, <2>3, <2>4
<1>4. proc' \in [Tasks -> Proc]
  BY <1>2
<1>5. PICK ps : ps = proc'
  OBVIOUS
<1>6. ASSUME NEW u \in Tasks PROVE TaskInv(ps[u])'
  <2>1. CASE u = t
    <3>1. ps[u] = r
      BY <1>5, <2>1
    <3> QED
      BY <3>1
  <2>2. CASE u # t
    <3>1. PICK q : q = proc'[u]
      OBVIOUS
    <3>2. TaskInv(q)'
      BY <2>2, <3>1
    <3>3. ps[u] = q
      BY <1>5, <3>1
    <3> QED
      BY <3>2, <3>3
  <2> QED
    BY <2>1, <2>2
<1>7. \A u \in Tasks : TaskTyped(ps[u])
  BY <1>2, <1>5
<1>8. \A u, v \in Tasks : u # v => PairInv(ps[u], ps[v])
  BY <1>3, <1>5
<1> QED
  BY <1>4, <1>5, <1>6, <1>7, <1>8 DEF RegistryInv

\* The same, when what the others rely on is shown of them as they were.
LEMMA StepOf ==
  ASSUME RegistryInv, StateTyped', ObjectsInv', EventsInv',
         NEW t \in Tasks, NEW r \in Proc, TaskTyped(r), TaskInv(r)',
         \A p \in {proc[u] : u \in Tasks \ {t}} : TaskInv(p)',
         \A u \in Tasks \ {t} : PairInv(r, proc[u]) /\ PairInv(proc[u], r),
         proc' = [u \in Tasks |-> proc'[u]], proc'[t] = r,
         \A u \in Tasks \ {t} : Follows(proc[u], proc'[u])
  PROVE  RegistryInv'
<1>1. ASSUME NEW q \in {proc'[u] : u \in Tasks \ {t}} PROVE TaskInv(q)'
  <2>1. PICK u \in Tasks \ {t} : q = proc'[u]
    OBVIOUS
  <2>2. PICK p \in Proc : p = proc[u]
    BY DEF RegistryInv
  <2>3. TaskInv(p)' /\ Follows(p, q)
    BY <2>1, <2>2
  <2> QED
    BY <2>3, FollowsNext
<1> QED
  BY <1>1, StepsOf

-----------------------------------------------------------------------------
(* Steps that leave the mailboxes as they are *)

SameObjects ==
  /\ UNCHANGED <<active, activating>> /\ disputed \subseteq disputed'
  /\ Alive' = Alive /\ Served' = Served /\ Deleted' = Deleted /\ Noselect' = Noselect
  /\ \A o \in Objects : mbox'[o].name = mbox[o].name

\* Names that are disputed stay so.
LEMMA NamedStays ==
  ASSUME disputed \subseteq disputed', NEW o, mbox'[o].name = mbox[o].name, NEW n, Named(o, n)
  PROVE  Named(o, n)'
BY DEF Named

\* What a task relies on.
LEMMA SameTaskInv ==
  ASSUME SameObjects, NEW p \in Proc, TaskTyped(p), TaskInv(p)
  PROVE  TaskInv(p)'
<1>0. p.pc \in Handed \cup Activating => p.obj \in Objects
  BY DEF TaskTyped, Proc
<1>1. Refers(p)'
  <2>1. p.pc \in Handed => Named(p.obj, p.name)'
    BY <1>0, NamedStays DEF SameObjects, TaskInv, Refers
  <2>2. p.pc = "queued" /\ p.held # None => Named(p.held, p.name)'
    BY NamedStays DEF SameObjects, TaskInv, Refers, Proc
  <2> QED
    BY <2>1, <2>2 DEF SameObjects, TaskInv, Refers
<1>2. Waits(p)' /\ Makes(p)'
  <2>1. \A o \in Served : o \in Objects
    BY DEF Served
  <2> QED
    BY <1>0, <2>1 DEF SameObjects, TaskInv, Waits, Makes
<1>3. Meddles(p)' /\ Revives(p)'
  BY DEF SameObjects, TaskInv, Meddles, Revives
<1>4. Deletes(p)'
  BY DEF SameObjects, TaskInv, Deletes
<1> QED
  BY <1>1, <1>2, <1>3, <1>4 DEF TaskInv

\* Whatever is registered is an object.
LEMMA SameObjectsInv ==
  ASSUME StateTyped, SameObjects, ObjectsInv
  PROVE  ObjectsInv'
<1>1. \A n \in Names : active[n] # None => active[n] \in Objects
  BY DEF StateTyped
<1>2. \A o \in Served : o \in Objects
  BY DEF Served
<1> QED
  BY <1>1, <1>2 DEF SameObjects, ObjectsInv

\* A step of one task that leaves the mailboxes as they are.
LEMMA Moves ==
  ASSUME RegistryInv, StateTyped', SameObjects,
         NEW t \in Tasks, NEW r \in Proc, TaskTyped(r), TaskInv(r)',
         proc' = [proc EXCEPT ![t] = r],
         r.pc \in Activating <=> proc[t].pc \in Activating,
         r.pc \in Activating => r.name = proc[t].name /\ r.obj = proc[t].obj,
         r.held # None /\ r.pc # "queued" =>
           \/ r.held = proc[t].held /\ proc[t].pc # "queued"
           \/ \A u \in Tasks \ {t} : proc[u].held = r.held => proc[u].pc = "queued",
         r.obj \in {proc[t].obj, None} \cup {active[n] : n \in Names},
         r.held \in {proc[t].held, proc[t].obj, None}
  PROVE  RegistryInv'
<1>1. /\ proc \in [Tasks -> Proc]
      /\ \A u \in Tasks : proc[u] \in Proc /\ TaskTyped(proc[u]) /\ TaskInv(proc[u])
      /\ \A u, v \in Tasks : u # v => PairInv(proc[u], proc[v])
  BY DEF RegistryInv
<1>2. ASSUME NEW p \in {proc[u] : u \in Tasks \ {t}} PROVE TaskInv(p)'
  BY <1>1, SameTaskInv
<1>3. ASSUME NEW u \in Tasks \ {t} PROVE PairInv(r, proc[u]) /\ PairInv(proc[u], r)
  <2>1. PairInv(proc[t], proc[u]) /\ PairInv(proc[u], proc[t])
    BY <1>1
  <2>2. proc[u].pc \in Activating => proc[u].obj # None /\ \A n \in Names : proc[u].obj # active[n]
    BY <1>1 DEF TaskTyped, TaskInv, Makes
  <2>3. proc[u].pc \in Activating => proc[u].obj # r.obj /\ proc[u].obj # r.held
    BY <2>1, <2>2 DEF PairInv
  <2>4. r.held = proc[u].held /\ r.held # None => r.pc = "queued" \/ proc[u].pc = "queued"
    BY <2>1 DEF PairInv
  <2> QED
    BY <2>1, <2>3, <2>4 DEF PairInv
<1>4. ObjectsInv'
  BY SameObjectsInv DEF RegistryInv
<1>5. EventsInv'
  <2> SUFFICES ASSUME NEW n \in Names, activating'[n] = "yes"
               PROVE  \E u \in Tasks : proc'[u].pc \in Activating /\ proc'[u].name = n
    BY DEF EventsInv
  <2>1. PICK u \in Tasks : proc[u].pc \in Activating /\ proc[u].name = n
    BY DEF RegistryInv, EventsInv, SameObjects
  <2>2. CASE u = t
    BY <1>1, <2>1, <2>2
  <2>3. CASE u # t
    BY <1>1, <2>1, <2>3
  <2> QED
    BY <2>2, <2>3
<1>6. /\ proc' = [u \in Tasks |-> proc'[u]] /\ proc'[t] = r
      /\ \A u \in Tasks \ {t} : proc'[u] = proc[u]
  BY <1>1
<1>7. \A u \in Tasks \ {t} : Follows(proc[u], proc'[u])
  BY <1>6 DEF Follows
<1> QED
  BY <1>2, <1>3, <1>4, <1>5, <1>6, <1>7, StepOf

\* The end of a call, or its failure.
LEMMA Resting ==
  ASSUME RegistryInv, StateTyped', SameObjects, NEW t \in Tasks, Ends(t), proc[t].pc \notin Activating
  PROVE  RegistryInv'
<1>1. TaskInv(Idle)'
  <2>1. TaskInv(Idle)
    BY IdleFacts
  <2> QED
    BY <2>1, IdleFacts, SameTaskInv
<1>2. proc' = [proc EXCEPT ![t] = Idle]
  BY DEF Ends
<1>3. Idle.pc \notin Activating
  BY IdleFacts DEF Activating
<1>4. PICK r : r = Idle
  OBVIOUS
<1>5. TaskInv(r)'
  BY <1>1, <1>4
<1> QED
  BY <1>2, <1>3, <1>4, <1>5, IdleFacts, Moves

\* A step that touches nothing but proc, or only what is not looked at here.
LEMMA SameIfUnchanged ==
  ASSUME UNCHANGED <<active, activating, mbox>>, disputed \subseteq disputed'
  PROVE  SameObjects
BY DEF SameObjects, Alive, Served, Deleted, Noselect

LEMMA TypedIfUnchanged ==
  ASSUME StateTyped, UNCHANGED <<folders, row, uid_vv, active, activating, mbox, disputed>>,
         calls' \in 0..MaxCalls
  PROVE  StateTyped'
BY DEF StateTyped

-----------------------------------------------------------------------------
(* Getting a mailbox, queueing for it *)

\* What is known of the task that takes a step.
LEMMA Here ==
  ASSUME RegistryInv, NEW t \in Tasks
  PROVE  /\ proc[t] \in Proc /\ TaskTyped(proc[t]) /\ TaskInv(proc[t])
         /\ proc \in [Tasks -> Proc] /\ StateTyped /\ ObjectsInv
BY DEF RegistryInv

\* To a point that asks for nothing.
LEMMA QuietFacts ==
  ASSUME NEW p \in Proc, TaskInv(p), NEW r,
         r = [p EXCEPT !.pc = "mkdir"] \/ r = [p EXCEPT !.pc = "stale"] \/ r = Idle
  PROVE  /\ r \in Proc /\ TaskTyped(r) /\ TaskInv(r) /\ r.pc \notin Activating
         /\ r.pc \in {"mkdir", "stale", "idle"}
         /\ r.held \in {p.held, None} /\ r.obj \in {p.obj, None}
<1>1. CASE r = Idle
  BY <1>1, IdleFacts DEF Activating
<1>2. ASSUME NEW pc \in {"mkdir", "stale"}, r = [p EXCEPT !.pc = pc]
      PROVE  /\ r \in Proc /\ TaskTyped(r) /\ TaskInv(r) /\ r.pc \notin Activating
             /\ r.pc = pc /\ r.held = p.held /\ r.obj = p.obj
  <2>1. /\ r \in Proc /\ r.pc = pc /\ r.op = p.op /\ r.name = p.name /\ r.to = p.to
        /\ r.then = p.then /\ r.held = p.held /\ r.obj = p.obj
    <3>1. pc \in Points
      BY DEF Points
    <3> QED
      BY <1>2, <3>1, GotoFacts
  <2>2. r.pc \notin Activating /\ r.pc \notin AtGet /\ r.pc \notin Handed /\ r.pc \notin Ousting
    BY <2>1 DEF Activating, AtGet, Handed, Ousting
  <2>3. TaskTyped(r) /\ Waits(r) /\ Makes(r) /\ Meddles(r) /\ Revives(r) /\ Deletes(r)
    BY <2>1, <2>2 DEF TaskTyped, Waits, Makes, Meddles, Revives, Deletes
  <2>4. Refers(r)
    BY <2>1, <2>2 DEF TaskInv, Refers
  <2> QED
    BY <2>1, <2>2, <2>3, <2>4 DEF TaskInv
<1> QED
  BY <1>1, <1>2

\* A mailbox that is not there: where a task goes on.
LEMMA NoSuchFacts ==
  ASSUME NEW p
  PROVE  LET r == AfterNoSuch(p)
         IN  r = [p EXCEPT !.pc = "mkdir"] \/ r = [p EXCEPT !.pc = "stale"] \/ r = Idle
BY DEF AfterNoSuch

LEMMA NotThere ==
  ASSUME RegistryInv, NEW t \in Tasks, proc[t].pc \in {"get", "woken"}, StateTyped', SameObjects,
         proc' = [proc EXCEPT ![t] = AfterNoSuch(@)]
  PROVE  RegistryInv'
<1>1. PICK p \in Proc : p = proc[t] /\ TaskInv(p) /\ TaskTyped(p)
  BY Here
<1>2. PICK r : r = AfterNoSuch(p)
  OBVIOUS
<1>3. /\ r \in Proc /\ TaskTyped(r) /\ TaskInv(r) /\ r.pc \notin Activating
      /\ r.pc \in {"mkdir", "stale", "idle"}
      /\ r.held \in {p.held, None} /\ r.obj \in {p.obj, None}
  BY <1>1, <1>2, NoSuchFacts, QuietFacts
<1>4. TaskInv(r)'
  BY <1>3, SameTaskInv
<1>5. p.pc \notin Activating /\ p.pc # "queued" /\ r.pc # "queued"
  BY <1>1, <1>3 DEF Activating
<1>6. proc' = [proc EXCEPT ![t] = r]
  BY <1>1, <1>2, Here
<1> QED
  BY <1>1, <1>3, <1>4, <1>5, <1>6, Moves

\* The task is given the mailbox that is registered.
LEMMA HandsOver ==
  ASSUME NEW p \in Proc, TaskTyped(p), TaskInv(p), p.pc \in {"get", "woken"}, StateTyped, ObjectsInv,
         NEW o, o = active[p.name], o # None,
         NEW r \in Proc, r.pc = p.then, r.op = p.op, r.name = p.name, r.to = p.to,
         r.then = p.then, r.held = p.held, r.obj = o
  PROVE  TaskTyped(r) /\ TaskInv(r) /\ r.pc \notin Activating
<1>1. p.pc \in AtGet /\ p.then \in Goals /\ p.then \in Points /\ o \in Objects /\ p.name \in Names
  BY PointsFacts DEF TaskTyped, AtGet, StateTyped, Proc
<1>2. /\ r \in Proc /\ r.pc = p.then /\ r.op = p.op /\ r.name = p.name /\ r.to = p.to
      /\ r.then = p.then /\ r.held = p.held /\ r.obj = o
  OBVIOUS
<1>3. r.pc \notin Activating /\ r.pc \notin AtGet /\ r.pc \in Goals
  BY <1>1, <1>2 DEF Goals, Activating, AtGet
<1>4. TaskTyped(r)
  BY <1>1, <1>2, <1>3 DEF TaskTyped
<1>5. o \in Alive /\ mbox[o].name = p.name
  BY <1>1 DEF ObjectsInv
<1>6. Refers(r)
  <2>1. Named(r.obj, r.name)
    BY <1>2, <1>5 DEF Named
  <2>2. r.pc = "queued" => r.held = None
    BY <1>1, <1>2 DEF TaskTyped
  <2> QED
    BY <1>2, <1>5, <2>1, <2>2 DEF TaskInv, Refers
<1>7. Waits(r) /\ Makes(r)
  BY <1>3 DEF Waits, Makes, Goals
<1>8. Meddles(r)
  BY <1>1, <1>2, <1>3 DEF TaskInv, Meddles, Goals
<1>9. Revives(r)
  BY <1>2 DEF Revives
<1>10. Deletes(r)
  BY <1>1, <1>2, <1>3 DEF TaskInv, Deletes, Goals, Ousting
<1> QED
  BY <1>2, <1>3, <1>4, <1>6, <1>7, <1>8, <1>9, <1>10 DEF TaskInv

LEMMA HandingOver ==
  ASSUME RegistryInv, NEW t \in Tasks, proc[t].pc \in {"get", "woken"},
         active[proc[t].name] # None, proc' = HandedWith(proc, t, active[proc[t].name]),
         UNCHANGED <<folders, row, uid_vv, active, activating, mbox, calls, disputed>>
  PROVE  RegistryInv'
<1>0. StateTyped' /\ SameObjects
  BY Here, TypedIfUnchanged, SameIfUnchanged DEF StateTyped
<1>1. PICK p \in Proc : p = proc[t] /\ TaskInv(p) /\ TaskTyped(p)
  BY Here
<1>2. PICK o : o = active[p.name]
  OBVIOUS
<1>3. p.pc \notin Activating /\ p.pc # "queued"
  BY <1>1 DEF Activating
<1>4. CASE proc' = [proc EXCEPT ![t] = [@ EXCEPT !.pc = p.then, !.obj = o]]
  <2>1. PICK r : r = [p EXCEPT !.pc = p.then, !.obj = o]
    OBVIOUS
  <2>2. r \in Proc /\ TaskTyped(r) /\ TaskInv(r) /\ r.pc \notin Activating /\ r.held = p.held /\ r.obj = o
    <3>1. /\ p.pc \in {"get", "woken"} /\ o = active[p.name] /\ o # None
          /\ StateTyped /\ ObjectsInv
      BY <1>1, <1>2, Here
    <3>2. p.then \in Points /\ o \in Objects /\ p.name \in Names
      BY <1>1, <3>1, PointsFacts DEF TaskTyped, AtGet, StateTyped, Proc
    <3>3. /\ r \in Proc /\ r.pc = p.then /\ r.op = p.op /\ r.name = p.name /\ r.to = p.to
          /\ r.then = p.then /\ r.held = p.held /\ r.obj = o
      BY <2>1, <3>2 DEF Proc
    <3>4. TaskTyped(r) /\ TaskInv(r) /\ r.pc \notin Activating
      BY <1>1, <3>1, <3>3, HandsOver
    <3> QED
      BY <3>3, <3>4
  <2>3. TaskInv(r)'
    BY <1>0, <2>2, SameTaskInv
  <2>4. proc' = [proc EXCEPT ![t] = r]
    BY <1>1, <1>4, <2>1, Here
  <2>5. r.obj \in {active[n] : n \in Names}
    BY <1>1, <1>2, <2>2 DEF Proc
  <2> QED
    BY <1>0, <1>1, <1>3, <2>2, <2>3, <2>4, <2>5, Moves
<1>5. CASE proc' = [proc EXCEPT ![t] = AfterNoSuch(@)]
  BY <1>0, <1>5, NotThere
<1> QED
  BY <1>1, <1>2, <1>4, <1>5 DEF HandedWith

\* A mailbox that is there, or not.
LEMMA GettingIt ==
  ASSUME RegistryInv, NEW t \in Tasks, GetMissing(t) \/ GetActive(t) \/ Woken(t)
  PROVE  RegistryInv'
<1>0. /\ proc[t].pc \in {"get", "woken"} /\ proc[t].pc \notin Activating
      /\ UNCHANGED <<folders, row, uid_vv, active, activating, mbox, calls, disputed>>
  BY DEF GetMissing, GetActive, Woken, At, Activating
<1>1. StateTyped' /\ SameObjects
  BY <1>0, Here, TypedIfUnchanged, SameIfUnchanged DEF StateTyped
<1>2. CASE GetMissing(t)
  <2>1. proc' = [proc EXCEPT ![t] = AfterNoSuch(@)]
    BY <1>2 DEF GetMissing, NoSuch
  <2> QED
    BY <1>0, <1>1, <2>1, NotThere
<1>3. CASE GetActive(t)
  BY <1>0, <1>3, HandingOver DEF GetActive
<1>4. CASE Woken(t)
  BY <1>0, <1>1, <1>4, HandingOver, Resting DEF Woken
<1> QED
  BY <1>2, <1>3, <1>4

\* Another task is activating the mailbox.
LEMMA GettingWaits ==
  ASSUME RegistryInv, NEW t \in Tasks, GetWaits(t)
  PROVE  RegistryInv'
<1>0. /\ proc[t].pc = "get" /\ active[proc[t].name] = None /\ activating[proc[t].name] # "no"
      /\ proc' = [proc EXCEPT ![t].pc = "waiting"]
      /\ UNCHANGED <<folders, row, uid_vv, active, activating, mbox, calls, disputed>>
  BY DEF GetWaits, At, Goto
<1>1. StateTyped' /\ SameObjects
  BY <1>0, Here, TypedIfUnchanged, SameIfUnchanged DEF StateTyped
<1>2. PICK p \in Proc : p = proc[t] /\ TaskInv(p) /\ TaskTyped(p)
  BY Here
<1>3. PICK r : r = [p EXCEPT !.pc = "waiting"]
  OBVIOUS
<1>4. /\ r \in Proc /\ r.pc = "waiting" /\ r.op = p.op /\ r.name = p.name /\ r.to = p.to
      /\ r.then = p.then /\ r.held = p.held /\ r.obj = p.obj
  <2>1. "waiting" \in Points
    BY DEF Points
  <2> QED
    BY <1>3, <2>1, GotoFacts
<1>5. r.pc \notin Activating /\ p.pc \notin Activating /\ r.pc \notin Handed /\ p.pc \in AtGet /\ r.pc \in AtGet
  BY <1>0, <1>2, <1>4 DEF Activating, Handed, AtGet
<1>6. TaskTyped(r)
  BY <1>2, <1>4, <1>5 DEF TaskTyped
<1>7. TaskInv(r)
  <2>1. Refers(r) /\ Waits(r) /\ Makes(r) /\ Revives(r)
    BY <1>0, <1>2, <1>4, <1>5 DEF TaskInv, Refers, Waits, Makes, Revives
  <2>2. Meddles(r)
    BY <1>2, <1>4, <1>5 DEF TaskInv, Meddles
  <2>3. Deletes(r)
    BY <1>0, <1>2, <1>4, <1>5 DEF TaskInv, Deletes, Ousting
  <2> QED
    BY <2>1, <2>2, <2>3 DEF TaskInv
<1>8. TaskInv(r)'
  BY <1>1, <1>4, <1>6, <1>7, SameTaskInv
<1>9. proc' = [proc EXCEPT ![t] = r]
  BY <1>0, <1>2, <1>3, Here
<1>10. p.pc # "queued"
  BY <1>0, <1>2
<1> QED
  BY <1>1, <1>2, <1>4, <1>5, <1>6, <1>8, <1>9, <1>10, Moves

\* SELECT, DELETE and RENAME queue for the mailbox they got.
LEMMA Enqueues ==
  ASSUME RegistryInv, NEW t \in Tasks, Enqueue(t)
  PROVE  RegistryInv'
<1>0. /\ proc[t].pc = "queued" /\ proc' = [proc EXCEPT ![t].held = proc[t].obj]
      /\ UNCHANGED <<folders, row, uid_vv, active, activating, mbox, calls, disputed>>
  BY DEF Enqueue, At
<1>1. StateTyped' /\ SameObjects
  BY <1>0, Here, TypedIfUnchanged, SameIfUnchanged DEF StateTyped
<1>2. PICK p \in Proc : p = proc[t] /\ TaskInv(p) /\ TaskTyped(p)
  BY Here
<1>3. PICK r : r = [p EXCEPT !.held = p.obj]
  OBVIOUS
<1>4. /\ r \in Proc /\ r.pc = p.pc /\ r.op = p.op /\ r.name = p.name /\ r.to = p.to
      /\ r.then = p.then /\ r.held = p.obj /\ r.obj = p.obj
  BY <1>3 DEF Proc
<1>5. r.pc = "queued" /\ p.pc = "queued" /\ r.pc \notin AtGet /\ r.pc \notin Activating /\ r.pc \in Handed
  BY <1>0, <1>2, <1>4 DEF AtGet, Activating, Handed
<1>6. TaskTyped(r)
  BY <1>2, <1>4, <1>5 DEF TaskTyped
<1>7. TaskInv(r)
  <2>1. Refers(r) /\ Waits(r) /\ Makes(r) /\ Revives(r)
    BY <1>2, <1>4, <1>5 DEF TaskInv, Refers, Waits, Makes, Revives
  <2>2. Meddles(r) /\ Deletes(r)
    BY <1>5 DEF Meddles, Deletes, Ousting
  <2> QED
    BY <2>1, <2>2 DEF TaskInv
<1>8. TaskInv(r)'
  BY <1>1, <1>4, <1>6, <1>7, SameTaskInv
<1>9. proc' = [proc EXCEPT ![t] = r]
  BY <1>0, <1>2, <1>3, Here
<1> QED
  BY <1>1, <1>2, <1>4, <1>5, <1>6, <1>8, <1>9, Moves

\* What a task has got and is served, is registered: nobody has what is being made.
LEMMA Settled ==
  ASSUME RegistryInv, NEW t \in Tasks, proc[t].pc \notin Activating,
         NEW o \in Served, o \in {proc[t].obj, proc[t].held}
  PROVE  active[mbox[o].name] = o \/ mbox[o].name \in disputed
<1>1. PICK n \in Names : n = mbox[o].name
  BY DEF RegistryInv, StateTyped, Object, Served
<1>2. active[n] = o \/ n \in disputed \/ activating[n] = "yes"
  BY <1>1 DEF RegistryInv, ObjectsInv
<1>3. ASSUME activating[n] = "yes" PROVE n \in disputed
  <2>1. PICK u \in Tasks : proc[u].pc \in Activating /\ proc[u].name = n
    BY <1>3 DEF RegistryInv, EventsInv
  <2>2. PairInv(proc[u], proc[t]) /\ Makes(proc[u])
    BY <2>1 DEF RegistryInv, TaskInv
  <2>3. o # proc[u].obj
    BY <2>1, <2>2 DEF PairInv
  <2> QED
    BY <1>1, <2>1, <2>2, <2>3 DEF Makes
<1> QED
  BY <1>1, <1>2, <1>3

\* The mailbox lets a command in, and no other.
LEMMA LetsIn ==
  ASSUME RegistryInv, NEW t \in Tasks, LetIn(t)
  PROVE  RegistryInv'
<1>0. /\ proc[t].pc = "queued" /\ proc[t].held # None
      /\ mbox[proc[t].held].served /\ ~ mbox[proc[t].held].deleted /\ ~ Busy(proc[t].held)
      /\ UNCHANGED <<folders, row, uid_vv, active, activating, mbox, calls, disputed>>
  BY DEF LetIn, At
<1>1. StateTyped' /\ SameObjects
  BY <1>0, Here, TypedIfUnchanged, SameIfUnchanged DEF StateTyped
<1>2. PICK p \in Proc : p = proc[t] /\ TaskInv(p) /\ TaskTyped(p)
  BY Here
<1>3. p.pc = "queued" /\ p.pc \notin Activating /\ p.pc \in Handed
  BY <1>0, <1>2 DEF Activating, Handed
<1>4. \A u \in Tasks : proc[u].held = p.held => proc[u].pc = "queued"
  BY <1>0, <1>2 DEF Busy
<1>5. p.held \in Served /\ p.held \notin Deleted /\ p.held \in Objects
  BY <1>0, <1>2 DEF Served, Deleted, Proc
<1>6. CASE p.op = "SELECT"
  <2>1. PICK r : r = [p EXCEPT !.pc = "selected", !.held = None]
    OBVIOUS
  <2>2. /\ r \in Proc /\ r.pc = "selected" /\ r.op = p.op /\ r.name = p.name /\ r.to = p.to
        /\ r.then = p.then /\ r.held = None /\ r.obj = p.obj
    BY <2>1 DEF Proc, Points
  <2>3. r.pc \notin AtGet /\ r.pc \notin Activating /\ r.pc \in Handed
    BY <2>2 DEF AtGet, Activating, Handed
  <2>4. TaskTyped(r)
    BY <1>2, <1>3, <2>2, <2>3 DEF TaskTyped
  <2>5. TaskInv(r)
    <3>1. Refers(r) /\ Waits(r) /\ Makes(r) /\ Revives(r)
      BY <1>2, <1>3, <2>2, <2>3 DEF TaskInv, Refers, Waits, Makes, Revives
    <3>2. Meddles(r) /\ Deletes(r)
      BY <2>2, <2>3 DEF Meddles, Deletes, Ousting
    <3> QED
      BY <3>1, <3>2 DEF TaskInv
  <2>6. TaskInv(r)'
    BY <1>1, <2>2, <2>4, <2>5, SameTaskInv
  <2>7. proc' = [proc EXCEPT ![t] = r]
    BY <1>2, <1>6, <2>1, Here DEF LetIn
  <2> QED
    BY <1>1, <1>2, <1>3, <2>2, <2>3, <2>4, <2>6, <2>7, Moves
<1>7. CASE p.op = "DELETE" \/ p.op = "RENAME"
  <2>1. PICK then \in {"delete", "link"} :
          /\ proc' = [proc EXCEPT ![t] = [@ EXCEPT !.name = p.name, !.pc = "get", !.then = then]]
    BY <1>2, <1>7 DEF LetIn, Gets
  <2>2. PICK r : r = [p EXCEPT !.name = p.name, !.pc = "get", !.then = then]
    OBVIOUS
  <2>3. /\ r \in Proc /\ r.pc = "get" /\ r.op = p.op /\ r.name = p.name /\ r.to = p.to
        /\ r.then = then /\ r.held = p.held /\ r.obj = p.obj
    <3>1. PICK n \in Names : n = p.name
      BY DEF Proc
    <3>2. then \in Points /\ "get" \in Points
      BY DEF Points
    <3> QED
      BY <2>2, <3>1, <3>2 DEF Proc
  <2>4. r.pc \notin Activating /\ r.pc \notin Handed /\ r.pc \in AtGet
    BY <2>3 DEF AtGet, Activating, Handed
  <2>5. TaskTyped(r)
    BY <2>3, <2>4 DEF TaskTyped, Goals
  <2>6. TaskInv(r)
    <3>1. Refers(r)
      BY <1>2, <2>3, <2>4 DEF TaskInv, Refers
    <3>2. Waits(r) /\ Makes(r) /\ Revives(r) /\ Meddles(r)
      BY <2>3, <2>4 DEF Waits, Makes, Revives, Meddles
    <3>3. p.name \in disputed \/ active[p.name] = p.held
      <4>1. Named(p.held, p.name)
        BY <1>0, <1>2, <1>3 DEF TaskInv, Refers
      <4>2. active[mbox[p.held].name] = p.held \/ mbox[p.held].name \in disputed
        BY <1>2, <1>3, <1>5, Settled
      <4> QED
        BY <4>1, <4>2 DEF Named
    <3>4. Deletes(r)
      BY <1>0, <1>2, <1>5, <2>3, <3>3 DEF Deletes, Ousting
    <3> QED
      BY <3>1, <3>2, <3>4 DEF TaskInv
  <2>7. TaskInv(r)'
    BY <1>1, <2>3, <2>5, <2>6, SameTaskInv
  <2>8. proc' = [proc EXCEPT ![t] = r]
    BY <1>2, <2>1, <2>2, Here
  <2> QED
    BY <1>1, <1>2, <1>3, <1>4, <2>3, <2>4, <2>5, <2>7, <2>8, Moves
<1> QED
  BY <1>2, <1>3, <1>6, <1>7 DEF TaskTyped

\* Calls and sessions that end.
LEMMA Ending ==
  ASSUME RegistryInv, NEW t \in Tasks,
         \/ TurnedAway(t) \/ Unselect(t) \/ CreateExists(t) \/ Done(t) \/ DeleteRefused(t)
         \/ RenameRefused(t) \/ SwitchFails(t)
  PROVE  RegistryInv'
<1>1. /\ proc[t].pc \notin Activating /\ Ends(t)
      /\ UNCHANGED <<folders, row, uid_vv, active, activating, mbox, calls, disputed>>
  BY DEF TurnedAway, Unselect, CreateExists, Done, DeleteRefused, RenameRefused,
         SwitchFails, At, Activating
<1>2. StateTyped' /\ SameObjects
  BY <1>1, Here, TypedIfUnchanged, SameIfUnchanged DEF StateTyped
<1> QED
  BY <1>1, <1>2, Resting

-----------------------------------------------------------------------------
(* Steps that touch rows, folders and what is disputed *)

\* A task asks for a mailbox: to make it, to move messages to it, to rename it, or
\* to tell it of its children.
LEMMA AsksFor ==
  ASSUME RegistryInv, NEW t \in Tasks, StateTyped', SameObjects,
         proc[t].pc \in {"mkdir", "made", "link", "move", "moved"}, NEW n \in Names,
         NEW then \in {"made", "exists", "rename", "moved", "done"},
         Gets(t, n, then), then = "rename" => n \in disputed' /\ proc[t].to \in disputed'
  PROVE  RegistryInv'
<1>1. PICK p \in Proc : p = proc[t] /\ TaskInv(p) /\ TaskTyped(p)
  BY Here
<1>2. PICK r : r = [p EXCEPT !.name = n, !.pc = "get", !.then = then]
  OBVIOUS
<1>3. /\ r \in Proc /\ r.pc = "get" /\ r.op = p.op /\ r.name = n /\ r.to = p.to
      /\ r.then = then /\ r.held = p.held /\ r.obj = p.obj
  <2>1. then \in Points /\ "get" \in Points
    BY DEF Points
  <2> QED
    BY <1>2, <2>1 DEF Proc
<1>4. r.pc \notin Activating /\ r.pc \notin Handed /\ r.pc \in AtGet /\ p.pc \notin Activating /\ p.pc # "queued"
  BY <1>1, <1>3 DEF AtGet, Activating, Handed
<1>5. TaskTyped(r)
  BY <1>3, <1>4 DEF TaskTyped, Goals
<1>6. TaskInv(r)'
  <2>1. Refers(r)'
    BY <1>1, <1>3, <1>4 DEF TaskInv, Refers, SameObjects
  <2>2. Waits(r)' /\ Makes(r)' /\ Revives(r)'
    BY <1>3, <1>4 DEF Waits, Makes, Revives
  <2>3. Meddles(r)' /\ Deletes(r)'
    BY <1>1, <1>3 DEF Meddles, Deletes, Ousting
  <2> QED
    BY <2>1, <2>2, <2>3 DEF TaskInv
<1>7. proc' = [proc EXCEPT ![t] = r]
  BY <1>1, <1>2, Here DEF Gets
<1> QED
  BY <1>1, <1>3, <1>4, <1>5, <1>6, <1>7, Moves

\* A task goes on, at work on the same mailbox.
LEMMA GoesOn ==
  ASSUME RegistryInv, NEW t \in Tasks, StateTyped', SameObjects,
         NEW old, proc[t].pc = old, NEW new \in Points, Goto(t, new),
         \/ old = "activating" /\ new = "counting"
         \/ old = "counting" /\ new = "checking"
         \/ old = "activating" /\ new = "checking"
         \/ old = "link" /\ new = "unlink" /\ {proc[t].name, proc[t].to} \subseteq disputed'
         \/ old = "rename" /\ new = "switch"
         \/ old = "unlink" /\ new = "move"
         \/ old = "move" /\ new = "moved"
         \/ old = "forgetting" /\ new = "unregister"
         \/ old = "stale" /\ new = "pop" /\ proc[t].name \in disputed'
  PROVE  RegistryInv'
<1>1. PICK p \in Proc : p = proc[t] /\ TaskInv(p) /\ TaskTyped(p)
  BY Here
<1>2. PICK r : r = [p EXCEPT !.pc = new]
  OBVIOUS
<1>3. /\ r \in Proc /\ r.pc = new /\ r.op = p.op /\ r.name = p.name /\ r.to = p.to
      /\ r.then = p.then /\ r.held = p.held /\ r.obj = p.obj
  BY <1>2, GotoFacts
<1>4. /\ r.pc \in Activating <=> p.pc \in Activating
      /\ r.pc \in AtGet <=> p.pc \in AtGet
      /\ r.pc \in Handed <=> p.pc \in Handed
      /\ r.pc # "queued" /\ p.pc # "queued"
  BY <1>1, <1>3 DEF AtGet, Activating, Handed
<1>5. TaskTyped(r)
  BY <1>1, <1>3, <1>4 DEF TaskTyped
<1>6. TaskInv(p)'
  BY <1>1, SameTaskInv
<1>7. TaskInv(r)'
  <2>1. Refers(r)'
    BY <1>3, <1>4, <1>6 DEF TaskInv, Refers
  <2>2. Makes(r)'
    BY <1>1, <1>3, <1>4, <1>6 DEF TaskInv, Makes, Activating
  <2>3. Waits(r)' /\ Revives(r)'
    BY <1>3 DEF Waits, Revives
  <2>4. Meddles(r)'
    BY <1>1, <1>3, <1>4, <1>6 DEF TaskInv, Meddles
  <2>5. Deletes(r)'
    BY <1>1, <1>3, <1>4, <1>6 DEF TaskInv, Deletes, Ousting
  <2> QED
    BY <2>1, <2>2, <2>3, <2>4, <2>5 DEF TaskInv
<1>8. proc' = [proc EXCEPT ![t] = r]
  BY <1>1, <1>2, Here DEF Goto
<1> QED
  BY <1>1, <1>3, <1>4, <1>5, <1>7, <1>8, Moves

\* Only the id or the UID validity of an object changes.
LEMMA SameIfNumbered ==
  ASSUME StateTyped, UNCHANGED <<active, activating>>, disputed \subseteq disputed',
         NEW o \in Objects, NEW id \in 0..Cardinality(Names), NEW vv \in 0..MaxVv,
         mbox' = [mbox EXCEPT ![o] = [@ EXCEPT !.id = id, !.vv = vv]]
  PROVE  SameObjects /\ mbox' \in [Objects -> Object]
<1>1. mbox \in [Objects -> Object] /\ mbox[o] \in Object
  BY DEF StateTyped
<1>2. PICK b : b = [mbox[o] EXCEPT !.id = id, !.vv = vv]
  OBVIOUS
<1>3. /\ b \in Object /\ b.alive = mbox[o].alive /\ b.name = mbox[o].name
      /\ b.noselect = mbox[o].noselect /\ b.deleted = mbox[o].deleted /\ b.served = mbox[o].served
  BY <1>1, <1>2 DEF Object
<1>4. mbox' = [mbox EXCEPT ![o] = b]
  BY <1>2
<1>5. mbox' \in [Objects -> Object] /\ mbox'[o] = b /\ \A x \in Objects \ {o} : mbox'[x] = mbox[x]
  BY <1>1, <1>3, <1>4
<1>6. \A x \in Objects : /\ mbox'[x].alive = mbox[x].alive /\ mbox'[x].name = mbox[x].name
                         /\ mbox'[x].noselect = mbox[x].noselect /\ mbox'[x].deleted = mbox[x].deleted
                         /\ mbox'[x].served = mbox[x].served
  BY <1>3, <1>5
<1> QED
  BY <1>5, <1>6 DEF SameObjects, Alive, Served, Deleted, Noselect

\* Rows that stay, are changed otherwise, or go.
LEMMA RowsStay ==
  ASSUME StateTyped, NEW rows \in [Names -> Row],
         \A n \in Names : rows[n] = NoRow \/ (row[n] # NoRow /\ rows[n].id = row[n].id)
  PROVE  /\ \A n \in Names : rows[n] = NoRow \/ rows[n].id # 0
         /\ \A n, m \in Names : rows[n].id = rows[m].id => n = m \/ rows[n] = NoRow
<1>1. \A n \in Names : rows[n] = NoRow \/ rows[n].id # 0
  BY DEF StateTyped
<1>2. NoRow.id = 0
  BY DEF NoRow
<1> QED
  BY <1>1, <1>2 DEF StateTyped

LEMMA NoRowTyped == NoRow \in Row
<1>1. Cardinality(Names) \in Nat /\ MaxVv \in Nat
  BY RegistryAssumption, FS_CardinalityType
<1>2. 0 \in 0..Cardinality(Names) /\ 0 \in 0..MaxVv
  BY <1>1
<1> QED
  BY <1>2 DEF NoRow, Row

\* A mailbox new to the database: the counter first, then the row.
LEMMA Counts ==
  ASSUME RegistryInv, NEW t \in Tasks, CountUidVv(t)
  PROVE  RegistryInv'
<1>0. /\ proc[t].pc = "activating" /\ uid_vv < MaxVv /\ uid_vv' = uid_vv + 1 /\ Goto(t, "counting")
      /\ UNCHANGED <<folders, row, active, activating, mbox, calls, disputed>>
  BY DEF CountUidVv, At
<1>1. StateTyped' /\ SameObjects
  <2>1. uid_vv' \in 0..MaxVv
    BY <1>0, Here, RegistryAssumption DEF StateTyped
  <2> QED
    BY <1>0, <2>1, Here, SameIfUnchanged DEF StateTyped
<1>2. "counting" \in Points
  BY DEF Points
<1> QED
  BY <1>0, <1>1, <1>2, GoesOn

LEMMA Inserts ==
  ASSUME RegistryInv, NEW t \in Tasks, InsertRow(t)
  PROVE  RegistryInv'
<1> DEFINE n == proc[t].name
<1>0. /\ proc[t].pc = "counting" /\ row[n] = NoRow /\ Goto(t, "checking")
      /\ row' = [row EXCEPT ![n] = [id |-> FreeId, vv |-> uid_vv, noselect |-> FALSE]]
      /\ mbox' = [mbox EXCEPT ![proc[t].obj] = [@ EXCEPT !.id = FreeId, !.vv = uid_vv]]
      /\ UNCHANGED <<folders, uid_vv, active, activating, calls, disputed>>
  BY DEF InsertRow, At
<1>1. n \in Names /\ proc[t].obj \in Objects /\ StateTyped
  BY <1>0, Here DEF Proc, TaskTyped, Activating
<1> HIDE DEF n
<1>2. FreeId \in 1..Cardinality(Names) /\ (\A m \in Names : row[m].id # FreeId) /\ Cardinality(Names) \in Nat
  BY <1>0, <1>1, FreeIdFacts, RegistryAssumption, FS_CardinalityType
<1>3. FreeId \in 0..Cardinality(Names) /\ FreeId # 0 /\ uid_vv \in 0..MaxVv
  BY <1>1, <1>2 DEF StateTyped
<1>4. SameObjects /\ mbox' \in [Objects -> Object]
  BY <1>0, <1>1, <1>3, SameIfNumbered
<1>5. PICK new : new = [id |-> FreeId, vv |-> uid_vv, noselect |-> FALSE]
  OBVIOUS
<1>6. new \in Row /\ new.id = FreeId
  BY <1>3, <1>5 DEF Row
<1>7. row' \in [Names -> Row] /\ row'[n] = new /\ \A m \in Names \ {n} : row'[m] = row[m]
  BY <1>0, <1>1, <1>5, <1>6 DEF StateTyped
<1>8. \A m \in Names : row'[m] = NoRow \/ row'[m].id # 0
  BY <1>1, <1>3, <1>6, <1>7 DEF StateTyped
<1>9. ASSUME NEW m \in Names, NEW k \in Names, row'[m].id = row'[k].id PROVE m = k \/ row'[m] = NoRow
  BY <1>1, <1>2, <1>6, <1>7, <1>9 DEF StateTyped
<1>10. StateTyped'
  BY <1>0, <1>1, <1>4, <1>7, <1>8, <1>9 DEF StateTyped
<1>11. "checking" \in Points
  BY DEF Points
<1> QED
  BY <1>0, <1>4, <1>10, <1>11, GoesOn

\* CREATE makes the folder, unless it is there.
LEMMA MakesFolder ==
  ASSUME RegistryInv, NEW t \in Tasks, MakeFolder(t)
  PROVE  RegistryInv'
<1> DEFINE n == proc[t].name
<1>0. /\ proc[t].pc = "mkdir" /\ Gets(t, n, "made") /\ n \in Names
      /\ UNCHANGED <<row, uid_vv, active, activating, mbox, calls, disputed>>
  BY Here DEF MakeFolder, At, Proc
<1>1. folders' \subseteq Names
  BY Here DEF MakeFolder, Lineage, StateTyped
<1>2. StateTyped' /\ SameObjects
  BY <1>0, <1>1, Here, SameIfUnchanged DEF StateTyped
<1> HIDE DEF n
<1> QED
  BY <1>0, <1>2, AsksFor

\* Parents are told of their children.
LEMMA Tells ==
  ASSUME RegistryInv, NEW t \in Tasks, Made(t) \/ Moved(t)
  PROVE  RegistryInv'
<1>1. /\ proc[t].pc \in {"made", "moved"} /\ proc[t].pc \notin Activating
      /\ UNCHANGED <<folders, row, uid_vv, active, activating, mbox, calls, disputed>>
  BY DEF Made, Moved, At, Activating
<1>2. StateTyped' /\ SameObjects
  BY <1>1, Here, TypedIfUnchanged, SameIfUnchanged DEF StateTyped
<1>3. \/ Ends(t)
      \/ \E n \in Names : Gets(t, n, "made") \/ Gets(t, n, "done")
  BY RegistryAssumption DEF Made, Moved
<1>4. CASE Ends(t)
  BY <1>1, <1>2, <1>4, Resting
<1>5. ASSUME NEW n \in Names, Gets(t, n, "made") \/ Gets(t, n, "done") PROVE RegistryInv'
  BY <1>1, <1>2, <1>5, AsksFor
<1> QED
  BY <1>3, <1>4, <1>5

\* DELETE of a mailbox that has to be kept is written down.
LEMMA Commits ==
  ASSUME RegistryInv, NEW t \in Tasks, CommitNoselect(t)
  PROVE  RegistryInv'
<1>0. /\ proc[t].pc = "recount" /\ Ends(t)
      /\ mbox' = [mbox EXCEPT ![proc[t].obj].vv = uid_vv]
      /\ row' = [n \in Names |-> IF n \in RowOf(proc[t].obj) THEN [row[n] EXCEPT !.vv = uid_vv, !.noselect = TRUE]
                                 ELSE row[n]]
      /\ UNCHANGED <<folders, uid_vv, active, activating, calls, disputed>>
  BY DEF CommitNoselect, At
<1>1. proc[t].obj \in Objects /\ StateTyped /\ uid_vv \in 0..MaxVv
  BY <1>0, Here DEF Proc, TaskTyped, Handed, StateTyped
<1>2. PICK o \in Objects : o = proc[t].obj
  BY <1>1
<1>3. SameObjects /\ mbox' \in [Objects -> Object]
  <2>1. mbox[o] \in Object /\ mbox \in [Objects -> Object]
    BY <1>1 DEF StateTyped
  <2>2. PICK id \in 0..Cardinality(Names) : id = mbox[o].id
    BY <2>1 DEF Object
  <2>3. [mbox[o] EXCEPT !.vv = uid_vv] = [mbox[o] EXCEPT !.id = id, !.vv = uid_vv]
    BY <2>1, <2>2 DEF Object
  <2>4. mbox' = [mbox EXCEPT ![o] = [@ EXCEPT !.id = id, !.vv = uid_vv]]
    BY <1>0, <1>2, <2>1, <2>3
  <2> QED
    BY <1>0, <1>1, <2>4, SameIfNumbered
<1>4. ASSUME NEW n \in Names
      PROVE  /\ row'[n] \in Row
             /\ row'[n] = NoRow \/ (row[n] # NoRow /\ row'[n].id = row[n].id)
  <2>1. row[n] \in Row
    BY <1>1 DEF StateTyped
  <2>2. CASE n \in RowOf(o)
    <3>1. row'[n] = [row[n] EXCEPT !.vv = uid_vv, !.noselect = TRUE] /\ row[n] # NoRow
      BY <1>0, <1>2, <2>2 DEF RowOf
    <3> QED
      BY <1>1, <2>1, <3>1 DEF Row
  <2>3. CASE n \notin RowOf(o)
    BY <1>0, <1>2, <2>1, <2>3
  <2> QED
    BY <2>2, <2>3
<1>5. row' \in [Names -> Row]
  <2>1. DOMAIN row' = Names /\ row' = [n \in Names |-> row'[n]]
    BY <1>0
  <2> QED
    BY <1>4, <2>1
<1>6. PICK rows : rows = row'
  OBVIOUS
<1>7. /\ \A n \in Names : rows[n] = NoRow \/ rows[n].id # 0
      /\ \A n, m \in Names : rows[n].id = rows[m].id => n = m \/ rows[n] = NoRow
  BY <1>1, <1>4, <1>5, <1>6, RowsStay
<1>8. StateTyped'
  BY <1>0, <1>1, <1>3, <1>5, <1>6, <1>7 DEF StateTyped
<1>9. proc[t].pc \notin Activating
  BY <1>0 DEF Activating
<1> QED
  BY <1>0, <1>3, <1>8, <1>9, Resting

\* RENAME: the messages of INBOX go elsewhere; else a link is made, ...
LEMMA Links ==
  ASSUME RegistryInv, NEW t \in Tasks, RenameInbox(t) \/ LinkNewName(t)
  PROVE  RegistryInv'
<1>0. /\ proc[t].pc = "link" /\ proc[t].name \in Names /\ proc[t].to \in Names /\ StateTyped
      /\ UNCHANGED <<row, uid_vv, active, activating, mbox, calls>>
  BY Here DEF RenameInbox, LinkNewName, At, Proc
<1>1. CASE RenameInbox(t)
  <2>1. Gets(t, proc[t].to, "exists") /\ UNCHANGED <<folders, disputed>>
    BY <1>1 DEF RenameInbox
  <2>2. StateTyped' /\ SameObjects
    BY <1>0, <2>1, SameIfUnchanged DEF StateTyped
  <2> QED
    BY <1>0, <2>1, <2>2, AsksFor
<1>2. CASE LinkNewName(t)
  <2>1. /\ folders' \subseteq folders \cup {proc[t].to}
        /\ disputed' = disputed \cup {proc[t].name, proc[t].to}
        /\ Goto(t, "unlink") \/ Gets(t, proc[t].name, "rename")
    BY <1>2 DEF LinkNewName
  <2>2. StateTyped' /\ SameObjects
    <3>1. folders' \subseteq Names
      BY <1>0, <2>1 DEF StateTyped
    <3>2. disputed' \subseteq Names /\ disputed \subseteq disputed'
      BY <1>0, <2>1 DEF StateTyped
    <3> QED
      BY <1>0, <3>1, <3>2, SameIfUnchanged DEF StateTyped
  <2>3. {proc[t].name, proc[t].to} \subseteq disputed' /\ "unlink" \in Points
    BY <2>1 DEF Points
  <2>4. CASE Goto(t, "unlink")
    BY <1>0, <2>2, <2>3, <2>4, GoesOn
  <2>5. CASE Gets(t, proc[t].name, "rename")
    BY <1>0, <2>2, <2>3, <2>5, AsksFor
  <2> QED
    BY <2>1, <2>4, <2>5
<1> QED
  BY <1>1, <1>2

\* ... the row gets the new name, unless there is one, ...
LEMMA RenamesRow ==
  ASSUME RegistryInv, NEW t \in Tasks, RenameRow(t)
  PROVE  RegistryInv'
<1>0. /\ proc[t].pc = "rename" /\ proc[t].pc \notin Activating
      /\ proc[t].name \in Names /\ proc[t].to \in Names /\ StateTyped
      /\ UNCHANGED <<folders, uid_vv, active, activating, mbox, calls, disputed>>
  BY Here DEF RenameRow, At, Proc, Activating
<1>1. SameObjects
  BY <1>0, SameIfUnchanged
<1>2. CASE row' = row /\ Ends(t)
  <2>1. StateTyped'
    BY <1>0, <1>2 DEF StateTyped
  <2> QED
    BY <1>0, <1>1, <1>2, <2>1, Resting
<1>3. CASE /\ row[proc[t].to] = NoRow /\ Goto(t, "switch")
           /\ row' = [row EXCEPT ![proc[t].to] = row[proc[t].name], ![proc[t].name] = NoRow]
  <2>1. PICK n \in Names, m \in Names : n = proc[t].name /\ m = proc[t].to
    BY <1>0
  <2>2. row' = [row EXCEPT ![m] = row[n], ![n] = NoRow] /\ row[m] = NoRow
    BY <1>3, <2>1
  <2>3. row \in [Names -> Row] /\ NoRow \in Row
    BY <1>0, NoRowTyped DEF StateTyped
  <2>4. /\ row' \in [Names -> Row] /\ row'[n] = NoRow /\ (m # n => row'[m] = row[n])
        /\ \A k \in Names \ {n, m} : row'[k] = row[k]
    BY <2>2, <2>3
  <2>5. NoRow.id = 0
    BY DEF NoRow
  <2>6. ASSUME NEW k \in Names PROVE row'[k] = NoRow \/ row'[k].id # 0
    BY <1>0, <2>4, <2>6 DEF StateTyped
  <2>7. ASSUME NEW k \in Names, NEW j \in Names, row'[k].id = row'[j].id PROVE k = j \/ row'[k] = NoRow
    BY <1>0, <2>4, <2>5, <2>6, <2>7 DEF StateTyped
  <2>8. StateTyped'
    BY <1>0, <2>4, <2>6, <2>7 DEF StateTyped
  <2>9. "switch" \in Points
    BY DEF Points
  <2> QED
    BY <1>0, <1>1, <1>3, <2>8, <2>9, GoesOn
<1> QED
  BY <1>2, <1>3 DEF RenameRow

\* ... and the folder is moved where the link was.
LEMMA Unlinks ==
  ASSUME RegistryInv, NEW t \in Tasks, Unlink(t) \/ MoveFolder(t)
  PROVE  RegistryInv'
<1>0. /\ proc[t].pc \in {"unlink", "move"} /\ proc[t].pc \notin Activating
      /\ proc[t].name \in Names /\ proc[t].to \in Names /\ StateTyped
      /\ UNCHANGED <<row, uid_vv, active, activating, mbox, calls, disputed>>
  BY Here DEF Unlink, MoveFolder, At, Proc, Activating
<1>1. folders' \subseteq Names
  BY <1>0 DEF Unlink, MoveFolder, StateTyped
<1>2. StateTyped' /\ SameObjects
  BY <1>0, <1>1, SameIfUnchanged DEF StateTyped
<1>3. CASE Unlink(t)
  <2>1. proc[t].pc = "unlink" /\ Goto(t, "move") /\ "move" \in Points
    BY <1>3 DEF Unlink, At, Points
  <2> QED
    BY <1>2, <2>1, GoesOn
<1>4. CASE MoveFolder(t)
  <2>1. /\ proc[t].pc = "move" /\ "moved" \in Points
        /\ Ends(t) \/ Goto(t, "moved") \/ \E n \in Names : Gets(t, n, "moved")
    BY <1>4, RegistryAssumption DEF MoveFolder, At, Points
  <2>2. CASE Ends(t)
    BY <1>0, <1>2, <2>2, Resting
  <2>3. CASE Goto(t, "moved")
    BY <1>2, <2>1, <2>3, GoesOn
  <2>4. ASSUME NEW n \in Names, Gets(t, n, "moved") PROVE RegistryInv'
    BY <1>2, <2>1, <2>4, AsksFor
  <2> QED
    BY <2>1, <2>2, <2>3, <2>4
<1> QED
  BY <1>3, <1>4

\* The row of a folder that is gone.
LEMMA RemovesStaleRow ==
  ASSUME RegistryInv, NEW t \in Tasks, RemoveStaleRow(t)
  PROVE  RegistryInv'
<1>0. /\ proc[t].pc = "stale" /\ proc[t].name \in Names /\ StateTyped /\ Goto(t, "pop")
      /\ row' = [row EXCEPT ![proc[t].name] = NoRow] /\ disputed' = disputed \cup {proc[t].name}
      /\ UNCHANGED <<folders, uid_vv, active, activating, mbox, calls>>
  BY Here DEF RemoveStaleRow, At, Proc
<1>1. row' \in [Names -> Row] /\ \A n \in Names : row'[n] = NoRow \/ row'[n] = row[n]
  <2>1. row \in [Names -> Row] /\ NoRow \in Row
    BY <1>0, NoRowTyped DEF StateTyped
  <2> QED
    BY <1>0, <2>1
<1>2. PICK rows \in [Names -> Row] : rows = row'
  BY <1>1
<1>3. /\ \A n \in Names : rows[n] = NoRow \/ rows[n].id # 0
      /\ \A n, m \in Names : rows[n].id = rows[m].id => n = m \/ rows[n] = NoRow
  BY <1>0, <1>1, <1>2, RowsStay
<1>4. disputed' \subseteq Names /\ disputed \subseteq disputed' /\ proc[t].name \in disputed'
  BY <1>0 DEF StateTyped
<1>5. StateTyped' /\ SameObjects
  BY <1>0, <1>1, <1>2, <1>3, <1>4, SameIfUnchanged DEF StateTyped
<1>6. "pop" \in Points
  BY DEF Points
<1> QED
  BY <1>0, <1>4, <1>5, <1>6, GoesOn

\* A task is called.
LEMMA Starts ==
  ASSUME RegistryInv, NEW t \in Tasks, NEW op, NEW n \in Names, NEW m \in Names,
         NEW pc \in {"get", "stale"}, NEW then \in {"queued", "exists", "done"},
         then = "queued" => op \in {"SELECT", "DELETE", "RENAME"},
         Start(t, op, n, m, pc, then)
  PROVE  RegistryInv'
<1>0. /\ proc[t].pc = "idle" /\ op \in Offered /\ calls < MaxCalls /\ calls' = calls + 1
      /\ proc' = [proc EXCEPT ![t] = [Idle EXCEPT !.op = op, !.name = n, !.to = m, !.pc = pc, !.then = then]]
      /\ UNCHANGED <<folders, row, uid_vv, active, activating, mbox, disputed>>
  BY DEF Start, At
<1>1. StateTyped' /\ SameObjects
  <2>1. calls' \in 0..MaxCalls
    BY <1>0, Here, RegistryAssumption DEF StateTyped
  <2> QED
    BY <1>0, <2>1, Here, TypedIfUnchanged, SameIfUnchanged
<1>2. PICK r : r = [Idle EXCEPT !.op = op, !.name = n, !.to = m, !.pc = pc, !.then = then]
  OBVIOUS
<1>3. /\ r \in Proc /\ r.op = op /\ r.name = n /\ r.to = m /\ r.pc = pc /\ r.then = then
      /\ r.held = None /\ r.obj = None
  BY <1>0, <1>2 DEF Idle, Proc, Points
<1>4. /\ r.pc \notin Activating /\ r.pc \notin Handed /\ r.pc # "queued" /\ r.then \in Goals
      /\ proc[t].pc \notin Activating /\ r.pc # "pop"
  BY <1>0, <1>3 DEF Activating, Handed, Goals
<1>5. TaskTyped(r)
  BY <1>3, <1>4 DEF TaskTyped
<1>6. TaskInv(r)
  <2>1. Refers(r) /\ Waits(r) /\ Makes(r) /\ Revives(r)
    BY <1>3, <1>4 DEF Refers, Waits, Makes, Revives
  <2>2. Meddles(r) /\ Deletes(r)
    BY <1>3 DEF Meddles, Deletes, Ousting
  <2> QED
    BY <2>1, <2>2 DEF TaskInv
<1>7. TaskInv(r)'
  BY <1>1, <1>3, <1>5, <1>6, SameTaskInv
<1>8. proc' = [proc EXCEPT ![t] = r]
  BY <1>0, <1>2
<1> QED
  BY <1>1, <1>3, <1>4, <1>5, <1>7, <1>8, Moves

LEMMA Calls ==
  ASSUME RegistryInv, NEW t \in Tasks, Call(t)
  PROVE  RegistryInv'
<1>1. \A n \in Names, m \in Names : Start(t, "RENAME", n, m, "get", "queued") => RegistryInv'
  BY Starts
<1>2. \A n \in Names : \A op \in {"SELECT", "DELETE"} : Start(t, op, n, n, "get", "queued") => RegistryInv'
  BY Starts
<1>3. \A n \in Names : Start(t, "CREATE", n, n, "get", "exists") => RegistryInv'
  BY Starts
<1>4. \A n \in Names : \A pc \in {"get", "stale"} : \A op : Start(t, op, n, n, pc, "done") => RegistryInv'
  BY Starts
<1>5. folders \subseteq Names
  BY Here DEF StateTyped
<1> QED
  BY <1>1, <1>2, <1>3, <1>4, <1>5 DEF Call

-----------------------------------------------------------------------------
(* Activation *)

\* A task does not notice what happens to objects it does not refer to.
LEMMA Untouched ==
  ASSUME NEW p \in Proc, TaskTyped(p), TaskInv(p), UNCHANGED <<active, disputed>>,
         \A x \in {p.obj, p.held} \cap Objects : mbox'[x] = mbox[x],
         Served' = Served, \A x \in Served : mbox'[x].name = mbox[x].name,
         p.pc = "waiting" => activating'[p.name] # "no",
         p.pc \in Activating => activating'[p.name] = "yes"
  PROVE  TaskInv(p)'
<1>0. /\ p.pc \in Handed \cup Activating => p.obj \in Objects
      /\ p.held # None => p.held \in Objects
      /\ p.obj # None => p.obj \in Objects
  BY DEF TaskTyped, Proc
<1>1. \A x \in {p.obj, p.held} \cap Objects :
        /\ x \in Alive' <=> x \in Alive
        /\ x \in Served' <=> x \in Served
        /\ x \in Deleted' <=> x \in Deleted
        /\ x \in Noselect' <=> x \in Noselect
        /\ mbox'[x].name = mbox[x].name
  BY DEF Alive, Served, Deleted, Noselect
<1>2. Refers(p)'
  BY <1>0, <1>1 DEF TaskInv, Refers, Named
<1>3. Waits(p)'
  BY DEF Waits
<1>4. Makes(p)'
  BY <1>0, <1>1 DEF TaskInv, Makes
<1>5. Meddles(p)'
  BY DEF TaskInv, Meddles
<1>6. Revives(p)'
  BY <1>0, <1>1 DEF TaskInv, Revives, Handed
<1>7. Deletes(p)'
  BY <1>0, <1>1 DEF TaskInv, Deletes, Handed, Ousting
<1> QED
  BY <1>2, <1>3, <1>4, <1>5, <1>6, <1>7 DEF TaskInv

\* Two tasks, where one refers to no more than it did.
LEMMA PairKeeps ==
  ASSUME RegistryInv, NEW t \in Tasks, NEW u \in Tasks \ {t}, NEW r \in Proc,
         r.pc \in Activating => proc[t].pc \in Activating /\ r.name = proc[t].name /\ r.obj = proc[t].obj,
         r.obj \in {proc[t].obj, None}, r.held \in {proc[t].held, None},
         proc[t].pc = "queued" /\ r.held # None => r.pc = "queued"
  PROVE  PairInv(r, proc[u]) /\ PairInv(proc[u], r)
<1>1. PairInv(proc[t], proc[u]) /\ PairInv(proc[u], proc[t]) /\ TaskTyped(proc[u])
  BY DEF RegistryInv
<1>2. proc[u].pc \in Activating => proc[u].obj # None
  BY <1>1 DEF TaskTyped
<1> QED
  BY <1>1, <1>2 DEF PairInv

\* What an earlier run knew of the mailbox.
LEMMA Restores ==
  ASSUME RegistryInv, NEW t \in Tasks, RestoreRow(t)
  PROVE  RegistryInv'
<1>0. /\ proc[t].pc = "activating" /\ proc' = [proc EXCEPT ![t].pc = "checking"]
      /\ mbox' = [mbox EXCEPT ![proc[t].obj] = [@ EXCEPT !.id = row[proc[t].name].id,
                    !.vv = row[proc[t].name].vv, !.noselect = row[proc[t].name].noselect]]
      /\ UNCHANGED <<folders, row, uid_vv, active, activating, calls, disputed>>
  BY DEF RestoreRow, At, Goto
<1>1. PICK p \in Proc : p = proc[t] /\ TaskInv(p) /\ TaskTyped(p)
  BY Here
<1>2. p.pc \in Activating /\ p.obj \in Objects /\ p.name \in Names /\ StateTyped /\ ObjectsInv
      /\ proc \in [Tasks -> Proc]
  BY <1>0, <1>1, Here DEF Activating, TaskTyped, Proc
<1>3. PICK o \in Objects : o = p.obj
  BY <1>2
<1>4. /\ activating[p.name] = "yes"
      /\ active[p.name] = None \/ p.name \in disputed
      /\ mbox[o].name = p.name /\ o \notin Served /\ o \notin Deleted /\ o \in Alive
      /\ p.held # o /\ \A n \in Names : active[n] # o
      /\ \A x \in Served : mbox[x].name = p.name => p.name \in disputed
  BY <1>0, <1>1, <1>2, <1>3, RegistryAssumption DEF TaskInv, Makes, Refers
<1>5. /\ mbox' \in [Objects -> Object]
      /\ \A x \in Objects \ {o} : mbox'[x] = mbox[x]
      /\ mbox'[o].alive = mbox[o].alive /\ mbox'[o].name = mbox[o].name
      /\ mbox'[o].deleted = mbox[o].deleted /\ mbox'[o].served = mbox[o].served
  <2>1. mbox \in [Objects -> Object] /\ mbox[o] \in Object /\ row[p.name] \in Row
    BY <1>2 DEF StateTyped
  <2>2. PICK s \in Row : s = row[p.name]
    BY <2>1
  <2>3. PICK b : b = [mbox[o] EXCEPT !.id = s.id, !.vv = s.vv, !.noselect = s.noselect]
    OBVIOUS
  <2>4. /\ b \in Object /\ b.alive = mbox[o].alive /\ b.name = mbox[o].name
        /\ b.deleted = mbox[o].deleted /\ b.served = mbox[o].served
    BY <2>1, <2>3 DEF Object, Row
  <2>5. mbox' = [mbox EXCEPT ![o] = b]
    BY <1>0, <1>1, <1>3, <2>2, <2>3
  <2> QED
    BY <2>1, <2>4, <2>5
<1>6. StateTyped'
  BY <1>0, <1>2, <1>5 DEF StateTyped
<1>7. /\ Alive' = Alive /\ Served' = Served /\ Deleted' = Deleted
      /\ Noselect' \ {o} = Noselect \ {o} /\ \A x \in Objects : mbox'[x].name = mbox[x].name
  BY <1>5 DEF Alive, Served, Deleted, Noselect
<1>8. ObjectsInv'
  <2>1. \A n \in Names : active[n] # None => active[n] \in Objects
    BY <1>2 DEF StateTyped
  <2>2. \A x \in Served : x \in Objects /\ x # o
    BY <1>4 DEF Served
  <2>3. \A x \in Served : x \in Noselect' => x \in Noselect
    BY <1>7, <2>2
  <2> QED
    BY <1>0, <1>2, <1>7, <2>1, <2>2, <2>3 DEF ObjectsInv
<1>9. PICK r : r = [p EXCEPT !.pc = "checking"]
  OBVIOUS
<1>10. /\ r \in Proc /\ r.pc = "checking" /\ r.op = p.op /\ r.name = p.name /\ r.to = p.to
       /\ r.then = p.then /\ r.held = p.held /\ r.obj = p.obj
  <2>1. "checking" \in Points
    BY DEF Points
  <2> QED
    BY <1>9, <2>1, GotoFacts
<1>11. r.pc \in Activating /\ r.pc \in AtGet /\ p.pc \in AtGet /\ r.pc \notin Handed
  BY <1>0, <1>1, <1>10 DEF Activating, AtGet, Handed
<1>12. TaskTyped(r)
  BY <1>1, <1>2, <1>10, <1>11 DEF TaskTyped
<1>13. TaskInv(r)'
  <2>1. Refers(r)'
    BY <1>1, <1>7, <1>10, <1>11 DEF TaskInv, Refers
  <2>2. Makes(r)'
    <3>1. \A x \in Served : x \in Objects
      BY DEF Served
    <3> QED
      BY <1>0, <1>3, <1>4, <1>7, <1>10, <3>1 DEF Makes
  <2>3. Waits(r)' /\ Revives(r)'
    BY <1>10 DEF Waits, Revives
  <2>4. Meddles(r)' /\ Deletes(r)'
    BY <1>0, <1>1, <1>10, <1>11 DEF TaskInv, Meddles, Deletes, Ousting
  <2> QED
    BY <2>1, <2>2, <2>3, <2>4 DEF TaskInv
<1>14. ASSUME NEW q \in {proc[u] : u \in Tasks \ {t}} PROVE TaskInv(q)'
  <2>1. PICK u \in Tasks \ {t} : q = proc[u]
    OBVIOUS
  <2>2. q \in Proc /\ TaskTyped(q) /\ TaskInv(q) /\ PairInv(p, q)
    BY <1>1, <2>1 DEF RegistryInv
  <2>3. q.obj # o /\ q.held # o
    BY <1>2, <1>3, <2>2 DEF PairInv
  <2>4. \A x \in {q.obj, q.held} \cap Objects : mbox'[x] = mbox[x]
    BY <1>5, <2>3
  <2>5. q.pc = "waiting" => activating'[q.name] # "no"
    BY <1>0, <2>2 DEF TaskInv, Waits
  <2>6. q.pc \in Activating => activating'[q.name] = "yes"
    BY <1>0, <2>2 DEF TaskInv, Makes
  <2>7. Served' = Served /\ \A x \in Served : mbox'[x].name = mbox[x].name
    BY <1>7 DEF Served
  <2> QED
    BY <1>0, <2>2, <2>4, <2>5, <2>6, <2>7, Untouched
<1>15. ASSUME NEW u \in Tasks \ {t} PROVE PairInv(r, proc[u]) /\ PairInv(proc[u], r)
  <2>1. p.pc # "queued"
    BY <1>0, <1>1
  <2> QED
    BY <1>1, <1>2, <1>10, <2>1, PairKeeps
<1>16. /\ proc' = [u \in Tasks |-> proc'[u]] /\ proc'[t] = r
       /\ \A u \in Tasks \ {t} : proc'[u] = proc[u]
  BY <1>0, <1>1, <1>2, <1>9
<1>17. EventsInv'
  <2> SUFFICES ASSUME NEW n \in Names, activating[n] = "yes"
               PROVE  \E u \in Tasks : proc'[u].pc \in Activating /\ proc'[u].name = n
    BY <1>0 DEF EventsInv
  <2>1. PICK u \in Tasks : proc[u].pc \in Activating /\ proc[u].name = n
    BY DEF RegistryInv, EventsInv
  <2> QED
    BY <1>1, <1>10, <1>11, <1>16, <2>1
<1>18. \A u \in Tasks \ {t} : Follows(proc[u], proc'[u])
  BY <1>16 DEF Follows
<1> QED
  BY <1>6, <1>8, <1>10, <1>12, <1>13, <1>14, <1>15, <1>16, <1>17, <1>18, StepOf

\* An exception: whoever waits goes on waiting.
LEMMA FailsToActivate ==
  ASSUME RegistryInv, NEW t \in Tasks, ActivationFails(t)
  PROVE  RegistryInv'
<1>1. PICK p \in Proc : p = proc[t] /\ TaskInv(p) /\ TaskTyped(p)
  BY Here
<1>2. PICK r : r \in {Idle, AfterNoSuch(p)} /\ proc' = [proc EXCEPT ![t] = r]
  <2>1. CASE NoSuch(t)
    BY <1>1, <2>1, Here DEF NoSuch
  <2>2. CASE Ends(t)
    BY <2>2 DEF Ends
  <2> QED
    BY <2>1, <2>2 DEF ActivationFails
<1>3. PICK n \in Names : n = p.name
  BY DEF Proc
<1>4. /\ p.pc \in Activating /\ p.pc # "registering" /\ p.pc # "queued"
      /\ activating' = [activating EXCEPT ![n] = "failed"]
      /\ UNCHANGED <<folders, row, uid_vv, active, mbox, calls, disputed>>
  BY <1>1, <1>3 DEF ActivationFails, At, Activating
<1>5. proc \in [Tasks -> Proc] /\ StateTyped /\ ObjectsInv
  BY Here
<1>6. activating' \in [Names -> {"no", "yes", "failed"}] /\ activating'[n] = "failed"
      /\ \A m \in Names \ {n} : activating'[m] = activating[m]
  BY <1>4, <1>5 DEF StateTyped
<1>7. \A o \in Served : /\ mbox[o].name \in Names
                        /\ mbox[o].name = n => n \in disputed
  BY <1>1, <1>3, <1>4, <1>5 DEF TaskInv, Makes, Served, StateTyped, Object
<1>8. Served' = Served /\ Alive' = Alive /\ Noselect' = Noselect
  BY <1>4 DEF Served, Alive, Noselect
<1>9. StateTyped' /\ ObjectsInv'
  <2>1. StateTyped'
    BY <1>4, <1>5, <1>6 DEF StateTyped
  <2>2. ObjectsInv'
    BY <1>4, <1>5, <1>6, <1>7, <1>8 DEF ObjectsInv
  <2> QED
    BY <2>1, <2>2
<1>10. ASSUME NEW q \in {proc[u] : u \in Tasks \ {t}} PROVE TaskInv(q)'
  <2>1. PICK u \in Tasks \ {t} : q = proc[u]
    OBVIOUS
  <2>2. q \in Proc /\ TaskTyped(q) /\ TaskInv(q) /\ PairInv(p, q)
    BY <1>1, <2>1 DEF RegistryInv
  <2>3. q.name \in Names
    BY <2>2 DEF Proc
  <2>4. q.pc = "waiting" => activating'[q.name] # "no"
    BY <1>6, <2>2, <2>3 DEF TaskInv, Waits
  <2>5. q.pc \in Activating => activating'[q.name] = "yes"
    BY <1>3, <1>4, <1>6, <2>2, <2>3 DEF TaskInv, Makes, PairInv
  <2> QED
    BY <1>4, <1>8, <2>2, <2>4, <2>5, Untouched
<1>11. /\ r \in Proc /\ TaskTyped(r) /\ TaskInv(r) /\ r.pc \notin Activating
       /\ r.pc \in {"mkdir", "stale", "idle"}
       /\ r.held \in {p.held, None} /\ r.obj \in {p.obj, None}
  BY <1>1, <1>2, NoSuchFacts, QuietFacts
<1>12. TaskInv(r)'
  <2>1. r.pc # "waiting"
    BY <1>11
  <2> QED
    BY <1>4, <1>8, <1>11, <2>1, Untouched
<1>13. ASSUME NEW u \in Tasks \ {t} PROVE PairInv(r, proc[u]) /\ PairInv(proc[u], r)
  BY <1>1, <1>4, <1>11, PairKeeps
<1>14. /\ proc' = [u \in Tasks |-> proc'[u]] /\ proc'[t] = r
       /\ \A u \in Tasks \ {t} : proc'[u] = proc[u]
  BY <1>2, <1>5
<1>15. EventsInv'
  <2> SUFFICES ASSUME NEW m \in Names, activating'[m] = "yes"
               PROVE  \E u \in Tasks : proc'[u].pc \in Activating /\ proc'[u].name = m
    BY DEF EventsInv
  <2>1. m # n /\ activating[m] = "yes"
    BY <1>6
  <2>2. PICK u \in Tasks : proc[u].pc \in Activating /\ proc[u].name = m
    BY <2>1 DEF RegistryInv, EventsInv
  <2>3. u # t
    BY <1>1, <1>3, <2>1, <2>2
  <2> QED
    BY <1>14, <2>2, <2>3
<1>16. \A u \in Tasks \ {t} : Follows(proc[u], proc'[u])
  BY <1>14 DEF Follows
<1> QED
  BY <1>9, <1>10, <1>11, <1>12, <1>13, <1>14, <1>15, <1>16, StepOf

\* A new object, that nobody refers to.
LEMMA StartsToActivate ==
  ASSUME RegistryInv, NEW t \in Tasks, GetActivates(t)
  PROVE  RegistryInv'
<1>1. PICK p \in Proc : p = proc[t] /\ TaskInv(p) /\ TaskTyped(p)
  BY Here
<1>2. PICK n \in Names : n = p.name
  BY DEF Proc
<1>3. PICK o \in Objects :
        /\ ~ mbox[o].alive /\ mbox' = [mbox EXCEPT ![o] = Fresh(n)]
        /\ proc' = [proc EXCEPT ![t] = [@ EXCEPT !.obj = o, !.pc = "activating"]]
  BY <1>1, <1>2 DEF GetActivates, Unborn
<1>4. /\ p.pc = "get" /\ active[n] = None /\ activating[n] = "no"
      /\ activating' = [activating EXCEPT ![n] = "yes"]
      /\ UNCHANGED <<folders, row, uid_vv, active, calls, disputed>>
  BY <1>1, <1>2 DEF GetActivates, At
<1>5. proc \in [Tasks -> Proc] /\ StateTyped /\ ObjectsInv
  BY Here
<1>6. activating' \in [Names -> {"no", "yes", "failed"}] /\ activating'[n] = "yes"
      /\ \A m \in Names \ {n} : activating'[m] = activating[m]
  BY <1>4, <1>5 DEF StateTyped
<1>7. /\ mbox' \in [Objects -> Object] /\ mbox'[o] = Fresh(n)
      /\ \A x \in Objects \ {o} : mbox'[x] = mbox[x]
  <2>1. 0 \in 0..Cardinality(Names) /\ 0 \in 0..MaxVv
    <3>1. Cardinality(Names) \in Nat /\ MaxVv \in Nat
      BY RegistryAssumption, FS_CardinalityType
    <3> QED
      BY <3>1
  <2>2. Fresh(n) \in Object
    BY <2>1 DEF Fresh, Object
  <2> QED
    BY <1>3, <1>5, <2>2 DEF StateTyped
<1>8. /\ o \notin Alive /\ o # None /\ o \notin Served
      /\ Alive' = Alive \cup {o} /\ Served' = Served /\ o \notin Deleted'
      /\ Noselect' \ {o} = Noselect \ {o} /\ mbox'[o].name = n
  <2>1. o \notin Alive /\ o # None
    BY <1>3, RegistryAssumption DEF Alive
  <2>2. o \notin Served
    BY <1>5, <2>1 DEF ObjectsInv
  <2>3. Fresh(n).alive /\ ~ Fresh(n).served /\ ~ Fresh(n).deleted /\ Fresh(n).name = n
    BY DEF Fresh
  <2>4. o \in Alive' /\ o \notin Served' /\ o \notin Deleted' /\ mbox'[o].name = n
    BY <1>7, <2>3 DEF Alive, Served, Deleted
  <2>5. \A x \in Objects \ {o} : /\ x \in Alive' <=> x \in Alive
                                 /\ x \in Served' <=> x \in Served
                                 /\ x \in Noselect' <=> x \in Noselect
    BY <1>7 DEF Alive, Served, Noselect
  <2>6. Alive' \cup Alive \cup Served' \cup Served \cup Noselect \cup Noselect' \subseteq Objects
    BY DEF Alive, Served, Noselect
  <2> QED
    BY <2>1, <2>2, <2>4, <2>5, <2>6
<1>9. StateTyped'
  BY <1>4, <1>5, <1>6, <1>7 DEF StateTyped
<1>10. \A m \in Names : active[m] # o /\ (active[m] # None => active[m] \in Objects \ {o})
  BY <1>5, <1>8 DEF ObjectsInv, StateTyped
<1>11. ObjectsInv'
  <2>1. \A x \in Served : x \in Objects \ {o} /\ (x \in Noselect' => x \in Noselect)
    BY <1>8 DEF Served
  <2>2. \A x \in Served : mbox[x].name \in Names
    BY <1>5, <2>1 DEF StateTyped, Object
  <2>3. \A m \in Names : activating[m] = "yes" => activating'[m] = "yes"
    BY <1>6
  <2> QED
    BY <1>4, <1>5, <1>7, <1>8, <1>10, <2>1, <2>2, <2>3 DEF ObjectsInv
<1>12. \A u \in Tasks : proc[u].obj # o /\ proc[u].held # o
  BY <1>8 DEF RegistryInv, TaskInv, Refers
<1>13. PICK r : r = [p EXCEPT !.obj = o, !.pc = "activating"]
  OBVIOUS
<1>14. /\ r \in Proc /\ r.pc = "activating" /\ r.op = p.op /\ r.name = p.name /\ r.to = p.to
       /\ r.then = p.then /\ r.held = p.held /\ r.obj = o
  BY <1>13 DEF Proc, Points
<1>15. r.pc \in Activating /\ r.pc \in AtGet /\ p.pc \in AtGet /\ r.pc \notin Handed /\ p.pc \notin Activating
  BY <1>4, <1>14 DEF Activating, AtGet, Handed
<1>16. TaskTyped(r)
  BY <1>1, <1>8, <1>14, <1>15 DEF TaskTyped
<1>17. TaskInv(r)'
  <2>1. Refers(r)'
    BY <1>1, <1>8, <1>14, <1>15 DEF TaskInv, Refers
  <2>2. Makes(r)'
    <3>1. ASSUME NEW x \in Served, mbox'[x].name = n PROVE n \in disputed
      <4>1. x \in Objects \ {o} /\ mbox[x].name = n
        BY <1>7, <1>8, <3>1 DEF Served
      <4>2. x # None
        BY <4>1, RegistryAssumption
      <4> QED
        BY <1>4, <1>5, <3>1, <4>1, <4>2 DEF ObjectsInv
    <3> QED
      BY <1>1, <1>2, <1>4, <1>6, <1>8, <1>10, <1>12, <1>14, <3>1 DEF Makes
  <2>3. Waits(r)' /\ Revives(r)'
    BY <1>14 DEF Waits, Revives
  <2>4. Meddles(r)' /\ Deletes(r)'
    BY <1>1, <1>2, <1>4, <1>14, <1>15 DEF TaskInv, Meddles, Deletes, Ousting
  <2> QED
    BY <2>1, <2>2, <2>3, <2>4 DEF TaskInv
<1>18. ASSUME NEW q \in {proc[u] : u \in Tasks \ {t}} PROVE TaskInv(q)'
  <2>1. PICK u \in Tasks \ {t} : q = proc[u]
    OBVIOUS
  <2>2. q \in Proc /\ TaskTyped(q) /\ TaskInv(q)
    BY <2>1 DEF RegistryInv
  <2>3. \A x \in {q.obj, q.held} \cap Objects : mbox'[x] = mbox[x]
    BY <1>7, <1>12, <2>1
  <2>4. q.name \in Names
    BY <2>2 DEF Proc
  <2>5. q.pc = "waiting" => activating'[q.name] # "no"
    BY <1>6, <2>2, <2>4 DEF TaskInv, Waits
  <2>6. q.pc \in Activating => activating'[q.name] = "yes"
    BY <1>6, <2>2, <2>4 DEF TaskInv, Makes
  <2>7. Served' = Served /\ \A x \in Served : mbox'[x].name = mbox[x].name
    BY <1>7, <1>8 DEF Served
  <2> QED
    BY <1>4, <2>2, <2>3, <2>5, <2>6, <2>7, Untouched
<1>19. ASSUME NEW u \in Tasks \ {t} PROVE PairInv(r, proc[u]) /\ PairInv(proc[u], r)
  <2>1. /\ PairInv(p, proc[u]) /\ PairInv(proc[u], p) /\ TaskTyped(proc[u]) /\ TaskInv(proc[u])
    BY <1>1 DEF RegistryInv
  <2>2. proc[u].pc \in Activating => activating[proc[u].name] = "yes"
    BY <2>1 DEF TaskInv, Makes
  <2> QED
    BY <1>2, <1>4, <1>12, <1>14, <1>15, <2>1, <2>2 DEF PairInv
<1>20. /\ proc' = [u \in Tasks |-> proc'[u]] /\ proc'[t] = r
       /\ \A u \in Tasks \ {t} : proc'[u] = proc[u]
  BY <1>1, <1>3, <1>5, <1>13
<1>21. EventsInv'
  <2> SUFFICES ASSUME NEW m \in Names, activating'[m] = "yes"
               PROVE  \E u \in Tasks : proc'[u].pc \in Activating /\ proc'[u].name = m
    BY DEF EventsInv
  <2>1. CASE m = n
    BY <1>2, <1>14, <1>15, <1>20, <2>1
  <2>2. CASE m # n
    <3>1. PICK u \in Tasks : proc[u].pc \in Activating /\ proc[u].name = m
      BY <1>6, <2>2 DEF RegistryInv, EventsInv
    <3>2. u # t
      BY <1>1, <1>15, <3>1
    <3> QED
      BY <1>20, <3>1, <3>2
  <2> QED
    BY <2>1, <2>2
<1>22. \A u \in Tasks \ {t} : Follows(proc[u], proc'[u])
  BY <1>20 DEF Follows
<1> QED
  BY <1>9, <1>11, <1>14, <1>16, <1>17, <1>18, <1>19, <1>20, <1>21, <1>22, StepOf

\* The mailbox is registered, and whoever waits for it is woken: the tasks.
\* A task that goes on with the mailbox it has.
WithMailbox(p) == [p EXCEPT !.pc = p.then, !.obj = p.obj]

LEMMA RegisterTasks ==
  ASSUME RegistryInv, NEW t \in Tasks, Register(t), NEW p \in Proc, p = proc[t],
         p.pc \in {"checking", "registering"}
  PROVE  /\ proc' = [u \in Tasks |-> proc'[u]]
         /\ proc'[t] = WithMailbox(p)
         /\ \A u \in Tasks \ {t} :
              proc'[u] = IF proc[u].pc = "waiting" /\ proc[u].name = p.name
                         THEN [proc[u] EXCEPT !.pc = "woken"] ELSE proc[u]
<1>1. /\ p.pc # "waiting" /\ TaskInv(p) /\ TaskTyped(p)
      /\ proc' = HandedWith([u \in Tasks |-> IF proc[u].pc = "waiting" /\ proc[u].name = p.name
                                             THEN [proc[u] EXCEPT !.pc = "woken"] ELSE proc[u]], t, p.obj)
  BY Here DEF Register
<1>2. PICK ps : ps = [u \in Tasks |-> IF proc[u].pc = "waiting" /\ proc[u].name = p.name
                                      THEN [proc[u] EXCEPT !.pc = "woken"] ELSE proc[u]]
  OBVIOUS
<1>3. p.pc \in Activating /\ p.obj \in Objects /\ p.obj \notin Deleted
  BY <1>1 DEF Activating, TaskTyped, TaskInv, Makes, Proc
<1>4. ~ mbox[p.obj].deleted
  BY <1>3 DEF Deleted
<1>5. ps[t] = p
  BY <1>1, <1>2
<1>6. proc' = [ps EXCEPT ![t] = [@ EXCEPT !.pc = p.then, !.obj = p.obj]]
  BY <1>1, <1>2, <1>4, <1>5 DEF HandedWith
<1> QED
  BY <1>2, <1>5, <1>6 DEF WithMailbox

\* The objects.
LEMMA ActivateObjects ==
  ASSUME StateTyped, NEW o \in Objects, o \notin Served, NEW v \in BOOLEAN,
         mbox' = [mbox EXCEPT ![o].served = v], v = ~ mbox[o].noselect
  PROVE  /\ mbox' \in [Objects -> Object]
         /\ \A x \in Objects : mbox'[x].name = mbox[x].name
         /\ Alive' = Alive /\ Deleted' = Deleted /\ Noselect' = Noselect
         /\ Served \subseteq Served' /\ Served' \subseteq Served \cup {o}
         /\ o \in Served' => o \notin Noselect'
<1>1. mbox \in [Objects -> Object] /\ mbox[o] \in Object
  BY DEF StateTyped
<1>2. PICK b : b = [mbox[o] EXCEPT !.served = v]
  OBVIOUS
<1>3. /\ b \in Object /\ b.alive = mbox[o].alive /\ b.name = mbox[o].name
      /\ b.noselect = mbox[o].noselect /\ b.deleted = mbox[o].deleted /\ b.served = v
  BY <1>1, <1>2 DEF Object
<1>4. mbox' = [mbox EXCEPT ![o] = b]
  BY <1>2
<1>5. mbox' \in [Objects -> Object] /\ mbox'[o] = b /\ \A x \in Objects \ {o} : mbox'[x] = mbox[x]
  BY <1>1, <1>3, <1>4
<1>6. \A x \in Objects : /\ mbox'[x].alive = mbox[x].alive /\ mbox'[x].name = mbox[x].name
                         /\ mbox'[x].noselect = mbox[x].noselect /\ mbox'[x].deleted = mbox[x].deleted
  BY <1>3, <1>5
<1>7. Alive' = Alive /\ Deleted' = Deleted /\ Noselect' = Noselect
  BY <1>6 DEF Alive, Deleted, Noselect
<1>8. Served \subseteq Served' /\ Served' \subseteq Served \cup {o}
  BY <1>5 DEF Served
<1>9. o \in Served' => o \notin Noselect'
  BY <1>3, <1>5 DEF Served, Noselect
<1> QED
  BY <1>5, <1>6, <1>7, <1>8, <1>9

LEMMA Registers ==
  ASSUME RegistryInv, NEW t \in Tasks, Register(t), NEW p \in Proc, p = proc[t],
         p.pc \in {"checking", "registering"}, NEW o \in Objects, o = p.obj,
         UNCHANGED <<folders, row, uid_vv, calls, disputed>>,
         mbox' \in [Objects -> Object], \A x \in Objects : mbox'[x].name = mbox[x].name,
         Alive' = Alive, Deleted' = Deleted, Noselect' = Noselect,
         Served \subseteq Served', Served' \subseteq Served \cup {o},
         o \in Served' => o \in Served \/ o \notin Noselect'
  PROVE  RegistryInv'
<1>1. TaskInv(p) /\ TaskTyped(p)
  BY Here
<1>2. PICK n \in Names : n = p.name
  BY DEF Proc
<1>3. p.pc \in Activating /\ p.pc \in AtGet
  BY DEF Activating, AtGet
<1>4. o # None
  BY RegistryAssumption
<1>5. active' = [active EXCEPT ![n] = o] /\ activating' = [activating EXCEPT ![n] = "no"]
  BY <1>2 DEF Register
<1>6. StateTyped /\ ObjectsInv /\ proc \in [Tasks -> Proc]
  BY Here
<1>7. /\ activating[n] = "yes"
      /\ active[n] = None \/ n \in disputed
      /\ mbox[o].name = n /\ o \notin Deleted /\ o \in Alive
      /\ p.held # o /\ (\A m \in Names : active[m] # o)
      /\ \A x \in Served : mbox[x].name = n => n \in disputed \/ x = o
  BY <1>1, <1>2, <1>3, <1>4 DEF TaskInv, Makes, Refers
<1>9. /\ active' \in [Names -> Objects \cup {None}] /\ active'[n] = o
      /\ \A m \in Names \ {n} : active'[m] = active[m]
      /\ activating' \in [Names -> {"no", "yes", "failed"}] /\ activating'[n] = "no"
      /\ \A m \in Names \ {n} : activating'[m] = activating[m]
  BY <1>5, <1>6 DEF StateTyped
<1>10. StateTyped'
  BY <1>6, <1>9 DEF StateTyped
<1>11. ObjectsInv'
  <2>1. ASSUME NEW m \in Names, active'[m] # None
        PROVE  active'[m] \in Alive' /\ mbox'[active'[m]].name = m
    <3>1. CASE m = n
      BY <1>4, <1>7, <1>9, <3>1
    <3>2. CASE m # n
      <4>1. active[m] \in Alive /\ mbox[active[m]].name = m /\ active[m] \in Objects
        BY <1>6, <1>9, <2>1, <3>2 DEF ObjectsInv, StateTyped
      <4> QED
        BY <1>9, <3>2, <4>1
    <3> QED
      BY <3>1, <3>2
  <2>2. ASSUME NEW x \in Served'
        PROVE  /\ x \in Alive'
               /\ \/ active'[mbox'[x].name] = x \/ mbox'[x].name \in disputed'
                  \/ activating'[mbox'[x].name] = "yes"
               /\ x \in Noselect' => mbox'[x].name \in Kept \/ mbox'[x].name \in disputed'
    <3>1. CASE x = o
      <4>1. o \in Noselect' => n \in Kept \/ n \in disputed
        BY <1>6, <1>7, <2>2, <3>1 DEF ObjectsInv
      <4> QED
        BY <1>7, <1>9, <2>2, <3>1, <4>1
    <3>2. CASE x # o
      <4>1. x \in Served /\ x \in Objects
        BY <2>2, <3>2 DEF Served
      <4>2. PICK m \in Names : m = mbox[x].name
        BY <1>6, <4>1 DEF StateTyped, Object
      <4>3. /\ x \in Alive
            /\ active[m] = x \/ m \in disputed \/ activating[m] = "yes"
            /\ x \in Noselect => m \in Kept \/ m \in disputed
        BY <1>6, <4>1, <4>2 DEF ObjectsInv
      <4>4. active'[m] = x \/ m \in disputed \/ activating'[m] = "yes"
        <5>1. CASE m = n
          BY <1>7, <3>2, <4>1, <4>2, <5>1
        <5>2. CASE m # n
          BY <1>9, <4>3, <5>2
        <5> QED
          BY <5>1, <5>2
      <4> QED
        BY <4>1, <4>2, <4>3, <4>4
    <3> QED
      BY <3>1, <3>2
  <2> QED
    BY <2>1, <2>2 DEF ObjectsInv
<1>12. PICK r : r = [p EXCEPT !.pc = p.then, !.obj = p.obj]
  OBVIOUS
<1>13. /\ r \in Proc /\ r.pc = p.then /\ r.op = p.op /\ r.name = p.name /\ r.to = p.to
       /\ r.then = p.then /\ r.held = p.held /\ r.obj = o
  <2>1. p.then \in Points
    BY <1>1, <1>3, PointsFacts DEF TaskTyped
  <2> QED
    BY <1>4, <1>12, <2>1 DEF Proc
<1>14. p.then \in Goals /\ r.pc \notin Activating /\ r.pc \notin AtGet /\ r.pc # "waiting"
  BY <1>1, <1>3, <1>13 DEF TaskTyped, Goals, Activating, AtGet
<1>15. TaskTyped(r)
  BY <1>1, <1>3, <1>4, <1>13, <1>14 DEF TaskTyped
<1>16. TaskInv(r)'
  <2>1. Refers(r)'
    <3>1. Named(o, n)'
      BY <1>7 DEF Named
    <3>2. r.pc = "queued" => r.held = None
      BY <1>1, <1>3, <1>13 DEF TaskTyped
    <3>3. r.obj \in Alive' /\ r.held \in Alive' \cup {None}
      BY <1>1, <1>7, <1>13 DEF TaskInv, Refers
    <3> QED
      BY <1>2, <1>13, <3>1, <3>2, <3>3 DEF Refers
  <2>2. Waits(r)' /\ Makes(r)'
    BY <1>14 DEF Waits, Makes
  <2>3. Meddles(r)'
    BY <1>1, <1>3, <1>5, <1>13, <1>14 DEF TaskInv, Meddles, Goals
  <2>4. Revives(r)'
    BY <1>2, <1>9, <1>13 DEF Revives
  <2>5. Deletes(r)'
    BY <1>1, <1>3, <1>13, <1>14 DEF TaskInv, Deletes, Goals, Ousting
  <2> QED
    BY <2>1, <2>2, <2>3, <2>4, <2>5 DEF TaskInv
<1>17. /\ proc' = [u \in Tasks |-> proc'[u]] /\ proc'[t] = r
       /\ \A u \in Tasks \ {t} :
            proc'[u] = IF proc[u].pc = "waiting" /\ proc[u].name = n
                       THEN [proc[u] EXCEPT !.pc = "woken"] ELSE proc[u]
  <2>1. proc' = [u \in Tasks |-> proc'[u]]
    BY RegisterTasks
  <2>2. proc'[t] = WithMailbox(p)
    BY RegisterTasks
  <2>3. \A u \in Tasks \ {t} :
             proc'[u] = IF proc[u].pc = "waiting" /\ proc[u].name = p.name
                        THEN [proc[u] EXCEPT !.pc = "woken"] ELSE proc[u]
    BY RegisterTasks
  <2>4. WithMailbox(p) = r
    BY <1>12 DEF WithMailbox
  <2> QED
    BY <1>2, <2>1, <2>2, <2>3, <2>4, Zenon
<1>18. \A u \in Tasks \ {t} : Follows(proc[u], proc'[u])
  BY <1>17 DEF Follows
<1>19. ASSUME NEW q \in {proc'[u] : u \in Tasks \ {t}} PROVE TaskInv(q)'
  <2>1. PICK u \in Tasks \ {t} : q = proc'[u]
    OBVIOUS
  <2>2. PICK s \in Proc : s = proc[u] /\ TaskTyped(s) /\ TaskInv(s) /\ PairInv(p, s) /\ PairInv(s, p)
    BY <1>1, <1>6 DEF RegistryInv
  <2>3. /\ s.pc \in Handed \cup Activating => s.obj \in Objects
        /\ s.held # None => s.held \in Objects
        /\ s.obj # None => s.obj \in Objects
        /\ s.name \in Names /\ s.obj # o
    BY <1>3, <1>4, <2>2 DEF TaskTyped, Proc, PairInv
  <2>4. Refers(s)'
    BY <1>5, <2>2, <2>3 DEF TaskInv, Refers, Named
  <2>5. Makes(s)'
    <3> SUFFICES ASSUME s.pc \in Activating PROVE Makes(s)'
      BY DEF Makes
    <3>1. s.name # n
      BY <1>2, <1>3, <2>2 DEF PairInv
    <3>2. \A m \in Names : active'[m] # s.obj
      BY <1>9, <2>2, <2>3 DEF TaskInv, Makes
    <3>3. s.obj \notin Served' \/ s.pc = "registering"
      BY <2>2, <2>3 DEF TaskInv, Makes
    <3>4. ASSUME NEW x \in Served', mbox'[x].name = s.name
          PROVE  s.name \in disputed \/ (x = s.obj /\ s.pc = "registering")
      <4>1. x \in Served
        BY <1>7, <3>1, <3>4
      <4> QED
        BY <2>2, <3>4, <4>1 DEF TaskInv, Makes, Served
    <3>5. /\ activating'[s.name] = "yes"
          /\ active'[s.name] = None \/ s.name \in disputed
          /\ mbox'[s.obj].name = s.name /\ s.obj \notin Deleted' /\ s.held # s.obj
      BY <1>9, <2>2, <2>3, <3>1 DEF TaskInv, Makes
    <3> QED
      BY <3>2, <3>3, <3>4, <3>5 DEF Makes
  <2>6. Meddles(s)'
    BY <1>5, <2>2 DEF TaskInv, Meddles
  <2>7. s.obj # None => (active[s.name] = s.obj => active'[s.name] = s.obj \/ s.name \in disputed)
    BY <1>7, <1>9, <2>3
  <2>8. s.held # None => (active[s.name] = s.held => active'[s.name] = s.held \/ s.name \in disputed)
    BY <1>7, <1>9, <2>3
  <2>9. Revives(s)'
    <3>1. s.pc = "exists" => s.obj # None
      BY <2>2 DEF TaskTyped, Handed
    <3> QED
      BY <1>5, <2>2, <2>7, <3>1 DEF TaskInv, Revives
  <2>10. Deletes(s)'
    <3>1. s.pc \in Ousting => s.obj # None
      BY <2>2 DEF TaskTyped, Handed, Ousting
    <3> QED
      BY <1>5, <2>2, <2>3, <2>7, <2>8, <3>1 DEF TaskInv, Deletes
  <2>11. CASE s.pc = "waiting" /\ s.name = n
    <3>1. q = [s EXCEPT !.pc = "woken"] /\ "woken" \in Points
      BY <1>17, <2>1, <2>2, <2>11 DEF Points
    <3>2. /\ q \in Proc /\ q.pc = "woken" /\ q.op = s.op /\ q.name = s.name /\ q.to = s.to
          /\ q.then = s.then /\ q.held = s.held /\ q.obj = s.obj
      BY <3>1, GotoFacts
    <3>3. /\ q.pc \notin Activating /\ q.pc \notin Handed /\ q.pc \in AtGet /\ s.pc \in AtGet
          /\ s.pc \notin Handed
      BY <2>11, <3>2 DEF Activating, Handed, AtGet
    <3>4. Refers(q)'
      BY <2>4, <3>2, <3>3 DEF Refers
    <3>5. Waits(q)' /\ Makes(q)' /\ Revives(q)'
      BY <3>2, <3>3 DEF Waits, Makes, Revives
    <3>6. Meddles(q)'
      BY <2>6, <2>11, <3>2, <3>3 DEF Meddles
    <3>7. Deletes(q)'
      BY <2>10, <2>11, <3>2, <3>3 DEF Deletes, Ousting
    <3> QED
      BY <3>4, <3>5, <3>6, <3>7 DEF TaskInv
  <2>12. CASE ~ (s.pc = "waiting" /\ s.name = n)
    <3>1. q = s
      BY <1>17, <2>1, <2>2, <2>12
    <3>2. Waits(s)'
      BY <1>9, <2>2, <2>3, <2>12 DEF TaskInv, Waits
    <3>3. TaskInv(s)'
      BY <2>4, <2>5, <2>6, <2>9, <2>10, <3>2 DEF TaskInv
    <3> QED
      BY <3>1, <3>3
  <2> QED
    BY <2>11, <2>12
<1>20. ASSUME NEW u \in Tasks \ {t} PROVE PairInv(r, proc[u]) /\ PairInv(proc[u], r)
  <2>1. p.pc # "queued" /\ r.obj \in {p.obj, None} /\ r.held \in {p.held, None}
    BY <1>3, <1>4, <1>13
  <2> QED
    BY <1>1, <1>13, <1>14, <2>1, PairKeeps
<1>21. EventsInv'
  <2> SUFFICES ASSUME NEW m \in Names, activating'[m] = "yes"
               PROVE  \E u \in Tasks : proc'[u].pc \in Activating /\ proc'[u].name = m
    BY DEF EventsInv
  <2>1. m # n /\ activating[m] = "yes"
    BY <1>9
  <2>2. PICK u \in Tasks : proc[u].pc \in Activating /\ proc[u].name = m
    BY <2>1 DEF RegistryInv, EventsInv
  <2>3. u # t /\ proc[u].pc # "waiting"
    BY <1>1, <1>2, <2>1, <2>2 DEF Activating
  <2> QED
    BY <1>17, <2>2, <2>3
<1> QED
  BY <1>10, <1>11, <1>13, <1>15, <1>16, <1>17, <1>18, <1>19, <1>20, <1>21, StepsOf

\* The folder was looked at: there is a management task, unless the
\* mailbox is \Noselect.
LEMMA CheckedFacts ==
  ASSUME RegistryInv, NEW t \in Tasks, Checked(t), NEW p \in Proc, p = proc[t]
  PROVE  /\ p.pc = "checking" /\ p.obj \in Objects
         /\ UNCHANGED <<folders, row, uid_vv, calls, disputed>>
         /\ mbox' \in [Objects -> Object]
         /\ \A x \in Objects : mbox'[x].name = mbox[x].name
         /\ Alive' = Alive /\ Deleted' = Deleted /\ Noselect' = Noselect
         /\ Served \subseteq Served' /\ Served' \subseteq Served \cup {p.obj}
         /\ p.obj \in Served' => p.obj \notin Noselect'
<1>1. /\ p.pc = "checking" /\ p.pc \in Activating /\ TaskInv(p) /\ TaskTyped(p) /\ StateTyped
  BY Here DEF Checked, At, Activating
<1>2. PICK o \in Objects : o = p.obj
  BY <1>1 DEF TaskTyped, Proc
<1>3. o \notin Served
  BY <1>1, <1>2 DEF TaskInv, Makes
<1>4. PICK v \in BOOLEAN : v = ~ mbox[o].noselect
  OBVIOUS
<1>5. mbox' = [mbox EXCEPT ![o].served = v] /\ UNCHANGED <<folders, row, uid_vv, calls, disputed>>
  BY <1>2, <1>4 DEF Checked
<1>6. /\ mbox' \in [Objects -> Object]
      /\ \A x \in Objects : mbox'[x].name = mbox[x].name
      /\ Alive' = Alive /\ Deleted' = Deleted /\ Noselect' = Noselect
      /\ Served \subseteq Served' /\ Served' \subseteq Served \cup {o}
      /\ o \in Served' => o \notin Noselect'
  BY <1>1, <1>3, <1>4, <1>5, ActivateObjects
<1> QED
  BY <1>1, <1>2, <1>5, <1>6

LEMMA Activates ==
  ASSUME RegistryInv, NEW t \in Tasks, Activate(t) \/ ActivateLate(t)
  PROVE  RegistryInv'
<1>1. PICK p \in Proc : p = proc[t] /\ TaskTyped(p)
  BY Here
<1>2. CASE Activate(t)
  <2>1. Checked(t) /\ Register(t)
    BY <1>2 DEF Activate
  <2> QED
    BY <1>1, <2>1, CheckedFacts, Registers
<1>3. CASE ActivateLate(t)
  <2>1. /\ p.pc = "registering" /\ p.pc \in Activating /\ Register(t)
        /\ UNCHANGED <<folders, row, uid_vv, mbox, calls, disputed>>
    BY <1>1, <1>3 DEF ActivateLate, At, Activating
  <2>2. p.obj \in Objects
    BY <1>1, <2>1 DEF TaskTyped, Proc
  <2>3. mbox' \in [Objects -> Object] /\ \A x \in Objects : mbox'[x].name = mbox[x].name
    BY <2>1, Here DEF StateTyped
  <2>4. Alive' = Alive /\ Deleted' = Deleted /\ Noselect' = Noselect /\ Served' = Served
    BY <2>1 DEF Alive, Deleted, Noselect, Served
  <2> QED
    BY <1>1, <2>1, <2>2, <2>3, <2>4, Registers
<1> QED
  BY <1>2, <1>3

\* RENAME has the lock: the mailbox is served, and not registered yet.
LEMMA WaitsToRegister ==
  ASSUME RegistryInv, NEW t \in Tasks, WaitToRegister(t)
  PROVE  RegistryInv'
<1>1. PICK p \in Proc : p = proc[t] /\ TaskInv(p) /\ TaskTyped(p)
  BY Here
<1>2. Checked(t) /\ Goto(t, "registering") /\ UNCHANGED <<active, activating>>
  BY DEF WaitToRegister
<1>3. PICK n \in Names, o \in Objects : n = p.name /\ o = p.obj
  BY <1>1, <1>2, CheckedFacts DEF Proc
<1>4. /\ p.pc = "checking"
      /\ UNCHANGED <<folders, row, uid_vv, calls, disputed>>
      /\ mbox' \in [Objects -> Object]
      /\ \A x \in Objects : mbox'[x].name = mbox[x].name
      /\ Alive' = Alive /\ Deleted' = Deleted /\ Noselect' = Noselect
      /\ Served \subseteq Served' /\ Served' \subseteq Served \cup {o}
      /\ o \in Served' => o \notin Noselect'
  BY <1>1, <1>2, <1>3, CheckedFacts
<1>5. StateTyped /\ ObjectsInv /\ proc \in [Tasks -> Proc] /\ p.pc \in Activating /\ p.pc \in AtGet
  BY <1>4, Here DEF Activating, AtGet
<1>6. /\ activating[n] = "yes"
      /\ active[n] = None \/ n \in disputed
      /\ mbox[o].name = n /\ o \notin Deleted /\ o \in Alive
      /\ p.held # o /\ (\A m \in Names : active[m] # o)
      /\ \A x \in Served : mbox[x].name = n => n \in disputed
  BY <1>1, <1>3, <1>4, <1>5, RegistryAssumption DEF TaskInv, Makes, Refers
<1>7. \A x \in Served' \cup Served : x \in Objects
  BY <1>4 DEF Served
<1>8. StateTyped'
  BY <1>2, <1>4, <1>5 DEF StateTyped
<1>9. ObjectsInv'
  <2>1. \A m \in Names : active[m] # None => active[m] \in Objects
    BY <1>5 DEF StateTyped
  <2>2. ASSUME NEW x \in Served'
        PROVE  /\ x \in Alive'
               /\ \/ active'[mbox'[x].name] = x \/ mbox'[x].name \in disputed'
                  \/ activating'[mbox'[x].name] = "yes"
               /\ x \in Noselect' => mbox'[x].name \in Kept \/ mbox'[x].name \in disputed'
    <3>1. CASE x = o
      BY <1>2, <1>4, <1>6, <2>2, <3>1
    <3>2. CASE x # o
      <4>1. x \in Served /\ x \in Objects
        BY <1>4, <1>7, <2>2, <3>2
      <4> QED
        BY <1>2, <1>4, <1>5, <4>1 DEF ObjectsInv
    <3> QED
      BY <3>1, <3>2
  <2> QED
    BY <1>2, <1>4, <1>5, <2>1, <2>2 DEF ObjectsInv
<1>10. PICK r : r = [p EXCEPT !.pc = "registering"]
  OBVIOUS
<1>11. /\ r \in Proc /\ r.pc = "registering" /\ r.op = p.op /\ r.name = p.name /\ r.to = p.to
       /\ r.then = p.then /\ r.held = p.held /\ r.obj = p.obj
  <2>1. "registering" \in Points
    BY DEF Points
  <2> QED
    BY <1>10, <2>1, GotoFacts
<1>12. r.pc \in Activating /\ r.pc \in AtGet /\ r.pc \notin Handed /\ r.pc \notin Ousting
  BY <1>11 DEF Activating, AtGet, Handed, Ousting
<1>13. TaskTyped(r)
  BY <1>1, <1>5, <1>11, <1>12 DEF TaskTyped
<1>14. TaskInv(r)'
  <2>1. Refers(r)'
    BY <1>1, <1>4, <1>11, <1>12 DEF TaskInv, Refers
  <2>2. Makes(r)'
    <3>1. \A x \in Served' : mbox'[x].name = n => n \in disputed \/ x = o
      BY <1>4, <1>6, <1>7
    <3> QED
      BY <1>2, <1>3, <1>4, <1>6, <1>11, <3>1 DEF Makes
  <2>3. Waits(r)' /\ Revives(r)'
    BY <1>11 DEF Waits, Revives
  <2>4. Meddles(r)'
    BY <1>1, <1>4, <1>5, <1>11, <1>12 DEF TaskInv, Meddles
  <2>5. Deletes(r)'
    BY <1>1, <1>2, <1>4, <1>5, <1>11, <1>12 DEF TaskInv, Deletes
  <2> QED
    BY <2>1, <2>2, <2>3, <2>4, <2>5 DEF TaskInv
<1>15. ASSUME NEW q \in {proc[u] : u \in Tasks \ {t}} PROVE TaskInv(q)'
  <2>1. PICK u \in Tasks \ {t} : q = proc[u]
    OBVIOUS
  <2>2. q \in Proc /\ TaskTyped(q) /\ TaskInv(q) /\ PairInv(p, q) /\ PairInv(q, p)
    BY <1>1, <2>1 DEF RegistryInv
  <2>3. /\ q.pc \in Handed \cup Activating => q.obj \in Objects
        /\ q.held # None => q.held \in Objects
        /\ q.obj # o /\ q.held # o
    BY <1>3, <1>5, <2>2 DEF TaskTyped, Proc, PairInv
  <2>4. Refers(q)'
    BY <1>4, <2>2, <2>3 DEF TaskInv, Refers, Named
  <2>5. Waits(q)' /\ Meddles(q)'
    BY <1>2, <1>4, <2>2 DEF TaskInv, Waits, Meddles
  <2>6. Makes(q)'
    <3> SUFFICES ASSUME q.pc \in Activating PROVE Makes(q)'
      BY DEF Makes
    <3>1. q.name # n
      BY <1>3, <1>5, <2>2 DEF PairInv
    <3>2. ASSUME NEW x \in Served', mbox'[x].name = q.name
          PROVE  q.name \in disputed \/ (x = q.obj /\ q.pc = "registering")
      <4>1. x \in Served /\ mbox[x].name = q.name
        BY <1>4, <1>6, <1>7, <3>1, <3>2
      <4> QED
        BY <2>2, <4>1 DEF TaskInv, Makes
    <3> QED
      BY <1>2, <1>4, <2>2, <2>3, <3>2 DEF TaskInv, Makes
  <2>7. Revives(q)'
    BY <1>2, <1>4, <2>2 DEF TaskInv, Revives
  <2>8. Deletes(q)'
    BY <1>2, <1>4, <2>2, <2>3 DEF TaskInv, Deletes
  <2> QED
    BY <2>4, <2>5, <2>6, <2>7, <2>8 DEF TaskInv
<1>16. ASSUME NEW u \in Tasks \ {t} PROVE PairInv(r, proc[u]) /\ PairInv(proc[u], r)
  <2>1. p.pc # "queued"
    BY <1>4
  <2> QED
    BY <1>1, <1>5, <1>11, <2>1, PairKeeps
<1>17. /\ proc' = [u \in Tasks |-> proc'[u]] /\ proc'[t] = r
       /\ \A u \in Tasks \ {t} : proc'[u] = proc[u]
  BY <1>1, <1>2, <1>5, <1>10 DEF Goto
<1>18. EventsInv'
  <2> SUFFICES ASSUME NEW m \in Names, activating[m] = "yes"
               PROVE  \E u \in Tasks : proc'[u].pc \in Activating /\ proc'[u].name = m
    BY <1>2 DEF EventsInv
  <2>1. PICK u \in Tasks : proc[u].pc \in Activating /\ proc[u].name = m
    BY DEF RegistryInv, EventsInv
  <2> QED
    BY <1>1, <1>11, <1>12, <1>17, <2>1
<1>19. \A u \in Tasks \ {t} : Follows(proc[u], proc'[u])
  BY <1>17 DEF Follows
<1> QED
  BY <1>8, <1>9, <1>11, <1>13, <1>14, <1>15, <1>16, <1>17, <1>18, <1>19, StepOf

-----------------------------------------------------------------------------
(* Steps that change the mailbox a task has got *)

\* A step of a task that is not activating.
LEMMA Works ==
  ASSUME RegistryInv, StateTyped', ObjectsInv', activating' = activating,
         NEW t \in Tasks, NEW r \in Proc, TaskTyped(r), TaskInv(r)',
         proc[t].pc \notin Activating, r.pc \notin Activating, proc[t].pc # "queued",
         r.obj \in {proc[t].obj, None}, r.held \in {proc[t].held, None},
         proc' = [u \in Tasks |-> proc'[u]], proc'[t] = r,
         \A u \in Tasks \ {t} : Follows(proc[u], proc'[u]),
         \A p \in {proc[u] : u \in Tasks \ {t}} : TaskInv(p)'
  PROVE  RegistryInv'
<1>1. \A u \in Tasks \ {t} : PairInv(r, proc[u]) /\ PairInv(proc[u], r)
  BY PairKeeps
<1>2. EventsInv'
  <2> SUFFICES ASSUME NEW n \in Names, activating[n] = "yes"
               PROVE  \E u \in Tasks : proc'[u].pc \in Activating /\ proc'[u].name = n
    BY DEF EventsInv
  <2>1. PICK u \in Tasks : proc[u].pc \in Activating /\ proc[u].name = n
    BY DEF RegistryInv, EventsInv
  <2>2. u \in Tasks \ {t} /\ proc[u] \in Proc
    BY <2>1 DEF RegistryInv
  <2>3. proc'[u] = proc[u]
    BY <2>1, <2>2, FollowsFacts
  <2> QED
    BY <2>1, <2>3
<1> QED
  BY <1>1, <1>2, StepOf

\* One object is changed.
LEMMA Changes ==
  ASSUME StateTyped, NEW o \in Objects, NEW b \in Object, mbox' = [mbox EXCEPT ![o] = b]
  PROVE  /\ mbox' \in [Objects -> Object] /\ mbox'[o] = b
         /\ \A x \in Objects \ {o} : mbox'[x] = mbox[x]
         /\ Alive' = IF b.alive THEN Alive \cup {o} ELSE Alive \ {o}
         /\ Served' = IF b.served THEN Served \cup {o} ELSE Served \ {o}
         /\ Deleted' = IF b.deleted THEN Deleted \cup {o} ELSE Deleted \ {o}
         /\ Noselect' = IF b.noselect THEN Noselect \cup {o} ELSE Noselect \ {o}
<1>1. /\ mbox' \in [Objects -> Object] /\ mbox'[o] = b
      /\ \A x \in Objects \ {o} : mbox'[x] = mbox[x]
  BY DEF StateTyped
<1>2. Alive' = IF b.alive THEN Alive \cup {o} ELSE Alive \ {o}
  BY <1>1 DEF Alive
<1>3. Served' = IF b.served THEN Served \cup {o} ELSE Served \ {o}
  BY <1>1 DEF Served
<1>4. Deleted' = IF b.deleted THEN Deleted \cup {o} ELSE Deleted \ {o}
  BY <1>1 DEF Deleted
<1>5. Noselect' = IF b.noselect THEN Noselect \cup {o} ELSE Noselect \ {o}
  BY <1>1 DEF Noselect
<1> QED
  BY <1>1, <1>2, <1>3, <1>4, <1>5

\* DELETE has the mailbox for itself.
LEMMA Alone ==
  ASSUME RegistryInv, NEW t \in Tasks, NEW u \in Tasks \ {t}, NEW p \in Proc, p = proc[t],
         p.pc \in Ousting, NEW q \in Proc, q = proc[u]
  PROVE  /\ p.obj \in Objects
         /\ mbox[p.obj].name = p.name \/ mbox[p.obj].name \in disputed
         /\ p.name \in disputed => mbox[p.obj].name \in disputed
         /\ q.pc \in AtGet /\ q.then = "delete" /\ q.held = p.obj => q.name \in disputed
         /\ q.pc \in Ousting /\ q.obj = p.obj => q.name \in disputed
<1>1. /\ TaskTyped(p) /\ TaskInv(p) /\ TaskTyped(q) /\ TaskInv(q) /\ PairInv(p, q) /\ ObjectsInv
  BY DEF RegistryInv
<1>2. p.obj \in Objects /\ p.obj # None /\ p.name \in Names /\ q.name \in Names
  BY <1>1 DEF TaskTyped, Handed, Ousting, Proc
<1>3. Named(p.obj, p.name)
  BY <1>1 DEF TaskInv, Refers, Handed, Ousting
<1>4. p.name \in disputed \/ p.held = p.obj
  BY <1>1 DEF TaskInv, Deletes
<1>5. ASSUME q.pc \in AtGet, q.then = "delete", q.held = p.obj PROVE q.name \in disputed
  <2>1. q.name \in disputed \/ active[q.name] = p.obj
    BY <1>1, <1>5 DEF TaskInv, Deletes
  <2>2. active[q.name] = p.obj => mbox[p.obj].name = q.name
    BY <1>1, <1>2 DEF ObjectsInv
  <2>3. p.held = p.obj => FALSE
    BY <1>1, <1>2, <1>5 DEF PairInv, AtGet, Activating, Ousting
  <2> QED
    BY <1>3, <1>4, <2>1, <2>2, <2>3 DEF Named
<1>6. ASSUME q.pc \in Ousting, q.obj = p.obj PROVE q.name \in disputed
  <2>1. q.name \in disputed \/ (q.held = p.obj /\ active[q.name] = p.obj)
    BY <1>1, <1>6 DEF TaskInv, Deletes
  <2>2. active[q.name] = p.obj => mbox[p.obj].name = q.name
    BY <1>1, <1>2 DEF ObjectsInv
  <2>3. p.held = p.obj /\ q.held = p.obj => FALSE
    BY <1>1, <1>2, <1>6 DEF PairInv, Ousting
  <2> QED
    BY <1>3, <1>4, <2>1, <2>2, <2>3 DEF Named
<1> QED
  BY <1>2, <1>3, <1>5, <1>6 DEF Named

\* What the others rely on, when the object changes but its name.
LEMMA OthersKeep ==
  ASSUME RegistryInv, NEW t \in Tasks, NEW u \in Tasks \ {t}, NEW p \in Proc, p = proc[t],
         p.pc \notin Activating, NEW q \in Proc, q = proc[u],
         UNCHANGED <<active, activating, disputed>>,
         p.obj \in Objects, \A x \in Objects \ {p.obj} : mbox'[x] = mbox[x],
         mbox'[p.obj].alive = mbox[p.obj].alive, mbox'[p.obj].name = mbox[p.obj].name,
         p.obj \in Served' =>
           p.obj \in Served \/ active[mbox[p.obj].name] = p.obj \/ mbox[p.obj].name \in disputed
  PROVE  /\ Refers(q)' /\ Waits(q)' /\ Makes(q)' /\ Meddles(q)'
         /\ q.obj # p.obj => Revives(q)'
         /\ p.pc \in Ousting => Deletes(q)'
<1>1. /\ TaskTyped(p) /\ TaskInv(p) /\ TaskTyped(q) /\ TaskInv(q) /\ PairInv(p, q) /\ PairInv(q, p)
  BY DEF RegistryInv
<1>2. /\ q.pc \in Handed \cup Activating => q.obj \in Objects
      /\ q.held # None => q.held \in Objects
      /\ q.obj # None => q.obj \in Objects
  BY <1>1 DEF TaskTyped, Proc
<1>3. Alive' = Alive /\ \A x \in Objects : mbox'[x].name = mbox[x].name
  BY DEF Alive
<1>4. \A x \in Objects \ {p.obj} :
        /\ x \in Served' <=> x \in Served
        /\ x \in Deleted' <=> x \in Deleted
        /\ x \in Noselect' <=> x \in Noselect
  BY DEF Served, Deleted, Noselect
<1>5. Refers(q)'
  BY <1>1, <1>2, <1>3 DEF TaskInv, Refers, Named
<1>6. Waits(q)' /\ Meddles(q)'
  BY <1>1 DEF TaskInv, Waits, Meddles
<1>7. Makes(q)'
  <2> SUFFICES ASSUME q.pc \in Activating PROVE Makes(q)'
    BY DEF Makes
  <2>1. q.obj # p.obj
    BY <1>1 DEF PairInv
  <2>2. ASSUME NEW x \in Served', mbox'[x].name = q.name
        PROVE  q.name \in disputed \/ (x = q.obj /\ q.pc = "registering")
    <3>1. x \in Objects /\ mbox[x].name = q.name /\ x # None
      BY <1>3, <2>2, RegistryAssumption DEF Served
    <3>2. CASE x \in Served
      BY <1>1, <3>1, <3>2 DEF TaskInv, Makes
    <3>3. CASE x = p.obj /\ x \notin Served
      BY <1>1, <2>2, <3>1, <3>3 DEF TaskInv, Makes
    <3> QED
      BY <1>4, <2>2, <3>1, <3>2, <3>3
  <2> QED
    BY <1>1, <1>2, <1>3, <1>4, <2>1, <2>2 DEF TaskInv, Makes
<1>8. q.obj # p.obj => Revives(q)'
  BY <1>1, <1>2, <1>4 DEF TaskInv, Revives, Handed
<1>9. ASSUME p.pc \in Ousting PROVE Deletes(q)'
  <2>1. /\ q.pc \in AtGet /\ q.then = "delete" /\ q.held = p.obj => q.name \in disputed
        /\ q.pc \in Ousting /\ q.obj = p.obj => q.name \in disputed
    BY <1>9, Alone
  <2>2. Deletes(q)
    BY <1>1 DEF TaskInv
  <2> QED
    BY <1>2, <1>4, <2>1, <2>2 DEF Deletes, Handed, Ousting
<1> QED
  BY <1>5, <1>6, <1>7, <1>8, <1>9

\* What CREATE finds without a folder is made anew.
LEMMA RevivesIt ==
  ASSUME RegistryInv, NEW t \in Tasks, CreateRevives(t)
  PROVE  RegistryInv'
<1>1. PICK p \in Proc : p = proc[t] /\ TaskInv(p) /\ TaskTyped(p)
  BY Here
<1>2. PICK o : o = p.obj
  OBVIOUS
<1>3. /\ p.pc = "exists" /\ p.pc \notin Activating /\ o \in Objects /\ o # None /\ p.name \in Names
  BY <1>1, <1>2 DEF CreateRevives, At, Activating, TaskTyped, Handed, Proc
<1>4. /\ mbox[o].noselect /\ mbox' = [mbox EXCEPT ![o] = [@ EXCEPT !.noselect = FALSE, !.served = TRUE]]
      /\ row' = [n \in Names |-> IF n \in RowOf(o) THEN [row[n] EXCEPT !.noselect = FALSE] ELSE row[n]]
      /\ proc' = [proc EXCEPT ![t].pc = "mkdir"]
      /\ UNCHANGED <<folders, uid_vv, active, activating, calls, disputed>>
  BY <1>1, <1>2 DEF CreateRevives, Goto
<1>5. StateTyped /\ ObjectsInv /\ proc \in [Tasks -> Proc]
  BY Here
<1>6. PICK b : b = [mbox[o] EXCEPT !.noselect = FALSE, !.served = TRUE]
  OBVIOUS
<1>7. /\ b \in Object /\ b.alive = mbox[o].alive /\ b.name = mbox[o].name /\ b.deleted = mbox[o].deleted
      /\ b.served /\ ~ b.noselect
  <2>1. mbox[o] \in Object
    BY <1>3, <1>5 DEF StateTyped
  <2> QED
    BY <1>6, <2>1 DEF Object
<1>8. /\ mbox' \in [Objects -> Object] /\ mbox'[o] = b
      /\ \A x \in Objects \ {o} : mbox'[x] = mbox[x]
      /\ Alive' = Alive /\ Deleted' = Deleted /\ Served' = Served \cup {o} /\ Noselect' = Noselect \ {o}
      /\ o \in Noselect
  <2>1. mbox' = [mbox EXCEPT ![o] = b]
    BY <1>4, <1>6
  <2>2. /\ mbox' \in [Objects -> Object] /\ mbox'[o] = b
        /\ \A x \in Objects \ {o} : mbox'[x] = mbox[x]
        /\ Alive' = IF b.alive THEN Alive \cup {o} ELSE Alive \ {o}
        /\ Served' = IF b.served THEN Served \cup {o} ELSE Served \ {o}
        /\ Deleted' = IF b.deleted THEN Deleted \cup {o} ELSE Deleted \ {o}
        /\ Noselect' = IF b.noselect THEN Noselect \cup {o} ELSE Noselect \ {o}
    BY <1>3, <1>5, <1>7, <2>1, Changes
  <2>3. (o \in Alive <=> b.alive) /\ (o \in Deleted <=> b.deleted) /\ o \in Noselect
    BY <1>3, <1>4, <1>7 DEF Alive, Deleted, Noselect
  <2> QED
    BY <1>7, <2>2, <2>3
<1>9. StateTyped'
  <2>1. ASSUME NEW n \in Names
        PROVE  /\ row'[n] \in Row
               /\ row'[n] = NoRow \/ (row[n] # NoRow /\ row'[n].id = row[n].id)
    <3>1. row[n] \in Row
      BY <1>5 DEF StateTyped
    <3>2. CASE n \in RowOf(o)
      <4>1. row'[n] = [row[n] EXCEPT !.noselect = FALSE] /\ row[n] # NoRow
        BY <1>4, <3>2 DEF RowOf
      <4> QED
        BY <3>1, <4>1 DEF Row
    <3>3. CASE n \notin RowOf(o)
      BY <1>4, <3>1, <3>3
    <3> QED
      BY <3>2, <3>3
  <2>2. row' \in [Names -> Row]
    <3>1. row' = [n \in Names |-> row'[n]]
      BY <1>4
    <3> QED
      BY <2>1, <3>1
  <2>3. PICK rows : rows = row'
    OBVIOUS
  <2>4. /\ \A n \in Names : rows[n] = NoRow \/ rows[n].id # 0
        /\ \A n, m \in Names : rows[n].id = rows[m].id => n = m \/ rows[n] = NoRow
    BY <1>5, <2>1, <2>2, <2>3, RowsStay
  <2> QED
    BY <1>4, <1>5, <1>8, <2>2, <2>3, <2>4 DEF StateTyped
<1>10. Named(o, p.name) /\ o \in Alive /\ (active[p.name] = o \/ p.name \in disputed)
  BY <1>1, <1>2, <1>3, <1>8 DEF TaskInv, Refers, Revives, Handed
<1>11. ObjectsInv'
  <2>1. \A n \in Names : active[n] # None => active[n] \in Objects
    BY <1>5 DEF StateTyped
  <2>2. \A x \in Objects : mbox'[x].name = mbox[x].name
    BY <1>7, <1>8
  <2>3. active[mbox[o].name] = o \/ mbox[o].name \in disputed
    BY <1>10 DEF Named
  <2>4. \A x \in Served : x \in Objects
    BY DEF Served
  <2> QED
    BY <1>3, <1>4, <1>5, <1>8, <1>10, <2>1, <2>2, <2>3, <2>4 DEF ObjectsInv
<1>12. ASSUME NEW q \in {proc[u] : u \in Tasks \ {t}} PROVE TaskInv(q)'
  <2>1. PICK u \in Tasks \ {t} : q = proc[u]
    OBVIOUS
  <2>2. q \in Proc /\ TaskTyped(q) /\ TaskInv(q)
    BY <2>1 DEF RegistryInv
  <2>3. Refers(q)' /\ Waits(q)' /\ Makes(q)' /\ Meddles(q)' /\ (q.obj # o => Revives(q)')
    <3>1. /\ UNCHANGED <<active, activating, disputed>> /\ p.obj \in Objects /\ q \in Proc
          /\ \A x \in Objects \ {p.obj} : mbox'[x] = mbox[x]
          /\ mbox'[p.obj].alive = mbox[p.obj].alive /\ mbox'[p.obj].name = mbox[p.obj].name
      BY <1>2, <1>3, <1>4, <1>7, <1>8, <2>2
    <3>2. active[mbox[p.obj].name] = p.obj \/ mbox[p.obj].name \in disputed
      BY <1>2, <1>10 DEF Named
    <3> QED
      BY <1>1, <1>2, <1>3, <2>1, <3>1, <3>2, OthersKeep
  <2>4. Revives(q)'
    BY <1>8, <2>3 DEF Revives
  <2>5. Deletes(q)'
    <3>1. q.pc \in {"forgetting", "unregister"} /\ q.name \notin disputed => q.obj \notin Noselect
      BY <2>2 DEF TaskInv, Deletes, Ousting
    <3>2. Deletes(q)
      BY <2>2 DEF TaskInv
    <3> QED
      BY <1>4, <1>8, <3>1, <3>2 DEF Deletes, Ousting
  <2> QED
    BY <2>3, <2>4, <2>5 DEF TaskInv
<1>13. PICK r : r = [p EXCEPT !.pc = "mkdir"]
  OBVIOUS
<1>14. /\ r \in Proc /\ r.pc = "mkdir" /\ r.held = p.held /\ r.obj = p.obj
  <2>1. "mkdir" \in Points
    BY DEF Points
  <2> QED
    BY <1>13, <2>1, GotoFacts
<1>15. r.pc \notin Activating /\ r.pc \notin AtGet /\ r.pc \notin Handed /\ r.pc \notin Ousting
  BY <1>14 DEF Activating, AtGet, Handed, Ousting
<1>16. TaskTyped(r)
  BY <1>14, <1>15 DEF TaskTyped
<1>17. TaskInv(r)'
  <2>1. Refers(r)'
    BY <1>1, <1>8, <1>14, <1>15 DEF TaskInv, Refers
  <2>2. Waits(r)' /\ Makes(r)' /\ Meddles(r)' /\ Revives(r)' /\ Deletes(r)'
    BY <1>14, <1>15 DEF Waits, Makes, Meddles, Revives, Deletes
  <2> QED
    BY <2>1, <2>2 DEF TaskInv
<1>18. /\ proc' = [u \in Tasks |-> proc'[u]] /\ proc'[t] = r
       /\ \A u \in Tasks \ {t} : proc'[u] = proc[u]
  BY <1>1, <1>4, <1>5, <1>13
<1>19. \A u \in Tasks \ {t} : Follows(proc[u], proc'[u])
  BY <1>18 DEF Follows
<1>20. activating' = activating /\ p.pc # "queued"
  BY <1>3, <1>4
<1> QED
  BY <1>1, <1>3, <1>9, <1>11, <1>12, <1>14, <1>15, <1>16, <1>17, <1>18, <1>19, <1>20, Works

\* The sessions that lose the mailbox, and the task that goes on.
LEMMA WithoutClientsFacts ==
  ASSUME proc \in [Tasks -> Proc], NEW t \in Tasks, proc[t].pc # "selected", NEW o, NEW new,
         proc' = [WithoutClients(proc, o) EXCEPT ![t].pc = new]
  PROVE  /\ proc' = [u \in Tasks |-> proc'[u]] /\ proc'[t] = [proc[t] EXCEPT !.pc = new]
         /\ \A u \in Tasks \ {t} : Follows(proc[u], proc'[u])
<1>1. PICK ps : ps = WithoutClients(proc, o)
  OBVIOUS
<1>2. ps = [u \in Tasks |-> IF proc[u].pc = "selected" /\ proc[u].obj = o THEN Idle ELSE proc[u]]
  BY <1>1 DEF WithoutClients
<1>3. proc' = [ps EXCEPT ![t] = [@ EXCEPT !.pc = new]] /\ ps[t] = proc[t]
  BY <1>1, <1>2
<1> QED
  BY <1>2, <1>3 DEF Follows

\* DELETE of a mailbox with inferiors: the name stays.
LEMMA Keeps ==
  ASSUME RegistryInv, NEW t \in Tasks, DeleteKeeps(t)
  PROVE  RegistryInv'
<1>1. PICK p \in Proc : p = proc[t] /\ TaskInv(p) /\ TaskTyped(p)
  BY Here
<1>2. PICK o : o = p.obj
  OBVIOUS
<1>3. /\ p.pc = "delete" /\ p.pc \notin Activating /\ o \in Objects /\ o # None /\ p.name \in Names
      /\ p.name \in Kept
  BY <1>1, <1>2 DEF DeleteKeeps, At, Activating, TaskTyped, Handed, Proc
<1>4. /\ uid_vv < MaxVv /\ uid_vv' = uid_vv + 1 /\ mbox' = [mbox EXCEPT ![o].noselect = TRUE]
      /\ proc' = [WithoutClients(proc, o) EXCEPT ![t].pc = "recount"]
      /\ UNCHANGED <<folders, row, active, activating, calls, disputed>>
  BY <1>1, <1>2 DEF DeleteKeeps
<1>5. StateTyped /\ ObjectsInv /\ proc \in [Tasks -> Proc]
  BY Here
<1>6. PICK b : b = [mbox[o] EXCEPT !.noselect = TRUE]
  OBVIOUS
<1>7. /\ b \in Object /\ b.alive = mbox[o].alive /\ b.name = mbox[o].name /\ b.deleted = mbox[o].deleted
      /\ b.served = mbox[o].served /\ b.noselect
  <2>1. mbox[o] \in Object
    BY <1>3, <1>5 DEF StateTyped
  <2> QED
    BY <1>6, <2>1 DEF Object
<1>8. /\ mbox' \in [Objects -> Object] /\ mbox'[o] = b
      /\ \A x \in Objects \ {o} : mbox'[x] = mbox[x]
      /\ Alive' = Alive /\ Deleted' = Deleted /\ Served' = Served /\ Noselect' = Noselect \cup {o}
  <2>1. mbox' = [mbox EXCEPT ![o] = b]
    BY <1>4, <1>6
  <2>2. /\ mbox' \in [Objects -> Object] /\ mbox'[o] = b
        /\ \A x \in Objects \ {o} : mbox'[x] = mbox[x]
        /\ Alive' = IF b.alive THEN Alive \cup {o} ELSE Alive \ {o}
        /\ Served' = IF b.served THEN Served \cup {o} ELSE Served \ {o}
        /\ Deleted' = IF b.deleted THEN Deleted \cup {o} ELSE Deleted \ {o}
        /\ Noselect' = IF b.noselect THEN Noselect \cup {o} ELSE Noselect \ {o}
    BY <1>3, <1>5, <1>7, <2>1, Changes
  <2>3. (o \in Alive <=> b.alive) /\ (o \in Deleted <=> b.deleted) /\ (o \in Served <=> b.served)
    BY <1>3, <1>7 DEF Alive, Deleted, Served
  <2> QED
    BY <1>7, <2>2, <2>3
<1>9. StateTyped'
  <2>1. uid_vv' \in 0..MaxVv
    BY <1>4, <1>5, RegistryAssumption DEF StateTyped
  <2> QED
    BY <1>4, <1>5, <1>8, <2>1 DEF StateTyped
<1>10. /\ Named(o, p.name) /\ o \in Alive
       /\ active[mbox[o].name] = o \/ mbox[o].name \in disputed
  <2>1. Named(o, p.name) /\ o \in Alive
    BY <1>1, <1>2, <1>3 DEF TaskInv, Refers, Handed
  <2>2. p.name \in disputed \/ active[p.name] = o
    BY <1>1, <1>2, <1>3 DEF TaskInv, Deletes, Ousting
  <2> QED
    BY <2>1, <2>2 DEF Named
<1>11. \A x \in Objects : mbox'[x].name = mbox[x].name
  BY <1>7, <1>8
<1>12. ObjectsInv'
  <2>1. \A n \in Names : active[n] # None => active[n] \in Objects
    BY <1>5 DEF StateTyped
  <2>2. mbox[o].name \in Kept \/ mbox[o].name \in disputed
    BY <1>3, <1>10 DEF Named
  <2>3. \A x \in Served : x \in Objects
    BY DEF Served
  <2> QED
    BY <1>4, <1>5, <1>8, <1>11, <2>1, <2>2, <2>3 DEF ObjectsInv
<1>13. ASSUME NEW q \in {proc[u] : u \in Tasks \ {t}} PROVE TaskInv(q)'
  <2>1. PICK u \in Tasks \ {t} : q = proc[u]
    OBVIOUS
  <2>2. q \in Proc /\ TaskTyped(q) /\ TaskInv(q)
    BY <2>1 DEF RegistryInv
  <2>3. Refers(q)' /\ Waits(q)' /\ Makes(q)' /\ Meddles(q)' /\ (q.obj # o => Revives(q)') /\ Deletes(q)'
    <3>1. /\ UNCHANGED <<active, activating, disputed>> /\ p.obj \in Objects /\ q \in Proc
          /\ \A x \in Objects \ {p.obj} : mbox'[x] = mbox[x]
          /\ mbox'[p.obj].alive = mbox[p.obj].alive /\ mbox'[p.obj].name = mbox[p.obj].name
      BY <1>2, <1>3, <1>4, <1>7, <1>8, <2>2
    <3>2. p.obj \in Served' => p.obj \in Served
      BY <1>2, <1>8
    <3>3. p.pc \in Ousting
      BY <1>3 DEF Ousting
    <3> QED
      BY <1>1, <1>2, <1>3, <2>1, <3>1, <3>2, <3>3, OthersKeep
  <2>4. ASSUME q.obj = o PROVE Revives(q)'
    <3>1. q.pc = "exists" => Named(o, q.name)
      BY <2>2, <2>4 DEF TaskInv, Refers, Handed
    <3>2. q.pc = "exists" => active[q.name] = o \/ q.name \in disputed
      BY <1>10, <3>1 DEF Named
    <3> QED
      BY <1>4, <2>4, <3>2 DEF Revives
  <2> QED
    BY <2>3, <2>4 DEF TaskInv
<1>14. PICK r : r = [p EXCEPT !.pc = "recount"]
  OBVIOUS
<1>15. /\ r \in Proc /\ r.pc = "recount" /\ r.name = p.name /\ r.held = p.held /\ r.obj = p.obj
  <2>1. "recount" \in Points
    BY DEF Points
  <2> QED
    BY <1>14, <2>1, GotoFacts
<1>16. r.pc \notin Activating /\ r.pc \notin AtGet /\ r.pc \in Handed
  BY <1>15 DEF Activating, AtGet, Handed
<1>17. TaskTyped(r)
  BY <1>2, <1>3, <1>15, <1>16 DEF TaskTyped
<1>18. TaskInv(r)'
  <2>1. Named(o, p.name)'
    BY <1>3, <1>4, <1>10, <1>11 DEF Named
  <2>2. Refers(r)'
    BY <1>1, <1>2, <1>8, <1>15, <2>1 DEF TaskInv, Refers
  <2>3. Waits(r)' /\ Makes(r)' /\ Meddles(r)' /\ Revives(r)' /\ Deletes(r)'
    BY <1>15, <1>16 DEF Waits, Makes, Meddles, Revives, Deletes, Ousting
  <2> QED
    BY <2>2, <2>3 DEF TaskInv
<1>19. /\ proc' = [u \in Tasks |-> proc'[u]] /\ proc'[t] = r
       /\ \A u \in Tasks \ {t} : Follows(proc[u], proc'[u])
  BY <1>1, <1>3, <1>4, <1>5, <1>14, WithoutClientsFacts
<1>20. activating' = activating /\ p.pc # "queued"
  BY <1>3, <1>4
<1> QED
  BY <1>1, <1>3, <1>9, <1>12, <1>13, <1>15, <1>16, <1>17, <1>18, <1>19, <1>20, Works

\* DELETE of a mailbox without: nobody is let in any more.
LEMMA ShutsDown ==
  ASSUME RegistryInv, NEW t \in Tasks, DeleteShutsDown(t)
  PROVE  RegistryInv'
<1>1. PICK p \in Proc : p = proc[t] /\ TaskInv(p) /\ TaskTyped(p)
  BY Here
<1>2. PICK o : o = p.obj
  OBVIOUS
<1>3. /\ p.pc = "delete" /\ p.pc \notin Activating /\ o \in Objects /\ o # None /\ p.name \in Names
      /\ p.name \notin Kept
  BY <1>1, <1>2 DEF DeleteShutsDown, At, Activating, TaskTyped, Handed, Proc
<1>4. /\ mbox' = [mbox EXCEPT ![o].deleted = TRUE]
      /\ proc' = [WithoutClients(proc, o) EXCEPT ![t].pc = "stopping"]
      /\ UNCHANGED <<folders, row, uid_vv, active, activating, calls, disputed>>
  BY <1>1, <1>2 DEF DeleteShutsDown
<1>5. StateTyped /\ ObjectsInv /\ proc \in [Tasks -> Proc]
  BY Here
<1>6. PICK b : b = [mbox[o] EXCEPT !.deleted = TRUE]
  OBVIOUS
<1>7. /\ b \in Object /\ b.alive = mbox[o].alive /\ b.name = mbox[o].name /\ b.deleted
      /\ b.served = mbox[o].served /\ b.noselect = mbox[o].noselect
  <2>1. mbox[o] \in Object
    BY <1>3, <1>5 DEF StateTyped
  <2> QED
    BY <1>6, <2>1 DEF Object
<1>8. /\ mbox' \in [Objects -> Object] /\ mbox'[o] = b
      /\ \A x \in Objects \ {o} : mbox'[x] = mbox[x]
      /\ Alive' = Alive /\ Noselect' = Noselect /\ Served' = Served /\ Deleted' = Deleted \cup {o}
  <2>1. mbox' = [mbox EXCEPT ![o] = b]
    BY <1>4, <1>6
  <2>2. /\ mbox' \in [Objects -> Object] /\ mbox'[o] = b
        /\ \A x \in Objects \ {o} : mbox'[x] = mbox[x]
        /\ Alive' = IF b.alive THEN Alive \cup {o} ELSE Alive \ {o}
        /\ Served' = IF b.served THEN Served \cup {o} ELSE Served \ {o}
        /\ Deleted' = IF b.deleted THEN Deleted \cup {o} ELSE Deleted \ {o}
        /\ Noselect' = IF b.noselect THEN Noselect \cup {o} ELSE Noselect \ {o}
    BY <1>3, <1>5, <1>7, <2>1, Changes
  <2>3. (o \in Alive <=> b.alive) /\ (o \in Noselect <=> b.noselect) /\ (o \in Served <=> b.served)
    BY <1>3, <1>7 DEF Alive, Noselect, Served
  <2> QED
    BY <1>7, <2>2, <2>3
<1>9. StateTyped'
  BY <1>4, <1>5, <1>8 DEF StateTyped
<1>11. \A x \in Objects : mbox'[x].name = mbox[x].name
  BY <1>7, <1>8
<1>12. ObjectsInv'
  <2>1. \A n \in Names : active[n] # None => active[n] \in Objects
    BY <1>5 DEF StateTyped
  <2>2. \A x \in Served : x \in Objects
    BY DEF Served
  <2> QED
    BY <1>4, <1>5, <1>8, <1>11, <2>1, <2>2 DEF ObjectsInv
<1>13. ASSUME NEW q \in {proc[u] : u \in Tasks \ {t}} PROVE TaskInv(q)'
  <2>1. PICK u \in Tasks \ {t} : q = proc[u]
    OBVIOUS
  <2>2. q \in Proc /\ TaskTyped(q) /\ TaskInv(q)
    BY <2>1 DEF RegistryInv
  <2>3. Refers(q)' /\ Waits(q)' /\ Makes(q)' /\ Meddles(q)' /\ (q.obj # o => Revives(q)') /\ Deletes(q)'
    <3>1. /\ UNCHANGED <<active, activating, disputed>> /\ p.obj \in Objects /\ q \in Proc
          /\ \A x \in Objects \ {p.obj} : mbox'[x] = mbox[x]
          /\ mbox'[p.obj].alive = mbox[p.obj].alive /\ mbox'[p.obj].name = mbox[p.obj].name
      BY <1>2, <1>3, <1>4, <1>7, <1>8, <2>2
    <3>2. p.obj \in Served' => p.obj \in Served
      BY <1>2, <1>8
    <3>3. p.pc \in Ousting
      BY <1>3 DEF Ousting
    <3> QED
      BY <1>1, <1>2, <1>3, <2>1, <3>1, <3>2, <3>3, OthersKeep
  <2>4. Revives(q)'
    BY <1>4, <1>8, <2>2 DEF TaskInv, Revives
  <2> QED
    BY <2>3, <2>4 DEF TaskInv
<1>14. PICK r : r = [p EXCEPT !.pc = "stopping"]
  OBVIOUS
<1>15. /\ r \in Proc /\ r.pc = "stopping" /\ r.name = p.name /\ r.held = p.held /\ r.obj = p.obj
  <2>1. "stopping" \in Points
    BY DEF Points
  <2> QED
    BY <1>14, <2>1, GotoFacts
<1>16. r.pc \notin Activating /\ r.pc \notin AtGet /\ r.pc \in Handed
  BY <1>15 DEF Activating, AtGet, Handed
<1>17. TaskTyped(r)
  BY <1>2, <1>3, <1>15, <1>16 DEF TaskTyped
<1>18. TaskInv(r)'
  <2>1. Named(o, p.name) /\ o \in Alive
    BY <1>1, <1>2, <1>3 DEF TaskInv, Refers, Handed
  <2>2. Named(o, p.name)'
    BY <1>3, <1>4, <1>11, <2>1 DEF Named
  <2>3. Refers(r)'
    BY <1>1, <1>2, <1>8, <1>15, <2>2 DEF TaskInv, Refers
  <2>4. Waits(r)' /\ Makes(r)' /\ Meddles(r)' /\ Revives(r)'
    BY <1>15, <1>16 DEF Waits, Makes, Meddles, Revives
  <2>5. p.name \in disputed \/ (p.held = o /\ active[p.name] = o /\ o \in Served)
    BY <1>1, <1>2, <1>3 DEF TaskInv, Deletes, Ousting
  <2>6. active[p.name] = o /\ o \in Served => p.name \in disputed \/ o \notin Noselect
    BY <1>3, <1>5 DEF ObjectsInv
  <2>7. Deletes(r)'
    BY <1>2, <1>4, <1>8, <1>15, <1>16, <2>5, <2>6 DEF Deletes, Ousting
  <2> QED
    BY <2>3, <2>4, <2>7 DEF TaskInv
<1>19. /\ proc' = [u \in Tasks |-> proc'[u]] /\ proc'[t] = r
       /\ \A u \in Tasks \ {t} : Follows(proc[u], proc'[u])
  BY <1>1, <1>3, <1>4, <1>5, <1>14, WithoutClientsFacts
<1>20. activating' = activating /\ p.pc # "queued"
  BY <1>3, <1>4
<1> QED
  BY <1>1, <1>3, <1>9, <1>12, <1>13, <1>15, <1>16, <1>17, <1>18, <1>19, <1>20, Works

\* A task without a call relies on nothing.
LEMMA IdleNext == TaskInv(Idle)'
<1>1. TaskInv(Idle)
  BY IdleFacts
<1> QED
  BY <1>1, PTL

\* The management task has ended, and the folder goes, if it is there.
LEMMA RemovesFolder ==
  ASSUME RegistryInv, NEW t \in Tasks, RemoveFolder(t)
  PROVE  RegistryInv'
<1>1. PICK p \in Proc : p = proc[t] /\ TaskInv(p) /\ TaskTyped(p)
  BY Here
<1>2. PICK o : o = p.obj
  OBVIOUS
<1>3. /\ p.pc = "stopping" /\ p.pc \notin Activating /\ o \in Objects /\ o # None /\ p.name \in Names
  BY <1>1, <1>2 DEF RemoveFolder, At, Activating, TaskTyped, Handed, Proc
<1>4. /\ mbox' = [mbox EXCEPT ![o].served = FALSE] /\ folders' = folders \ {p.name}
      /\ Goto(t, "forgetting") \/ Ends(t)
      /\ UNCHANGED <<row, uid_vv, active, activating, calls, disputed>>
  BY <1>1, <1>2 DEF RemoveFolder
<1>5. StateTyped /\ ObjectsInv /\ proc \in [Tasks -> Proc]
  BY Here
<1>6. PICK b : b = [mbox[o] EXCEPT !.served = FALSE]
  OBVIOUS
<1>7. /\ b \in Object /\ b.alive = mbox[o].alive /\ b.name = mbox[o].name /\ b.deleted = mbox[o].deleted
      /\ ~ b.served /\ b.noselect = mbox[o].noselect
  <2>1. mbox[o] \in Object
    BY <1>3, <1>5 DEF StateTyped
  <2> QED
    BY <1>6, <2>1 DEF Object
<1>8. /\ mbox' \in [Objects -> Object] /\ mbox'[o] = b
      /\ \A x \in Objects \ {o} : mbox'[x] = mbox[x]
      /\ Alive' = Alive /\ Noselect' = Noselect /\ Served' = Served \ {o} /\ Deleted' = Deleted
  <2>1. mbox' = [mbox EXCEPT ![o] = b]
    BY <1>4, <1>6
  <2>2. /\ mbox' \in [Objects -> Object] /\ mbox'[o] = b
        /\ \A x \in Objects \ {o} : mbox'[x] = mbox[x]
        /\ Alive' = IF b.alive THEN Alive \cup {o} ELSE Alive \ {o}
        /\ Served' = IF b.served THEN Served \cup {o} ELSE Served \ {o}
        /\ Deleted' = IF b.deleted THEN Deleted \cup {o} ELSE Deleted \ {o}
        /\ Noselect' = IF b.noselect THEN Noselect \cup {o} ELSE Noselect \ {o}
    BY <1>3, <1>5, <1>7, <2>1, Changes
  <2>3. (o \in Alive <=> b.alive) /\ (o \in Noselect <=> b.noselect) /\ (o \in Deleted <=> b.deleted)
    BY <1>3, <1>7 DEF Alive, Noselect, Deleted
  <2> QED
    BY <1>7, <2>2, <2>3
<1>9. StateTyped'
  <2>1. folders' \subseteq Names
    BY <1>4, <1>5 DEF StateTyped
  <2> QED
    BY <1>4, <1>5, <1>8, <2>1 DEF StateTyped
<1>11. \A x \in Objects : mbox'[x].name = mbox[x].name
  BY <1>7, <1>8
<1>12. ObjectsInv'
  <2>1. \A n \in Names : active[n] # None => active[n] \in Objects
    BY <1>5 DEF StateTyped
  <2>2. \A x \in Served : x \in Objects
    BY DEF Served
  <2> QED
    BY <1>4, <1>5, <1>8, <1>11, <2>1, <2>2 DEF ObjectsInv
<1>13. ASSUME NEW q \in {proc[u] : u \in Tasks \ {t}} PROVE TaskInv(q)'
  <2>1. PICK u \in Tasks \ {t} : q = proc[u]
    OBVIOUS
  <2>2. q \in Proc /\ TaskTyped(q) /\ TaskInv(q)
    BY <2>1 DEF RegistryInv
  <2>3. Refers(q)' /\ Waits(q)' /\ Makes(q)' /\ Meddles(q)' /\ (q.obj # o => Revives(q)') /\ Deletes(q)'
    <3>1. /\ UNCHANGED <<active, activating, disputed>> /\ p.obj \in Objects /\ q \in Proc
          /\ \A x \in Objects \ {p.obj} : mbox'[x] = mbox[x]
          /\ mbox'[p.obj].alive = mbox[p.obj].alive /\ mbox'[p.obj].name = mbox[p.obj].name
      BY <1>2, <1>3, <1>4, <1>7, <1>8, <2>2
    <3>2. p.obj \in Served' => p.obj \in Served
      BY <1>2, <1>8
    <3>3. p.pc \in Ousting
      BY <1>3 DEF Ousting
    <3> QED
      BY <1>1, <1>2, <1>3, <2>1, <3>1, <3>2, <3>3, OthersKeep
  <2>4. Revives(q)'
    BY <1>4, <1>8, <2>2 DEF TaskInv, Revives
  <2> QED
    BY <2>3, <2>4 DEF TaskInv
<1>14. activating' = activating /\ p.pc # "queued"
  BY <1>3, <1>4
<1>15. CASE Goto(t, "forgetting")
  <2>1. PICK r : r = [p EXCEPT !.pc = "forgetting"]
    OBVIOUS
  <2>2. /\ r \in Proc /\ r.pc = "forgetting" /\ r.name = p.name /\ r.held = p.held /\ r.obj = p.obj
    <3>1. "forgetting" \in Points
      BY DEF Points
    <3> QED
      BY <2>1, <3>1, GotoFacts
  <2>3. r.pc \notin Activating /\ r.pc \notin AtGet /\ r.pc \in Handed
    BY <2>2 DEF Activating, AtGet, Handed
  <2>4. TaskTyped(r)
    BY <1>2, <1>3, <2>2, <2>3 DEF TaskTyped
  <2>5. TaskInv(r)'
    <3>1. Named(o, p.name) /\ o \in Alive
      BY <1>1, <1>2, <1>3 DEF TaskInv, Refers, Handed
    <3>2. Named(o, p.name)'
      BY <1>3, <1>4, <1>11, <3>1 DEF Named
    <3>3. Refers(r)'
      BY <1>1, <1>2, <1>8, <2>2, <3>2 DEF TaskInv, Refers
    <3>4. Waits(r)' /\ Makes(r)' /\ Meddles(r)' /\ Revives(r)'
      BY <2>2, <2>3 DEF Waits, Makes, Meddles, Revives
    <3>5. p.name \in disputed \/ (p.held = o /\ active[p.name] = o /\ o \notin Noselect)
      BY <1>1, <1>2, <1>3 DEF TaskInv, Deletes, Ousting
    <3>6. Deletes(r)'
      BY <1>2, <1>4, <1>8, <2>2, <2>3, <3>5 DEF Deletes, Ousting
    <3> QED
      BY <3>3, <3>4, <3>6 DEF TaskInv
  <2>6. /\ proc' = [u \in Tasks |-> proc'[u]] /\ proc'[t] = r
        /\ \A u \in Tasks \ {t} : proc'[u] = proc[u]
    BY <1>1, <1>5, <1>15, <2>1 DEF Goto
  <2>7. \A u \in Tasks \ {t} : Follows(proc[u], proc'[u])
    BY <2>6 DEF Follows
  <2> QED
    BY <1>1, <1>3, <1>9, <1>12, <1>13, <1>14, <2>2, <2>3, <2>4, <2>5, <2>6, <2>7, Works
<1>16. CASE Ends(t)
  <2>1. PICK r : r = Idle
    OBVIOUS
  <2>2. r \in Proc /\ TaskTyped(r) /\ r.pc \notin Activating /\ r.held = None /\ r.obj = None /\ TaskInv(r)'
    BY <2>1, IdleFacts, IdleNext DEF Activating
  <2>3. /\ proc' = [u \in Tasks |-> proc'[u]] /\ proc'[t] = r
        /\ \A u \in Tasks \ {t} : proc'[u] = proc[u]
    BY <1>5, <1>16, <2>1 DEF Ends
  <2>4. \A u \in Tasks \ {t} : Follows(proc[u], proc'[u])
    BY <2>3 DEF Follows
  <2> QED
    BY <1>1, <1>3, <1>9, <1>12, <1>13, <1>14, <2>2, <2>3, <2>4, Works
<1> QED
  BY <1>4, <1>15, <1>16

\* What the others rely on, when a name is not registered any more.
LEMMA UnregisteredKeep ==
  ASSUME RegistryInv, NEW t \in Tasks, NEW u \in Tasks \ {t}, NEW q \in Proc, q = proc[u],
         UNCHANGED <<activating, mbox, disputed>>, NEW n \in Names,
         active' = [active EXCEPT ![n] = None],
         n \in disputed \/
           /\ proc[t].pc = "unregister" /\ proc[t].name = n /\ proc[t].held = proc[t].obj
           /\ active[n] = proc[t].obj /\ proc[t].obj \notin Noselect
  PROVE  TaskInv(q)'
<1>1. /\ TaskTyped(q) /\ TaskInv(q) /\ q.name \in Names /\ PairInv(proc[t], q)
  BY DEF RegistryInv, Proc
<1>2. /\ active \in [Names -> Objects \cup {None}]
      /\ \A m \in Names : active'[m] = IF m = n THEN None ELSE active[m]
  BY DEF RegistryInv, StateTyped
<1>3. Alive' = Alive /\ Served' = Served /\ Deleted' = Deleted /\ Noselect' = Noselect
  BY DEF Alive, Served, Deleted, Noselect
<1>4. Refers(q)' /\ Waits(q)' /\ Meddles(q)'
  BY <1>1, <1>3 DEF TaskInv, Refers, Waits, Meddles, Named
<1>5. Makes(q)'
  <2>1. q.pc \in Activating => q.obj # None
    BY <1>1 DEF TaskTyped
  <2> QED
    BY <1>1, <1>2, <1>3, <2>1 DEF TaskInv, Makes
<1>6. Revives(q)'
  BY <1>1, <1>2, <1>3 DEF TaskInv, Revives
<1>7. Deletes(q)'
  <2>1. q.name # n \/ n \in disputed => Deletes(q)'
    BY <1>1, <1>2, <1>3 DEF TaskInv, Deletes
  <2>2. ASSUME q.name = n, n \notin disputed,
               (q.pc \in AtGet /\ q.then = "delete") \/ q.pc \in Ousting
        PROVE  FALSE
    <3>1. q.held = active[n] /\ q.pc # "queued"
      BY <1>1, <2>2 DEF TaskInv, Deletes, AtGet, Activating, Ousting
    <3>2. proc[t].held # None
      BY <2>2 DEF RegistryInv, TaskTyped, Handed
    <3> QED
      BY <1>1, <2>2, <3>1, <3>2 DEF PairInv
  <2> QED
    BY <2>1, <2>2 DEF Deletes
<1> QED
  BY <1>4, <1>5, <1>6, <1>7 DEF TaskInv

\* What is registered and served, when a name is not registered any more.
LEMMA UnregisteredObjects ==
  ASSUME StateTyped, ObjectsInv, UNCHANGED <<activating, mbox, disputed>>, NEW n \in Names,
         active' = [active EXCEPT ![n] = None],
         n \in disputed \/ active[n] \notin Served
  PROVE  ObjectsInv'
<1>1. \A m \in Names : active'[m] = IF m = n THEN None ELSE active[m]
  BY DEF StateTyped
<1>2. Alive' = Alive /\ Served' = Served /\ Noselect' = Noselect
  BY DEF Alive, Served, Noselect
<1>3. ASSUME NEW x \in Served
      PROVE  active'[mbox[x].name] = x \/ mbox[x].name \in disputed \/ activating[mbox[x].name] = "yes"
  <2>1. mbox[x].name \in Names
    BY DEF Served, StateTyped, Object
  <2> QED
    BY <1>1, <2>1 DEF ObjectsInv
<1> QED
  BY <1>1, <1>2, <1>3 DEF ObjectsInv

\* The row goes, ...
LEMMA Forgets ==
  ASSUME RegistryInv, NEW t \in Tasks, Forget(t)
  PROVE  RegistryInv'
<1>1. /\ proc[t].pc = "forgetting" /\ Goto(t, "unregister") /\ "unregister" \in Points /\ StateTyped
      /\ row' = [m \in Names |-> IF m \in RowOf(proc[t].obj) THEN NoRow ELSE row[m]]
      /\ UNCHANGED <<folders, uid_vv, active, activating, mbox, calls, disputed>>
  BY Here DEF Forget, At, Points
<1>2. \A m \in Names : row'[m] = NoRow \/ row'[m] = row[m]
  BY <1>1
<1>3. row' \in [Names -> Row]
  BY <1>1, NoRowTyped DEF StateTyped
<1>4. PICK rows \in [Names -> Row] : rows = row'
  BY <1>3
<1>5. \A m \in Names : rows[m] = NoRow \/ (row[m] # NoRow /\ rows[m].id = row[m].id)
  BY <1>2, <1>4
<1>6. /\ \A m \in Names : rows[m] = NoRow \/ rows[m].id # 0
      /\ \A m, k \in Names : rows[m].id = rows[k].id => m = k \/ rows[m] = NoRow
  BY <1>1, <1>5, RowsStay
<1>7. StateTyped' /\ SameObjects
  BY <1>1, <1>4, <1>6, SameIfUnchanged DEF StateTyped
<1> QED
  BY <1>1, <1>7, GoesOn

\* ... and whatever is registered under the name.
LEMMA Unregisters ==
  ASSUME RegistryInv, NEW t \in Tasks, Unregister(t)
  PROVE  RegistryInv'
<1>1. PICK p \in Proc : p = proc[t] /\ TaskInv(p) /\ TaskTyped(p)
  BY Here
<1>2. PICK n \in Names : n = p.name
  BY DEF Proc
<1>3. /\ p.pc = "unregister" /\ p.pc \notin Activating /\ p.pc # "queued" /\ p.pc \in Ousting
      /\ active' = [active EXCEPT ![n] = None]
      /\ UNCHANGED <<folders, row, uid_vv, activating, mbox, calls, disputed>>
  BY <1>1, <1>2 DEF Unregister, At, Activating, Ousting
<1>4. PICK r : /\ proc' = [proc EXCEPT ![t] = r]
              /\ \/ r = Idle
                 \/ \E m \in Names : r = [p EXCEPT !.name = m, !.pc = "get", !.then = "done"]
  <2>1. CASE n \in Nested
    <3>1. Parent[n] \in Names /\ Gets(t, Parent[n], "done")
      BY <1>1, <1>2, <2>1, RegistryAssumption DEF Unregister
    <3> QED
      BY <1>1, <3>1, Here DEF Gets
  <2>2. CASE n \notin Nested
    BY <1>1, <1>2, <2>2 DEF Unregister, Ends
  <2> QED
    BY <2>1, <2>2
<1>5. StateTyped /\ ObjectsInv /\ proc \in [Tasks -> Proc]
  BY Here
<1>6. n \in disputed \/
        (p.held = p.obj /\ active[n] = p.obj /\ p.obj \notin Noselect /\ p.obj \notin Served)
  BY <1>1, <1>2, <1>3 DEF TaskInv, Deletes
<1>7. StateTyped'
  BY <1>3, <1>5 DEF StateTyped
<1>8. ObjectsInv' /\ activating' = activating
  <2>1. UNCHANGED <<activating, mbox, disputed>> /\ (n \in disputed \/ active[n] \notin Served)
    BY <1>3, <1>6
  <2> QED
    BY <1>3, <1>5, <2>1, UnregisteredObjects
<1>9. ASSUME NEW q \in {proc[u] : u \in Tasks \ {t}} PROVE TaskInv(q)'
  <2>1. PICK u \in Tasks \ {t} : q = proc[u]
    OBVIOUS
  <2>2. q \in Proc /\ UNCHANGED <<activating, mbox, disputed>>
    BY <1>3, <1>5, <2>1
  <2>3. n \in disputed \/
          /\ proc[t].pc = "unregister" /\ proc[t].name = n /\ proc[t].held = proc[t].obj
          /\ active[n] = proc[t].obj /\ proc[t].obj \notin Noselect
    BY <1>1, <1>2, <1>3, <1>6
  <2> QED
    BY <1>3, <2>1, <2>2, <2>3, UnregisteredKeep
<1>10. /\ r \in Proc /\ TaskTyped(r) /\ TaskInv(r)' /\ r.pc \notin Activating
       /\ r.held \in {p.held, None} /\ r.obj \in {p.obj, None}
  <2>1. CASE r = Idle
    BY <2>1, IdleFacts, IdleNext DEF Activating
  <2>2. ASSUME NEW m \in Names, r = [p EXCEPT !.name = m, !.pc = "get", !.then = "done"]
        PROVE  /\ r \in Proc /\ TaskTyped(r) /\ TaskInv(r)' /\ r.pc \notin Activating
               /\ r.held = p.held /\ r.obj = p.obj
    <3>1. /\ r \in Proc /\ r.pc = "get" /\ r.op = p.op /\ r.name = m /\ r.to = p.to
          /\ r.then = "done" /\ r.held = p.held /\ r.obj = p.obj
      <4>1. "done" \in Points /\ "get" \in Points
        BY DEF Points
      <4> QED
        BY <2>2, <4>1 DEF Proc
    <3>2. r.pc \notin Activating /\ r.pc \notin Handed /\ r.pc \in AtGet /\ r.pc \notin Ousting
      BY <3>1 DEF AtGet, Activating, Handed, Ousting
    <3>3. TaskTyped(r)
      BY <3>1, <3>2 DEF TaskTyped, Goals
    <3>4. Alive' = Alive
      BY <1>3 DEF Alive
    <3>5. Refers(r)'
      BY <1>1, <3>1, <3>2, <3>4 DEF TaskInv, Refers
    <3>6. Waits(r)' /\ Makes(r)' /\ Revives(r)' /\ Meddles(r)' /\ Deletes(r)'
      BY <3>1, <3>2 DEF Waits, Makes, Revives, Meddles, Deletes
    <3> QED
      BY <3>1, <3>2, <3>3, <3>5, <3>6 DEF TaskInv
  <2> QED
    BY <1>4, <2>1, <2>2
<1>11. /\ proc' = [u \in Tasks |-> proc'[u]] /\ proc'[t] = r
       /\ \A u \in Tasks \ {t} : proc'[u] = proc[u]
  BY <1>4, <1>5
<1>12. \A u \in Tasks \ {t} : Follows(proc[u], proc'[u])
  BY <1>11 DEF Follows
<1> QED
  BY <1>1, <1>3, <1>7, <1>8, <1>9, <1>10, <1>11, <1>12, Works

\* What is registered under the name of a folder that is gone.
LEMMA PopsStale ==
  ASSUME RegistryInv, NEW t \in Tasks, PopStale(t)
  PROVE  RegistryInv'
<1>1. PICK p \in Proc : p = proc[t] /\ TaskInv(p) /\ TaskTyped(p)
  BY Here
<1>2. PICK n \in Names : n = p.name
  BY DEF Proc
<1>3. /\ p.pc = "pop" /\ p.pc \notin Activating /\ p.pc # "queued"
      /\ active' = [active EXCEPT ![n] = None] /\ Ends(t)
      /\ UNCHANGED <<folders, row, uid_vv, activating, mbox, calls, disputed>>
  BY <1>1, <1>2 DEF PopStale, At, Activating
<1>4. n \in disputed
  BY <1>1, <1>2, <1>3 DEF TaskInv, Meddles
<1>5. StateTyped /\ ObjectsInv /\ proc \in [Tasks -> Proc]
  BY Here
<1>6. StateTyped'
  BY <1>3, <1>5 DEF StateTyped
<1>7. ObjectsInv' /\ activating' = activating
  <2>1. UNCHANGED <<activating, mbox, disputed>>
    BY <1>3
  <2> QED
    BY <1>3, <1>4, <1>5, <2>1, UnregisteredObjects
<1>8. ASSUME NEW q \in {proc[u] : u \in Tasks \ {t}} PROVE TaskInv(q)'
  <2>1. PICK u \in Tasks \ {t} : q = proc[u]
    OBVIOUS
  <2>2. q \in Proc /\ UNCHANGED <<activating, mbox, disputed>>
    BY <1>3, <1>5, <2>1
  <2> QED
    BY <1>3, <1>4, <2>1, <2>2, UnregisteredKeep
<1>9. PICK r : r = Idle
  OBVIOUS
<1>10. r \in Proc /\ TaskTyped(r) /\ r.pc \notin Activating /\ r.held = None /\ r.obj = None /\ TaskInv(r)'
  BY <1>9, IdleFacts, IdleNext DEF Activating
<1>11. /\ proc' = [u \in Tasks |-> proc'[u]] /\ proc'[t] = r
       /\ \A u \in Tasks \ {t} : proc'[u] = proc[u]
  BY <1>3, <1>5, <1>9 DEF Ends
<1>12. \A u \in Tasks \ {t} : Follows(proc[u], proc'[u])
  BY <1>11 DEF Follows
<1> QED
  BY <1>1, <1>3, <1>6, <1>7, <1>8, <1>10, <1>11, <1>12, Works

\* RENAME switches the object to the new name; both names are disputed.
LEMMA Switches ==
  ASSUME RegistryInv, NEW t \in Tasks, SwitchName(t)
  PROVE  RegistryInv'
<1>1. PICK p \in Proc : p = proc[t] /\ TaskInv(p) /\ TaskTyped(p)
  BY Here
<1>2. PICK n \in Names, m \in Names : n = p.name /\ m = p.to
  BY DEF Proc
<1>3. PICK o : o = active[n]
  OBVIOUS
<1>4. /\ p.pc = "switch" /\ p.pc \notin Activating /\ p.pc # "queued" /\ o # None
      /\ mbox' = [mbox EXCEPT ![o].name = m] /\ active' = [active EXCEPT ![n] = None, ![m] = o]
      /\ proc' = [proc EXCEPT ![t].pc = "unlink"]
      /\ UNCHANGED <<folders, row, uid_vv, activating, calls, disputed>>
  BY <1>1, <1>2, <1>3 DEF SwitchName, At, Activating, Goto
<1>5. StateTyped /\ ObjectsInv /\ proc \in [Tasks -> Proc]
  BY Here
<1>6. n \in disputed /\ m \in disputed
  BY <1>1, <1>2, <1>4 DEF TaskInv, Meddles
<1>7. o \in Objects /\ o \in Alive /\ mbox[o].name = n
  BY <1>3, <1>4, <1>5 DEF StateTyped, ObjectsInv
<1>8. /\ active' \in [Names -> Objects \cup {None}] /\ active'[m] = o
      /\ (n # m => active'[n] = None) /\ \A k \in Names \ {n, m} : active'[k] = active[k]
  BY <1>4, <1>5, <1>7 DEF StateTyped
<1>9. PICK b : b = [mbox[o] EXCEPT !.name = m]
  OBVIOUS
<1>10. /\ b \in Object /\ b.alive = mbox[o].alive /\ b.name = m /\ b.deleted = mbox[o].deleted
       /\ b.served = mbox[o].served /\ b.noselect = mbox[o].noselect
  <2>1. mbox[o] \in Object
    BY <1>5, <1>7 DEF StateTyped
  <2> QED
    BY <1>9, <2>1 DEF Object
<1>11. /\ mbox' \in [Objects -> Object] /\ mbox'[o].name = m
       /\ \A x \in Objects \ {o} : mbox'[x] = mbox[x]
       /\ Alive' = Alive /\ Noselect' = Noselect /\ Served' = Served /\ Deleted' = Deleted
  <2>1. mbox' = [mbox EXCEPT ![o] = b]
    BY <1>4, <1>9
  <2>2. /\ mbox' \in [Objects -> Object] /\ mbox'[o] = b
        /\ \A x \in Objects \ {o} : mbox'[x] = mbox[x]
        /\ Alive' = IF b.alive THEN Alive \cup {o} ELSE Alive \ {o}
        /\ Served' = IF b.served THEN Served \cup {o} ELSE Served \ {o}
        /\ Deleted' = IF b.deleted THEN Deleted \cup {o} ELSE Deleted \ {o}
        /\ Noselect' = IF b.noselect THEN Noselect \cup {o} ELSE Noselect \ {o}
    BY <1>5, <1>7, <1>10, <2>1, Changes
  <2>3. /\ o \in Alive <=> b.alive
        /\ o \in Noselect <=> b.noselect
        /\ o \in Deleted <=> b.deleted
        /\ o \in Served <=> b.served
    BY <1>7, <1>10 DEF Alive, Noselect, Deleted, Served
  <2> QED
    BY <1>10, <2>2, <2>3
<1>12. StateTyped'
  BY <1>4, <1>5, <1>8, <1>11 DEF StateTyped
<1>13. ObjectsInv'
  <2>1. ASSUME NEW k \in Names, active'[k] # None
        PROVE  active'[k] \in Alive' /\ mbox'[active'[k]].name = k
    <3>1. CASE k = m
      BY <1>7, <1>8, <1>11, <3>1
    <3>2. CASE k # m
      <4>1. active'[k] = active[k] /\ k # n
        BY <1>8, <2>1, <3>2
      <4>2. active[k] \in Alive /\ mbox[active[k]].name = k /\ active[k] \in Objects
        BY <1>5, <2>1, <4>1 DEF ObjectsInv, StateTyped
      <4> QED
        BY <1>7, <1>11, <4>1, <4>2
    <3> QED
      BY <3>1, <3>2
  <2>2. ASSUME NEW x \in Served
        PROVE  /\ x \in Alive
               /\ \/ active'[mbox'[x].name] = x \/ mbox'[x].name \in disputed
                  \/ activating[mbox'[x].name] = "yes"
               /\ x \in Noselect => mbox'[x].name \in Kept \/ mbox'[x].name \in disputed
    <3>1. CASE x = o
      BY <1>6, <1>7, <1>11, <3>1
    <3>2. CASE x # o
      <4>1. x \in Objects /\ mbox'[x] = mbox[x] /\ mbox[x].name \in Names
        BY <1>5, <1>11, <3>2 DEF Served, StateTyped, Object
      <4> QED
        BY <1>5, <1>6, <1>8, <4>1 DEF ObjectsInv
    <3> QED
      BY <3>1, <3>2
  <2> QED
    BY <1>4, <1>11, <2>1, <2>2, ZenonT(60) DEF ObjectsInv
<1>14. ASSUME NEW x \in Objects, NEW k, Named(x, k) PROVE Named(x, k)'
  BY <1>4, <1>6, <1>7, <1>11, <1>14 DEF Named
<1>15. ASSUME NEW q \in {proc[u] : u \in Tasks \ {t}} PROVE TaskInv(q)'
  <2>1. q \in Proc /\ TaskTyped(q) /\ TaskInv(q)
    BY DEF RegistryInv
  <2>2. /\ q.pc \in Handed \cup Activating => q.obj \in Objects
        /\ q.held # None => q.held \in Objects
        /\ q.name \in Names
    BY <2>1 DEF TaskTyped, Proc
  <2>3. Refers(q)'
    BY <1>11, <1>14, <2>1, <2>2 DEF TaskInv, Refers
  <2>4. Waits(q)' /\ Meddles(q)'
    BY <1>4, <2>1 DEF TaskInv, Waits, Meddles
  <2>5. Makes(q)'
    <3> SUFFICES ASSUME q.pc \in Activating PROVE Makes(q)'
      BY DEF Makes
    <3>1. q.obj # o /\ q.obj # None /\ q.obj \in Objects
      BY <1>3, <2>1, <2>2 DEF TaskInv, TaskTyped, Makes
    <3>2. active'[q.name] = None \/ q.name \in disputed
      BY <1>6, <1>8, <2>1, <2>2 DEF TaskInv, Makes
    <3>3. \A k \in Names : active'[k] # q.obj
      BY <1>8, <2>1, <3>1 DEF TaskInv, Makes
    <3>4. ASSUME NEW x \in Served, mbox'[x].name = q.name
          PROVE  q.name \in disputed \/ (x = q.obj /\ q.pc = "registering")
      <4>1. CASE x = o
        BY <1>6, <1>11, <3>4, <4>1
      <4>2. CASE x # o
        <5>1. mbox[x].name = q.name
          BY <1>11, <3>4, <4>2 DEF Served
        <5> QED
          BY <2>1, <5>1 DEF TaskInv, Makes
      <4> QED
        BY <4>1, <4>2
    <3> QED
      BY <1>4, <1>11, <2>1, <3>1, <3>2, <3>3, <3>4 DEF TaskInv, Makes
  <2>6. Revives(q)' /\ Deletes(q)'
    <3>1. q.name \in disputed \/ active'[q.name] = active[q.name]
      BY <1>6, <1>8, <2>2
    <3> QED
      BY <1>4, <1>11, <2>1, <3>1 DEF TaskInv, Revives, Deletes
  <2> QED
    BY <2>3, <2>4, <2>5, <2>6 DEF TaskInv
<1>16. PICK r : r = [p EXCEPT !.pc = "unlink"]
  OBVIOUS
<1>17. /\ r \in Proc /\ r.pc = "unlink" /\ r.name = p.name /\ r.to = p.to /\ r.held = p.held
       /\ r.obj = p.obj
  <2>1. "unlink" \in Points
    BY DEF Points
  <2> QED
    BY <1>16, <2>1, GotoFacts
<1>18. r.pc \notin Activating /\ r.pc \notin AtGet /\ r.pc \in Handed /\ p.pc \in Handed
  BY <1>4, <1>17 DEF Activating, AtGet, Handed
<1>19. TaskTyped(r)
  BY <1>1, <1>17, <1>18 DEF TaskTyped
<1>20. TaskInv(r)'
  <2>1. p.obj \in Objects /\ Named(p.obj, p.name)
    BY <1>1, <1>18 DEF TaskTyped, TaskInv, Refers, Proc
  <2>2. Refers(r)'
    BY <1>1, <1>11, <1>14, <1>17, <2>1 DEF TaskInv, Refers
  <2>3. Waits(r)' /\ Makes(r)' /\ Revives(r)' /\ Deletes(r)'
    BY <1>17, <1>18 DEF Waits, Makes, Revives, Deletes, Ousting
  <2>4. Meddles(r)'
    BY <1>2, <1>4, <1>6, <1>17 DEF Meddles
  <2> QED
    BY <2>2, <2>3, <2>4 DEF TaskInv
<1>21. /\ proc' = [u \in Tasks |-> proc'[u]] /\ proc'[t] = r
       /\ \A u \in Tasks \ {t} : proc'[u] = proc[u]
  BY <1>1, <1>4, <1>5, <1>16
<1>22. \A u \in Tasks \ {t} : Follows(proc[u], proc'[u])
  BY <1>21 DEF Follows
<1>23. activating' = activating
  BY <1>4
<1>24. /\ proc[t].pc \notin Activating /\ r.pc \notin Activating /\ proc[t].pc # "queued"
       /\ r.obj \in {proc[t].obj, None} /\ r.held \in {proc[t].held, None} /\ r \in Proc
  BY <1>1, <1>4, <1>17, <1>18
<1> QED
  BY <1>12, <1>13, <1>15, <1>19, <1>20, <1>21, <1>22, <1>23, <1>24, Works

\* An object that nobody refers to goes, and takes along what has its name.
LEMMA Collects ==
  ASSUME RegistryInv, NEW o \in Objects, Collect(o)
  PROVE  RegistryInv'
<1>1. /\ o \in Alive /\ o \notin Served /\ (\A n \in Names : active[n] # o)
      /\ \A u \in Tasks : proc[u].held # o /\ proc[u].obj # o
  BY DEF Collect, Garbage, Referenced, Alive, Served
<1>2. StateTyped /\ ObjectsInv /\ mbox[o].name \in Names
  BY DEF RegistryInv, StateTyped, Object
<1>3. PICK n \in Names : n = mbox[o].name
  BY <1>2
<1>4. PICK b : b = [Fresh(Inbox) EXCEPT !.alive = FALSE]
  OBVIOUS
<1>5. b \in Object /\ ~ b.alive /\ ~ b.served
  <2>1. 0 \in 0..Cardinality(Names) /\ 0 \in 0..MaxVv
    <3>1. Cardinality(Names) \in Nat /\ MaxVv \in Nat
      BY RegistryAssumption, FS_CardinalityType
    <3> QED
      BY <3>1
  <2> QED
    BY <1>4, <2>1, RegistryAssumption DEF Fresh, Object
<1>6. /\ active' = [active EXCEPT ![n] = None] /\ disputed \subseteq disputed' /\ disputed' \subseteq Names
      /\ active[n] = None \/ n \in disputed'
      /\ mbox' = [mbox EXCEPT ![o] = b]
      /\ UNCHANGED <<folders, row, uid_vv, activating, proc, calls>>
  BY <1>2, <1>3, <1>4 DEF Collect, StateTyped
<1>7. /\ mbox' \in [Objects -> Object] /\ \A x \in Objects \ {o} : mbox'[x] = mbox[x]
  BY <1>2, <1>5, <1>6, Changes
<1>8. \A x \in Objects \ {o} : /\ x \in Alive' <=> x \in Alive
                               /\ x \in Served' <=> x \in Served
                               /\ x \in Deleted' <=> x \in Deleted
                               /\ x \in Noselect' <=> x \in Noselect
  BY <1>7 DEF Alive, Served, Deleted, Noselect
<1>9. Served' = Served
  <2>1. Served' = Served \ {o}
    BY <1>2, <1>5, <1>6, Changes
  <2> QED
    BY <1>1, <2>1
<1>10. \A m \in Names : active'[m] = IF m = n THEN None ELSE active[m]
  BY <1>2, <1>6 DEF StateTyped
<1>11. StateTyped'
  <2>1. active' \in [Names -> Objects \cup {None}]
    BY <1>2, <1>6 DEF StateTyped
  <2> QED
    BY <1>2, <1>6, <1>7, <2>1 DEF StateTyped
<1>12. ObjectsInv'
  <2>1. ASSUME NEW m \in Names, active'[m] # None PROVE active'[m] \in Alive' /\ mbox'[active'[m]].name = m
    <3>1. active'[m] = active[m]
      BY <1>10, <2>1
    <3>2. active[m] \in Objects \ {o} /\ active[m] \in Alive /\ mbox[active[m]].name = m
      BY <1>1, <1>2, <2>1, <3>1 DEF StateTyped, ObjectsInv
    <3> QED
      BY <1>7, <1>8, <3>1, <3>2
  <2>2. ASSUME NEW x \in Served
        PROVE  /\ x \in Alive'
               /\ \/ active'[mbox'[x].name] = x \/ mbox'[x].name \in disputed'
                  \/ activating'[mbox'[x].name] = "yes"
               /\ x \in Noselect' => mbox'[x].name \in Kept \/ mbox'[x].name \in disputed'
    <3>1. x \in Objects \ {o} /\ mbox'[x] = mbox[x] /\ mbox[x].name \in Names
      BY <1>1, <1>2, <1>7 DEF Served, StateTyped, Object
    <3>2. active[mbox[x].name] = x => active'[mbox[x].name] = x \/ mbox[x].name \in disputed'
      BY <1>6, <1>10, <3>1, RegistryAssumption
    <3> QED
      BY <1>2, <1>6, <1>8, <3>1, <3>2 DEF ObjectsInv
  <2> QED
    BY <1>9, <2>1, <2>2 DEF ObjectsInv
<1>13. ASSUME NEW u \in Tasks PROVE TaskInv(proc[u])'
  <2>1. PICK q \in Proc : q = proc[u] /\ TaskTyped(q) /\ TaskInv(q)
    BY DEF RegistryInv
  <2>2. /\ q.pc \in Handed \cup Activating => q.obj \in Objects \ {o}
        /\ q.held # None => q.held \in Objects \ {o}
        /\ q.obj # None => q.obj \in Objects \ {o}
        /\ q.name \in Names
    BY <1>1, <2>1 DEF TaskTyped, Proc
  <2>3. Refers(q)'
    BY <1>6, <1>7, <1>8, <2>1, <2>2 DEF TaskInv, Refers, Named
  <2>4. Waits(q)' /\ Meddles(q)'
    BY <1>6, <2>1 DEF TaskInv, Waits, Meddles
  <2>5. Makes(q)'
    <3>1. q.pc \in Activating => q.obj # None
      BY <2>1 DEF TaskTyped
    <3>2. \A x \in Served : mbox'[x] = mbox[x]
      BY <1>1, <1>7 DEF Served
    <3> QED
      BY <1>6, <1>7, <1>8, <1>9, <1>10, <2>1, <2>2, <3>1, <3>2 DEF TaskInv, Makes
  <2>6. active'[q.name] = active[q.name] \/ q.name \in disputed'
    BY <1>6, <1>10, <2>2
  <2>7. Revives(q)'
    <3>1. q.pc = "exists" => q.obj \in Objects \ {o}
      BY <2>2 DEF Handed
    <3> QED
      BY <1>6, <1>8, <2>1, <2>6, <3>1 DEF TaskInv, Revives
  <2>8. Deletes(q)'
    <3>1. q.pc \in Ousting => q.obj \in Objects \ {o}
      BY <2>2 DEF Handed, Ousting
    <3> QED
      BY <1>6, <1>8, <2>1, <2>2, <2>6, <3>1 DEF TaskInv, Deletes
  <2>9. TaskInv(q)'
    BY <2>3, <2>4, <2>5, <2>7, <2>8 DEF TaskInv
  <2>10. q = proc'[u]
    BY <1>6, <2>1
  <2> QED
    BY <2>9, <2>10
<1>14. EventsInv'
  BY <1>6 DEF RegistryInv, EventsInv
<1> QED
  BY <1>6, <1>11, <1>12, <1>13, <1>14 DEF RegistryInv

-----------------------------------------------------------------------------
(* The invariant is inductive *)

\* A start of the server.
LEMMA RegistryStarts == Init => RegistryInv
<1> SUFFICES ASSUME Init PROVE RegistryInv
  OBVIOUS
<1>1. Cardinality(Names) \in Nat /\ MaxVv \in Nat \ {0} /\ NoRow \in Row
  BY RegistryAssumption, FS_CardinalityType, NoRowTyped
<1>2. folders \subseteq Names
  BY RegistryAssumption DEF Init
<1>3. PICK known \in {{}} \cup {{n} : n \in Nested} :
        /\ row = [n \in Names |-> IF n \in known THEN [id |-> 1, vv |-> 1, noselect |-> FALSE] ELSE NoRow]
        /\ uid_vv = Cardinality(known)
  BY DEF Init
<1>4. PICK first : first = [id |-> 1, vv |-> 1, noselect |-> FALSE]
  OBVIOUS
<1>5. (\E n \in Names : n \in known) => first \in Row
  <2>1. 1 \in 0..MaxVv
    BY <1>1
  <2>2. Names # {} => 1 \in 0..Cardinality(Names)
    <3>1. Names # {} => Cardinality(Names) # 0
      BY RegistryAssumption, FS_EmptySet
    <3> QED
      BY <1>1, <3>1
  <2> QED
    BY <1>4, <2>1, <2>2 DEF Row
<1>6. /\ row \in [Names -> Row]
      /\ \A n \in Names : row[n] = IF n \in known THEN first ELSE NoRow
  BY <1>1, <1>3, <1>4, <1>5
<1>7. /\ \A n \in Names : row[n] = NoRow \/ row[n].id # 0
      /\ \A n, m \in Names : row[n].id = row[m].id => n = m \/ row[n] = NoRow
  <2>1. first.id = 1 /\ NoRow.id = 0
    BY <1>4 DEF NoRow
  <2>2. \A n, m \in known : n = m
    BY <1>3
  <2> QED
    BY <1>6, <2>1, <2>2
<1>8. uid_vv \in 0..MaxVv
  <2>1. Cardinality(known) \in {0, 1}
    BY <1>3, FS_EmptySet, FS_Singleton
  <2> QED
    BY <1>1, <1>3, <2>1
<1>9. PICK b : b = [Fresh(Inbox) EXCEPT !.alive = FALSE]
  OBVIOUS
<1>10. b \in Object /\ ~ b.alive /\ ~ b.served
  <2>1. 0 \in 0..Cardinality(Names) /\ 0 \in 0..MaxVv
    BY <1>1
  <2> QED
    BY <1>9, <2>1, RegistryAssumption DEF Fresh, Object
<1>11. /\ active = [n \in Names |-> None] /\ activating = [n \in Names |-> "no"] /\ disputed = {}
       /\ mbox = [o \in Objects |-> b] /\ proc = [t \in Tasks |-> Idle] /\ calls = 0
  BY <1>9 DEF Init
<1>12. StateTyped
  <2>1. calls \in 0..MaxCalls
    BY <1>11, RegistryAssumption
  <2> QED
    BY <1>2, <1>6, <1>7, <1>8, <1>10, <1>11, <2>1 DEF StateTyped
<1>13. ObjectsInv /\ EventsInv
  BY <1>10, <1>11 DEF ObjectsInv, EventsInv, Served
<1>14. \A t \in Tasks : TaskTyped(proc[t]) /\ TaskInv(proc[t]) /\ proc[t] = Idle
  BY <1>11, IdleFacts
<1>15. \A t, u \in Tasks : PairInv(proc[t], proc[u])
  BY <1>14, IdleFacts DEF PairInv, Activating
<1> QED
  BY <1>11, <1>12, <1>13, <1>14, <1>15, IdleFacts DEF RegistryInv

\* A step of getting a mailbox.
LEMMA GettingKeeps ==
  ASSUME RegistryInv, NEW t \in Tasks, Getting(t)
  PROVE  RegistryInv'
BY GettingIt, GettingWaits, StartsToActivate, Restores, Counts, Inserts, FailsToActivate, Activates,
   WaitsToRegister
   DEF Getting

\* A step of a command that has got it.
LEMMA WorkingKeeps ==
  ASSUME RegistryInv, NEW t \in Tasks, Creating(t) \/ Deleting(t) \/ Renaming(t)
  PROVE  RegistryInv'
<1>1. CASE Creating(t)
  BY <1>1, Ending, RevivesIt, MakesFolder, Tells DEF Creating
<1>2. CASE Deleting(t)
  BY <1>2, Ending, Keeps, Commits, ShutsDown, RemovesFolder, Forgets, Unregisters DEF Deleting
<1>3. CASE Renaming(t)
  BY <1>3, Ending, Links, RenamesRow, Switches, Unlinks, Tells DEF Renaming
<1> QED
  BY <1>1, <1>2, <1>3

\* Every step.
LEMMA RegistryStep == RegistryInv /\ [Next]_vars => RegistryInv'
<1> SUFFICES ASSUME RegistryInv, [Next]_vars PROVE RegistryInv'
  OBVIOUS
<1>1. ASSUME NEW o \in Objects, Collect(o) PROVE RegistryInv'
  BY <1>1, Collects
<1>2. ASSUME NEW t \in Tasks, Call(t) PROVE RegistryInv'
  BY <1>2, Calls
<1>3. ASSUME NEW t \in Tasks, Step(t) PROVE RegistryInv'
  <2>1. CASE Getting(t)
    BY <2>1, GettingKeeps
  <2>2. CASE Creating(t) \/ Deleting(t) \/ Renaming(t)
    BY <2>2, WorkingKeeps
  <2>3. CASE Checking(t)
    BY <2>3, RemovesStaleRow, PopsStale DEF Checking
  <2>4. CASE Queueing(t)
    BY <2>4, Enqueues, LetsIn, Ending DEF Queueing
  <2> QED
    BY <1>3, <2>1, <2>2, <2>3, <2>4 DEF Step
<1>4. ASSUME NEW t \in Tasks, Unselect(t) PROVE RegistryInv'
  BY <1>4, Ending
<1>5. CASE UNCHANGED vars
  <2>1. UNCHANGED <<folders, row, uid_vv, active, activating, mbox, proc, calls, disputed>>
    BY <1>5 DEF vars
  <2>2. StateTyped' /\ SameObjects /\ ObjectsInv /\ StateTyped
    BY <2>1, SameIfUnchanged DEF StateTyped, RegistryInv
  <2>3. ObjectsInv' /\ EventsInv'
    <3>1. EventsInv'
      BY <2>1 DEF RegistryInv, EventsInv
    <3> QED
      BY <2>2, <3>1, SameObjectsInv
  <2>4. \A p \in Proc : TaskTyped(p) /\ TaskInv(p) => TaskInv(p)'
    BY <2>2, SameTaskInv
  <2>5. PICK ps : ps = proc /\ ps = proc'
    BY <2>1
  <2>6. /\ ps \in [Tasks -> Proc] /\ \A t \in Tasks : TaskTyped(ps[t]) /\ TaskInv(ps[t])
        /\ \A t, u \in Tasks : t # u => PairInv(ps[t], ps[u])
    BY <2>5 DEF RegistryInv
  <2>7. \A t \in Tasks : TaskInv(ps[t])'
    BY <2>4, <2>6
  <2> QED
    BY <2>2, <2>3, <2>5, <2>6, <2>7 DEF RegistryInv
<1> QED
  BY <1>1, <1>2, <1>3, <1>4, <1>5 DEF Next

\* What is told of every state follows from the invariant.
LEMMA RegistryAlways == Spec => []RegistryInv
<1>1. Init => RegistryInv
  BY RegistryStarts
<1>2. RegistryInv /\ [Next]_vars => RegistryInv'
  BY RegistryStep
<1> QED
  BY <1>1, <1>2, PTL DEF Spec

-----------------------------------------------------------------------------
(* Theorems *)

\* Every variable keeps its type, and the rows of the database have ids of their
\* own (IMAPUserServer, Mailbox): an id of a new row is one that is free.
THEOREM RegistryTyped == Spec => []RegistryTypeOK
<1>1. RegistryInv => RegistryTypeOK
  BY DEF RegistryInv, StateTyped, RegistryTypeOK, Proc
<1> QED
  BY <1>1, RegistryAlways, PTL

\* Two Mailbox objects at work on one name (get_mailbox, Mailbox.new) come about
\* only where a RENAME, a check of a vanished folder or a finalizer has meddled
\* with the name.
THEOREM OneMailboxPerNameHolds == Spec => []OneMailboxPerName
<1>1. RegistryInv => OneMailboxPerName
  <2> SUFFICES ASSUME RegistryInv, NEW o1 \in Objects, NEW o2 \in Objects, o1 # o2,
                      AtWork(o1), AtWork(o2), mbox[o1].name = mbox[o2].name
               PROVE  mbox[o1].name \in disputed
    BY DEF OneMailboxPerName
  <2>1. StateTyped /\ ObjectsInv
    BY DEF RegistryInv
  <2>2. ASSUME NEW o \in Objects, AtWork(o)
        PROVE  \/ o \in Served
               \/ \E t \in Tasks : proc[t].pc \in Activating /\ proc[t].obj = o
    BY <2>2 DEF AtWork, Served, Activating
  <2>3. ASSUME NEW t \in Tasks, proc[t].pc \in Activating
        PROVE  /\ mbox[proc[t].obj].name = proc[t].name /\ proc[t].name \in Names
               /\ \A o \in Served : mbox[o].name = proc[t].name => proc[t].name \in disputed \/ o = proc[t].obj
    BY <2>3 DEF RegistryInv, TaskInv, Makes, Proc
  <2>4. ASSUME NEW t \in Tasks, proc[t].pc \in Activating, proc[t].obj \in {o1, o2},
               NEW o \in Served, o \in {o1, o2} \ {proc[t].obj}
        PROVE  mbox[o1].name \in disputed
    BY <2>3, <2>4
  <2>5. CASE o1 \in Served /\ o2 \in Served
    <3>1. PICK n \in Names : n = mbox[o1].name /\ n = mbox[o2].name
      BY <2>1 DEF StateTyped, Object
    <3>2. n \in disputed \/ activating[n] = "yes"
      BY <2>1, <2>5, <3>1 DEF ObjectsInv
    <3>3. ASSUME activating[n] = "yes" PROVE n \in disputed
      <4>1. PICK t \in Tasks : proc[t].pc \in Activating /\ proc[t].name = n
        BY <3>3 DEF RegistryInv, EventsInv
      <4> QED
        BY <2>3, <2>5, <3>1, <4>1
    <3> QED
      BY <3>1, <3>2, <3>3
  <2>6. ASSUME NEW t \in Tasks, proc[t].pc \in Activating, proc[t].obj = o1,
               NEW u \in Tasks, proc[u].pc \in Activating, proc[u].obj = o2
        PROVE  FALSE
    <3>1. t # u /\ proc[t].name = proc[u].name
      BY <2>3, <2>6
    <3> QED
      BY <2>6, <3>1 DEF RegistryInv, PairInv
  <2> QED
    BY <2>2, <2>4, <2>5, <2>6
<1> QED
  BY <1>1, RegistryAlways, PTL

\* What has a management task is found under its name (active_mailboxes), and
\* nothing is registered under a name that is not its own; but for names that are
\* disputed, and for a mailbox whose activation waits, with its task at work, for
\* the lock that RENAME keeps over its await (active_mailboxes_lock).
THEOREM ServedIsRegisteredHolds == Spec => []ServedIsRegistered
<1>1. RegistryInv => ServedIsRegistered
  <2> SUFFICES ASSUME RegistryInv, NEW o \in Objects, mbox[o].served
               PROVE  /\ \/ active[mbox[o].name] = o \/ mbox[o].name \in disputed
                         \/ \E t \in Tasks : proc[t].pc = "registering" /\ proc[t].obj = o
                      /\ \A n \in Names : active[n] = o => n = mbox[o].name
    BY DEF ServedIsRegistered
  <2>1. ObjectsInv /\ o \in Served /\ o # None
    BY RegistryAssumption DEF RegistryInv, Served
  <2>2. PICK n \in Names : n = mbox[o].name
    BY DEF RegistryInv, StateTyped, Object
  <2>3. ASSUME activating[n] = "yes"
        PROVE  n \in disputed \/ \E t \in Tasks : proc[t].pc = "registering" /\ proc[t].obj = o
    <3>1. PICK t \in Tasks : proc[t].pc \in Activating /\ proc[t].name = n
      BY <2>3 DEF RegistryInv, EventsInv
    <3>2. Makes(proc[t])
      BY DEF RegistryInv, TaskInv
    <3> QED
      BY <2>1, <2>2, <3>1, <3>2 DEF Makes
  <2>4. active[n] = o \/ n \in disputed \/ activating[n] = "yes"
    BY <2>1, <2>2 DEF ObjectsInv
  <2>5. \A m \in Names : active[m] = o => m = mbox[o].name
    BY <2>1 DEF ObjectsInv
  <2> QED
    BY <2>2, <2>3, <2>4, <2>5
<1> QED
  BY <1>1, RegistryAlways, PTL

\* Whoever waits for the event of an activation (activating_mailboxes) waits for
\* a task that is at it, unless it failed: then the event is never set.
THEOREM NobodyForgottenHolds == Spec => []NobodyForgotten
<1>1. RegistryInv => NobodyForgotten
  <2> SUFFICES ASSUME RegistryInv, NEW t \in Tasks, proc[t].pc = "waiting",
                      activating[proc[t].name] # "failed"
               PROVE  \E u \in Tasks : proc[u].pc \in Activating /\ proc[u].name = proc[t].name
    BY DEF NobodyForgotten, Activating
  <2>1. proc[t].name \in Names /\ activating[proc[t].name] # "no"
    BY DEF RegistryInv, TaskInv, Waits, Proc
  <2>2. activating[proc[t].name] = "yes"
    BY <2>1 DEF RegistryInv, StateTyped
  <2> QED
    BY <2>1, <2>2 DEF RegistryInv, EventsInv
<1> QED
  BY <1>1, RegistryAlways, PTL
=============================================================================
