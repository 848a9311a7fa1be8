--------------------------- MODULE ClientSession ---------------------------
(***************************************************************************)
(* The IMAP sessions that look at one mailbox, and what they are told of   *)
(* it.  A session runs one command at a time (IMAPClientProxy.run and      *)
(* Authenticated).  EXISTS goes to every session at once; EXPUNGE and      *)
(* FETCH go at once to sessions that idle and are kept in                  *)
(* pending_notifications for the others.                                   *)
(*                                                                         *)
(* What MailboxScheduler decides is taken in a wider sense here: commands  *)
(* that share run together whatever their messages, solitary ones alone,   *)
(* in any order.  A running command is not cut by COMMAND_TIMEOUT; one     *)
(* that waits may be.                                                      *)
(*                                                                         *)
(* `view' is not in the code: it is the list of messages a client makes of *)
(* the responses it was sent, Unknown where it has not seen the UID yet.   *)
(***************************************************************************)
EXTENDS Integers, FiniteSets, SequencesExt

CONSTANTS Clients,       \* the connections, one session each at a time
          MaxUid,        \* bound on the UIDs given out
          InitialMail,   \* messages to begin with
          MaxReads,      \* bound on what is read: commands, DONE, an end of file
          MaxPending,    \* bound on what a STORE may add to a pending list
          Offered,       \* the commands that each client sends
          FetchLimit,    \* FETCHes refused before the BYE (3 in the code)
          SelectLimit,   \* SELECTs of the selected mailbox before it (10)
          Faults         \* subset of {"slow", "timeout", "leave"}

CONSTANT Task            \* the management task, which resyncs

ASSUME SessionAssumption ==
  /\ IsFiniteSet(Clients) /\ Task \notin Clients
  /\ MaxUid \in Nat /\ InitialMail \in 0..MaxUid
  /\ FetchLimit \in Nat /\ SelectLimit \in Nat /\ MaxPending \in Nat
  /\ MaxReads \in Nat
  /\ Faults \subseteq {"slow", "timeout", "leave"}

VARIABLES
  msgs,      \* mbox.msg_keys, as UIDs
  lastUid,   \* mbox.next_uid - 1
  flagged,   \* mbox.sequences["Deleted"]
  exists,    \* the mailbox has not been DELETEd
  served,    \* its management task has not returned
  torn,      \* an EXPUNGE was cut in two; its look-up tables are stale
  clients,   \* mbox.clients, in the order of the dict
  walks,     \* who is walking over mbox.clients, and where it is
  state, selected, idling, examine, refusals, reselects, pending,
             \* of Authenticated; `selected' is self.mbox is not None
  req,       \* the command of a session
  stage,     \* where it is
  sent,      \* how much of `pending' is written while drain() blocks
  reads,     \* the number of commands read
  view, adrift

boxVars   == <<msgs, lastUid, flagged, exists, served, torn>>
talkVars  == <<pending, sent, view, adrift>>
placeVars == <<state, selected, examine, refusals, reselects, clients>>
sessionVars == <<boxVars, clients, walks, state, selected, idling, examine,
                 refusals, reselects, req, stage, reads, talkVars>>

Unknown == 0
Walkers == Clients \cup {Task}
Uids    == 1..MaxUid
ByNumber == {"FETCH", "STORE", "SEARCH", "COPY", "MOVE"}
Solitary == {"APPEND", "CHECK", "DELETE", "MOVE", "MOVED", "CLOSE", "EXPUNGE"}

\* n: the message number a command names; meant: the message the client has
\* on record under it; uid: a UID command, which names `meant' itself.
Request == [op : (UNION {Offered[c] : c \in Clients}) \cup {"FETCHED", "MOVED", "none"},
            uid : BOOLEAN, n : 0..MaxUid, meant : 0..MaxUid]
NoRequest == [op |-> "none", uid |-> FALSE, n |-> 0, meant |-> Unknown]

Note == [type : {"EXISTS", "EXPUNGE", "FETCH"}, n : 0..MaxUid, uid : 0..MaxUid]
Exists(n)     == [type |-> "EXISTS", n |-> n, uid |-> Unknown]
Expunged(n, u) == [type |-> "EXPUNGE", n |-> n, uid |-> u]
Flags(n, u)   == [type |-> "FETCH", n |-> n, uid |-> u]

\* A walk over mbox.clients: what it brings, to all at once ("exists") or not
\* ("dispatch"), what to dispatch after it, whom it leaves out, and, once
\* begun, whom it has been at, and the iterator of the dict: how many clients
\* there were and how many of them it still expects.
NoWalk == [kind |-> "none", notes |-> << >>, after |-> << >>, skip |-> Task,
           begun |-> FALSE, done |-> {}, size |-> 0, left |-> 0]
Announcement(n, after) == [NoWalk EXCEPT !.kind = "exists", !.notes = << Exists(n) >>, !.after = after]
Dispatch(notes, but)   == [NoWalk EXCEPT !.kind = "dispatch", !.notes = notes, !.skip = but]

SessionTypeOK ==
  /\ msgs \in Seq(Uids) /\ lastUid \in 0..MaxUid /\ flagged \subseteq Uids
  /\ {exists, served, torn} \subseteq BOOLEAN
  /\ clients \in Seq(Clients) /\ IsInjective(clients)
  /\ \A w \in Walkers :
       /\ walks[w].notes \in Seq(Note) /\ walks[w].done \subseteq Clients
       /\ walks[w].kind \in {"none", "exists", "dispatch"} /\ walks[w].skip \in Walkers
       /\ walks[w].begun \in BOOLEAN /\ walks[w].left \in 0..walks[w].size
  /\ state \in [Clients -> {"authenticated", "selected", "logged_out"}]
  /\ selected \in [Clients -> BOOLEAN] /\ idling \in [Clients -> BOOLEAN]
  /\ examine \in [Clients -> BOOLEAN]
  /\ refusals \in [Clients -> 0..FetchLimit]
  /\ reselects \in [Clients -> 0..SelectLimit]
  /\ req \in [Clients -> Request]
  /\ stage \in [Clients -> {"none", "sending", "waiting", "working", "announcing", "closing"}]
  /\ \A c \in Clients : pending[c] \in Seq(Note) /\ sent[c] \in 0..Len(pending[c])
  /\ \A c \in Clients : view[c] \in Seq(0..MaxUid)
  /\ reads \in 0..MaxReads /\ adrift \subseteq Clients

-----------------------------------------------------------------------------
(* What clients make of the responses *)

Hear(v, x) ==
  CASE x.type = "EXISTS"  -> v \o [i \in 1..(x.n - Len(v)) |-> Unknown]
    [] x.type = "EXPUNGE" -> IF x.n \in DOMAIN v THEN RemoveAt(v, x.n) ELSE v
    [] x.type = "FETCH"   -> IF x.n \in DOMAIN v THEN [v EXCEPT ![x.n] = x.uid] ELSE v

HearAll(v, notes) ==
  LET heard[i \in 0..Len(notes)] == IF i = 0 THEN v ELSE Hear(heard[i - 1], notes[i])
  IN  heard[Len(notes)]

\* A response does not contradict what the client has on record.
Credible(v, x) ==
  IF x.type = "EXISTS" THEN x.n >= Len(v)
  ELSE x.n \in DOMAIN v /\ v[x.n] \in {Unknown, x.uid}

AllCredible(v, notes) ==
  \A i \in DOMAIN notes : Credible(HearAll(v, SubSeq(notes, 1, i - 1)), notes[i])

HasExpunge(notes) == \E i \in DOMAIN notes : notes[i].type = "EXPUNGE"
Unsent(c) == SubSeq(pending[c], sent[c] + 1, Len(pending[c]))
PendingExpunges(c) == HasExpunge(pending[c])

\* What walks are yet to bring to c.
Ahead(w, c) == c # walks[w].skip /\ c \notin walks[w].done
Coming(c) ==
  LET walkers == SetToSeq(Walkers)
  IN  FlattenSeq([i \in DOMAIN walkers |->
        IF Ahead(walkers[i], c) THEN walks[walkers[i]].notes ELSE << >>])

-----------------------------------------------------------------------------
(* State formulae *)

\* The list s without the elements of D.
Outside(s, D) ==
  LET kept[i \in 0..Len(s)] ==
        IF i = 0 THEN << >>
        ELSE IF s[i] \in D THEN kept[i - 1] ELSE Append(kept[i - 1], s[i])
  IN  kept[Len(s)]

Registered(c) == c \in ToSet(clients)
Connected(c)  == state[c] # "logged_out" /\ stage[c] # "closing"
Without(c)    == Outside(clients, {c})

Holding(c) ==
  \/ stage[c] \in {"working", "announcing"}
  \/ stage[c] = "sending" /\ req[c].op = "NOOP"

\* The management task lets the command of c go ahead.
LetIn(c) ==
  /\ stage[c] = "waiting" /\ served /\ exists
  /\ walks[Task] = NoWalk
  /\ \A d \in Clients : Holding(d) => req[d].op \notin Solitary /\ req[c].op \notin Solitary

Position(u) == CHOOSE i \in DOMAIN msgs : msgs[i] = u

\* The numbers a command works on: one, or none if its UID is gone.
Targets(r) ==
  IF r.uid THEN {i \in DOMAIN msgs : msgs[i] = r.meant} ELSE {r.n} \cap DOMAIN msgs

\* What an EXPUNGE has yet to remove.
Victims(c) ==
  IF req[c].op = "MOVED" THEN {req[c].meant} \cap ToSet(msgs)
  ELSE flagged \cap ToSet(msgs)

\* To begin with, every session has selected the mailbox.
SessionInit ==
  /\ msgs = [i \in 1..InitialMail |-> i] /\ lastUid = InitialMail
  /\ flagged = {} /\ exists = TRUE /\ served = TRUE /\ torn = FALSE
  /\ clients = SetToSeq(Clients)
  /\ walks = [w \in Walkers |-> NoWalk]
  /\ state = [c \in Clients |-> "selected"]
  /\ selected = [c \in Clients |-> TRUE]
  /\ idling = [c \in Clients |-> FALSE]
  /\ examine = [c \in Clients |-> FALSE]
  /\ refusals = [c \in Clients |-> 0]
  /\ reselects = [c \in Clients |-> 0]
  /\ pending = [c \in Clients |-> << >>]
  /\ req = [c \in Clients |-> NoRequest]
  /\ stage = [c \in Clients |-> "none"]
  /\ sent = [c \in Clients |-> 0]
  /\ view = [c \in Clients |-> msgs]
  /\ reads = 0 /\ adrift = {}

-----------------------------------------------------------------------------
\* The tagged response is out.
Ends(c) ==
  /\ stage' = [stage EXCEPT ![c] = "none"]
  /\ req' = [req EXCEPT ![c] = NoRequest]
  /\ idling' = [idling EXCEPT ![c] = FALSE]

-----------------------------------------------------------------------------
(* Sending *)

\* Pushed to some sessions right now, past what is pending for them: past an
\* EXPUNGE, or an EXPUNGE past a FETCH, the numbers are no longer right.
Overtakes(c, notes) ==
  \/ notes # << >> /\ HasExpunge(Unsent(c))
  \/ HasExpunge(notes) /\ Unsent(c) # << >>

Tell(cs, notes) ==
  /\ view' = [c \in Clients |-> IF c \in cs THEN HearAll(view[c], notes) ELSE view[c]]
  /\ adrift' = adrift \cup {c \in cs : Overtakes(c, notes)}

\* Where a command goes once send_pending_notifications() is through.
\* EXPUNGE "idles" while it waits and works, to be told at once.
Proceed(c, r) ==
  LET waits == \/ r.op \in {"FETCH", "STORE", "SEARCH", "COPY", "MOVE", "CHECK", "APPEND", "DELETE"}
               \/ r.op = "EXPUNGE" /\ ~ examine[c]
  IN  /\ stage' = [stage EXCEPT ![c] = IF waits THEN "waiting" ELSE "none"]
      /\ req' = [req EXCEPT ![c] = IF waits THEN r ELSE NoRequest]
      /\ idling' = [idling EXCEPT ![c] = r.op = "IDLE" \/ (r.op = "EXPUNGE" /\ waits)]

\* Mutant: the list is cleared before it is sent.
SendPendingCleared(c, r) ==
  /\ pending' = [pending EXCEPT ![c] = << >>]
  /\ Proceed(c, r)
  /\ UNCHANGED <<sent, view, adrift>>

\* push() writes it all; if drain() blocks the list is cleared only later.
SendPending(c, r) ==
  /\ view' = [view EXCEPT ![c] = HearAll(@, pending[c])]
  /\ UNCHANGED adrift
  /\ \/ /\ pending' = [pending EXCEPT ![c] = << >>]
        /\ Proceed(c, r)
        /\ UNCHANGED sent
     \/ /\ "slow" \in Faults /\ pending[c] # << >>
        /\ sent' = [sent EXCEPT ![c] = Len(pending[c])]
        /\ req' = [req EXCEPT ![c] = r]
        /\ stage' = [stage EXCEPT ![c] = "sending"]
        /\ idling' = [idling EXCEPT ![c] = FALSE]
        /\ UNCHANGED pending

\* drain() returns: what was appended meanwhile is cleared unsent.
Drained(c) ==
  /\ stage[c] = "sending"
  /\ adrift' = IF HasExpunge(Unsent(c)) THEN adrift \cup {c} ELSE adrift
  /\ pending' = [pending EXCEPT ![c] = << >>]
  /\ sent' = [sent EXCEPT ![c] = 0]
  /\ Proceed(c, req[c])
  /\ UNCHANGED <<boxVars, placeVars, walks, view>>

\* A STORE or FETCH can keep a pending list growing.
RoomPending == \A c \in Clients : Len(pending[c]) < MaxPending

(* A walk over the clients *)

\* Mutant: everyone is told at once.
AtOnceAlways(w, c) == walks[w] # NoWalk

AtOnce(w, c) == walks[w].kind = "exists" \/ idling[c]

\* Who is before the iterator: an entry that is removed is not, and one that
\* is put back is at the end.
Todo(w) == Outside(clients, walks[w].done)
Left(w) == IF walks[w].begun THEN walks[w].left ELSE Len(clients)

\* dict iteration raises RuntimeError when the size has changed, and when an
\* entry is found where none is left.
Disturbed(w) ==
  /\ walks[w].begun
  /\ Len(clients) # walks[w].size \/ (walks[w].left = 0 /\ Todo(w) # << >>)

\* As many clients as are served before a drain() blocks, perhaps all.
BringTo(w, k) ==
  LET now == {d \in ToSet(SubSeq(Todo(w), 1, k)) : d # walks[w].skip}
  IN  /\ Tell({d \in now : AtOnce(w, d)}, walks[w].notes)
      /\ pending' = [d \in Clients |-> IF d \in now /\ ~ AtOnce(w, d)
                                       THEN pending[d] \o walks[w].notes ELSE pending[d]]

BlocksAfter(w, k) ==
  /\ "slow" \in Faults /\ k > 0
  /\ AtOnce(w, Todo(w)[k]) /\ Todo(w)[k] # walks[w].skip

\* Up to a client that blocks, or to the one where RuntimeError is next.
Visit(w) ==
  /\ walks[w] # NoWalk /\ ~ Disturbed(w)
  /\ \E k \in 1..Len(Todo(w)) :
       /\ k <= Left(w)
       /\ BlocksAfter(w, k) \/ (k = Left(w) /\ k < Len(Todo(w)))
       /\ BringTo(w, k)
       /\ walks' = [walks EXCEPT ![w] =
                      [@ EXCEPT !.begun = TRUE,
                                !.done = walks[w].done \cup ToSet(SubSeq(Todo(w), 1, k)),
                                !.size = Len(clients),
                                !.left = Left(w) - k]]
  /\ UNCHANGED <<boxVars, placeVars, idling, req, stage, sent>>

\* After EXISTS the flags of the new messages follow.
VisitLast(w) ==
  /\ walks[w] # NoWalk /\ ~ Disturbed(w) /\ Len(Todo(w)) <= Left(w)
  /\ BringTo(w, Len(Todo(w)))
  /\ walks' = [walks EXCEPT ![w] =
                 IF @.after # << >> THEN Dispatch(@.after, Task) ELSE NoWalk]
  /\ UNCHANGED <<boxVars, placeVars, idling, req, stage, sent>>

\* The push to a client that blocked fails, or the walk is Disturbed.  The
\* rest hear nothing.  A session whose command raises ends; the management
\* task returns on RuntimeError and goes on after anything else.
WalkFails(w) ==
  /\ walks[w].begun
  /\ adrift' = IF walks[w].notes[1].type = "FETCH" THEN adrift
               ELSE adrift \cup ToSet(Todo(w))
  /\ walks' = [walks EXCEPT ![w] = NoWalk]
  /\ served' = IF w = Task /\ Disturbed(w) THEN FALSE ELSE served
  /\ IF w = Task THEN UNCHANGED <<stage, idling, torn>>
     ELSE /\ stage' = [stage EXCEPT ![w] = "closing"]
          /\ idling' = [idling EXCEPT ![w] = FALSE]
          /\ torn' = (torn \/ req[w].op \in {"EXPUNGE", "MOVED", "CLOSE"})
  /\ UNCHANGED <<msgs, lastUid, flagged, exists, placeVars, req, pending, sent, view>>

-----------------------------------------------------------------------------
(* New mail *)

\* check_new_msgs_and_flags finds n new messages: the list grows, EXISTS goes
\* to everyone, then the flags of what is new.
FindMail(w, n) ==
  /\ lastUid + n <= MaxUid
  /\ msgs' = msgs \o [i \in 1..n |-> lastUid + i]
  /\ lastUid' = lastUid + n
  /\ walks' = [walks EXCEPT ![w] = Announcement(Len(msgs'),
                 [i \in 1..n |-> Flags(Len(msgs) + i, lastUid + i)])]
  /\ UNCHANGED <<flagged, exists, served, torn>>

\* Mail may have been delivered at any time.
Resync ==
  /\ exists /\ served /\ walks[Task] = NoWalk
  /\ \A c \in Clients : ~ Holding(c)
  /\ FindMail(Task, 1)
  /\ UNCHANGED <<placeVars, idling, req, stage, talkVars>>

-----------------------------------------------------------------------------
(* The end of a session *)

\* unceremonious_bye, after what the command has done to the counts.
Bye(c) ==
  /\ clients' = Without(c)
  /\ selected' = [selected EXCEPT ![c] = FALSE]
  /\ state' = [state EXCEPT ![c] = "logged_out"]
  /\ stage' = [stage EXCEPT ![c] = "closing"]
  /\ UNCHANGED <<boxVars, walks, idling, examine, req, talkVars>>

\* The client hangs up.
Leave(c) ==
  /\ "leave" \in Faults /\ stage[c] = "none"
  /\ stage' = [stage EXCEPT ![c] = "closing"]
  /\ UNCHANGED <<boxVars, placeVars, walks, idling, req, talkVars>>

\* client_done; a new connection may take the place.
Gone(c) ==
  /\ stage[c] = "closing" /\ walks[c] = NoWalk
  /\ clients' = Without(c)
  /\ state' = [state EXCEPT ![c] = "authenticated"]
  /\ selected' = [selected EXCEPT ![c] = FALSE]
  /\ idling' = [idling EXCEPT ![c] = FALSE]
  /\ examine' = [examine EXCEPT ![c] = FALSE]
  /\ refusals' = [refusals EXCEPT ![c] = 0]
  /\ reselects' = [reselects EXCEPT ![c] = 0]
  /\ pending' = [pending EXCEPT ![c] = << >>]
  /\ req' = [req EXCEPT ![c] = NoRequest]
  /\ stage' = [stage EXCEPT ![c] = "none"]
  /\ view' = [view EXCEPT ![c] = << >>]
  /\ adrift' = adrift \ {c}
  /\ UNCHANGED <<boxVars, walks, sent>>

-----------------------------------------------------------------------------
(* Commands: from the first line of a handler to the wait, or the answer *)

Reads(c, op) == stage[c] = "none" /\ ~ idling[c] /\ op \in Offered[c]

Plain(op) == [NoRequest EXCEPT !.op = op]

\* CAPABILITY, NAMESPACE, ID, LIST, LSUB, CREATE, SUBSCRIBE, UNSUBSCRIBE, a
\* second LOGIN, and IDLE: first of all send what is pending.
DoPlain(c) ==
  \E op \in {"LIST", "IDLE"} :
    /\ Reads(c, op)
    /\ SendPending(c, Plain(op))
    /\ UNCHANGED <<boxVars, placeVars, walks>>

\* DONE is read only while the session idles.
DoDone(c) ==
  /\ stage[c] = "none" /\ idling[c]
  /\ SendPending(c, Plain("none"))
  /\ UNCHANGED <<boxVars, placeVars, walks>>

\* NOOP waits for the mailbox first, if there is one.
DoNoop(c) ==
  /\ Reads(c, "NOOP") /\ selected[c]
  /\ req' = [req EXCEPT ![c] = Plain("NOOP")]
  /\ stage' = [stage EXCEPT ![c] = "waiting"]
  /\ UNCHANGED <<boxVars, placeVars, walks, idling, talkVars>>

\* APPEND to the mailbox and DELETE of it, from any session.
DoByName(c) ==
  \E op \in {"APPEND", "DELETE"} :
    /\ Reads(c, op) /\ exists
    /\ SendPending(c, Plain(op))
    /\ UNCHANGED <<boxVars, placeVars, walks>>

DoLogout(c) ==
  /\ Reads(c, "LOGOUT")
  /\ pending' = [pending EXCEPT ![c] = << >>]
  /\ state' = [state EXCEPT ![c] = "logged_out"]
  /\ stage' = [stage EXCEPT ![c] = "closing"]
  /\ UNCHANGED <<boxVars, selected, examine, refusals, reselects, clients, walks, idling, req, sent, view, adrift>>

\* A selected mailbox that has been deleted under the session.
DoOnDeleted(c) ==
  \E op \in ByNumber \cup {"CHECK", "EXPUNGE"} :
    /\ Reads(c, op) /\ state[c] = "selected" /\ ~ selected[c]
    /\ Bye(c)
    /\ UNCHANGED <<refusals, reselects>>

\* The session no longer looks at the mailbox, and what is pending is dropped.
Deselect(c) ==
  /\ clients' = Without(c)
  /\ selected' = [selected EXCEPT ![c] = FALSE]
  /\ state' = [state EXCEPT ![c] = "authenticated"]
  /\ pending' = [pending EXCEPT ![c] = << >>]
  /\ view' = [view EXCEPT ![c] = << >>]
  /\ adrift' = adrift \ {c}

DoUnselect(c) ==
  /\ Reads(c, "UNSELECT") /\ state[c] = "selected"
  /\ Deselect(c)
  /\ reselects' = [reselects EXCEPT ![c] = 0]
  /\ UNCHANGED <<boxVars, examine, refusals, walks, idling, req, stage, sent>>

\* SELECT and EXAMINE leave the mailbox that was selected, even if the new
\* one does not exist; SELECT of the same one over and over ends in a BYE.
DoSelect(c) ==
  \E op \in {"SELECT", "EXAMINE"} :
    /\ Reads(c, op)
    /\ IF selected[c] /\ reselects[c] = SelectLimit
         THEN /\ Bye(c)
              /\ reselects' = [reselects EXCEPT ![c] = 0]
              /\ UNCHANGED refusals
         ELSE /\ reselects' = [reselects EXCEPT ![c] = IF selected[c] THEN @ + 1 ELSE @]
              /\ Deselect(c)
              /\ req' = [req EXCEPT ![c] = IF exists THEN Plain(op) ELSE NoRequest]
              /\ stage' = [stage EXCEPT ![c] = IF exists THEN "waiting" ELSE "none"]
              /\ UNCHANGED <<boxVars, examine, refusals, walks, idling, sent>>

\* CLOSE leaves at once, and expunges for nobody's eyes if it may.
DoClose(c) ==
  /\ Reads(c, "CLOSE") /\ state[c] = "selected"
  /\ Deselect(c)
  /\ LET purges == selected[c] /\ ~ examine[c] /\ flagged # {} IN
       /\ req' = [req EXCEPT ![c] = IF purges THEN Plain("CLOSE") ELSE NoRequest]
       /\ stage' = [stage EXCEPT ![c] = IF purges THEN "waiting" ELSE "none"]
  /\ UNCHANGED <<boxVars, examine, refusals, reselects, walks, idling, sent>>

DoCheckOrExpunge(c) ==
  \E op \in {"CHECK", "EXPUNGE"} :
    /\ Reads(c, op) /\ selected[c]
    /\ SendPending(c, Plain(op))
    /\ UNCHANGED <<boxVars, placeVars, walks>>

\* What a client can ask for: a number, meaning the message it has under it,
\* or a UID.
Requested(c, op) ==
  {[op |-> op, uid |-> FALSE, n |-> n, meant |-> view[c][n]] : n \in DOMAIN view[c]}
    \cup [op : {op}, uid : {TRUE}, n : {0}, meant : ToSet(view[c]) \ {Unknown}]

\* Mutant: STORE does not look.
RefusedButStore(c, r) == r.op \in {"FETCH", "SEARCH"} /\ ~ r.uid /\ PendingExpunges(c)

\* With EXPUNGEs pending a FETCH, STORE or SEARCH by number gets a NO.
Refused(c, r) == r.op \in {"FETCH", "STORE", "SEARCH"} /\ ~ r.uid /\ PendingExpunges(c)

DoByNumber(c) ==
  \E op \in ByNumber : Reads(c, op) /\ selected[c] /\ \E r \in Requested(c, op) :
    /\ ~ Refused(c, r)
    /\ op = "MOVE" => ~ examine[c]
    /\ refusals' = [refusals EXCEPT ![c] = IF op = "FETCH" THEN 0 ELSE @]
    /\ IF op = "SEARCH" /\ ~ PendingExpunges(c)
         THEN /\ req' = [req EXCEPT ![c] = r]
              /\ stage' = [stage EXCEPT ![c] = "waiting"]
              /\ UNCHANGED <<idling, talkVars>>
         ELSE SendPending(c, r)
    /\ UNCHANGED <<boxVars, state, selected, examine, reselects, clients, walks>>

\* Mutant: one refusal too many.
DoFetchRefusedAgain(c) ==
  /\ Reads(c, "FETCH") /\ selected[c] /\ PendingExpunges(c)
  /\ IF refusals[c] > FetchLimit
       THEN Bye(c) /\ UNCHANGED <<refusals, reselects>>
       ELSE /\ refusals' = [refusals EXCEPT ![c] = @ + 1]
            /\ UNCHANGED <<boxVars, state, selected, examine, reselects, clients,
                           walks, idling, req, stage, talkVars>>

\* A client that keeps asking is sent away.
DoFetchRefused(c) ==
  /\ Reads(c, "FETCH") /\ selected[c] /\ PendingExpunges(c)
  /\ IF refusals[c] = FetchLimit
       THEN Bye(c) /\ UNCHANGED <<refusals, reselects>>
       ELSE /\ refusals' = [refusals EXCEPT ![c] = @ + 1]
            /\ UNCHANGED <<boxVars, state, selected, examine, reselects, clients,
                           walks, idling, req, stage, talkVars>>

-----------------------------------------------------------------------------
(* Commands: once the mailbox has let them in *)

\* The mailbox was deleted, or COMMAND_TIMEOUT is up, while the command waited.
GivesUp(c) ==
  /\ stage[c] = "waiting"
  /\ ~ exists \/ "timeout" \in Faults
  /\ Ends(c)
  /\ UNCHANGED <<boxVars, placeVars, walks, talkVars>>

RunNoop(c) ==
  /\ LetIn(c) /\ req[c].op = "NOOP"
  /\ SendPending(c, req[c])
  /\ UNCHANGED <<boxVars, placeVars, walks>>

\* CHECK has waited only for the resync before it.
RunCheck(c) ==
  /\ LetIn(c) /\ req[c].op = "CHECK"
  /\ SendPending(c, Plain("none"))
  /\ UNCHANGED <<boxVars, placeVars, walks>>

BeginByNumber(c) ==
  /\ LetIn(c) /\ req[c].op \in ByNumber \ {"STORE"}
  /\ req[c].uid \/ Targets(req[c]) # {}
  /\ stage' = [stage EXCEPT ![c] = "working"]
  /\ UNCHANGED <<boxVars, placeVars, walks, idling, req, talkVars>>

\* STORE sets or clears flags and tells everyone else.
BeginStore(c) ==
  /\ LetIn(c) /\ req[c].op = "STORE"
  /\ req[c].uid \/ Targets(req[c]) # {}
  /\ RoomPending
  /\ stage' = [stage EXCEPT ![c] = "working"]
  /\ LET stored == {msgs[i] : i \in Targets(req[c])}
     IN  flagged' \in {flagged, flagged \cup stored, flagged \ stored}
  /\ walks' = [walks EXCEPT ![c] =
       IF Targets(req[c]) = {} THEN NoWalk
       ELSE Dispatch(SetToSeq({Flags(i, msgs[i]) : i \in Targets(req[c])}), c)]
  /\ UNCHANGED <<msgs, lastUid, exists, served, torn, placeVars, idling, req, talkVars>>

Responses(r) == SetToSeq({Flags(i, msgs[i]) : i \in Targets(r)})

\* FETCH answers, and tells everyone, itself too, of flags that it changed.
RespondFetch(c) ==
  /\ stage[c] = "working" /\ req[c].op = "FETCH"
  /\ Tell({c}, Responses(req[c]))
  /\ req' = [req EXCEPT ![c].op = "FETCHED"]
  /\ walks' \in {walks} \cup (IF Targets(req[c]) # {} /\ RoomPending
       THEN {[walks EXCEPT ![c] = Dispatch(Responses(req[c]), Task)]} ELSE {})
  /\ UNCHANGED <<boxVars, placeVars, idling, stage, pending, sent>>

FinishFetch(c) ==
  /\ stage[c] = "working" /\ req[c].op = "FETCHED" /\ walks[c] = NoWalk
  /\ SendPending(c, req[c])
  /\ UNCHANGED <<boxVars, placeVars, walks>>

\* SEARCH by number answers with numbers, STORE unless it was silent.
MayAnswer(r)  == r.op = "STORE" \/ (r.op = "SEARCH" /\ ~ r.uid)
MustAnswer(r) == r.op = "SEARCH" /\ ~ r.uid

FinishOthers(c) ==
  /\ stage[c] = "working" /\ req[c].op \in {"STORE", "SEARCH", "COPY"} /\ walks[c] = NoWalk
  /\ \/ MayAnswer(req[c]) /\ Tell({c}, Responses(req[c]))
     \/ ~ MustAnswer(req[c]) /\ UNCHANGED <<view, adrift>>
  /\ Ends(c)
  /\ UNCHANGED <<boxVars, placeVars, walks, pending, sent>>

\* MOVE has copied; it queues once more to expunge, to be told at once.
FinishMove(c) ==
  /\ stage[c] = "working" /\ req[c].op = "MOVE"
  /\ stage' = [stage EXCEPT ![c] = "waiting"]
  /\ idling' = [idling EXCEPT ![c] = TRUE]
  /\ req' = [req EXCEPT ![c] = [Plain("MOVED") EXCEPT !.meant =
       IF Targets(req[c]) = {} THEN Unknown ELSE msgs[CHOOSE i \in Targets(req[c]) : TRUE]]]
  /\ UNCHANGED <<boxVars, placeVars, walks, talkVars>>

BeginExpunge(c) ==
  /\ LetIn(c) /\ req[c].op \in {"EXPUNGE", "CLOSE", "MOVED"} /\ ~ torn
  /\ stage' = [stage EXCEPT ![c] = "working"]
  /\ UNCHANGED <<boxVars, placeVars, walks, idling, req, talkVars>>

\* Mutant: the number is that of before the list was shortened, from zero.
ExpungeOneFromZero(c) ==
  /\ stage[c] = "working" /\ req[c].op \in {"EXPUNGE", "CLOSE", "MOVED"}
  /\ walks[c] = NoWalk /\ Victims(c) # {}
  /\ LET u == Max(Victims(c)) IN
       /\ msgs' = RemoveAt(msgs, Position(u))
       /\ flagged' = flagged \ {u}
       /\ walks' = [walks EXCEPT ![c] = Dispatch(<< Expunged(Position(u) - 1, u) >>, Task)]
  /\ UNCHANGED <<lastUid, exists, served, torn, placeVars, idling, req, stage, talkVars>>

\* From the last message to the first: it goes, then everyone hears.
ExpungeOne(c) ==
  /\ stage[c] = "working" /\ req[c].op \in {"EXPUNGE", "CLOSE", "MOVED"}
  /\ walks[c] = NoWalk /\ Victims(c) # {}
  /\ LET u == Max(Victims(c)) IN
       /\ msgs' = RemoveAt(msgs, Position(u))
       /\ flagged' = flagged \ {u}
       /\ walks' = [walks EXCEPT ![c] = Dispatch(<< Expunged(Position(u), u) >>, Task)]
  /\ UNCHANGED <<lastUid, exists, served, torn, placeVars, idling, req, stage, talkVars>>

FinishExpunge(c) ==
  /\ stage[c] = "working" /\ req[c].op \in {"EXPUNGE", "CLOSE", "MOVED"}
  /\ walks[c] = NoWalk /\ Victims(c) = {}
  /\ Ends(c)
  /\ UNCHANGED <<boxVars, placeVars, walks, talkVars>>

\* APPEND resyncs as part of its work.
BeginAppend(c) ==
  /\ LetIn(c) /\ req[c].op = "APPEND"
  /\  \E n \in 1..2 : FindMail(c, n)
  /\ stage' = [stage EXCEPT ![c] = "working"]
  /\ UNCHANGED <<placeVars, idling, req, talkVars>>

FinishAppend(c) ==
  /\ stage[c] = "working" /\ req[c].op = "APPEND" /\ walks[c] = NoWalk
  /\ SendPending(c, Plain("none"))
  /\ UNCHANGED <<boxVars, placeVars, walks>>

\* DELETE leaves every client without a selected mailbox.
RunDelete(c) ==
  /\ LetIn(c) /\ req[c].op = "DELETE"
  /\ exists' = FALSE /\ msgs' = << >> /\ flagged' = {}
  /\ clients' = << >>
  /\ selected' = [d \in Clients |-> selected[d] /\ ~ Registered(d)]
  /\ Ends(c)
  /\ UNCHANGED <<lastUid, served, torn, state, examine, refusals, reselects,
                 walks, talkVars>>

\* Mailbox.selected: from here on the session is told of changes.
Select(c) ==
  /\ LetIn(c) /\ req[c].op \in {"SELECT", "EXAMINE"}
  /\ clients' = Append(Without(c), c)
  /\ walks' = [w \in Walkers |-> [walks[w] EXCEPT !.done = @ \ {c}]]
  /\ view' = [view EXCEPT ![c] = msgs]
  /\ adrift' = adrift \ {c}
  /\ stage' = [stage EXCEPT ![c] = "announcing"]
  /\ UNCHANGED <<boxVars, state, selected, examine, refusals, reselects,
                 idling, req, pending, sent>>

\* Its first responses are through (at once, or after drain() has blocked).
Announced(c) ==
  /\ stage[c] = "announcing"
  /\ selected' = [selected EXCEPT ![c] = TRUE]
  /\ state' = [state EXCEPT ![c] = "selected"]
  /\ examine' = [examine EXCEPT ![c] = req[c].op = "EXAMINE"]
  /\ Ends(c)
  /\ UNCHANGED <<boxVars, refusals, reselects, clients, walks, talkVars>>

-----------------------------------------------------------------------------
Command(c) ==
  \/ DoPlain(c) \/ DoDone(c) \/ DoNoop(c) \/ DoByName(c) \/ DoLogout(c)
  \/ DoOnDeleted(c) \/ DoUnselect(c) \/ DoSelect(c) \/ DoClose(c)
  \/ DoCheckOrExpunge(c) \/ DoByNumber(c) \/ DoFetchRefused(c)
  \/ Leave(c)

SessionStep(c) ==
  \/ Drained(c) \/ GivesUp(c) \/ RunNoop(c) \/ RunCheck(c)
  \/ BeginByNumber(c) \/ BeginStore(c) \/ RespondFetch(c) \/ FinishFetch(c)
  \/ FinishOthers(c) \/ FinishMove(c)
  \/ BeginExpunge(c) \/ ExpungeOne(c) \/ FinishExpunge(c)
  \/ BeginAppend(c) \/ FinishAppend(c) \/ RunDelete(c)
  \/ Select(c) \/ Announced(c) \/ Gone(c)

SessionNext ==
  \/ \E c \in Clients : reads < MaxReads /\ reads' = reads + 1 /\ Command(c)
  \/ /\ UNCHANGED reads
     /\ \/ Resync
        \/ \E w \in Walkers : Visit(w) \/ VisitLast(w) \/ WalkFails(w)
        \/ \E c \in Clients : SessionStep(c)

SessionSpec == SessionInit /\ [][SessionNext]_sessionVars

-----------------------------------------------------------------------------
(* Properties *)

\* What is owed to a client, in the order it will hear it.
Owed(c) == Unsent(c) \o Coming(c)

Agrees(v) == Len(v) = Len(msgs) /\ \A i \in DOMAIN v : v[i] \in {Unknown, msgs[i]}

\* With what it is owed, a client's list of messages is the mailbox's, and no
\* response it gets contradicts what it was told before, unless something
\* was pushed past its pending EXPUNGEs or was lost (`adrift').
InStep ==
  \A c \in Clients : Registered(c) /\ Connected(c) /\ c \notin adrift =>
    AllCredible(view[c], Owed(c)) /\ Agrees(HearAll(view[c], Owed(c)))

\* FETCH, STORE and SEARCH by number work on the message that the client has
\* under that number, whatever came or went elsewhere in the mailbox while they
\* waited: unless an EXPUNGE of that number or of a lower one is pending for
\* the client.  They look for pending EXPUNGEs before they wait and not after,
\* so that with such a one they do work on another message.  COPY and MOVE are
\* not held to it at all: they send what is pending first, and go on.
LeavesAlone(notes, n) == \A i \in DOMAIN notes : notes[i].type = "EXPUNGE" => notes[i].n > n

RightMessage ==
  \A c \in Clients :
    stage[c] = "working" /\ req[c].op \in {"FETCH", "STORE", "SEARCH"} /\ ~ req[c].uid
      /\ c \notin adrift /\ LeavesAlone(pending[c], req[c].n) /\ req[c].meant # Unknown
    => req[c].n \in DOMAIN msgs /\ msgs[req[c].n] = req[c].meant

\* No client hears EXPUNGE while no command is in progress and it does not
\* idle, nor during STORE or SEARCH by number, nor in a FETCH by number before
\* its responses are out.
ExpungeHeard(c) == Registered(c) /\ Registered(c)' /\ Len(view'[c]) < Len(view[c])

ExpungesInPlace ==
  [][\A c \in Clients : ExpungeHeard(c) /\ ~ idling[c] =>
       IF stage[c] = "none"
         THEN req'[c].uid \/ req'[c].op \notin {"FETCH", "STORE", "SEARCH"}
         ELSE req[c].op \in {"NOOP", "CHECK", "APPEND", "FETCHED"}]_sessionVars

=============================================================================
