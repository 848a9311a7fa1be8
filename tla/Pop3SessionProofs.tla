------------------------- MODULE Pop3SessionProofs -------------------------
(***************************************************************************)
(* Theorems about Pop3Session: its variables have their types; and as long *)
(* as no QUIT has had anything beside it that moves the messages of the    *)
(* mailbox, only marked messages leave the folder, the mailbox lists none  *)
(* that is not there, and after an answer of +OK the marked ones are gone. *)
(*                                                                         *)
(* The inductive invariant has three layers.  TypeInv holds always.        *)
(* AloneInv holds until a QUIT meets something: one expunge() runs at a    *)
(* time, while nothing resyncs; the lists are sound with respect to the    *)
(* files it will leave behind, and lead from every UID of a session to the *)
(* message the session has listed under it; so what it removes is what was *)
(* marked.  It goes from the highest key down, which leaves the positions  *)
(* of the others in the tables right.                                      *)
(*                                                                         *)
(* PromiseInv holds until UIDs are given anew besides: a message that a    *)
(* session has listed is gone, or leaving, or still listed under its UID.  *)
(***************************************************************************)
EXTENDS Pop3Session, MHFolderProofs

-----------------------------------------------------------------------------
(* The inductive invariant *)

Tables == UNION {[K -> Nat \ {0}] : K \in SUBSET Nat}

Mailboxes ==
  [keys : Seq(Nat), uids : Seq(Nat), keyIdx : Tables, uidIdx : Tables, num : Int,
   nextUid : Nat \ {0}]

Resyncs == [op : {"none", "scanned", "noticed", "packing"}, scan : Seq(Nat)]

Jobs == [on : BOOLEAN, todo : {K \in SUBSET Nat : IsFiniteSet(K)}, key : Nat]

Snapshots ==
  [pc : {"new", "transaction", "quitting", "ok", "failed", "cut"},
   keys : Seq(Nat), uids : Seq(Nat), deleted : SUBSET Nat,
   sizes : UNION {[K -> 0..MaxMail] : K \in SUBSET Nat}, listed : Seq(Nat)]

\* The UIDs of a mailbox are in order and below next_uid.
UidsOK(m) == Rising(m.uids) /\ Range(m.uids) \subseteq 1..m.nextUid - 1

\* What a session has listed had been born by then.
SnapshotOK(p, b) ==
  /\ SessionOK(p) /\ Range(p.listed) \subseteq 0..b /\ Rising(p.uids)
  /\ p.pc = "new" => p.deleted = {} /\ DOMAIN p.sizes = {}

FolderInv == Files(file, born) /\ born \in 0..MaxMail
MboxInv   == mbox \in Mailboxes /\ UidsOK(mbox)
JobInv    == job \in [Workers -> Jobs] /\ \A w \in Workers : job[w].on \/ job[w] = NoJob
PopInv    == pop \in [Sessions -> Snapshots] /\ \A s \in Sessions : SnapshotOK(pop[s], born)
QuitInv   == \A s \in Sessions : pop[s].pc = "quitting" <=> job[s].on
PastInv   == condemned \subseteq Mails /\ met \in BOOLEAN /\ anew \in BOOLEAN

\* Pop3TypeOK, and what it takes to keep it.
TypeInv ==
  /\ FolderInv /\ MboxInv /\ resync \in Resyncs /\ JobInv /\ PopInv /\ QuitInv /\ PastInv
  /\ running \subseteq Workers

Tabled(m) == m.keyIdx = Index(m.keys) /\ m.uidIdx = Index(m.uids)

\* The messages that a session has listed, by their UIDs.
ByUid(uids, listed) ==
  [u \in {uids[i] : i \in DOMAIN uids \cap DOMAIN listed} |->
     listed[CHOOSE i \in DOMAIN uids : uids[i] = u]]

Listed(p) == ByUid(p.uids, p.listed)

Listings(q) == {<<>>} \cup {Listed(q[s]) : s \in Sessions}

\* The folder f without the files that expunges j have taken out of the lists.
Staying(f, j) == [k \in DOMAIN f \ {j[w].key : w \in Workers} |-> f[k]]

ListsInv ==
  /\ \A o \in Listings(pop) : Sound(mbox, Staying(file, job), o)
  /\ resync.op # "noticed" => Counted(mbox)
  /\ Expunging = {} => Tabled(mbox)

ResyncInv ==
  /\ resync # NoResync => Expunging = {}
  /\ resync.op = "scanned" =>
       Lowest(resync.scan, Keys) /\ Range(mbox.keys) \subseteq Range(resync.scan)
  /\ resync.op = "noticed" => mbox.keys = resync.scan /\ Len(mbox.uids) = Len(mbox.keys)

\* The key k is at its place in the tables of m, and stays in the folder f until
\* it is taken out.
Placed(m, f, k) ==
  /\ k \in DOMAIN f
  /\ k \in DOMAIN m.keyIdx /\ m.keyIdx[k] \in DOMAIN m.keys /\ m.keys[m.keyIdx[k]] = k

\* An expunge() has what it removes from a QUIT or an EXPUNGE, in its place; and
\* it fails over a message without a UID before it has changed anything.
Orderly(i, m, f, c) ==
  /\ i.key # 0 => i.key \in DOMAIN f /\ f[i.key] \in c
  /\ \A k \in i.todo : k # i.key /\ Placed(m, f, k) /\ f[k] \in c
  /\ (i.key = 0 /\ Tabled(m)) \/ \A k \in i.todo : m.keyIdx[k] <= Len(m.uids)

JobsInv ==
  /\ \A v, w \in Expunging : v = w
  /\ \A w \in Expunging : Orderly(job[w], mbox, file, condemned)

Alone    == UnmarkedStays /\ ListsInv /\ ResyncInv /\ JobsInv
AloneInv == ~ met => Alone

\* The message x is not in the folder f; it is in a file with a key of S.
Lost(x, f)       == x \notin Range(f)
Leaving(x, f, S) == \E k \in S \cap DOMAIN f : f[k] = x

Removing(j) == {j[w].key : w \in Workers}

\* What a session p can count on, with the expunge() i of its QUIT, while files with
\* keys of S are being removed.
Kept(p, i, S, m, f) ==
  /\ \A n \in DOMAIN p.uids \cap DOMAIN p.listed :
       Lost(p.listed[n], f) \/ p.uids[n] \in Range(m.uids) \/ Leaving(p.listed[n], f, S)
  /\ p.pc = "quitting" => \A n \in p.deleted :
       Lost(p.listed[n], f) \/ Leaving(p.listed[n], f, i.todo \cup {i.key})
  /\ p.pc = "ok" => \A n \in p.deleted : Lost(p.listed[n], f)

Promised == \A s \in Sessions : Kept(pop[s], job[s], Removing(job), mbox, file)

PromiseInv == ~ met /\ ~ anew => Promised

Pop3Inv == TypeInv /\ AloneInv /\ PromiseInv
-----------------------------------------------------------------------------
(* The tables and the types *)

LEMMA NoList == <<>> \in Seq(Nat) /\ DOMAIN <<>> = {} /\ Range(<<>>) = {} /\ Len(<<>>) = 0
BY EmptyList

LEMMA NoTable == \A S : <<>> \in UNION {[K -> S] : K \in SUBSET Nat}
<1> SUFFICES ASSUME NEW S PROVE <<>> \in UNION {[K -> S] : K \in SUBSET Nat}
  OBVIOUS
<1>1. <<>> \in [{} -> S]
  OBVIOUS
<1> QED
  BY <1>1

LEMMA TableOf ==
  ASSUME NEW t \in Tables, NEW k \in DOMAIN t
  PROVE  t[k] \in Nat \ {0}
BY DEF Tables

\* A table of a list leads back to its elements.
LEMMA TablesLead ==
  ASSUME NEW m \in Mailboxes
  PROVE  /\ Rebuilt(m) \in Mailboxes /\ Tabled(Rebuilt(m))
         /\ SameLists(m, Rebuilt(m)) /\ Rebuilt(m).num = m.num
<1>1. m.keys \in Seq(Nat) /\ m.uids \in Seq(Nat)
  BY DEF Mailboxes
<1>2. Index(m.keys) \in Tables /\ Index(m.uids) \in Tables
  BY <1>1, IndexLeads DEF Tables
<1>3. PICK ks, us : ks = Index(m.keys) /\ us = Index(m.uids)
  OBVIOUS
<1>4. Rebuilt(m) = [m EXCEPT !.keyIdx = ks, !.uidIdx = us]
  BY <1>3 DEF Rebuilt
<1>5. PICK n : n = Rebuilt(m)
  OBVIOUS
<1>6. /\ n \in Mailboxes /\ n.keyIdx = ks /\ n.uidIdx = us
      /\ n.keys = m.keys /\ n.uids = m.uids /\ n.nextUid = m.nextUid /\ n.num = m.num
  BY <1>2, <1>3, <1>4, <1>5 DEF Mailboxes
<1>7. Tabled(n)
  BY <1>3, <1>6 DEF Tabled
<1> QED
  BY <1>5, <1>6, <1>7 DEF SameLists

LEMMA ListsOf ==
  ASSUME NEW m \in Mailboxes
  PROVE  /\ Lists3(m) /\ m.keys \in Seq(Nat) /\ m.uids \in Seq(Nat)
         /\ m.nextUid \in Nat /\ m.nextUid # 0 /\ m.num \in Int
         /\ Len(m.keys) \in Nat /\ DOMAIN m.keys = 1..Len(m.keys)
         /\ Len(m.uids) \in Nat /\ DOMAIN m.uids = 1..Len(m.uids)
BY ListOf DEF Mailboxes, Lists3

LEMMA FolderFacts ==
  ASSUME FolderInv
  PROVE  /\ Keys \subseteq Nat /\ Keys \subseteq Nat \ {0} /\ IsFiniteSet(Keys) /\ 0 \notin Keys
         /\ born \in Nat /\ MaxMail \in Nat /\ born <= MaxMail
         /\ 1..born \subseteq Mails /\ 0..born \subseteq 0..MaxMail
         /\ \A k \in Keys : file[k] \in 1..born
         /\ \A k, l \in Keys : file[k] = file[l] => k = l
         /\ Ascending(Keys) \in Seq(Nat)
<1>1. born \in Nat /\ Files(file, born) /\ MaxMail \in Nat /\ born <= MaxMail
  BY Pop3Assumption DEF FolderInv
<1>2. /\ Keys \subseteq Nat /\ Keys \subseteq Nat \ {0} /\ IsFiniteSet(Keys) /\ 0 \notin Keys
      /\ \A k \in Keys : file[k] \in 1..born
      /\ \A k, l \in Keys : file[k] = file[l] => k = l
  BY <1>1, FilesOf DEF Keys
<1>3. 1..born \subseteq Mails /\ 0..born \subseteq 0..MaxMail
  BY <1>1 DEF Mails
<1> QED
  BY <1>1, <1>2, <1>3, AscendingLists

\* The folder, whatever happens to it.
LEMMA FolderStep == FolderInv /\ [Next]_vars => FolderInv' /\ born <= born'
<1> SUFFICES ASSUME FolderInv, [Next]_vars PROVE FolderInv' /\ born <= born'
  OBVIOUS
<1>1. born \in Nat /\ MaxMail \in Nat /\ Files(file, born) /\ born \in 0..MaxMail
  BY Pop3Assumption DEF FolderInv
<1>2. PICK g, b : g = file' /\ b = born'
  OBVIOUS
<1>3. CASE UNCHANGED <<file, born>>
  BY <1>1, <1>3 DEF FolderInv, Files
<1>4. CASE Deliver
  <2>1. b \in Nat /\ born < b /\ b \in 0..MaxMail /\ g = Added(file, b)
    BY <1>1, <1>2, <1>4 DEF Deliver
  <2>2. Files(g, b)
    BY <1>1, <2>1, FilesGrow
  <2> QED
    BY <1>1, <1>2, <2>1, <2>2 DEF FolderInv, Files
<1>5. CASE Pack
  <2>1. g = Packed(file) /\ b = born
    BY <1>2, <1>5 DEF Pack
  <2>2. Files(g, b)
    BY <1>1, <2>1, FilesPacked
  <2> QED
    BY <1>1, <1>2, <2>1, <2>2 DEF FolderInv, Files
<1>6. ASSUME NEW w \in Workers, RemoveFile(w) PROVE FolderInv' /\ born <= born'
  <2>1. PICK K : K = {job[w].key}
    OBVIOUS
  <2>2. g = [k \in DOMAIN file \ K |-> file[k]] /\ b = born
    BY <1>2, <1>6, <2>1 DEF RemoveFile, Keys
  <2>3. Files(g, b)
    BY <1>1, <2>2, FilesShrink
  <2> QED
    BY <1>1, <1>2, <2>2, <2>3 DEF FolderInv, Files
<1>7. \/ UNCHANGED <<file, born>> \/ Deliver \/ Pack
      \/ \E w \in Workers : RemoveFile(w)
  BY DEF Next, Scan, FindNothing, FindMail, CountMail, FindFails, NoPack, ImapExpunge,
         Expunge, PassOver, TakeOut, Finish, ExpungeFails,
         Session, init_session, do_rset, do_quit, Leave, do_list, do_dele, vars
<1> QED
  BY <1>3, <1>4, <1>5, <1>6, <1>7

\* The end of a list of UIDs.
LEMMA RestRising ==
  ASSUME NEW s, s \in Seq(Nat), Rising(s), NEW a, a \in 1..Len(s) + 1
  PROVE  LET r == SubSeq(s, a, Len(s))
         IN r \in Seq(Nat) /\ Rising(r) /\ Range(r) \subseteq Range(s)
<1> DEFINE r == SubSeq(s, a, Len(s))
<1>1. Len(s) \in Nat /\ DOMAIN s = 1..Len(s) /\ a \in Int /\ 1 <= a
  BY ListOf
<1>2. \A i \in a..Len(s) : s[i] \in Nat
  BY <1>1, ListOf
<1>3. /\ r \in Seq(Nat)
      /\ Len(r) = IF a <= Len(s) THEN Len(s) - a + 1 ELSE 0
      /\ \A i \in 1..Len(s) - a + 1 : r[i] = s[a + i - 1]
  BY <1>1, <1>2, SubSeqProperties
<1> HIDE DEF r
<1>4. DOMAIN r = 1..Len(r)
  BY <1>3, ListOf
<1>5. \A i \in DOMAIN r : i \in 1..Len(s) - a + 1 /\ a + i - 1 \in DOMAIN s /\ r[i] = s[a + i - 1]
  <2>1. ASSUME NEW l \in Nat, NEW b \in 1..l + 1, NEW i \in 1..(IF b <= l THEN l - b + 1 ELSE 0)
        PROVE  i \in 1..l - b + 1 /\ b + i - 1 \in 1..l
    OBVIOUS
  <2>2. \A i \in DOMAIN r : i \in 1..Len(s) - a + 1 /\ a + i - 1 \in DOMAIN s
    BY <1>1, <1>3, <1>4, <2>1
  <2> QED
    BY <1>3, <2>2
<1>6. Rising(r)
  <2> SUFFICES ASSUME NEW i \in DOMAIN r, NEW j \in DOMAIN r, i < j PROVE r[i] < r[j]
    BY DEF Rising
  <2>1. a + i - 1 \in DOMAIN s /\ a + j - 1 \in DOMAIN s /\ a + i - 1 < a + j - 1
    BY <1>1, <1>5
  <2> QED
    BY <1>5, <2>1 DEF Rising
<1>7. Range(r) \subseteq Range(s)
  BY <1>5 DEF Range
<1> QED
  BY <1>3, <1>6, <1>7 DEF r

LEMMA TrustedTyped ==
  ASSUME MboxInv, resync \in Resyncs
  PROVE  Trusted \in Mailboxes /\ UidsOK(Trusted) /\ Trusted.nextUid = mbox.nextUid
<1>1. /\ mbox \in Mailboxes /\ mbox.uids \in Seq(Nat) /\ UidsOK(mbox)
      /\ Len(mbox.keys) \in Nat /\ Len(mbox.uids) \in Nat
  BY ListsOf DEF MboxInv
<1>2. CASE Len(resync.scan) < mbox.num \/ Len(mbox.uids) < Len(mbox.keys)
  <2>1. PICK none : none = <<>>
    OBVIOUS
  <2>2. none \in Seq(Nat) /\ Rising(none) /\ Range(none) = {}
    BY <2>1, EmptyList
  <2>3. PICK t : t = Trusted
    OBVIOUS
  <2>4. t = [mbox EXCEPT !.keys = none, !.uids = none, !.num = 0]
    BY <1>2, <2>1, <2>3 DEF Trusted
  <2>5. t \in Mailboxes /\ t.uids = none /\ t.nextUid = mbox.nextUid
    <3>1. t = [keys |-> none, uids |-> none, keyIdx |-> mbox.keyIdx, uidIdx |-> mbox.uidIdx,
               num |-> 0, nextUid |-> mbox.nextUid]
      BY <1>1, <2>4 DEF Mailboxes
    <3>2. mbox.keyIdx \in Tables /\ mbox.uidIdx \in Tables /\ mbox.nextUid \in Nat \ {0}
      BY <1>1 DEF Mailboxes
    <3> QED
      BY <2>2, <3>1, <3>2 DEF Mailboxes
  <2> QED
    BY <2>2, <2>3, <2>5 DEF UidsOK
<1>3. CASE ~ (Len(resync.scan) < mbox.num \/ Len(mbox.uids) < Len(mbox.keys))
  <2> DEFINE a    == Len(mbox.uids) - Len(mbox.keys) + 1
             rest == SubSeq(mbox.uids, a, Len(mbox.uids))
  <2>1. a \in 1..Len(mbox.uids) + 1
    <3>1. ~ (Len(mbox.uids) < Len(mbox.keys))
      BY <1>3
    <3>2. ASSUME NEW l \in Nat, NEW k \in Nat, ~ (l < k) PROVE l - k + 1 \in 1..l + 1
      BY <3>2
    <3> QED
      BY <1>1, <3>1, <3>2
  <2>2. rest \in Seq(Nat) /\ Rising(rest) /\ Range(rest) \subseteq Range(mbox.uids)
    <3> HIDE DEF a
    <3> QED
      BY <1>1, <2>1, RestRising DEF UidsOK
  <2>3. PICK us : us = IF mbox.keys = <<>> THEN mbox.uids ELSE rest
    OBVIOUS
  <2>4. PICK t : t = Trusted
    OBVIOUS
  <2>5. t = [mbox EXCEPT !.uids = us]
    BY <1>3, <2>3, <2>4 DEF Trusted
  <2> HIDE DEF rest
  <2>6. us \in Seq(Nat) /\ Rising(us) /\ Range(us) \subseteq Range(mbox.uids)
    BY <1>1, <2>2, <2>3 DEF UidsOK
  <2>7. t \in Mailboxes /\ t.uids = us /\ t.nextUid = mbox.nextUid
    BY <1>1, <2>5, <2>6 DEF Mailboxes
  <2> QED
    BY <1>1, <2>4, <2>6, <2>7 DEF UidsOK
<1> QED
  BY <1>2, <1>3

\* The next UIDs, from a on.
LEMMA CountingUp ==
  ASSUME NEW a, a \in Nat, a # 0, NEW c, c \in Nat, NEW us, us = [i \in 1..c |-> a + i - 1]
  PROVE  /\ us \in Seq(Nat) /\ DOMAIN us = 1..c /\ \A i \in 1..c : us[i] = a + i - 1
         /\ Rising(us) /\ \A l \in Range(us) : a <= l
<1>1. DOMAIN us = 1..c /\ \A i \in 1..c : us[i] = a + i - 1
  OBVIOUS
<1>2. \A i \in 1..c : i \in Nat /\ a + i - 1 \in Nat /\ a <= a + i - 1
  OBVIOUS
<1>3. us \in Seq(Nat)
  <2>1. us \in [1..c -> Nat]
    BY <1>2
  <2> QED
    BY <2>1, SeqDef
<1>4. Rising(us)
  BY <1>1, <1>2 DEF Rising
<1>5. \A l \in Range(us) : a <= l
  BY <1>1, <1>2 DEF Range
<1> QED
  BY <1>1, <1>3, <1>4, <1>5

\* The lists with what is new.
LEMMA ExtendsTyped ==
  ASSUME NEW m, m \in Mailboxes, UidsOK(m), NEW scan, scan \in Seq(Nat), NEW n, Extends(m, n, scan)
  PROVE  /\ n.keys \in Seq(Nat) /\ n.uids \in Seq(Nat) /\ n.nextUid \in Nat \ {0}
         /\ UidsOK(n) /\ Range(m.uids) \subseteq Range(n.uids)
<1>1. /\ m.keys \in Seq(Nat) /\ m.uids \in Seq(Nat) /\ m.nextUid \in Nat /\ m.nextUid # 0
      /\ Rising(m.uids) /\ Range(m.uids) \subseteq 1..m.nextUid - 1
  BY ListsOf DEF UidsOK
<1>2. PICK new, us : new = NewKeys(m, scan) /\ us = NewUids(m, scan)
  OBVIOUS
<1>3. /\ n.keys = m.keys \o new /\ n.uids = m.uids \o us
      /\ us = [i \in DOMAIN new |-> m.nextUid + i - 1]
      /\ n.nextUid = IF n.uids = <<>> THEN m.nextUid ELSE Last(n.uids) + 1
  BY <1>2 DEF Extends, NewUids
<1>4. new \in Seq(Nat) /\ DOMAIN new = 1..Len(new) /\ Len(new) \in Nat
  <2>1. PICK K : K = Range(scan) \ Range(m.keys)
    OBVIOUS
  <2>2. K \subseteq Nat /\ IsFiniteSet(K)
    BY <2>1, ListOf, RangeFinite, FS_Subset
  <2>3. new = Ascending(K)
    BY <1>2, <2>1 DEF NewKeys
  <2>4. new \in Seq(Nat)
    BY <2>2, <2>3, AscendingLists
  <2> QED
    BY <2>4, ListOf
<1>5. us \in Seq(Nat) /\ DOMAIN us = 1..Len(new) /\ \A i \in DOMAIN us : us[i] = m.nextUid + i - 1
  <2>1. PICK a, c : a = m.nextUid /\ c = Len(new)
    OBVIOUS
  <2>2. a \in Nat /\ c \in Nat /\ a # 0 /\ DOMAIN new = 1..c
    BY <1>1, <1>4, <2>1
  <2>3. us = [i \in 1..c |-> a + i - 1]
    BY <1>3, <2>1, <2>2
  <2>4. us \in Seq(Nat) /\ DOMAIN us = 1..c /\ \A i \in 1..c : us[i] = a + i - 1
    BY <2>2, <2>3, CountingUp
  <2> QED
    BY <2>1, <2>4
<1>6. Rising(us) /\ \A l \in Range(us) : m.nextUid <= l
  <2>1. PICK a, c : a = m.nextUid /\ c = Len(new)
    OBVIOUS
  <2>2. a \in Nat /\ c \in Nat /\ a # 0 /\ us = [i \in 1..c |-> a + i - 1]
    BY <1>1, <1>3, <1>4, <2>1
  <2>3. Rising(us) /\ \A l \in Range(us) : a <= l
    BY <2>2, CountingUp
  <2> QED
    BY <2>1, <2>3
<1>7. \A k \in Range(m.uids), l \in Range(us) : k < l
  <2>1. \A l \in Range(us) : l \in Nat
    BY <1>5, ListOf
  <2> QED
    BY <1>1, <1>6, <2>1
<1>8. PICK all : all = m.uids \o us
  OBVIOUS
<1>9. all \in Seq(Nat) /\ Rising(all) /\ Range(all) = Range(m.uids) \cup Range(us)
  BY <1>1, <1>5, <1>6, <1>7, <1>8, JoinedRising
<1>10. n.uids = all /\ n.keys \in Seq(Nat)
  BY <1>1, <1>3, <1>4, <1>8, ConcatProperties
<1>11. DOMAIN all = 1..Len(all) /\ Len(all) \in Nat /\ \A i \in DOMAIN all : all[i] \in Nat
  BY <1>9, ListOf
<1>12. \A x \in Range(all) : 1 <= x
  <2>1. \A l \in Range(us) : 1 <= l
    <3>1. \A l \in Range(us) : l \in Nat
      BY <1>5, ListOf
    <3> QED
      BY <1>1, <1>6, <3>1
  <2> QED
    BY <1>1, <1>9, <2>1
<1>13. CASE all = <<>>
  <2>1. n.nextUid = m.nextUid /\ Range(all) = {}
    BY <1>3, <1>10, <1>13, EmptyList
  <2> QED
    BY <1>1, <1>9, <1>10, <2>1 DEF UidsOK
<1>14. CASE all # <<>>
  <2>1. n.nextUid = all[Len(all)] + 1
    BY <1>3, <1>10, <1>14 DEF Last
  <2>2. Len(all) # 0
    BY <1>9, <1>14, EmptyList
  <2>3. Len(all) \in DOMAIN all
    BY <1>11, <2>2
  <2>4. \A i \in DOMAIN all : all[i] <= all[Len(all)]
    <3> SUFFICES ASSUME NEW i \in DOMAIN all PROVE all[i] <= all[Len(all)]
      OBVIOUS
    <3>1. CASE i = Len(all)
      BY <1>11, <2>3, <3>1
    <3>2. CASE i # Len(all)
      <4>1. i < Len(all)
        BY <1>11, <3>2
      <4>2. all[i] < all[Len(all)]
        BY <1>9, <2>3, <4>1 DEF Rising
      <4> QED
        BY <1>11, <2>3, <4>2
    <3> QED
      BY <3>1, <3>2
  <2>5. Range(all) \subseteq 1..n.nextUid - 1
    <3> SUFFICES ASSUME NEW x \in Range(all) PROVE x \in 1..n.nextUid - 1
      OBVIOUS
    <3>1. PICK i \in DOMAIN all : x = all[i]
      BY Found
    <3>2. 1 <= x /\ x <= all[Len(all)] /\ x \in Nat /\ all[Len(all)] \in Nat
      BY <1>11, <1>12, <2>3, <2>4, <3>1
    <3> QED
      BY <2>1, <3>2
  <2>6. n.nextUid \in Nat \ {0}
    BY <1>11, <2>1, <2>3
  <2> QED
    BY <1>9, <1>10, <2>5, <2>6 DEF UidsOK
<1> QED
  BY <1>13, <1>14

\* A table leads to a position within a list.
LEMMA PlaceOf ==
  ASSUME NEW m, m \in Mailboxes, NEW k, k \in DOMAIN m.keyIdx,
         m.keyIdx[k] <= Len(m.keys), m.keyIdx[k] <= Len(m.uids)
  PROVE  m.keyIdx[k] \in 1..Len(m.keys) /\ m.keyIdx[k] \in 1..Len(m.uids)
<1>1. m.keyIdx \in Tables /\ Len(m.keys) \in Nat /\ Len(m.uids) \in Nat
  BY ListsOf DEF Mailboxes
<1>2. m.keyIdx[k] \in Nat \ {0}
  BY <1>1, TableOf
<1> QED
  BY <1>1, <1>2

\* What FindMail makes of the lists it trusts.
LEMMA FindDoes ==
  ASSUME MboxInv, resync \in Resyncs, FindMail
  PROVE  \E x \in Mailboxes :
           /\ UidsOK(x) /\ mbox' = Rebuilt(x) /\ Extends(Trusted, x, resync.scan)
           /\ Range(Trusted.uids) \subseteq Range(x.uids)
<1>1. PICK t, scan : t = Trusted /\ scan = resync.scan
  OBVIOUS
<1>2. t \in Mailboxes /\ UidsOK(t) /\ t.nextUid = mbox.nextUid /\ scan \in Seq(Nat)
  BY <1>1, TrustedTyped DEF Resyncs
<1>3. PICK ks, us, next : /\ ks = t.keys \o NewKeys(t, scan) /\ us = t.uids \o NewUids(t, scan)
                          /\ next = IF us = <<>> THEN t.nextUid ELSE Last(us) + 1
  OBVIOUS
<1>4. PICK x : x = [t EXCEPT !.keys = ks, !.uids = us, !.nextUid = next]
  OBVIOUS
<1>5. x.keys = ks /\ x.uids = us /\ x.nextUid = next
  BY <1>2, <1>4 DEF Mailboxes
<1>6. Extends(t, x, scan)
  BY <1>3, <1>5 DEF Extends
<1>7. /\ ks \in Seq(Nat) /\ us \in Seq(Nat) /\ next \in Nat \ {0} /\ UidsOK(x)
      /\ Range(t.uids) \subseteq Range(x.uids)
  BY <1>2, <1>5, <1>6, ExtendsTyped
<1>8. x \in Mailboxes
  BY <1>2, <1>4, <1>7 DEF Mailboxes
<1>9. mbox' = Rebuilt(x)
  <2>1. NewUids(t, scan) = [i \in DOMAIN NewKeys(t, scan) |-> mbox.nextUid + i - 1]
    BY <1>2 DEF NewUids
  <2>2. NewKeys(t, scan) = Ascending(Range(resync.scan) \ Range(Trusted.keys))
    BY <1>1 DEF NewKeys
  <2>3. next = IF us = <<>> THEN Trusted.nextUid ELSE Last(us) + 1
    BY <1>1, <1>3
  <2> QED
    BY <1>1, <1>3, <1>4, <2>1, <2>2, <2>3 DEF FindMail
<1> QED
  BY <1>1, <1>6, <1>7, <1>8, <1>9

\* The lists, whatever happens to them.
LEMMA MboxStep == FolderInv /\ MboxInv /\ resync \in Resyncs /\ [Next]_vars => MboxInv'
<1> SUFFICES ASSUME FolderInv, MboxInv, resync \in Resyncs, [Next]_vars PROVE MboxInv'
  OBVIOUS
<1>1. mbox \in Mailboxes /\ UidsOK(mbox)
  BY DEF MboxInv
<1>2. PICK n : n = mbox'
  OBVIOUS
<1>3. SUFFICES n \in Mailboxes /\ UidsOK(n)
  BY <1>2 DEF MboxInv
<1>4. CASE UNCHANGED mbox
  BY <1>1, <1>2, <1>4
<1>5. CASE FindMail
  <2>1. PICK x \in Mailboxes : UidsOK(x) /\ n = Rebuilt(x)
    BY <1>2, <1>5, FindDoes
  <2>2. n \in Mailboxes /\ n.uids = x.uids /\ n.nextUid = x.nextUid
    BY <2>1, TablesLead DEF SameLists
  <2> QED
    BY <2>1, <2>2 DEF UidsOK
<1>6. CASE CountMail
  <2>1. PICK k : k = Len(resync.scan)
    OBVIOUS
  <2>2. n = [mbox EXCEPT !.num = k] /\ k \in Int
    BY <1>2, <1>6, <2>1, ListOf DEF CountMail, Resyncs
  <2>3. n \in Mailboxes /\ n.uids = mbox.uids /\ n.nextUid = mbox.nextUid
    BY <1>1, <2>2 DEF Mailboxes
  <2> QED
    BY <1>1, <2>3 DEF UidsOK
<1>7. CASE Pack
  <2>1. PICK f : f = file'
    OBVIOUS
  <2>2. f = Packed(file) /\ born \in Nat /\ Files(file, born)
    BY <1>7, <2>1 DEF Pack, FolderInv
  <2>3. DOMAIN f \subseteq Nat /\ IsFiniteSet(DOMAIN f)
    BY <2>2, FilesPacked DEF Files
  <2>4. PICK ks : ks = Ascending(DOMAIN f)
    OBVIOUS
  <2>5. ks \in Seq(Nat)
    BY <2>3, <2>4, AscendingLists
  <2>6. PICK x : x = [mbox EXCEPT !.keys = ks]
    OBVIOUS
  <2>7. x \in Mailboxes /\ x.uids = mbox.uids /\ x.nextUid = mbox.nextUid
    BY <1>1, <2>5, <2>6 DEF Mailboxes
  <2>8. n = Rebuilt(x)
    BY <1>2, <1>7, <2>1, <2>4, <2>6 DEF Pack
  <2>9. n \in Mailboxes /\ n.uids = x.uids /\ n.nextUid = x.nextUid
    BY <2>7, <2>8, TablesLead DEF SameLists
  <2> QED
    BY <1>1, <2>7, <2>9 DEF UidsOK
<1>8. ASSUME NEW w \in Workers, TakeOut(w) PROVE n \in Mailboxes /\ UidsOK(n)
  <2>1. PICK p : p = mbox.keyIdx[Highest(w)]
    OBVIOUS
  <2>2. p \in 1..Len(mbox.keys) /\ p \in 1..Len(mbox.uids)
    BY <1>1, <1>8, <2>1, PlaceOf DEF TakeOut
  <2>3. PICK ks, us, k : ks = RemoveAt(mbox.keys, p) /\ us = RemoveAt(mbox.uids, p) /\ k = mbox.num - 1
    OBVIOUS
  <2>4. n = [mbox EXCEPT !.keys = ks, !.uids = us, !.num = k]
    BY <1>2, <1>8, <2>1, <2>3 DEF TakeOut
  <2>5. ks \in Seq(Nat) /\ us \in Seq(Nat) /\ k \in Int
    <3>1. mbox.keys \in Seq(Nat) /\ mbox.uids \in Seq(Nat) /\ mbox.num \in Int
      BY <1>1, ListsOf
    <3>2. ks \in Seq(Nat) /\ us \in Seq(Nat)
      BY <2>2, <2>3, <3>1, RemovedAt
    <3> QED
      BY <2>3, <3>1, <3>2
  <2>6. Rising(us) /\ Range(us) \subseteq Range(mbox.uids)
    BY <1>1, <2>2, <2>3, ListsOf, RemovedRising DEF UidsOK
  <2>7. n = [keys |-> ks, uids |-> us, keyIdx |-> mbox.keyIdx, uidIdx |-> mbox.uidIdx,
             num |-> k, nextUid |-> mbox.nextUid]
    BY <1>1, <2>4 DEF Mailboxes
  <2>8. n \in Mailboxes /\ n.uids = us /\ n.nextUid = mbox.nextUid
    <3>1. mbox.keyIdx \in Tables /\ mbox.uidIdx \in Tables /\ mbox.nextUid \in Nat \ {0}
      BY <1>1 DEF Mailboxes
    <3> QED
      BY <2>5, <2>7, <3>1 DEF Mailboxes
  <2> QED
    BY <1>1, <2>6, <2>8 DEF UidsOK
<1>9. ASSUME NEW w \in Workers, Finish(w) PROVE n \in Mailboxes /\ UidsOK(n)
  <2>1. n = Rebuilt(mbox)
    BY <1>2, <1>9 DEF Finish
  <2>2. n \in Mailboxes /\ n.uids = mbox.uids /\ n.nextUid = mbox.nextUid
    BY <1>1, <2>1, TablesLead DEF SameLists
  <2> QED
    BY <1>1, <2>2 DEF UidsOK
<1>10. \/ UNCHANGED mbox \/ FindMail \/ CountMail \/ Pack
       \/ \E w \in Workers : TakeOut(w) \/ Finish(w)
  BY DEF Next, Deliver, Scan, FindNothing, FindFails, NoPack, ImapExpunge,
         Expunge, PassOver, RemoveFile, ExpungeFails,
         Session, init_session, do_rset, do_quit, Leave, do_list, do_dele, vars
<1> QED
  BY <1>4, <1>5, <1>6, <1>7, <1>8, <1>9, <1>10

\* One expunge() or one session changes.
LEMMA JobPut ==
  ASSUME JobInv, NEW w, w \in Workers, NEW i, i \in Jobs, i.on \/ i = NoJob,
         job' = [job EXCEPT ![w] = i]
  PROVE  JobInv' /\ job'[w] = i /\ \A v \in Workers \ {w} : job'[v] = job[v]
<1>1. job'[w] = i /\ \A v \in Workers \ {w} : job'[v] = job[v]
  BY DEF JobInv
<1>2. job' \in [Workers -> Jobs]
  BY DEF JobInv
<1> QED
  BY <1>1, <1>2 DEF JobInv

LEMMA SnapshotAges ==
  ASSUME NEW p, NEW b, b \in Nat, NEW c, c \in Nat, b <= c, SnapshotOK(p, b)
  PROVE  SnapshotOK(p, c)
<1>1. 0..b \subseteq 0..c
  OBVIOUS
<1> QED
  BY <1>1 DEF SnapshotOK

LEMMA PopPut ==
  ASSUME PopInv, born \in Nat, UNCHANGED born, NEW s, s \in Sessions, NEW p, p \in Snapshots,
         SnapshotOK(p, born), pop' = [pop EXCEPT ![s] = p]
  PROVE  PopInv' /\ pop'[s] = p /\ \A r \in Sessions \ {s} : pop'[r] = pop[r]
<1>1. pop'[s] = p /\ \A r \in Sessions \ {s} : pop'[r] = pop[r]
  BY DEF PopInv
<1>2. pop' \in [Sessions -> Snapshots]
  BY DEF PopInv
<1> QED
  BY <1>1, <1>2 DEF PopInv

LEMMA NoJobTyped == NoJob \in Jobs /\ ~ NoJob.on /\ NoJob.key = 0 /\ NoJob.todo = {}
BY FS_EmptySet DEF NoJob, Jobs

\* A session moves on.
LEMMA Moved ==
  ASSUME NEW p, p \in Snapshots, NEW b, SnapshotOK(p, b),
         NEW pc, pc \in {"transaction", "quitting", "ok", "failed", "cut"},
         NEW q, q = [p EXCEPT !.pc = pc]
  PROVE  /\ q \in Snapshots /\ SnapshotOK(q, b) /\ q.pc = pc
         /\ q.keys = p.keys /\ q.uids = p.uids /\ q.listed = p.listed /\ q.deleted = p.deleted
<1>1. /\ q \in Snapshots /\ q.pc = pc /\ q.sizes = p.sizes
      /\ q.keys = p.keys /\ q.uids = p.uids /\ q.listed = p.listed /\ q.deleted = p.deleted
  BY DEF Snapshots
<1> QED
  BY <1>1 DEF SnapshotOK, SessionOK

\* The keys an expunge() has to remove are in a list.
LEMMA TodoTyped ==
  ASSUME NEW m, m \in Mailboxes, NEW K, K \subseteq Range(m.keys)
  PROVE  K \in {L \in SUBSET Nat : IsFiniteSet(L)}
<1>1. IsFiniteSet(Range(m.keys)) /\ Range(m.keys) \subseteq Nat
  BY ListsOf, ListOf, RangeFinite
<1> QED
  BY <1>1, FS_Subset

LEMMA HighestIn ==
  ASSUME JobInv, NEW w, w \in Workers, job[w].todo # {}
  PROVE  Highest(w) \in job[w].todo /\ \A k \in job[w].todo : k <= Highest(w) /\ k \in Nat
<1>1. job[w].todo \subseteq Nat /\ IsFiniteSet(job[w].todo)
  BY DEF JobInv, Jobs
<1> QED
  BY <1>1, MaxOf DEF Highest

\* What Ends does to the work and to the sessions.
LEMMA EndsDoes ==
  ASSUME JobInv, PopInv, QuitInv, born \in Nat, UNCHANGED born,
         NEW w, w \in Workers, NEW pc, pc \in {"ok", "failed"}, Ends(w, pc)
  PROVE  /\ JobInv' /\ PopInv' /\ QuitInv'
         /\ job'[w] = NoJob /\ \A v \in Workers \ {w} : job'[v] = job[v]
         /\ \A s \in Sessions :
              /\ pop'[s].keys = pop[s].keys /\ pop'[s].uids = pop[s].uids
              /\ pop'[s].listed = pop[s].listed /\ pop'[s].deleted = pop[s].deleted
              /\ pop'[s].pc = IF s = w THEN pc ELSE pop[s].pc
<1>1. /\ job' = [job EXCEPT ![w] = NoJob]
      /\ pop' = [s \in Sessions |-> IF s = w THEN [pop[s] EXCEPT !.pc = pc] ELSE pop[s]]
  BY DEF Ends
<1>2. JobInv' /\ job'[w] = NoJob /\ \A v \in Workers \ {w} : job'[v] = job[v]
  <2>1. PICK i : i = NoJob
    OBVIOUS
  <2> QED
    BY <1>1, <2>1, NoJobTyped, JobPut
<1>3. ASSUME NEW s \in Sessions
      PROVE  /\ pop'[s] \in Snapshots /\ SnapshotOK(pop'[s], born)
             /\ pop'[s].keys = pop[s].keys /\ pop'[s].uids = pop[s].uids
             /\ pop'[s].listed = pop[s].listed /\ pop'[s].deleted = pop[s].deleted
             /\ pop'[s].pc = IF s = w THEN pc ELSE pop[s].pc
  <2>1. PICK p, q : p = pop[s] /\ q = pop'[s]
    OBVIOUS
  <2>2. p \in Snapshots /\ SnapshotOK(p, born) /\ q = IF s = w THEN [p EXCEPT !.pc = pc] ELSE p
    BY <1>1, <2>1 DEF PopInv
  <2>3. CASE s = w
    <3>1. q = [p EXCEPT !.pc = pc]
      BY <2>2, <2>3
    <3>2. /\ q \in Snapshots /\ SnapshotOK(q, born) /\ q.pc = pc
          /\ q.keys = p.keys /\ q.uids = p.uids /\ q.listed = p.listed /\ q.deleted = p.deleted
      BY <2>2, <3>1, Moved
    <3> QED
      BY <2>1, <2>3, <3>2
  <2>4. CASE s # w
    BY <2>1, <2>2, <2>4
  <2> QED
    BY <2>3, <2>4
<1>4. PopInv'
  BY <1>1, <1>3 DEF PopInv
<1>5. QuitInv'
  <2> SUFFICES ASSUME NEW s \in Sessions PROVE pop'[s].pc = "quitting" <=> job'[s].on
    BY DEF QuitInv
  <2>1. s \in Workers
    BY DEF Workers
  <2>2. CASE s = w
    BY <1>2, <1>3, <2>2, NoJobTyped
  <2>3. CASE s # w
    BY <1>2, <1>3, <2>1, <2>3 DEF QuitInv
  <2> QED
    BY <2>2, <2>3
<1> QED
  BY <1>2, <1>3, <1>4, <1>5

\* The expunge() i is running, with the keys todo to remove, and key out of the lists.
Doing(i, todo, key) == i.on /\ i.todo = todo /\ i.key = key

\* What Start does to the work.
LEMMA StartDoes ==
  ASSUME JobInv, NEW w, w \in Workers, NEW ks, ks \in {K \in SUBSET Nat : IsFiniteSet(K)},
         NEW ms, Start(w, ks, ms)
  PROVE  /\ JobInv' /\ Doing(job'[w], ks, 0)
         /\ \A v \in Workers \ {w} : job'[v] = job[v]
<1>1. PICK i : i = [on |-> TRUE, todo |-> ks, key |-> 0]
  OBVIOUS
<1>2. i \in Jobs /\ i.on
  BY <1>1 DEF Jobs
<1>3. job' = [job EXCEPT ![w] = i]
  BY <1>1 DEF Start
<1>4. Doing(i, ks, 0)
  BY <1>1 DEF Doing
<1>5. JobInv' /\ job'[w] = i /\ \A v \in Workers \ {w} : job'[v] = job[v]
  BY <1>1, <1>2, <1>3, JobPut
<1> QED
  BY <1>4, <1>5

\* A running expunge() with other fields.
LEMMA JobChanged ==
  ASSUME NEW j, j \in Jobs, j.on
  PROVE  /\ j.key = 0 => \A K : [j EXCEPT !.todo = K] = [on |-> TRUE, todo |-> K, key |-> 0]
         /\ \A k : [j EXCEPT !.key = k] = [on |-> TRUE, todo |-> j.todo, key |-> k]
<1>1. ASSUME j.key = 0, NEW K PROVE [j EXCEPT !.todo = K] = [on |-> TRUE, todo |-> K, key |-> 0]
  <2>1. PICK x : x = [j EXCEPT !.todo = K]
    OBVIOUS
  <2>2. x = [on |-> TRUE, todo |-> K, key |-> 0]
    BY <1>1, <2>1 DEF Jobs
  <2> QED
    BY <2>1, <2>2
<1>2. ASSUME NEW k PROVE [j EXCEPT !.key = k] = [on |-> TRUE, todo |-> j.todo, key |-> k]
  <2>1. PICK x : x = [j EXCEPT !.key = k]
    OBVIOUS
  <2>2. x = [on |-> TRUE, todo |-> j.todo, key |-> k]
    BY <2>1 DEF Jobs
  <2> QED
    BY <2>1, <2>2
<1> QED
  BY <1>1, <1>2

\* What an expunge() does to itself, step by step.
LEMMA PassOverDoes ==
  ASSUME JobInv, NEW w, w \in Workers, PassOver(w)
  PROVE  /\ JobInv' /\ \A v \in Workers \ {w} : job'[v] = job[v]
         /\ Doing(job'[w], job[w].todo \ {Highest(w)}, 0)
<1>1. job[w] \in Jobs /\ job[w].on /\ job[w].key = 0
  BY DEF JobInv, PassOver
<1>2. PICK K : K = job[w].todo \ {Highest(w)}
  OBVIOUS
<1>3. PICK i : i = [on |-> TRUE, todo |-> K, key |-> 0]
  OBVIOUS
<1>4. K \subseteq Nat /\ IsFiniteSet(K)
  BY <1>1, <1>2, FS_Subset DEF Jobs
<1>5. i \in Jobs /\ i.on
  BY <1>3, <1>4 DEF Jobs
<1>6. i = [job[w] EXCEPT !.todo = K]
  BY <1>1, <1>3, JobChanged
<1>7. job' = [job EXCEPT ![w] = i]
  BY <1>2, <1>6 DEF PassOver
<1>8. Doing(i, job[w].todo \ {Highest(w)}, 0)
  BY <1>2, <1>3 DEF Doing
<1>9. JobInv' /\ job'[w] = i /\ \A v \in Workers \ {w} : job'[v] = job[v]
  BY <1>2, <1>3, <1>5, <1>7, JobPut
<1> QED
  BY <1>8, <1>9

LEMMA TakeOutDoes ==
  ASSUME JobInv, NEW w, w \in Workers, TakeOut(w)
  PROVE  /\ JobInv' /\ \A v \in Workers \ {w} : job'[v] = job[v]
         /\ Doing(job'[w], job[w].todo \ {Highest(w)}, Highest(w))
<1>1. job[w] \in Jobs /\ job[w].on /\ job[w].todo # {}
  BY DEF JobInv, TakeOut
<1>2. PICK k, K : k = Highest(w) /\ K = job[w].todo \ {k}
  OBVIOUS
<1>3. PICK i : i = [on |-> TRUE, todo |-> K, key |-> k]
  OBVIOUS
<1>4. K \subseteq Nat /\ IsFiniteSet(K) /\ k \in Nat
  <2>1. k \in job[w].todo
    BY <1>1, <1>2, HighestIn
  <2> QED
    BY <1>1, <1>2, <2>1, FS_Subset DEF Jobs
<1>5. i \in Jobs /\ i.on
  BY <1>3, <1>4 DEF Jobs
<1>6. i = [job[w] EXCEPT !.todo = K, !.key = k]
  <2>1. PICK j, x : j = job[w] /\ x = [j EXCEPT !.todo = K, !.key = k]
    OBVIOUS
  <2>2. j \in Jobs /\ j.on
    BY <1>1, <2>1
  <2>3. x = [on |-> TRUE, todo |-> K, key |-> k]
    BY <2>1, <2>2 DEF Jobs
  <2> QED
    BY <1>3, <2>1, <2>3
<1>7. job' = [job EXCEPT ![w] = i]
  <2>1. job' = [job EXCEPT ![w] = [job[w] EXCEPT !.todo = K, !.key = k]]
    BY <1>1, <1>2 DEF TakeOut, JobInv
  <2> QED
    BY <1>6, <2>1
<1>8. Doing(i, job[w].todo \ {Highest(w)}, Highest(w))
  BY <1>2, <1>3 DEF Doing
<1>9. JobInv' /\ job'[w] = i /\ \A v \in Workers \ {w} : job'[v] = job[v]
  BY <1>2, <1>3, <1>5, <1>7, JobPut
<1> QED
  BY <1>8, <1>9

LEMMA RemoveFileDoes ==
  ASSUME JobInv, FolderInv, NEW w, w \in Workers, RemoveFile(w)
  PROVE  /\ JobInv' /\ \A v \in Workers \ {w} : job'[v] = job[v]
         /\ job[w].on /\ job[w].key # 0
         /\ Doing(job'[w], job[w].todo, 0)
<1>1. job[w] \in Jobs /\ job[w].key # 0
  BY FolderFacts DEF JobInv, RemoveFile
<1>2. job[w].on
  BY <1>1, NoJobTyped DEF JobInv
<1>3. PICK i : i = [on |-> TRUE, todo |-> job[w].todo, key |-> 0]
  OBVIOUS
<1>4. i \in Jobs /\ i.on
  BY <1>1, <1>3 DEF Jobs
<1>5. i = [job[w] EXCEPT !.key = 0]
  BY <1>1, <1>2, <1>3, JobChanged
<1>6. job' = [job EXCEPT ![w] = i]
  BY <1>5 DEF RemoveFile
<1>7. Doing(i, job[w].todo, 0)
  BY <1>3 DEF Doing
<1>8. JobInv' /\ job'[w] = i /\ \A v \in Workers \ {w} : job'[v] = job[v]
  BY <1>1, <1>2, <1>3, <1>4, <1>6, JobPut
<1> QED
  BY <1>1, <1>2, <1>7, <1>8

\* The snapshot p has become q: it is of the same lists.
SameSnapshot(p, q) == q.keys = p.keys /\ q.uids = p.uids /\ q.listed = p.listed

\* The QUIT of s begins an expunge(), for what it has marked.
Quits(s) ==
  LET at == {mbox.uidIdx[u] : u \in MarkedUids(s) \cap DOMAIN mbox.uidIdx}
  IN /\ pop[s].deleted \subseteq DOMAIN pop[s].uids /\ at \subseteq DOMAIN mbox.keys
     /\ Start(s, {mbox.keys[i] : i \in at}, MarkedMail(s))
     /\ pop'[s].pc = "quitting" /\ pop'[s].deleted = pop[s].deleted
     /\ SameSnapshot(pop[s], pop'[s])

\* What a session does: it takes its snapshot, changes its marks, or QUITs.
LEMMA SnapshotTaken ==
  ASSUME FolderInv, MboxInv, PopInv, NEW s, s \in Sessions, init_session(s)
  PROVE  /\ PopInv' /\ \A r \in Sessions \ {s} : pop'[r] = pop[r]
         /\ pop'[s].pc = "transaction" /\ pop'[s].keys = mbox.keys /\ pop'[s].uids = mbox.uids
         /\ DOMAIN pop'[s].listed = DOMAIN mbox.keys
         /\ \A i \in DOMAIN mbox.keys : pop'[s].listed[i] = Mail(mbox.keys[i])
<1>1. /\ mbox.keys \in Seq(Nat) /\ mbox.uids \in Seq(Nat) /\ UidsOK(mbox)
      /\ Len(mbox.keys) \in Nat /\ DOMAIN mbox.keys = 1..Len(mbox.keys)
  BY ListsOf DEF MboxInv
<1>2. PICK ls, ks, us, p : /\ ls = [i \in DOMAIN mbox.keys |-> Mail(mbox.keys[i])]
                           /\ ks = mbox.keys /\ us = mbox.uids /\ p = pop[s]
  OBVIOUS
<1>3. /\ ls \in Seq(Nat) /\ Len(ls) = Len(ks) /\ Range(ls) \subseteq 0..born
      /\ DOMAIN ls = DOMAIN ks
  <2>1. \A k : Mail(k) \in 0..born
    <3>1. born \in Nat /\ \A k \in Keys : file[k] \in 1..born
      BY FolderFacts
    <3> QED
      BY <3>1 DEF Mail
  <2>2. ls \in [1..Len(ks) -> Nat] /\ \A i \in DOMAIN ls : ls[i] \in 0..born
    BY <1>1, <1>2, <2>1
  <2>3. ls \in Seq(Nat)
    BY <1>1, <1>2, <2>2
  <2>4. Len(ls) \in Nat /\ DOMAIN ls = 1..Len(ls) /\ DOMAIN ls = 1..Len(ks)
    BY <1>1, <1>2, <2>2, <2>3, ListOf
  <2>5. Len(ls) = Len(ks)
    BY <1>1, <1>2, <2>4
  <2>6. Range(ls) \subseteq 0..born
    BY <2>2 DEF Range
  <2> QED
    BY <1>1, <1>2, <2>3, <2>4, <2>5, <2>6
<1>4. PICK q : q = [p EXCEPT !.pc = "transaction", !.keys = ks, !.uids = us, !.listed = ls]
  OBVIOUS
<1>5. /\ p \in Snapshots /\ p.pc = "new" /\ SnapshotOK(p, born)
      /\ p.deleted = {} /\ DOMAIN p.sizes = {}
  BY <1>2 DEF PopInv, SnapshotOK, init_session
<1>6. /\ q = [pc |-> "transaction", keys |-> ks, uids |-> us, deleted |-> p.deleted,
              sizes |-> p.sizes, listed |-> ls]
  BY <1>4, <1>5 DEF Snapshots
<1>7. q \in Snapshots
  <2>1. p.deleted \in SUBSET Nat /\ p.sizes \in UNION {[K -> 0..MaxMail] : K \in SUBSET Nat}
    BY <1>5 DEF Snapshots
  <2>2. ks \in Seq(Nat) /\ us \in Seq(Nat)
    BY <1>1, <1>2
  <2> QED
    BY <1>3, <1>6, <2>1, <2>2 DEF Snapshots
<1>8. SnapshotOK(q, born)
  <2>1. Rising(us)
    BY <1>1, <1>2 DEF UidsOK
  <2>2. Range(p.sizes) = {}
    BY <1>5 DEF Range
  <2> QED
    BY <1>3, <1>5, <1>6, <2>1, <2>2 DEF SnapshotOK, SessionOK
<1>9. pop' = [pop EXCEPT ![s] = q]
  BY <1>2, <1>4 DEF init_session
<1>10. born \in Nat /\ UNCHANGED born
  BY FolderFacts DEF init_session
<1>11. PopInv' /\ pop'[s] = q /\ \A r \in Sessions \ {s} : pop'[r] = pop[r]
  BY <1>7, <1>8, <1>9, <1>10, PopPut
<1> QED
  BY <1>2, <1>3, <1>6, <1>11

LEMMA SizesTaken ==
  ASSUME FolderInv, PopInv, NEW s, s \in Sessions, NEW asked, do_list(s, asked)
  PROVE  /\ PopInv' /\ \A r \in Sessions \ {s} : pop'[r] = pop[r]
         /\ pop'[s].pc = "transaction" /\ SameSnapshot(pop[s], pop'[s])
<1>1. PICK p, new : p = pop[s] /\ new = (asked \cap _valid_msg_num(s)) \ DOMAIN pop[s].sizes
  OBVIOUS
<1>2. p \in Snapshots /\ SnapshotOK(p, born) /\ p.pc = "transaction"
  BY <1>1 DEF PopInv, do_list, In
<1>3. PICK sizes : sizes = [n \in new \cup DOMAIN p.sizes |->
                              IF n \in new THEN Mail(p.keys[n]) ELSE p.sizes[n]]
  OBVIOUS
<1>4. /\ DOMAIN p.sizes \subseteq DOMAIN p.keys /\ DOMAIN p.keys \subseteq Nat
      /\ \A n \in DOMAIN p.sizes : p.sizes[n] \in 0..MaxMail
      /\ new \subseteq DOMAIN p.keys
  <2>1. p.keys \in Seq(Nat) /\ p.sizes \in UNION {[K -> 0..MaxMail] : K \in SUBSET Nat}
    BY <1>2 DEF Snapshots
  <2>2. DOMAIN p.keys \subseteq Nat
    BY <2>1, ListOf
  <2>3. new \subseteq DOMAIN p.keys
    BY <1>1 DEF _valid_msg_num
  <2> QED
    BY <1>2, <2>1, <2>2, <2>3 DEF SnapshotOK, SessionOK
<1>5. \A k : Mail(k) \in 0..MaxMail
  <2>1. /\ born \in Nat /\ MaxMail \in Nat /\ 0..born \subseteq 0..MaxMail
        /\ \A k \in Keys : file[k] \in 1..born
    BY FolderFacts
  <2>2. \A k : Mail(k) \in 0..born
    BY <2>1 DEF Mail
  <2> QED
    BY <2>1, <2>2
<1>6. PICK K : K = new \cup DOMAIN p.sizes
  OBVIOUS
<1>7. /\ sizes \in [K -> 0..MaxMail] /\ K \subseteq DOMAIN p.keys /\ K \in SUBSET Nat /\ DOMAIN sizes = K
      /\ Range(sizes) \subseteq {0} \cup Mails
  <2>1. sizes \in [K -> 0..MaxMail] /\ K \subseteq DOMAIN p.keys /\ K \in SUBSET Nat
    BY <1>3, <1>4, <1>5, <1>6
  <2>2. Range(sizes) \subseteq 0..MaxMail
    BY <2>1 DEF Range
  <2>3. 0..MaxMail \subseteq {0} \cup Mails
    BY Pop3Assumption DEF Mails
  <2> QED
    BY <2>1, <2>2, <2>3
<1>8. PICK q : q = [p EXCEPT !.sizes = sizes]
  OBVIOUS
<1>9. q \in Snapshots
  BY <1>2, <1>7, <1>8 DEF Snapshots
<1>10. /\ q.pc = "transaction" /\ q.keys = p.keys /\ q.uids = p.uids /\ q.listed = p.listed
       /\ q.deleted = p.deleted /\ q.sizes = sizes
  BY <1>2, <1>8 DEF Snapshots
<1>11. SnapshotOK(q, born)
  BY <1>2, <1>7, <1>10 DEF SnapshotOK, SessionOK
<1>12. pop' = [pop EXCEPT ![s] = q]
  BY <1>1, <1>3, <1>8 DEF do_list
<1>13. born \in Nat /\ UNCHANGED born
  BY FolderFacts DEF do_list
<1>14. PopInv' /\ pop'[s] = q /\ \A r \in Sessions \ {s} : pop'[r] = pop[r]
  BY <1>9, <1>11, <1>12, <1>13, PopPut
<1> QED
  BY <1>1, <1>10, <1>14 DEF SameSnapshot

\* Other marks.
LEMMA MarksChanged ==
  ASSUME PopInv, born \in Nat, UNCHANGED born, NEW s, s \in Sessions, pop[s].pc = "transaction",
         NEW D, D \subseteq DOMAIN pop[s].keys, pop' = [pop EXCEPT ![s].deleted = D]
  PROVE  /\ PopInv' /\ \A r \in Sessions \ {s} : pop'[r] = pop[r]
         /\ pop'[s].pc = "transaction" /\ SameSnapshot(pop[s], pop'[s])
<1>1. PICK p, q : p = pop[s] /\ q = [p EXCEPT !.deleted = D]
  OBVIOUS
<1>2. p \in Snapshots /\ SnapshotOK(p, born) /\ p.pc = "transaction"
  BY <1>1 DEF PopInv
<1>3. D \in SUBSET Nat
  <2>1. p.keys \in Seq(Nat)
    BY <1>2 DEF Snapshots
  <2> QED
    BY <1>1, <2>1, ListOf
<1>4. /\ q \in Snapshots
      /\ q.pc = "transaction" /\ q.keys = p.keys /\ q.uids = p.uids /\ q.listed = p.listed
      /\ q.deleted = D /\ q.sizes = p.sizes
  BY <1>1, <1>2, <1>3 DEF Snapshots
<1>5. SnapshotOK(q, born)
  BY <1>1, <1>2, <1>4 DEF SnapshotOK, SessionOK
<1>6. pop' = [pop EXCEPT ![s] = q]
  BY <1>1
<1>7. PopInv' /\ pop'[s] = q /\ \A r \in Sessions \ {s} : pop'[r] = pop[r]
  BY <1>4, <1>5, <1>6, PopPut
<1> QED
  BY <1>1, <1>4, <1>7 DEF SameSnapshot

LEMMA SessionMoved ==
  ASSUME PopInv, born \in Nat, UNCHANGED born, NEW s, s \in Sessions,
         NEW pc, pc \in {"quitting", "failed", "cut"}, pop' = [pop EXCEPT ![s].pc = pc]
  PROVE  /\ PopInv' /\ \A r \in Sessions \ {s} : pop'[r] = pop[r]
         /\ pop'[s].pc = pc /\ SameSnapshot(pop[s], pop'[s]) /\ pop'[s].deleted = pop[s].deleted
<1>1. PICK p, q : p = pop[s] /\ q = [p EXCEPT !.pc = pc]
  OBVIOUS
<1>2. p \in Snapshots /\ SnapshotOK(p, born)
  BY <1>1 DEF PopInv
<1>3. /\ q \in Snapshots /\ SnapshotOK(q, born) /\ q.pc = pc
      /\ q.keys = p.keys /\ q.uids = p.uids /\ q.listed = p.listed /\ q.deleted = p.deleted
  BY <1>1, <1>2, Moved
<1>4. pop' = [pop EXCEPT ![s] = q]
  BY <1>1
<1>5. PopInv' /\ pop'[s] = q /\ \A r \in Sessions \ {s} : pop'[r] = pop[r]
  BY <1>2, <1>3, <1>4, PopPut
<1> QED
  BY <1>1, <1>3, <1>5 DEF SameSnapshot

\* What a session does: it takes its snapshot, or works on it, or its QUIT begins an expunge().
LEMMA SessionDoes ==
  ASSUME FolderInv, MboxInv, PopInv, NEW s, s \in Sessions, Session(s)
  PROVE  /\ PopInv' /\ \A r \in Sessions \ {s} : pop'[r] = pop[r]
         /\ UNCHANGED <<file, born, mbox, resync, anew>> /\ pop[s].pc \in {"new", "transaction"}
         /\ \/ init_session(s) /\ pop'[s].pc = "transaction"
            \/ /\ UNCHANGED <<job, condemned, met>> /\ SameSnapshot(pop[s], pop'[s])
               /\ pop'[s].pc \in {"transaction", "failed", "cut"}
            \/ Quits(s)
<1>1. born \in Nat
  BY FolderFacts
<1>2. CASE init_session(s)
  BY <1>2, SnapshotTaken DEF init_session
<1>3. ASSUME NEW asked, do_list(s, asked)
      PROVE  /\ PopInv' /\ \A r \in Sessions \ {s} : pop'[r] = pop[r]
             /\ UNCHANGED <<file, born, mbox, resync, anew, job, condemned, met>>
             /\ pop[s].pc = "transaction" /\ pop'[s].pc = "transaction" /\ SameSnapshot(pop[s], pop'[s])
  <2>1. UNCHANGED <<file, born, mbox, resync, anew, job, condemned, met>> /\ pop[s].pc = "transaction"
    BY <1>3 DEF do_list, In
  <2> QED
    BY <1>3, <2>1, SizesTaken
<1>4. ASSUME NEW n, do_dele(s, n)
      PROVE  /\ PopInv' /\ \A r \in Sessions \ {s} : pop'[r] = pop[r]
             /\ UNCHANGED <<file, born, mbox, resync, anew, job, condemned, met>>
             /\ pop[s].pc = "transaction" /\ pop'[s].pc = "transaction" /\ SameSnapshot(pop[s], pop'[s])
  <2>1. /\ UNCHANGED <<file, born, mbox, resync, anew, job, condemned, met>> /\ pop[s].pc = "transaction"
        /\ n \in DOMAIN pop[s].keys /\ pop' = [pop EXCEPT ![s].deleted = @ \cup {n}]
    BY <1>4 DEF do_dele, In, _valid_msg_num
  <2>2. PICK D : D = pop[s].deleted \cup {n}
    OBVIOUS
  <2>3. D \subseteq DOMAIN pop[s].keys
    BY <2>1, <2>2 DEF PopInv, SnapshotOK, SessionOK
  <2>4. pop' = [pop EXCEPT ![s].deleted = D]
    BY <2>1, <2>2
  <2> QED
    BY <1>1, <2>1, <2>3, <2>4, MarksChanged
<1>5. CASE do_rset(s)
  <2>1. /\ UNCHANGED <<file, born, mbox, resync, anew, job, condemned, met>> /\ pop[s].pc = "transaction"
        /\ pop' = [pop EXCEPT ![s].deleted = {}]
    BY <1>5 DEF do_rset, In
  <2>2. PICK D : D = {}
    OBVIOUS
  <2>3. D \subseteq DOMAIN pop[s].keys /\ pop' = [pop EXCEPT ![s].deleted = D]
    BY <2>1, <2>2
  <2> QED
    BY <1>1, <2>1, <2>3, MarksChanged
<1>6. CASE Leave(s)
  <2>1. /\ UNCHANGED <<file, born, mbox, resync, anew, job, condemned, met>> /\ pop[s].pc = "transaction"
        /\ pop' = [pop EXCEPT ![s].pc = "cut"]
    BY <1>6 DEF Leave, In
  <2>2. PICK pc : pc = "cut"
    OBVIOUS
  <2> QED
    BY <1>1, <2>1, <2>2, SessionMoved
<1>7. CASE do_quit(s)
  <2> DEFINE at == {mbox.uidIdx[u] : u \in MarkedUids(s) \cap DOMAIN mbox.uidIdx}
  <2>1. /\ UNCHANGED <<file, born, mbox, resync, anew>> /\ pop[s].pc = "transaction"
        /\ pop[s].deleted \subseteq DOMAIN pop[s].uids
    BY <1>7 DEF do_quit, In
  <2>2. CASE at \subseteq DOMAIN mbox.keys
    <3>1. /\ Start(s, {mbox.keys[i] : i \in at}, MarkedMail(s))
          /\ pop' = [pop EXCEPT ![s].pc = "quitting"]
      BY <1>7, <2>2 DEF do_quit
    <3>2. PICK pc : pc = "quitting"
      OBVIOUS
    <3>3. /\ PopInv' /\ \A r \in Sessions \ {s} : pop'[r] = pop[r]
          /\ pop'[s].pc = pc /\ SameSnapshot(pop[s], pop'[s]) /\ pop'[s].deleted = pop[s].deleted
      BY <1>1, <2>1, <3>1, <3>2, SessionMoved
    <3>4. Quits(s)
      BY <2>1, <2>2, <3>1, <3>2, <3>3 DEF Quits
    <3> QED
      BY <2>1, <3>3, <3>4
  <2>3. CASE ~ (at \subseteq DOMAIN mbox.keys)
    <3>1. /\ pop' = [pop EXCEPT ![s].pc = "failed"] /\ UNCHANGED <<job, condemned, met>>
      BY <1>7, <2>3 DEF do_quit
    <3>2. PICK pc : pc = "failed"
      OBVIOUS
    <3>3. /\ PopInv' /\ \A r \in Sessions \ {s} : pop'[r] = pop[r]
          /\ pop'[s].pc = pc /\ SameSnapshot(pop[s], pop'[s])
      BY <1>1, <2>1, <3>1, <3>2, SessionMoved
    <3> QED
      BY <2>1, <3>1, <3>2, <3>3
  <2> QED
    BY <2>2, <2>3
<1> QED
  BY <1>2, <1>3, <1>4, <1>5, <1>6, <1>7 DEF Session

\* The keys of an expunge() that begins.
LEMMA QuitsDoes ==
  ASSUME MboxInv, JobInv, NEW s, s \in Sessions, Quits(s)
  PROVE  LET at == {mbox.uidIdx[u] : u \in MarkedUids(s) \cap DOMAIN mbox.uidIdx}
         IN /\ JobInv' /\ Doing(job'[s], {mbox.keys[i] : i \in at}, 0)
            /\ \A v \in Workers \ {s} : job'[v] = job[v]
            /\ condemned' = condemned \cup MarkedMail(s)
            /\ met' = (met \/ ~ AtRest \/ Quitting # {})
<1> DEFINE at == {mbox.uidIdx[u] : u \in MarkedUids(s) \cap DOMAIN mbox.uidIdx}
<1>1. at \subseteq DOMAIN mbox.keys /\ Start(s, {mbox.keys[i] : i \in at}, MarkedMail(s))
  BY DEF Quits
<1>2. s \in Workers /\ s # Imap
  BY Pop3Assumption DEF Workers
<1>3. PICK ks : ks = {mbox.keys[i] : i \in at}
  OBVIOUS
<1>4. ks \in {K \in SUBSET Nat : IsFiniteSet(K)}
  <2>1. ks \subseteq Range(mbox.keys)
    BY <1>1, <1>3 DEF Range
  <2> QED
    BY <2>1, TodoTyped DEF MboxInv
<1>5. Start(s, ks, MarkedMail(s))
  BY <1>1, <1>3
<1>6. /\ JobInv' /\ Doing(job'[s], ks, 0)
      /\ \A v \in Workers \ {s} : job'[v] = job[v]
  BY <1>2, <1>4, <1>5, StartDoes
<1>7. condemned' = condemned \cup MarkedMail(s) /\ met' = (met \/ ~ AtRest \/ Quitting # {})
  BY <1>2, <1>5 DEF Start
<1> QED
  BY <1>3, <1>6, <1>7

LEMMA ImapDoes ==
  ASSUME MboxInv, JobInv, FolderInv, ImapExpunge
  PROVE  \E ks \in SUBSET (Range(mbox.keys) \cap DOMAIN mbox.keyIdx) :
           /\ JobInv' /\ Doing(job'[Imap], ks, 0)
           /\ \A v \in Workers \ {Imap} : job'[v] = job[v]
           /\ condemned' = condemned \cup {file[k] : k \in ks \cap Keys}
           /\ met' = (met \/ Quitting # {})
<1>1. PICK ks \in SUBSET (Range(mbox.keys) \cap DOMAIN mbox.keyIdx) \ {{}} :
        Start(Imap, ks, {file[k] : k \in ks \cap Keys})
  BY DEF ImapExpunge
<1>2. ks \in {K \in SUBSET Nat : IsFiniteSet(K)}
  BY <1>1, TodoTyped DEF MboxInv
<1>3. Imap \in Workers
  BY DEF Workers
<1>4. PICK ms : ms = {file[k] : k \in ks \cap Keys}
  OBVIOUS
<1>5. Start(Imap, ks, ms)
  BY <1>1, <1>4
<1>6. /\ JobInv' /\ Doing(job'[Imap], ks, 0)
      /\ \A v \in Workers \ {Imap} : job'[v] = job[v]
  BY <1>2, <1>3, <1>5, StartDoes
<1>7. condemned' = condemned \cup ms /\ met' = (met \/ Quitting # {})
  BY <1>5 DEF Start
<1> QED
  BY <1>1, <1>4, <1>6, <1>7

\* The expunges and the sessions, whatever they do.
LEMMA WorkStep ==
  FolderInv /\ MboxInv /\ JobInv /\ PopInv /\ QuitInv /\ [Next]_vars => JobInv' /\ PopInv' /\ QuitInv'
<1> SUFFICES ASSUME FolderInv, MboxInv, JobInv, PopInv, QuitInv, [Next]_vars
             PROVE  JobInv' /\ PopInv' /\ QuitInv'
  OBVIOUS
<1>1. born \in Nat /\ born' \in Nat /\ born <= born'
  <2>1. FolderInv' /\ born <= born'
    BY FolderStep
  <2>2. born' \in Nat /\ born \in Nat
    BY <2>1, Pop3Assumption DEF FolderInv
  <2> QED
    BY <2>1, <2>2
<1>2. CASE UNCHANGED <<job, pop>>
  <2>1. PICK b, c : b = born /\ c = born'
    OBVIOUS
  <2>2. \A s \in Sessions : SnapshotOK(pop[s], c)
    BY <1>1, <2>1, SnapshotAges DEF PopInv
  <2>3. PopInv'
    BY <1>2, <2>1, <2>2 DEF PopInv
  <2> QED
    BY <1>2, <2>3 DEF JobInv, QuitInv
<1>3. ASSUME UNCHANGED <<pop, born>>, JobInv', \A s \in Sessions : job'[s].on = job[s].on
      PROVE  JobInv' /\ PopInv' /\ QuitInv'
  BY <1>3 DEF PopInv, QuitInv
<1>4. CASE ImapExpunge
  <2>1. JobInv' /\ \A v \in Workers \ {Imap} : job'[v] = job[v]
    BY <1>4, ImapDoes
  <2>2. \A s \in Sessions : s \in Workers \ {Imap}
    BY Pop3Assumption DEF Workers
  <2>3. \A s \in Sessions : job'[s].on = job[s].on
    BY <2>1, <2>2
  <2>4. UNCHANGED <<pop, born>>
    BY <1>4 DEF ImapExpunge
  <2> QED
    BY <1>3, <2>1, <2>3, <2>4
<1>5. ASSUME NEW w \in Workers, PassOver(w) \/ TakeOut(w) \/ RemoveFile(w)
      PROVE  JobInv' /\ PopInv' /\ QuitInv'
  <2>1. /\ UNCHANGED <<pop, born>>
        /\ PassOver(w) \/ TakeOut(w) => job[w].on
    BY <1>5 DEF PassOver, TakeOut, RemoveFile
  <2>2. JobInv' /\ job[w].on /\ job'[w].on /\ \A v \in Workers \ {w} : job'[v] = job[v]
    <3>1. CASE PassOver(w)
      BY <2>1, <3>1, PassOverDoes DEF Doing
    <3>2. CASE TakeOut(w)
      BY <2>1, <3>2, TakeOutDoes DEF Doing
    <3>3. CASE RemoveFile(w)
      BY <3>3, RemoveFileDoes DEF Doing
    <3> QED
      BY <1>5, <3>1, <3>2, <3>3
  <2>3. \A v \in Workers : job'[v].on = job[v].on
    BY <2>2 DEF JobInv, Jobs
  <2>4. \A s \in Sessions : job'[s].on = job[s].on
    BY <2>3 DEF Workers
  <2> QED
    BY <1>3, <2>1, <2>2, <2>4
<1>6. ASSUME NEW w \in Workers, Finish(w) \/ ExpungeFails(w)
      PROVE  JobInv' /\ PopInv' /\ QuitInv'
  <2>1. UNCHANGED born /\ \E pc \in {"ok", "failed"} : Ends(w, pc)
    BY <1>6 DEF Finish, ExpungeFails
  <2> QED
    BY <1>1, <2>1, EndsDoes
<1>7. ASSUME NEW s \in Sessions, Session(s)
      PROVE  JobInv' /\ PopInv' /\ QuitInv'
  <2>1. /\ PopInv' /\ \A r \in Sessions \ {s} : pop'[r] = pop[r]
        /\ pop[s].pc \in {"new", "transaction"}
        /\ \/ init_session(s) /\ pop'[s].pc = "transaction"
           \/ /\ UNCHANGED <<job, condemned, met>> /\ SameSnapshot(pop[s], pop'[s])
              /\ pop'[s].pc \in {"transaction", "failed", "cut"}
           \/ Quits(s)
    BY <1>7, SessionDoes
  <2>2. CASE UNCHANGED job /\ pop'[s].pc \in {"transaction", "failed", "cut"}
    BY <2>1, <2>2 DEF JobInv, QuitInv
  <2>3. CASE Quits(s)
    <3>1. JobInv' /\ job'[s].on /\ \A v \in Workers \ {s} : job'[v] = job[v]
      BY <2>3, QuitsDoes DEF Doing
    <3>2. pop'[s].pc = "quitting"
      BY <2>3 DEF Quits
    <3> QED
      BY <2>1, <3>1, <3>2 DEF QuitInv, Workers
  <2>4. init_session(s) => UNCHANGED job
    BY DEF init_session
  <2> QED
    BY <2>1, <2>2, <2>3, <2>4
<1>8. \/ UNCHANGED <<job, pop>> \/ ImapExpunge \/ (\E s \in Sessions : Session(s))
      \/ \E w \in Workers : PassOver(w) \/ TakeOut(w) \/ RemoveFile(w) \/ Finish(w) \/ ExpungeFails(w)
  BY DEF Next, Deliver, Scan, FindNothing, FindMail, CountMail, FindFails, NoPack, Pack, Expunge, vars
<1> QED
  BY <1>2, <1>4, <1>5, <1>6, <1>7, <1>8

\* A resync.
LEMMA ResyncStep == FolderInv /\ resync \in Resyncs /\ [Next]_vars => resync' \in Resyncs
<1> SUFFICES ASSUME FolderInv, resync \in Resyncs, [Next]_vars PROVE resync' \in Resyncs
  OBVIOUS
<1>1. Ascending(Keys) \in Seq(Nat) /\ <<>> \in Seq(Nat)
  BY FolderFacts, NoList
<1>2. NoResync \in Resyncs
  BY <1>1 DEF NoResync, Resyncs
<1>3. CASE Scan
  BY <1>1, <1>3 DEF Scan, Resyncs
<1>4. CASE FindNothing
  <2>1. [op |-> "packing", scan |-> <<>>] \in Resyncs
    BY <1>1 DEF Resyncs
  <2> QED
    BY <1>2, <1>4, <2>1 DEF FindNothing
<1>5. CASE FindMail
  BY <1>5 DEF FindMail, Resyncs
<1>6. UNCHANGED resync \/ resync' = NoResync \/ Scan \/ FindNothing \/ FindMail
  <2>1. ASSUME NEW s \in Sessions, Session(s) PROVE UNCHANGED resync
    BY <2>1 DEF Session, init_session, do_rset, do_quit, Leave, do_list, do_dele
  <2> QED
    BY <2>1 DEF Next, Deliver, CountMail, FindFails, NoPack, Pack, ImapExpunge,
           Expunge, PassOver, TakeOut, RemoveFile, Finish, ExpungeFails, vars
<1> QED
  BY <1>2, <1>3, <1>4, <1>5, <1>6

\* The histories.
LEMMA PastStep ==
  FolderInv /\ MboxInv /\ JobInv /\ PopInv /\ PastInv /\ [Next]_vars
    => PastInv' /\ condemned \subseteq condemned' /\ (met => met') /\ (anew => anew')
<1> SUFFICES ASSUME FolderInv, MboxInv, JobInv, PopInv, PastInv, [Next]_vars
             PROVE  PastInv' /\ condemned \subseteq condemned' /\ (met => met') /\ (anew => anew')
  OBVIOUS
<1>1. met \in BOOLEAN /\ anew \in BOOLEAN
  BY DEF PastInv
<1>2. /\ 1..born \subseteq Mails /\ \A k \in Keys : file[k] \in 1..born
      /\ born \in Nat
  BY FolderFacts
<1>3. ASSUME NEW s \in Sessions, Quits(s)
      PROVE condemned' \subseteq Mails /\ condemned \subseteq condemned' /\ met' \in BOOLEAN /\ (met => met')
  <2>1. condemned' = condemned \cup MarkedMail(s) /\ met' = (met \/ ~ AtRest \/ Quitting # {})
    BY <1>3, QuitsDoes
  <2>2. MarkedMail(s) \subseteq Mails
    <3>1. /\ pop[s].deleted \subseteq DOMAIN pop[s].listed
          /\ Range(pop[s].listed) \subseteq 0..born
      <4>1. pop[s] \in Snapshots /\ SnapshotOK(pop[s], born)
        BY DEF PopInv
      <4>2. DOMAIN pop[s].keys = DOMAIN pop[s].listed
        <5>1. pop[s].keys \in Seq(Nat) /\ pop[s].listed \in Seq(Nat)
          BY <4>1 DEF Snapshots
        <5>2. Len(pop[s].keys) = Len(pop[s].listed)
          BY <4>1 DEF SnapshotOK, SessionOK
        <5>3. DOMAIN pop[s].keys = 1..Len(pop[s].keys) /\ DOMAIN pop[s].listed = 1..Len(pop[s].listed)
          BY <5>1, ListOf
        <5> QED
          BY <5>2, <5>3
      <4> QED
        BY <4>1, <4>2 DEF SnapshotOK, SessionOK
    <3>2. \A n \in pop[s].deleted : pop[s].listed[n] \in 0..born
      BY <3>1 DEF Range
    <3>3. \A x \in 0..born : x # 0 => x \in 1..born
      BY <1>2
    <3> QED
      BY <1>2, <3>2, <3>3 DEF MarkedMail
  <2> QED
    BY <2>1, <2>2 DEF PastInv
<1>4. CASE ImapExpunge
  <2>1. PICK ks : /\ condemned' = condemned \cup {file[k] : k \in ks \cap Keys}
                  /\ met' = (met \/ Quitting # {})
    BY <1>4, ImapDoes
  <2>2. UNCHANGED anew
    BY <1>4 DEF ImapExpunge
  <2> QED
    BY <1>2, <2>1, <2>2 DEF PastInv
<1>5. ASSUME NEW s \in Sessions, Session(s)
      PROVE  PastInv' /\ condemned \subseteq condemned' /\ (met => met') /\ (anew => anew')
  <2>1. UNCHANGED anew /\ (UNCHANGED <<condemned, met>> \/ Quits(s))
    <3>1. init_session(s) => UNCHANGED <<condemned, met>>
      BY DEF init_session
    <3> QED
      BY <1>5, <3>1, SessionDoes
  <2> QED
    BY <1>3, <2>1 DEF PastInv
<1>6. CASE FindMail
  BY <1>1, <1>6 DEF FindMail, PastInv
<1>7. CASE Scan \/ Pack
  BY <1>1, <1>7 DEF Scan, Pack, Meets, PastInv
<1>8. CASE UNCHANGED <<condemned, met, anew>>
  BY <1>8 DEF PastInv
<1>9. \/ UNCHANGED <<condemned, met, anew>> \/ ImapExpunge \/ FindMail \/ Scan \/ Pack
      \/ \E s \in Sessions : Session(s)
  BY DEF Next, Deliver, FindNothing, CountMail, FindFails, NoPack,
         Expunge, PassOver, TakeOut, RemoveFile, Finish, ExpungeFails, vars
<1> QED
  BY <1>4, <1>5, <1>6, <1>7, <1>8, <1>9

\* The event loop is with an expunge(), or with none.
LEMMA RunningStep == running \subseteq Workers /\ [Next]_vars => running' \subseteq Workers
<1> SUFFICES ASSUME running \subseteq Workers, [Next]_vars PROVE running' \subseteq Workers
  OBVIOUS
<1>1. ASSUME NEW w \in Workers, running' = {w} PROVE running' \subseteq Workers
  BY <1>1
<1>2. ASSUME NEW w \in Workers, Expunge(w) PROVE running' \subseteq Workers
  BY <1>1, <1>2 DEF Expunge, PassOver, TakeOut, RemoveFile, Finish, ExpungeFails, Ends
<1>3. CASE ImapExpunge
  BY <1>1, <1>3 DEF ImapExpunge, Start, Workers
<1>4. ASSUME NEW s \in Sessions, Session(s) PROVE running' \subseteq Workers
  <2>1. CASE do_quit(s)
    <3>1. running' = {s} \/ UNCHANGED running
      BY <2>1 DEF do_quit, Start
    <3> QED
      BY <3>1 DEF Workers
  <2> QED
    BY <1>4, <2>1 DEF Session, init_session, do_rset, Leave, do_list, do_dele
<1>5. \/ UNCHANGED running \/ ImapExpunge \/ (\E w \in Workers : Expunge(w))
      \/ \E s \in Sessions : Session(s)
  BY DEF Next, Deliver, Scan, FindNothing, FindMail, CountMail, FindFails, NoPack, Pack, vars
<1> QED
  BY <1>2, <1>3, <1>4, <1>5

LEMMA TypeStep == TypeInv /\ [Next]_vars => TypeInv'
BY FolderStep, MboxStep, WorkStep, ResyncStep, PastStep, RunningStep DEF TypeInv

-----------------------------------------------------------------------------
(* In the beginning *)

\* The lists that the folder has to begin with.
LEMMA InitLists ==
  ASSUME Init
  PROVE  /\ FolderInv /\ Keys = InitialKeys /\ born = Cardinality(InitialKeys) /\ born \in Nat
         /\ mbox.keys = Ascending(InitialKeys) /\ mbox.uids = [n \in 1..born |-> n]
         /\ mbox.num = born /\ mbox.nextUid = born + 1 /\ Tabled(mbox) /\ mbox \in Mailboxes
         /\ Range(file) = 1..born
<1>1. /\ InitialKeys \subseteq Nat /\ InitialKeys \subseteq Nat \ {0} /\ IsFiniteSet(InitialKeys)
      /\ MaxMail \in Nat /\ Cardinality(InitialKeys) <= MaxMail
  BY Pop3Assumption
<1>2. PICK K, N : K = InitialKeys /\ N = Cardinality(K)
  OBVIOUS
<1>3. N \in Nat /\ N <= MaxMail /\ \A k \in K : Rank(K, k) \in 1..N
  BY <1>1, <1>2, RankOf
<1>4. file = [k \in K |-> Rank(K, k)] /\ born = N
  BY <1>2 DEF Init
<1>5. PICK f : f = file
  OBVIOUS
<1>6. /\ DOMAIN f = K /\ \A k \in DOMAIN f : f[k] = Rank(K, k)
  BY <1>4, <1>5
<1>7. \A k, l \in DOMAIN f : f[k] = f[l] => k = l
  BY <1>1, <1>2, <1>6, RankOf
<1>8. Files(f, N)
  <2>1. DOMAIN f \subseteq Nat \ {0} /\ IsFiniteSet(DOMAIN f) /\ \A k \in DOMAIN f : f[k] \in 1..N
    BY <1>1, <1>2, <1>3, <1>6
  <2> QED
    BY <1>7, <2>1, FilesAre
<1>9. FolderInv /\ Keys = K
  BY <1>1, <1>2, <1>3, <1>4, <1>5, <1>6, <1>8 DEF FolderInv, Keys
<1>10. PICK ks, us : ks = Ascending(K) /\ us = [n \in 1..N |-> n]
  OBVIOUS
<1>11. ks \in Seq(Nat) /\ us \in Seq(Nat)
  <2>1. ks \in Seq(Nat)
    BY <1>1, <1>2, <1>10, AscendingLists
  <2>2. us \in [1..N -> Nat]
    BY <1>10
  <2> QED
    BY <1>3, <2>1, <2>2
<1>12. mbox = [keys |-> ks, uids |-> us, keyIdx |-> Index(ks), uidIdx |-> Index(us),
               num |-> N, nextUid |-> N + 1]
  BY <1>2, <1>4, <1>10 DEF Init
<1>13. PICK kt, ut, x : kt = Index(ks) /\ ut = Index(us) /\ x = mbox
  OBVIOUS
<1>14. kt \in Tables /\ ut \in Tables /\ N \in Int /\ N + 1 \in Nat \ {0}
  BY <1>3, <1>11, <1>13, IndexLeads DEF Tables
<1>15. /\ x \in Mailboxes /\ x.keys = ks /\ x.uids = us /\ x.num = N /\ x.nextUid = N + 1
       /\ x.keyIdx = kt /\ x.uidIdx = ut
  BY <1>11, <1>12, <1>13, <1>14 DEF Mailboxes
<1>16. Tabled(x)
  BY <1>13, <1>15 DEF Tabled
<1>17. Range(f) = 1..N
  <2>1. ASSUME NEW n, n \in 1..N PROVE \E k \in DOMAIN f : f[k] = n
    <3>1. \E k \in K : Rank(K, k) = n
      BY <1>1, <1>2, <2>1, RankIsOnto
    <3> QED
      BY <1>6, <3>1
  <2> QED
    BY <1>3, <1>6, <2>1 DEF Range
<1> QED
  BY <1>2, <1>3, <1>4, <1>5, <1>9, <1>10, <1>13, <1>15, <1>16, <1>17

\* They have the UIDs from 1 on.
LEMMA FirstUids ==
  ASSUME NEW N, N \in Nat, NEW us, us = [n \in 1..N |-> n]
  PROVE  /\ us \in Seq(Nat) /\ Len(us) = N /\ DOMAIN us = 1..N
         /\ Rising(us) /\ Range(us) = 1..N
<1>1. us \in Seq(Nat) /\ Len(us) = N /\ DOMAIN us = 1..N
  OBVIOUS
<1>2. Rising(us)
  BY DEF Rising
<1>3. Range(us) = 1..N
  BY DEF Range
<1> QED
  BY <1>1, <1>2, <1>3

LEMMA NewSessionTyped ==
  ASSUME NEW b, b \in Nat
  PROVE  NewSession \in Snapshots /\ SnapshotOK(NewSession, b)
<1>1. PICK none : none = <<>>
  OBVIOUS
<1>2. none \in Seq(Nat) /\ DOMAIN none = {} /\ Range(none) = {} /\ Rising(none)
  BY <1>1, EmptyList
<1>3. none \in UNION {[K -> 0..MaxMail] : K \in SUBSET Nat}
  BY <1>1, NoTable
<1>4. NewSession = [pc |-> "new", keys |-> none, uids |-> none, deleted |-> {}, sizes |-> none,
                    listed |-> none]
  BY <1>1 DEF NewSession
<1>5. NewSession \in Snapshots
  BY <1>2, <1>3, <1>4 DEF Snapshots
<1> QED
  BY <1>2, <1>4, <1>5 DEF SnapshotOK, SessionOK

LEMMA TypeInit == Init => TypeInv
<1> SUFFICES ASSUME Init PROVE TypeInv
  OBVIOUS
<1>1. /\ FolderInv /\ born \in Nat /\ mbox \in Mailboxes
      /\ mbox.uids = [n \in 1..born |-> n] /\ mbox.nextUid = born + 1
  BY InitLists
<1>2. MboxInv
  <2>1. Rising(mbox.uids) /\ Range(mbox.uids) = 1..born /\ mbox.nextUid - 1 = born
    BY <1>1, FirstUids
  <2> QED
    BY <1>1, <2>1 DEF MboxInv, UidsOK
<1>3. resync \in Resyncs
  BY NoList DEF Init, NoResync, Resyncs
<1>4. JobInv
  BY NoJobTyped DEF Init, JobInv
<1>5. PopInv
  BY <1>1, NewSessionTyped DEF Init, PopInv
<1>6. QuitInv
  <2>1. \A s \in Sessions : s \in Workers
    BY DEF Workers
  <2> QED
    BY <2>1, NoJobTyped DEF Init, QuitInv, NewSession
<1>7. PastInv /\ running \subseteq Workers
  BY DEF Init, PastInv
<1> QED
  BY <1>1, <1>2, <1>3, <1>4, <1>5, <1>6, <1>7 DEF TypeInv

LEMMA TypeImplies == TypeInv => Pop3TypeOK
<1> SUFFICES ASSUME TypeInv PROVE Pop3TypeOK
  OBVIOUS
<1>1. /\ Keys \subseteq Nat \ {0} /\ Range(file) \subseteq 1..born /\ born \in 0..MaxMail
  BY FolderFacts DEF TypeInv, FolderInv, Files, Keys
<1>2. /\ Range(mbox.keys) \subseteq Nat /\ Range(mbox.uids) \subseteq 1..mbox.nextUid - 1
      /\ mbox.num \in Int /\ mbox.nextUid \in Nat
  BY ListsOf, ListOf DEF TypeInv, MboxInv, UidsOK
<1>3. resync.op \in {"none", "scanned", "noticed", "packing"}
  BY DEF TypeInv, Resyncs
<1>4. \A w \in Workers : job[w].on \in BOOLEAN /\ job[w].todo \subseteq Nat /\ job[w].key \in Nat
  BY DEF TypeInv, JobInv, Jobs
<1>5. \A s \in Sessions : SessionOK(pop[s])
  BY DEF TypeInv, PopInv, SnapshotOK
<1>6. condemned \subseteq Mails /\ met \in BOOLEAN /\ anew \in BOOLEAN /\ running \subseteq Workers
  BY DEF TypeInv, PastInv
<1> QED
  BY <1>1, <1>2, <1>3, <1>4, <1>5, <1>6 DEF Pop3TypeOK

LEMMA TypeAlways == Spec => []TypeInv
BY TypeInit, TypeStep, PTL DEF Spec

-----------------------------------------------------------------------------
(* Pop3TypeOK always holds: whatever the sessions, the resyncs and packs,    *)
(* the expunges and the mail do, and in whatever order they come, the lists  *)
(* keep their UIDs below next_uid, and the marks and sizes of a session are  *)
(* of messages of its snapshot (pop3_client.py).                             *)
THEOREM Pop3Typed == Spec => []Pop3TypeOK
BY TypeAlways, TypeImplies, PTL

-----------------------------------------------------------------------------
(* The folder without what is being removed *)

\* The same files.
Alike(f, g) == DOMAIN g = DOMAIN f /\ \A k \in DOMAIN f : g[k] = f[k]

LEMMA SoundAlike ==
  ASSUME NEW m, Lists3(m), NEW f, NEW g, Alike(f, g), NEW o, Sound(m, f, o)
  PROVE  Sound(m, g, o)
<1>1. \A i \in DOMAIN m.uids : m.keys[i] \in DOMAIN f
  BY SoundPositions
<1>2. \A i \in DOMAIN m.uids : m.uids[i] \in DOMAIN o => o[m.uids[i]] = f[m.keys[i]]
  BY DEF Sound
<1>3. \A i \in DOMAIN m.uids : m.uids[i] \in DOMAIN o => o[m.uids[i]] = g[m.keys[i]]
  BY <1>1, <1>2 DEF Alike
<1>4. DOMAIN g = DOMAIN f
  BY DEF Alike
<1> QED
  BY <1>3, <1>4 DEF Sound

\* Without an expunge() the whole folder stays.
LEMMA AllStay ==
  ASSUME NEW f, 0 \notin DOMAIN f, NEW j, \A w \in Workers : j[w].key = 0
  PROVE  Alike(f, Staying(f, j)) /\ Alike(Staying(f, j), f)
BY DEF Alike, Staying

\* Nothing is at work.
LEMMA Idle ==
  ASSUME TypeInv, Expunging = {}
  PROVE  /\ \A w \in Workers : job[w] = NoJob /\ job[w].key = 0
         /\ Alike(file, Staying(file, job)) /\ Alike(Staying(file, job), file)
<1>1. \A w \in Workers : job[w] = NoJob
  BY DEF TypeInv, JobInv, Expunging
<1>2. \A w \in Workers : job[w].key = 0
  BY <1>1, NoJobTyped
<1>3. 0 \notin DOMAIN file
  BY FolderFacts DEF TypeInv, Keys
<1> QED
  BY <1>1, <1>2, <1>3, AllStay

LEMMA OneAtWork ==
  ASSUME TypeInv, JobsInv, NEW w, w \in Workers, job[w].on
  PROVE  /\ \A v \in Workers \ {w} : job[v] = NoJob /\ job[v].key = 0 /\ ~ job[v].on
         /\ Orderly(job[w], mbox, file, condemned)
<1>1. \A v \in Workers \ {w} : ~ job[v].on
  BY DEF JobsInv, Expunging
<1>2. \A v \in Workers \ {w} : job[v] = NoJob
  BY <1>1 DEF TypeInv, JobInv
<1> QED
  BY <1>1, <1>2, NoJobTyped DEF JobsInv, Expunging

\* The lists are sound with respect to the whole folder if there is no expunge().
LEMMA SoundIdle ==
  ASSUME TypeInv, Alone, Expunging = {}
  PROVE  /\ \A o \in Listings(pop) : Sound(mbox, file, o)
         /\ Tabled(mbox)
<1>1. Lists3(mbox)
  BY ListsOf DEF TypeInv, MboxInv
<1>2. PICK f : f = Staying(file, job)
  OBVIOUS
<1>3. Alike(f, file) /\ \A o \in Listings(pop) : Sound(mbox, f, o)
  BY <1>2, Idle DEF Alone, ListsInv
<1> QED
  BY <1>1, <1>3, SoundAlike DEF Alone, ListsInv

\* The lists of keys are of files.
LEMMA KeysStay ==
  ASSUME TypeInv, Alone
  PROVE  /\ Range(mbox.keys) \subseteq DOMAIN Staying(file, job) /\ Range(mbox.keys) \subseteq Keys
         /\ Rising(mbox.keys) /\ mbox.keys \in Seq(Nat)
         /\ \A k \in DOMAIN Staying(file, job) : Staying(file, job)[k] = file[k] /\ k \in Keys
<1>1. <<>> \in Listings(pop)
  BY DEF Listings
<1>2. Sound(mbox, Staying(file, job), <<>>)
  BY <1>1 DEF Alone, ListsInv
<1>3. Range(mbox.keys) \subseteq DOMAIN Staying(file, job) /\ Rising(mbox.keys)
  BY <1>2 DEF Sound, Lowest
<1>4. \A k \in DOMAIN Staying(file, job) : Staying(file, job)[k] = file[k] /\ k \in Keys
  BY DEF Staying, Keys
<1> QED
  BY <1>3, <1>4, ListsOf DEF TypeInv, MboxInv

\* What a session has listed it finds by the UID.
LEMMA ListedAt ==
  ASSUME NEW p, p \in Snapshots, Rising(p.uids)
  PROVE  /\ \A i \in DOMAIN p.uids \cap DOMAIN p.listed :
              p.uids[i] \in DOMAIN Listed(p) /\ Listed(p)[p.uids[i]] = p.listed[i]
         /\ \A u \in DOMAIN Listed(p) : \E i \in DOMAIN p.uids \cap DOMAIN p.listed : u = p.uids[i]
<1>1. p.uids \in Seq(Nat)
  BY DEF Snapshots
<1>2. \A u \in DOMAIN Listed(p) : \E i \in DOMAIN p.uids \cap DOMAIN p.listed : u = p.uids[i]
  BY DEF Listed, ByUid
<1>3. ASSUME NEW i, i \in DOMAIN p.uids \cap DOMAIN p.listed
      PROVE  p.uids[i] \in DOMAIN Listed(p) /\ Listed(p)[p.uids[i]] = p.listed[i]
  <2>1. p.uids[i] \in DOMAIN Listed(p)
    BY <1>3 DEF Listed, ByUid
  <2>2. PICK c : c = CHOOSE j \in DOMAIN p.uids : p.uids[j] = p.uids[i]
    OBVIOUS
  <2>3. c \in DOMAIN p.uids /\ p.uids[c] = p.uids[i]
    BY <1>3, <2>2
  <2>4. c = i
    BY <1>1, <1>3, <2>3, RisingOnce
  <2> QED
    BY <2>1, <2>2, <2>4 DEF Listed, ByUid
<1> QED
  BY <1>2, <1>3

\* The sessions have listed the same.
LEMMA ListingsSame ==
  ASSUME NEW q, NEW r, \A s \in Sessions : SameSnapshot(q[s], r[s])
  PROVE  Listings(r) = Listings(q)
<1>1. \A s \in Sessions : Listed(r[s]) = Listed(q[s])
  BY DEF SameSnapshot, Listed
<1> QED
  BY <1>1 DEF Listings

-----------------------------------------------------------------------------
(* AloneInv, step by step *)

\* Nothing changes but the work of sessions on what they have.
LEMMA AloneSame ==
  ASSUME Alone, UNCHANGED <<file, born, mbox, resync, job, condemned>>,
         \A s \in Sessions : SameSnapshot(pop[s], pop'[s])
  PROVE  Alone'
<1>1. PICK q, r : q = pop /\ r = pop'
  OBVIOUS
<1>2. Listings(r) = Listings(q)
  BY <1>1, ListingsSame
<1>3. Staying(file', job') = Staying(file, job) /\ Expunging' = Expunging
  BY DEF Staying, Expunging
<1>4. UnmarkedStays'
  BY DEF Alone, UnmarkedStays, Gone
<1>5. ListsInv'
  BY <1>1, <1>2, <1>3 DEF Alone, ListsInv
<1>6. ResyncInv'
  BY <1>3 DEF Alone, ResyncInv, Keys
<1>7. JobsInv'
  BY <1>3 DEF Alone, JobsInv
<1> QED
  BY <1>4, <1>5, <1>6, <1>7 DEF Alone

\* A session takes its snapshot.
LEMMA AloneSnapshot ==
  ASSUME TypeInv, TypeInv', Alone, NEW s, s \in Sessions, init_session(s)
  PROVE  Alone'
<1>1. UNCHANGED <<file, born, mbox, resync, job, condemned>>
  BY DEF init_session
<1>2. PICK q, r, m : q = pop /\ r = pop' /\ m = mbox
  OBVIOUS
<1>3. /\ \A t \in Sessions \ {s} : r[t] = q[t]
      /\ r[s].keys = m.keys /\ r[s].uids = m.uids /\ DOMAIN r[s].listed = DOMAIN m.keys
      /\ \A i \in DOMAIN m.keys : r[s].listed[i] = Mail(m.keys[i])
  BY <1>2, SnapshotTaken DEF TypeInv
<1>4. PICK f : f = Staying(file, job)
  OBVIOUS
<1>5. /\ Lists3(m) /\ \A o \in Listings(q) : Sound(m, f, o)
      /\ \A k \in DOMAIN f : f[k] = file[k] /\ k \in Keys
  BY <1>2, <1>4, KeysStay, ListsOf DEF TypeInv, MboxInv, Alone, ListsInv
<1>6. Sound(m, f, <<>>)
  BY <1>5 DEF Listings
<1>7. PICK p, o : p = r[s] /\ o = Listed(p)
  OBVIOUS
<1>8. p \in Snapshots /\ Rising(p.uids)
  BY <1>2, <1>7 DEF TypeInv, PopInv, SnapshotOK
<1>9. /\ \A i \in DOMAIN p.uids \cap DOMAIN p.listed :
           p.uids[i] \in DOMAIN o /\ o[p.uids[i]] = p.listed[i]
      /\ \A u \in DOMAIN o : \E i \in DOMAIN p.uids \cap DOMAIN p.listed : u = p.uids[i]
  BY <1>7, <1>8, ListedAt
<1>10. DOMAIN o \subseteq 1..m.nextUid - 1
  <2>1. DOMAIN o \subseteq Range(m.uids)
    BY <1>3, <1>7, <1>9 DEF Range
  <2> QED
    BY <1>6, <2>1 DEF Sound
<1>11. \A i \in DOMAIN m.uids : o[m.uids[i]] = f[m.keys[i]]
  <2> SUFFICES ASSUME NEW i, i \in DOMAIN m.uids PROVE o[m.uids[i]] = f[m.keys[i]]
    OBVIOUS
  <2>1. i \in DOMAIN m.keys /\ m.keys[i] \in DOMAIN f
    BY <1>5, <1>6, SoundPositions
  <2>2. o[m.uids[i]] = Mail(m.keys[i])
    BY <1>3, <1>7, <1>9, <2>1
  <2> QED
    BY <1>5, <2>1, <2>2 DEF Mail
<1>12. Sound(m, f, o)
  BY <1>6, <1>10, <1>11 DEF Sound
<1>13. Listings(r) \subseteq Listings(q) \cup {o}
  BY <1>3, <1>7 DEF Listings
<1>14. \A l \in Listings(r) : Sound(m, f, l)
  BY <1>5, <1>12, <1>13
<1>15. Staying(file', job') = f /\ Expunging' = Expunging
  BY <1>1, <1>4 DEF Staying, Expunging
<1>16. UnmarkedStays'
  BY <1>1 DEF Alone, UnmarkedStays, Gone
<1>17. ListsInv'
  BY <1>1, <1>2, <1>14, <1>15 DEF Alone, ListsInv
<1>18. ResyncInv'
  BY <1>1, <1>15 DEF Alone, ResyncInv, Keys
<1>19. JobsInv'
  BY <1>1, <1>15 DEF Alone, JobsInv
<1> QED
  BY <1>16, <1>17, <1>18, <1>19 DEF Alone

\* Mail comes behind all other files.
LEMMA AloneDeliver ==
  ASSUME TypeInv, TypeInv', Alone, Deliver
  PROVE  Alone'
<1>1. /\ UNCHANGED <<mbox, resync, job, pop, condemned>>
      /\ born' = born + 1 /\ file' = Added(file, born + 1)
  BY DEF Deliver
<1>2. PICK f, g, b, n : f = file /\ g = file' /\ b = born + 1 /\ n = Above(DOMAIN file)
  OBVIOUS
<1>3. born \in Nat /\ b \in Nat /\ born < b /\ Files(f, born) /\ g = Added(f, b)
  BY <1>1, <1>2, FolderFacts DEF TypeInv, FolderInv
<1>4. /\ DOMAIN g = DOMAIN f \cup {n} /\ g[n] = b
      /\ \A k \in DOMAIN f : k < n /\ g[k] = f[k]
  <2>1. PICK a : a = born
    OBVIOUS
  <2>2. a \in Nat /\ a < b /\ Files(f, a)
    BY <1>3, <2>1
  <2>3. g = Added(f, b) /\ b \in Nat
    BY <1>3
  <2>4. Grown(f, g, Above(DOMAIN f), b)
    BY <2>2, <2>3, FilesGrow
  <2> QED
    BY <1>2, <2>4 DEF Grown
<1>5. n \notin {job[w].key : w \in Workers}
  <2>1. n \in Nat \ {0} /\ n \notin DOMAIN f
    BY <1>2, <1>3, FilesOf, AboveAll
  <2> SUFFICES ASSUME NEW w \in Workers PROVE n # job[w].key
    OBVIOUS
  <2>2. CASE job[w].on
    BY <1>2, <2>1, <2>2, OneAtWork DEF Alone, Orderly
  <2>3. CASE ~ job[w].on
    BY <2>1, <2>3, NoJobTyped DEF TypeInv, JobInv
  <2> QED
    BY <2>2, <2>3
<1>6. PICK x, y : x = Staying(f, job) /\ y = Staying(g, job)
  OBVIOUS
<1>7. DOMAIN y = DOMAIN x \cup {n} /\ \A k \in DOMAIN x : k < n /\ y[k] = x[k]
  BY <1>4, <1>5, <1>6 DEF Staying
<1>8. Lists3(mbox)
  BY ListsOf DEF TypeInv, MboxInv
<1>9. \A o \in Listings(pop) : Sound(mbox, x, o)
  BY <1>2, <1>6 DEF Alone, ListsInv
<1>10. \A o \in Listings(pop) : Sound(mbox, y, o)
  BY <1>7, <1>8, <1>9, SoundGrows
<1>11. Expunging' = Expunging /\ Listings(pop') = Listings(pop) /\ Staying(file', job') = y
  BY <1>1, <1>2, <1>6 DEF Expunging
<1>12. UnmarkedStays'
  <2>1. Range(f) \cup {b} \subseteq Range(g)
    BY <1>4 DEF Range
  <2>2. \A z \in 1..b : z \in 1..born \/ z = b
    BY <1>2, <1>3
  <2>3. Gone' \subseteq Gone
    BY <1>1, <1>2, <2>1, <2>2 DEF Gone
  <2> QED
    BY <1>1, <2>3 DEF Alone, UnmarkedStays
<1>13. ListsInv'
  BY <1>1, <1>10, <1>11 DEF Alone, ListsInv
<1>14. ResyncInv'
  <2>1. Lowest(resync.scan, DOMAIN f) => Lowest(resync.scan, DOMAIN g)
    BY <1>4, LowestGrows
  <2> QED
    BY <1>1, <1>2, <1>11, <2>1 DEF Alone, ResyncInv, Keys
<1>15. JobsInv'
  <2>1. ASSUME NEW w \in Expunging PROVE Orderly(job[w], mbox, g, condemned)
    <3>1. Orderly(job[w], mbox, f, condemned)
      BY <1>2 DEF Alone, JobsInv
    <3> QED
      BY <1>4, <3>1 DEF Orderly, Placed
  <2> QED
    BY <1>1, <1>2, <1>11, <2>1 DEF Alone, JobsInv
<1> QED
  BY <1>12, <1>13, <1>14, <1>15 DEF Alone

\* Nothing is told apart but how far the resync has come.
LEMMA AloneResync ==
  ASSUME Alone, UNCHANGED <<file, born, mbox, job, pop, condemned>>,
         ResyncInv', resync'.op # "noticed" => Counted(mbox)
  PROVE  Alone'
<1>1. Staying(file', job') = Staying(file, job) /\ Expunging' = Expunging /\ Listings(pop') = Listings(pop)
  BY DEF Staying, Expunging
<1>2. UnmarkedStays'
  BY DEF Alone, UnmarkedStays, Gone
<1>3. ListsInv'
  BY <1>1 DEF Alone, ListsInv
<1>4. JobsInv'
  BY <1>1 DEF Alone, JobsInv
<1> QED
  BY <1>2, <1>3, <1>4 DEF Alone

LEMMA AloneScan ==
  ASSUME TypeInv, TypeInv', Alone, ~ met', Scan
  PROVE  Alone'
<1>1. /\ UNCHANGED <<file, born, mbox, job, pop, condemned>> /\ resync = NoResync
      /\ resync' = [op |-> "scanned", scan |-> Ascending(Keys)] /\ ~ job[Imap].on /\ Quitting = {}
  BY DEF Scan, Meets
<1>2. Expunging = {} /\ Expunging' = {}
  BY <1>1 DEF Quitting, Expunging, Workers
<1>3. PICK scan : scan = Ascending(Keys)
  OBVIOUS
<1>4. Rising(scan) /\ Range(scan) = Keys
  BY <1>3, FolderFacts, AscendingLists DEF TypeInv
<1>5. Lowest(scan, Keys) /\ Range(mbox.keys) \subseteq Range(scan)
  BY <1>4, KeysStay DEF Lowest
<1>6. resync'.op = "scanned" /\ resync'.scan = scan
  BY <1>1, <1>3
<1>7. ResyncInv'
  BY <1>1, <1>2, <1>5, <1>6 DEF ResyncInv, Keys
<1>8. Counted(mbox)
  BY <1>1 DEF Alone, ListsInv, NoResync
<1> QED
  BY <1>1, <1>7, <1>8, AloneResync

\* A resync that is through, or goes on to pack.
LEMMA AloneThrough ==
  ASSUME TypeInv, Alone, FindNothing \/ NoPack
  PROVE  Alone'
<1>1. /\ UNCHANGED <<file, born, mbox, job, pop, condemned>>
      /\ resync # NoResync /\ resync.op # "noticed"
      /\ resync' = NoResync \/ resync' = [op |-> "packing", scan |-> <<>>]
  BY DEF FindNothing, NoPack, NoResync
<1>2. resync'.op \notin {"scanned", "noticed"}
  BY <1>1 DEF NoResync
<1>3. Expunging' = {}
  BY <1>1 DEF Alone, ResyncInv, Expunging
<1>4. ResyncInv'
  BY <1>2, <1>3 DEF ResyncInv
<1>5. Counted(mbox)
  BY <1>1 DEF Alone, ListsInv
<1> QED
  BY <1>1, <1>4, <1>5, AloneResync

LEMMA AloneReads ==
  ASSUME TypeInv, Alone
  PROVE  ~ FindFails
BY KeysStay DEF FindFails, Alone, ResyncInv

LEMMA AloneCount ==
  ASSUME TypeInv, Alone, CountMail
  PROVE  Alone'
<1>1. /\ UNCHANGED <<file, born, job, pop, condemned>> /\ resync' = NoResync
      /\ mbox' = [mbox EXCEPT !.num = Len(resync.scan)]
      /\ resync # NoResync /\ resync.op = "noticed"
  BY DEF CountMail, NoResync
<1>2. mbox.keys = resync.scan /\ Len(mbox.uids) = Len(mbox.keys) /\ Expunging = {} /\ Expunging' = {}
  BY <1>1 DEF Alone, ResyncInv, Expunging
<1>3. PICK m, n, c : m = mbox /\ n = mbox' /\ c = Len(resync.scan)
  OBVIOUS
<1>4. /\ SameLists(m, n) /\ n.num = c /\ n.keyIdx = m.keyIdx /\ n.uidIdx = m.uidIdx
  <2>1. m \in Mailboxes /\ n = [m EXCEPT !.num = c]
    BY <1>1, <1>3 DEF TypeInv, MboxInv
  <2> QED
    BY <2>1 DEF Mailboxes, SameLists
<1>5. /\ Tabled(n) /\ Counted(n)
      /\ \A f, o : Sound(m, f, o) => Sound(n, f, o)
  <2>1. Tabled(m)
    BY <1>2, <1>3 DEF Alone, ListsInv
  <2>2. \A f, o : Sound(m, f, o) => Sound(n, f, o)
    BY <1>4, SoundKept
  <2> QED
    BY <1>2, <1>3, <1>4, <2>1, <2>2 DEF SameLists, Tabled, Counted
<1>6. Staying(file', job') = Staying(file, job) /\ Listings(pop') = Listings(pop)
  BY <1>1 DEF Staying
<1>7. ListsInv'
  BY <1>3, <1>5, <1>6 DEF Alone, ListsInv
<1>8. UnmarkedStays'
  BY <1>1 DEF Alone, UnmarkedStays, Gone
<1>9. ResyncInv'
  BY <1>1 DEF ResyncInv, NoResync
<1>10. JobsInv'
  BY <1>2 DEF JobsInv
<1> QED
  BY <1>7, <1>8, <1>9, <1>10 DEF Alone

\* A resync trusts the lists as they are, or takes them for those of a new mailbox.
LEMMA TrustedAlone ==
  ASSUME TypeInv, Alone, resync.op = "scanned"
  PROVE  \/ Trusted.keys = <<>> /\ Trusted.uids = <<>>
         \/ /\ Trusted.keys = mbox.keys /\ Trusted.uids = mbox.uids
            /\ Len(mbox.uids) = Len(mbox.keys)
<1>1. PICK m, t : m = mbox /\ t = Trusted
  OBVIOUS
<1>2. /\ m \in Mailboxes /\ m.uids \in Seq(Nat) /\ Len(m.uids) \in Nat /\ Len(m.keys) \in Nat
  BY <1>1, ListsOf DEF TypeInv, MboxInv
<1>3. CASE Len(resync.scan) < m.num \/ Len(m.uids) < Len(m.keys)
  <2>1. PICK none : none = <<>>
    OBVIOUS
  <2>2. t = [m EXCEPT !.keys = none, !.uids = none, !.num = 0]
    BY <1>1, <1>3, <2>1 DEF Trusted
  <2> QED
    BY <1>1, <1>2, <2>1, <2>2 DEF Mailboxes
<1>4. CASE ~ (Len(resync.scan) < m.num \/ Len(m.uids) < Len(m.keys))
  <2>1. t = [m EXCEPT !.uids = IF m.keys = <<>> THEN @ ELSE SubSeq(@, Len(@) - Len(m.keys) + 1, Len(@))]
    BY <1>1, <1>4 DEF Trusted
  <2>2. Expunging = {}
    <3>1. resync # NoResync
      BY DEF NoResync
    <3> QED
      BY <3>1 DEF Alone, ResyncInv
  <2>3. Len(m.uids) <= Len(m.keys)
    <3>1. Sound(m, file, <<>>)
      BY <1>1, <2>2, SoundIdle DEF Listings
    <3> QED
      BY <3>1 DEF Sound
  <2>4. Len(m.uids) = Len(m.keys)
    BY <1>2, <1>4, <2>3
  <2>5. SubSeq(m.uids, Len(m.uids) - Len(m.keys) + 1, Len(m.uids)) = m.uids
    <3>1. Len(m.uids) - Len(m.keys) + 1 = 1
      BY <1>2, <2>4
    <3>2. SubSeq(m.uids, 1, Len(m.uids)) = m.uids
      BY <1>2
    <3> QED
      BY <3>1, <3>2
  <2>6. t.keys = m.keys /\ t.uids = m.uids
    BY <1>2, <2>1, <2>5 DEF Mailboxes
  <2> QED
    BY <1>1, <2>4, <2>6
<1> QED
  BY <1>3, <1>4

\* New mail: the lists go on with it, or begin anew.
LEMMA AloneFind ==
  ASSUME TypeInv, TypeInv', Alone, FindMail
  PROVE  Alone'
<1>1. /\ UNCHANGED <<file, born, job, pop, condemned>>
      /\ resync.op = "scanned" /\ ~ Unchanged /\ resync # NoResync
      /\ resync' = [resync EXCEPT !.op = "noticed"]
  BY DEF FindMail, NoResync
<1>2. PICK m, n, t, f, scan : m = mbox /\ n = mbox' /\ t = Trusted /\ f = file /\ scan = resync.scan
  OBVIOUS
<1>3. /\ m \in Mailboxes /\ UidsOK(m) /\ Lists3(m) /\ scan \in Seq(Nat)
      /\ t \in Mailboxes /\ UidsOK(t) /\ t.nextUid = m.nextUid
      /\ t.keys \in Seq(Nat) /\ t.uids \in Seq(Nat) /\ t.nextUid \in Nat \ {0}
  <2>1. m \in Mailboxes /\ UidsOK(m) /\ resync \in Resyncs
    BY <1>2 DEF TypeInv, MboxInv
  <2>2. t \in Mailboxes /\ UidsOK(t) /\ t.nextUid = m.nextUid
    BY <1>2, TrustedTyped DEF TypeInv
  <2> QED
    BY <1>2, <2>1, <2>2, ListsOf DEF Resyncs
<1>4. /\ Expunging = {} /\ Expunging' = {} /\ Lowest(scan, DOMAIN f)
      /\ Range(m.keys) \subseteq Range(scan) /\ Counted(m)
      /\ \A o \in Listings(pop) : Sound(m, f, o)
  BY <1>1, <1>2, SoundIdle DEF Alone, ResyncInv, ListsInv, Expunging, Keys
<1>8. PICK x \in Mailboxes : n = Rebuilt(x) /\ Extends(t, x, scan)
  BY <1>2, FindDoes DEF TypeInv
<1>11. SameLists(x, n) /\ Tabled(n)
  BY <1>8, TablesLead
<1>12. /\ Lists3(t) /\ Len(t.uids) = Len(t.keys) /\ Range(t.keys) \subseteq Range(scan)
       /\ \A o \in Listings(pop) : Sound(t, f, o)
       /\ NewKeys(t, scan) # <<>> \/ t.uids = <<>>
  <2>1. CASE t.keys = <<>> /\ t.uids = <<>>
    <3>2. t.keys = <<>> /\ t.uids = <<>>
      BY <2>1
    <3>3. \A o \in Listings(pop) : DOMAIN o \subseteq 1..t.nextUid - 1
      BY <1>3, <1>4 DEF Sound
    <3>4. \A o \in Listings(pop) : Lists3(t) /\ Sound(t, f, o)
      BY <1>3, <3>2, <3>3, SoundNothing
    <3>5. Lists3(t)
      BY <1>3, ListsOf
    <3> QED
      BY <3>2, <3>4, <3>5, EmptyList
  <2>2. CASE t.keys = m.keys /\ t.uids = m.uids /\ Len(m.uids) = Len(m.keys)
    <3>2. Sound(m, f, <<>>)
      BY <1>4 DEF Listings
    <3>3. Len(m.uids) = Len(m.keys)
      BY <2>2
    <3>5. t.keys = m.keys /\ t.uids = m.uids
      BY <2>2
    <3>6. SameLists(m, t) /\ Lists3(t)
      BY <1>3, <3>5, ListsOf DEF SameLists
    <3>7. \A o \in Listings(pop) : Sound(t, f, o)
      BY <1>4, <3>6, SoundKept
    <3>8. ASSUME NewKeys(t, scan) = <<>> PROVE t.uids = <<>>
      <4>1. Rising(m.keys) /\ Rising(scan) /\ m.keys \in Seq(Nat)
        BY <1>3, <1>4, <3>2, ListsOf DEF Sound, Lowest
      <4>2. scan = m.keys
        BY <1>3, <1>4, <3>5, <3>8, <4>1, NothingNew DEF NewKeys
      <4>3. Len(m.uids) # m.num
        BY <1>1, <1>2, <4>2 DEF Unchanged
      <4> QED
        BY <1>4, <3>5, <4>3 DEF Counted
    <3> QED
      BY <1>4, <3>3, <3>5, <3>6, <3>7, <3>8
  <2> QED
    BY <1>1, <1>2, <2>1, <2>2, TrustedAlone
<1>13. /\ \A o \in Listings(pop) : Sound(x, f, o)
       /\ x.keys = scan /\ Len(x.uids) = Len(x.keys)
  <2>1. \A o \in Listings(pop) : Sound(x, f, o) /\ x.keys = scan /\ Len(x.uids) = Len(x.keys)
    BY <1>3, <1>4, <1>8, <1>12, SoundFinds
  <2>2. <<>> \in Listings(pop)
    BY DEF Listings
  <2> QED
    BY <2>1, <2>2
<1>14. \A o \in Listings(pop) : Sound(n, f, o)
  BY <1>11, <1>13, SoundKept
<1>15. PICK y : y = Staying(file', job')
  OBVIOUS
<1>16. Alike(f, y) /\ Lists3(n)
  <2>1. Staying(file', job') = Staying(file, job)
    BY <1>1 DEF Staying
  <2>2. Alike(f, y)
    BY <1>2, <1>4, <1>15, <2>1, Idle
  <2> QED
    BY <1>2, <2>2, ListsOf DEF TypeInv, MboxInv
<1>17. \A o \in Listings(pop) : Sound(n, y, o)
  BY <1>14, <1>16, SoundAlike
<1>18. resync'.op = "noticed" /\ resync'.scan = scan
  BY <1>1, <1>2 DEF TypeInv, Resyncs
<1>19. ListsInv'
  BY <1>1, <1>2, <1>11, <1>15, <1>17, <1>18 DEF ListsInv
<1>20. UnmarkedStays'
  BY <1>1 DEF Alone, UnmarkedStays, Gone
<1>21. ResyncInv'
  BY <1>2, <1>4, <1>11, <1>13, <1>18 DEF ResyncInv, SameLists
<1>22. JobsInv'
  BY <1>4 DEF JobsInv
<1> QED
  BY <1>19, <1>20, <1>21, <1>22 DEF Alone

\* A pack: the keys are others, in the same order.
LEMMA AlonePack ==
  ASSUME TypeInv, TypeInv', Alone, Pack
  PROVE  Alone'
<1>1. /\ UNCHANGED <<born, job, pop, condemned>> /\ resync' = NoResync
      /\ resync # NoResync /\ resync.op = "packing" /\ WorthPacking
      /\ file' = Packed(file) /\ mbox' = Rebuilt([mbox EXCEPT !.keys = Ascending(DOMAIN file')])
  BY DEF Pack, NoResync
<1>2. PICK m, n, f, g, b : m = mbox /\ n = mbox' /\ f = file /\ g = file' /\ b = born
  OBVIOUS
<1>3. /\ m \in Mailboxes /\ Lists3(m) /\ b \in Nat /\ Files(f, b) /\ g = Packed(f)
      /\ n \in Mailboxes /\ Lists3(n) /\ Files(g, b)
  <2>1. m \in Mailboxes /\ n \in Mailboxes /\ b \in Nat /\ Files(f, b) /\ g = Packed(f) /\ Files(g, b)
    BY <1>1, <1>2, FolderFacts DEF TypeInv, MboxInv, FolderInv
  <2> QED
    BY <2>1, ListsOf
<1>4. Expunging = {} /\ Expunging' = {} /\ \A o \in Listings(pop) : Sound(m, f, o)
  BY <1>1, <1>2, SoundIdle DEF Alone, ResyncInv, Expunging
<1>5. PICK ks, x : ks = Ascending(DOMAIN g) /\ x = [m EXCEPT !.keys = ks]
  OBVIOUS
<1>6. ks \in Seq(Nat)
  <2>1. DOMAIN g \subseteq Nat /\ IsFiniteSet(DOMAIN g)
    BY <1>3 DEF Files
  <2> QED
    BY <1>5, <2>1, AscendingLists
<1>7. x \in Mailboxes /\ x.keys = ks /\ x.uids = m.uids /\ x.nextUid = m.nextUid /\ x.num = m.num
  BY <1>3, <1>5, <1>6 DEF Mailboxes
<1>8. n = Rebuilt(x)
  BY <1>1, <1>2, <1>5
<1>9. SameLists(x, n) /\ Tabled(n) /\ n.num = x.num
  BY <1>7, <1>8, TablesLead
<1>10. /\ n.keys = Ascending(DOMAIN g) /\ n.uids = m.uids /\ n.nextUid = m.nextUid
  BY <1>5, <1>7, <1>9 DEF SameLists
<1>11. \A o \in Listings(pop) : Sound(n, g, o)
  BY <1>3, <1>4, <1>10, SoundPacked
<1>12. PICK y : y = Staying(file', job')
  OBVIOUS
<1>13. Alike(g, y)
  <2>1. \A w \in Workers : job[w].key = 0
    BY <1>4, Idle
  <2>2. 0 \notin DOMAIN g
    BY <1>3, FilesOf
  <2> QED
    BY <1>1, <1>2, <1>12, <2>1, <2>2, AllStay
<1>14. \A o \in Listings(pop) : Sound(n, y, o)
  BY <1>3, <1>11, <1>13, SoundAlike
<1>15. Counted(n)
  <2>1. m.keys # <<>> /\ Counted(m)
    BY <1>1, <1>2 DEF WorthPacking, Alone, ListsInv
  <2> QED
    BY <1>7, <1>9, <1>10, <2>1 DEF Counted
<1>16. ListsInv'
  BY <1>1, <1>2, <1>9, <1>12, <1>14, <1>15 DEF ListsInv
<1>17. UnmarkedStays'
  <2>1. Range(f) \subseteq Range(g)
    <3>1. \A k \in DOMAIN f : \E l \in DOMAIN g : g[l] = f[k]
      BY <1>3, FilesPacked
    <3> QED
      BY <3>1 DEF Range
  <2>2. Gone' \subseteq Gone
    BY <1>1, <1>2, <2>1 DEF Gone
  <2> QED
    BY <1>1, <2>2 DEF Alone, UnmarkedStays
<1>18. ResyncInv'
  BY <1>1 DEF ResyncInv, NoResync
<1>19. JobsInv'
  BY <1>4 DEF JobsInv
<1> QED
  BY <1>16, <1>17, <1>18, <1>19 DEF Alone

\* An expunge() begins while nothing else is at work.
LEMMA AloneBegins ==
  ASSUME TypeInv, TypeInv', Alone, Expunging = {}, resync = NoResync,
         UNCHANGED <<file, born, mbox, resync>>, \A s \in Sessions : SameSnapshot(pop[s], pop'[s]),
         NEW w, w \in Workers, \A v \in Workers \ {w} : job'[v] = job[v],
         NEW ks, ks \subseteq Range(mbox.keys), Doing(job'[w], ks, 0),
         condemned \subseteq condemned', \A k \in ks : file[k] \in condemned'
  PROVE  Alone'
<1>1. PICK q, r : q = pop /\ r = pop'
  OBVIOUS
<1>2. Listings(r) = Listings(q)
  BY <1>1, ListingsSame
<1>3. \A v \in Workers : job'[v].key = job[v].key
  BY Idle DEF Doing
<1>4. Staying(file', job') = Staying(file, job)
  BY <1>3 DEF Staying
<1>5. \A v \in Expunging' : v = w
  BY DEF Expunging
<1>6. Tabled(mbox)
  BY SoundIdle
<1>7. \A k \in ks : Placed(mbox, file, k)
  <2>1. mbox.keys \in Seq(Nat) /\ ks \subseteq Keys
    BY KeysStay
  <2>2. \A k \in Range(mbox.keys) : k \in DOMAIN mbox.keyIdx /\ mbox.keyIdx[k] \in DOMAIN mbox.keys
                                    /\ mbox.keys[mbox.keyIdx[k]] = k
    BY <1>6, <2>1, IndexLeads DEF Tabled
  <2> QED
    BY <2>1, <2>2 DEF Placed, Keys
<1>8. ks \subseteq Nat \ {0}
  BY FolderFacts, KeysStay DEF TypeInv
<1>9. UnmarkedStays'
  BY DEF Alone, UnmarkedStays, Gone
<1>10. ListsInv'
  BY <1>1, <1>2, <1>4, <1>6 DEF Alone, ListsInv
<1>11. ResyncInv'
  BY DEF ResyncInv, NoResync
<1>12. Orderly(job'[w], mbox, file, condemned')
  BY <1>6, <1>7, <1>8 DEF Orderly, Doing
<1>13. JobsInv'
  BY <1>5, <1>12 DEF JobsInv
<1> QED
  BY <1>9, <1>10, <1>11, <1>13 DEF Alone

LEMMA AloneImap ==
  ASSUME TypeInv, TypeInv', Alone, ~ met', ImapExpunge
  PROVE  Alone'
<1>1. /\ UNCHANGED <<file, born, mbox, resync, pop>> /\ resync = NoResync /\ ~ job[Imap].on
  BY DEF ImapExpunge
<1>2. PICK ks \in SUBSET (Range(mbox.keys) \cap DOMAIN mbox.keyIdx) :
        /\ Doing(job'[Imap], ks, 0) /\ \A v \in Workers \ {Imap} : job'[v] = job[v]
        /\ condemned' = condemned \cup {file[k] : k \in ks \cap Keys}
        /\ met' = (met \/ Quitting # {})
  BY ImapDoes DEF TypeInv
<1>3. Expunging = {}
  BY <1>1, <1>2 DEF Quitting, Expunging, Workers
<1>4. ks \subseteq Range(mbox.keys) /\ \A k \in ks : file[k] \in condemned'
  BY <1>2, KeysStay
<1>5. PICK w : w = Imap
  OBVIOUS
<1>6. /\ w \in Workers /\ Doing(job'[w], ks, 0) /\ \A v \in Workers \ {w} : job'[v] = job[v]
      /\ condemned \subseteq condemned' /\ \A s \in Sessions : SameSnapshot(pop[s], pop'[s])
  BY <1>1, <1>2, <1>5 DEF Workers, SameSnapshot
<1> QED
  BY <1>1, <1>3, <1>4, <1>6, AloneBegins

\* The marks of a session are of messages it has listed.
LEMMA MarksListed ==
  ASSUME NEW p, p \in Snapshots, NEW b, SnapshotOK(p, b)
  PROVE  p.deleted \subseteq DOMAIN p.listed /\ DOMAIN p.listed = DOMAIN p.keys
<1>1. p.keys \in Seq(Nat) /\ p.listed \in Seq(Nat)
  BY DEF Snapshots
<1>2. Len(p.keys) = Len(p.listed) /\ p.deleted \subseteq DOMAIN p.keys
  BY DEF SnapshotOK, SessionOK
<1>3. DOMAIN p.keys = 1..Len(p.keys) /\ DOMAIN p.listed = 1..Len(p.listed)
  BY <1>1, ListOf
<1> QED
  BY <1>2, <1>3

\* A UID that a session has marked leads to the message it has marked, while it is in the tables.
LEMMA MarksLead ==
  ASSUME TypeInv, Alone, Expunging = {}, NEW s, s \in Sessions,
         pop[s].deleted \subseteq DOMAIN pop[s].uids,
         NEW n, n \in pop[s].deleted, pop[s].uids[n] \in Range(mbox.uids)
  PROVE  /\ pop[s].uids[n] \in DOMAIN mbox.uidIdx /\ mbox.uidIdx[pop[s].uids[n]] \in DOMAIN mbox.keys
         /\ mbox.keys[mbox.uidIdx[pop[s].uids[n]]] \in Keys
         /\ file[mbox.keys[mbox.uidIdx[pop[s].uids[n]]]] = pop[s].listed[n]
<1>1. PICK p, o, u, i : p = pop[s] /\ o = Listed(p) /\ u = p.uids[n] /\ i = mbox.uidIdx[u]
  OBVIOUS
<1>2. p \in Snapshots /\ Rising(p.uids) /\ SnapshotOK(p, born)
  BY <1>1 DEF TypeInv, PopInv, SnapshotOK
<1>3. n \in DOMAIN p.uids \cap DOMAIN p.listed
  BY <1>1, <1>2, MarksListed
<1>4. u \in DOMAIN o /\ o[u] = p.listed[n]
  BY <1>1, <1>2, <1>3, ListedAt
<1>5. Sound(mbox, file, o) /\ Tabled(mbox)
  BY <1>1, SoundIdle DEF Listings
<1>6. Lists3(mbox) /\ mbox.uids \in Seq(Nat)
  BY ListsOf DEF TypeInv, MboxInv
<1>7. u \in DOMAIN mbox.uidIdx /\ i \in DOMAIN mbox.uids /\ mbox.uids[i] = u
  BY <1>1, <1>5, <1>6, IndexLeads DEF Tabled
<1>8. i \in DOMAIN mbox.keys /\ mbox.keys[i] \in Keys
  BY <1>5, <1>6, <1>7, SoundPositions DEF Keys
<1>9. o[u] = file[mbox.keys[i]]
  BY <1>4, <1>5, <1>7 DEF Sound
<1> QED
  BY <1>1, <1>4, <1>7, <1>8, <1>9

LEMMA AloneQuits ==
  ASSUME TypeInv, TypeInv', Alone, ~ met', NEW s, s \in Sessions, Session(s), Quits(s)
  PROVE  Alone'
<1> DEFINE at == {mbox.uidIdx[u] : u \in MarkedUids(s) \cap DOMAIN mbox.uidIdx}
<1>1. /\ UNCHANGED <<file, born, mbox, resync>> /\ \A r \in Sessions \ {s} : pop'[r] = pop[r]
  BY SessionDoes DEF TypeInv
<1>2. PICK ks : ks = {mbox.keys[i] : i \in at}
  OBVIOUS
<1>3. /\ Doing(job'[s], ks, 0) /\ \A v \in Workers \ {s} : job'[v] = job[v]
      /\ condemned' = condemned \cup MarkedMail(s)
      /\ met' = (met \/ ~ AtRest \/ Quitting # {})
  BY <1>2, QuitsDoes DEF TypeInv
<1>4. Expunging = {} /\ resync = NoResync
  BY <1>3 DEF AtRest
<1>5. /\ pop[s].deleted \subseteq DOMAIN pop[s].uids /\ at \subseteq DOMAIN mbox.keys
      /\ SameSnapshot(pop[s], pop'[s])
  BY DEF Quits
<1>6. ks \subseteq Range(mbox.keys)
  BY <1>2, <1>5 DEF Range
<1>7. \A k \in ks : file[k] \in MarkedMail(s)
  <2> SUFFICES ASSUME NEW k, k \in ks PROVE file[k] \in MarkedMail(s)
    OBVIOUS
  <2>1. PICK n \in pop[s].deleted : /\ pop[s].uids[n] \in DOMAIN mbox.uidIdx
                                    /\ k = mbox.keys[mbox.uidIdx[pop[s].uids[n]]]
    BY <1>2 DEF MarkedUids
  <2>2. pop[s].uids[n] \in Range(mbox.uids)
    BY <1>4, <2>1, SoundIdle, IndexLeads, ListsOf DEF TypeInv, MboxInv, Tabled
  <2>3. k \in Keys /\ file[k] = pop[s].listed[n]
    BY <1>4, <1>5, <2>1, <2>2, MarksLead
  <2>4. file[k] # 0
    BY <2>3, FolderFacts DEF TypeInv
  <2> QED
    BY <2>1, <2>3, <2>4 DEF MarkedMail
<1>8. \A r \in Sessions : SameSnapshot(pop[r], pop'[r])
  BY <1>1, <1>5 DEF SameSnapshot
<1>9. s \in Workers /\ condemned \subseteq condemned' /\ \A k \in ks : file[k] \in condemned'
  BY <1>3, <1>7 DEF Workers
<1> HIDE DEF at
<1> QED
  BY <1>1, <1>3, <1>4, <1>6, <1>8, <1>9, AloneBegins

\* A key that an expunge() is to remove is in the tables.
LEMMA AlonePasses ==
  ASSUME TypeInv, Alone, NEW w, w \in Workers
  PROVE  ~ PassOver(w)
<1> SUFFICES ASSUME PassOver(w) PROVE FALSE
  OBVIOUS
<1>1. job[w].on /\ job[w].todo # {} /\ Highest(w) \notin DOMAIN mbox.keyIdx
  BY DEF PassOver
<1>2. Orderly(job[w], mbox, file, condemned) /\ Highest(w) \in job[w].todo
  BY <1>1, OneAtWork, HighestIn DEF Alone, TypeInv
<1> QED
  BY <1>1, <1>2 DEF Orderly, Placed

\* What TakeOut does to the lists.
LEMMA TakenOut ==
  ASSUME TypeInv, Alone, NEW w, w \in Workers, TakeOut(w),
         NEW m, m = mbox, NEW n, n = mbox', NEW k, k = Highest(w), NEW p, p = mbox.keyIdx[k]
  PROVE  /\ n.keys = RemoveAt(m.keys, p) /\ n.uids = RemoveAt(m.uids, p) /\ n.nextUid = m.nextUid
         /\ n.num = m.num - 1 /\ n.keyIdx = m.keyIdx
         /\ p \in DOMAIN m.uids /\ p \in 1..Len(m.uids) /\ p \in DOMAIN m.keys /\ m.keys[p] = k
         /\ job[w].on /\ job[w].key = 0 /\ Placed(m, file, k)
         /\ k \in job[w].todo /\ file[k] \in condemned /\ \A l \in job[w].todo \ {k} : l < k
         /\ m \in Mailboxes
<1>1. m \in Mailboxes /\ Len(m.uids) \in Nat /\ DOMAIN m.uids = 1..Len(m.uids)
  BY ListsOf DEF TypeInv, MboxInv
<1>2. /\ job[w].on /\ job[w].key = 0 /\ job[w].todo # {}
      /\ k \in DOMAIN m.keyIdx /\ p <= Len(m.keys) /\ p <= Len(m.uids)
      /\ mbox' = [mbox EXCEPT !.keys = RemoveAt(@, p), !.uids = RemoveAt(@, p), !.num = @ - 1]
  BY DEF TakeOut
<1>3. k \in job[w].todo /\ \A l \in job[w].todo : l <= k /\ l \in Nat
  BY <1>2, HighestIn DEF TypeInv
<1>4. Orderly(job[w], mbox, file, condemned)
  BY <1>2, OneAtWork DEF Alone
<1>5. Placed(m, file, k) /\ file[k] \in condemned
  BY <1>3, <1>4 DEF Orderly
<1>6. p \in DOMAIN m.keys /\ m.keys[p] = k
  BY <1>5 DEF Placed
<1>7. p \in DOMAIN m.uids /\ p \in 1..Len(m.uids)
  BY <1>1, <1>2, PlaceOf
<1>8. PICK ks, us, c : ks = RemoveAt(m.keys, p) /\ us = RemoveAt(m.uids, p) /\ c = m.num - 1
  OBVIOUS
<1>9. n = [m EXCEPT !.keys = ks, !.uids = us, !.num = c]
  BY <1>2, <1>8
<1>10. n.keys = ks /\ n.uids = us /\ n.num = c /\ n.nextUid = m.nextUid /\ n.keyIdx = m.keyIdx
  BY <1>1, <1>9 DEF Mailboxes
<1>11. \A l \in job[w].todo \ {k} : l < k
  BY <1>3
<1> QED
  BY <1>1, <1>2, <1>3, <1>5, <1>6, <1>7, <1>8, <1>10, <1>11

\* The highest key first: what is still to come keeps its place.
LEMMA AloneTakes ==
  ASSUME TypeInv, TypeInv', Alone, NEW w, w \in Workers, TakeOut(w)
  PROVE  Alone'
<1>1. UNCHANGED <<file, born, resync, pop, condemned>>
  BY DEF TakeOut
<1>2. PICK m, n, k, p : m = mbox /\ n = mbox' /\ k = Highest(w) /\ p = mbox.keyIdx[k]
  OBVIOUS
<1>3. /\ n.keys = RemoveAt(m.keys, p) /\ n.uids = RemoveAt(m.uids, p) /\ n.nextUid = m.nextUid
      /\ n.num = m.num - 1 /\ n.keyIdx = m.keyIdx
      /\ p \in DOMAIN m.uids /\ p \in 1..Len(m.uids) /\ p \in DOMAIN m.keys /\ m.keys[p] = k
      /\ job[w].on /\ job[w].key = 0 /\ Placed(m, file, k)
      /\ k \in job[w].todo /\ file[k] \in condemned /\ \A l \in job[w].todo \ {k} : l < k
      /\ m \in Mailboxes
  BY <1>2, TakenOut
<1>4. PICK j : j = job'
  OBVIOUS
<1>5. Doing(j[w], job[w].todo \ {k}, k) /\ \A v \in Workers \ {w} : j[v] = job[v]
  BY <1>2, <1>4, TakeOutDoes DEF TypeInv
<1>6. \A v \in Workers \ {w} : job[v].key = 0 /\ ~ job[v].on
  BY <1>3, OneAtWork DEF Alone
<1>7. PICK f, x, y : f = file /\ x = Staying(file, job) /\ y = Staying(file', job')
  OBVIOUS
<1>8. 0 \notin DOMAIN f /\ DOMAIN f \subseteq Nat
  BY <1>7, FolderFacts DEF TypeInv, Keys
<1>9. DOMAIN x = DOMAIN f /\ \A l \in DOMAIN f : x[l] = f[l]
  BY <1>3, <1>6, <1>7, <1>8, AllStay DEF Alike
<1>10. DOMAIN y = DOMAIN f \ {k} /\ \A l \in DOMAIN f \ {k} : y[l] = f[l]
  <2>1. \A v \in Workers \ {w} : j[v].key = 0
    BY <1>5, <1>6
  <2>2. j[w].key = k
    BY <1>5 DEF Doing
  <2>3. y = Staying(f, j)
    BY <1>1, <1>4, <1>7
  <2>4. /\ DOMAIN Staying(f, j) = DOMAIN f \ {j[w].key}
        /\ \A l \in DOMAIN f \ {j[w].key} : Staying(f, j)[l] = f[l]
    BY <1>8, <2>1 DEF Staying
  <2> QED
    BY <2>2, <2>3, <2>4
<1>11. Shrinks(m, n, x, y, p)
  BY <1>3, <1>9, <1>10 DEF Shrinks
<1>12. Lists3(m) /\ DOMAIN x \subseteq Nat /\ \A o \in Listings(pop) : Sound(m, x, o)
  BY <1>2, <1>3, <1>7, <1>8, <1>9, ListsOf DEF Alone, ListsInv
<1>13. \A o \in Listings(pop) : Sound(n, y, o)
  BY <1>11, <1>12, SoundShrinks
<1>14. Len(n.uids) = Len(m.uids) - 1 /\ \A i \in DOMAIN m.uids : i < p => n.keys[i] = m.keys[i] /\ i \in DOMAIN n.uids
  <2>1. Sound(m, x, <<>>)
    BY <1>12 DEF Listings
  <2> QED
    BY <1>11, <1>12, <2>1, SoundShrinks
<1>15. Expunging' = Expunging /\ w \in Expunging
  BY <1>3, <1>4, <1>5 DEF Expunging, Doing
<1>16. resync = NoResync
  BY <1>15 DEF Alone, ResyncInv
<1>17. Counted(n)
  <2>1. Counted(m)
    BY <1>2, <1>16 DEF Alone, ListsInv, NoResync
  <2>2. m.keys # <<>>
    BY <1>3, EmptyList
  <2> QED
    BY <1>3, <1>14, <2>1, <2>2 DEF Counted
<1>18. ListsInv'
  BY <1>1, <1>2, <1>7, <1>13, <1>15, <1>17 DEF ListsInv
<1>19. UnmarkedStays'
  BY <1>1 DEF Alone, UnmarkedStays, Gone
<1>20. ResyncInv'
  BY <1>1, <1>16 DEF ResyncInv, NoResync
<1>21. Orderly(j[w], n, f, condemned)
  <2>1. j[w].key = k /\ j[w].todo = job[w].todo \ {k}
    BY <1>5 DEF Doing
  <2>2. k \in DOMAIN f /\ f[k] \in condemned
    BY <1>3, <1>7 DEF Placed
  <2>3. ASSUME NEW l, l \in job[w].todo \ {k}
        PROVE  Placed(n, f, l) /\ f[l] \in condemned /\ n.keyIdx[l] <= Len(n.uids)
    <3>1. Placed(m, f, l) /\ f[l] \in condemned
      BY <1>2, <1>3, <1>7, <2>3, OneAtWork DEF Alone, Orderly
    <3>2. PICK i : i = m.keyIdx[l]
      OBVIOUS
    <3>3. i \in DOMAIN m.keys /\ m.keys[i] = l /\ l < k
      BY <1>3, <2>3, <3>1, <3>2 DEF Placed
    <3>4. Rising(m.keys) /\ DOMAIN m.keys = 1..Len(m.keys) /\ Len(m.keys) \in Nat
      BY <1>2, <1>3, KeysStay, ListsOf
    <3>5. i < p
      <4>1. ~ (p < i) /\ p # i
        <5>1. l \in Nat /\ k \in Nat
          BY <1>2, <1>3, <2>3 DEF TypeInv, JobInv, Jobs
        <5> QED
          BY <1>3, <3>3, <3>4, <5>1 DEF Rising
      <4> QED
        BY <1>3, <3>3, <3>4, <4>1
    <3>6. i \in DOMAIN m.uids /\ i <= Len(m.uids) - 1
      <4>1. Len(m.uids) \in Nat /\ DOMAIN m.uids = 1..Len(m.uids)
        BY <1>3, ListsOf
      <4> QED
        BY <1>3, <3>3, <3>4, <3>5, <4>1
    <3>7. n.keys[i] = l /\ i \in DOMAIN n.uids /\ i <= Len(n.uids)
      BY <1>14, <3>3, <3>5, <3>6
    <3>8. i \in DOMAIN n.keys
      <4>1. <<>> \in Listings(pop) /\ Lists3(n)
        BY <1>2, ListsOf DEF Listings, TypeInv, MboxInv
      <4> QED
        BY <1>13, <3>7, <4>1, SoundPositions
    <3> QED
      BY <1>3, <3>1, <3>2, <3>7, <3>8 DEF Placed
  <2> QED
    BY <2>1, <2>2, <2>3 DEF Orderly
<1>22. JobsInv'
  <2>1. \A v \in Expunging : v = w
    BY <1>6 DEF Expunging
  <2> QED
    BY <1>1, <1>2, <1>4, <1>7, <1>15, <1>21, <2>1 DEF JobsInv
<1> QED
  BY <1>18, <1>19, <1>20, <1>22 DEF Alone

\* The folder and the lists agree on what stays when a file is removed.
LEMMA AloneRemoves ==
  ASSUME TypeInv, TypeInv', Alone, NEW w, w \in Workers, RemoveFile(w)
  PROVE  Alone'
<1>1. UNCHANGED <<born, mbox, resync, pop, condemned>> /\ job[w].key \in Keys
  BY DEF RemoveFile
<1>2. PICK f, g, k, j : f = file /\ g = file' /\ k = job[w].key /\ j = job'
  OBVIOUS
<1>3. k \in DOMAIN f /\ DOMAIN g = DOMAIN f \ {k} /\ \A l \in DOMAIN g : g[l] = f[l]
  BY <1>1, <1>2 DEF RemoveFile, Keys
<1>4. /\ job[w].on /\ k # 0 /\ Doing(j[w], job[w].todo, 0)
      /\ \A v \in Workers \ {w} : j[v] = job[v]
  BY <1>2, RemoveFileDoes DEF TypeInv
<1>5. /\ \A v \in Workers \ {w} : job[v].key = 0 /\ ~ job[v].on
      /\ Orderly(job[w], mbox, f, condemned)
  BY <1>2, <1>4, OneAtWork DEF Alone
<1>6. 0 \notin DOMAIN f /\ 0 \notin DOMAIN g
  BY <1>2, <1>3, FolderFacts DEF TypeInv, Keys
<1>7. PICK x, y : x = Staying(file, job) /\ y = Staying(file', job')
  OBVIOUS
<1>8. Alike(x, y)
  <2>1. DOMAIN x = DOMAIN f \ {k} /\ \A l \in DOMAIN f \ {k} : x[l] = f[l]
    <3>1. /\ DOMAIN Staying(f, job) = DOMAIN f \ {job[w].key}
          /\ \A l \in DOMAIN f \ {job[w].key} : Staying(f, job)[l] = f[l]
      BY <1>5, <1>6 DEF Staying
    <3> QED
      BY <1>2, <1>7, <3>1
  <2>2. DOMAIN y = DOMAIN g /\ \A l \in DOMAIN g : y[l] = g[l]
    <3>1. \A v \in Workers : j[v].key = 0
      BY <1>4, <1>5 DEF Doing
    <3> QED
      BY <1>2, <1>6, <1>7, <3>1, AllStay DEF Alike
  <2> QED
    BY <1>3, <2>1, <2>2 DEF Alike
<1>9. \A o \in Listings(pop) : Sound(mbox, y, o)
  <2>1. Lists3(mbox)
    BY ListsOf DEF TypeInv, MboxInv
  <2> QED
    BY <1>7, <1>8, <2>1, SoundAlike DEF Alone, ListsInv
<1>10. Expunging' = Expunging /\ w \in Expunging
  BY <1>2, <1>4 DEF Expunging, Doing
<1>11. resync = NoResync
  BY <1>10 DEF Alone, ResyncInv
<1>12. ListsInv'
  BY <1>1, <1>7, <1>9, <1>10 DEF Alone, ListsInv
<1>13. UnmarkedStays'
  <2> SUFFICES ASSUME NEW x0, x0 \in Gone' PROVE x0 \in condemned
    BY <1>1 DEF UnmarkedStays
  <2>1. x0 \in 1..born /\ x0 \notin Range(g)
    BY <1>1, <1>2 DEF Gone
  <2>2. CASE x0 \in Range(f)
    <3>1. PICK l \in DOMAIN f : x0 = f[l]
      BY <2>2 DEF Range
    <3>2. l = k
      BY <1>3, <2>1, <3>1 DEF Range
    <3> QED
      BY <1>2, <1>4, <1>5, <3>1, <3>2 DEF Orderly
  <2>3. CASE x0 \notin Range(f)
    BY <1>2, <2>1, <2>3 DEF Alone, UnmarkedStays, Gone
  <2> QED
    BY <2>2, <2>3
<1>14. ResyncInv'
  BY <1>1, <1>11 DEF ResyncInv, NoResync
<1>15. Orderly(j[w], mbox, g, condemned)
  <2>1. \A l \in job[w].todo : l \in DOMAIN g /\ g[l] = f[l] /\ mbox.keyIdx[l] <= Len(mbox.uids)
    BY <1>2, <1>3, <1>4, <1>5 DEF Orderly, Placed
  <2> QED
    BY <1>4, <1>5, <1>6, <2>1 DEF Orderly, Placed, Doing
<1>16. JobsInv'
  <2>1. \A v \in Expunging : v = w
    BY <1>5 DEF Expunging
  <2> QED
    BY <1>1, <1>2, <1>10, <1>15, <2>1 DEF JobsInv
<1> QED
  BY <1>12, <1>13, <1>14, <1>16 DEF Alone

\* An expunge() ends with the tables in order.
LEMMA AloneEnds ==
  ASSUME TypeInv, TypeInv', Alone, NEW w, w \in Workers, job[w].on, job[w].key = 0,
         NEW pc, pc \in {"ok", "failed"}, Ends(w, pc), UNCHANGED <<file, born, resync, condemned>>,
         SameLists(mbox, mbox'), mbox'.num = mbox.num, Tabled(mbox')
  PROVE  Alone'
<1>1. PICK q, r, j, m, n : q = pop /\ r = pop' /\ j = job' /\ m = mbox /\ n = mbox'
  OBVIOUS
<1>2. /\ j[w] = NoJob /\ \A v \in Workers \ {w} : j[v] = job[v]
      /\ \A s \in Sessions : SameSnapshot(q[s], r[s])
  <2>1. born \in Nat
    BY FolderFacts DEF TypeInv
  <2> QED
    BY <1>1, <2>1, EndsDoes DEF TypeInv, SameSnapshot
<1>3. Listings(r) = Listings(q)
  BY <1>2, ListingsSame
<1>4. \A v \in Workers \ {w} : job[v].key = 0 /\ ~ job[v].on
  BY OneAtWork DEF Alone
<1>5. Expunging' = {} /\ \A v \in Workers : j[v].key = job[v].key
  BY <1>1, <1>2, <1>4, NoJobTyped DEF Expunging
<1>6. Staying(file', job') = Staying(file, job)
  BY <1>1, <1>5 DEF Staying
<1>7. resync = NoResync
  BY DEF Alone, ResyncInv, Expunging
<1>8. \A f, o : Sound(m, f, o) => Sound(n, f, o)
  BY <1>1, SoundKept
<1>9. Counted(m) => Counted(n)
  BY <1>1 DEF Counted, SameLists
<1>10. ListsInv'
  BY <1>1, <1>3, <1>6, <1>8, <1>9 DEF Alone, ListsInv
<1>11. UnmarkedStays'
  BY DEF Alone, UnmarkedStays, Gone
<1>12. ResyncInv'
  BY <1>7 DEF ResyncInv, NoResync
<1>13. JobsInv'
  BY <1>5 DEF JobsInv
<1> QED
  BY <1>10, <1>11, <1>12, <1>13 DEF Alone

LEMMA AloneFinish ==
  ASSUME TypeInv, TypeInv', Alone, NEW w, w \in Workers, Finish(w)
  PROVE  Alone'
<1>1. PICK pc : pc = "ok"
  OBVIOUS
<1>2. /\ job[w].on /\ job[w].key = 0 /\ UNCHANGED <<file, born, resync, condemned>>
      /\ mbox' = Rebuilt(mbox) /\ pc \in {"ok", "failed"} /\ Ends(w, pc)
  BY <1>1 DEF Finish
<1>3. SameLists(mbox, mbox') /\ mbox'.num = mbox.num /\ Tabled(mbox')
  BY <1>2, TablesLead DEF TypeInv, MboxInv
<1> QED
  BY <1>2, <1>3, AloneEnds

\* An expunge() fails only over a message without a UID, and before it has done anything.
LEMMA AloneFails ==
  ASSUME TypeInv, TypeInv', Alone, NEW w, w \in Workers, ExpungeFails(w)
  PROVE  Alone'
<1>1. PICK pc : pc = "failed"
  OBVIOUS
<1>2. /\ job[w].on /\ UNCHANGED <<file, born, mbox, resync, condemned>>
      /\ pc \in {"ok", "failed"} /\ Ends(w, pc)
  BY <1>1 DEF ExpungeFails
<1>3. Orderly(job[w], mbox, file, condemned)
  BY <1>2, OneAtWork DEF Alone
<1>4. ~ (job[w].key # 0 /\ job[w].key \notin Keys)
  BY <1>3 DEF Orderly, Keys
<1>5. /\ job[w].key = 0 /\ job[w].todo # {}
      /\ mbox.keyIdx[Highest(w)] > Len(mbox.keys) \/ mbox.keyIdx[Highest(w)] > Len(mbox.uids)
  BY <1>4 DEF ExpungeFails
<1>6. PICK k : k = Highest(w) /\ k \in job[w].todo
  BY <1>5, HighestIn DEF TypeInv
<1>7. Placed(mbox, file, k)
  BY <1>3, <1>6 DEF Orderly
<1>8. /\ Len(mbox.keys) \in Nat /\ DOMAIN mbox.keys = 1..Len(mbox.keys) /\ Len(mbox.uids) \in Nat
  BY ListsOf DEF TypeInv, MboxInv
<1>9. mbox.keyIdx[k] \in 1..Len(mbox.keys)
  BY <1>7, <1>8 DEF Placed
<1>10. mbox.keyIdx[k] > Len(mbox.uids)
  BY <1>5, <1>6, <1>8, <1>9
<1>11. ~ (mbox.keyIdx[k] <= Len(mbox.uids))
  BY <1>8, <1>9, <1>10
<1>12. Tabled(mbox)
  BY <1>3, <1>6, <1>11 DEF Orderly
<1>13. SameLists(mbox, mbox') /\ mbox'.num = mbox.num /\ Tabled(mbox')
  BY <1>2, <1>12 DEF SameLists
<1> QED
  BY <1>2, <1>5, <1>13, AloneEnds

LEMMA AloneInit == Init => AloneInv
<1> SUFFICES ASSUME Init PROVE Alone
  BY DEF AloneInv
<1>1. /\ Keys = InitialKeys /\ born = Cardinality(InitialKeys) /\ born \in Nat
      /\ mbox.keys = Ascending(InitialKeys) /\ mbox.uids = [n \in 1..born |-> n]
      /\ mbox.num = born /\ mbox.nextUid = born + 1 /\ Tabled(mbox) /\ mbox \in Mailboxes
      /\ Range(file) = 1..born
  BY InitLists
<1>2. TypeInv /\ Lists3(mbox)
  BY <1>1, TypeInit, ListsOf
<1>3. /\ InitialKeys \subseteq Nat /\ IsFiniteSet(InitialKeys)
  BY Pop3Assumption
<1>4. /\ Rising(mbox.keys) /\ Range(mbox.keys) = Keys /\ Len(mbox.keys) = born
  BY <1>1, <1>3, AscendingLists
<1>5. /\ Len(mbox.uids) = born /\ Rising(mbox.uids) /\ Range(mbox.uids) = 1..born
  BY <1>1, FirstUids
<1>6. Expunging = {} /\ resync = NoResync
  BY NoJobTyped DEF Init, Expunging
<1>7. \A s \in Sessions : Listed(pop[s]) = <<>>
  <2>1. PICK none : none = <<>>
    OBVIOUS
  <2>2. none \in Seq(Nat) /\ DOMAIN none = {} /\ none = [i \in {} |-> 0]
    BY <2>1, EmptyList
  <2>3. \A s \in Sessions : Listed(pop[s]) = ByUid(none, none)
    BY <2>1 DEF Init, NewSession, Listed
  <2>4. {none[i] : i \in DOMAIN none \cap DOMAIN none} = {}
    BY <2>2
  <2>5. ByUid(none, none) = [i \in {} |-> 0]
    BY <2>4 DEF ByUid
  <2> QED
    BY <2>1, <2>2, <2>3, <2>5
<1>8. Listings(pop) = {<<>>}
  BY <1>7 DEF Listings
<1>9. Sound(mbox, file, <<>>)
  <2>1. Lowest(mbox.keys, DOMAIN file)
    BY <1>4 DEF Lowest, Keys
  <2>2. DOMAIN <<>> = {}
    BY EmptyList
  <2>3. mbox.nextUid - 1 = born /\ 1 <= mbox.nextUid /\ born <= born
    BY <1>1
  <2> QED
    BY <1>4, <1>5, <2>1, <2>2, <2>3 DEF Sound
<1>10. Sound(mbox, Staying(file, job), <<>>)
  <2>1. PICK f : f = Staying(file, job)
    OBVIOUS
  <2>2. Alike(file, f)
    BY <1>2, <1>6, <2>1, Idle
  <2>3. Sound(mbox, f, <<>>)
    <3>1. PICK o : o = <<>>
      OBVIOUS
    <3>2. Sound(mbox, f, o)
      BY <1>2, <1>9, <2>2, <3>1, SoundAlike
    <3> QED
      BY <3>1, <3>2
  <2> QED
    BY <2>1, <2>3
<1>11. ListsInv
  BY <1>1, <1>5, <1>8, <1>10 DEF ListsInv, Counted
<1>12. ResyncInv /\ JobsInv
  BY <1>6 DEF ResyncInv, JobsInv, NoResync
<1>13. UnmarkedStays
  BY <1>1 DEF UnmarkedStays, Gone
<1> QED
  BY <1>11, <1>12, <1>13 DEF Alone

LEMMA AloneStep == TypeInv /\ TypeInv' /\ AloneInv /\ [Next]_vars => AloneInv'
<1> SUFFICES ASSUME TypeInv, TypeInv', AloneInv, [Next]_vars, ~ met' PROVE Alone'
  BY DEF AloneInv
<1>1. Alone
  BY PastStep DEF AloneInv, TypeInv
<1>2. CASE Deliver
  BY <1>1, <1>2, AloneDeliver
<1>3. CASE Scan
  BY <1>1, <1>3, AloneScan
<1>4. CASE FindNothing \/ NoPack
  BY <1>1, <1>4, AloneThrough
<1>5. CASE FindMail
  BY <1>1, <1>5, AloneFind
<1>6. CASE CountMail
  BY <1>1, <1>6, AloneCount
<1>7. CASE FindFails
  BY <1>1, <1>7, AloneReads
<1>8. CASE Pack
  BY <1>1, <1>8, AlonePack
<1>9. CASE ImapExpunge
  BY <1>1, <1>9, AloneImap
<1>10. ASSUME NEW w \in Workers, Expunge(w) PROVE Alone'
  <2>1. \/ PassOver(w) \/ TakeOut(w) \/ RemoveFile(w) \/ Finish(w) \/ ExpungeFails(w)
    BY <1>10 DEF Expunge
  <2> QED
    BY <1>1, <2>1, AlonePasses, AloneTakes, AloneRemoves, AloneFinish, AloneFails
<1>11. ASSUME NEW s \in Sessions, Session(s) PROVE Alone'
  <2>1. /\ \A r \in Sessions \ {s} : pop'[r] = pop[r]
        /\ UNCHANGED <<file, born, mbox, resync>>
        /\ \/ init_session(s)
           \/ UNCHANGED <<job, condemned>> /\ SameSnapshot(pop[s], pop'[s])
           \/ Quits(s)
    BY <1>11, SessionDoes DEF TypeInv
  <2>2. CASE init_session(s)
    BY <1>1, <2>2, AloneSnapshot
  <2>3. CASE UNCHANGED <<job, condemned>> /\ SameSnapshot(pop[s], pop'[s])
    <3>1. \A r \in Sessions : SameSnapshot(pop[r], pop'[r])
      BY <2>1, <2>3 DEF SameSnapshot
    <3> QED
      BY <1>1, <2>1, <2>3, <3>1, AloneSame
  <2>4. CASE Quits(s)
    BY <1>1, <1>11, <2>4, AloneQuits
  <2> QED
    BY <2>1, <2>2, <2>3, <2>4
<1>12. CASE UNCHANGED vars
  <2>1. UNCHANGED <<file, born, mbox, resync, job, condemned>> /\ UNCHANGED pop
    BY <1>12 DEF vars
  <2>2. \A r \in Sessions : SameSnapshot(pop[r], pop'[r])
    BY <2>1 DEF SameSnapshot
  <2> QED
    BY <1>1, <2>1, <2>2, AloneSame
<1> QED
  BY <1>2, <1>3, <1>4, <1>5, <1>6, <1>7, <1>8, <1>9, <1>10, <1>11, <1>12 DEF Next

LEMMA AloneAlways == Spec => [](TypeInv /\ AloneInv)
BY TypeInit, TypeStep, AloneInit, AloneStep, PTL DEF Spec

-----------------------------------------------------------------------------
(* As long as no QUIT has had a resync, a pack or another expunge() beside   *)
(* it, a message leaves the folder only if a QUIT or an EXPUNGE was to       *)
(* remove it, however old the snapshot is by whose UIDs it goes              *)
(* (pop3_client.py, do_quit; mbox.py, expunge).                              *)
THEOREM UnmarkedStaysAloneHolds == Spec => []UnmarkedStaysAlone
<1>1. TypeInv /\ AloneInv => UnmarkedStaysAlone
  BY DEF AloneInv, Alone, UnmarkedStaysAlone
<1> QED
  BY <1>1, AloneAlways, PTL

(* And when nothing is at work the mailbox lists no message that is not in   *)
(* the folder: what expunge() takes out of the lists, by positions in tables *)
(* that it does not keep up to date, is what it removes (mbox.py, expunge).  *)
THEOREM NoPhantomHolds == Spec => []NoPhantom
<1>1. TypeInv /\ AloneInv => NoPhantom
  BY KeysStay DEF AloneInv, NoPhantom
<1> QED
  BY <1>1, AloneAlways, PTL

-----------------------------------------------------------------------------
(* PromiseInv, step by step *)

\* The session has become q, but nothing it counts on has changed.
LEMMA KeptOn ==
  ASSUME NEW p, p \in Snapshots, NEW b, SnapshotOK(p, b), NEW q, SameSnapshot(p, q),
         (q.deleted = p.deleted /\ q.pc = p.pc) \/ q.pc \notin {"quitting", "ok"},
         NEW i, NEW j, i.todo \cup {i.key} \subseteq j.todo \cup {j.key},
         NEW S, NEW T, S \subseteq T,
         NEW m, NEW n, Range(m.uids) \subseteq Range(n.uids),
         NEW f, NEW g, \A k \in DOMAIN f : k \in DOMAIN g /\ g[k] = f[k],
         \A x \in 0..b : Lost(x, f) => Lost(x, g),
         Kept(p, i, S, m, f)
  PROVE  Kept(q, j, T, n, g)
<1>1. \A l \in DOMAIN p.listed : p.listed[l] \in 0..b
  BY DEF SnapshotOK, Range
<1>2. p.deleted \subseteq DOMAIN p.listed
  BY MarksListed
<1>3. \A x, U, V : U \subseteq V /\ Leaving(x, f, U) => Leaving(x, g, V)
  BY DEF Leaving
<1>4. \A l \in DOMAIN q.uids \cap DOMAIN q.listed :
        Lost(q.listed[l], g) \/ q.uids[l] \in Range(n.uids) \/ Leaving(q.listed[l], g, T)
  BY <1>1, <1>3 DEF Kept, SameSnapshot
<1>5. q.pc = "quitting" => \A l \in q.deleted :
        Lost(q.listed[l], g) \/ Leaving(q.listed[l], g, j.todo \cup {j.key})
  BY <1>1, <1>2, <1>3 DEF Kept, SameSnapshot
<1>6. q.pc = "ok" => \A l \in q.deleted : Lost(q.listed[l], g)
  BY <1>1, <1>2 DEF Kept, SameSnapshot
<1> QED
  BY <1>4, <1>5, <1>6 DEF Kept

\* A session has its snapshot from the same lists, and no expunge().
LEMMA SessionTyped ==
  ASSUME TypeInv, NEW s, s \in Sessions
  PROVE  /\ pop[s] \in Snapshots /\ SnapshotOK(pop[s], born) /\ s \in Workers
         /\ job[s] \in Jobs
BY DEF TypeInv, PopInv, JobInv, Workers

\* The UIDs stay, and the folder, and what is removed from it.
LEMMA PromiseSame ==
  ASSUME TypeInv, Promised, UNCHANGED file, Range(mbox.uids) \subseteq Range(mbox'.uids),
         \A w \in Workers : job'[w].key = job[w].key,
         \A s \in Sessions : /\ SameSnapshot(pop[s], pop'[s])
                             /\ \/ pop'[s].pc \notin {"quitting", "ok"}
                                \/ /\ pop'[s].deleted = pop[s].deleted /\ pop'[s].pc = pop[s].pc
                                   /\ job'[s] = job[s]
  PROVE  Promised'
<1>1. Removing(job') = Removing(job)
  BY DEF Removing
<1> SUFFICES ASSUME NEW s \in Sessions
             PROVE  Kept(pop'[s], job'[s], Removing(job'), mbox', file')
  BY DEF Promised
<1>2. PICK p, q, i, j, m, n, f, S, b :
        /\ p = pop[s] /\ q = pop'[s] /\ i = job[s] /\ j = job'[s] /\ m = mbox /\ n = mbox'
        /\ f = file /\ S = Removing(job) /\ b = born
  OBVIOUS
<1>3. p \in Snapshots /\ SnapshotOK(p, b) /\ SameSnapshot(p, q) /\ Kept(p, i, S, m, f)
  BY <1>2, SessionTyped DEF Promised
<1>4. CASE q.pc \notin {"quitting", "ok"}
  <2>1. \A l \in DOMAIN q.uids \cap DOMAIN q.listed :
          Lost(q.listed[l], f) \/ q.uids[l] \in Range(n.uids) \/ Leaving(q.listed[l], f, S)
    BY <1>2, <1>3 DEF Kept, SameSnapshot
  <2>2. Kept(q, j, S, n, f)
    BY <1>4, <2>1 DEF Kept
  <2> QED
    BY <1>1, <1>2, <2>2
<1>5. CASE q.deleted = p.deleted /\ q.pc = p.pc /\ j = i
  <2>1. Kept(q, j, S, n, f)
    BY <1>2, <1>3, <1>5, KeptOn
  <2> QED
    BY <1>1, <1>2, <2>1
<1> QED
  BY <1>2, <1>4, <1>5

LEMMA PromiseDeliver ==
  ASSUME TypeInv, Promised, Deliver
  PROVE  Promised'
<1> SUFFICES ASSUME NEW s \in Sessions
             PROVE  Kept(pop'[s], job'[s], Removing(job'), mbox', file')
  BY DEF Promised
<1>1. UNCHANGED <<pop, job, mbox>> /\ file' = Added(file, born + 1)
  BY DEF Deliver
<1>2. PICK p, i, m, f, g, S, b, c :
        /\ p = pop[s] /\ i = job[s] /\ m = mbox
        /\ f = file /\ g = file' /\ S = Removing(job) /\ b = born /\ c = born + 1
  OBVIOUS
<1>3. p \in Snapshots /\ SnapshotOK(p, b) /\ Kept(p, i, S, m, f)
  BY <1>2, SessionTyped DEF Promised
<1>4. b \in Nat /\ c \in Nat /\ b < c /\ Files(f, b) /\ g = Added(f, c)
  BY <1>1, <1>2, FolderFacts DEF TypeInv, FolderInv
<1>5. /\ DOMAIN g = DOMAIN f \cup {Above(DOMAIN f)} /\ g[Above(DOMAIN f)] = c
      /\ \A k \in DOMAIN f : k < Above(DOMAIN f) /\ g[k] = f[k]
  <2>1. Grown(f, g, Above(DOMAIN f), c)
    BY <1>4, FilesGrow
  <2> QED
    BY <2>1 DEF Grown
<1>6. ASSUME NEW x \in 0..b, Lost(x, f) PROVE Lost(x, g)
  <2>1. x # c
    BY <1>4
  <2> QED
    BY <1>5, <1>6, <2>1 DEF Lost, Range
<1>7. Kept(p, i, S, m, g)
  BY <1>3, <1>5, <1>6, KeptOn DEF SameSnapshot
<1> QED
  BY <1>1, <1>2, <1>7

\* A pack gives every message a key.
LEMMA PromisePack ==
  ASSUME TypeInv, TypeInv', Alone, Promised, Pack
  PROVE  Promised'
<1> SUFFICES ASSUME NEW s \in Sessions
             PROVE  Kept(pop'[s], job'[s], Removing(job'), mbox', file')
  BY DEF Promised
<1>1. /\ UNCHANGED <<pop, job, born>> /\ file' = Packed(file) /\ resync # NoResync
      /\ mbox' = Rebuilt([mbox EXCEPT !.keys = Ascending(DOMAIN file')])
  BY DEF Pack, NoResync
<1>2. PICK p, i, m, n, f, g, S, b :
        /\ p = pop[s] /\ i = job[s] /\ m = mbox /\ n = mbox'
        /\ f = file /\ g = file' /\ S = Removing(job) /\ b = born
  OBVIOUS
<1>3. p \in Snapshots /\ SnapshotOK(p, b) /\ Kept(p, i, S, m, f)
  BY <1>2, SessionTyped DEF Promised
<1>4. b \in Nat /\ Files(f, b) /\ g = Packed(f) /\ 0 \notin DOMAIN f
  BY <1>1, <1>2, FolderFacts DEF TypeInv, FolderInv, Keys
<1>5. Expunging = {}
  BY <1>1 DEF Alone, ResyncInv
<1>6. p.pc # "quitting" /\ S \subseteq {0}
  <2>1. \A w \in Workers : job[w].key = 0 /\ job[w] = NoJob
    BY <1>5, Idle
  <2>2. ~ job[s].on
    BY <2>1, SessionTyped, NoJobTyped
  <2> QED
    BY <1>2, <2>1, <2>2 DEF Removing, TypeInv, QuitInv
<1>7. \A x : ~ Leaving(x, f, S)
  BY <1>4, <1>6 DEF Leaving
<1>8. \A x : Lost(x, f) => Lost(x, g)
  <2>1. ASSUME NEW x, x \in Range(g) PROVE x \in Range(f)
    <3>1. PICK l \in DOMAIN g : x = g[l]
      BY <2>1, Found
    <3>2. PICK k \in DOMAIN f : l = Rank(DOMAIN f, k)
      BY <1>4, FilesPacked
    <3>3. g[l] = f[k]
      BY <1>4, <3>2, FilesPacked
    <3> QED
      BY <3>1, <3>2, <3>3 DEF Range
  <2> QED
    BY <2>1 DEF Lost
<1>9. n.uids = m.uids
  <2>1. PICK ks, x : ks = Ascending(DOMAIN g) /\ x = [m EXCEPT !.keys = ks]
    OBVIOUS
  <2>2. ks \in Seq(Nat)
    <3>1. DOMAIN g \subseteq Nat /\ IsFiniteSet(DOMAIN g)
      BY <1>4, FilesPacked, FilesOf
    <3> QED
      BY <2>1, <3>1, AscendingLists
  <2>3. x \in Mailboxes /\ x.uids = m.uids
    BY <1>2, <2>1, <2>2 DEF TypeInv, MboxInv, Mailboxes
  <2>4. n = Rebuilt(x)
    BY <1>1, <1>2, <2>1
  <2> QED
    BY <2>3, <2>4, TablesLead DEF SameLists
<1>10. Kept(p, i, S, n, g)
  BY <1>3, <1>6, <1>7, <1>8, <1>9 DEF Kept
<1> QED
  BY <1>1, <1>2, <1>10

LEMMA PromiseFind ==
  ASSUME TypeInv, TypeInv', Alone, Promised, ~ anew', FindMail
  PROVE  Promised'
<1>1. /\ UNCHANGED <<file, job, pop>> /\ resync.op = "scanned"
      /\ ~ (mbox.uids # <<>> /\ Trusted.uids = <<>>)
  BY DEF FindMail
<1>2. PICK x \in Mailboxes : mbox' = Rebuilt(x) /\ Range(Trusted.uids) \subseteq Range(x.uids)
  BY FindDoes DEF TypeInv
<1>3. Trusted.uids = mbox.uids
  BY <1>1, TrustedAlone
<1>4. mbox'.uids = x.uids
  BY <1>2, TablesLead DEF SameLists
<1>5. Range(mbox.uids) \subseteq Range(mbox'.uids)
  BY <1>2, <1>3, <1>4
<1>6. /\ \A w \in Workers : job'[w].key = job[w].key
      /\ \A s \in Sessions : /\ SameSnapshot(pop[s], pop'[s])
                             /\ pop'[s].deleted = pop[s].deleted /\ pop'[s].pc = pop[s].pc
                             /\ job'[s] = job[s]
  BY <1>1 DEF SameSnapshot
<1> QED
  BY <1>1, <1>5, <1>6, PromiseSame

\* A session takes its snapshot: it counts on nothing but the lists.
LEMMA PromiseSnapshot ==
  ASSUME TypeInv, Promised, NEW s, s \in Sessions, init_session(s)
  PROVE  Promised'
<1>1. UNCHANGED <<file, mbox, job>> /\ Removing(job') = Removing(job)
  BY DEF init_session, Removing
<1>2. /\ \A r \in Sessions \ {s} : pop'[r] = pop[r]
      /\ pop'[s].uids = mbox.uids /\ pop'[s].pc = "transaction"
  BY SnapshotTaken DEF TypeInv
<1>3. Kept(pop'[s], job[s], Removing(job), mbox, file)
  <2>1. \A n \in DOMAIN pop'[s].uids : pop'[s].uids[n] \in Range(mbox.uids)
    BY <1>2 DEF Range
  <2> QED
    BY <1>2, <2>1 DEF Kept
<1> QED
  BY <1>1, <1>2, <1>3 DEF Promised

\* QUIT finds what the session has marked by the UIDs, unless it is gone.
LEMMA PromiseQuits ==
  ASSUME TypeInv, TypeInv', Alone, Promised, ~ met', NEW s, s \in Sessions, Session(s), Quits(s)
  PROVE  Promised'
<1> DEFINE at == {mbox.uidIdx[u] : u \in MarkedUids(s) \cap DOMAIN mbox.uidIdx}
<1>1. /\ UNCHANGED <<file, mbox>> /\ \A r \in Sessions \ {s} : pop'[r] = pop[r]
  BY SessionDoes DEF TypeInv
<1>2. PICK ks : ks = {mbox.keys[i] : i \in at}
  OBVIOUS
<1>3. /\ Doing(job'[s], ks, 0) /\ \A v \in Workers \ {s} : job'[v] = job[v]
      /\ met' = (met \/ ~ AtRest \/ Quitting # {})
  BY <1>2, QuitsDoes DEF TypeInv
<1>4. Expunging = {}
  BY <1>3 DEF AtRest
<1>5. /\ pop[s].deleted \subseteq DOMAIN pop[s].uids
      /\ SameSnapshot(pop[s], pop'[s]) /\ pop'[s].deleted = pop[s].deleted /\ pop'[s].pc = "quitting"
  BY DEF Quits
<1>6. \A w \in Workers : job[w].key = 0 /\ job'[w].key = 0
  BY <1>3, <1>4, Idle DEF Doing
<1>7. Removing(job') = Removing(job) /\ Removing(job) \subseteq {0}
  BY <1>6 DEF Removing
<1>8. PICK p, q, j, S, f, m : /\ p = pop[s] /\ q = pop'[s] /\ j = job'[s] /\ S = Removing(job)
                              /\ f = file /\ m = mbox
  OBVIOUS
<1>9. Kept(p, job[s], S, m, f) /\ p.deleted \subseteq DOMAIN p.uids \cap DOMAIN p.listed
  BY <1>5, <1>8, SessionTyped, MarksListed DEF Promised
<1>10. \A x : ~ Leaving(x, f, S)
  <2>1. 0 \notin DOMAIN f
    BY <1>8, FolderFacts DEF TypeInv, Keys
  <2> QED
    BY <1>7, <1>8, <2>1 DEF Leaving
<1>11. ASSUME NEW n \in p.deleted, p.uids[n] \in Range(m.uids)
       PROVE  Leaving(p.listed[n], f, ks)
  <2>1. PICK u, i : u = p.uids[n] /\ i = m.uidIdx[u]
    OBVIOUS
  <2>2. /\ u \in DOMAIN m.uidIdx /\ m.keys[i] \in DOMAIN f /\ f[m.keys[i]] = p.listed[n]
    BY <1>4, <1>5, <1>8, <1>11, <2>1, MarksLead DEF Keys
  <2>3. m.keys[i] \in ks
    BY <1>2, <1>8, <2>1, <2>2 DEF MarkedUids
  <2> QED
    BY <2>2, <2>3 DEF Leaving
<1>12. \A n \in p.deleted : Lost(p.listed[n], f) \/ Leaving(p.listed[n], f, ks)
  BY <1>9, <1>10, <1>11 DEF Kept
<1>13. Kept(q, j, S, m, f)
  <2>1. \A n \in q.deleted : Lost(q.listed[n], f) \/ Leaving(q.listed[n], f, j.todo \cup {j.key})
    BY <1>3, <1>5, <1>8, <1>12 DEF Leaving, Doing, SameSnapshot
  <2>2. \A n \in DOMAIN q.uids \cap DOMAIN q.listed :
          Lost(q.listed[n], f) \/ q.uids[n] \in Range(m.uids) \/ Leaving(q.listed[n], f, S)
    BY <1>5, <1>8, <1>9 DEF Kept, SameSnapshot
  <2>3. q.pc = "quitting"
    BY <1>5, <1>8
  <2> QED
    BY <2>1, <2>2, <2>3 DEF Kept
<1>14. \A r \in Sessions \ {s} : job'[r] = job[r]
  BY <1>3 DEF Workers
<1> QED
  BY <1>1, <1>7, <1>8, <1>13, <1>14 DEF Promised

\* What is taken out of the lists is leaving.
LEMMA PromiseTakes ==
  ASSUME TypeInv, TypeInv', Alone, Promised, NEW w, w \in Workers, TakeOut(w)
  PROVE  Promised'
<1> SUFFICES ASSUME NEW s \in Sessions
             PROVE  Kept(pop'[s], job'[s], Removing(job'), mbox', file')
  BY DEF Promised
<1>1. UNCHANGED <<file, pop>>
  BY DEF TakeOut
<1>2. PICK m, n, k, pos : m = mbox /\ n = mbox' /\ k = Highest(w) /\ pos = mbox.keyIdx[k]
  OBVIOUS
<1>3. /\ n.uids = RemoveAt(m.uids, pos) /\ pos \in DOMAIN m.uids /\ pos \in 1..Len(m.uids)
      /\ m.keys[pos] = k
      /\ job[w].on /\ job[w].key = 0 /\ Placed(m, file, k) /\ m \in Mailboxes
  BY <1>2, TakenOut
<1>4. Doing(job'[w], job[w].todo \ {k}, k) /\ \A v \in Workers \ {w} : job'[v] = job[v]
  BY <1>2, TakeOutDoes DEF TypeInv
<1>5. \A v \in Workers \ {w} : job[v].key = 0
  BY <1>3, OneAtWork DEF Alone
<1>6. PICK p, i, j, S, T, f : /\ p = pop[s] /\ i = job[s] /\ j = job'[s]
                              /\ S = Removing(job) /\ T = Removing(job') /\ f = file
  OBVIOUS
<1>7. /\ p \in Snapshots /\ SnapshotOK(p, born) /\ Rising(p.uids) /\ Kept(p, i, S, m, f)
  BY <1>2, <1>6, SessionTyped DEF Promised, SnapshotOK
<1>8. S \subseteq {0} /\ k \in T /\ k \in DOMAIN f /\ 0 \notin DOMAIN f
  <2>1. S \subseteq {0}
    BY <1>3, <1>5, <1>6 DEF Removing
  <2>2. k \in T
    BY <1>4, <1>6 DEF Removing, Doing
  <2> QED
    BY <1>3, <1>6, <2>1, <2>2, FolderFacts DEF TypeInv, Keys, Placed
<1>9. \A l \in DOMAIN p.uids \cap DOMAIN p.listed :
        Lost(p.listed[l], f) \/ p.uids[l] \in Range(n.uids) \/ Leaving(p.listed[l], f, T)
  <2> SUFFICES ASSUME NEW l \in DOMAIN p.uids \cap DOMAIN p.listed, ~ Lost(p.listed[l], f)
               PROVE  p.uids[l] \in Range(n.uids) \/ Leaving(p.listed[l], f, T)
    OBVIOUS
  <2>1. ~ Leaving(p.listed[l], f, S)
    BY <1>8 DEF Leaving
  <2>2. p.uids[l] \in Range(m.uids)
    BY <1>7, <2>1 DEF Kept
  <2>3. Range(n.uids) = Range(m.uids) \ {m.uids[pos]}
    <3>1. m.uids \in Seq(Nat) /\ Rising(m.uids)
      BY <1>2, ListsOf DEF TypeInv, MboxInv, UidsOK
    <3> QED
      BY <1>3, <3>1, RemovedRising
  <2>4. CASE p.uids[l] = m.uids[pos]
    <3>1. PICK o, y : o = Listed(p) /\ y = Staying(file, job)
      OBVIOUS
    <3>2. p.uids[l] \in DOMAIN o /\ o[p.uids[l]] = p.listed[l]
      BY <1>7, <3>1, ListedAt
    <3>3. Sound(m, y, o)
      BY <1>2, <1>6, <3>1 DEF Alone, ListsInv, Listings
    <3>4. p.listed[l] = y[k]
      BY <1>3, <2>4, <3>2, <3>3 DEF Sound
    <3>5. y[k] = f[k]
      <4>1. \A v \in Workers : job[v].key = 0
        BY <1>3, <1>5
      <4>2. Alike(f, y)
        BY <1>6, <1>8, <3>1, <4>1, AllStay
      <4> QED
        BY <1>8, <4>2 DEF Alike
    <3> QED
      BY <1>8, <3>4, <3>5 DEF Leaving
  <2>5. CASE p.uids[l] # m.uids[pos]
    BY <2>2, <2>3, <2>5
  <2> QED
    BY <2>4, <2>5
<1>10. i.todo \cup {i.key} \subseteq j.todo \cup {j.key} \cup {0}
  BY <1>3, <1>4, <1>6, SessionTyped DEF Doing
<1>11. \A x : Leaving(x, f, i.todo \cup {i.key}) => Leaving(x, f, j.todo \cup {j.key})
  BY <1>8, <1>10 DEF Leaving
<1>12. Kept(p, j, T, n, f)
  BY <1>7, <1>9, <1>11 DEF Kept
<1> QED
  BY <1>1, <1>2, <1>6, <1>12

\* The file is gone, and with it the message.
LEMMA PromiseRemoves ==
  ASSUME TypeInv, Alone, Promised, NEW w, w \in Workers, RemoveFile(w)
  PROVE  Promised'
<1> SUFFICES ASSUME NEW s \in Sessions
             PROVE  Kept(pop'[s], job'[s], Removing(job'), mbox', file')
  BY DEF Promised
<1>1. UNCHANGED <<pop, mbox>> /\ job[w].key \in Keys
  BY DEF RemoveFile
<1>2. PICK p, i, j, m, f, g, k, S, T :
        /\ p = pop[s] /\ i = job[s] /\ j = job'[s] /\ m = mbox /\ f = file /\ g = file'
        /\ k = job[w].key /\ S = Removing(job) /\ T = Removing(job')
  OBVIOUS
<1>3. k \in DOMAIN f /\ DOMAIN g = DOMAIN f \ {k} /\ \A l \in DOMAIN g : g[l] = f[l]
  BY <1>1, <1>2 DEF RemoveFile, Keys
<1>4. /\ 0 \notin DOMAIN f /\ \A l \in DOMAIN f : f[l] = f[k] => l = k
  BY <1>2, <1>3, FolderFacts DEF TypeInv, Keys
<1>5. /\ job[w].on /\ k # 0 /\ Doing(job'[w], job[w].todo, 0)
      /\ \A v \in Workers \ {w} : job'[v] = job[v]
  BY <1>2, RemoveFileDoes DEF TypeInv
<1>6. \A v \in Workers \ {w} : job[v].key = 0
  BY <1>5, OneAtWork DEF Alone
<1>7. Kept(p, i, S, m, f) /\ s \in Workers
  BY <1>2, SessionTyped DEF Promised
<1>8. \A x : Lost(x, f) => Lost(x, g)
  BY <1>3 DEF Lost, Range
<1>9. \A x : f[k] = x => Lost(x, g)
  BY <1>3, <1>4 DEF Lost, Range
<1>10. S \subseteq {0, k}
  BY <1>2, <1>6 DEF Removing
<1>11. \A x : Leaving(x, f, S) => Lost(x, g)
  BY <1>4, <1>9, <1>10 DEF Leaving
<1>12. i.todo \cup {i.key} \subseteq j.todo \cup {j.key} \cup {k}
  BY <1>2, <1>5, <1>7 DEF Doing
<1>13. ASSUME NEW x, Leaving(x, f, i.todo \cup {i.key})
       PROVE  Lost(x, g) \/ Leaving(x, g, j.todo \cup {j.key})
  <2>1. PICK l \in (i.todo \cup {i.key}) \cap DOMAIN f : f[l] = x
    BY <1>13 DEF Leaving
  <2>2. CASE l = k
    BY <1>9, <2>1, <2>2
  <2>3. CASE l # k
    BY <1>3, <1>12, <2>1, <2>3 DEF Leaving
  <2> QED
    BY <2>2, <2>3
<1>14. Kept(p, j, T, m, g)
  BY <1>7, <1>8, <1>11, <1>13 DEF Kept
<1> QED
  BY <1>1, <1>2, <1>14

\* +OK: there is nothing left to remove.
LEMMA PromiseFinish ==
  ASSUME TypeInv, Alone, Promised, NEW w, w \in Workers, Finish(w)
  PROVE  Promised'
<1> SUFFICES ASSUME NEW s \in Sessions
             PROVE  Kept(pop'[s], job'[s], Removing(job'), mbox', file')
  BY DEF Promised
<1>1. PICK pc : pc = "ok"
  OBVIOUS
<1>2. /\ job[w].on /\ job[w].key = 0 /\ job[w].todo = {} /\ UNCHANGED <<file, born>>
      /\ mbox' = Rebuilt(mbox) /\ Ends(w, pc) /\ pc \in {"ok", "failed"}
  BY <1>1 DEF Finish
<1>3. mbox'.uids = mbox.uids
  BY <1>2, TablesLead DEF TypeInv, MboxInv, SameLists
<1>4. /\ job'[w] = NoJob /\ \A v \in Workers \ {w} : job'[v] = job[v]
      /\ SameSnapshot(pop[s], pop'[s]) /\ pop'[s].deleted = pop[s].deleted
      /\ pop'[s].pc = IF s = w THEN pc ELSE pop[s].pc
  <2>1. born \in Nat
    BY FolderFacts DEF TypeInv
  <2> QED
    BY <1>2, <2>1, EndsDoes DEF TypeInv, SameSnapshot
<1>5. \A v \in Workers : job'[v].key = job[v].key
  BY <1>2, <1>4, NoJobTyped
<1>6. Removing(job') = Removing(job)
  BY <1>5 DEF Removing
<1>7. PICK p, q, i, j, m, n, f, S :
        /\ p = pop[s] /\ q = pop'[s] /\ i = job[s] /\ j = job'[s] /\ m = mbox /\ n = mbox'
        /\ f = file /\ S = Removing(job)
  OBVIOUS
<1>8. Kept(p, i, S, m, f) /\ s \in Workers
  BY <1>7, SessionTyped DEF Promised
<1>9. \A l \in DOMAIN q.uids \cap DOMAIN q.listed :
        Lost(q.listed[l], f) \/ q.uids[l] \in Range(n.uids) \/ Leaving(q.listed[l], f, S)
  BY <1>3, <1>4, <1>7, <1>8 DEF Kept, SameSnapshot
<1>10. CASE s = w
  <2>1. p.pc = "quitting" /\ i.todo \cup {i.key} = {0}
    BY <1>2, <1>7, <1>10 DEF TypeInv, QuitInv
  <2>2. 0 \notin DOMAIN f
    BY <1>7, FolderFacts DEF TypeInv, Keys
  <2>3. \A l \in p.deleted : Lost(p.listed[l], f)
    BY <1>8, <2>1, <2>2 DEF Kept, Leaving
  <2>4. q.pc = "ok"
    BY <1>1, <1>4, <1>7, <1>10
  <2>5. Kept(q, j, S, n, f)
    BY <1>4, <1>7, <1>9, <2>3, <2>4 DEF Kept, SameSnapshot
  <2> QED
    BY <1>2, <1>6, <1>7, <2>5
<1>11. CASE s # w
  <2>1. q.pc = p.pc /\ j = i /\ q.deleted = p.deleted /\ q.listed = p.listed
    BY <1>4, <1>7, <1>8, <1>11 DEF SameSnapshot
  <2>2. Kept(q, j, S, n, f)
    BY <1>8, <1>9, <2>1 DEF Kept
  <2> QED
    BY <1>2, <1>6, <1>7, <2>2
<1> QED
  BY <1>10, <1>11

LEMMA PromiseFails ==
  ASSUME TypeInv, Alone, Promised, NEW w, w \in Workers, ExpungeFails(w)
  PROVE  Promised'
<1>1. PICK pc : pc = "failed"
  OBVIOUS
<1>2. /\ job[w].on /\ UNCHANGED <<file, born, mbox>>
      /\ pc \in {"ok", "failed"} /\ Ends(w, pc)
  BY <1>1 DEF ExpungeFails
<1>3. Orderly(job[w], mbox, file, condemned)
  BY <1>2, OneAtWork DEF Alone
<1>4. job[w].key = 0
  BY <1>3 DEF Orderly, Keys, ExpungeFails
<1>5. /\ job'[w] = NoJob /\ \A v \in Workers \ {w} : job'[v] = job[v]
      /\ \A s \in Sessions : /\ SameSnapshot(pop[s], pop'[s]) /\ pop'[s].deleted = pop[s].deleted
                             /\ pop'[s].pc = IF s = w THEN pc ELSE pop[s].pc
  <2>1. born \in Nat
    BY FolderFacts DEF TypeInv
  <2> QED
    BY <1>2, <2>1, EndsDoes DEF TypeInv, SameSnapshot
<1>6. \A v \in Workers : job'[v].key = job[v].key
  BY <1>4, <1>5, NoJobTyped
<1>7. \A s \in Sessions : /\ SameSnapshot(pop[s], pop'[s])
                          /\ \/ pop'[s].pc \notin {"quitting", "ok"}
                             \/ /\ pop'[s].deleted = pop[s].deleted /\ pop'[s].pc = pop[s].pc
                                /\ job'[s] = job[s]
  BY <1>1, <1>5 DEF Workers
<1> QED
  BY <1>2, <1>6, <1>7, PromiseSame

\* The rest leaves the folder and the UIDs alone.
LEMMA PromiseCount ==
  ASSUME TypeInv, Promised, Scan \/ FindNothing \/ CountMail \/ NoPack
  PROVE  Promised'
<1>1. UNCHANGED <<file, job, pop>> /\ (UNCHANGED mbox \/ mbox' = [mbox EXCEPT !.num = Len(resync.scan)])
  BY DEF Scan, FindNothing, CountMail, NoPack
<1>2. mbox'.uids = mbox.uids
  <2>1. PICK c : c = Len(resync.scan)
    OBVIOUS
  <2>2. [mbox EXCEPT !.num = c].uids = mbox.uids
    BY DEF TypeInv, MboxInv, Mailboxes
  <2> QED
    BY <1>1, <2>1, <2>2
<1> QED
  BY <1>1, <1>2, PromiseSame DEF SameSnapshot

LEMMA PromiseImap ==
  ASSUME TypeInv, Alone, Promised, ImapExpunge
  PROVE  Promised'
<1>1. UNCHANGED <<file, mbox, pop>> /\ ~ job[Imap].on
  BY DEF ImapExpunge
<1>2. job'[Imap].key = 0 /\ \A v \in Workers \ {Imap} : job'[v] = job[v]
  BY ImapDoes DEF TypeInv, Doing
<1>3. job[Imap].key = 0
  BY <1>1, NoJobTyped DEF TypeInv, JobInv, Workers
<1>4. \A s \in Sessions : s \in Workers \ {Imap}
  BY Pop3Assumption DEF Workers
<1>5. \A v \in Workers : job'[v].key = job[v].key
  BY <1>2, <1>3
<1>6. \A s \in Sessions : job'[s] = job[s] /\ SameSnapshot(pop[s], pop'[s])
  BY <1>1, <1>2, <1>4 DEF SameSnapshot
<1> QED
  BY <1>1, <1>5, <1>6, PromiseSame

LEMMA PromiseInit == Init => PromiseInv
<1> SUFFICES ASSUME Init, NEW s \in Sessions
             PROVE  Kept(pop[s], job[s], Removing(job), mbox, file)
  BY DEF PromiseInv, Promised
<1>1. pop[s].pc = "new" /\ pop[s].uids = <<>>
  BY DEF Init, NewSession
<1>2. DOMAIN pop[s].uids = {}
  BY <1>1, EmptyList
<1> QED
  BY <1>1, <1>2 DEF Kept

LEMMA PromiseStep ==
  TypeInv /\ TypeInv' /\ AloneInv /\ PromiseInv /\ [Next]_vars => PromiseInv'
<1> SUFFICES ASSUME TypeInv, TypeInv', AloneInv, PromiseInv, [Next]_vars, ~ met', ~ anew'
             PROVE  Promised'
  BY DEF PromiseInv
<1>1. Alone /\ Promised
  BY PastStep DEF AloneInv, PromiseInv, TypeInv
<1>2. CASE Deliver
  BY <1>1, <1>2, PromiseDeliver
<1>3. CASE Scan \/ FindNothing \/ CountMail \/ NoPack
  BY <1>1, <1>3, PromiseCount
<1>4. CASE FindMail
  BY <1>1, <1>4, PromiseFind
<1>5. CASE FindFails
  BY <1>1, <1>5, AloneReads
<1>6. CASE Pack
  BY <1>1, <1>6, PromisePack
<1>7. CASE ImapExpunge
  BY <1>1, <1>7, PromiseImap
<1>8. ASSUME NEW w \in Workers, Expunge(w) PROVE Promised'
  <2>1. \/ PassOver(w) \/ TakeOut(w) \/ RemoveFile(w) \/ Finish(w) \/ ExpungeFails(w)
    BY <1>8 DEF Expunge
  <2> QED
    BY <1>1, <2>1, AlonePasses, PromiseTakes, PromiseRemoves, PromiseFinish, PromiseFails
<1>9. ASSUME NEW s \in Sessions, Session(s) PROVE Promised'
  <2>1. /\ \A r \in Sessions \ {s} : pop'[r] = pop[r]
        /\ UNCHANGED <<file, mbox>>
        /\ \/ init_session(s)
           \/ /\ UNCHANGED job /\ SameSnapshot(pop[s], pop'[s])
              /\ pop'[s].pc \in {"transaction", "failed", "cut"}
           \/ Quits(s)
    BY <1>9, SessionDoes DEF TypeInv
  <2>2. CASE init_session(s)
    BY <1>1, <2>2, PromiseSnapshot
  <2>3. CASE UNCHANGED job /\ SameSnapshot(pop[s], pop'[s]) /\ pop'[s].pc \in {"transaction", "failed", "cut"}
    <3>1. \A r \in Sessions : /\ SameSnapshot(pop[r], pop'[r])
                              /\ \/ pop'[r].pc \notin {"quitting", "ok"}
                                 \/ /\ pop'[r].deleted = pop[r].deleted /\ pop'[r].pc = pop[r].pc
                                    /\ job'[r] = job[r]
      BY <2>1, <2>3 DEF SameSnapshot
    <3> QED
      BY <1>1, <2>1, <2>3, <3>1, PromiseSame
  <2>4. CASE Quits(s)
    BY <1>1, <1>9, <2>4, PromiseQuits
  <2> QED
    BY <2>1, <2>2, <2>3, <2>4
<1>10. CASE UNCHANGED vars
  BY <1>1, <1>10, PromiseSame DEF vars, SameSnapshot
<1> QED
  BY <1>2, <1>3, <1>4, <1>5, <1>6, <1>7, <1>8, <1>9, <1>10 DEF Next

LEMMA PromiseAlways == Spec => []Pop3Inv
<1>1. Init => Pop3Inv
  BY TypeInit, AloneInit, PromiseInit DEF Pop3Inv
<1>2. Pop3Inv /\ [Next]_vars => Pop3Inv'
  BY TypeStep, AloneStep, PromiseStep DEF Pop3Inv
<1> QED
  BY <1>1, <1>2, PTL DEF Spec

-----------------------------------------------------------------------------
(* After an answer of +OK to QUIT what the session had marked is gone, as    *)
(* long as nothing ran beside a QUIT and no resync took the mailbox for a    *)
(* new one: the UIDs of the snapshot still lead to the messages it listed,   *)
(* or those are gone, whatever was packed, expunged or delivered since       *)
(* (pop3_client.py, do_quit; mbox.py, expunge).                              *)
THEOREM OkMeansGoneHolds == Spec => []OkMeansGone
<1>1. Pop3Inv => OkMeansGone
  <2> SUFFICES ASSUME Pop3Inv, NEW s \in Sessions, pop[s].pc = "ok", ~ met, ~ anew,
                      NEW n \in pop[s].deleted
               PROVE  pop[s].listed[n] \notin Range(file)
    BY DEF OkMeansGone, MarkedMail
  <2>1. Kept(pop[s], job[s], Removing(job), mbox, file)
    BY DEF Pop3Inv, PromiseInv, Promised
  <2> QED
    BY <2>1 DEF Kept, Lost
<1> QED
  BY <1>1, PromiseAlways, PTL

=============================================================================
