------------------------- MODULE MailboxStoreProofs -------------------------
(***************************************************************************)
(* Theorems about MailboxStore: its variables have their types, a UID      *)
(* means the same message for ever, a flag that a STORE has reported       *)
(* stays, and a resync brings the lists up to date.                        *)
(*                                                                         *)
(* They follow from one inductive invariant, StoreInv, in three layers.    *)
(* TypeInv holds always, ListInv as long as nothing was torn, and FlagInv  *)
(* as long as nothing was lost.                                            *)
(*                                                                         *)
(* ListInv: the lists of the Mailbox and those of its row are `Sound'.     *)
(* Their keys are the lowest keys of the folder, in order; their UIDs are  *)
(* in order, below next_uid, as is every UID that was ever committed; and  *)
(* a UID that was committed before leads to the message it led to then.    *)
(* The number of messages on record is the number of UIDs, or nothing is   *)
(* listed at all (`Counted'): that is what keeps a resync without new      *)
(* mail from setting next_uid back.                                        *)
(*                                                                         *)
(* FlagInv: a flag that was reported is right in .mh_sequences, in the     *)
(* row, and with the Mailbox or in what a resync has read, because each of *)
(* the three may be what the Mailbox is next made of.  It speaks of the    *)
(* keys of files only and so does not need the lists: that is why an       *)
(* EXPUNGE that was cut short, which spoils the lists, does no harm to it. *)
(***************************************************************************)
EXTENDS MailboxStore, MHFolderProofs

-----------------------------------------------------------------------------
(* The inductive invariant *)

\* The sequences s have the message with the key k as a flag a says.
Right(k, a, s) == k \in s[a.seq] <=> a.in

\* The files are different messages that have been born.
FolderInv ==
  /\ Keys \subseteq Nat \ {0} /\ IsFiniteSet(Keys)
  /\ Range(file) \subseteq 1..born /\ born \in 0..MaxMail
  /\ IsInjective(file)

Mailboxes ==
  [keys : Seq(Nat), uids : Seq(Nat), nextUid : Nat, seqs : [Seqs -> SUBSET Nat],
   mtime : Nat, num : Int, optional : BOOLEAN,
   index : {x \in UNION {[K -> Nat \ {0}] : K \in SUBSET Nat} : IsFiniteSet(DOMAIN x)}]

Flags == [mail : 0..MaxMail, seq : Seqs, in : BOOLEAN]

\* An EXPUNGE looks up only messages that the index has.
Expunging(w) ==
  /\ w = [op |-> "expunging", victims |-> w.victims, todo |-> w.todo]
  /\ w.todo \subseteq w.victims /\ w.victims \subseteq DOMAIN mbox.index

WorkTyped ==
  /\ At("scanned") => work.scan \in Seq(Nat) /\ work.start \in Nat
  /\ At("noticed") =>
       work.scan \in Seq(Nat) /\ work.new \in Seq(Nat) /\ work.marks \in [Seqs -> SUBSET Nat]
  /\ At("written") => work.scan \in Seq(Nat)
  /\ At("stored") => work.flag \in Flags
  /\ At("expunging") => Expunging(work)

\* StoreTypeOK, and what it takes to keep it.
TypeInv ==
  /\ FolderInv
  /\ mhs \in [Seqs -> SUBSET Nat]
  /\ touched \in 0..now /\ now \in 0..MaxTime
  /\ IF At("down") THEN mbox = NoMbox /\ (row = NoRow \/ row \in Lists)
     ELSE mbox \in Mailboxes /\ row \in Lists
  /\ Range(owner) \subseteq 0..MaxMail /\ torn \in BOOLEAN /\ lost \in BOOLEAN
  /\ acked \subseteq Flags
  /\ WorkTyped

\* What the row may be behind by: a pack, or the messages an EXPUNGE has removed.
RowBehind == At("packed") \/ Underway

RowInv ==
  /\ row = NoRow => owner = <<>>
  /\ row # NoRow /\ ~ RowBehind => Sound(row, file, owner) /\ Counted(row)

ListsInv ==
  ~ At("down") =>
    /\ Sound(mbox, file, owner)
    /\ work.op \notin {"noticed", "written"} => Counted(mbox)
    /\ ~ At("expunging") => mbox.index = Index(mbox.keys)

\* The folder as a resync has read it.
ScanInv ==
  /\ At("scanned") => Lowest(work.scan, Keys) /\ Range(mbox.keys) \subseteq Range(work.scan)
  /\ work.op \in {"noticed", "written"} =>
       /\ Lowest(work.scan, Keys)
       /\ mbox.keys = work.scan /\ Len(mbox.uids) = Len(mbox.keys)
  /\ At("noticed") => Range(work.new) \subseteq Range(work.scan)

\* Removing the highest first leaves the positions of the others as they were.
ExpungeInv ==
  At("expunging") =>
    /\ work.todo = work.victims => mbox.index = Index(mbox.keys)
    /\ \A k \in work.victims \ work.todo, j \in work.todo : j < k
    /\ \A k \in work.victims \ work.todo : k \notin Range(mbox.keys)
    /\ \A k \in work.todo : mbox.index[k] \in DOMAIN mbox.uids /\ mbox.keys[mbox.index[k]] = k

\* The message with the key k has the flag a right in .mh_sequences, in the
\* row, and with the Mailbox or in what a resync has read.
FlagRight(k, a) ==
  /\ Right(k, a, mhs)
  /\ ~ At("packed") => Right(k, a, row.seqs)
  /\ ~ At("down") /\ ~ AllNew => Right(k, a, mbox.seqs)
  /\ At("noticed") /\ k \in Range(work.new) => Right(k, a, work.marks)
  /\ work.op \in {"scanned", "noticed"} => k \in Range(work.scan)
  /\ At("expunging") => k \notin work.victims \ work.todo

AckedInv ==
  /\ row = NoRow => acked = {}
  /\ \A a \in acked, k \in Keys : file[k] = a.mail => FlagRight(k, a)

\* A flag that a STORE has set is in .mh_sequences and with the Mailbox.
StoredInv ==
  At("stored") =>
    \A k \in Keys : file[k] = work.flag.mail =>
      Right(k, work.flag, mbox.seqs) /\ Right(k, work.flag, mhs)

\* Nobody has flagged a message that is still to come.
BornInv ==
  /\ \A a \in acked : a.mail <= born
  /\ At("stored") => work.flag.mail <= born

ListInv == ~ torn => RowInv /\ ListsInv /\ ScanInv /\ ExpungeInv
FlagInv == BornInv /\ (~ lost => AckedInv /\ StoredInv)

StoreInv == TypeInv /\ ListInv /\ FlagInv

-----------------------------------------------------------------------------
(* Commits *)

\* The lists are committed: the UIDs that are new to the history lead where they lead now.
LEMMA LeadsLists ==
  ASSUME NEW m, Lists3(m), Sound(m, file, owner)
  PROVE  /\ DOMAIN Leads(m) = Range(m.uids)
         /\ \A i \in DOMAIN m.uids : Leads(m)[m.uids[i]] = file[m.keys[i]]
<1> DEFINE good == {i \in DOMAIN m.uids : i \in DOMAIN m.keys /\ m.keys[i] \in Keys}
<1>1. good = DOMAIN m.uids
  <2>1. \A i \in DOMAIN m.uids : i \in DOMAIN m.keys /\ m.keys[i] \in DOMAIN file
    BY SoundPositions
  <2> QED
    BY <2>1 DEF Keys
<1>2. Leads(m) = [u \in {m.uids[i] : i \in good} |-> file[m.keys[CHOOSE i \in good : m.uids[i] = u]]]
  BY DEF Leads
<1> HIDE DEF good
<1>3. {m.uids[i] : i \in good} = Range(m.uids)
  BY <1>1 DEF Range
<1>4. ASSUME NEW i \in DOMAIN m.uids PROVE Leads(m)[m.uids[i]] = file[m.keys[i]]
  <2> DEFINE j == CHOOSE j \in good : m.uids[j] = m.uids[i]
  <2>1. j \in DOMAIN m.uids /\ m.uids[j] = m.uids[i]
    BY <1>1
  <2>2. m.uids[i] \in Range(m.uids)
    BY DEF Range
  <2>3. Leads(m)[m.uids[i]] = file[m.keys[j]]
    BY <1>2, <1>3, <2>2
  <2> HIDE DEF j
  <2>4. m.uids \in Seq(Nat) /\ Rising(m.uids)
    BY DEF Lists3, Sound
  <2>5. j = i
    BY <2>1, <2>4, RisingOnce
  <2> QED
    BY <2>3, <2>5
<1> QED
  BY <1>2, <1>3, <1>4

LEMMA SoundCommitted ==
  ASSUME NEW m, NEW o, Lists3(m), Sound(m, file, owner),
         o = [u \in DOMAIN owner \cup DOMAIN Leads(m) |->
                IF u \in DOMAIN owner THEN owner[u] ELSE Leads(m)[u]]
  PROVE  Sound(m, file, o)
<1>1. DOMAIN o = DOMAIN owner \cup Range(m.uids)
  BY LeadsLists
<1>2. DOMAIN o \subseteq 1..m.nextUid - 1
  BY <1>1 DEF Sound
<1>3. ASSUME NEW i \in DOMAIN m.uids PROVE o[m.uids[i]] = file[m.keys[i]]
  <2>1. m.uids[i] \in Range(m.uids) /\ Leads(m)[m.uids[i]] = file[m.keys[i]]
    BY LeadsLists DEF Range
  <2>2. o[m.uids[i]] = IF m.uids[i] \in DOMAIN owner THEN owner[m.uids[i]] ELSE Leads(m)[m.uids[i]]
    BY <1>1, <2>1
  <2>3. m.uids[i] \in DOMAIN owner => owner[m.uids[i]] = file[m.keys[i]]
    BY DEF Sound
  <2> QED
    BY <2>1, <2>2, <2>3
<1> QED
  BY <1>2, <1>3 DEF Sound

-----------------------------------------------------------------------------
(* The types *)

\* Two numbers have a least one.
LEMMA MinOf ==
  ASSUME NEW a \in Nat, NEW b \in Nat
  PROVE  Min({a, b}) \in {a, b} /\ Min({a, b}) <= a /\ Min({a, b}) <= b
<1>1. \E x \in {a, b} : \A y \in {a, b} : x <= y
  <2>1. CASE a <= b
    BY <2>1
  <2>2. CASE ~ (a <= b)
    BY <2>2
  <2> QED
    BY <2>1, <2>2
<1> QED
  BY <1>1 DEF Min

\* The keys in order, and the mails.
LEMMA KeysTyped ==
  ASSUME FolderInv
  PROVE  /\ Keys \subseteq Nat /\ IsFiniteSet(Keys) /\ Ascending(Keys) \in Seq(Nat)
         /\ Range(Ascending(Keys)) = Keys /\ Cardinality(Keys) \in Nat
         /\ Len(Ascending(Keys)) = Cardinality(Keys)
         /\ \A k \in Keys : file[k] \in 1..born /\ file[k] \in 1..MaxMail
<1>1. Keys \subseteq Nat /\ IsFiniteSet(Keys)
  BY DEF FolderInv
<1>2. \A k \in Keys : file[k] \in 1..born
  BY DEF FolderInv, Range, Keys
<1>3. MaxMail \in Nat /\ born \in 0..MaxMail
  BY StoreAssumption DEF FolderInv
<1>4. 1..born \subseteq 1..MaxMail
  BY <1>3
<1> QED
  BY <1>1, <1>2, <1>4, AscendingLists

\* A new message comes behind all others.
LEMMA NewKeyIsAbove ==
  ASSUME FolderInv
  PROVE  NewKey \in Nat \ {0} /\ NewKey \notin Keys /\ \A k \in Keys : k < NewKey
BY KeysTyped, AboveAll DEF NewKey

LEMMA FolderIs == FolderInv <=> Files(file, born) /\ born \in 0..MaxMail
BY DEF FolderInv, Files, Keys

\* One message more.
LEMMA FolderGrows ==
  ASSUME FolderInv, born < MaxMail, born' = born + 1, file' = Added(file, born + 1)
  PROVE  /\ FolderInv' /\ Keys' = Keys \cup {NewKey} /\ file'[NewKey] = born + 1
         /\ \A k \in Keys : k < NewKey /\ file'[k] = file[k]
<1>1. born \in Nat /\ Files(file, born) /\ born' \in 0..MaxMail
  BY StoreAssumption, FolderIs
<1>2. PICK g, c : g = file' /\ c = born + 1
  OBVIOUS
<1>3. /\ Files(g, c) /\ DOMAIN g = Keys \cup {NewKey} /\ g[NewKey] = c
      /\ \A k \in Keys : k < NewKey /\ g[k] = file[k]
  <2>1. g = Added(file, c) /\ c \in Nat /\ born < c
    BY <1>1, <1>2
  <2>2. Files(g, c) /\ Grown(file, g, Above(DOMAIN file), c)
    BY <1>1, <2>1, FilesGrow
  <2> QED
    BY <2>2 DEF Grown, NewKey, Keys
<1>4. FolderInv'
  BY <1>1, <1>2, <1>3 DEF FolderInv, Files, Keys
<1> QED
  BY <1>2, <1>3, <1>4 DEF Keys

\* Some messages fewer.
LEMMA FolderShrinks ==
  ASSUME FolderInv, NEW K, file' = [k \in Keys \ K |-> file[k]], UNCHANGED born
  PROVE  FolderInv' /\ Keys' = Keys \ K /\ \A k \in Keys' : file'[k] = file[k]
<1>1. born \in Nat /\ Files(file, born) /\ born' \in 0..MaxMail
  BY StoreAssumption, FolderIs
<1>2. PICK g : g = file'
  OBVIOUS
<1>3. Files(g, born) /\ DOMAIN g = Keys \ K /\ \A k \in DOMAIN g : g[k] = file[k]
  BY <1>1, <1>2, FilesShrink DEF Keys
<1>4. FolderInv'
  BY <1>1, <1>2, <1>3 DEF FolderInv, Files, Keys
<1> QED
  BY <1>2, <1>3, <1>4 DEF Keys

\* The messages of a packed folder are those there were, in the order they were in.
LEMMA FolderPacked ==
  ASSUME FolderInv, UNCHANGED born, file' = Packed(file)
  PROVE  /\ FolderInv' /\ Keys' = 1..Cardinality(Keys)
         /\ \A k \in Keys : Rank(Keys, k) \in Keys' /\ file'[Rank(Keys, k)] = file[k]
         /\ \A n \in Keys' : \E k \in Keys : n = Rank(Keys, k)
<1>1. born \in Nat /\ Files(file, born) /\ born' \in 0..MaxMail
  BY StoreAssumption, FolderIs
<1>2. PICK g : g = file'
  OBVIOUS
<1>3. /\ Files(g, born) /\ DOMAIN g = 1..Cardinality(Keys)
      /\ \A k \in Keys : Rank(Keys, k) \in DOMAIN g /\ g[Rank(Keys, k)] = file[k]
      /\ \A n \in DOMAIN g : \E k \in Keys : n = Rank(Keys, k)
  BY <1>1, <1>2, FilesPacked DEF Keys
<1>4. FolderInv'
  BY <1>1, <1>2, <1>3 DEF FolderInv, Files, Keys
<1> QED
  BY <1>2, <1>3, <1>4 DEF Keys

\* What is made of a row, or of lists, is a Mailbox, and can be saved.
LEMMA MailboxTyped ==
  /\ \A r \in Lists : Restored(r) \in Mailboxes
  /\ \A m \in Mailboxes : Saved(m) \in Lists
  /\ \A ks \in Seq(Nat), m \in Mailboxes : [m EXCEPT !.index = Index(ks)] \in Mailboxes
<1> DEFINE Indices == {x \in UNION {[K -> Nat \ {0}] : K \in SUBSET Nat} : IsFiniteSet(DOMAIN x)}
<1>1. \A ks \in Seq(Nat) : Index(ks) \in Indices
  BY IndexLeads
<1>2. \A r \in Lists : Index(r.keys) \in Indices
  BY <1>1 DEF Lists
<1> HIDE DEF Indices
<1> QED
  <2>1. Mailboxes = [keys : Seq(Nat), uids : Seq(Nat), nextUid : Nat, seqs : [Seqs -> SUBSET Nat],
                     mtime : Nat, num : Int, optional : BOOLEAN, index : Indices]
    BY DEF Mailboxes, Indices
  <2>2. \A r \in Lists : Restored(r) \in Mailboxes
    BY <1>2, <2>1 DEF Lists, Restored
  <2>3. \A m \in Mailboxes : Saved(m) \in Lists
    BY <2>1 DEF Lists, Saved
  <2>4. \A ks \in Seq(Nat), m \in Mailboxes : [m EXCEPT !.index = Index(ks)] \in Mailboxes
    BY <1>1, <2>1
  <2> QED
    BY <2>2, <2>3, <2>4

\* The owners are messages.
LEMMA RecordedTyped ==
  ASSUME FolderInv, Range(owner) \subseteq 0..MaxMail, NEW m \in Mailboxes, Recorded(m)
  PROVE  Range(owner') \subseteq 0..MaxMail
<1> DEFINE good == {i \in DOMAIN m.uids : i \in DOMAIN m.keys /\ m.keys[i] \in Keys}
<1>1. ASSUME NEW u \in DOMAIN Leads(m) PROVE Leads(m)[u] \in 0..MaxMail
  <2>1. u \in {m.uids[i] : i \in good} 
    BY DEF Leads
  <2>2. PICK c : c = CHOOSE i \in good : m.uids[i] = u
    OBVIOUS
  <2>3. c \in good
    BY <2>1, <2>2
  <2>4. Leads(m)[u] = file[m.keys[c]]
    BY <2>1, <2>2 DEF Leads
  <2>5. file[m.keys[c]] \in 1..MaxMail
    BY <2>3, KeysTyped
  <2>6. 1..MaxMail \subseteq 0..MaxMail
    OBVIOUS
  <2> QED
    BY <2>4, <2>5, <2>6
<1>2. \A u \in DOMAIN owner : owner[u] \in 0..MaxMail
  BY DEF Range
<1>3. \A u \in DOMAIN owner' : owner'[u] \in 0..MaxMail
  BY <1>1, <1>2 DEF Recorded
<1> QED
  BY <1>3 DEF Range

\* A commit leaves a row and owners that are messages.
LEMMA CommitTyped ==
  ASSUME FolderInv, Range(owner) \subseteq 0..MaxMail, NEW m \in Mailboxes, Commit(m)
  PROVE  row' \in Lists /\ Range(owner') \subseteq 0..MaxMail
BY RecordedTyped, MailboxTyped DEF Commit

\* What a resync takes over has its type.
LEMMA TrustedTyped ==
  ASSUME mbox \in Mailboxes, At("scanned"), work.scan \in Seq(Nat), work.start \in Nat
  PROVE  Trusted \in Mailboxes
<1>1. /\ mbox.keys \in Seq(Nat) /\ mbox.uids \in Seq(Nat)
      /\ Len(mbox.keys) \in Nat /\ Len(mbox.uids) \in Nat
  BY ListOf DEF Mailboxes
<1>2. NoSeqs \in [Seqs -> SUBSET Nat] /\ <<>> \in Seq(Nat)
  BY EmptyList DEF NoSeqs
<1>3. CASE Len(work.scan) < mbox.num \/ Len(mbox.uids) < Len(mbox.keys)
  <2>1. Trusted = [mbox EXCEPT !.keys = <<>>, !.uids = <<>>, !.num = 0, !.seqs = NoSeqs,
                               !.mtime = work.start]
    BY <1>3 DEF Trusted
  <2>2. PICK none : none = <<>> /\ none \in Seq(Nat)
    BY <1>2
  <2>3. PICK start \in Nat : start = work.start
    OBVIOUS
  <2>4. Trusted = [mbox EXCEPT !.keys = none, !.uids = none, !.num = 0, !.seqs = NoSeqs,
                               !.mtime = start]
    BY <2>1, <2>2, <2>3
  <2>5. Trusted = [keys |-> none, uids |-> none, nextUid |-> mbox.nextUid, seqs |-> NoSeqs,
                   mtime |-> start, num |-> 0, optional |-> mbox.optional, index |-> mbox.index]
    BY <2>4 DEF Mailboxes
  <2> QED
    BY <1>2, <2>2, <2>5 DEF Mailboxes
<1>4. CASE ~ (Len(work.scan) < mbox.num \/ Len(mbox.uids) < Len(mbox.keys))
  <2> DEFINE rest == SubSeq(mbox.uids, Len(mbox.uids) - Len(mbox.keys) + 1, Len(mbox.uids))
             left == IF mbox.keys = <<>> THEN mbox.uids ELSE rest
  <2>1. /\ Len(mbox.uids) - Len(mbox.keys) + 1 \in 1..Len(mbox.uids) + 1
        /\ Len(mbox.uids) - Len(mbox.keys) + 1 \in Nat
    <3>1. ~ (Len(mbox.uids) < Len(mbox.keys))
      BY <1>4
    <3>2. ASSUME NEW a \in Nat, NEW b \in Nat, ~ (a < b)
          PROVE  a - b + 1 \in 1..a + 1 /\ a - b + 1 \in Nat
      BY <3>2
    <3> QED
      BY <1>1, <3>1, <3>2
  <2>2. rest \in Seq(Nat)
    <3>1. \A i \in (Len(mbox.uids) - Len(mbox.keys) + 1)..Len(mbox.uids) : mbox.uids[i] \in Nat
      <4>1. \A i \in 1..Len(mbox.uids) : mbox.uids[i] \in Nat
        BY <1>1
      <4> QED
        BY <1>1, <2>1, <4>1
    <3>2. Len(mbox.uids) - Len(mbox.keys) + 1 \in Int /\ Len(mbox.uids) \in Int
      BY <1>1
    <3> QED
      BY <3>1, <3>2, SubSeqProperties
  <2>3. left \in Seq(Nat)
    BY <1>1, <2>2
  <2>4. Trusted = [mbox EXCEPT !.uids = left]
    BY <1>4 DEF Trusted
  <2> HIDE DEF left
  <2> QED
    BY <2>3, <2>4 DEF Mailboxes
<1> QED
  BY <1>3, <1>4

\* What a resync finds has its type.
LEMMA FindMailTyped ==
  ASSUME TypeInv, FindMail
  PROVE  /\ mbox' \in Mailboxes
         /\ At("noticed")' /\ WorkTyped'
<1>1. At("scanned") /\ mbox \in Mailboxes /\ work.scan \in Seq(Nat) /\ work.start \in Nat /\ FolderInv
  BY DEF FindMail, TypeInv, WorkTyped, At
<1>2. Trusted \in Mailboxes
  BY <1>1, TrustedTyped
<1>3. PICK t : t = Trusted
  OBVIOUS
<1>4. PICK K : K = Range(work.scan) \ Range(t.keys)
  OBVIOUS
<1>5. PICK new : new = Ascending(K)
  OBVIOUS
<1>6. PICK next : next = mbox.nextUid
  OBVIOUS
<1>7. PICK newUids : newUids = [i \in DOMAIN new |-> next + i - 1]
  OBVIOUS
<1>8. PICK keys : keys = t.keys \o new
  OBVIOUS
<1>9. PICK uids : uids = t.uids \o newUids
  OBVIOUS
<1>10. PICK beyond : beyond = IF uids = <<>> THEN t.nextUid ELSE Last(uids) + 1
  OBVIOUS
<1>11. /\ mbox' = [t EXCEPT !.keys = keys, !.uids = uids, !.index = Index(keys), !.nextUid = beyond]
       /\ work' = [op |-> "noticed", next |-> work.next, scan |-> work.scan,
                   new |-> new, marks |-> FolderSeqs]
  BY <1>3, <1>4, <1>5, <1>6, <1>7, <1>8, <1>9, <1>10 DEF FindMail
<1>12. t.keys \in Seq(Nat) /\ t.uids \in Seq(Nat) /\ t.nextUid \in Nat /\ next \in Nat
  BY <1>1, <1>2, <1>3, <1>6 DEF Mailboxes
<1>13. new \in Seq(Nat)
  <2>1. Range(work.scan) \subseteq Nat /\ IsFiniteSet(Range(work.scan))
    BY <1>1, ListOf, RangeFinite
  <2>2. K \subseteq Nat /\ IsFiniteSet(K)
    BY <1>4, <2>1, FS_Subset
  <2> QED
    BY <1>5, <2>2, AscendingLists
<1>14. newUids \in Seq(Nat)
  <2>1. DOMAIN new = 1..Len(new) /\ Len(new) \in Nat
    BY <1>13, ListOf
  <2>2. \A i \in 1..Len(new) : next + i - 1 \in Nat
    BY <1>12, <2>1
  <2>3. newUids \in [1..Len(new) -> Nat]
    BY <1>7, <2>1, <2>2
  <2> QED
    BY <2>1, <2>3
<1>15. keys \in Seq(Nat) /\ uids \in Seq(Nat)
  BY <1>8, <1>9, <1>12, <1>13, <1>14, ConcatProperties
<1>16. beyond \in Nat
  <2>1. CASE uids = <<>>
    BY <1>10, <1>12, <2>1
  <2>2. CASE uids # <<>>
    <3>1. Len(uids) \in Nat /\ DOMAIN uids = 1..Len(uids) /\ Len(uids) # 0
      BY <1>15, <2>2, ListOf, EmptyList
    <3>2. Len(uids) \in 1..Len(uids)
      BY <3>1
    <3>3. uids[Len(uids)] \in Nat
      BY <1>15, <3>2, ListOf
    <3>4. beyond = uids[Len(uids)] + 1
      BY <1>10, <2>2 DEF Last
    <3> QED
      BY <3>3, <3>4
  <2> QED
    BY <2>1, <2>2
<1>17. mbox' \in Mailboxes
  <2>1. PICK n : n = [t EXCEPT !.keys = keys, !.uids = uids, !.nextUid = beyond]
    OBVIOUS
  <2>2. n \in Mailboxes
    BY <1>2, <1>3, <1>15, <1>16, <2>1 DEF Mailboxes
  <2>3. mbox' = [n EXCEPT !.index = Index(keys)]
    BY <1>2, <1>3, <1>11, <2>1 DEF Mailboxes
  <2> QED
    BY <1>15, <2>2, <2>3, MailboxTyped
<1>18. FolderSeqs \in [Seqs -> SUBSET Nat]
  BY <1>1, KeysTyped DEF FolderSeqs
<1> QED
  BY <1>1, <1>11, <1>13, <1>17, <1>18 DEF At, WorkTyped

\* The index leads to positions.
LEMMA IndexTyped ==
  ASSUME NEW m \in Mailboxes, NEW k \in DOMAIN m.index
  PROVE  m.index[k] \in Nat \ {0}
<1>1. m.index \in UNION {[K -> Nat \ {0}] : K \in SUBSET Nat}
  BY DEF Mailboxes
<1> QED
  BY <1>1

\* A message leaves the lists.
LEMMA DroppedTyped ==
  ASSUME mbox \in Mailboxes, NEW k \in DOMAIN mbox.index,
         mbox.index[k] <= Len(mbox.keys), mbox.index[k] <= Len(mbox.uids)
  PROVE  Dropped(k) \in Mailboxes /\ Dropped(k).index = mbox.index
<1>1. /\ mbox.keys \in Seq(Nat) /\ mbox.uids \in Seq(Nat) /\ mbox.num \in Int
      /\ Len(mbox.keys) \in Nat /\ Len(mbox.uids) \in Nat
  BY ListOf DEF Mailboxes
<1>2. mbox.index[k] \in Nat \ {0}
  BY IndexTyped
<1>3. mbox.index[k] \in 1..Len(mbox.keys) /\ mbox.index[k] \in 1..Len(mbox.uids)
  BY <1>1, <1>2
<1>4. RemoveAt(mbox.keys, mbox.index[k]) \in Seq(Nat) /\ RemoveAt(mbox.uids, mbox.index[k]) \in Seq(Nat)
  BY <1>1, <1>3, RemovedAt
<1>5. mbox.num - 1 \in Int
  BY <1>1
<1> QED
  BY <1>4, <1>5 DEF Dropped, Mailboxes

\* The next message an EXPUNGE removes is one the index has.
LEMMA NextVictim ==
  ASSUME mbox \in Mailboxes, Expunging(work), work.todo # {}
  PROVE  /\ Max(work.todo) \in work.todo /\ Max(work.todo) \in DOMAIN mbox.index
         /\ \A k \in work.todo : k <= Max(work.todo) /\ k \in Nat
<1>1. DOMAIN mbox.index \subseteq Nat /\ IsFiniteSet(DOMAIN mbox.index)
  BY DEF Mailboxes
<1>2. work.todo \subseteq DOMAIN mbox.index
  BY DEF Expunging
<1>3. work.todo \subseteq Nat /\ IsFiniteSet(work.todo)
  BY <1>1, <1>2, FS_Subset
<1> QED
  BY <1>2, <1>3, MaxOf

\* Sequences of messages that are marked one by one have their type.
LEMMA MarkedTyped ==
  ASSUME mbox \in Mailboxes, work.new \in Seq(Nat), work.marks \in [Seqs -> SUBSET Nat],
         NEW n \in 0..Len(work.new)
  PROVE  Marked(n) \in Mailboxes
<1>1. \A i \in 1..n : work.new[i] \in Nat
  <2>1. Len(work.new) \in Nat /\ \A i \in 1..Len(work.new) : work.new[i] \in Nat
    BY ListOf
  <2> QED
    BY <2>1
<1>2. PICK done : done = {work.new[i] : i \in 1..n}
  OBVIOUS
<1>3. done \subseteq Nat
  BY <1>1, <1>2
<1>4. mbox.seqs \in [Seqs -> SUBSET Nat]
  BY DEF Mailboxes
<1>5. Marked(n) = [mbox EXCEPT !.seqs = [s \in Seqs |-> (mbox.seqs[s] \ done) \cup (work.marks[s] \cap done)]]
  BY <1>2 DEF Marked
<1>6. [s \in Seqs |-> (mbox.seqs[s] \ done) \cup (work.marks[s] \cap done)] \in [Seqs -> SUBSET Nat]
  BY <1>3, <1>4
<1> QED
  BY <1>5, <1>6 DEF Mailboxes

\* So has a Mailbox whose resync was cut short.
LEMMA CutTyped ==
  ASSUME mbox \in Mailboxes, WorkTyped, CutCheck
  PROVE  mbox' \in Mailboxes
<1>1. CASE At("noticed") /\ \E n \in 0..Len(work.new) : mbox' = Marked(n)
  <2>1. work.new \in Seq(Nat) /\ work.marks \in [Seqs -> SUBSET Nat]
    BY <1>1 DEF WorkTyped
  <2> QED
    BY <1>1, <2>1, MarkedTyped
<1>2. CASE At("written") /\ mbox' = [mbox EXCEPT !.num = Len(work.scan)]
  <2>1. Len(work.scan) \in Int
    BY <1>2, ListOf DEF WorkTyped
  <2> QED
    BY <1>2, <2>1 DEF Mailboxes
<1> QED
  BY <1>1, <1>2 DEF CutCheck

\* So has what the step under way is to commit.
LEMMA DueTyped ==
  ASSUME mbox \in Mailboxes, WorkTyped, touched \in Nat
  PROVE  /\ At("written") => Noted \in Mailboxes
         /\ Repacked \in Mailboxes /\ Expunged \in Mailboxes /\ Due \in Mailboxes
<1>1. ASSUME At("written") PROVE Noted \in Mailboxes
  <2>1. Len(work.scan) \in Int
    BY <1>1, ListOf DEF WorkTyped
  <2> QED
    BY <2>1 DEF Noted, Mailboxes
<1>2. Repacked \in Mailboxes
  BY DEF Repacked, Mailboxes
<1>3. Expunged \in Mailboxes
  <2>1. PICK q : q = [s \in Seqs |-> mbox.seqs[s] \ work.victims]
    OBVIOUS
  <2>2. PICK n : n = [mbox EXCEPT !.optional = FALSE, !.seqs = q]
    OBVIOUS
  <2>3. mbox.keys \in Seq(Nat) /\ mbox.seqs \in [Seqs -> SUBSET Nat]
    BY DEF Mailboxes
  <2>4. q \in [Seqs -> SUBSET Nat]
    BY <2>1, <2>3
  <2>5. n \in Mailboxes
    BY <2>2, <2>4 DEF Mailboxes
  <2>6. Expunged = [n EXCEPT !.index = Index(mbox.keys)]
    BY <2>1, <2>2 DEF Expunged, Mailboxes
  <2> QED
    BY <2>3, <2>5, <2>6, MailboxTyped
<1>4. Due \in {mbox, Repacked, Expunged} \/ (At("written") /\ Due = Noted)
  BY DEF Due
<1> QED
  BY <1>1, <1>2, <1>3, <1>4

\* The row that a mailbox is made of has its type.
LEMMA MigratedTyped ==
  ASSUME FolderInv, row \in Lists
  PROVE  Migrated \in Lists
<1>1. CASE ~ (row.keys = <<>> /\ row.uids # <<>>)
  BY <1>1 DEF Migrated
<1>2. CASE row.keys = <<>> /\ row.uids # <<>>
  <2>1. PICK n : n = Min({Cardinality(Keys), Len(row.uids)})
    OBVIOUS
  <2>2. PICK keys : keys = SubSeq(Ascending(Keys), 1, n)
    OBVIOUS
  <2>3. Migrated = [row EXCEPT !.keys = keys, !.num = Len(keys)]
    BY <1>2, <2>1, <2>2 DEF Migrated
  <2>4. /\ Cardinality(Keys) \in Nat /\ Len(row.uids) \in Nat
        /\ Ascending(Keys) \in Seq(Nat) /\ Len(Ascending(Keys)) = Cardinality(Keys)
    BY KeysTyped, ListOf DEF Lists
  <2>5. n \in Nat /\ n <= Cardinality(Keys)
    BY <2>1, <2>4, MinOf
  <2>6. keys \in Seq(Nat)
    <3>1. \A i \in 1..n : i \in 1..Len(Ascending(Keys))
      BY <2>4, <2>5
    <3>2. \A i \in 1..n : Ascending(Keys)[i] \in Nat
      BY <2>4, <3>1, ListOf
    <3> QED
      BY <2>2, <2>5, <3>2, SubSeqProperties
  <2>7. Len(keys) \in Int
    BY <2>6, ListOf
  <2> QED
    BY <2>3, <2>6, <2>7 DEF Lists
<1> QED
  BY <1>1, <1>2

\* Nothing that has fields of its own is under way.
LEMMA NoFields ==
  ASSUME work'.op \notin {"scanned", "noticed", "written", "stored", "expunging"}
  PROVE  WorkTyped'
BY DEF WorkTyped, At

LEMMA TypeInit == StoreInit => TypeInv
<1> SUFFICES ASSUME StoreInit PROVE TypeInv
  OBVIOUS
<1>1. /\ InitialKeys \subseteq Nat /\ IsFiniteSet(InitialKeys) /\ InitialKeys \subseteq Nat \ {0}
      /\ Cardinality(InitialKeys) \in Nat /\ Cardinality(InitialKeys) <= MaxMail
      /\ MaxMail \in Nat /\ MaxTime \in Nat
  BY StoreAssumption, FS_CardinalityType
<1>2. /\ \A k \in InitialKeys : Rank(InitialKeys, k) \in 1..Cardinality(InitialKeys)
      /\ \A k, l \in InitialKeys : Rank(InitialKeys, k) = Rank(InitialKeys, l) => k = l
  BY <1>1, RankOf
<1>3. /\ Keys = InitialKeys /\ born = Cardinality(InitialKeys)
      /\ \A k \in InitialKeys : file[k] = Rank(InitialKeys, k)
  BY DEF StoreInit, Keys
<1>4. FolderInv
  <2>1. Range(file) \subseteq 1..born /\ IsInjective(file)
    BY <1>2, <1>3 DEF Range, IsInjective, Keys
  <2>2. born \in 0..MaxMail
    BY <1>1, <1>3
  <2> QED
    BY <1>1, <1>3, <2>1, <2>2 DEF FolderInv
<1>5. mhs \in [Seqs -> SUBSET Nat]
  BY <1>1 DEF StoreInit, NoSeqs, Seqs
<1>6. touched \in 0..now /\ now \in 0..MaxTime
  BY <1>1 DEF StoreInit
<1>7. At("down") /\ mbox = NoMbox /\ row = NoRow /\ WorkTyped
  BY DEF StoreInit, At, Down, WorkTyped
<1>8. /\ Range(owner) \subseteq 0..MaxMail /\ acked \subseteq Flags
      /\ torn \in BOOLEAN /\ lost \in BOOLEAN
  BY EmptyList DEF StoreInit
<1> QED
  BY <1>4, <1>5, <1>6, <1>7, <1>8 DEF TypeInv

LEMMA TypeStep == TypeInv /\ [StoreNext]_vars => TypeInv'
<1> SUFFICES ASSUME TypeInv, [StoreNext]_vars PROVE TypeInv'
  OBVIOUS
<1> USE DEF TypeInv
<1>1. /\ MaxMail \in Nat /\ MaxTime \in Nat /\ now \in Nat /\ touched \in Nat
      /\ touched <= now /\ now <= MaxTime
  BY StoreAssumption
<1>2. /\ ~ At("down") => mbox \in Mailboxes /\ row \in Lists
      /\ mbox \in Mailboxes => mbox.keys \in Seq(Nat) /\ mbox.seqs \in [Seqs -> SUBSET Nat]
                               /\ mbox.num \in Int /\ mbox.mtime \in Nat
  BY DEF Mailboxes
<1>3. FolderSeqs \in [Seqs -> SUBSET Nat]
  BY KeysTyped DEF FolderSeqs
<1>4. NewKey \in Nat
  BY NewKeyIsAbove
<1>5. ASSUME Touch PROVE now' = now => touched' \in 0..now'
  BY <1>1, <1>5 DEF Touch
<1>6. UNCHANGED file /\ UNCHANGED born => FolderInv'
  BY DEF FolderInv, Keys, Range, IsInjective
<1>7. ASSUME UNCHANGED <<mbox, work>> PROVE WorkTyped' /\ (At("down")' <=> At("down"))
  BY <1>7 DEF WorkTyped, At, Expunging
<1>8. CASE Tick
  <2>1. now' \in 0..MaxTime /\ touched' \in 0..now'
    BY <1>1, <1>8 DEF Tick
  <2> QED
    BY <1>6, <1>7, <1>8, <2>1 DEF Tick, history
<1>9. CASE Deliver
  <2>1. FolderInv'
    BY <1>9, FolderGrows DEF Deliver
  <2>2. mhs' \in [Seqs -> SUBSET Nat]
    BY <1>3, <1>4, <1>9 DEF Deliver, Seqs
  <2> QED
    BY <1>5, <1>7, <1>9, <2>1, <2>2 DEF Deliver, history
<1>10. CASE Crash
  <2>1. WorkTyped' /\ At("down")' /\ lost' \in BOOLEAN
    BY <1>10, NoFields DEF Crash, Down, At
  <2> QED
    BY <1>6, <1>10, <2>1 DEF Crash, disk
<1>11. ASSUME NEW marked \in BOOLEAN, Activate(marked) PROVE TypeInv'
  <2>1. WorkTyped' /\ ~ At("down")'
    BY <1>11, NoFields DEF Activate, At
  <2>2. mbox' \in Mailboxes /\ row' \in Lists
    <3>1. CASE row = NoRow
      <4>1. PICK fresh : fresh = [keys |-> <<>>, uids |-> <<>>, nextUid |-> 1, seqs |-> FolderSeqs,
                                  mtime |-> touched, num |-> 0]
        OBVIOUS
      <4>2. Cardinality(Keys) \in Int
        BY KeysTyped
      <4>3. fresh \in Lists /\ [fresh EXCEPT !.num = Cardinality(Keys)] \in Lists
        <5>1. PICK none : none = <<>> /\ none \in Seq(Nat)
          BY EmptyList
        <5>2. fresh = [keys |-> none, uids |-> none, nextUid |-> 1, seqs |-> FolderSeqs,
                       mtime |-> touched, num |-> 0]
          BY <4>1, <5>1
        <5>3. PICK count \in Int : count = Cardinality(Keys)
          BY <4>2
        <5>4. [fresh EXCEPT !.num = count]
                = [keys |-> none, uids |-> none, nextUid |-> 1, seqs |-> FolderSeqs,
                   mtime |-> touched, num |-> count]
          BY <5>2
        <5>5. \A c \in Int : [keys |-> none, uids |-> none, nextUid |-> 1, seqs |-> FolderSeqs,
                              mtime |-> touched, num |-> c] \in Lists
          BY <1>1, <1>3, <5>1 DEF Lists
        <5> QED
          BY <5>2, <5>3, <5>4, <5>5
      <4>4. mbox' = Restored(fresh) /\ row' = [fresh EXCEPT !.num = Cardinality(Keys)]
        BY <1>11, <3>1, <4>1 DEF Activate
      <4> QED
        BY <4>3, <4>4, MailboxTyped
    <3>2. CASE row # NoRow
      <4>1. row \in Lists
        BY <1>2, <3>2
      <4>2. mbox' = Restored(Migrated) /\ row' = row
        BY <1>11, <3>2 DEF Activate
      <4> QED
        BY <4>1, <4>2, MailboxTyped, MigratedTyped
    <3> QED
      BY <3>1, <3>2
  <2> QED
    BY <1>6, <1>11, <2>1, <2>2 DEF Activate, history
<1>12. CASE Stop
  <2>1. mbox \in Mailboxes /\ Commit(mbox)
    BY <1>2, <1>12 DEF Stop, At
  <2>2. row' \in Lists /\ Range(owner') \subseteq 0..MaxMail
    BY <2>1, CommitTyped
  <2>3. WorkTyped' /\ At("down")'
    BY <1>12, NoFields DEF Stop, Down, At
  <2> QED
    BY <1>6, <1>12, <2>2, <2>3 DEF Stop, disk
<1>13. ASSUME NEW next, NEW optional, ~ At("down"), Check(next, optional) PROVE TypeInv'
  <2>1. CASE touched <= mbox.mtime /\ mbox.optional /\ optional
    <3>1. work' = After(next, FALSE) /\ mbox' = mbox
      BY <1>13, <2>1 DEF Check
    <3>2. WorkTyped' /\ ~ At("down")'
      BY <3>1, NoFields DEF After, Idle, At
    <3> QED
      BY <1>2, <1>6, <1>13, <3>1, <3>2 DEF Check, disk, history
  <2>2. CASE ~ (touched <= mbox.mtime /\ mbox.optional /\ optional)
    <3>1. /\ work' = [op |-> "scanned", next |-> next, scan |-> Ascending(Keys), start |-> touched]
          /\ mbox' = [mbox EXCEPT !.optional = TRUE]
      BY <1>13, <2>2 DEF Check
    <3>2. WorkTyped' /\ ~ At("down")'
      BY <1>1, <3>1, KeysTyped DEF WorkTyped, At
    <3>3. mbox' \in Mailboxes
      BY <1>2, <1>13, <3>1 DEF Mailboxes
    <3> QED
      BY <1>2, <1>6, <1>13, <3>2, <3>3 DEF Check, disk, history
  <2> QED
    BY <2>1, <2>2
<1>14. CASE CheckAtStart \/ CheckInPoll \/ CheckBeforeCommand \/ CheckInAppend
  BY <1>13, <1>14 DEF CheckAtStart, CheckInPoll, CheckBeforeCommand, CheckInAppend, At
<1>15. ASSUME NEW full \in BOOLEAN, FindNothing(full) PROVE TypeInv'
  <2>1. mbox \in Mailboxes /\ row \in Lists /\ work.start \in Nat
    BY <1>2, <1>15 DEF FindNothing, At, WorkTyped
  <2>2. PICK m : m = mbox'
    OBVIOUS
  <2>3. m \in Mailboxes
    BY <1>15, <2>1, <2>2 DEF FindNothing, Mailboxes
  <2>4. row' \in Lists /\ Range(owner') \subseteq 0..MaxMail
    <3>1. CASE full
      <4>1. Commit(m)
        BY <1>15, <2>2, <3>1 DEF FindNothing
      <4> QED
        BY <2>3, <4>1, CommitTyped
    <3>2. CASE ~ full
      BY <1>15, <2>1, <3>2 DEF FindNothing, Lists
    <3> QED
      BY <3>1, <3>2
  <2>5. WorkTyped' /\ ~ At("down")'
    BY <1>15, NoFields DEF FindNothing, After, Idle, At
  <2> QED
    BY <1>6, <1>15, <2>2, <2>3, <2>4, <2>5 DEF FindNothing, disk
<1>16. CASE FindMail
  <2>1. mbox' \in Mailboxes /\ At("noticed")' /\ WorkTyped'
    BY <1>16, FindMailTyped
  <2>2. row \in Lists
    BY <1>2, <1>16 DEF FindMail, At
  <2> QED
    BY <1>6, <1>16, <2>1, <2>2 DEF FindMail, disk, history, At
<1>17. CASE MarkMail
  <2>1. /\ mbox \in Mailboxes /\ row \in Lists /\ work.new \in Seq(Nat) /\ work.scan \in Seq(Nat)
        /\ work.marks \in [Seqs -> SUBSET Nat]
    BY <1>2, <1>17 DEF MarkMail, At, WorkTyped
  <2>2. Len(work.new) \in 0..Len(work.new)
    BY <2>1, ListOf
  <2>3. mbox' \in Mailboxes
    BY <1>17, <2>1, <2>2, MarkedTyped DEF MarkMail
  <2>4. mhs' \in [Seqs -> SUBSET Nat]
    BY <1>17, <2>3 DEF MarkMail, Mailboxes
  <2>5. WorkTyped' /\ ~ At("down")'
    BY <1>17, <2>1 DEF MarkMail, WorkTyped, At
  <2> QED
    BY <1>5, <1>6, <1>17, <2>1, <2>3, <2>4, <2>5 DEF MarkMail, history
<1>18. CASE CommitMail
  <2>1. mbox \in Mailboxes /\ work.scan \in Seq(Nat)
    BY <1>2, <1>18 DEF CommitMail, At, WorkTyped
  <2>2. PICK m : m = mbox'
    OBVIOUS
  <2>3. m \in Mailboxes
    BY <1>1, <1>18, <2>1, <2>2, DueTyped DEF CommitMail
  <2>4. m \in Mailboxes /\ Commit(m)
    BY <1>18, <2>2, <2>3 DEF CommitMail
  <2>5. row' \in Lists /\ Range(owner') \subseteq 0..MaxMail
    BY <2>4, CommitTyped
  <2>6. WorkTyped' /\ ~ At("down")'
    BY <1>18, NoFields DEF CommitMail, After, Idle, At
  <2> QED
    BY <1>6, <1>18, <2>2, <2>4, <2>5, <2>6 DEF CommitMail, disk
<1>19. CASE NoPack \/ PackRaises
  <2>1. /\ UNCHANGED <<disk, row, mbox, history>> /\ ~ At("down")
        /\ work' = Idle \/ work' = [op |-> "dead"]
    BY <1>19 DEF NoPack, PackRaises, At
  <2>2. WorkTyped' /\ ~ At("down")'
    BY <2>1, NoFields DEF Idle, At
  <2> QED
    BY <1>2, <1>6, <2>1, <2>2 DEF disk, history
<1>20. CASE Pack
  <2>1. mbox \in Mailboxes /\ row \in Lists
    BY <1>2, <1>20 DEF Pack, At
  <2>2. FolderInv'
    BY <1>20, FolderPacked DEF Pack
  <2>3. mhs' \in [Seqs -> SUBSET Nat]
    <3>1. \A k \in Keys : Rank(Keys, k) \in Nat
      BY KeysTyped, RankOf
    <3> QED
      BY <1>20, <3>1 DEF Pack
  <2>4. mbox' \in Mailboxes
    <3>1. PICK keys : keys = Ascending(DOMAIN file')
      OBVIOUS
    <3>2. keys \in Seq(Nat)
      BY <2>2, <3>1, AscendingLists DEF FolderInv, Keys
    <3>3. PICK m : m = [mbox EXCEPT !.keys = keys, !.seqs = mhs']
      OBVIOUS
    <3>4. m \in Mailboxes
      BY <2>1, <2>3, <3>2, <3>3 DEF Mailboxes
    <3>5. mbox' = [m EXCEPT !.index = Index(keys)]
      BY <1>20, <2>1, <3>1, <3>3 DEF Pack, Mailboxes
    <3> QED
      BY <3>2, <3>4, <3>5, MailboxTyped
  <2>5. WorkTyped' /\ ~ At("down")'
    BY <1>20, NoFields DEF Pack, At
  <2> QED
    BY <1>5, <1>20, <2>1, <2>2, <2>3, <2>4, <2>5 DEF Pack, history
<1>21. CASE CommitPack
  <2>1. mbox \in Mailboxes
    BY <1>2, <1>21 DEF CommitPack, At
  <2>2. PICK m : m = mbox'
    OBVIOUS
  <2>3. m \in Mailboxes /\ Commit(m)
    BY <1>1, <1>21, <2>1, <2>2, DueTyped DEF CommitPack
  <2>4. row' \in Lists /\ Range(owner') \subseteq 0..MaxMail
    BY <2>3, CommitTyped
  <2>5. WorkTyped' /\ ~ At("down")'
    BY <1>21, NoFields DEF CommitPack, Idle, At
  <2> QED
    BY <1>6, <1>21, <2>2, <2>3, <2>4, <2>5 DEF CommitPack, disk
<1>22. ASSUME NEW k \in 1..MaxMail, NEW s \in Seqs, NEW in \in BOOLEAN, Store(k, s, in) PROVE TypeInv'
  <2>1. mbox \in Mailboxes /\ row \in Lists /\ mbox.seqs \in [Seqs -> SUBSET Nat]
    BY <1>2, <1>22 DEF Store, At
  <2>2. mbox' \in Mailboxes /\ mhs' \in [Seqs -> SUBSET Nat]
    <3>1. PICK q : q = [mbox.seqs EXCEPT ![s] = IF in THEN @ \cup {k} ELSE @ \ {k}]
      OBVIOUS
    <3>2. k \in Nat
      OBVIOUS
    <3>3. q \in [Seqs -> SUBSET Nat]
      BY <2>1, <3>1, <3>2
    <3>4. mbox' = [mbox EXCEPT !.seqs = q]
      BY <1>22, <3>1 DEF Store
    <3>5. mbox' \in Mailboxes /\ mbox'.seqs = q
      BY <2>1, <3>3, <3>4 DEF Mailboxes
    <3> QED
      BY <1>22, <3>3, <3>5 DEF Store
  <2>3. Mail(k) \in 0..MaxMail
    <3>1. 0 \in 0..MaxMail /\ 1..MaxMail \subseteq 0..MaxMail
      BY <1>1
    <3> QED
      BY <3>1, KeysTyped DEF Mail
  <2>4. /\ work' = [op |-> "stored", flag |-> [mail |-> Mail(k), seq |-> s, in |-> in]]
        /\ acked' \subseteq acked
    BY <1>22 DEF Store
  <2>5. WorkTyped' /\ ~ At("down")'
    BY <2>3, <2>4 DEF WorkTyped, At, Flags
  <2> QED
    BY <1>5, <1>6, <1>22, <2>1, <2>2, <2>4, <2>5 DEF Store
<1>23. CASE CommitStore
  <2>1. mbox \in Mailboxes /\ Commit(mbox) /\ work.flag \in Flags
    BY <1>2, <1>23 DEF CommitStore, At, WorkTyped
  <2>2. row' \in Lists /\ Range(owner') \subseteq 0..MaxMail
    BY <2>1, CommitTyped
  <2>3. WorkTyped' /\ ~ At("down")'
    BY <1>23, NoFields DEF CommitStore, Idle, At
  <2> QED
    BY <1>6, <1>23, <2>1, <2>2, <2>3 DEF CommitStore, disk
<1>24. CASE AppendMail
  <2>1. mbox \in Mailboxes /\ row \in Lists /\ mbox.seqs \in [Seqs -> SUBSET Nat]
    BY <1>2, <1>24 DEF AppendMail, At
  <2>2. FolderInv'
    BY <1>24, FolderGrows DEF AppendMail
  <2>3. mbox' \in Mailboxes /\ mhs' \in [Seqs -> SUBSET Nat]
    <3>1. PICK q : q = [mbox.seqs EXCEPT !["unseen"] = @ \cup {NewKey}]
      OBVIOUS
    <3>2. q \in [Seqs -> SUBSET Nat]
      BY <1>4, <2>1, <3>1 DEF Seqs
    <3>3. mbox' = [mbox EXCEPT !.seqs = q]
      BY <1>24, <3>1 DEF AppendMail
    <3>4. mbox' \in Mailboxes /\ mbox'.seqs = q
      BY <2>1, <3>2, <3>3 DEF Mailboxes
    <3> QED
      BY <1>24, <3>2, <3>4 DEF AppendMail
  <2>4. WorkTyped' /\ ~ At("down")'
    BY <1>24, NoFields DEF AppendMail, At
  <2> QED
    BY <1>5, <1>24, <2>1, <2>2, <2>3, <2>4 DEF AppendMail
<1>25. CASE StartExpunge
  <2>1. mbox \in Mailboxes /\ row \in Lists
    BY <1>2, <1>25 DEF StartExpunge, At
  <2>2. /\ work' = [op |-> "expunging", victims |-> mbox.seqs["Deleted"],
                    todo |-> mbox.seqs["Deleted"]]
        /\ mbox.seqs["Deleted"] \subseteq DOMAIN mbox.index /\ mbox' = mbox
    BY <1>25 DEF StartExpunge
  <2>3. WorkTyped' /\ ~ At("down")'
    BY <2>2 DEF WorkTyped, At, Expunging
  <2> QED
    BY <1>6, <1>25, <2>1, <2>3 DEF StartExpunge, disk, history
<1>26. CASE ExpungeOne
  <2>1. mbox \in Mailboxes /\ row \in Lists /\ Expunging(work)
    BY <1>2, <1>26 DEF ExpungeOne, At, WorkTyped
  <2>2. PICK k : k = Max(work.todo)
    OBVIOUS
  <2>3. k \in DOMAIN mbox.index
    BY <1>26, <2>1, <2>2, NextVictim DEF ExpungeOne
  <2>4. /\ mbox.index[k] <= Len(mbox.keys) /\ mbox.index[k] <= Len(mbox.uids)
        /\ mbox' = Dropped(k) /\ file' = [j \in Keys \ {k} |-> file[j]]
        /\ acked' \subseteq acked /\ work' = [work EXCEPT !.todo = @ \ {k}]
    BY <1>26, <2>2 DEF ExpungeOne
  <2>5. mbox' \in Mailboxes /\ mbox'.index = mbox.index
    BY <2>1, <2>3, <2>4, DroppedTyped
  <2>6. FolderInv'
    BY <1>26, <2>4, FolderShrinks DEF ExpungeOne
  <2>7. work' = [op |-> "expunging", victims |-> work.victims, todo |-> work.todo \ {k}]
    <3>1. PICK v, t : v = work.victims /\ t = work.todo
      OBVIOUS
    <3>2. work = [op |-> "expunging", victims |-> v, todo |-> t]
      BY <2>1, <3>1 DEF Expunging
    <3> QED
      BY <2>4, <3>2
  <2>8. WorkTyped' /\ ~ At("down")'
    BY <2>1, <2>5, <2>7 DEF WorkTyped, At, Expunging
  <2> QED
    BY <1>5, <1>26, <2>1, <2>4, <2>5, <2>6, <2>8 DEF ExpungeOne
<1>27. CASE ExpungeFails
  <2>1. mbox \in Mailboxes /\ row \in Lists /\ Expunging(work)
    BY <1>2, <1>27 DEF ExpungeFails, At, WorkTyped
  <2>2. PICK k : k = Max(work.todo)
    OBVIOUS
  <2>3. k \in DOMAIN mbox.index
    BY <1>27, <2>1, <2>2, NextVictim DEF ExpungeFails
  <2>4. mbox' \in Mailboxes
    <3>1. CASE mbox.index[k] > Len(mbox.keys) \/ mbox.index[k] > Len(mbox.uids)
      BY <1>27, <2>1, <2>2, <3>1 DEF ExpungeFails
    <3>2. CASE ~ (mbox.index[k] > Len(mbox.keys) \/ mbox.index[k] > Len(mbox.uids))
      <4>1. mbox' = Dropped(k)
        BY <1>27, <2>2, <3>2 DEF ExpungeFails
      <4>2. mbox.index[k] <= Len(mbox.keys) /\ mbox.index[k] <= Len(mbox.uids)
        <5>1. mbox.index[k] \in Nat /\ Len(mbox.keys) \in Nat /\ Len(mbox.uids) \in Nat
          BY <1>2, <2>1, <2>3, ListOf, IndexTyped DEF Mailboxes
        <5> QED
          BY <3>2, <5>1
      <4> QED
        BY <2>1, <2>3, <4>1, <4>2, DroppedTyped
    <3> QED
      BY <3>1, <3>2
  <2>5. WorkTyped' /\ ~ At("down")'
    BY <1>27, NoFields DEF ExpungeFails, Idle, At
  <2> QED
    BY <1>6, <1>27, <2>1, <2>4, <2>5 DEF ExpungeFails, disk, history
<1>28. CASE FinishExpunge
  <2>1. mbox \in Mailboxes
    BY <1>2, <1>28 DEF FinishExpunge, At
  <2>2. PICK m : m = mbox'
    OBVIOUS
  <2>3. m \in Mailboxes /\ Commit(m)
    BY <1>1, <1>28, <2>1, <2>2, DueTyped DEF FinishExpunge
  <2>4. row' \in Lists /\ Range(owner') \subseteq 0..MaxMail
    BY <2>3, CommitTyped
  <2>5. WorkTyped' /\ ~ At("down")'
    BY <1>28, NoFields DEF FinishExpunge, Idle, At
  <2> QED
    BY <1>6, <1>28, <2>2, <2>3, <2>4, <2>5 DEF FinishExpunge, disk
<1>29. CASE Cancel
  <2>1. mbox \in Mailboxes /\ row \in Lists
    BY <1>2, <1>29 DEF Cancel, At
  <2>2. mbox' \in Mailboxes
    BY <1>29, <2>1, CutTyped DEF Cancel
  <2>3. WorkTyped' /\ ~ At("down")'
    BY <1>29, NoFields DEF Cancel, Idle, At
  <2>4. torn' \in BOOLEAN /\ lost' \in BOOLEAN
    BY <1>29 DEF Cancel
  <2> QED
    BY <1>6, <1>29, <2>1, <2>2, <2>3, <2>4 DEF Cancel, disk
<1>30. CASE CheckFails
  <2>1. mbox \in Mailboxes /\ row \in Lists
    BY <1>2, <1>30 DEF CheckFails, At
  <2>2. WorkTyped'
    BY <1>30, NoFields DEF CheckFails, Idle, Down
  <2>3. IF At("down")' THEN mbox' = NoMbox ELSE mbox' \in Mailboxes
    <3>1. CASE work.next = "start"
      BY <1>30, <3>1 DEF CheckFails, Down, At
    <3>2. CASE work.next # "start"
      BY <1>30, <2>1, <3>2, CutTyped DEF CheckFails, Idle, At
    <3> QED
      BY <3>1, <3>2
  <2>4. torn' \in BOOLEAN /\ lost' \in BOOLEAN
    BY <1>30 DEF CheckFails
  <2> QED
    BY <1>6, <1>30, <2>1, <2>2, <2>3, <2>4 DEF CheckFails, disk
<1>31. CASE CommitHalf
  <2>1. mbox \in Mailboxes /\ row \in Lists
    BY <1>2, <1>31 DEF CommitHalf, At
  <2>2. PICK m : m = Due
    OBVIOUS
  <2>3. m \in Mailboxes /\ Recorded(m)
    BY <1>1, <1>31, <2>1, <2>2, DueTyped DEF CommitHalf
  <2>4. Range(owner') \subseteq 0..MaxMail
    BY <2>3, RecordedTyped
  <2>5. row' \in Lists
    <3>1. PICK r, q : r = Saved(m) /\ q = [s \in Seqs |-> IF r.seqs[s] = {} THEN {} ELSE row.seqs[s]]
      OBVIOUS
    <3>2. row' = [r EXCEPT !.seqs = q] /\ r \in Lists
      BY <1>31, <2>2, <2>3, <3>1, MailboxTyped DEF CommitHalf, Lists
    <3>3. q \in [Seqs -> SUBSET Nat]
      BY <2>1, <3>1 DEF Lists
    <3> QED
      BY <3>2, <3>3 DEF Lists
  <2> QED
    BY <1>6, <1>7, <1>31, <2>1, <2>4, <2>5 DEF CommitHalf, disk
<1>32. CASE UNCHANGED vars
  BY <1>6, <1>7, <1>32 DEF vars, disk, history
<1> QED
  BY <1>8, <1>9, <1>10, <1>11, <1>12, <1>14, <1>15, <1>16, <1>17, <1>18, <1>19, <1>20, <1>21,
     <1>22, <1>23, <1>24, <1>25, <1>26, <1>27, <1>28, <1>29, <1>30, <1>31, <1>32
  DEF StoreNext, CheckSteps, CommandSteps

\* As long as the program runs, the types of the variables are those of StoreTypeOK.
LEMMA TypesFollow == TypeInv => StoreTypeOK
<1> SUFFICES ASSUME TypeInv PROVE StoreTypeOK
  OBVIOUS
<1>1. Keys \subseteq Nat /\ Range(file) \subseteq Mails
  BY KeysTyped DEF TypeInv, Range, Mails, Keys
<1>2. ~ At("down") => Saved(mbox) \in Lists /\ Range(mbox.index) \subseteq Nat /\ mbox.optional \in BOOLEAN
  <2> SUFFICES ASSUME ~ At("down")
               PROVE  Saved(mbox) \in Lists /\ Range(mbox.index) \subseteq Nat /\ mbox.optional \in BOOLEAN
    OBVIOUS
  <2>1. mbox \in Mailboxes
    BY DEF TypeInv
  <2>2. \A k \in DOMAIN mbox.index : mbox.index[k] \in Nat
    BY <2>1, IndexTyped
  <2>3. Range(mbox.index) \subseteq Nat
    BY <2>2 DEF Range
  <2>4. mbox.optional \in BOOLEAN
    BY <2>1 DEF Mailboxes
  <2> QED
    BY <2>1, <2>3, <2>4, MailboxTyped
<1>3. \A a \in acked : a.mail \in 0..MaxMail /\ a.seq \in Seqs /\ a.in \in BOOLEAN
  BY DEF TypeInv, Flags
<1> QED
  BY <1>1, <1>2, <1>3 DEF TypeInv, StoreTypeOK, FolderInv

LEMMA TypeAlways == StoreSpec => []TypeInv
BY TypeInit, TypeStep, PTL DEF StoreSpec

\* The variables of the store have their types: whatever was torn, the lists are
\* lists of numbers, and the index leads to positions.
THEOREM StoreTyped == StoreSpec => []StoreTypeOK
BY TypeAlways, TypesFollow, PTL

-----------------------------------------------------------------------------
(* The lists *)

LEMMA ListsOf ==
  /\ \A m \in Mailboxes : Lists3(m)
  /\ \A r \in Lists : Lists3(r) /\ r # NoRow
<1>1. \A m \in Mailboxes : Lists3(m)
  BY DEF Mailboxes, Lists3
<1>2. \A r \in Lists : Lists3(r)
  BY DEF Lists, Lists3
<1>3. ASSUME NEW r \in Lists PROVE r # NoRow
  <2>1. "keys" \in DOMAIN r
    BY DEF Lists
  <2>2. DOMAIN NoRow = {}
    BY EmptyList DEF NoRow
  <2> QED
    BY <2>1, <2>2
<1> QED
  BY <1>1, <1>2, <1>3

\* The lists are as sound when the history has gone on with them.
LEMMA RecordedSound ==
  ASSUME NEW m \in Mailboxes, Sound(m, file, owner), Recorded(m), UNCHANGED file
  PROVE  Sound(m, file', owner')
<1>1. PICK o : o = owner'
  OBVIOUS
<1>2. o = [u \in DOMAIN owner \cup DOMAIN Leads(m) |->
             IF u \in DOMAIN owner THEN owner[u] ELSE Leads(m)[u]]
  BY <1>1 DEF Recorded
<1>3. Sound(m, file, o)
  BY <1>2, ListsOf, SoundCommitted
<1> QED
  BY <1>1, <1>3

\* What is committed is as sound as the lists were.
LEMMA CommitSound ==
  ASSUME NEW m \in Mailboxes, Sound(m, file, owner), Counted(m), Commit(m), UNCHANGED file
  PROVE  /\ row' \in Lists /\ row'.keys = m.keys /\ row'.seqs = m.seqs
         /\ Sound(row', file', owner') /\ Counted(row') /\ Sound(m, file', owner')
         /\ row' # NoRow
<1>1. row' = Saved(m) /\ Lists3(m) /\ Saved(m) \in Lists
  BY ListsOf, MailboxTyped DEF Commit
<1>2. PICK o : o = owner'
  OBVIOUS
<1>3. Sound(m, file', owner')
  BY RecordedSound DEF Commit
<1>4. Sound(m, file, o)
  BY <1>2, <1>3
<1>5. PICK r : r = Saved(m)
  OBVIOUS
<1>6. SameLists(m, r) /\ r.num = m.num /\ r.seqs = m.seqs /\ r.keys = m.keys /\ r.uids = m.uids
  BY <1>5 DEF Saved, SameLists
<1>7. Sound(r, file, o)
  BY <1>4, <1>6, SoundKept
<1>8. Counted(r)
  BY <1>6 DEF Counted
<1> QED
  BY <1>1, <1>2, <1>4, <1>5, <1>6, <1>7, <1>8, ListsOf

\* Nothing is under way that has lists of its own.
LEMMA QuietLists ==
  ASSUME work'.op \notin {"scanned", "noticed", "written", "expunging"},
         Sound(mbox', file', owner'), Counted(mbox'), mbox'.index = Index(mbox'.keys)
  PROVE  ListsInv' /\ ScanInv' /\ ExpungeInv'
BY DEF ListsInv, ScanInv, ExpungeInv, At

\* A row that nobody has written to.
LEMMA RowStays ==
  ASSUME RowInv, ~ RowBehind, UNCHANGED <<file, row, owner>>
  PROVE  RowInv'
BY DEF RowInv

\* What the step under way is to commit has the lists of the Mailbox.
LEMMA DueSound ==
  ASSUME TypeInv, ListsInv, ScanInv, ~ At("noticed"), ~ At("down")
  PROVE  Due \in Mailboxes /\ SameLists(mbox, Due) /\ Sound(Due, file, owner) /\ Counted(Due)
<1>1. mbox \in Mailboxes /\ Sound(mbox, file, owner) /\ WorkTyped /\ touched \in Nat
  BY StoreAssumption DEF TypeInv, ListsInv
<1>2. PICK m : m = Due
  OBVIOUS
<1>3. m \in Mailboxes
  BY <1>1, <1>2, DueTyped
<1>4. CASE At("written")
  <2>1. m = Noted /\ Len(mbox.uids) = Len(mbox.keys) /\ mbox.keys = work.scan
    BY <1>2, <1>4 DEF Due, ScanInv, At
  <2>2. SameLists(mbox, m) /\ m.uids = mbox.uids /\ m.num = Len(mbox.uids)
    BY <1>1, <2>1 DEF Noted, SameLists, Mailboxes
  <2> QED
    BY <1>1, <1>2, <1>3, <2>2, SoundKept DEF Counted
<1>5. CASE ~ At("written")
  <2>1. Counted(mbox)
    BY <1>5 DEF ListsInv, At
  <2>2. m = Repacked \/ m = Expunged \/ m = mbox
    BY <1>2, <1>5 DEF Due
  <2>3. SameLists(mbox, m) /\ m.num = mbox.num
    <3>1. CASE m = Repacked
      BY <1>1, <3>1 DEF Repacked, SameLists, Mailboxes
    <3>2. CASE m = Expunged
      <4>1. PICK x, q : m = [mbox EXCEPT !.index = x, !.optional = FALSE, !.seqs = q]
        BY <3>2 DEF Expunged
      <4> QED
        BY <1>1, <4>1 DEF SameLists, Mailboxes
    <3>3. CASE m = mbox
      BY <3>3 DEF SameLists
    <3> QED
      BY <2>2, <3>1, <3>2, <3>3
  <2> QED
    BY <1>1, <1>2, <1>3, <2>1, <2>3, SoundKept DEF Counted, SameLists
<1> QED
  BY <1>4, <1>5

\* The lists after a resync has looked into the folder: those of a mailbox t, which
\* has the old ones or none, and the rest of the folder.
LEMMA FoundLists ==
  ASSUME TypeInv, FindMail, Sound(mbox, file, owner), Counted(mbox),
         Lowest(work.scan, Keys), Range(mbox.keys) \subseteq Range(work.scan)
  PROVE  /\ Sound(mbox', file, owner)
         /\ mbox'.keys = work.scan /\ Len(mbox'.uids) = Len(mbox'.keys)
         /\ mbox'.index = Index(mbox'.keys)
         /\ mbox'.seqs = Trusted.seqs /\ work'.marks = FolderSeqs /\ work'.scan = work.scan
         /\ work'.op = "noticed"
         /\ Range(work'.new) = Range(work.scan) \ Range(Trusted.keys)
         /\ \/ Trusted.keys = mbox.keys /\ Trusted.seqs = mbox.seqs
            \/ Range(Trusted.keys) = {}
<1>1. /\ At("scanned") /\ mbox \in Mailboxes /\ work.scan \in Seq(Nat) /\ work.start \in Nat
      /\ ~ (work.scan = mbox.keys /\ Len(mbox.uids) = mbox.num)
  BY DEF FindMail, TypeInv, WorkTyped, At
<1>2. Lists3(mbox) /\ Trusted \in Mailboxes
  BY <1>1, ListsOf, TrustedTyped
<1>3. PICK scan \in Seq(Nat) : scan = work.scan
  BY <1>1
<1>4. PICK t : t = Trusted
  OBVIOUS
<1>5. PICK n : n = mbox'
  OBVIOUS
<1>6. t \in Mailboxes /\ Lists3(t) /\ t.nextUid = mbox.nextUid
  BY <1>1, <1>2, <1>4, ListsOf DEF Trusted, Mailboxes
<1>7. /\ mbox.keys \in Seq(Nat) /\ mbox.uids \in Seq(Nat)
      /\ Len(mbox.keys) \in Nat /\ Len(mbox.uids) \in Nat
      /\ Len(mbox.uids) <= Len(mbox.keys) /\ mbox.nextUid \in Nat \ {0}
      /\ DOMAIN owner \subseteq 1..mbox.nextUid - 1
  BY <1>2, ListOf DEF Lists3, Sound
<1>8. /\ Sound(t, file, owner) /\ Len(t.uids) = Len(t.keys)
      /\ Range(t.keys) \subseteq Range(scan)
      /\ NewKeys(t, scan) # <<>> \/ t.uids = <<>>
      /\ \/ t.keys = mbox.keys /\ t.seqs = mbox.seqs
         \/ Range(t.keys) = {}
  <2>1. CASE Len(work.scan) < mbox.num \/ Len(mbox.uids) < Len(mbox.keys)
    <3>1. t.keys = <<>> /\ t.uids = <<>>
      BY <1>4, <1>6, <2>1 DEF Trusted, Mailboxes
    <3>2. Sound(t, file, owner)
      BY <1>6, <1>7, <3>1, SoundNothing
    <3> QED
      BY <3>1, <3>2, EmptyList
  <2>2. CASE ~ (Len(work.scan) < mbox.num \/ Len(mbox.uids) < Len(mbox.keys))
    <3>1. Len(mbox.uids) = Len(mbox.keys)
      <4>1. ~ (Len(mbox.uids) < Len(mbox.keys))
        BY <2>2
      <4> QED
        BY <1>7, <4>1
    <3>2. t.keys = mbox.keys /\ t.seqs = mbox.seqs
      BY <1>4, <1>6, <2>2 DEF Trusted, Mailboxes
    <3>3. t.uids = mbox.uids
      <4>1. CASE mbox.keys = <<>>
        BY <1>1, <1>4, <2>2, <4>1 DEF Trusted, Mailboxes
      <4>2. CASE mbox.keys # <<>>
        <5>1. t.uids = SubSeq(mbox.uids, Len(mbox.uids) - Len(mbox.keys) + 1, Len(mbox.uids))
          BY <1>1, <1>4, <2>2, <4>2 DEF Trusted, Mailboxes
        <5>2. Len(mbox.uids) - Len(mbox.keys) + 1 = 1
          BY <1>7, <3>1
        <5>3. t.uids = SubSeq(mbox.uids, 1, Len(mbox.uids))
          BY <5>1, <5>2
        <5>4. SubSeq(mbox.uids, 1, Len(mbox.uids)) = mbox.uids
          BY <1>7
        <5> QED
          BY <5>3, <5>4
      <4> QED
        BY <4>1, <4>2
    <3>4. Sound(t, file, owner)
      BY <1>6, <3>2, <3>3, SoundKept DEF SameLists
    <3>5. Len(t.uids) = Len(t.keys) /\ Range(t.keys) \subseteq Range(scan)
      BY <1>3, <3>1, <3>2, <3>3
    <3>6. NewKeys(t, scan) = <<>> => t.uids = <<>>
      <4> SUFFICES ASSUME NewKeys(t, scan) = <<>> PROVE t.uids = <<>>
        OBVIOUS
      <4>1. Rising(mbox.keys) /\ Rising(scan)
        BY <1>3 DEF Sound, Lowest
      <4>2. Ascending(Range(scan) \ Range(mbox.keys)) = <<>>
        BY <3>2 DEF NewKeys
      <4>3. scan = mbox.keys
        BY <1>3, <1>7, <4>1, <4>2, NothingNew
      <4>4. Len(mbox.uids) # mbox.num
        BY <1>1, <1>3, <4>3
      <4> QED
        BY <3>3, <4>4 DEF Counted
    <3> QED
      BY <3>2, <3>4, <3>5, <3>6
  <2> QED
    BY <2>1, <2>2
<1>9. PICK new : new = NewKeys(t, scan)
  OBVIOUS
<1>10. PICK uids : uids = t.uids \o NewUids(t, scan)
  OBVIOUS
<1>11. PICK keys : keys = t.keys \o new
  OBVIOUS
<1>12. PICK beyond : beyond = IF uids = <<>> THEN t.nextUid ELSE Last(uids) + 1
  OBVIOUS
<1>13. /\ n = [t EXCEPT !.keys = keys, !.uids = uids, !.index = Index(keys), !.nextUid = beyond]
       /\ work' = [op |-> "noticed", next |-> work.next, scan |-> scan,
                   new |-> new, marks |-> FolderSeqs]
  <2>1. NewUids(t, scan) = [i \in DOMAIN new |-> mbox.nextUid + i - 1]
    BY <1>6, <1>9 DEF NewUids
  <2>2. new = Ascending(Range(work.scan) \ Range(Trusted.keys))
    BY <1>3, <1>4, <1>9 DEF NewKeys
  <2> QED
    BY <1>3, <1>4, <1>5, <1>10, <1>11, <1>12, <2>1, <2>2 DEF FindMail
<1>14. /\ n.keys = keys /\ n.uids = uids /\ n.nextUid = beyond /\ n.index = Index(keys)
       /\ n.seqs = t.seqs
  BY <1>6, <1>13 DEF Mailboxes
<1>15. Extends(t, n, scan)
  BY <1>9, <1>10, <1>11, <1>12, <1>14 DEF Extends
<1>16. /\ Sound(n, file, owner) /\ n.keys = scan /\ Len(n.uids) = Len(n.keys)
       /\ Range(new) = Range(scan) \ Range(t.keys)
  <2>1. Lowest(scan, DOMAIN file)
    BY <1>3 DEF Keys
  <2> QED
    BY <1>6, <1>8, <1>9, <1>15, <2>1, SoundFinds
<1> QED
  BY <1>3, <1>4, <1>5, <1>8, <1>13, <1>14, <1>16

\* One more message: what was sound still is.
LEMMA ListsGrow ==
  ASSUME TypeInv, RowInv, ListsInv, ScanInv, FolderInv', Keys' = Keys \cup {NewKey},
         \A k \in Keys : k < NewKey /\ file'[k] = file[k],
         UNCHANGED <<row, owner>>
  PROVE  /\ (row # NoRow /\ ~ RowBehind) => Sound(row, file', owner)
         /\ ~ At("down") => Sound(mbox, file', owner)
         /\ \A s : Lowest(s, Keys) => Lowest(s, Keys')
<1>1. PICK f, n : f = file' /\ n = NewKey
  OBVIOUS
<1>2. DOMAIN f = DOMAIN file \cup {n} /\ \A k \in DOMAIN file : k < n /\ f[k] = file[k]
  BY <1>1 DEF Keys
<1>3. (row # NoRow /\ ~ RowBehind) => Sound(row, f, owner)
  <2> SUFFICES ASSUME row # NoRow, ~ RowBehind PROVE Sound(row, f, owner)
    OBVIOUS
  <2>1. Lists3(row) /\ Sound(row, file, owner)
    BY ListsOf DEF TypeInv, RowInv
  <2> QED
    BY <1>2, <2>1, SoundGrows
<1>4. ~ At("down") => Sound(mbox, f, owner)
  <2> SUFFICES ASSUME ~ At("down") PROVE Sound(mbox, f, owner)
    OBVIOUS
  <2>1. Lists3(mbox) /\ Sound(mbox, file, owner)
    BY ListsOf DEF TypeInv, ListsInv
  <2> QED
    BY <1>2, <2>1, SoundGrows
<1>5. \A s : Lowest(s, Keys) => Lowest(s, Keys \cup {NewKey})
  BY LowestGrows
<1> QED
  BY <1>1, <1>3, <1>4, <1>5

\* A torn mailbox stays torn.
LEMMA TornStays == [StoreNext]_vars /\ torn => torn'
BY DEF StoreNext, CheckSteps, CommandSteps, Tick, Deliver, Crash, Activate, Stop, CheckAtStart,
       CheckInPoll, CheckBeforeCommand, CheckInAppend, Check, FindNothing, FindMail, MarkMail,
       CommitMail, NoPack, PackRaises, Pack, CommitPack, Store, CommitStore, AppendMail,
       StartExpunge, ExpungeOne, ExpungeFails, FinishExpunge, Cancel, CheckFails, CommitHalf,
       vars, history

\* An EXPUNGE takes the highest message that is left out of the lists.
LEMMA ExpungeSound ==
  ASSUME TypeInv, ListsInv, ExpungeInv, ExpungeOne
  PROVE  /\ Sound(mbox', file', owner) /\ Counted(mbox') /\ ExpungeInv'
         /\ At("expunging")' /\ Underway'
         /\ Keys' = Keys \ {Max(work.todo)} /\ Max(work.todo) \in Keys
         /\ \A k \in Keys' : file'[k] = file[k]
         /\ Range(mbox'.keys) = Range(mbox.keys) \ {Max(work.todo)}
         /\ mbox'.seqs = mbox.seqs
<1>1. /\ mbox \in Mailboxes /\ Lists3(mbox) /\ Expunging(work) /\ At("expunging") /\ FolderInv
      /\ work.todo # {}
  BY ListsOf DEF ExpungeOne, TypeInv, WorkTyped, At
<1>2. Sound(mbox, file, owner) /\ Counted(mbox)
  BY <1>1 DEF ListsInv, At
<1>3. PICK k : k = Max(work.todo)
  OBVIOUS
<1>4. /\ k \in work.todo /\ k \in DOMAIN mbox.index /\ \A j \in work.todo : j <= k /\ j \in Nat
  BY <1>1, <1>3, NextVictim
<1>5. PICK p : p = mbox.index[k]
  OBVIOUS
<1>6. p \in DOMAIN mbox.uids /\ mbox.keys[p] = k
  BY <1>1, <1>4, <1>5 DEF ExpungeInv
<1>7. PICK n : n = mbox'
  OBVIOUS
<1>8. PICK g : g = file'
  OBVIOUS
<1>9. /\ n.keys = RemoveAt(mbox.keys, p) /\ n.uids = RemoveAt(mbox.uids, p)
      /\ n.nextUid = mbox.nextUid /\ n.num = mbox.num - 1 /\ n.seqs = mbox.seqs
      /\ n.index = mbox.index
      /\ g = [j \in Keys \ {k} |-> file[j]] /\ k \in Keys
  BY <1>1, <1>3, <1>5, <1>7, <1>8 DEF ExpungeOne, Dropped, Mailboxes
<1>10. DOMAIN g = DOMAIN file \ {mbox.keys[p]} /\ \A j \in DOMAIN g : g[j] = file[j]
  BY <1>6, <1>9 DEF Keys
<1>11. DOMAIN file \subseteq Nat
  BY <1>1 DEF FolderInv, Keys
<1>12. /\ Lists3(n) /\ Sound(n, g, owner) /\ Range(n.keys) = Range(mbox.keys) \ {k}
       /\ Len(n.uids) = Len(mbox.uids) - 1
       /\ \A i \in DOMAIN mbox.uids : i < p => i \in DOMAIN n.uids /\ n.keys[i] = mbox.keys[i]
  <2>1. Shrinks(mbox, n, file, g, p)
    BY <1>6, <1>9, <1>10 DEF Shrinks
  <2>2. /\ Lists3(n) /\ Sound(n, g, owner) /\ Range(n.keys) = Range(mbox.keys) \ {mbox.keys[p]}
        /\ Len(n.uids) = Len(mbox.uids) - 1
        /\ \A i \in DOMAIN mbox.uids : i < p => i \in DOMAIN n.uids /\ n.keys[i] = mbox.keys[i]
    BY <1>1, <1>2, <1>11, <2>1, SoundShrinks
  <2> QED
    BY <1>6, <2>2
<1>13. Counted(n)
  <2>1. mbox.num = Len(mbox.uids)
    <3>1. mbox.uids # <<>>
      BY <1>6, EmptyList
    <3> QED
      BY <1>2, <3>1 DEF Counted
  <2> QED
    BY <1>9, <1>12, <2>1 DEF Counted
<1>14. work' = [op |-> "expunging", victims |-> work.victims, todo |-> work.todo \ {k}]
  <2>1. PICK v, t : v = work.victims /\ t = work.todo
    OBVIOUS
  <2>2. work = [op |-> "expunging", victims |-> v, todo |-> t]
    BY <1>1, <2>1 DEF Expunging
  <2>3. work' = [work EXCEPT !.todo = @ \ {k}]
    BY <1>3 DEF ExpungeOne
  <2> QED
    BY <2>1, <2>2, <2>3
<1>15. PICK w : w = work'
  OBVIOUS
<1>16. w.victims = work.victims /\ w.todo = work.todo \ {k} /\ w.op = "expunging"
  BY <1>14, <1>15
<1>17. work.todo \subseteq work.victims
  BY <1>1 DEF Expunging
<1>18. w.todo # w.victims
  BY <1>4, <1>16, <1>17
<1>19. \A i \in w.victims \ w.todo, j \in w.todo : j < i
  <2> SUFFICES ASSUME NEW i \in w.victims \ w.todo, NEW j \in w.todo PROVE j < i
    OBVIOUS
  <2>1. CASE i = k
    <3>1. j <= k /\ j # k /\ j \in Nat /\ k \in Nat
      BY <1>4, <1>16
    <3> QED
      BY <2>1, <3>1
  <2>2. CASE i # k
    BY <1>1, <1>16, <2>2 DEF ExpungeInv
  <2> QED
    BY <2>1, <2>2
<1>20. \A i \in w.victims \ w.todo : i \notin Range(n.keys)
  BY <1>1, <1>12, <1>16 DEF ExpungeInv
<1>21. \A j \in w.todo : n.index[j] \in DOMAIN n.uids /\ n.keys[n.index[j]] = j
  <2> SUFFICES ASSUME NEW j \in w.todo
               PROVE  n.index[j] \in DOMAIN n.uids /\ n.keys[n.index[j]] = j
    OBVIOUS
  <2>1. PICK q : q = mbox.index[j]
    OBVIOUS
  <2>2. j \in work.todo /\ j # k /\ j <= k /\ j \in Nat /\ k \in Nat
    BY <1>4, <1>16
  <2>3. q \in DOMAIN mbox.uids /\ mbox.keys[q] = j
    BY <1>1, <2>1, <2>2 DEF ExpungeInv
  <2>4. q \in DOMAIN mbox.keys /\ p \in DOMAIN mbox.keys
    BY <1>1, <1>2, <1>6, <2>3, SoundPositions
  <2>5. q \in Nat /\ p \in Nat
    <3>1. mbox.keys \in Seq(Nat)
      BY <1>1 DEF Lists3
    <3> QED
      BY <2>4, <3>1, ListOf
  <2>6. q < p
    <3>1. p < q => mbox.keys[p] < mbox.keys[q]
      BY <1>2, <2>4 DEF Sound, Lowest, Rising
    <3>2. ~ (p < q)
      BY <1>6, <2>2, <2>3, <3>1
    <3>3. p # q
      BY <1>6, <2>2, <2>3
    <3> QED
      BY <2>5, <3>2, <3>3
  <2> QED
    BY <1>9, <1>12, <2>1, <2>3, <2>6
<1>22. ExpungeInv' /\ At("expunging")' /\ Underway'
  BY <1>7, <1>15, <1>16, <1>18, <1>19, <1>20, <1>21 DEF ExpungeInv, Underway, At
<1>23. Keys' = Keys \ {k} /\ k \in Keys /\ \A j \in Keys' : file'[j] = file[j]
  BY <1>8, <1>9 DEF Keys
<1> QED
  BY <1>3, <1>7, <1>8, <1>9, <1>12, <1>13, <1>22, <1>23

\* As long as nothing was torn, no EXPUNGE fails over the lists.
LEMMA NoExpungeFails ==
  ASSUME TypeInv, ListsInv, ExpungeInv
  PROVE  ~ ExpungeFails
<1> SUFFICES ASSUME ExpungeFails PROVE FALSE
  OBVIOUS
<1>1. /\ mbox \in Mailboxes /\ Lists3(mbox) /\ Expunging(work) /\ At("expunging") /\ FolderInv
      /\ work.todo # {}
  BY ListsOf DEF ExpungeFails, TypeInv, WorkTyped, At
<1>2. Sound(mbox, file, owner)
  BY <1>1 DEF ListsInv, At
<1>3. PICK k : k = Max(work.todo)
  OBVIOUS
<1>4. k \in work.todo
  BY <1>1, <1>3, NextVictim
<1>5. PICK p : p = mbox.index[k]
  OBVIOUS
<1>6. p \in DOMAIN mbox.uids /\ mbox.keys[p] = k
  BY <1>1, <1>4, <1>5 DEF ExpungeInv
<1>7. p \in DOMAIN mbox.keys /\ k \in Keys
  BY <1>1, <1>2, <1>6, SoundPositions DEF Keys
<1>8. p \in Nat /\ Len(mbox.keys) \in Nat /\ Len(mbox.uids) \in Nat
      /\ p <= Len(mbox.keys) /\ p <= Len(mbox.uids)
  <2>1. /\ DOMAIN mbox.keys = 1..Len(mbox.keys) /\ DOMAIN mbox.uids = 1..Len(mbox.uids)
        /\ Len(mbox.keys) \in Nat /\ Len(mbox.uids) \in Nat
    BY <1>1, ListOf DEF Lists3
  <2> QED
    BY <1>6, <1>7, <2>1
<1>9. ~ (p > Len(mbox.keys) \/ p > Len(mbox.uids))
  BY <1>8
<1> QED
  BY <1>3, <1>5, <1>7, <1>9 DEF ExpungeFails

LEMMA ListInit == StoreInit => ListInv
<1> SUFFICES ASSUME StoreInit PROVE ListInv
  OBVIOUS
<1>1. At("down") /\ row = NoRow /\ owner = <<>>
  BY DEF StoreInit, At, Down
<1> QED
  BY <1>1 DEF ListInv, RowInv, ListsInv, ScanInv, ExpungeInv, At

\* A Mailbox is made of the row, or of nothing.
LEMMA ActivateSound ==
  ASSUME TypeInv, RowInv, At("down"), NEW marked, Activate(marked)
  PROVE  /\ RowInv' /\ row' # NoRow
         /\ Sound(mbox', file, owner) /\ Counted(mbox') /\ mbox'.index = Index(mbox'.keys)
         /\ IF row = NoRow THEN mbox'.seqs = FolderSeqs /\ mbox'.keys = <<>>
            ELSE row' = row /\ mbox'.keys = row.keys /\ mbox'.seqs = row.seqs
<1>1. work'.op = "restored" /\ UNCHANGED <<file, owner>>
  BY DEF Activate, history
<1>2. ~ RowBehind /\ ~ RowBehind'
  BY <1>1 DEF RowBehind, Underway, At
<1>3. CASE row = NoRow
  <2>1. PICK fresh : fresh = [keys |-> <<>>, uids |-> <<>>, nextUid |-> 1, seqs |-> FolderSeqs,
                              mtime |-> touched, num |-> 0]
    OBVIOUS
  <2>2. row' = [fresh EXCEPT !.num = Cardinality(Keys)] /\ mbox' = Restored(fresh)
    BY <1>3, <2>1 DEF Activate
  <2>3. owner = <<>> /\ DOMAIN owner = {}
    BY <1>3, EmptyList DEF RowInv
  <2>4. ASSUME NEW m, m.keys = <<>>, m.uids = <<>>, m.nextUid = 1
        PROVE  Sound(m, file, owner) /\ Counted(m)
    BY <2>3, <2>4, SoundNothing DEF Counted
  <2>5. row'.keys = <<>> /\ row'.uids = <<>> /\ row'.nextUid = 1
    BY <2>1, <2>2
  <2>6. /\ mbox'.keys = <<>> /\ mbox'.uids = <<>> /\ mbox'.nextUid = 1
        /\ mbox'.seqs = FolderSeqs /\ mbox'.index = Index(mbox'.keys)
    BY <2>1, <2>2 DEF Restored
  <2>7. row' \in Lists \/ row' # NoRow
    <3>1. "keys" \in DOMAIN row'
      BY <2>1, <2>2
    <3>2. DOMAIN NoRow = {}
      BY EmptyList DEF NoRow
    <3> QED
      BY <3>1, <3>2
  <2>8. row' # NoRow
    BY <2>7, ListsOf
  <2>9. PICK r, m : r = row' /\ m = mbox'
    OBVIOUS
  <2>10. Sound(r, file, owner) /\ Counted(r) /\ Sound(m, file, owner) /\ Counted(m)
    BY <2>4, <2>5, <2>6, <2>9
  <2> QED
    BY <1>1, <1>3, <2>6, <2>8, <2>9, <2>10 DEF RowInv
<1>4. CASE row # NoRow
  <2>1. row \in Lists /\ Lists3(row) /\ Sound(row, file, owner) /\ Counted(row)
    BY <1>2, <1>4, ListsOf DEF TypeInv, RowInv
  <2>2. Migrated = row
    <3>1. CASE row.keys = <<>>
      <4>1. Len(row.uids) \in Nat /\ Len(row.keys) = 0 /\ row.uids \in Seq(Nat)
        BY <2>1, <3>1, EmptyList, ListOf DEF Lists3
      <4>2. Len(row.uids) = 0
        BY <2>1, <4>1 DEF Sound
      <4>3. row.uids = <<>>
        BY <4>1, <4>2, EmptyList
      <4> QED
        BY <4>3 DEF Migrated
    <3>2. CASE row.keys # <<>>
      BY <3>2 DEF Migrated
    <3> QED
      BY <3>1, <3>2
  <2>3. mbox' = Restored(row) /\ row' = row
    BY <1>4, <2>2 DEF Activate
  <2>4. PICK m : m = Restored(row)
    OBVIOUS
  <2>5. /\ SameLists(row, m) /\ m.num = row.num /\ m.seqs = row.seqs /\ m.keys = row.keys
        /\ m.uids = row.uids /\ m.index = Index(m.keys)
    BY <2>4 DEF SameLists, Restored
  <2>6. Sound(m, file, owner) /\ Counted(m)
    BY <2>1, <2>5, SoundKept DEF Counted
  <2> QED
    BY <1>1, <1>2, <1>4, <2>1, <2>3, <2>4, <2>5, <2>6 DEF RowInv
<1> QED
  BY <1>3, <1>4

\* Where a resync may begin.
LEMMA CheckBegins ==
  ASSUME CheckAtStart \/ CheckInPoll \/ CheckBeforeCommand \/ CheckInAppend
  PROVE  \E next, optional : work.op \in {"restored", "idle", "appended"} /\ Check(next, optional)
<1>1. PICK yes, no, asked : yes = TRUE /\ no = FALSE /\ asked = work.optional
  OBVIOUS
<1>2. \/ work.op = "restored" /\ Check("start", asked)
      \/ work.op = "idle" /\ (Check("poll", yes) \/ Check("command", yes))
      \/ work.op = "appended" /\ Check("append", no)
  BY <1>1 DEF CheckAtStart, CheckInPoll, CheckBeforeCommand, CheckInAppend, At
<1> QED
  BY <1>2

LEMMA ListStep == TypeInv /\ TypeInv' /\ ListInv /\ [StoreNext]_vars => ListInv'
<1> SUFFICES ASSUME TypeInv, TypeInv', ListInv, [StoreNext]_vars, ~ torn'
             PROVE  RowInv' /\ ListsInv' /\ ScanInv' /\ ExpungeInv'
  BY DEF ListInv
<1>1. RowInv /\ ListsInv /\ ScanInv /\ ExpungeInv
  BY TornStays DEF ListInv
<1>2. /\ ~ At("down") => /\ mbox \in Mailboxes /\ row \in Lists /\ row # NoRow
                         /\ Sound(mbox, file, owner)
      /\ FolderInv
  BY <1>1, ListsOf DEF TypeInv, ListsInv
\* An action that leaves the lists of the Mailbox, or has committed them.
<1>3. ASSUME NEW m \in Mailboxes, NEW n, SameLists(m, n), n.num = m.num, Counted(m),
             Sound(m, file, owner)
      PROVE  Sound(n, file, owner) /\ Counted(n)
  BY <1>3, SoundKept DEF SameLists, Counted
<1>4. ASSUME NEW m \in Mailboxes, Sound(m, file, owner), Counted(m), Commit(m), UNCHANGED file
      PROVE  RowInv' /\ Sound(m, file', owner')
  <2>1. Sound(row', file', owner') /\ Counted(row') /\ Sound(m, file', owner') /\ row' # NoRow
    BY <1>4, CommitSound
  <2> QED
    BY <2>1 DEF RowInv
<1>5. CASE Tick \/ UNCHANGED vars
  BY <1>1, <1>5 DEF Tick, vars, disk, history, RowInv, RowBehind, ListsInv, ScanInv, ExpungeInv,
                    Underway, At, Keys
<1>6. CASE Deliver
  <2>1. /\ Keys' = Keys \cup {NewKey} /\ \A k \in Keys : k < NewKey /\ file'[k] = file[k]
        /\ UNCHANGED <<row, mbox, work, owner>> /\ FolderInv'
    BY <1>2, <1>6, FolderGrows DEF Deliver, history
  <2>2. /\ (row # NoRow /\ ~ RowBehind) => Sound(row, file', owner)
        /\ ~ At("down") => Sound(mbox, file', owner)
        /\ \A s : Lowest(s, Keys) => Lowest(s, Keys')
    BY <1>1, <2>1, ListsGrow
  <2>3. RowInv'
    BY <1>1, <2>1, <2>2 DEF RowInv, RowBehind, Underway, At
  <2>4. ListsInv'
    BY <1>1, <2>1, <2>2 DEF ListsInv, At
  <2>5. ScanInv'
    BY <1>1, <2>1, <2>2 DEF ScanInv, At
  <2>6. ExpungeInv'
    BY <1>1, <2>1 DEF ExpungeInv, At
  <2> QED
    BY <2>3, <2>4, <2>5, <2>6
<1>7. CASE Crash
  <2>1. ~ RowBehind /\ work' = Down /\ UNCHANGED <<file, row, owner>>
    BY <1>7 DEF Crash, RowBehind, disk
  <2>2. RowInv'
    BY <1>1, <2>1, RowStays
  <2> QED
    BY <2>1, <2>2 DEF ListsInv, ScanInv, ExpungeInv, At, Down
<1>8. ASSUME NEW marked \in BOOLEAN, Activate(marked)
      PROVE  RowInv' /\ ListsInv' /\ ScanInv' /\ ExpungeInv'
  <2>1. /\ RowInv'
        /\ Sound(mbox', file, owner) /\ Counted(mbox') /\ mbox'.index = Index(mbox'.keys)
    BY <1>1, <1>8, ActivateSound DEF Activate
  <2>2. work'.op = "restored" /\ UNCHANGED <<file, owner>>
    BY <1>8 DEF Activate, history
  <2> QED
    BY <2>1, <2>2, QuietLists
<1>9. CASE Stop
  <2>1. mbox \in Mailboxes /\ Sound(mbox, file, owner) /\ Counted(mbox) /\ Commit(mbox)
    BY <1>1, <1>2, <1>9 DEF Stop, ListsInv, At
  <2>2. RowInv' /\ work' = Down
    BY <1>4, <1>9, <2>1 DEF Stop, disk
  <2> QED
    BY <2>2 DEF ListsInv, ScanInv, ExpungeInv, At, Down
<1>10. ASSUME NEW next, NEW optional, work.op \in {"restored", "idle", "appended"},
              Check(next, optional)
       PROVE  RowInv' /\ ListsInv' /\ ScanInv' /\ ExpungeInv'
  <2>1. /\ mbox \in Mailboxes /\ Sound(mbox, file, owner) /\ Counted(mbox)
        /\ mbox.index = Index(mbox.keys) /\ ~ RowBehind
    BY <1>1, <1>2, <1>10 DEF ListsInv, At, RowBehind, Underway
  <2>2. UNCHANGED <<file, row, owner>>
    BY <1>10 DEF Check, disk, history
  <2>3. RowInv'
    BY <1>1, <2>1, <2>2, RowStays
  <2>4. CASE touched <= mbox.mtime /\ mbox.optional /\ optional
    <3>1. work' = After(next, FALSE) /\ mbox' = mbox
      BY <1>10, <2>4 DEF Check
    <3>2. work'.op \in {"idle", "packing"}
      BY <3>1 DEF After, Idle
    <3> QED
      BY <2>1, <2>2, <2>3, <3>1, <3>2, QuietLists
  <2>5. CASE ~ (touched <= mbox.mtime /\ mbox.optional /\ optional)
    <3>1. PICK m : m = mbox'
      OBVIOUS
    <3>2. work'.op = "scanned" /\ work'.scan = Ascending(Keys) /\ m = [mbox EXCEPT !.optional = TRUE]
      <4>1. /\ work' = [op |-> "scanned", next |-> next, scan |-> Ascending(Keys), start |-> touched]
            /\ mbox' = [mbox EXCEPT !.optional = TRUE]
        BY <1>10, <2>5 DEF Check
      <4> QED
        BY <3>1, <4>1
    <3>3. SameLists(mbox, m) /\ m.num = mbox.num /\ m.keys = mbox.keys /\ m.index = mbox.index
      BY <2>1, <3>2 DEF SameLists, Mailboxes
    <3>4. Sound(m, file, owner) /\ Counted(m)
      BY <1>3, <2>1, <3>3
    <3>5. Lowest(work'.scan, Keys) /\ Range(m.keys) \subseteq Range(work'.scan)
      <4>1. Range(Ascending(Keys)) = Keys /\ Rising(Ascending(Keys))
        BY <1>2, KeysTyped, AscendingLists
      <4>2. Range(mbox.keys) \subseteq Keys
        BY <2>1 DEF Sound, Lowest, Keys
      <4> QED
        BY <3>2, <3>3, <4>1, <4>2 DEF Lowest
    <3>6. Keys' = Keys
      BY <2>2 DEF Keys
    <3> QED
      BY <2>1, <2>2, <2>3, <3>1, <3>2, <3>3, <3>4, <3>5, <3>6
      DEF ListsInv, ScanInv, ExpungeInv, At
  <2> QED
    BY <2>4, <2>5
<1>11. CASE CheckAtStart \/ CheckInPoll \/ CheckBeforeCommand \/ CheckInAppend
  BY <1>10, <1>11, CheckBegins
<1>12. ASSUME NEW full \in BOOLEAN, FindNothing(full)
       PROVE  RowInv' /\ ListsInv' /\ ScanInv' /\ ExpungeInv'
  <2>1. /\ mbox \in Mailboxes /\ Sound(mbox, file, owner) /\ Counted(mbox) /\ row \in Lists
        /\ mbox.index = Index(mbox.keys) /\ ~ RowBehind /\ row # NoRow
    BY <1>1, <1>2, <1>12 DEF FindNothing, ListsInv, At, RowBehind, Underway
  <2>2. PICK m : m = mbox'
    OBVIOUS
  <2>3. m = [mbox EXCEPT !.mtime = work.start] /\ UNCHANGED file
    BY <1>12, <2>2 DEF FindNothing, disk
  <2>4. /\ SameLists(mbox, m) /\ m.num = mbox.num /\ m.keys = mbox.keys /\ m.index = mbox.index
        /\ m \in Mailboxes
    <3>1. work.start \in Nat
      BY <1>12 DEF FindNothing, TypeInv, WorkTyped, At
    <3> QED
      BY <2>1, <2>3, <3>1 DEF SameLists, Mailboxes
  <2>5. Sound(m, file, owner) /\ Counted(m)
    BY <1>3, <2>1, <2>4
  <2>6. RowInv' /\ Sound(m, file', owner')
    <3>1. CASE full
      <4>1. Commit(m)
        BY <1>12, <2>2, <3>1 DEF FindNothing
      <4> QED
        BY <1>4, <2>3, <2>4, <2>5, <4>1
    <3>2. CASE ~ full
      <4>1. PICK r : r = row'
        OBVIOUS
      <4>2. r = [row EXCEPT !.mtime = work.start] /\ UNCHANGED owner
        BY <1>12, <3>2, <4>1 DEF FindNothing
      <4>3. /\ r.keys = row.keys /\ r.uids = row.uids /\ r.nextUid = row.nextUid /\ r.num = row.num
            /\ "keys" \in DOMAIN r
        BY <2>1, <4>2 DEF Lists
      <4>4. r # NoRow
        <5>1. DOMAIN NoRow = {}
          BY EmptyList DEF NoRow
        <5> QED
          BY <4>3, <5>1
      <4>5. Sound(row, file, owner) /\ Counted(row)
        BY <1>1, <2>1 DEF RowInv
      <4>6. Sound(r, file, owner) /\ Counted(r)
        BY <4>3, <4>5, SoundKept DEF SameLists, Counted
      <4> QED
        BY <2>3, <2>5, <4>1, <4>2, <4>4, <4>6 DEF RowInv
    <3> QED
      BY <3>1, <3>2
  <2>7. work'.op \in {"idle", "packing"}
    BY <1>12 DEF FindNothing, After, Idle
  <2> QED
    BY <2>1, <2>2, <2>4, <2>5, <2>6, <2>7, QuietLists
<1>13. CASE FindMail
  <2>1. /\ Sound(mbox, file, owner) /\ Counted(mbox) /\ ~ RowBehind
        /\ Lowest(work.scan, Keys) /\ Range(mbox.keys) \subseteq Range(work.scan)
    BY <1>1, <1>2, <1>13 DEF FindMail, ListsInv, ScanInv, At, RowBehind, Underway
  <2>2. /\ Sound(mbox', file, owner)
        /\ mbox'.keys = work.scan /\ Len(mbox'.uids) = Len(mbox'.keys)
        /\ mbox'.index = Index(mbox'.keys)
        /\ work'.scan = work.scan /\ work'.op = "noticed"
        /\ Range(work'.new) = Range(work.scan) \ Range(Trusted.keys)
    BY <1>13, <2>1, FoundLists
  <2>3. UNCHANGED <<file, row, owner>> /\ Keys' = Keys
    BY <1>13 DEF FindMail, disk, history, Keys
  <2>4. RowInv'
    BY <1>1, <2>1, <2>3, RowStays
  <2> QED
    BY <2>1, <2>2, <2>3, <2>4 DEF ListsInv, ScanInv, ExpungeInv, At
<1>14. CASE MarkMail
  <2>1. /\ mbox \in Mailboxes /\ Sound(mbox, file, owner) /\ ~ RowBehind
        /\ mbox.index = Index(mbox.keys) /\ Lowest(work.scan, Keys)
        /\ mbox.keys = work.scan /\ Len(mbox.uids) = Len(mbox.keys)
    BY <1>1, <1>2, <1>14 DEF MarkMail, ListsInv, ScanInv, At, RowBehind, Underway
  <2>2. PICK m : m = mbox'
    OBVIOUS
  <2>3. /\ SameLists(mbox, m) /\ m.keys = mbox.keys /\ m.uids = mbox.uids /\ m.index = mbox.index
    BY <1>14, <2>1, <2>2 DEF MarkMail, Marked, SameLists, Mailboxes
  <2>4. Sound(m, file, owner)
    BY <2>1, <2>3, SoundKept
  <2>5. /\ work'.op = "written" /\ work'.scan = work.scan
        /\ UNCHANGED <<file, row, owner>> /\ Keys' = Keys
    BY <1>14 DEF MarkMail, history, Keys
  <2>6. RowInv'
    BY <1>1, <2>1, <2>5, RowStays
  <2> QED
    BY <2>1, <2>2, <2>3, <2>4, <2>5, <2>6 DEF ListsInv, ScanInv, ExpungeInv, At
<1>15. CASE CommitMail
  <2>1. /\ mbox \in Mailboxes /\ Sound(mbox, file, owner)
        /\ mbox.index = Index(mbox.keys)
        /\ mbox.keys = work.scan /\ Len(mbox.uids) = Len(mbox.keys)
    BY <1>1, <1>2, <1>15 DEF CommitMail, ListsInv, ScanInv, At
  <2>2. PICK m : m = mbox'
    OBVIOUS
  <2>3. /\ m \in Mailboxes /\ Commit(m)
        /\ m = [mbox EXCEPT !.num = Len(work.scan), !.mtime = touched] /\ UNCHANGED file
    BY <1>15, <2>2 DEF CommitMail, Noted, disk, TypeInv, After, Idle, At
  <2>4. /\ SameLists(mbox, m) /\ m.keys = mbox.keys /\ m.uids = mbox.uids /\ m.index = mbox.index
        /\ m.num = Len(work.scan)
    BY <2>1, <2>3 DEF SameLists, Mailboxes
  <2>5. Sound(m, file, owner) /\ Counted(m)
    BY <2>1, <2>4, SoundKept DEF Counted
  <2>6. RowInv' /\ Sound(m, file', owner')
    BY <1>4, <2>3, <2>5
  <2>7. work'.op \in {"idle", "packing"}
    BY <1>15 DEF CommitMail, After, Idle
  <2> QED
    BY <2>1, <2>2, <2>4, <2>5, <2>6, <2>7, QuietLists
<1>16. CASE NoPack \/ PackRaises
  <2>1. /\ Sound(mbox, file, owner) /\ Counted(mbox)
        /\ mbox.index = Index(mbox.keys) /\ ~ RowBehind
    BY <1>1, <1>2, <1>16 DEF NoPack, PackRaises, ListsInv, At, RowBehind, Underway
  <2>2. UNCHANGED <<file, row, mbox, owner>> /\ work'.op \in {"idle", "dead"}
    BY <1>16 DEF NoPack, PackRaises, disk, history, Idle
  <2>3. RowInv'
    BY <1>1, <2>1, <2>2, RowStays
  <2> QED
    BY <2>1, <2>2, <2>3, QuietLists
<1>17. CASE Pack
  <2>1. mbox \in Mailboxes /\ Lists3(mbox) /\ Sound(mbox, file, owner) /\ Counted(mbox)
    BY <1>1, <1>2, <1>17, ListsOf DEF Pack, ListsInv, At
  <2>2. PICK f, m, q : f = file' /\ m = mbox' /\ q = mhs'
    OBVIOUS
  <2>3. /\ file' = Packed(file)
        /\ m = [mbox EXCEPT !.keys = Ascending(DOMAIN f), !.seqs = q,
                            !.index = Index(Ascending(DOMAIN f))]
        /\ UNCHANGED <<born, row, owner>> /\ work'.op = "packed"
    BY <1>17, <2>2 DEF Pack, history
  <2>4. /\ m.keys = Ascending(DOMAIN f) /\ m.uids = mbox.uids /\ m.nextUid = mbox.nextUid
        /\ m.num = mbox.num /\ m.index = Index(m.keys)
    BY <2>1, <2>3 DEF Mailboxes
  <2>5. Sound(m, f, owner)
    <3>1. born \in Nat /\ Files(file, born)
      BY <1>2, StoreAssumption, FolderIs DEF FolderInv
    <3>2. f = Packed(file)
      BY <2>2, <2>3
    <3> QED
      BY <2>1, <2>4, <3>1, <3>2, SoundPacked
  <2>6. Counted(m)
    <3>1. mbox.keys # <<>>
      BY <1>17 DEF Pack
    <3> QED
      BY <2>1, <2>4, <3>1 DEF Counted
  <2>7. RowInv'
    BY <1>1, <2>3 DEF RowInv, RowBehind, At
  <2> QED
    BY <2>2, <2>3, <2>4, <2>5, <2>6, <2>7, QuietLists
<1>18. CASE CommitPack
  <2>1. /\ mbox \in Mailboxes /\ Sound(mbox, file, owner) /\ Counted(mbox)
        /\ mbox.index = Index(mbox.keys)
    BY <1>1, <1>2, <1>18 DEF CommitPack, ListsInv, At
  <2>2. PICK m : m = mbox'
    OBVIOUS
  <2>3. /\ m \in Mailboxes /\ Commit(m)
        /\ m = [mbox EXCEPT !.mtime = touched] /\ UNCHANGED file
    BY <1>18, <2>2 DEF CommitPack, Repacked, disk, TypeInv, Idle, At
  <2>4. /\ SameLists(mbox, m) /\ m.num = mbox.num /\ m.keys = mbox.keys /\ m.index = mbox.index
    BY <2>1, <2>3 DEF SameLists, Mailboxes
  <2>5. Sound(m, file, owner) /\ Counted(m)
    BY <1>3, <2>1, <2>4
  <2>6. RowInv' /\ Sound(m, file', owner')
    BY <1>4, <2>3, <2>5
  <2>7. work'.op = "idle"
    BY <1>18 DEF CommitPack, Idle
  <2> QED
    BY <2>1, <2>2, <2>4, <2>5, <2>6, <2>7, QuietLists
<1>19. ASSUME NEW k \in 1..MaxMail, NEW s \in Seqs, NEW in \in BOOLEAN, Store(k, s, in)
       PROVE  RowInv' /\ ListsInv' /\ ScanInv' /\ ExpungeInv'
  <2>1. /\ mbox \in Mailboxes /\ Sound(mbox, file, owner) /\ Counted(mbox)
        /\ mbox.index = Index(mbox.keys) /\ ~ RowBehind
    BY <1>1, <1>2, <1>19 DEF Store, ListsInv, At, RowBehind, Underway
  <2>2. PICK m : m = mbox'
    OBVIOUS
  <2>3. PICK q : m = [mbox EXCEPT !.seqs = q]
    BY <1>19, <2>2 DEF Store
  <2>4. /\ SameLists(mbox, m) /\ m.num = mbox.num /\ m.keys = mbox.keys /\ m.index = mbox.index
    BY <2>1, <2>3 DEF SameLists, Mailboxes
  <2>5. Sound(m, file, owner) /\ Counted(m)
    BY <1>3, <2>1, <2>4
  <2>6. UNCHANGED <<file, row, owner>> /\ work'.op = "stored"
    BY <1>19 DEF Store
  <2>7. RowInv'
    BY <1>1, <2>1, <2>6, RowStays
  <2> QED
    BY <2>1, <2>2, <2>4, <2>5, <2>6, <2>7, QuietLists
<1>20. CASE CommitStore
  <2>1. /\ mbox \in Mailboxes /\ Sound(mbox, file, owner) /\ Counted(mbox) /\ Commit(mbox)
        /\ mbox.index = Index(mbox.keys)
    BY <1>1, <1>2, <1>20 DEF CommitStore, ListsInv, At
  <2>2. UNCHANGED <<file, mbox>> /\ work'.op = "idle"
    BY <1>20 DEF CommitStore, disk, Idle
  <2>3. RowInv' /\ Sound(mbox, file', owner')
    BY <1>4, <2>1, <2>2
  <2> QED
    BY <2>1, <2>2, <2>3, QuietLists
<1>21. CASE AppendMail
  <2>1. /\ mbox \in Mailboxes /\ Counted(mbox) /\ mbox.index = Index(mbox.keys) /\ ~ RowBehind
        /\ ~ At("down") /\ row # NoRow
    BY <1>1, <1>2, <1>21 DEF AppendMail, ListsInv, At, RowBehind, Underway
  <2>2. /\ Keys' = Keys \cup {NewKey} /\ \A k \in Keys : k < NewKey /\ file'[k] = file[k]
        /\ FolderInv' /\ UNCHANGED <<row, owner>> /\ work'.op = "appended"
    BY <1>2, <1>21, FolderGrows DEF AppendMail
  <2>3. Sound(row, file', owner) /\ Sound(mbox, file', owner)
    BY <1>1, <2>1, <2>2, ListsGrow
  <2>4. PICK f, m : f = file' /\ m = mbox'
    OBVIOUS
  <2>5. PICK q : m = [mbox EXCEPT !.seqs = q]
    BY <1>21, <2>4 DEF AppendMail
  <2>6. /\ SameLists(mbox, m) /\ m.num = mbox.num /\ m.keys = mbox.keys /\ m.index = mbox.index
        /\ m.uids = mbox.uids
    BY <2>1, <2>5 DEF SameLists, Mailboxes
  <2>7. Sound(m, f, owner) /\ Counted(m)
    BY <2>1, <2>3, <2>4, <2>6, SoundKept DEF Counted
  <2>8. RowInv'
    BY <1>1, <2>1, <2>2, <2>3 DEF RowInv
  <2> QED
    BY <2>1, <2>2, <2>4, <2>6, <2>7, <2>8, QuietLists
<1>22. CASE StartExpunge
  <2>1. /\ mbox \in Mailboxes /\ Lists3(mbox) /\ Sound(mbox, file, owner) /\ Counted(mbox)
        /\ mbox.index = Index(mbox.keys) /\ ~ RowBehind
    BY <1>1, <1>2, <1>22, ListsOf DEF StartExpunge, ListsInv, At, RowBehind, Underway
  <2>2. PICK victims : victims = mbox.seqs["Deleted"]
    OBVIOUS
  <2>3. /\ UNCHANGED <<file, row, mbox, owner>>
        /\ work' = [op |-> "expunging", victims |-> victims, todo |-> victims]
        /\ \A k \in victims : k \in DOMAIN mbox.index /\ mbox.index[k] <= Len(mbox.uids)
    BY <1>22, <2>2 DEF StartExpunge, disk, history
  <2>4. ASSUME NEW k \in victims
        PROVE  mbox.index[k] \in DOMAIN mbox.uids /\ mbox.keys[mbox.index[k]] = k
    <3>1. mbox.keys \in Seq(Nat) /\ mbox.uids \in Seq(Nat)
      BY <2>1 DEF Lists3
    <3>2. k \in Range(mbox.keys) /\ mbox.keys[mbox.index[k]] = k
      BY <2>1, <2>3, <3>1, IndexLeads
    <3>3. mbox.index[k] \in Nat \ {0} /\ mbox.index[k] <= Len(mbox.uids)
      BY <2>1, <2>3, IndexTyped
    <3>4. DOMAIN mbox.uids = 1..Len(mbox.uids) /\ Len(mbox.uids) \in Nat
      BY <3>1, ListOf
    <3> QED
      BY <3>2, <3>3, <3>4
  <2>5. RowInv'
    BY <1>1, <2>1, <2>3, RowStays
  <2>6. ExpungeInv'
    BY <2>1, <2>3, <2>4 DEF ExpungeInv, At
  <2> QED
    BY <2>1, <2>3, <2>5, <2>6 DEF ListsInv, ScanInv, At
<1>23. CASE ExpungeOne
  <2>1. /\ Sound(mbox', file', owner) /\ Counted(mbox') /\ ExpungeInv'
        /\ At("expunging")' /\ Underway'
    BY <1>1, <1>23, ExpungeSound
  <2>2. UNCHANGED <<row, owner>>
    BY <1>23 DEF ExpungeOne
  <2> QED
    BY <1>1, <2>1, <2>2 DEF RowInv, RowBehind, ListsInv, ScanInv, At
<1>24. ~ ExpungeFails
  BY <1>1, NoExpungeFails
<1>25. CASE FinishExpunge
  <2>1. /\ mbox \in Mailboxes /\ Sound(mbox, file, owner) /\ Counted(mbox)
    BY <1>1, <1>2, <1>25 DEF FinishExpunge, ListsInv, At
  <2>2. PICK m : m = mbox'
    OBVIOUS
  <2>3. PICK q : m = [mbox EXCEPT !.index = Index(mbox.keys), !.optional = FALSE, !.seqs = q]
    BY <1>25, <2>2 DEF FinishExpunge, Expunged
  <2>4. m \in Mailboxes /\ Commit(m) /\ UNCHANGED file /\ work'.op = "idle"
    BY <1>25, <2>2 DEF FinishExpunge, disk, TypeInv, Idle, At
  <2>5. /\ SameLists(mbox, m) /\ m.num = mbox.num /\ m.keys = mbox.keys /\ m.index = Index(m.keys)
    BY <2>1, <2>3 DEF SameLists, Mailboxes
  <2>6. Sound(m, file, owner) /\ Counted(m)
    BY <1>3, <2>1, <2>5
  <2>7. RowInv' /\ Sound(m, file', owner')
    BY <1>4, <2>4, <2>6
  <2> QED
    BY <2>2, <2>4, <2>5, <2>6, <2>7, QuietLists
<1>26. CASE Cancel
  <2>1. ~ At("noticed") /\ ~ At("written") /\ ~ Underway /\ mbox' = mbox /\ work' = Idle
    BY <1>26 DEF Cancel, CutCheck
  <2>2. UNCHANGED <<file, row, owner>> /\ ~ At("packed") /\ ~ At("down")
    BY <1>26 DEF Cancel, disk, At
  <2>3. Sound(mbox, file, owner) /\ Counted(mbox) /\ mbox.index = Index(mbox.keys)
    BY <1>1, <2>1, <2>2 DEF ListsInv, ExpungeInv, Underway, At
  <2>4. RowInv'
    BY <1>1, <2>1, <2>2, RowStays DEF RowBehind
  <2> QED
    BY <2>1, <2>2, <2>3, <2>4, QuietLists DEF Idle
<1>27. CASE CheckFails
  <2>1. mbox' = NoMbox /\ work' = Down /\ UNCHANGED <<file, row, owner>> /\ ~ RowBehind
    BY <1>27 DEF CheckFails, disk, RowBehind, Underway, At
  <2>2. RowInv'
    BY <1>1, <2>1, RowStays
  <2> QED
    BY <2>1, <2>2 DEF ListsInv, ScanInv, ExpungeInv, At, Down
<1>28. CASE CommitHalf
  <2>1. /\ ~ At("noticed") /\ ~ At("down") /\ UNCHANGED <<file, mbox, work>> /\ Recorded(Due)
        /\ row' = [Saved(Due) EXCEPT
                     !.seqs = [s \in Seqs |-> IF @[s] = {} THEN {} ELSE row.seqs[s]]]
    BY <1>28 DEF CommitHalf, disk, At
  <2>2. PICK m : m = Due
    OBVIOUS
  <2>3. m \in Mailboxes /\ SameLists(mbox, m) /\ Sound(m, file, owner) /\ Counted(m)
    BY <1>1, <2>1, <2>2, DueSound
  <2>4. Sound(m, file', owner')
    BY <2>1, <2>2, <2>3, RecordedSound
  <2>5. PICK r : r = row'
    OBVIOUS
  <2>6. SameLists(m, r) /\ r.num = m.num
    <3>1. PICK q : r = [Saved(m) EXCEPT !.seqs = q]
      BY <2>1, <2>2, <2>5
    <3> QED
      BY <3>1 DEF Saved, SameLists
  <2>7. PICK f, o : f = file' /\ o = owner'
    OBVIOUS
  <2>8. Sound(r, f, o) /\ Sound(mbox, f, o) /\ Counted(r)
    BY <2>3, <2>4, <2>6, <2>7, SoundKept DEF Counted, SameLists
  <2>9. r # NoRow
    BY <2>5, ListsOf, <2>1 DEF TypeInv, At
  <2>10. RowInv'
    BY <2>5, <2>7, <2>8, <2>9 DEF RowInv
  <2> QED
    BY <1>1, <2>1, <2>7, <2>8, <2>10 DEF ListsInv, ScanInv, ExpungeInv, At, Keys
<1> QED
  BY <1>5, <1>6, <1>7, <1>8, <1>9, <1>11, <1>12, <1>13, <1>14, <1>15, <1>16, <1>17, <1>18, <1>19,
     <1>20, <1>21, <1>22, <1>23, <1>24, <1>25, <1>26, <1>27, <1>28
  DEF StoreNext, CheckSteps, CommandSteps

LEMMA ListAlways == StoreSpec => [](TypeInv /\ ListInv)
BY TypeInit, TypeStep, ListInit, ListStep, PTL DEF StoreSpec

\* A UID of the mailbox leads, for ever, to the message it led to when it was first
\* committed, unless an EXPUNGE, a pack or a resync was cut short.
THEOREM UidMeansOneMessageHolds == StoreSpec => []UidMeansOneMessage
<1>1. ASSUME TypeInv, ListInv PROVE UidMeansOneMessage
  <2> SUFFICES ASSUME ~ At("down"), ~ torn PROVE UidsLeadToOwners
    BY DEF UidMeansOneMessage
  <2>1. Sound(mbox, file, owner) /\ Lists3(mbox)
    BY <1>1, ListsOf DEF ListInv, ListsInv, TypeInv
  <2>2. DOMAIN mbox.uids = 1..Len(mbox.uids)
    BY <2>1, ListOf DEF Lists3
  <2> QED
    BY <2>1, <2>2 DEF Sound, UidsLeadToOwners
<1> QED
  BY <1>1, ListAlways, PTL

\* As long as no EXPUNGE, pack or resync was cut short: after a resync that found
\* something, every message it saw is listed, in the folder's order, and has a UID.
THEOREM UpToDateAfterResyncHolds == StoreSpec => []UpToDateAfterResync
<1>1. ASSUME TypeInv, ListInv PROVE UpToDateAfterResync
  BY <1>1 DEF ListInv, ScanInv, UpToDateAfterResync, At
<1> QED
  BY <1>1, ListAlways, PTL

-----------------------------------------------------------------------------
(* The flags *)

LEMMA LostStays == [StoreNext]_vars /\ lost => lost'
BY DEF StoreNext, CheckSteps, CommandSteps, Tick, Deliver, Crash, Activate, Stop, CheckAtStart,
       CheckInPoll, CheckBeforeCommand, CheckInAppend, Check, FindNothing, FindMail, MarkMail,
       CommitMail, NoPack, PackRaises, Pack, CommitPack, Store, CommitStore, AppendMail,
       StartExpunge, ExpungeOne, ExpungeFails, FinishExpunge, Cancel, CheckFails, CommitHalf,
       vars, history

\* A commit writes what the Mailbox has.
LEMMA CommitFlags ==
  ASSUME NEW m, Commit(m)
  PROVE  row'.seqs = m.seqs
BY DEF Commit, Saved

\* What there is to say of the messages and of the row.
LEMMA Messages ==
  ASSUME TypeInv
  PROVE  /\ ~ At("down") => mbox \in Mailboxes /\ row \in Lists /\ row # NoRow
         /\ mhs \in [Seqs -> SUBSET Nat] /\ WorkTyped /\ born \in Nat
         /\ \A a \in acked : a.seq \in Seqs /\ a.mail \in Nat
         /\ \A k, l \in Keys : file[k] = file[l] => k = l
         /\ \A k \in Keys : k \in Nat /\ file[k] \in 1..born
         /\ IsFiniteSet(Keys)
<1>1. ~ At("down") => mbox \in Mailboxes /\ row \in Lists /\ row # NoRow
  BY ListsOf DEF TypeInv
<1>2. \A k, l \in Keys : file[k] = file[l] => k = l
  BY DEF TypeInv, FolderInv, IsInjective, Keys
<1>3. \A k \in Keys : k \in Nat /\ file[k] \in 1..born
  BY DEF TypeInv, FolderInv, Range, Keys
<1>4. \A a \in acked : a.seq \in Seqs /\ a.mail \in Nat
  BY StoreAssumption DEF TypeInv, Flags
<1>5. born \in Nat
  BY StoreAssumption DEF TypeInv, FolderInv
<1> QED
  BY <1>1, <1>2, <1>3, <1>4, <1>5 DEF TypeInv, FolderInv

LEMMA FlagInit == StoreInit => FlagInv
BY DEF StoreInit, FlagInv, AckedInv, StoredInv, BornInv, At, Down

LEMMA BornStep == TypeInv /\ BornInv /\ [StoreNext]_vars => BornInv'
<1> SUFFICES ASSUME TypeInv, BornInv, [StoreNext]_vars PROVE BornInv'
  OBVIOUS
<1>1. born \in Nat /\ (\A a \in acked : a.mail \in Nat) /\ (At("stored") => work.flag.mail \in Nat)
  BY Messages, StoreAssumption DEF WorkTyped, Flags
\* An action that reports nothing.
<1>2. ASSUME acked' \subseteq acked, born' \in {born, born + 1},
             work'.op # "stored" \/ UNCHANGED work
      PROVE  BornInv'
  BY <1>1, <1>2 DEF BornInv, At
<1>3. CASE CommitStore
  BY <1>1, <1>3 DEF CommitStore, BornInv, disk, At, Idle
<1>4. ASSUME NEW k \in 1..MaxMail, NEW s \in Seqs, NEW in \in BOOLEAN, Store(k, s, in)
      PROVE  BornInv'
  <2>1. Mail(k) <= born
    <3>1. k \in Keys => file[k] \in 1..born
      BY Messages
    <3> QED
      BY <1>1, <3>1 DEF Mail
  <2>2. /\ work' = [op |-> "stored", flag |-> [mail |-> Mail(k), seq |-> s, in |-> in]]
        /\ acked' \subseteq acked /\ UNCHANGED born
    BY <1>4 DEF Store
  <2> QED
    BY <2>1, <2>2 DEF BornInv, At
<1>5. CASE Tick \/ Deliver \/ UNCHANGED vars \/ CommitHalf
  <2>1. acked' = acked /\ work' = work /\ born' \in {born, born + 1}
    BY <1>5 DEF Tick, Deliver, vars, CommitHalf, disk, history
  <2> QED
    BY <1>2, <2>1
<1>6. CASE Crash \/ Stop \/ (\E marked \in BOOLEAN : Activate(marked)) \/ CheckFails \/ Cancel
  <2>1. acked' = acked /\ born' = born /\ work'.op # "stored"
    BY <1>6 DEF Crash, Stop, Activate, CheckFails, Cancel, disk, history, Down, Idle
  <2> QED
    BY <1>2, <2>1
<1>7. CASE CheckAtStart \/ CheckInPoll \/ CheckBeforeCommand \/ CheckInAppend
  <2>1. acked' = acked /\ born' = born /\ work'.op # "stored"
    BY <1>7 DEF CheckAtStart, CheckInPoll, CheckBeforeCommand, CheckInAppend, Check, After,
                disk, history, Idle
  <2> QED
    BY <1>2, <2>1
<1>8. CASE (\E full \in BOOLEAN : FindNothing(full)) \/ FindMail \/ MarkMail \/ CommitMail
  <2>1. acked' = acked /\ born' = born /\ work'.op # "stored"
    BY <1>8 DEF FindNothing, FindMail, MarkMail, CommitMail, After, disk, history, Idle
  <2> QED
    BY <1>2, <2>1
<1>9. CASE NoPack \/ PackRaises \/ Pack \/ CommitPack
  <2>1. acked' = acked /\ born' = born /\ work'.op # "stored"
    BY <1>9 DEF NoPack, PackRaises, Pack, CommitPack, disk, history, Idle
  <2> QED
    BY <1>2, <2>1
<1>10. CASE AppendMail \/ StartExpunge \/ ExpungeFails \/ FinishExpunge
  <2>1. acked' = acked /\ born' \in {born, born + 1} /\ work'.op # "stored"
    BY <1>10 DEF AppendMail, StartExpunge, ExpungeFails, FinishExpunge, disk, history, Idle
  <2> QED
    BY <1>2, <2>1
<1>11. CASE ExpungeOne
  <2>1. PICK t : work' = [work EXCEPT !.todo = t]
    BY <1>11 DEF ExpungeOne
  <2>2. work = [op |-> "expunging", victims |-> work.victims, todo |-> work.todo]
    BY <1>11, Messages DEF ExpungeOne, WorkTyped, Expunging
  <2>3. acked' \subseteq acked /\ born' = born /\ work'.op # "stored"
    BY <1>11, <2>1, <2>2 DEF ExpungeOne
  <2> QED
    BY <1>2, <2>3
<1> QED
  BY <1>3, <1>4, <1>5, <1>6, <1>7, <1>8, <1>9, <1>10, <1>11 DEF StoreNext, CheckSteps, CommandSteps

\* Of a sequence, only what it says of the message matters.
LEMMA RightKept ==
  ASSUME NEW k, NEW l, NEW a, NEW s, NEW t, k \in s[a.seq] <=> l \in t[a.seq], Right(k, a, s)
  PROVE  Right(l, a, t)
BY DEF Right

\* A message keeps its flag when some of the new ones get theirs.
LEMMA MarkedRight ==
  ASSUME NEW a \in acked, NEW k \in Keys, TypeInv, At("noticed"), FlagRight(k, a),
         NEW n \in 0..Len(work.new),
         ~ AllNew \/ (n = Len(work.new) /\ k \in Range(work.new))
  PROVE  Right(k, a, Marked(n).seqs)
<1>1. /\ mbox \in Mailboxes /\ mbox.seqs \in [Seqs -> SUBSET Nat] /\ a.seq \in Seqs
      /\ work.new \in Seq(Nat)
  BY Messages DEF At, WorkTyped, Mailboxes
<1>2. DOMAIN work.new = 1..Len(work.new) /\ Len(work.new) \in Nat
  BY <1>1, ListOf
<1>3. PICK done : done = {work.new[i] : i \in 1..n}
  OBVIOUS
<1>4. done \subseteq Range(work.new) /\ (n = Len(work.new) => done = Range(work.new))
  BY <1>2, <1>3 DEF Range
<1>5. Marked(n).seqs[a.seq] = (mbox.seqs[a.seq] \ done) \cup (work.marks[a.seq] \cap done)
  BY <1>1, <1>3 DEF Marked, Mailboxes
<1>6. CASE k \in done
  <2>1. Right(k, a, work.marks)
    BY <1>4, <1>6 DEF FlagRight
  <2> QED
    BY <1>5, <1>6, <2>1 DEF Right
<1>7. CASE k \notin done
  <2>1. Right(k, a, mbox.seqs)
    BY <1>4, <1>7 DEF FlagRight, At
  <2> QED
    BY <1>5, <1>7, <2>1 DEF Right
<1> QED
  BY <1>6, <1>7

LEMMA FlagStep ==
  TypeInv /\ TypeInv' /\ FlagInv /\ [StoreNext]_vars => FlagInv'
<1> SUFFICES ASSUME TypeInv, TypeInv', FlagInv, [StoreNext]_vars, ~ lost'
             PROVE  AckedInv' /\ StoredInv'
  BY BornStep DEF FlagInv
<1>1. AckedInv /\ StoredInv /\ BornInv
  BY LostStays DEF FlagInv
<1>2. /\ ~ At("down") => /\ mbox \in Mailboxes /\ row \in Lists /\ row # NoRow
                         /\ mbox.seqs \in [Seqs -> SUBSET Nat]
      /\ mhs \in [Seqs -> SUBSET Nat] /\ WorkTyped /\ born \in Nat
      /\ \A a \in acked : a.seq \in Seqs /\ a.mail \in Nat /\ a.mail <= born
      /\ \A k, l \in Keys : file[k] = file[l] => k = l
      /\ \A k \in Keys : k \in Nat /\ file[k] \in 1..born
      /\ IsFiniteSet(Keys)
  BY <1>1, Messages DEF BornInv, Mailboxes
<1>3. \A a \in acked, k \in Keys : file[k] = a.mail => FlagRight(k, a)
  BY <1>1 DEF AckedInv
<1>4. ~ At("down")' => row' # NoRow
  BY ListsOf DEF TypeInv
\* Where a flag is, when no resync is about to look for it elsewhere.
<1>5. ASSUME work.op \notin {"down", "noticed", "packed"},
             NEW a \in acked, NEW k \in Keys, file[k] = a.mail
      PROVE  Right(k, a, mhs) /\ Right(k, a, row.seqs) /\ Right(k, a, mbox.seqs)
  BY <1>3, <1>5 DEF FlagRight, At, AllNew
\* An action that leaves the folder alone, and after which nothing is under way
\* in which flags may be elsewhere.
<1>6. ASSUME UNCHANGED <<file, mhs>>, row' = NoRow => acked' = {},
             work'.op \notin {"scanned", "noticed", "expunging", "stored"},
             \A a \in acked', k \in Keys : file[k] = a.mail =>
               /\ Right(k, a, mhs)
               /\ work'.op # "packed" => Right(k, a, row'.seqs)
               /\ work'.op # "down" => Right(k, a, mbox'.seqs)
      PROVE  AckedInv' /\ StoredInv'
  <2>1. ASSUME NEW a \in acked', NEW k \in Keys', file'[k] = a.mail PROVE FlagRight(k, a)'
    <3>1. k \in Keys /\ file[k] = a.mail
      BY <1>6, <2>1 DEF Keys
    <3>2. /\ Right(k, a, mhs)
          /\ work'.op # "packed" => Right(k, a, row'.seqs)
          /\ work'.op # "down" => Right(k, a, mbox'.seqs)
      BY <1>6, <2>1, <3>1
    <3> QED
      BY <1>6, <3>2 DEF FlagRight, Right, At
  <2> QED
    BY <1>6, <2>1 DEF AckedInv, StoredInv, At
<1>7. CASE Tick \/ UNCHANGED vars
  <2>1. UNCHANGED <<file, mhs, row, mbox, work, acked>>
    BY <1>7 DEF Tick, vars, disk, history
  <2> QED
    BY <1>1, <2>1 DEF AckedInv, StoredInv, FlagRight, AllNew, Right, At, Keys
\* A message that has come leaves the others as they were.
<1>8. CASE Deliver
  <2>1. /\ Keys' = Keys \cup {NewKey} /\ file'[NewKey] = born + 1
        /\ \A k \in Keys : k < NewKey /\ file'[k] = file[k]
        /\ UNCHANGED <<row, mbox, work, acked>>
    BY <1>8, FolderGrows DEF Deliver, TypeInv, history
  <2>2. mhs' = [FolderSeqs EXCEPT !["unseen"] = @ \cup {NewKey}]
    BY <1>8 DEF Deliver
  <2>3. ASSUME NEW b, b.seq \in Seqs, NEW k \in Keys, Right(k, b, mhs)
        PROVE  Right(k, b, mhs')
    <3>1. k # NewKey
      BY <1>2, <2>1, NewKeyIsAbove DEF TypeInv
    <3>2. k \in FolderSeqs[b.seq] <=> k \in mhs[b.seq]
      BY <2>3 DEF FolderSeqs
    <3>3. k \in mhs'[b.seq] <=> k \in mhs[b.seq]
      BY <2>2, <2>3, <3>1, <3>2 DEF FolderSeqs, Seqs
    <3> QED
      BY <2>3, <3>3 DEF Right
  <2>4. ASSUME NEW a \in acked', NEW k \in Keys', file'[k] = a.mail PROVE FlagRight(k, a)'
    <3>1. a \in acked /\ a.mail <= born /\ a.seq \in Seqs /\ a.mail \in Nat
      BY <1>2, <2>1
    <3>2. k \in Keys
      BY <1>2, <2>1, <2>4, <3>1
    <3>3. FlagRight(k, a)
      BY <1>3, <2>1, <2>4, <3>1, <3>2
    <3>4. Right(k, a, mhs')
      BY <2>3, <3>1, <3>2, <3>3 DEF FlagRight
    <3> QED
      BY <2>1, <3>3, <3>4 DEF FlagRight, AllNew, Right, At
  <2>5. StoredInv'
    <3> SUFFICES ASSUME At("stored"), NEW k \in Keys', file'[k] = work.flag.mail
                 PROVE  Right(k, work.flag, mbox.seqs) /\ Right(k, work.flag, mhs')
      BY <2>1 DEF StoredInv, Right, At
    <3>1. work.flag.mail \in Nat /\ work.flag.mail <= born /\ work.flag.seq \in Seqs
      BY <1>1, <1>2, StoreAssumption DEF BornInv, WorkTyped, Flags
    <3>2. k \in Keys /\ file[k] = work.flag.mail
      BY <1>2, <2>1, <3>1
    <3>3. Right(k, work.flag, mbox.seqs) /\ Right(k, work.flag, mhs)
      BY <1>1, <3>2 DEF StoredInv
    <3> QED
      BY <2>3, <3>1, <3>2, <3>3
  <2> QED
    BY <1>1, <2>1, <2>4, <2>5 DEF AckedInv
<1>9. CASE Crash
  <2>1. /\ ~ At("down") /\ ~ At("packed") /\ work' = Down
        /\ UNCHANGED <<file, mhs, row, acked>>
    BY <1>9 DEF Crash, disk
  <2>2. \A a \in acked', k \in Keys : file[k] = a.mail => Right(k, a, mhs) /\ Right(k, a, row'.seqs)
    BY <1>3, <2>1 DEF FlagRight, Right
  <2> QED
    BY <1>2, <1>6, <2>1, <2>2 DEF Down
<1>10. ASSUME NEW marked \in BOOLEAN, Activate(marked) PROVE AckedInv' /\ StoredInv'
  <2>1. /\ At("down") /\ UNCHANGED <<file, mhs, acked>> /\ work'.op = "restored"
        /\ row' # NoRow
    BY <1>4, <1>10 DEF Activate, disk, history, At
  <2>2. CASE row = NoRow
    BY <1>1, <1>6, <2>1, <2>2 DEF AckedInv
  <2>3. CASE row # NoRow
    <3>1. row' = row /\ mbox' = Restored(Migrated)
      BY <1>10, <2>3 DEF Activate
    <3>2. mbox'.seqs = row.seqs
      <4>1. row \in Lists
        BY <2>1, <2>3 DEF TypeInv
      <4> QED
        BY <3>1, <4>1 DEF Restored, Migrated, Lists
    <3>3. \A a \in acked, k \in Keys : file[k] = a.mail => Right(k, a, mhs) /\ Right(k, a, row.seqs)
      BY <1>3, <2>1 DEF FlagRight, At
    <3>4. \A a \in acked, k \in Keys : Right(k, a, row.seqs) => Right(k, a, mbox'.seqs)
      BY <3>2 DEF Right
    <3> QED
      BY <1>6, <2>1, <3>1, <3>3, <3>4
  <2> QED
    BY <2>2, <2>3
\* A commit of what the Mailbox has, with its sequences as they were.
<1>11. ASSUME NEW m, Commit(m), m.seqs = mbox.seqs, UNCHANGED <<file, mhs, acked>>,
              work.op \notin {"down", "noticed"},
              work'.op \notin {"scanned", "noticed", "expunging", "stored"},
              work'.op = "down" \/ mbox' = m
       PROVE  AckedInv' /\ StoredInv'
  <2>1. row'.seqs = mbox.seqs
    BY <1>11, CommitFlags
  <2>2. row' # NoRow
    <3>1. "keys" \in DOMAIN row'
      BY <1>11 DEF Commit, Saved
    <3>2. DOMAIN NoRow = {}
      BY EmptyList DEF NoRow
    <3> QED
      BY <3>1, <3>2
  <2>3. \A a \in acked, k \in Keys : file[k] = a.mail => Right(k, a, mhs) /\ Right(k, a, mbox.seqs)
    BY <1>3, <1>11 DEF FlagRight, At, AllNew
  <2>4. \A a \in acked', k \in Keys : file[k] = a.mail =>
          Right(k, a, mhs) /\ Right(k, a, row'.seqs) /\ (work'.op # "down" => Right(k, a, mbox'.seqs))
    BY <1>11, <2>1, <2>3 DEF Right
  <2> QED
    BY <1>6, <1>11, <2>2, <2>4
<1>12. CASE Stop
  <2>1. Commit(mbox) /\ UNCHANGED <<file, mhs, acked>> /\ work.op = "idle" /\ work'.op = "down"
    BY <1>12 DEF Stop, disk, At, Down
  <2> QED
    BY <1>11, <2>1
<1>13. ASSUME NEW next, NEW optional, work.op \in {"restored", "idle", "appended"},
              Check(next, optional)
       PROVE  AckedInv' /\ StoredInv'
  <2>1. UNCHANGED <<file, mhs, row, acked>> /\ ~ At("down") /\ Keys' = Keys
    BY <1>13 DEF Check, disk, history, At, Keys
  <2>2. \A a \in acked, k \in Keys : file[k] = a.mail =>
          Right(k, a, mhs) /\ Right(k, a, row.seqs) /\ Right(k, a, mbox.seqs)
    BY <1>5, <1>13
  <2>3. CASE touched <= mbox.mtime /\ mbox.optional /\ optional
    <3>1. mbox' = mbox /\ work'.op \in {"idle", "packing"}
      BY <1>13, <2>3 DEF Check, After, Idle
    <3>2. row' # NoRow
      BY <1>2, <2>1
    <3>3. \A a \in acked', k \in Keys : file[k] = a.mail =>
            Right(k, a, mhs) /\ Right(k, a, row'.seqs) /\ Right(k, a, mbox'.seqs)
      BY <2>1, <2>2, <3>1 DEF Right
    <3> QED
      BY <1>6, <2>1, <3>1, <3>2, <3>3
  <2>4. CASE ~ (touched <= mbox.mtime /\ mbox.optional /\ optional)
    <3>1. /\ work' = [op |-> "scanned", next |-> next, scan |-> Ascending(Keys), start |-> touched]
          /\ mbox' = [mbox EXCEPT !.optional = TRUE]
      BY <1>13, <2>4 DEF Check
    <3>2. mbox'.seqs = mbox.seqs
      BY <1>2, <2>1, <3>1 DEF Mailboxes
    <3>3. Range(work'.scan) = Keys
      BY <1>2, <3>1, KeysTyped, AscendingLists DEF TypeInv
    <3>4. ASSUME NEW a \in acked', NEW k \in Keys', file'[k] = a.mail PROVE FlagRight(k, a)'
      <4>1. Right(k, a, mhs) /\ Right(k, a, row.seqs) /\ Right(k, a, mbox.seqs)
        BY <2>1, <2>2, <3>4
      <4> QED
        BY <2>1, <3>1, <3>2, <3>3, <4>1 DEF FlagRight, Right, At
    <3> QED
      BY <1>2, <2>1, <3>1, <3>4 DEF AckedInv, StoredInv, At
  <2> QED
    BY <2>3, <2>4
<1>14. CASE CheckAtStart \/ CheckInPoll \/ CheckBeforeCommand \/ CheckInAppend
  BY <1>13, <1>14, CheckBegins
<1>15. ASSUME NEW full \in BOOLEAN, FindNothing(full) PROVE AckedInv' /\ StoredInv'
  <2>1. /\ At("scanned") /\ mbox' = [mbox EXCEPT !.mtime = work.start]
        /\ UNCHANGED <<file, mhs, acked>> /\ work'.op \in {"idle", "packing"}
    BY <1>15 DEF FindNothing, disk, After, Idle
  <2>2. PICK m : m = mbox'
    OBVIOUS
  <2>3. m.seqs = mbox.seqs
    BY <1>2, <2>1, <2>2 DEF Mailboxes, At
  <2>4. CASE full
    <3>1. Commit(m)
      BY <1>15, <2>2, <2>4 DEF FindNothing
    <3> QED
      BY <1>11, <2>1, <2>2, <2>3, <3>1 DEF At
  <2>5. CASE ~ full
    <3>1. row' = [row EXCEPT !.mtime = work.start]
      BY <1>15, <2>5 DEF FindNothing
    <3>2. row'.seqs = row.seqs
      BY <1>2, <2>1, <3>1 DEF Lists, At
    <3>3. \A a \in acked', k \in Keys : file[k] = a.mail =>
            Right(k, a, mhs) /\ Right(k, a, row'.seqs) /\ Right(k, a, mbox'.seqs)
      BY <1>5, <2>1, <2>2, <2>3, <3>2 DEF Right, At
    <3>4. row' # NoRow
      BY <1>4, <2>1 DEF At
    <3> QED
      BY <1>6, <2>1, <3>3, <3>4
  <2> QED
    BY <2>4, <2>5
<1>16. CASE FindMail
  <2>1. /\ At("scanned") /\ UNCHANGED <<file, mhs, row, acked>> /\ Keys' = Keys
        /\ mbox \in Mailboxes /\ work.scan \in Seq(Nat) /\ work.start \in Nat
    BY <1>2, <1>16 DEF FindMail, disk, history, Keys, WorkTyped, At
  <2>2. PICK new, t : new = Ascending(Range(work.scan) \ Range(Trusted.keys)) /\ t = Trusted
    OBVIOUS
  <2>3. /\ work' = [op |-> "noticed", next |-> work.next, scan |-> work.scan,
                    new |-> new, marks |-> FolderSeqs]
        /\ \E ks, us, x, n : mbox' = [t EXCEPT !.keys = ks, !.uids = us, !.index = x, !.nextUid = n]
    BY <1>16, <2>2 DEF FindMail
  <2>4. t \in Mailboxes
    BY <2>1, <2>2, TrustedTyped
  <2>5. mbox'.seqs = t.seqs
    BY <2>3, <2>4 DEF Mailboxes
  <2>6. t.seqs = mbox.seqs \/ Range(work'.new) = Range(work'.scan)
    <3>1. CASE Len(work.scan) < mbox.num \/ Len(mbox.uids) < Len(mbox.keys)
      <4>1. t.keys = <<>>
        BY <2>1, <2>2, <3>1 DEF Trusted, Mailboxes
      <4>2. Range(t.keys) = {}
        BY <4>1, EmptyList DEF Range
      <4>3. Range(work.scan) \subseteq Nat /\ IsFiniteSet(Range(work.scan))
        BY <2>1, ListOf, RangeFinite
      <4>4. new = Ascending(Range(work.scan))
        <5>1. Range(work.scan) \ Range(t.keys) = Range(work.scan)
          BY <4>2
        <5> QED
          BY <2>2, <5>1
      <4> QED
        BY <2>3, <4>3, <4>4, AscendingLists
    <3>2. CASE ~ (Len(work.scan) < mbox.num \/ Len(mbox.uids) < Len(mbox.keys))
      BY <2>1, <2>2, <3>2 DEF Trusted, Mailboxes
    <3> QED
      BY <3>1, <3>2
  <2>7. ASSUME NEW a \in acked', NEW k \in Keys', file'[k] = a.mail PROVE FlagRight(k, a)'
    <3>1. a \in acked /\ k \in Keys /\ file[k] = a.mail /\ a.seq \in Seqs
      BY <1>2, <2>1, <2>7
    <3>2. /\ Right(k, a, mhs) /\ Right(k, a, row.seqs) /\ Right(k, a, mbox.seqs)
          /\ k \in Range(work.scan)
      BY <1>3, <1>5, <2>1, <3>1 DEF FlagRight, At
    <3>3. Right(k, a, FolderSeqs)
      BY <3>1, <3>2 DEF Right, FolderSeqs
    <3>4. ~ AllNew' => Right(k, a, mbox'.seqs)
      BY <2>3, <2>5, <2>6, <3>2 DEF AllNew, At, Right
    <3> QED
      BY <2>1, <2>3, <3>2, <3>3, <3>4 DEF FlagRight, Right, At
  <2> QED
    BY <1>2, <2>1, <2>3, <2>7 DEF AckedInv, StoredInv, At
<1>17. CASE MarkMail
  <2>1. /\ At("noticed") /\ UNCHANGED <<file, row, acked>> /\ Keys' = Keys
        /\ mbox' = Marked(Len(work.new)) /\ mhs' = mbox'.seqs /\ work'.op = "written"
        /\ work.new \in Seq(Nat) /\ Len(work.new) \in 0..Len(work.new)
    <3>1. At("noticed") /\ work.new \in Seq(Nat)
      BY <1>2, <1>17 DEF MarkMail, WorkTyped
    <3>2. Len(work.new) \in 0..Len(work.new)
      BY <3>1, ListOf
    <3> QED
      BY <1>17, <3>1, <3>2 DEF MarkMail, history, Keys
  <2>2. ASSUME NEW a \in acked', NEW k \in Keys', file'[k] = a.mail PROVE FlagRight(k, a)'
    <3>1. FlagRight(k, a) /\ a \in acked /\ k \in Keys
      BY <1>3, <2>1, <2>2
    <3>2. ~ AllNew \/ k \in Range(work.new)
      BY <2>1, <3>1 DEF FlagRight, AllNew, At
    <3>3. Right(k, a, Marked(Len(work.new)).seqs)
      BY <2>1, <3>1, <3>2, MarkedRight
    <3>4. Right(k, a, row.seqs)
      BY <2>1, <3>1 DEF FlagRight, At
    <3> QED
      BY <2>1, <3>3, <3>4 DEF FlagRight, Right, At
  <2> QED
    BY <1>2, <2>1, <2>2 DEF AckedInv, StoredInv, At
<1>18. CASE CommitMail
  <2>1. /\ At("written") /\ mbox' = Noted /\ Commit(mbox') /\ UNCHANGED <<file, mhs, acked>>
        /\ work'.op \in {"idle", "packing"}
    BY <1>18 DEF CommitMail, disk, After, Idle
  <2>2. Noted.seqs = mbox.seqs
    BY <1>2, <2>1 DEF Noted, Mailboxes, At
  <2>3. PICK m : m = mbox'
    OBVIOUS
  <2>4. Commit(m) /\ m.seqs = mbox.seqs
    BY <2>1, <2>2, <2>3
  <2> QED
    BY <1>11, <2>1, <2>3, <2>4 DEF At
<1>19. CASE NoPack \/ PackRaises
  <2>1. /\ UNCHANGED <<file, mhs, row, mbox, acked>> /\ At("packing")
        /\ work'.op \in {"idle", "dead"}
    BY <1>19 DEF NoPack, PackRaises, disk, history, Idle
  <2>2. row' # NoRow
    BY <1>2, <2>1 DEF At
  <2>3. \A a \in acked', k \in Keys : file[k] = a.mail =>
          Right(k, a, mhs) /\ Right(k, a, row'.seqs) /\ Right(k, a, mbox'.seqs)
    BY <1>5, <2>1 DEF At, Right
  <2> QED
    BY <1>6, <2>1, <2>2, <2>3
\* The sequences move with the messages.
<1>20. CASE Pack
  <2>1. /\ /\ \A k \in Keys : Rank(Keys, k) \in Keys' /\ file'[Rank(Keys, k)] = file[k]
           /\ \A n \in Keys' : \E k \in Keys : n = Rank(Keys, k)
        /\ \A k, l \in Keys : Rank(Keys, k) = Rank(Keys, l) => k = l
    BY <1>2, <1>20, FolderPacked, RankOf DEF Pack, TypeInv
  <2>2. PICK q : q = [s \in Seqs |-> {Rank(Keys, k) : k \in mbox.seqs[s] \cap Keys}]
    OBVIOUS
  <2>3. /\ At("packing") /\ mhs' = q /\ UNCHANGED <<row, acked>> /\ work'.op = "packed"
        /\ \E ks, x : mbox' = [mbox EXCEPT !.keys = ks, !.seqs = q, !.index = x]
    BY <1>20, <2>2 DEF Pack, history
  <2>4. mbox'.seqs = q
    BY <1>2, <2>3 DEF Mailboxes, At
  <2>5. ASSUME NEW a \in acked', NEW n \in Keys', file'[n] = a.mail PROVE FlagRight(n, a)'
    <3>1. PICK k \in Keys : n = Rank(Keys, k)
      BY <2>1
    <3>2. a \in acked /\ file[k] = a.mail /\ a.seq \in Seqs
      BY <1>2, <2>1, <2>3, <2>5, <3>1
    <3>3. Right(k, a, mbox.seqs)
      BY <1>5, <2>3, <3>2 DEF At
    <3>4. n \in q[a.seq] <=> k \in mbox.seqs[a.seq]
      BY <2>1, <2>2, <3>1, <3>2
    <3>5. Right(n, a, q)
      BY <3>3, <3>4 DEF Right
    <3> QED
      BY <2>3, <2>4, <3>5 DEF FlagRight, Right, At
  <2> QED
    BY <1>2, <2>3, <2>5 DEF AckedInv, StoredInv, At
<1>21. CASE CommitPack
  <2>1. /\ At("packed") /\ mbox' = Repacked /\ Commit(mbox') /\ UNCHANGED <<file, mhs, acked>>
        /\ work'.op = "idle"
    BY <1>21 DEF CommitPack, disk, Idle
  <2>2. Repacked.seqs = mbox.seqs
    BY <1>2, <2>1 DEF Repacked, Mailboxes, At
  <2>3. PICK m : m = mbox'
    OBVIOUS
  <2>4. Commit(m) /\ m.seqs = mbox.seqs
    BY <2>1, <2>2, <2>3
  <2> QED
    BY <1>11, <2>1, <2>3, <2>4 DEF At
<1>22. ASSUME NEW l \in 1..MaxMail, NEW s \in Seqs, NEW in \in BOOLEAN, Store(l, s, in)
       PROVE  AckedInv' /\ StoredInv'
  <2>1. PICK q : q = [mbox.seqs EXCEPT ![s] = IF in THEN @ \cup {l} ELSE @ \ {l}]
    OBVIOUS
  <2>2. /\ At("idle") /\ mbox' = [mbox EXCEPT !.seqs = q] /\ UNCHANGED <<file, row>>
        /\ work' = [op |-> "stored", flag |-> [mail |-> Mail(l), seq |-> s, in |-> in]]
        /\ acked' = {a \in acked : a.mail # Mail(l) \/ a.seq # s} /\ Keys' = Keys
        /\ mhs' = mbox'.seqs
    BY <1>22, <2>1 DEF Store, Keys
  <2>3. mbox'.seqs = q /\ mhs' = q
    BY <1>2, <2>2 DEF Mailboxes, At
  <2>4. ASSUME NEW a \in acked', NEW k \in Keys', file'[k] = a.mail PROVE FlagRight(k, a)'
    <3>1. a \in acked /\ k \in Keys /\ file[k] = a.mail /\ a.seq \in Seqs
      BY <1>2, <2>2, <2>4
    <3>2. Right(k, a, row.seqs) /\ Right(k, a, mbox.seqs)
      BY <1>5, <2>2, <3>1 DEF At
    <3>3. k # l \/ a.seq # s
      BY <2>2, <2>4, <3>1 DEF Mail
    <3>4. k \in q[a.seq] <=> k \in mbox.seqs[a.seq]
      BY <1>2, <2>1, <2>2, <3>1, <3>3 DEF At
    <3>5. Right(k, a, q)
      BY <3>2, <3>4 DEF Right
    <3> QED
      BY <2>2, <2>3, <3>2, <3>5 DEF FlagRight, Right, At
  <2>5. StoredInv'
    <3> SUFFICES ASSUME NEW k \in Keys, file[k] = Mail(l)
                 PROVE  k \in q[s] <=> in
      BY <2>2, <2>3 DEF StoredInv, Right, At
    <3>1. k = l
      <4>1. l \in Keys
        BY <1>2 DEF Mail
      <4> QED
        BY <1>2, <4>1 DEF Mail
    <3> QED
      BY <1>2, <2>1, <2>2, <3>1 DEF At
  <2> QED
    BY <1>2, <2>2, <2>4, <2>5 DEF AckedInv, At
<1>23. CASE CommitStore
  <2>1. /\ At("stored") /\ Commit(mbox) /\ UNCHANGED <<file, mhs, mbox>> /\ work'.op = "idle"
        /\ acked' = acked \cup {work.flag}
    BY <1>23 DEF CommitStore, disk, Idle
  <2>2. row'.seqs = mbox.seqs /\ row' # NoRow
    BY <1>4, <2>1, CommitFlags DEF At
  <2>3. ASSUME NEW a \in acked', NEW k \in Keys, file[k] = a.mail
        PROVE  Right(k, a, mhs) /\ Right(k, a, row'.seqs) /\ Right(k, a, mbox'.seqs)
    <3>1. Right(k, a, mhs) /\ Right(k, a, mbox.seqs)
      <4>1. CASE a \in acked
        BY <1>5, <2>1, <2>3, <4>1 DEF At
      <4>2. CASE a = work.flag
        BY <1>1, <2>1, <2>3, <4>2 DEF StoredInv
      <4> QED
        BY <2>1, <4>1, <4>2
    <3> QED
      BY <2>1, <2>2, <3>1 DEF Right
  <2> QED
    BY <1>6, <2>1, <2>2, <2>3
<1>24. CASE AppendMail
  <2>1. /\ Keys' = Keys \cup {NewKey} /\ file'[NewKey] = born + 1
        /\ \A k \in Keys : k < NewKey /\ file'[k] = file[k]
    BY <1>24, FolderGrows DEF AppendMail, TypeInv
  <2>2. PICK q : q = [mbox.seqs EXCEPT !["unseen"] = @ \cup {NewKey}]
    OBVIOUS
  <2>3. /\ At("idle") /\ mbox' = [mbox EXCEPT !.seqs = q] /\ UNCHANGED <<row, acked>>
        /\ work'.op = "appended" /\ mhs' = mbox'.seqs
    BY <1>24, <2>2 DEF AppendMail
  <2>4. mbox'.seqs = q /\ mhs' = q
    BY <1>2, <2>3 DEF Mailboxes, At
  <2>5. ASSUME NEW a \in acked', NEW k \in Keys', file'[k] = a.mail PROVE FlagRight(k, a)'
    <3>1. a \in acked /\ a.mail <= born /\ a.seq \in Seqs /\ a.mail \in Nat
      BY <1>2, <2>3
    <3>2. k \in Keys /\ file[k] = a.mail /\ k # NewKey
      BY <1>2, <2>1, <2>5, <3>1, NewKeyIsAbove DEF TypeInv
    <3>3. Right(k, a, row.seqs) /\ Right(k, a, mbox.seqs)
      BY <1>5, <2>3, <3>1, <3>2 DEF At
    <3>4. k \in q[a.seq] <=> k \in mbox.seqs[a.seq]
      BY <1>2, <2>2, <2>3, <3>1, <3>2 DEF At
    <3>5. Right(k, a, q)
      BY <3>3, <3>4 DEF Right
    <3> QED
      BY <2>3, <2>4, <3>3, <3>5 DEF FlagRight, Right, At
  <2> QED
    BY <1>2, <2>3, <2>5 DEF AckedInv, StoredInv, At
<1>25. CASE StartExpunge
  <2>1. /\ At("idle") /\ UNCHANGED <<file, mhs, row, mbox, acked>> /\ Keys' = Keys
        /\ work'.op = "expunging" /\ work'.todo = work'.victims
    BY <1>25 DEF StartExpunge, disk, history, Keys
  <2>2. ASSUME NEW a \in acked', NEW k \in Keys', file'[k] = a.mail PROVE FlagRight(k, a)'
    <3>1. Right(k, a, mhs) /\ Right(k, a, row.seqs) /\ Right(k, a, mbox.seqs)
      BY <1>5, <2>1, <2>2 DEF At
    <3> QED
      BY <2>1, <3>1 DEF FlagRight, Right, At
  <2> QED
    BY <1>2, <2>1, <2>2 DEF AckedInv, StoredInv, At
<1>26. CASE ExpungeOne
  <2>1. PICK v : v = Max(work.todo)
    OBVIOUS
  <2>2. /\ At("expunging") /\ v \in Keys /\ mbox' = Dropped(v)
        /\ file' = [j \in Keys \ {v} |-> file[j]] /\ UNCHANGED <<mhs, row, born>>
        /\ acked' = {a \in acked : a.mail # file[v]}
        /\ work' = [work EXCEPT !.todo = @ \ {v}]
    BY <1>26, <2>1 DEF ExpungeOne
  <2>3. Keys' = Keys \ {v} /\ \A k \in Keys' : file'[k] = file[k]
    BY <2>2, FolderShrinks DEF TypeInv
  <2>4. work'.op = "expunging" /\ work'.victims = work.victims /\ work'.todo = work.todo \ {v}
    <3>1. PICK w, t : w = work.victims /\ t = work.todo
      OBVIOUS
    <3>2. work = [op |-> "expunging", victims |-> w, todo |-> t]
      BY <1>2, <2>2, <3>1 DEF WorkTyped, Expunging
    <3> QED
      BY <2>2, <3>1, <3>2
  <2>5. mbox'.seqs = mbox.seqs
    BY <1>2, <2>2 DEF Dropped, Mailboxes, At
  <2>6. ASSUME NEW a \in acked', NEW k \in Keys', file'[k] = a.mail PROVE FlagRight(k, a)'
    <3>1. a \in acked /\ k \in Keys /\ file[k] = a.mail /\ k # v
      BY <2>2, <2>3, <2>6
    <3>2. FlagRight(k, a)
      BY <1>3, <3>1
    <3>3. k \notin work.victims \ work.todo
      BY <2>2, <3>2 DEF FlagRight
    <3>4. Right(k, a, mhs) /\ Right(k, a, row.seqs) /\ Right(k, a, mbox.seqs)
      BY <1>5, <2>2, <3>1 DEF At
    <3> QED
      BY <2>2, <2>4, <2>5, <3>1, <3>3, <3>4 DEF FlagRight, Right, At
  <2> QED
    BY <1>2, <2>2, <2>4, <2>6 DEF AckedInv, StoredInv, At
<1>27. CASE ExpungeFails
  <2>1. /\ At("expunging") /\ UNCHANGED <<file, mhs, row, acked>> /\ work'.op = "idle"
        /\ mbox' = mbox \/ mbox' = Dropped(Max(work.todo))
    BY <1>27 DEF ExpungeFails, disk, history, Idle
  <2>2. mbox'.seqs = mbox.seqs
    BY <1>2, <2>1 DEF Dropped, Mailboxes, At
  <2>3. \A a \in acked', k \in Keys : file[k] = a.mail =>
          Right(k, a, mhs) /\ Right(k, a, row'.seqs) /\ Right(k, a, mbox'.seqs)
    BY <1>5, <2>1, <2>2 DEF Right, At
  <2>4. row' # NoRow
    BY <1>2, <2>1 DEF At
  <2> QED
    BY <1>6, <2>1, <2>3, <2>4
\* What the sequences lose is none of the messages that are left.
<1>28. ASSUME At("expunging"), work.todo = {}, NEW a \in acked, NEW k \in Keys, file[k] = a.mail
       PROVE  Right(k, a, Expunged.seqs)
  <2>1. k \notin work.victims
    BY <1>3, <1>28 DEF FlagRight
  <2>2. Right(k, a, mbox.seqs) /\ a.seq \in Seqs
    BY <1>2, <1>5, <1>28 DEF At
  <2>3. Expunged.seqs[a.seq] = mbox.seqs[a.seq] \ work.victims
    <3>1. PICK q : q = [s \in Seqs |-> mbox.seqs[s] \ work.victims]
      OBVIOUS
    <3>2. PICK x : Expunged = [mbox EXCEPT !.index = x, !.optional = FALSE, !.seqs = q]
      BY <3>1 DEF Expunged
    <3>3. Expunged.seqs = q
      BY <1>2, <1>28, <3>2 DEF Mailboxes, At
    <3> QED
      BY <2>2, <3>1, <3>3
  <2> QED
    BY <2>1, <2>2, <2>3 DEF Right
<1>29. CASE FinishExpunge
  <2>1. /\ At("expunging") /\ work.todo = {} /\ mbox' = Expunged /\ Commit(mbox')
        /\ UNCHANGED <<file, mhs, acked>> /\ work'.op = "idle"
    BY <1>29 DEF FinishExpunge, disk, Idle
  <2>2. row'.seqs = mbox'.seqs /\ row' # NoRow
    <3>1. PICK m : m = mbox'
      OBVIOUS
    <3>2. row'.seqs = m.seqs
      BY <2>1, <3>1, CommitFlags
    <3> QED
      BY <1>4, <2>1, <3>1, <3>2 DEF At
  <2>3. ASSUME NEW a \in acked', NEW k \in Keys, file[k] = a.mail
        PROVE  Right(k, a, mhs) /\ Right(k, a, row'.seqs) /\ Right(k, a, mbox'.seqs)
    <3>1. Right(k, a, mhs) /\ Right(k, a, Expunged.seqs)
      BY <1>5, <1>28, <2>1, <2>3 DEF At
    <3> QED
      BY <2>1, <2>2, <3>1 DEF Right
  <2> QED
    BY <1>6, <2>1, <2>2, <2>3
<1>30. CASE Cancel \/ CheckFails
  <2>1. /\ UNCHANGED <<file, mhs, row, acked>> /\ ~ At("down") /\ ~ At("packed")
        /\ work'.op \in {"idle", "down"}
        /\ work'.op # "down" => CutCheck /\ ~ AllNew
    <3>1. CASE Cancel
      BY <3>1 DEF Cancel, disk, At, Idle
    <3>2. CASE CheckFails
      <4>1. UNCHANGED <<file, mhs, row, acked>> /\ ~ At("down") /\ ~ At("packed")
        BY <3>2 DEF CheckFails, disk, At
      <4>2. CASE work.next = "start"
        BY <3>2, <4>1, <4>2 DEF CheckFails, Down
      <4>3. CASE work.next # "start"
        <5>1. CutCheck /\ work' = Idle /\ lost' = (lost \/ AllNew)
          BY <3>2, <4>3 DEF CheckFails
        <5>2. ~ AllNew
          BY <5>1
        <5> QED
          BY <4>1, <5>1, <5>2 DEF Idle
      <4> QED
        BY <4>1, <4>2, <4>3
    <3> QED
      BY <1>30, <3>1, <3>2
  <2>2. ASSUME work'.op # "down", NEW a \in acked, NEW k \in Keys, file[k] = a.mail
        PROVE  Right(k, a, mbox'.seqs)
    <3>1. CutCheck /\ ~ AllNew /\ FlagRight(k, a)
      BY <1>3, <2>1, <2>2
    <3>2. CASE At("noticed")
      <4>1. PICK n \in 0..Len(work.new) : mbox' = Marked(n)
        BY <3>1, <3>2 DEF CutCheck, At
      <4> QED
        BY <3>1, <3>2, <4>1, MarkedRight
    <3>3. CASE ~ At("noticed")
      <4>1. mbox' = mbox \/ mbox' = [mbox EXCEPT !.num = Len(work.scan)]
        BY <3>1, <3>3 DEF CutCheck
      <4>2. mbox'.seqs = mbox.seqs
        BY <1>2, <2>1, <4>1 DEF Mailboxes
      <4> QED
        BY <2>1, <3>1, <4>2 DEF FlagRight, Right
    <3> QED
      BY <3>2, <3>3
  <2>3. \A a \in acked', k \in Keys : file[k] = a.mail =>
          /\ Right(k, a, mhs) /\ Right(k, a, row'.seqs)
          /\ work'.op # "down" => Right(k, a, mbox'.seqs)
    BY <1>3, <2>1, <2>2 DEF FlagRight, Right
  <2>4. row' # NoRow
    BY <1>2, <2>1
  <2> QED
    BY <1>6, <2>1, <2>3, <2>4
<1>31. CASE CommitHalf
  <2>1. /\ work.op \in {"written", "packed", "stored", "expunging"}
        /\ At("expunging") => work.todo = {}
        /\ UNCHANGED <<file, mhs, mbox, work, acked>> /\ Keys' = Keys
        /\ row' = [Saved(Due) EXCEPT
                     !.seqs = [s \in Seqs |-> IF @[s] = {} THEN {} ELSE row.seqs[s]]]
    BY <1>31 DEF CommitHalf, disk, At, Keys
  <2>2. PICK q : q = [s \in Seqs |-> IF Due.seqs[s] = {} THEN {} ELSE row.seqs[s]]
    OBVIOUS
  <2>3. row'.seqs = q
    BY <2>1, <2>2 DEF Saved
  <2>4. ASSUME NEW a \in acked, NEW k \in Keys, file[k] = a.mail, ~ At("packed")
        PROVE  Right(k, a, q)
    <3>1. Right(k, a, row.seqs) /\ a.seq \in Seqs /\ Right(k, a, mbox.seqs)
      BY <1>2, <1>5, <2>1, <2>4 DEF At
    <3>2. Right(k, a, Due.seqs)
      <4>1. CASE At("written")
        <5>1. Due.seqs = mbox.seqs
          BY <1>2, <4>1 DEF Due, Noted, Mailboxes, At
        <5> QED
          BY <3>1, <5>1 DEF Right
      <4>2. CASE At("expunging")
        <5>1. Due = Expunged
          BY <4>2 DEF Due, At
        <5> QED
          BY <1>28, <2>1, <2>4, <4>2, <5>1
      <4>3. CASE At("stored")
        <5>1. Due = mbox
          BY <4>3 DEF Due, At
        <5> QED
          BY <3>1, <5>1
      <4> QED
        BY <2>1, <2>4, <4>1, <4>2, <4>3 DEF At
    <3> QED
      BY <2>2, <3>1, <3>2 DEF Right
  <2>5. ASSUME NEW a \in acked', NEW k \in Keys', file'[k] = a.mail PROVE FlagRight(k, a)'
    <3>1. a \in acked /\ k \in Keys /\ file[k] = a.mail /\ FlagRight(k, a)
      BY <1>3, <2>1, <2>5
    <3>2. ~ At("packed") => Right(k, a, q)
      BY <2>4, <3>1
    <3> QED
      BY <2>1, <2>3, <3>1, <3>2 DEF FlagRight, AllNew, Right, At
  <2>6. StoredInv'
    BY <1>1, <2>1 DEF StoredInv, Right, At, Keys
  <2> QED
    BY <1>4, <2>1, <2>5, <2>6 DEF AckedInv, At
<1> QED
  BY <1>7, <1>8, <1>9, <1>10, <1>12, <1>14, <1>15, <1>16, <1>17, <1>18, <1>19, <1>20, <1>21, <1>22,
     <1>23, <1>24, <1>25, <1>26, <1>27, <1>29, <1>30, <1>31
  DEF StoreNext, CheckSteps, CommandSteps

LEMMA StoreAlways == StoreSpec => []StoreInv
BY TypeInit, TypeStep, ListInit, ListStep, FlagInit, FlagStep, PTL DEF StoreSpec, StoreInv

\* The client that was told of a flag finds it on that message as long as the
\* message is there, through resyncs, failed and cancelled commands, EXPUNGEs
\* that were cut short, and crashes; not if the process died between a pack and
\* its commit, or a resync that gives all messages their flags was cut short.
THEOREM AckedFlagsStayHolds == StoreSpec => []AckedFlagsStay
<1>1. ASSUME FlagInv PROVE AckedFlagsStay
  <2> SUFFICES ASSUME At("idle"), ~ lost, NEW a \in acked, NEW k \in Keys, file[k] = a.mail
               PROVE  k \in mbox.seqs[a.seq] <=> a.in
    BY DEF AckedFlagsStay
  <2>1. FlagRight(k, a)
    BY <1>1 DEF FlagInv, AckedInv
  <2>2. Right(k, a, mbox.seqs)
    BY <2>1 DEF FlagRight, AllNew, At
  <2> QED
    BY <2>2 DEF Right
<1> QED
  BY <1>1, StoreAlways, PTL DEF StoreInv

=============================================================================
