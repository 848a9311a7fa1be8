------------------------------ MODULE Selection ------------------------------
(***************************************************************************)
(* Which messages a command means: message sets (sequence_set_to_list,     *)
(* msg_set_to_msg_seq_set), the search keys as the parser turns them into  *)
(* IMAPSearch objects and as these match, and the COPYUID response by      *)
(* which a client learns what became of the messages it copied.            *)
(*                                                                         *)
(* An element of a message set is <<n>>, or <<m, n>> for m:n.  A sequence  *)
(* of the folder is named by its flag without the backslash.  A test of a  *)
(* message's text, size or dates is "test": the messages in mailbox.test   *)
(* pass it.                                                                *)
(***************************************************************************)
EXTENDS Integers, Sequences, FiniteSets, SequencesExt, FiniteSetsExt

CONSTANTS
  Mailboxes,   \* [uids, sequences, test]: UIDs by position, positions by sequence
  Sets,        \* the message sets clients send
  Keys,        \* the search keys clients send, as clients write them
  NextUids,    \* UIDs given to copies: one sequence for each course of the COPY
  Fail         \* the answer NO or BAD

VARIABLES mailbox, asked, answer

vars == <<mailbox, asked, answer>>

Star == -1   \* "*"

-----------------------------------------------------------------------------
(* Message sets *)

num_msgs == Len(mailbox.uids)

Resolved(n, seq_max) == IF n = Star THEN seq_max ELSE n

\* An element no message can have: out of range, but for UIDs only a lone 0 is.
Bad(elt, seq_max, uid_cmd) ==
  IF uid_cmd
  THEN elt = <<0>>
  ELSE \E n \in Range(elt) : Resolved(n, seq_max) \notin 1..seq_max

\* Mutant: a range is taken as it comes.
IntervalForward(elt, seq_max) == Resolved(elt[1], seq_max)..Resolved(Last(elt), seq_max)

Interval(elt, seq_max) ==
  LET start == Resolved(elt[1], seq_max)
      end   == Resolved(Last(elt), seq_max)
  IN IF start > end THEN end..start ELSE start..end

sequence_set_to_list(seq_set, seq_max, uid_cmd) ==
  IF \E elt \in Range(seq_set) : Bad(elt, seq_max, uid_cmd) THEN Fail
  ELSE UNION {Interval(elt, seq_max) : elt \in Range(seq_set)}

msg_set_to_msg_seq_set(msg_set, from_uids) ==
  LET seq_max == IF ~ from_uids THEN num_msgs
                 ELSE IF mailbox.uids = << >> THEN 1 ELSE Last(mailbox.uids)
      msgs    == sequence_set_to_list(msg_set, seq_max, from_uids)
  IN IF msgs = Fail \/ ~ from_uids THEN msgs
     ELSE {i \in 1..num_msgs : mailbox.uids[i] \in msgs}

-----------------------------------------------------------------------------
(* Search keys: parsed, and matched against a message *)

Keyword(seq) == [op |-> "keyword", keyword |-> seq]
Negated(search) == [op |-> "not", search_key |-> search]
All(searches) == [op |-> "and", search_key |-> searches]

Flags == [ANSWERED |-> "replied", DELETED |-> "Deleted", DRAFT |-> "Draft",
          FLAGGED |-> "flagged", RECENT |-> "Recent", SEEN |-> "Seen"]

NotFlags == [UNANSWERED |-> "ANSWERED", UNDELETED |-> "DELETED", UNFLAGGED |-> "FLAGGED",
             UNSEEN |-> "SEEN", OLD |-> "RECENT"]

\* A key is <<name>> or <<name, argument, ...>>.  There is no UNDRAFT.
RECURSIVE _p_search_key(_)
_p_search_key(key) ==
  LET name == key[1] IN
  CASE name \in DOMAIN Flags    -> Keyword(Flags[name])
    [] name \in DOMAIN NotFlags -> Negated(Keyword(Flags[NotFlags[name]]))
    [] name = "NEW"             -> All(<<Keyword("Recent"), Negated(Keyword("Seen"))>>)
    [] name = "KEYWORD"         -> Keyword(key[2])
    [] name = "UNKEYWORD"       -> Negated(Keyword(key[2]))
    [] name = "NOT"             -> Negated(_p_search_key(key[2]))
    [] name = "OR"              -> [op |-> "or",
                                    search_key |-> <<_p_search_key(key[2]), _p_search_key(key[3])>>]
    [] name = "AND"             -> IF Len(key) = 2 THEN _p_search_key(key[2])
                                   ELSE All([i \in 1..(Len(key) - 1) |-> _p_search_key(key[i + 1])])
    [] name = "SET"             -> [op |-> "message_set", msg_set |-> key[2]]
    [] name = "UID"             -> [op |-> "uid", msg_set |-> key[2]]
    [] name = "TEST"            -> [op |-> "test"]
    [] name = "ALL"             -> [op |-> "all"]

\* _match_message_set and _match_uid go through the set up to the first element
\* that matches.  To compare with a range that begins with "*" raises.
MatchesElement(elt, n, max) ==
  IF Len(elt) = 1 THEN n = Resolved(elt[1], max)
  ELSE n >= elt[1] /\ n <= Resolved(elt[2], max)

MatchSet(msg_set, n, max) ==
  LET Decides(i) == \/ Len(msg_set[i]) = 2 /\ msg_set[i][1] = Star
                    \/ MatchesElement(msg_set[i], n, max)
      deciding   == {i \in DOMAIN msg_set : Decides(i)}
      first      == msg_set[Min(deciding)]
  IN IF deciding = {} THEN "no"
     ELSE IF Len(first) = 2 /\ first[1] = Star THEN "raise" ELSE "yes"

Truth(b) == IF b THEN "yes" ELSE "no"

\* "yes", "no", or "raise": _match_and and _match_or evaluate every key.
RECURSIVE Match(_, _)
Match(search, n) ==
  CASE search.op = "all"         -> "yes"
    [] search.op = "test"        -> Truth(n \in mailbox.test)
    [] search.op = "keyword"     -> Truth(search.keyword \in DOMAIN mailbox.sequences
                                          /\ n \in mailbox.sequences[search.keyword])
    [] search.op = "message_set" -> MatchSet(search.msg_set, n, num_msgs)
    [] search.op = "uid"         -> MatchSet(search.msg_set, mailbox.uids[n], Last(mailbox.uids))
    [] search.op = "not"         -> LET it == Match(search.search_key, n) IN
                                    IF it = "raise" THEN it ELSE Truth(it = "no")
    [] OTHER ->
         LET each == {Match(search.search_key[i], n) : i \in DOMAIN search.search_key}
         IN IF "raise" \in each THEN "raise"
            ELSE IF search.op = "and" THEN Truth(each = {"yes"}) ELSE Truth("yes" \in each)

\* Mailbox.search: numbers or UIDs, in the order of the mailbox.
Results(key, uid_cmd) ==
  LET search  == All(<<_p_search_key(key)>>)
      verdict == [n \in 1..num_msgs |-> Match(search, n)]
      found   == SetToSortSeq({n \in 1..num_msgs : verdict[n] = "yes"}, <)
  IN IF "raise" \in Range(verdict) THEN Fail
     ELSE IF uid_cmd THEN [i \in DOMAIN found |-> mailbox.uids[found[i]]] ELSE found

-----------------------------------------------------------------------------
(* COPYUID *)

\* Runs of consecutive numbers, in the order of the list.
Ranges(list) ==
  LET starts == SetToSortSeq({i \in DOMAIN list : i = 1 \/ list[i] # list[i - 1] + 1}, <)
      End(j) == IF j = Len(starts) THEN Len(list) ELSE starts[j + 1] - 1
  IN [j \in DOMAIN starts |->
        IF starts[j] = End(j) THEN <<list[starts[j]]>> ELSE <<list[starts[j]], list[End(j)]>>]

\* Mailbox.copy goes through the messages in ascending order, and so are the
\* UIDs of the copies found out.
CopyUids(msgs, newUids) ==
  LET idxs == SetToSortSeq(msgs, <) IN
  [src |-> Ranges([i \in DOMAIN idxs |-> mailbox.uids[idxs[i]]]),
   dst |-> Ranges([i \in DOMAIN idxs |-> newUids[i]])]

-----------------------------------------------------------------------------
Idle == [command |-> "none"]

Search(key, uid_cmd) ==
  /\ asked = Idle
  /\ asked' = [command |-> "SEARCH", key |-> key, uid |-> uid_cmd]
  /\ answer' = IF num_msgs = 0 THEN << >> ELSE Results(key, uid_cmd)
  /\ UNCHANGED mailbox

Select(msg_set, uid_cmd) ==
  /\ asked = Idle
  /\ asked' = [command |-> "STORE", set |-> msg_set, uid |-> uid_cmd]
  /\ answer' = msg_set_to_msg_seq_set(msg_set, uid_cmd)
  /\ UNCHANGED mailbox

\* Of an empty mailbox COPY fails.  Nothing is said of messages that are not there.
Copy(msg_set, uid_cmd, newUids) ==
  /\ asked = Idle
  /\ asked' = [command |-> "COPY", set |-> msg_set, uid |-> uid_cmd, newUids |-> newUids]
  /\ answer' = LET msgs == msg_set_to_msg_seq_set(msg_set, uid_cmd)
               IN IF num_msgs = 0 \/ msgs = Fail THEN Fail ELSE CopyUids(msgs, newUids)
  /\ UNCHANGED mailbox

Answered ==
  /\ asked # Idle
  /\ asked' = Idle /\ answer' = << >>
  /\ UNCHANGED mailbox

Init == mailbox \in Mailboxes /\ asked = Idle /\ answer = << >>

Next ==
  \/ \E key \in Keys, uid_cmd \in BOOLEAN : Search(key, uid_cmd)
  \/ \E msg_set \in Sets, uid_cmd \in BOOLEAN : Select(msg_set, uid_cmd)
  \/ \E msg_set \in Sets, uid_cmd \in BOOLEAN, newUids \in NextUids : Copy(msg_set, uid_cmd, newUids)
  \/ Answered

Spec == Init /\ [][Next]_vars

-----------------------------------------------------------------------------
(* What commands mean *)

\* n lies between the ends of an element, whichever comes first.
Covers(elt, n, max) ==
  LET ends == {Resolved(x, max) : x \in Range(elt)} IN n >= Min(ends) /\ n <= Max(ends)

\* "*" is the largest number in use.
Largest(uid_cmd) == IF uid_cmd THEN Last(mailbox.uids) ELSE num_msgs

Number(n, uid_cmd) == IF uid_cmd THEN mailbox.uids[n] ELSE n

InSet(msg_set, uid_cmd) ==
  {n \in 1..num_msgs : \E elt \in Range(msg_set) : Covers(elt, Number(n, uid_cmd), Largest(uid_cmd))}

FlagOf(name) == {n \in 1..num_msgs : Flags[name] \in DOMAIN mailbox.sequences
                                     /\ n \in mailbox.sequences[Flags[name]]}

RECURSIVE Meant(_)
Meant(key) ==
  LET name == key[1]
      here == 1..num_msgs
  IN CASE name = "ALL"  -> here
       [] name = "TEST" -> mailbox.test \cap here
       [] name \in DOMAIN Flags    -> FlagOf(name)
       [] name \in DOMAIN NotFlags -> here \ FlagOf(NotFlags[name])
       [] name = "NEW"  -> FlagOf("RECENT") \ FlagOf("SEEN")
       [] name = "KEYWORD"   -> {n \in here : key[2] \in DOMAIN mailbox.sequences /\ n \in mailbox.sequences[key[2]]}
       [] name = "UNKEYWORD" -> here \ Meant(<<"KEYWORD", key[2]>>)
       [] name = "NOT"  -> here \ Meant(key[2])
       [] name = "OR"   -> Meant(key[2]) \cup Meant(key[3])
       [] name = "AND"  -> {n \in here : \A i \in 2..Len(key) : n \in Meant(key[i])}
       [] name = "SET"  -> InSet(key[2], FALSE)
       [] name = "UID"  -> InSet(key[2], TRUE)

\* SEARCH takes ranges as they come: m:n with m > n matches nothing, "*:n" fails.
RECURSIVE Upright(_)
Upright(key) ==
  CASE key[1] \in {"SET", "UID"} ->
         \A elt \in Range(key[2]) :
           Len(elt) = 2 =>
             elt[1] # Star /\ elt[1] <= Resolved(elt[2], Largest(key[1] = "UID"))
    [] key[1] \in {"NOT", "OR", "AND"} -> \A i \in 2..Len(key) : Upright(key[i])
    [] OTHER -> TRUE

\* The numbers a client reads from ranges, in their order.
Spelled(ranges) ==
  FlattenSeq([i \in DOMAIN ranges |->
    [j \in 1..(Last(ranges[i]) - ranges[i][1] + 1) |-> ranges[i][1] + j - 1]])

(***************************************************************************)
(* SEARCH finds what its keys mean, however they are put together, and     *)
(* says it in numbers or in UIDs; a command takes the messages of its set, *)
(* whichever way round the ranges are, or is refused as a number is none   *)
(* the mailbox has; and COPYUID tells for every message that is meant the  *)
(* UID of its own copy.                                                    *)
(***************************************************************************)
SearchFinds ==
  asked.command = "SEARCH" /\ (num_msgs > 0 => Upright(asked.key)) =>
    LET meant == SetToSortSeq(IF num_msgs = 0 THEN {} ELSE Meant(asked.key), <)
    IN answer = [i \in DOMAIN meant |-> Number(meant[i], asked.uid)]

Refusable ==
  IF asked.uid THEN <<0>> \in Range(asked.set)
  ELSE \E elt \in Range(asked.set) : \E n \in Range(elt) : Resolved(n, num_msgs) \notin 1..num_msgs

Chosen == IF num_msgs = 0 THEN {} ELSE InSet(asked.set, asked.uid)

SetSelects ==
  asked.command = "STORE" => answer = IF Refusable THEN Fail ELSE Chosen

CopyTells ==
  asked.command = "COPY" /\ answer # Fail =>
    LET src == Spelled(answer.src)
        dst == Spelled(answer.dst)
        chosen == SetToSortSeq(Chosen, <)
    IN /\ src = [i \in DOMAIN chosen |-> mailbox.uids[chosen[i]]]
       /\ dst = [i \in DOMAIN chosen |-> asked.newUids[i]]

FindsWhatIsMeant == SearchFinds /\ SetSelects /\ CopyTells
=============================================================================
