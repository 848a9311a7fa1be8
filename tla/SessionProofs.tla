---------------------------- MODULE SessionProofs ----------------------------
(***************************************************************************)
(* A client's connection, from the bytes it writes to what it is told.     *)
(*                                                                         *)
(* CommandReader, for any lengths, any number of literals in a command and *)
(* any commands: what is handed on fits the frame, and, as long as nothing *)
(* was refused for its length, is one whole command of the client.         *)
(*                                                                         *)
(* ClientSession, for any number of sessions, messages and commands: with  *)
(* what is pending for it and what walks over mbox.clients bring, the list *)
(* that a client makes of its responses is the mailbox's; a command by     *)
(* number works on the message that its client means; EXPUNGE is told only *)
(* where it may be.  `SessionInv' is the invariant behind the three.       *)
(***************************************************************************)
EXTENDS CommandReader, ClientSession, MHFolderProofs, WellFoundedInduction

(* The invariant behind FitsFrame *)

Client == [pc : {"line", "literal", "plus", "answer", "silent", "gone"},
           length : Lengths \cup {0}, literals : 0..MaxLiterals, sent : 1..(MaxCommands + 1)]

\* What ibuffer_size says is the length of the buffer, CRLFs put back and all.
SizesInv ==
  /\ ReaderTypeOK /\ client \in Client
  /\ client.pc \notin {"silent", "gone"} => client.sent <= MaxCommands
  /\ ibuffer_size = Len(ibuffer)
  /\ FitsFrame

-----------------------------------------------------------------------------
(* The invariant behind WholeCommands *)

\* The client's side: how far it is with its command, as it is on the wire.
Stages == {"line", "announced", "complete"}
Stream(phase) == IF phase = "line" THEN said ELSE Append(said, CRLF)
Staged(phase) ==
  /\ phase \in Stages /\ client.pc # "silent"
  /\ client.pc = "line" => phase = "line"
  /\ client.pc \in {"plus", "literal"} => phase = "announced"
  /\ client.pc = "answer" => phase = "complete"

\* heads: where the lines of s end that announce a literal which is all there.
Lit(s, e) == s[e - 1][2]
Marked(s, heads, phase, length) ==
  /\ s \in Seq(Units) /\ heads \subseteq 2..Len(s)
  /\ \A e \in heads : s[e] = CRLF /\ s[e - 1][1] = "prefix" /\ e + Lit(s, e) <= Len(s)
  /\ \A e, f \in heads : e < f => e + Lit(s, e) < f - 1
  \* Every other line break is in a literal, or the end of the last line.
  /\ \A i \in 1..Len(s) : s[i] = CRLF =>
       \/ i \in heads
       \/ \E e \in heads : e < i /\ i <= e + Lit(s, e)
       \/ i = Len(s) /\ phase # "line"
  /\ phase = "line" => Len(s) = 0 \/ s[Len(s)][1] # "prefix"
  /\ phase # "line" => Len(s) # 0 /\ s[Len(s)] = CRLF
  /\ phase = "announced" =>
       /\ Len(s) # 1 /\ s[Len(s) - 1][1] = "prefix" /\ s[Len(s) - 1][2] = length
       /\ length = 0 => Len(s) \in heads
       /\ \A e \in heads : e = Len(s) \/ e + Lit(s, e) < Len(s) - 1
  /\ phase = "complete" =>
       /\ Len(s) = 1 \/ s[Len(s) - 1][1] # "prefix"
       /\ \A e \in heads : e + Lit(s, e) < Len(s)

\* The reader's side: the first r units of s have been read.
HasRead(s, heads, phase, r) ==
  /\ r \in 0..Len(s) /\ Len(wire) = Len(s) - r /\ \A i \in 1..Len(wire) : wire[i] = s[r + i]
  /\ reader \in {"line", "literal"}
  /\ reader = "line" =>
       /\ Len(ibuffer) = r /\ \A i \in 1..r : ibuffer[i] = s[i]
       /\ r = 0 \/ \E f \in heads : r = f + Lit(s, f)
  /\ reader = "literal" =>
       /\ r \notin {0, 1} /\ Len(ibuffer) = r - 1 /\ \A i \in 1..(r - 1) : ibuffer[i] = s[i]
       /\ r \in heads \/ (r = Len(s) /\ phase = "announced")
       /\ due = s[r - 1][2]

\* No answer is on its way to the client.
NoAnswer == pipe = << >> /\ \A i \in 1..Len(replies) : replies[i] = "plus"

Gathering ==
  /\ NoAnswer
  /\ \E phase \in Stages :
       /\ Staged(phase)
       /\ \E heads \in SUBSET (2..Len(Stream(phase))), r \in 0..Len(Stream(phase)) :
            /\ Marked(Stream(phase), heads, phase, client.length)
            /\ HasRead(Stream(phase), heads, phase, r)

\* The command has been handed on or is found to be empty: one answer is due.
Handed ==
  /\ reader = "line" /\ wire = << >> /\ ibuffer = << >>
  /\ client.pc \in {"answer", "silent", "gone"}
  /\ Len(pipe) <= 1
  /\ \A i, j \in 1..Len(replies) : replies[i] # "plus" /\ replies[j] # "plus" => i = j
  /\ pipe # << >> => \A i \in 1..Len(replies) : replies[i] = "plus"

WholeInv == ~ overrun => WholeCommands /\ (reader = "closed" \/ Handed \/ Gathering)

-----------------------------------------------------------------------------
(* Units, lines and sequences of them *)

\* A set of numbers that is not empty has a least one.
LEMMA Least ==
  ASSUME NEW T \in SUBSET Nat, T # {}
  PROVE  \E m \in T : \A k \in T : m <= k
<1>1. PICK x \in T : \A y \in T : ~ (<<y, x>> \in OpToRel(<, Nat))
  BY NatLessThanWellFounded, WFMin
<1>2. \A y \in T : ~ (y < x)
  BY <1>1 DEF OpToRel
<1> QED
  BY <1>2

\* The kinds of units on the wire.
LEMMA UnitFacts ==
  /\ Byte \in Units /\ CRLF \in Units
  /\ Byte[1] = "byte" /\ CRLF[1] = "crlf" /\ Byte # CRLF
  /\ \A n \in Lengths, sync \in BOOLEAN :
       Prefix(n, sync) \in Units /\ Prefix(n, sync)[1] = "prefix" /\ Prefix(n, sync)[2] = n
  /\ \A u \in Units : u[1] = "prefix" => u[2] \in Lengths
<1>1. Byte \in Units /\ CRLF \in Units /\ Byte[1] = "byte" /\ CRLF[1] = "crlf" /\ Byte # CRLF
  BY DEF Units, Byte, CRLF
<1>2. \A n \in Lengths, sync \in BOOLEAN :
        Prefix(n, sync) \in Units /\ Prefix(n, sync)[1] = "prefix" /\ Prefix(n, sync)[2] = n
  BY DEF Units, Prefix
<1>3. \A u \in Units : u = Byte \/ u = CRLF \/ \E n \in Lengths, sync \in BOOLEAN : u = Prefix(n, sync)
  BY DEF Units
<1> QED
  BY <1>1, <1>2, <1>3

\* Text of n bytes.
LEMMA BytesFacts ==
  ASSUME NEW n \in Nat
  PROVE  Bytes(n) \in Seq(Units) /\ Len(Bytes(n)) = n /\ \A i \in 1..n : Bytes(n)[i] = Byte
BY UnitFacts DEF Bytes

\* The text of a literal, with or without a line break.
LEMMA LiteralFacts ==
  ASSUME NEW n \in Nat, NEW text \in Literals(n)
  PROVE  text \in Seq(Units) /\ Len(text) = n /\ \A i \in 1..n : text[i] \in {Byte, CRLF}
<1>1. CASE text = Bytes(n)
  BY <1>1, BytesFacts
<1>2. CASE \E i \in 1..n : text = [Bytes(n) EXCEPT ![i] = CRLF]
  BY <1>2, BytesFacts, UnitFacts
<1> QED
  BY <1>1, <1>2 DEF Literals

\* The first line on the wire and what is left after it.
LEMMA LineFacts ==
  ASSUME wire \in Seq(Units), HasLine
  PROVE  /\ LineEnd \in 1..Len(wire) /\ wire[LineEnd] = CRLF
         /\ \A i \in 1..(LineEnd - 1) : wire[i] # CRLF
         /\ Line \in Seq(Units) /\ Len(Line) = LineEnd - 1
         /\ \A i \in 1..(LineEnd - 1) : Line[i] = wire[i]
<1> DEFINE T == {i \in 1..Len(wire) : wire[i] = CRLF}
<1>1. DOMAIN wire = 1..Len(wire) /\ Len(wire) \in Nat
  OBVIOUS
<1>2. T # {} /\ T \subseteq Nat
  BY <1>1 DEF HasLine, Range
<1>3. PICK m \in T : \A k \in T : m <= k
  BY <1>2, Least
<1>4. m \in DOMAIN wire /\ wire[m] = CRLF /\ \A j \in 1..(m - 1) : wire[j] # CRLF
  BY <1>1, <1>3
<1>5. LineEnd \in DOMAIN wire /\ wire[LineEnd] = CRLF /\ \A j \in 1..(LineEnd - 1) : wire[j] # CRLF
  BY <1>4 DEF LineEnd
<1>6. \A i \in 1..(LineEnd - 1) : wire[i] \in Units
  BY <1>1, <1>5
<1>7. /\ Line \in Seq(Units) /\ Len(Line) = LineEnd - 1
      /\ \A i \in 1..(LineEnd - 1) : Line[i] = wire[i]
  BY <1>1, <1>5, <1>6, SubSeqProperties DEF Line
<1> QED
  BY <1>1, <1>5, <1>7

\* What is left on the wire when its first n units have been read.
LEMMA RestFacts ==
  ASSUME NEW w \in Seq(Units), NEW n \in 0..Len(w)
  PROVE  LET rest == SubSeq(w, n + 1, Len(w)) IN
         /\ rest \in Seq(Units) /\ Len(rest) = Len(w) - n
         /\ \A i \in 1..(Len(w) - n) : rest[i] = w[n + i]
<1>1. \A i \in (n + 1)..Len(w) : w[i] \in Units
  OBVIOUS
<1>2. /\ SubSeq(w, n + 1, Len(w)) \in Seq(Units)
      /\ Len(SubSeq(w, n + 1, Len(w))) = IF n + 1 <= Len(w) THEN Len(w) - (n + 1) + 1 ELSE 0
      /\ \A i \in 1..(Len(w) - (n + 1) + 1) : SubSeq(w, n + 1, Len(w))[i] = w[(n + 1) + i - 1]
  BY <1>1, SubSeqProperties
<1> QED
  BY <1>2

\* Its first n units.
LEMMA FirstFacts ==
  ASSUME NEW w \in Seq(Units), NEW n \in 0..Len(w)
  PROVE  /\ SubSeq(w, 1, n) \in Seq(Units) /\ Len(SubSeq(w, 1, n)) = n
         /\ \A i \in 1..n : SubSeq(w, 1, n)[i] = w[i]
<1>1. \A i \in 1..n : w[i] \in Units
  OBVIOUS
<1> QED
  BY <1>1, SubSeqProperties

\* One sequence after another.
LEMMA JoinFacts ==
  ASSUME NEW a \in Seq(Units), NEW b \in Seq(Units)
  PROVE  /\ a \o b \in Seq(Units) /\ Len(a \o b) = Len(a) + Len(b)
         /\ \A i \in 1..Len(a) : (a \o b)[i] = a[i]
         /\ \A i \in 1..Len(b) : (a \o b)[Len(a) + i] = b[i]
OBVIOUS

\* One more unit.
LEMMA AppendFacts ==
  ASSUME NEW a \in Seq(Units), NEW x \in Units
  PROVE  /\ Append(a, x) \in Seq(Units) /\ Len(Append(a, x)) = Len(a) + 1
         /\ \A i \in 1..Len(a) : Append(a, x)[i] = a[i]
         /\ Append(a, x)[Len(a) + 1] = x
OBVIOUS

\* A literal goes to the end of a buffer, with the CRLF put back before it.
LEMMA PutBackFacts ==
  ASSUME NEW b \in Seq(Units), NEW u \in Seq(Units)
  PROVE  LET c == b \o <<CRLF>> \o u IN
         /\ c \in Seq(Units) /\ Len(c) = Len(b) + 1 + Len(u)
         /\ \A i \in 1..Len(b) : c[i] = b[i]
         /\ c[Len(b) + 1] = CRLF
         /\ \A i \in 1..Len(u) : c[Len(b) + 1 + i] = u[i]
<1> DEFINE d == b \o <<CRLF>>
<1>1. <<CRLF>> \in Seq(Units) /\ Len(<<CRLF>>) = 1 /\ <<CRLF>>[1] = CRLF
  BY UnitFacts
<1>2. /\ d \in Seq(Units) /\ Len(d) = Len(b) + 1 /\ Len(b) \in Nat /\ Len(u) \in Nat
      /\ \A i \in 1..Len(b) : d[i] = b[i]
      /\ d[Len(b) + 1] = CRLF
  BY <1>1
<1> HIDE DEF d
<1>3. /\ d \o u \in Seq(Units) /\ Len(d \o u) = Len(d) + Len(u)
      /\ \A i \in 1..Len(d) : (d \o u)[i] = d[i]
      /\ \A i \in 1..Len(u) : (d \o u)[Len(d) + i] = u[i]
  BY <1>2
<1>4. /\ d \o u \in Seq(Units) /\ Len(d \o u) = Len(b) + 1 + Len(u)
      /\ \A i \in 1..Len(b) : (d \o u)[i] = b[i]
      /\ (d \o u)[Len(b) + 1] = CRLF
      /\ \A i \in 1..Len(u) : (d \o u)[Len(b) + 1 + i] = u[i]
  BY <1>2, <1>3
<1> QED
  BY <1>4 DEF d

\* A line that announces a literal tells its length.
LEMMA AnnouncedFacts ==
  ASSUME wire \in Seq(Units), HasLine, Announces
  PROVE  /\ LineEnd >= 2 /\ Last(Line) = wire[LineEnd - 1]
         /\ wire[LineEnd - 1][1] = "prefix" /\ Length = wire[LineEnd - 1][2] /\ Length \in Lengths
<1>1. Len(Line) = LineEnd - 1 /\ LineEnd \in Nat /\ LineEnd >= 1 /\ Line # << >> /\ Line \in Seq(Units)
  BY LineFacts DEF Announces
<1>2. LineEnd >= 2 /\ Last(Line) = Line[LineEnd - 1] /\ Line[LineEnd - 1] = wire[LineEnd - 1]
  BY <1>1, LineFacts DEF Last
<1> QED
  BY <1>1, <1>2, UnitFacts DEF Announces, Length

-----------------------------------------------------------------------------
(* Types and sizes *)

\* What a step of the client says and sends.
LEMMA SendsTypes ==
  ASSUME SizesInv, NEW meant \in Seq(Units), NEW units \in Seq(Units), Sends(meant, units),
         client' \in Client, client'.pc \notin {"silent", "gone"} => client'.sent <= MaxCommands
  PROVE  SizesInv'
BY DEF SizesInv, ReaderTypeOK, Sends, Client, FitsFrame

\* The steps of the client keep types and sizes.
LEMMA ClientSizes ==
  ASSUME SizesInv, ClientSends \/ ClientHears \/ HangUp
  PROVE  SizesInv'
<1>0. /\ client \in Client /\ (client.pc \notin {"silent", "gone"} => client.sent <= MaxCommands)
      /\ replies \in Seq({"plus", "done", "BAD"})
      /\ MaxInput \in Nat /\ MaxText \in Nat /\ MaxLiterals \in Nat /\ MaxCommands \in Nat
      /\ MaxCommands # 0 /\ Lengths \subseteq Nat
      /\ << >> \in Seq(Units) /\ <<CRLF>> \in Seq(Units)
  BY ReaderAssumption, UnitFacts DEF SizesInv, ReaderTypeOK
<1>1. ASSUME NEW n \in 0..MaxText, SendLine(n) PROVE SizesInv'
  <2>1. Bytes(n) \in Seq(Units) /\ Bytes(n) \o <<CRLF>> \in Seq(Units)
    BY <1>0, BytesFacts
  <2>2. client' \in Client /\ client'.sent <= MaxCommands
    BY <1>0, <1>1 DEF SendLine, Client
  <2> QED
    BY <1>1, <2>1, <2>2, SendsTypes DEF SendLine
<1>2. ASSUME NEW n \in 0..MaxText, NEW length \in Lengths, NEW sync \in BOOLEAN,
             SendPrefix(n, length, sync)
      PROVE  SizesInv'
  <2>1. Prefix(length, sync) \in Units /\ CRLF \in Units /\ Bytes(n) \in Seq(Units)
    BY <1>0, BytesFacts, UnitFacts
  <2>2. /\ Append(Bytes(n), Prefix(length, sync)) \in Seq(Units)
        /\ Append(Append(Bytes(n), Prefix(length, sync)), CRLF) \in Seq(Units)
    BY <2>1
  <2>3. client' \in Client /\ client'.sent <= MaxCommands
    <3>1. /\ client.literals + 1 \in 0..MaxLiterals /\ client.sent <= MaxCommands
          /\ client.literals \in Nat /\ client.sent \in Nat
      BY <1>0, <1>2 DEF SendPrefix, Client
    <3>2. PICK pc \in {"plus", "literal"} :
            client' = [client EXCEPT !.pc = pc, !.literals = client.literals + 1, !.length = length]
      BY <1>2 DEF SendPrefix
    <3> QED
      BY <1>0, <3>1, <3>2 DEF Client
  <2> QED
    BY <1>2, <2>2, <2>3, SendsTypes DEF SendPrefix
<1>3. ASSUME NEW n \in Lengths, NEW text \in Literals(n), SendLiteral(text) PROVE SizesInv'
  <2>1. text \in Seq(Units) /\ <<CRLF>> \o text \in Seq(Units)
    BY <1>0, LiteralFacts
  <2>2. client' \in Client /\ client'.sent <= MaxCommands
    BY <1>0, <1>3 DEF SendLiteral, Client
  <2> QED
    BY <1>3, <2>1, <2>2, SendsTypes DEF SendLiteral
<1>4. ASSUME NEW answers, Hears(answers)
      PROVE  /\ replies' \in Seq({"plus", "done", "BAD"})
             /\ UNCHANGED <<wire, reader, due, ibuffer, ibuffer_size, pipe, overrun>>
  BY <1>0, <1>4 DEF Hears
<1>5. CASE HearsPlus \/ HearsLatePlus
  <2>1. /\ client' \in Client /\ (client'.pc \notin {"silent", "gone"} => client'.sent <= MaxCommands)
        /\ said' = said
    BY <1>0, <1>5 DEF HearsPlus, HearsLatePlus, Client
  <2> QED
    BY <1>4, <1>5, <2>1 DEF HearsPlus, HearsLatePlus, SizesInv, ReaderTypeOK, Client, FitsFrame
<1>6. CASE HearsAnswer
  <2>1. /\ client' \in Client /\ (client'.pc \notin {"silent", "gone"} => client'.sent <= MaxCommands)
        /\ said' = << >>
    <3>1. client.sent + 1 \in 1..(MaxCommands + 1) /\ client.sent \in 1..MaxCommands
      BY <1>0, <1>6 DEF HearsAnswer, Client
    <3>2. PICK pc \in {"silent", "line"} :
            /\ client' = [client EXCEPT !.pc = pc, !.sent = client.sent + 1, !.literals = 0, !.length = 0]
            /\ pc = "line" => client.sent # MaxCommands
      BY <1>6 DEF HearsAnswer
    <3>3. client' \in Client /\ client'.sent = client.sent + 1 /\ client'.pc = pc
      <4>1. 0 \in 0..MaxLiterals /\ 0 \in Lengths \cup {0}
        BY <1>0
      <4> QED
        BY <1>0, <3>1, <3>2, <4>1 DEF Client
    <3>4. said' = << >>
      BY <1>6 DEF HearsAnswer
    <3> QED
      BY <1>0, <3>1, <3>2, <3>3, <3>4
  <2> QED
    BY <1>0, <1>4, <1>6, <2>1 DEF HearsAnswer, SizesInv, ReaderTypeOK, Client, FitsFrame
<1>7. CASE HangUp
  <2>1. client' \in Client /\ client'.pc = "gone"
    BY <1>0, <1>7 DEF HangUp, Client
  <2> QED
    BY <1>7, <2>1 DEF HangUp, SizesInv, ReaderTypeOK, Client, FitsFrame
<1> QED
  BY <1>1, <1>2, <1>3, <1>5, <1>6, <1>7 DEF ClientSends, ClientHears

\* A line that is read: its text goes to the end of the buffer, and is counted.
LEMMA ReadsLineSizes ==
  ASSUME SizesInv, ReadsLine
  PROVE  /\ wire' \in Seq(Units) /\ UNCHANGED <<client, said>>
         /\ Gathered \in Seq(Units) /\ GatheredSize = Len(Gathered) /\ GatheredSize \in Nat
<1> USE DEF SizesInv, ReaderTypeOK
<1>1. LineEnd \in 0..Len(wire) /\ Line \in Seq(Units) /\ wire \in Seq(Units) /\ ibuffer \in Seq(Units)
  BY LineFacts DEF ReadsLine
<1>2. wire' \in Seq(Units)
  BY <1>1, RestFacts DEF ReadsLine
<1>3. ibuffer \o Line \in Seq(Units) /\ Len(ibuffer \o Line) = Len(ibuffer) + Len(Line)
  BY <1>1
<1> QED
  BY <1>1, <1>2, <1>3 DEF ReadsLine, Gathered, GatheredSize

\* The steps of the reader keep types and sizes; a command that is handed on is
\* no longer than the frame allows.
LEMMA ReaderSizes ==
  ASSUME SizesInv, Start
  PROVE  SizesInv'
<1> USE DEF SizesInv, ReaderTypeOK, Client
<1>0. /\ MaxInput \in Nat /\ Lengths \subseteq Nat
      /\ << >> \in Seq(Units) /\ Len(<< >>) = 0 /\ <<CRLF>> \in Seq(Units) /\ Len(<<CRLF>>) = 1
      /\ \A r \in {"plus", "done", "BAD"} : Append(replies, r) \in Seq({"plus", "done", "BAD"})
  BY ReaderAssumption, UnitFacts
<1>1. CASE EmptyMessage
  BY <1>0, <1>1, ReadsLineSizes DEF EmptyMessage, Pushes, FitsFrame
<1>2. CASE LiteralTooLong \/ CommandTooLong
  <2>1. /\ wire' \in Seq(Units) /\ UNCHANGED <<client, said, due, pipe>>
        /\ ibuffer' = << >> /\ ibuffer_size' = 0 /\ overrun' = TRUE
        /\ replies' = Append(replies, "BAD") /\ reader' \in {reader, "drain"}
    BY <1>2, ReadsLineSizes DEF LiteralTooLong, CommandTooLong, Pushes, Empties
  <2> QED
    BY <1>0, <2>1 DEF FitsFrame
<1>3. CASE LiteralAnnounced
  <2>1. Length \in Lengths
    BY <1>3, AnnouncedFacts DEF LiteralAnnounced, ReadsLine
  <2> QED
    BY <1>0, <1>3, <2>1, ReadsLineSizes DEF LiteralAnnounced, Pushes, FitsFrame
<1>4. CASE Drain
  <2>1. wire' \in Seq(Units)
    BY <1>4, LineFacts, RestFacts, SMTT(30) DEF Drain
  <2> QED
    BY <1>4, <2>1 DEF Drain, FitsFrame
<1>5. CASE ReadLiteral
  <2>1. due \in Nat /\ due \in 0..Len(wire) /\ wire \in Seq(Units)
    BY <1>0, <1>5 DEF ReadLiteral
  <2>2. wire' \in Seq(Units) /\ SubSeq(wire, 1, due) \in Seq(Units) /\ Len(SubSeq(wire, 1, due)) = due
    BY <1>5, <2>1, RestFacts, FirstFacts DEF ReadLiteral
  <2>3. /\ ibuffer \o <<CRLF>> \o SubSeq(wire, 1, due) \in Seq(Units)
        /\ Len(ibuffer \o <<CRLF>> \o SubSeq(wire, 1, due)) = ibuffer_size + due + 1
    <3>1. ibuffer \in Seq(Units) /\ Len(ibuffer) = ibuffer_size /\ ibuffer_size \in Nat
      OBVIOUS
    <3> HIDE DEF SizesInv, ReaderTypeOK, Client
    <3>2. /\ ibuffer \o <<CRLF>> \o SubSeq(wire, 1, due) \in Seq(Units)
          /\ Len(ibuffer \o <<CRLF>> \o SubSeq(wire, 1, due)) = Len(ibuffer) + 1 + Len(SubSeq(wire, 1, due))
      BY <2>2, <3>1, PutBackFacts
    <3>3. ibuffer_size + 1 + due = ibuffer_size + due + 1
      BY <2>1, <3>1
    <3> QED
      BY <2>2, <3>1, <3>2, <3>3, Zenon
  <2>4. /\ ibuffer' \in Seq(Units) /\ ibuffer_size' = Len(ibuffer') /\ ibuffer_size' \in Nat
    <3>1. \/ ibuffer' = << >> /\ ibuffer_size' = 0
          \/ /\ ibuffer' = ibuffer \o <<CRLF>> \o SubSeq(wire, 1, due)
             /\ ibuffer_size' = ibuffer_size + due + 1
      BY <1>5 DEF ReadLiteral, Empties
    <3>2. ibuffer_size \in Nat
      OBVIOUS
    <3>3. ibuffer_size + due + 1 \in Nat
      BY <2>1, <3>2
    <3> HIDE DEF SizesInv, ReaderTypeOK, Client
    <3>4. CASE ibuffer' = << >> /\ ibuffer_size' = 0
      BY <1>0, <3>4
    <3> QED
      BY <2>3, <3>1, <3>3, <3>4
  <2>5. replies' \in Seq({"plus", "done", "BAD"}) /\ overrun' \in BOOLEAN
    BY <1>0, <1>5 DEF ReadLiteral, Pushes
  <2>6. UNCHANGED <<client, said, pipe>> /\ reader' = "line" /\ due' = 0
    BY <1>5 DEF ReadLiteral
  <2> QED
    BY <2>2, <2>4, <2>5, <2>6 DEF FitsFrame
<1>6. CASE HandOn
  <2>1. /\ pipe' = Append(pipe, Frame(Gathered)) /\ Frame(Gathered) \in [length : Nat, whole : BOOLEAN]
        /\ Frame(Gathered).length <= MaxInput
    BY <1>0, <1>6, ReadsLineSizes DEF HandOn, Frame
  <2> HIDE DEF Client
  <2>2. pipe' \in Seq([length : Nat, whole : BOOLEAN]) /\ FitsFrame'
    BY <2>1 DEF FitsFrame
  <2> QED
    BY <1>0, <1>6, <2>2, ReadsLineSizes DEF HandOn, Empties, Client
<1>7. CASE EndOfFile
  BY <1>0, <1>7 DEF EndOfFile, Empties, FitsFrame
<1>8. CASE LineTooLong
  <2>1. client'.pc = "gone" /\ client' \in Client
    BY <1>8 DEF LineTooLong, Leaves
  <2> QED
    BY <1>0, <1>8, <2>1 DEF LineTooLong, Leaves, Empties, FitsFrame
<1> QED
  BY <1>1, <1>2, <1>3, <1>4, <1>5, <1>6, <1>7, <1>8 DEF Start

\* The steps of the user's process keep types and sizes.
LEMMA RunSizes ==
  ASSUME SizesInv, NEW answer \in {"done", "BAD"}, NEW last \in BOOLEAN, Run(answer, last)
  PROVE  SizesInv'
<1> USE DEF SizesInv, ReaderTypeOK
<1>1. /\ pipe' \in Seq([length : Nat, whole : BOOLEAN])
      /\ Len(pipe') = Len(pipe) - 1 /\ \A i \in 1..Len(pipe') : pipe'[i] = pipe[i + 1] /\ i + 1 \in 1..Len(pipe)
  BY HeadTailProperties DEF Run
<1>2. FitsFrame'
  <2>1. DOMAIN pipe = 1..Len(pipe) /\ DOMAIN pipe' = 1..Len(pipe')
    BY <1>1
  <2> QED
    BY <1>1, <2>1 DEF FitsFrame
<1>3. replies' \in Seq({"plus", "done", "BAD"})
  <2>1. Append(replies, answer) \in Seq({"plus", "done", "BAD"}) /\ replies \in Seq({"plus", "done", "BAD"})
    OBVIOUS
  <2>2. replies' \in {replies, Append(replies, answer)}
    BY DEF Run, Pushes
  <2> QED
    BY <2>1, <2>2
<1>4. client' \in Client /\ (client'.pc \notin {"silent", "gone"} => client'.sent <= MaxCommands)
  BY DEF Run, Leaves, Client
<1> QED
  BY <1>1, <1>2, <1>3, <1>4 DEF Run, Client

\* Every variable has its type, and the size is that of the buffer.
LEMMA SizesHold == Spec => []SizesInv
<1>1. Init => SizesInv
  <2> SUFFICES ASSUME Init PROVE SizesInv
    OBVIOUS
  <2>1. 0 \in 0..MaxLiterals /\ 1 \in 1..(MaxCommands + 1) /\ 1 <= MaxCommands
    <3>1. MaxLiterals \in Nat /\ MaxCommands \in Nat /\ MaxCommands # 0
      BY ReaderAssumption
    <3> QED
      BY <3>1
  <2>2. client \in Client /\ client.sent <= MaxCommands
    BY <2>1 DEF Init, Client
  <2>3. /\ {said, wire, ibuffer} \subseteq Seq(Units) /\ replies \in Seq({"plus", "done", "BAD"})
        /\ pipe \in Seq([length : Nat, whole : BOOLEAN]) /\ ibuffer_size = Len(ibuffer)
    BY EmptySeq DEF Init
  <2>4. FitsFrame
    BY DEF Init, FitsFrame
  <2>5. ReaderTypeOK
    <3>1. /\ client.pc \in {"line", "literal", "plus", "answer", "silent", "gone"}
          /\ client.length \in Lengths \cup {0} /\ client.literals \in 0..MaxLiterals
          /\ client.sent \in 1..(MaxCommands + 1)
      BY <2>2 DEF Client
    <3>2. /\ reader \in {"line", "literal", "drain", "closed"} /\ due \in Lengths \cup {0}
          /\ ibuffer_size \in Nat /\ overrun \in BOOLEAN
      BY DEF Init
    <3> QED
      BY <2>3, <3>1, <3>2, Zenon DEF ReaderTypeOK
  <2> QED
    BY <2>2, <2>3, <2>4, <2>5 DEF SizesInv
<1>2. SizesInv /\ [Next]_vars => SizesInv'
  <2> SUFFICES ASSUME SizesInv, [Next]_vars PROVE SizesInv'
    OBVIOUS
  <2>1. CASE UNCHANGED vars
    BY <2>1 DEF vars, SizesInv, ReaderTypeOK, FitsFrame
  <2>2. CASE Next
    BY <2>2, ClientSizes, ReaderSizes, RunSizes DEF Next, Serves
  <2> QED
    BY <2>1, <2>2
<1> QED
  BY <1>1, <1>2, PTL DEF Spec

(***************************************************************************)
(* Every variable of the reader keeps its type, whatever the client sends  *)
(* and wherever it hangs up.                                               *)
(***************************************************************************)
THEOREM ReaderTyped == Spec => []ReaderTypeOK
<1>1. SizesInv => ReaderTypeOK
  BY DEF SizesInv
<1> QED
  BY <1>1, SizesHold, PTL

(***************************************************************************)
(* What the front server hands on is never too long for the user's         *)
(* process, which would hang up without a word: the front server counts    *)
(* line by line and literal by literal exactly what is in its buffer.      *)
(***************************************************************************)
THEOREM FitsFrameHolds == Spec => []FitsFrame
<1>1. SizesInv => FitsFrame
  BY DEF SizesInv
<1> QED
  BY <1>1, SizesHold, PTL

-----------------------------------------------------------------------------
(* What the client has sent *)

\* The literals in a stream have lengths that are numbers.
LEMMA LitNat ==
  ASSUME NEW s, NEW heads, NEW phase, NEW length, Marked(s, heads, phase, length), NEW e \in heads
  PROVE  e \in 2..Len(s) /\ Len(s) \in Nat /\ Lit(s, e) \in Nat
<1>1. e \in 2..Len(s) /\ Len(s) \in Nat /\ s[e - 1] \in Units /\ s[e - 1][1] = "prefix"
  BY DEF Marked
<1>2. s[e - 1][2] \in Nat
  BY <1>1, UnitFacts, ReaderAssumption
<1> QED
  BY <1>1, <1>2 DEF Lit

\* The last line of a command.
LEMMA MarkedLine ==
  ASSUME NEW s, NEW heads, NEW length, NEW any, Marked(s, heads, "line", length),
         NEW n \in Nat, NEW t \in Seq(Units), Len(t) = Len(s) + n + 1,
         \A i \in 1..Len(s) : t[i] = s[i],
         \A i \in 1..n : t[Len(s) + i] = Byte,
         t[Len(t)] = CRLF
  PROVE  Marked(t, heads, "complete", any)
<1>0. Len(s) \in Nat /\ heads \subseteq 2..Len(s)
  BY DEF Marked
<1>1. \A e \in heads : /\ e \in 2..Len(s) /\ e \in 1..Len(s) /\ e - 1 \in 1..Len(s)
                       /\ Lit(t, e) = Lit(s, e) /\ Lit(s, e) \in Nat
                       /\ t[e] = s[e] /\ t[e - 1] = s[e - 1]
  BY <1>0, LitNat DEF Lit
<1>2. \A e \in heads : /\ t[e] = CRLF /\ t[e - 1][1] = "prefix" /\ e + Lit(t, e) <= Len(s)
  BY <1>1 DEF Marked
<1>3. \A e, f \in heads : e < f => e + Lit(t, e) < f - 1
  BY <1>1 DEF Marked
<1>4. ASSUME NEW i \in 1..Len(t), t[i] = CRLF
      PROVE  i \in heads \/ (\E e \in heads : e < i /\ i <= e + Lit(t, e)) \/ i = Len(t)
  <2>1. CASE i \in 1..Len(s)
    <3>1. s[i] = CRLF
      BY <1>4, <2>1
    <3> QED
      BY <1>1, <2>1, <3>1 DEF Marked
  <2>2. CASE i \in (Len(s) + 1)..(Len(s) + n)
    <3>1. i - Len(s) \in 1..n /\ t[Len(s) + (i - Len(s))] = t[i]
      BY <1>0, <2>2
    <3> QED
      BY <1>4, <3>1, UnitFacts
  <2> QED
    BY <1>0, <2>1, <2>2
<1>5. Len(t) = 1 \/ t[Len(t) - 1][1] # "prefix"
  <2>1. CASE n = 0
    BY <1>0, <2>1 DEF Marked
  <2>2. CASE n # 0
    <3>1. n \in 1..n /\ Len(s) + n = Len(t) - 1
      BY <1>0, <2>2
    <3> QED
      BY <3>1, UnitFacts
  <2> QED
    BY <2>1, <2>2
<1>6. \A e \in heads : e + Lit(t, e) < Len(t) /\ e + Lit(t, e) <= Len(t) /\ e \in 2..Len(t)
  BY <1>0, <1>1, <1>2
<1> QED
  BY <1>0, <1>2, <1>3, <1>4, <1>5, <1>6 DEF Marked

\* A line that announces a literal.  One of no bytes is all there with it.
LEMMA MarkedPrefix ==
  ASSUME NEW s, NEW heads, NEW any, Marked(s, heads, "line", any),
         NEW n \in Nat, NEW length \in Lengths, NEW sync \in BOOLEAN,
         NEW t \in Seq(Units), Len(t) = Len(s) + n + 2,
         \A i \in 1..Len(s) : t[i] = s[i],
         \A i \in 1..n : t[Len(s) + i] = Byte,
         t[Len(t) - 1] = Prefix(length, sync),
         t[Len(t)] = CRLF
  PROVE  Marked(t, IF length = 0 THEN heads \cup {Len(t)} ELSE heads, "announced", length)
<1> DEFINE new == IF length = 0 THEN heads \cup {Len(t)} ELSE heads
<1>0. /\ Len(s) \in Nat /\ heads \subseteq 2..Len(s) /\ length \in Nat
      /\ t[Len(t) - 1][1] = "prefix" /\ t[Len(t) - 1][2] = length
  BY UnitFacts, ReaderAssumption DEF Marked
<1>1. \A e \in heads : /\ e \in 2..Len(s) /\ e \in 1..Len(s) /\ e - 1 \in 1..Len(s)
                       /\ Lit(t, e) = Lit(s, e) /\ Lit(s, e) \in Nat
                       /\ t[e] = s[e] /\ t[e - 1] = s[e - 1]
  BY <1>0, LitNat DEF Lit
<1>2. \A e \in heads : t[e] = CRLF /\ t[e - 1][1] = "prefix" /\ e + Lit(t, e) <= Len(s)
  BY <1>1 DEF Marked
<1>3. \A e, f \in heads : e < f => e + Lit(t, e) < f - 1
  BY <1>1 DEF Marked
<1>4. \A e \in new : e \in heads \/ (e = Len(t) /\ length = 0)
  OBVIOUS
<1>5. length = 0 => Lit(t, Len(t)) = 0
  BY <1>0 DEF Lit
<1>a. Len(t) \in 2..Len(t) /\ Len(s) <= Len(t) - 2 /\ Len(t) \in Nat
  BY <1>0
<1>b. \A e \in heads : e \in 2..Len(t) /\ e + Lit(t, e) <= Len(t)
  BY <1>0, <1>a, <1>1, <1>2
<1>6. new \subseteq 2..Len(t)
  BY <1>a, <1>b, <1>4
<1>7. \A e \in new : t[e] = CRLF /\ t[e - 1][1] = "prefix" /\ e + Lit(t, e) <= Len(t)
  <2>1. CASE length = 0
    BY <1>0, <1>a, <1>b, <1>2, <1>4, <1>5, <2>1
  <2>2. CASE length # 0
    BY <1>b, <1>2, <1>4, <2>2
  <2> QED
    BY <2>1, <2>2
<1>8. ASSUME NEW e \in new, NEW f \in new, e < f PROVE e + Lit(t, e) < f - 1
  <2>1. e \in heads
    BY <1>a, <1>4, <1>6, <1>8
  <2>2. CASE f \in heads
    BY <1>3, <1>8, <2>1, <2>2
  <2>3. CASE f = Len(t)
    BY <1>0, <1>1, <1>2, <2>1, <2>3
  <2> QED
    BY <1>4, <2>2, <2>3
<1>9. ASSUME NEW i \in 1..Len(t), t[i] = CRLF
      PROVE  i \in new \/ (\E e \in new : e < i /\ i <= e + Lit(t, e)) \/ i = Len(t)
  <2>1. CASE i \in 1..Len(s)
    <3>1. s[i] = CRLF
      BY <1>9, <2>1
    <3>2. i \in heads \/ \E e \in heads : e < i /\ i <= e + Lit(t, e)
      BY <1>1, <2>1, <3>1 DEF Marked
    <3> QED
      BY <3>2
  <2>2. CASE i \in (Len(s) + 1)..(Len(s) + n)
    <3>1. i - Len(s) \in 1..n /\ t[Len(s) + (i - Len(s))] = t[i]
      BY <1>0, <2>2
    <3> QED
      BY <1>9, <3>1, UnitFacts
  <2>3. CASE i = Len(t) - 1
    BY <1>0, <1>9, <2>3, UnitFacts
  <2> QED
    BY <1>0, <2>1, <2>2, <2>3
<1>10. \A e \in new : e = Len(t) \/ e + Lit(t, e) < Len(t) - 1
  BY <1>0, <1>1, <1>2, <1>4
<1>11. Len(t) # 0 /\ Len(t) # 1 /\ (length = 0 => Len(t) \in new)
  BY <1>0
<1> HIDE DEF new
<1>12. Marked(t, new, "announced", length)
  BY <1>0, <1>6, <1>7, <1>8, <1>9, <1>10, <1>11 DEF Marked
<1> QED
  BY <1>12 DEF new

\* The text of a literal: from now on it is all there.
LEMMA MarkedLiteral ==
  ASSUME NEW s, NEW heads, NEW length \in Nat, NEW any, Marked(s, heads, "announced", length),
         NEW t \in Seq(Units), Len(t) = Len(s) + length,
         \A i \in 1..Len(s) : t[i] = s[i],
         \A i \in 1..length : t[Len(s) + i] \in {Byte, CRLF}
  PROVE  Marked(t, heads \cup {Len(s)}, "line", any)
<1> DEFINE new == heads \cup {Len(s)}
<1>0. /\ Len(s) \in Nat /\ heads \subseteq 2..Len(s) /\ Len(s) >= 2 /\ s[Len(s)] = CRLF
      /\ s[Len(s) - 1][1] = "prefix" /\ s[Len(s) - 1][2] = length
      /\ Len(s) - 1 \in 1..Len(s) /\ Len(s) \in 1..Len(s)
  <2>1. /\ Len(s) \in Nat /\ heads \subseteq 2..Len(s) /\ Len(s) # 0 /\ Len(s) # 1 /\ s[Len(s)] = CRLF
        /\ s[Len(s) - 1][1] = "prefix" /\ s[Len(s) - 1][2] = length
    BY DEF Marked
  <2>2. Len(s) >= 2
    <3>1. \A n \in Nat : n # 0 /\ n # 1 => n >= 2
      OBVIOUS
    <3> QED
      BY <2>1, <3>1, Zenon
  <2>3. Len(s) - 1 \in 1..Len(s) /\ Len(s) \in 1..Len(s)
    BY <2>1, <2>2
  <2> QED
    BY <2>1, <2>2, <2>3
<1>1. \A e \in heads : /\ e \in 2..Len(s) /\ e \in 1..Len(s) /\ e - 1 \in 1..Len(s)
                       /\ Lit(t, e) = Lit(s, e) /\ Lit(s, e) \in Nat
                       /\ t[e] = s[e] /\ t[e - 1] = s[e - 1]
  BY <1>0, LitNat, SMTT(30) DEF Lit
<1>2. \A e \in heads : t[e] = CRLF /\ t[e - 1][1] = "prefix" /\ e + Lit(t, e) <= Len(s)
  BY <1>1 DEF Marked
<1>3. \A e, f \in heads : e < f => e + Lit(t, e) < f - 1
  BY <1>1 DEF Marked
<1>4. \A e \in heads : e = Len(s) \/ e + Lit(t, e) < Len(s) - 1
  BY <1>1 DEF Marked
<1>5. /\ t[Len(s)] = CRLF /\ t[Len(s) - 1][1] = "prefix" /\ Lit(t, Len(s)) = length
      /\ Len(s) \in 2..Len(t)
  BY <1>0 DEF Lit
<1>a. \A e \in heads : e \in 2..Len(t)
  BY <1>0, <1>1
<1>6. new \subseteq 2..Len(t)
  BY <1>a, <1>5
<1>7. \A e \in new : t[e] = CRLF /\ t[e - 1][1] = "prefix" /\ e + Lit(t, e) <= Len(t)
  BY <1>0, <1>1, <1>2, <1>5
<1>8. ASSUME NEW e \in new, NEW f \in new, e < f PROVE e + Lit(t, e) < f - 1
  <2>1. e \in heads
    BY <1>0, <1>1, <1>8
  <2>2. CASE f \in heads
    BY <1>3, <1>8, <2>1, <2>2
  <2>3. CASE f = Len(s)
    BY <1>0, <1>1, <1>4, <1>8, <2>1, <2>3
  <2> QED
    BY <2>2, <2>3
<1>9. ASSUME NEW i \in 1..Len(t), t[i] = CRLF
      PROVE  i \in new \/ \E e \in new : e < i /\ i <= e + Lit(t, e)
  <2>1. CASE i \in 1..Len(s)
    <3>1. s[i] = CRLF
      BY <1>9, <2>1
    <3>2. i \in heads \/ (\E e \in heads : e < i /\ i <= e + Lit(t, e)) \/ i = Len(s)
      BY <1>1, <2>1, <3>1 DEF Marked
    <3> QED
      BY <3>2
  <2>2. CASE i > Len(s)
    BY <1>0, <1>5, <2>2
  <2> QED
    BY <1>0, <2>1, <2>2
<1>10. t[Len(t)][1] # "prefix"
  <2>1. CASE length = 0
    BY <1>0, <1>5, <2>1, UnitFacts
  <2>2. CASE length # 0
    <3>1. length \in 1..length /\ Len(s) + length = Len(t)
      BY <2>2
    <3> QED
      BY <3>1, UnitFacts
  <2> QED
    BY <2>1, <2>2
<1> HIDE DEF new
<1>11. Marked(t, new, "line", any)
  BY <1>6, <1>7, <1>8, <1>9, <1>10 DEF Marked
<1> QED
  BY <1>11 DEF new

\* What has been read stays read while the client sends more.
LEMMA StillRead ==
  ASSUME NEW s, NEW heads, NEW phase, NEW length, Marked(s, heads, phase, length),
         NEW r, HasRead(s, heads, phase, r), wire \in Seq(Units),
         NEW u \in Seq(Units), wire' = wire \o u,
         NEW t \in Seq(Units), Len(t) = Len(s) + Len(u),
         \A i \in 1..Len(s) : t[i] = s[i],
         \A i \in 1..Len(u) : t[Len(s) + i] = u[i],
         NEW new, heads \subseteq new, phase = "announced" => Len(s) \in new,
         NEW next, UNCHANGED <<reader, due, ibuffer>>
  PROVE  HasRead(t, new, next, r)'
<1>0. /\ Len(s) \in Nat /\ Len(u) \in Nat /\ Len(wire) \in Nat /\ r \in 0..Len(s)
      /\ Len(wire) = Len(s) - r /\ heads \subseteq 2..Len(s)
  BY DEF Marked, HasRead
<1>1. /\ Len(wire') = Len(wire) + Len(u)
      /\ \A i \in 1..Len(wire) : wire'[i] = wire[i]
      /\ \A i \in 1..Len(u) : wire'[Len(wire) + i] = u[i]
  BY JoinFacts
<1>2. ASSUME NEW i \in 1..Len(wire') PROVE wire'[i] = t[r + i]
  <2>1. CASE i \in 1..Len(wire)
    <3>1. r + i \in 1..Len(s) /\ wire[i] = s[r + i]
      BY <1>0, <2>1 DEF HasRead
    <3> QED
      BY <1>1, <2>1, <3>1
  <2>2. CASE i > Len(wire)
    <3>1. PICK j \in 1..Len(u) : i = Len(wire) + j
      <4>1. i \in Nat /\ i <= Len(wire) + Len(u) /\ i > Len(wire) /\ Len(wire) \in Nat /\ Len(u) \in Nat
        BY <1>0, <1>1, <2>2
      <4>2. i - Len(wire) \in 1..Len(u) /\ i = Len(wire) + (i - Len(wire))
        BY <4>1
      <4> QED
        BY <4>2
    <3>2. r + i = Len(s) + j
      BY <1>0, <3>1
    <3> QED
      BY <1>1, <3>1, <3>2
  <2> QED
    BY <1>0, <1>1, <2>1, <2>2
<1>3. r \in 0..Len(t) /\ Len(wire') = Len(t) - r
  BY <1>0, <1>1
<1>4. \A i \in 1..r : i \in 1..Len(s) /\ t[i] = s[i]
  BY <1>0
<1>5. ASSUME NEW f \in heads PROVE Lit(t, f) = Lit(s, f) /\ f \in new
  <2>1. f \in 2..Len(s)
    BY <1>0
  <2>2. f - 1 \in 1..Len(s)
    BY <1>0, <2>1
  <2> QED
    BY <2>2 DEF Lit
<1>6. ASSUME reader = "line"
      PROVE  /\ Len(ibuffer) = r /\ \A i \in 1..r : ibuffer[i] = t[i]
             /\ r = 0 \/ \E f \in new : r = f + Lit(t, f)
  BY <1>4, <1>5, <1>6 DEF HasRead
<1>7. ASSUME reader = "literal"
      PROVE  /\ r \notin {0, 1} /\ Len(ibuffer) = r - 1 /\ \A i \in 1..(r - 1) : ibuffer[i] = t[i]
             /\ r \in new
             /\ due = t[r - 1][2]
  <2>1. /\ r \notin {0, 1} /\ Len(ibuffer) = r - 1 /\ \A i \in 1..(r - 1) : ibuffer[i] = s[i]
        /\ r \in heads \/ (r = Len(s) /\ phase = "announced")
        /\ due = s[r - 1][2]
    BY <1>7 DEF HasRead
  <2>2. r - 1 \in 1..r /\ \A i \in 1..(r - 1) : i \in 1..r
    BY <1>0, <2>1
  <2> QED
    BY <1>4, <2>1, <2>2
<1>8. reader' \in {"line", "literal"}
  BY DEF HasRead
<1> QED
  BY <1>2, <1>3, <1>6, <1>7, <1>8 DEF HasRead

-----------------------------------------------------------------------------
(* What the reader makes of it *)

\* The line break at j ends the line that comes after the first r units.
LEMMA LineBreak ==
  ASSUME NEW s, NEW heads, NEW phase \in Stages, NEW length, Marked(s, heads, phase, length),
         NEW r \in 0..Len(s), r = 0 \/ \E f \in heads : r = f + Lit(s, f),
         NEW j \in (r + 1)..Len(s), s[j] = CRLF,
         \A i \in (r + 1)..(j - 1) : s[i] # CRLF
  PROVE  \/ /\ j - 1 > r /\ s[j - 1][1] = "prefix"
            /\ j \in heads \/ (j = Len(s) /\ phase = "announced")
         \/ /\ j - 1 = r \/ s[j - 1][1] # "prefix"
            /\ j = Len(s) /\ phase = "complete"
<1>0. Len(s) \in Nat /\ r \in Nat /\ j \in Nat /\ r < j /\ j <= Len(s) /\ j \in 1..Len(s)
  BY DEF Marked
<1>1. \A e \in heads : e \in 2..Len(s) /\ e \in Nat /\ 2 <= e /\ Lit(s, e) \in Nat
  BY LitNat
<1>2. \A e, f \in heads : e < f => e + Lit(s, e) < f - 1
  BY DEF Marked
<1>3. CASE j \in heads
  <2>1. s[j - 1][1] = "prefix" /\ 2 <= j
    BY <1>1, <1>3 DEF Marked
  <2>2. j - 1 > r
    <3>1. CASE r = 0
      BY <1>0, <2>1, <3>1
    <3>2. CASE \E f \in heads : r = f + Lit(s, f)
      <4>1. PICK f \in heads : r = f + Lit(s, f)
        BY <3>2
      <4>2. f < j
        BY <1>0, <1>1, <4>1
      <4> QED
        BY <1>0, <1>2, <1>3, <4>1, <4>2
    <3> QED
      BY <3>1, <3>2
  <2> QED
    BY <1>3, <2>1, <2>2
<1>4. ~ \E e \in heads : e < j /\ j <= e + Lit(s, e)
  <2> SUFFICES ASSUME NEW e \in heads, e < j, j <= e + Lit(s, e) PROVE FALSE
    OBVIOUS
  <2>1. CASE e > r
    <3>1. e \in (r + 1)..(j - 1)
      BY <1>0, <1>1, <2>1
    <3> QED
      BY <3>1 DEF Marked
  <2>2. CASE e <= r
    <3>1. PICK f \in heads : r = f + Lit(s, f)
      BY <1>0, <1>1, <2>2
    <3>2. e \in Nat /\ f \in Nat /\ Lit(s, e) \in Nat /\ Lit(s, f) \in Nat
      BY <1>1
    <3>3. CASE e < f
      BY <1>0, <1>2, <3>1, <3>2, <3>3
    <3>4. CASE f < e
      BY <1>0, <1>2, <2>2, <3>1, <3>2, <3>4
    <3>5. CASE e = f
      BY <1>0, <3>1, <3>2, <3>5
    <3> QED
      BY <3>2, <3>3, <3>4, <3>5
  <2> QED
    BY <1>0, <1>1, <2>1, <2>2
<1>5. j \in heads \/ (j = Len(s) /\ phase # "line")
  BY <1>0, <1>4 DEF Marked
<1>6. CASE j \notin heads /\ j = Len(s) /\ phase = "announced"
  <2>1. s[j - 1][1] = "prefix" /\ j # 1 /\ \A e \in heads : e = j \/ e + Lit(s, e) < j - 1
    BY <1>6 DEF Marked
  <2>2. j - 1 > r
    <3>1. CASE r = 0
      BY <1>0, <2>1, <3>1
    <3>2. CASE \E f \in heads : r = f + Lit(s, f)
      BY <1>6, <2>1, <3>2
    <3> QED
      BY <3>1, <3>2
  <2> QED
    BY <1>6, <2>1, <2>2
<1>7. CASE j = Len(s) /\ phase = "complete"
  <2>1. j = 1 \/ s[j - 1][1] # "prefix"
    BY <1>7 DEF Marked
  <2>2. j = 1 => j - 1 = r
    BY <1>0
  <2> QED
    BY <1>7, <2>1, <2>2
<1> QED
  BY <1>3, <1>5, <1>6, <1>7 DEF Stages

\* The line that is read, with the buffer before it, is what the client has sent
\* up to there: up to a literal, or all of the command.
LEMMA NextLine ==
  ASSUME NEW s, NEW heads, NEW phase \in Stages, NEW length, Marked(s, heads, phase, length),
         NEW r, HasRead(s, heads, phase, r),
         wire \in Seq(Units), ibuffer \in Seq(Units), reader = "line", HasLine
  PROVE  /\ r \in Nat /\ LineEnd \in Nat /\ r + LineEnd \in 1..Len(s) /\ r < r + LineEnd
         /\ s[r + LineEnd] = CRLF
         /\ Gathered \in Seq(Units) /\ Len(Gathered) = r + LineEnd - 1
         /\ \A i \in 1..(r + LineEnd - 1) : Gathered[i] = s[i]
         /\ Announces => /\ r + LineEnd \notin {0, 1} /\ Length = s[r + LineEnd - 1][2]
                         /\ r + LineEnd \in heads \/ (r + LineEnd = Len(s) /\ phase = "announced")
         /\ ~ Announces => r + LineEnd = Len(s) /\ phase = "complete"
<1> DEFINE j == r + LineEnd
<1>1. /\ Len(s) \in Nat /\ r \in 0..Len(s) /\ Len(wire) = Len(s) - r
      /\ \A i \in 1..Len(wire) : wire[i] = s[r + i]
      /\ Len(ibuffer) = r /\ \A i \in 1..r : ibuffer[i] = s[i]
      /\ r = 0 \/ \E f \in heads : r = f + Lit(s, f)
  BY DEF Marked, HasRead
<1>2. /\ LineEnd \in 1..Len(wire) /\ wire[LineEnd] = CRLF
      /\ \A i \in 1..(LineEnd - 1) : wire[i] # CRLF
      /\ Line \in Seq(Units) /\ Len(Line) = LineEnd - 1
      /\ \A i \in 1..(LineEnd - 1) : Line[i] = wire[i]
  BY LineFacts
<1>3. /\ r \in Nat /\ LineEnd \in Nat /\ LineEnd >= 1 /\ j \in Nat /\ j \in 1..Len(s) /\ r < j
      /\ j \in (r + 1)..Len(s)
      /\ \A i \in 1..(LineEnd - 1) : i \in 1..Len(wire)
  BY <1>1, <1>2
<1>4. s[j] = CRLF
  BY <1>1, <1>2
<1>5. \A i \in 1..(LineEnd - 1) : Line[i] = s[r + i] /\ s[r + i] # CRLF
  BY <1>1, <1>2, <1>3
<1>6. ASSUME NEW i \in (r + 1)..(j - 1) PROVE s[i] # CRLF
  <2>1. i - r \in 1..(LineEnd - 1) /\ r + (i - r) = i
    BY <1>3
  <2> QED
    BY <1>5, <2>1
<1>7. /\ Gathered \in Seq(Units) /\ Len(Gathered) = Len(ibuffer) + Len(Line)
      /\ \A i \in 1..Len(ibuffer) : Gathered[i] = ibuffer[i]
      /\ \A i \in 1..Len(Line) : Gathered[Len(ibuffer) + i] = Line[i]
  BY <1>2, JoinFacts DEF Gathered
<1>8. Len(Gathered) = j - 1
  BY <1>1, <1>2, <1>3, <1>7
<1>9. ASSUME NEW i \in 1..(j - 1) PROVE Gathered[i] = s[i]
  <2>1. CASE i \in 1..r
    BY <1>1, <1>7, <2>1
  <2>2. CASE i > r
    <3>1. i - r \in 1..(LineEnd - 1) /\ r + (i - r) = i
      BY <1>3, <2>2
    <3>2. Gathered[Len(ibuffer) + (i - r)] = Line[i - r]
      BY <1>2, <1>7, <3>1
    <3>3. Gathered[i] = Line[i - r]
      BY <1>1, <3>1, <3>2, Zenon
    <3>4. Line[i - r] = s[r + (i - r)]
      BY <1>5, <3>1
    <3> QED
      BY <3>1, <3>3, <3>4, Zenon
  <2> QED
    BY <1>3, <2>1, <2>2
<1>10. Announces <=> j - 1 > r /\ s[j - 1][1] = "prefix"
  <2>1. CASE LineEnd = 1
    <3>1. Line = << >> /\ j - 1 = r
      BY <1>2, <1>3, <2>1
    <3> QED
      BY <1>3, <3>1 DEF Announces
  <2>2. CASE LineEnd >= 2
    <3>1. LineEnd - 1 \in 1..(LineEnd - 1) /\ r + (LineEnd - 1) = j - 1 /\ j - 1 > r
      BY <1>3, <2>2
    <3>2. Line # << >> /\ Last(Line) = Line[LineEnd - 1]
      BY <1>2, <2>2 DEF Last
    <3>3. Last(Line) = s[j - 1]
      BY <1>5, <3>1, <3>2
    <3> QED
      BY <3>1, <3>2, <3>3 DEF Announces
  <2> QED
    BY <1>3, <2>1, <2>2
<1>11. Announces => Length = s[j - 1][2] /\ j \notin {0, 1}
  <2> SUFFICES ASSUME Announces PROVE Length = s[j - 1][2] /\ j \notin {0, 1}
    OBVIOUS
  <2>1. LineEnd >= 2 /\ Length = wire[LineEnd - 1][2]
    BY AnnouncedFacts
  <2>2. LineEnd - 1 \in 1..Len(wire) /\ r + (LineEnd - 1) = j - 1
    BY <1>2, <1>3, <2>1
  <2>3. wire[LineEnd - 1] = s[r + (LineEnd - 1)]
    BY <1>1, <2>2
  <2>4. Length = s[j - 1][2]
    BY <2>1, <2>2, <2>3, Zenon
  <2> QED
    BY <1>3, <2>1, <2>4
<1> HIDE DEF j
<1>12. \/ /\ j - 1 > r /\ s[j - 1][1] = "prefix"
          /\ j \in heads \/ (j = Len(s) /\ phase = "announced")
       \/ /\ j - 1 = r \/ s[j - 1][1] # "prefix"
          /\ j = Len(s) /\ phase = "complete"
  <2>1. /\ phase \in Stages /\ Marked(s, heads, phase, length)
        /\ r \in 0..Len(s) /\ (r = 0 \/ \E f \in heads : r = f + Lit(s, f))
        /\ j \in (r + 1)..Len(s) /\ s[j] = CRLF
        /\ \A i \in (r + 1)..(j - 1) : s[i] # CRLF
    BY <1>1, <1>3, <1>4, <1>6
  <2> QED
    BY <2>1, LineBreak, Zenon
<1>13. /\ Announces => j \in heads \/ (j = Len(s) /\ phase = "announced")
       /\ ~ Announces => j = Len(s) /\ phase = "complete"
  BY <1>3, <1>10, <1>12
<1> QED
  BY <1>3, <1>4, <1>7, <1>8, <1>9, <1>11, <1>13 DEF j

-----------------------------------------------------------------------------
(* The steps while a command is gathered *)

\* How far client and reader are, while a command is gathered.
LEMMA HowFar ==
  ASSUME Gathering, SizesInv
  PROVE  /\ \E phase, s, heads, r :
              /\ phase \in Stages /\ Staged(phase) /\ s = Stream(phase)
              /\ Marked(s, heads, phase, client.length) /\ HasRead(s, heads, phase, r)
         /\ pipe = << >> /\ \A i \in 1..Len(replies) : replies[i] = "plus"
         /\ reader \in {"line", "literal"}
         /\ client.pc \in {"line", "literal", "plus", "answer", "gone"}
<1>1. /\ \E phase, s, heads, r :
           /\ phase \in Stages /\ Staged(phase) /\ s = Stream(phase)
           /\ Marked(s, heads, phase, client.length) /\ HasRead(s, heads, phase, r)
      /\ pipe = << >> /\ \A i \in 1..Len(replies) : replies[i] = "plus"
  BY DEF Gathering, NoAnswer
<1>2. client.pc \in {"line", "literal", "plus", "answer", "silent", "gone"}
  BY DEF SizesInv, ReaderTypeOK
<1> QED
  BY <1>1, <1>2 DEF Staged, HasRead

\* The same after a step.
LEMMA Gathers ==
  ASSUME NEW phase \in Stages, Staged(phase)', NEW s, s = Stream(phase)',
         NEW heads, NEW length, length = client'.length, Marked(s, heads, phase, length),
         NEW r, HasRead(s, heads, phase, r)', NoAnswer'
  PROVE  Gathering'
<1>1. heads \in SUBSET (2..Len(s)) /\ r \in 0..Len(s)
  BY DEF Marked, HasRead
<1> QED
  BY <1>1 DEF Gathering

\* The client ends its command.
LEMMA SendLineGathers ==
  ASSUME Gathering, SizesInv, NEW n \in 0..MaxText, SendLine(n)
  PROVE  Gathering'
<1>1. PICK phase, s, heads, r :
        /\ phase \in Stages /\ Staged(phase) /\ s = Stream(phase)
        /\ Marked(s, heads, phase, client.length) /\ HasRead(s, heads, phase, r)
  BY HowFar
<1>2. /\ client.pc = "line" /\ client' = [client EXCEPT !.pc = "answer"]
      /\ said' = said \o Bytes(n) /\ wire' = wire \o (Bytes(n) \o <<CRLF>>)
      /\ UNCHANGED <<replies, reader, due, ibuffer, pipe>>
  BY DEF SendLine, Sends
<1>3. phase = "line" /\ s = said
  BY <1>1, <1>2 DEF Staged, Stream
<1>4. n \in Nat /\ said \in Seq(Units) /\ wire \in Seq(Units) /\ Len(s) \in Nat /\ client \in Client
  BY <1>3, ReaderAssumption DEF SizesInv, ReaderTypeOK
<1>5. /\ Bytes(n) \in Seq(Units) /\ Len(Bytes(n)) = n /\ \A i \in 1..n : Bytes(n)[i] = Byte
      /\ <<CRLF>> \in Seq(Units) /\ Len(<<CRLF>>) = 1 /\ <<CRLF>>[1] = CRLF /\ CRLF \in Units
  BY <1>4, BytesFacts, UnitFacts
<1>6. PICK u : u = Bytes(n) \o <<CRLF>>
  OBVIOUS
<1>7. u \in Seq(Units) /\ Len(u) = n + 1 /\ (\A i \in 1..n : u[i] = Byte) /\ u[n + 1] = CRLF
  BY <1>5, <1>6, JoinFacts
<1>8. PICK t : t = Append(said', CRLF)
  OBVIOUS
<1>9. /\ said' \in Seq(Units) /\ Len(said') = Len(s) + n
      /\ \A i \in 1..Len(s) : said'[i] = s[i]
      /\ \A i \in 1..n : said'[Len(s) + i] = Byte
  <2>1. /\ said \o Bytes(n) \in Seq(Units) /\ Len(said \o Bytes(n)) = Len(said) + Len(Bytes(n))
        /\ \A i \in 1..Len(said) : (said \o Bytes(n))[i] = said[i]
        /\ \A i \in 1..Len(Bytes(n)) : (said \o Bytes(n))[Len(said) + i] = Bytes(n)[i]
    BY <1>4, <1>5, JoinFacts
  <2> QED
    BY <1>2, <1>3, <1>5, <2>1
<1>10. /\ t \in Seq(Units) /\ Len(t) = Len(said') + 1 /\ t[Len(said') + 1] = CRLF
       /\ \A i \in 1..Len(said') : t[i] = said'[i]
  BY <1>5, <1>8, <1>9, AppendFacts
<1>11. /\ Len(t) = Len(s) + n + 1 /\ t[Len(t)] = CRLF
       /\ \A i \in 1..Len(s) : t[i] = s[i]
       /\ \A i \in 1..n : t[Len(s) + i] = Byte
  <2>1. /\ \A i \in 1..Len(s) : i \in 1..Len(said')
        /\ \A i \in 1..n : Len(s) + i \in 1..Len(said')
        /\ Len(t) = Len(s) + n + 1
    BY <1>4, <1>9, <1>10
  <2> QED
    BY <1>4, <1>9, <1>10, <2>1
<1>12. Len(t) = Len(s) + Len(u) /\ \A i \in 1..Len(u) : t[Len(s) + i] = u[i]
  <2>1. Len(t) = Len(s) + (n + 1) /\ \A i \in 1..(n + 1) : i \in 1..n \/ i = n + 1
    BY <1>4, <1>11
  <2> QED
    BY <1>7, <1>11, <2>1
<1>13. PICK length : length = client'.length
  OBVIOUS
<1>14. Marked(t, heads, "complete", length)
  BY <1>1, <1>3, <1>4, <1>10, <1>11, MarkedLine
<1>15. HasRead(t, heads, "complete", r)'
  <2>1. /\ Marked(s, heads, phase, client.length) /\ HasRead(s, heads, phase, r)
        /\ wire \in Seq(Units) /\ u \in Seq(Units) /\ wire' = wire \o u
        /\ t \in Seq(Units) /\ Len(t) = Len(s) + Len(u)
        /\ \A i \in 1..Len(s) : t[i] = s[i]
        /\ \A i \in 1..Len(u) : t[Len(s) + i] = u[i]
        /\ heads \subseteq heads /\ (phase = "announced" => Len(s) \in heads)
        /\ UNCHANGED <<reader, due, ibuffer>>
    BY <1>1, <1>2, <1>3, <1>4, <1>6, <1>7, <1>10, <1>11, <1>12
  <2> QED
    BY <2>1, StillRead
<1>16. Staged("complete")' /\ t = Stream("complete")' /\ "complete" \in Stages
  BY <1>2, <1>4, <1>8 DEF Staged, Stages, Stream, Client
<1>17. NoAnswer'
  BY <1>2, HowFar DEF NoAnswer
<1> QED
  BY <1>13, <1>14, <1>15, <1>16, <1>17, Gathers

\* The client announces a literal.
LEMMA SendPrefixGathers ==
  ASSUME Gathering, SizesInv, NEW n \in 0..MaxText, NEW length \in Lengths, NEW sync \in BOOLEAN,
         SendPrefix(n, length, sync)
  PROVE  Gathering'
<1>1. PICK phase, s, heads, r :
        /\ phase \in Stages /\ Staged(phase) /\ s = Stream(phase)
        /\ Marked(s, heads, phase, client.length) /\ HasRead(s, heads, phase, r)
  BY HowFar
<1> DEFINE line == Append(Bytes(n), Prefix(length, sync))
<1>2. /\ client.pc = "line"
      /\ said' = said \o line /\ wire' = wire \o Append(line, CRLF)
      /\ UNCHANGED <<replies, reader, due, ibuffer, pipe>>
  BY DEF SendPrefix, Sends
<1>3. phase = "line" /\ s = said
  BY <1>1, <1>2 DEF Staged, Stream
<1>4. n \in Nat /\ said \in Seq(Units) /\ wire \in Seq(Units) /\ Len(s) \in Nat /\ client \in Client
  BY <1>3, ReaderAssumption DEF SizesInv, ReaderTypeOK
<1>a. client'.pc \in {"plus", "literal"} /\ client'.length = length
  <2>1. PICK pc \in {"plus", "literal"} :
          client' = [client EXCEPT !.pc = pc, !.literals = client.literals + 1, !.length = length]
    BY DEF SendPrefix
  <2> QED
    BY <1>4, <2>1 DEF Client
<1>5. /\ Bytes(n) \in Seq(Units) /\ Len(Bytes(n)) = n /\ \A i \in 1..n : Bytes(n)[i] = Byte
      /\ Prefix(length, sync) \in Units /\ CRLF \in Units
  BY <1>4, BytesFacts, UnitFacts
<1>6. /\ line \in Seq(Units) /\ Len(line) = n + 1
      /\ (\A i \in 1..n : line[i] = Byte) /\ line[n + 1] = Prefix(length, sync)
  BY <1>5, AppendFacts
<1> HIDE DEF line
<1>7. PICK u : u = Append(line, CRLF)
  OBVIOUS
<1>8. /\ u \in Seq(Units) /\ Len(u) = n + 2 /\ (\A i \in 1..(n + 1) : u[i] = line[i]) /\ u[n + 2] = CRLF
  BY <1>4, <1>5, <1>6, <1>7, AppendFacts
<1>9. PICK t : t = Append(said', CRLF)
  OBVIOUS
<1>10. /\ said' \in Seq(Units) /\ Len(said') = Len(s) + (n + 1)
       /\ \A i \in 1..Len(s) : said'[i] = s[i]
       /\ \A i \in 1..(n + 1) : said'[Len(s) + i] = line[i]
  <2>1. /\ said \o line \in Seq(Units) /\ Len(said \o line) = Len(said) + Len(line)
        /\ \A i \in 1..Len(said) : (said \o line)[i] = said[i]
        /\ \A i \in 1..Len(line) : (said \o line)[Len(said) + i] = line[i]
    BY <1>4, <1>6, JoinFacts
  <2> QED
    BY <1>2, <1>3, <1>6, <2>1
<1>11. /\ t \in Seq(Units) /\ Len(t) = Len(said') + 1 /\ t[Len(said') + 1] = CRLF
       /\ \A i \in 1..Len(said') : t[i] = said'[i]
  BY <1>5, <1>9, <1>10, AppendFacts
<1>12. /\ Len(t) = Len(s) + n + 2 /\ t[Len(t)] = CRLF
       /\ \A i \in 1..Len(s) : t[i] = s[i]
       /\ \A i \in 1..(n + 1) : t[Len(s) + i] = line[i]
  <2>1. /\ \A i \in 1..Len(s) : i \in 1..Len(said')
        /\ \A i \in 1..(n + 1) : Len(s) + i \in 1..Len(said')
        /\ Len(t) = Len(s) + n + 2
    BY <1>4, <1>10, <1>11
  <2>2. /\ \A i \in 1..Len(s) : t[i] = s[i]
        /\ \A i \in 1..(n + 1) : t[Len(s) + i] = line[i]
    BY <1>10, <1>11, <2>1
  <2>3. t[Len(t)] = CRLF
    BY <1>11
  <2> QED
    BY <2>1, <2>2, <2>3
<1>13. /\ \A i \in 1..n : t[Len(s) + i] = Byte
       /\ t[Len(t) - 1] = Prefix(length, sync)
  <2>1. Len(t) - 1 = Len(s) + (n + 1) /\ n + 1 \in 1..(n + 1) /\ \A i \in 1..n : i \in 1..(n + 1)
    BY <1>4, <1>12
  <2> QED
    BY <1>6, <1>12, <2>1
<1>14. Len(t) = Len(s) + Len(u) /\ \A i \in 1..Len(u) : t[Len(s) + i] = u[i]
  <2>1. Len(t) = Len(s) + (n + 2) /\ \A i \in 1..(n + 2) : i \in 1..(n + 1) \/ i = n + 2
    BY <1>4, <1>12
  <2> QED
    BY <1>8, <1>12, <2>1
<1>15. PICK new : new = IF length = 0 THEN heads \cup {Len(t)} ELSE heads
  OBVIOUS
<1>16. Marked(t, new, "announced", length)
  BY <1>1, <1>3, <1>4, <1>11, <1>12, <1>13, <1>15, MarkedPrefix
<1>17. HasRead(t, new, "announced", r)'
  <2>1. heads \subseteq new
    BY <1>15
  <2> QED
    <3>1. /\ Marked(s, heads, phase, client.length) /\ HasRead(s, heads, phase, r)
          /\ wire \in Seq(Units) /\ u \in Seq(Units) /\ wire' = wire \o u
          /\ t \in Seq(Units) /\ Len(t) = Len(s) + Len(u)
          /\ \A i \in 1..Len(s) : t[i] = s[i]
          /\ \A i \in 1..Len(u) : t[Len(s) + i] = u[i]
          /\ heads \subseteq new /\ (phase = "announced" => Len(s) \in new)
          /\ UNCHANGED <<reader, due, ibuffer>>
      BY <1>1, <1>2, <1>3, <1>4, <1>7, <1>8, <1>11, <1>12, <1>14, <2>1
    <3> QED
      BY <3>1, StillRead
<1>18. Staged("announced")' /\ t = Stream("announced")' /\ "announced" \in Stages
  BY <1>a, <1>9 DEF Staged, Stages, Stream
<1>19. NoAnswer'
  BY <1>2, HowFar DEF NoAnswer
<1> QED
  BY <1>a, <1>16, <1>17, <1>18, <1>19, Gathers

\* The client sends the literal it has announced.
LEMMA SendLiteralGathers ==
  ASSUME Gathering, SizesInv, NEW n \in Lengths, NEW text \in Literals(n), SendLiteral(text)
  PROVE  Gathering'
<1>1. PICK phase, s, heads, r :
        /\ phase \in Stages /\ Staged(phase) /\ s = Stream(phase)
        /\ Marked(s, heads, phase, client.length) /\ HasRead(s, heads, phase, r)
  BY HowFar
<1>2. /\ client.pc = "literal" /\ Len(text) = client.length
      /\ client' = [client EXCEPT !.pc = "line"]
      /\ said' = said \o (<<CRLF>> \o text) /\ wire' = wire \o text
      /\ UNCHANGED <<replies, reader, due, ibuffer, pipe>>
  BY DEF SendLiteral, Sends
<1>3. phase = "announced" /\ s = Append(said, CRLF)
  BY <1>1, <1>2 DEF Staged, Stream
<1>4. said \in Seq(Units) /\ wire \in Seq(Units) /\ Len(said) \in Nat /\ client \in Client /\ n \in Nat
  BY ReaderAssumption DEF SizesInv, ReaderTypeOK
<1>5. text \in Seq(Units) /\ Len(text) = n /\ \A i \in 1..n : text[i] \in {Byte, CRLF}
  BY <1>4, LiteralFacts
<1>6. /\ s \in Seq(Units) /\ Len(s) = Len(said) + 1 /\ s[Len(said) + 1] = CRLF
      /\ \A i \in 1..Len(said) : s[i] = said[i]
      /\ <<CRLF>> \in Seq(Units) /\ Len(<<CRLF>>) = 1 /\ <<CRLF>>[1] = CRLF
  BY <1>3, <1>4, AppendFacts, UnitFacts
<1>7. PICK u : u = <<CRLF>> \o text
  OBVIOUS
<1>8. /\ u \in Seq(Units) /\ Len(u) = 1 + n /\ u[1] = CRLF /\ \A i \in 1..n : u[1 + i] = text[i]
  BY <1>5, <1>6, <1>7, JoinFacts
<1>9. PICK t : t = said'
  OBVIOUS
<1>10. /\ t \in Seq(Units) /\ Len(t) = Len(said) + Len(u)
       /\ \A i \in 1..Len(said) : t[i] = said[i]
       /\ \A i \in 1..Len(u) : t[Len(said) + i] = u[i]
  BY <1>2, <1>4, <1>7, <1>8, <1>9, JoinFacts
<1>11. Len(t) = Len(s) + n /\ Len(s) \in Nat
  BY <1>4, <1>6, <1>8, <1>10
<1>12. ASSUME NEW i \in 1..Len(s) PROVE t[i] = s[i]
  <2>1. CASE i \in 1..Len(said)
    BY <1>6, <1>10, <2>1
  <2>2. CASE i = Len(said) + 1
    <3>1. 1 \in 1..Len(u)
      BY <1>4, <1>8
    <3> QED
      BY <1>6, <1>8, <1>10, <2>2, <3>1
  <2> QED
    BY <1>4, <1>6, <2>1, <2>2
<1>13. ASSUME NEW i \in 1..n PROVE t[Len(s) + i] = text[i]
  <2>1. 1 + i \in 1..Len(u) /\ Len(said) + (1 + i) = Len(s) + i
    BY <1>4, <1>6, <1>8
  <2>2. t[Len(said) + (1 + i)] = u[1 + i]
    BY <1>10, <2>1
  <2> QED
    BY <1>8, <2>1, <2>2, Zenon
<1>14. PICK length : length = client'.length
  OBVIOUS
<1>15. Marked(t, heads \cup {Len(s)}, "line", length)
  <2>1. /\ Marked(s, heads, "announced", n) /\ \A i \in 1..n : t[Len(s) + i] \in {Byte, CRLF}
    BY <1>1, <1>2, <1>3, <1>5, <1>13
  <2> QED
    BY <1>4, <1>10, <1>11, <1>12, <2>1, MarkedLiteral
<1>16. PICK new : new = heads \cup {Len(s)}
  OBVIOUS
<1>17. HasRead(t, new, "line", r)'
  <2>1. heads \subseteq new /\ Len(s) \in new /\ Len(t) = Len(s) + Len(text)
    BY <1>5, <1>11, <1>16
  <2>2. \A i \in 1..Len(text) : t[Len(s) + i] = text[i]
    BY <1>5, <1>13
  <2> QED
    <3>1. /\ Marked(s, heads, phase, client.length) /\ HasRead(s, heads, phase, r)
          /\ wire \in Seq(Units) /\ text \in Seq(Units) /\ wire' = wire \o text
          /\ t \in Seq(Units) /\ Len(t) = Len(s) + Len(text)
          /\ \A i \in 1..Len(s) : t[i] = s[i]
          /\ \A i \in 1..Len(text) : t[Len(s) + i] = text[i]
          /\ heads \subseteq new /\ (phase = "announced" => Len(s) \in new)
          /\ UNCHANGED <<reader, due, ibuffer>>
      BY <1>1, <1>2, <1>4, <1>5, <1>10, <1>12, <2>1, <2>2
    <3> QED
      BY <3>1, StillRead
<1>18. Staged("line")' /\ t = Stream("line")' /\ "line" \in Stages
  BY <1>2, <1>4, <1>9 DEF Staged, Stages, Stream, Client
<1>19. NoAnswer'
  BY <1>2, HowFar DEF NoAnswer
<1> QED
  BY <1>14, <1>15, <1>16, <1>17, <1>18, <1>19, Gathers

\* The client hears a "+" or hangs up: what is sent and read stays as it is.
LEMMA ListensGathers ==
  ASSUME Gathering, SizesInv, HearsPlus \/ HearsLatePlus \/ HangUp
  PROVE  Gathering'
<1>1. PICK phase, s, heads, r :
        /\ phase \in Stages /\ Staged(phase) /\ s = Stream(phase)
        /\ Marked(s, heads, phase, client.length) /\ HasRead(s, heads, phase, r)
  BY HowFar
<1>2. client \in Client /\ replies \in Seq({"plus", "done", "BAD"})
  BY DEF SizesInv, ReaderTypeOK
<1>3. UNCHANGED <<said, wire, reader, due, ibuffer, pipe>> /\ client'.length = client.length
  BY <1>2 DEF HearsPlus, HearsLatePlus, HangUp, Hears, Client
<1>4. Staged(phase)'
  <2>1. client'.pc # "silent" /\ client'.pc # "line"
        /\ (client'.pc \in {"plus", "literal"} => client.pc = "plus")
        /\ (client'.pc = "answer" => client.pc = "answer")
    BY <1>2 DEF HearsPlus, HearsLatePlus, HangUp, Client
  <2> QED
    BY <1>1, <2>1 DEF Staged
<1>5. s = Stream(phase)'
  BY <1>1, <1>3 DEF Stream
<1>6. HasRead(s, heads, phase, r)'
  BY <1>1, <1>3 DEF HasRead
<1>7. NoAnswer'
  <2>1. pipe' = << >> /\ \A i \in 1..Len(replies) : replies[i] = "plus"
    BY <1>3, HowFar
  <2>2. CASE replies' = replies
    BY <2>1, <2>2 DEF NoAnswer
  <2>3. CASE replies # << >> /\ replies' = Tail(replies)
    <3>1. /\ Len(replies') = Len(replies) - 1 /\ Len(replies) \in Nat
          /\ \A i \in 1..Len(replies') : replies'[i] = replies[i + 1]
      BY <1>2, <2>3, HeadTailProperties
    <3>2. \A i \in 1..Len(replies') : i + 1 \in 1..Len(replies)
      BY <3>1
    <3> QED
      BY <2>1, <3>1, <3>2 DEF NoAnswer
  <2> QED
    BY <2>2, <2>3 DEF HearsPlus, HearsLatePlus, HangUp, Hears
<1>8. PICK length : length = client.length
  OBVIOUS
<1>9. Marked(s, heads, phase, length)
  BY <1>1, <1>8
<1> QED
  BY <1>1, <1>3, <1>4, <1>5, <1>6, <1>7, <1>8, <1>9, Gathers

\* The line that ends a command: with the buffer it is all the client has said.
LEMMA LastLine ==
  ASSUME Gathering, SizesInv, ReadsLine, ~ Announces
  PROVE  Gathered = said /\ wire' = << >> /\ client.pc \in {"answer", "gone"}
<1>1. PICK phase, s, heads, r :
        /\ phase \in Stages /\ Staged(phase) /\ s = Stream(phase)
        /\ Marked(s, heads, phase, client.length) /\ HasRead(s, heads, phase, r)
  BY HowFar
<1>2. wire \in Seq(Units) /\ ibuffer \in Seq(Units) /\ said \in Seq(Units) /\ reader = "line" /\ HasLine
  BY DEF SizesInv, ReaderTypeOK, ReadsLine
<1>3. /\ r \in Nat /\ LineEnd \in Nat
      /\ Gathered \in Seq(Units) /\ Len(Gathered) = r + LineEnd - 1
      /\ \A i \in 1..(r + LineEnd - 1) : Gathered[i] = s[i]
      /\ r + LineEnd = Len(s) /\ phase = "complete"
  BY <1>1, <1>2, NextLine
<1>4. /\ s = Append(said, CRLF) /\ Len(s) = Len(said) + 1 /\ Len(said) \in Nat
      /\ \A i \in 1..Len(said) : s[i] = said[i]
  <2>1. s = Append(said, CRLF)
    BY <1>1, <1>3 DEF Stream
  <2> QED
    BY <1>2, <2>1, AppendFacts, UnitFacts
<1>5. Gathered = said
  <2>1. Len(Gathered) = Len(said) /\ r + LineEnd - 1 = Len(said)
    BY <1>3, <1>4
  <2>2. \A i \in 1..Len(said) : Gathered[i] = said[i]
    BY <1>3, <1>4, <2>1
  <2> QED
    BY <1>2, <1>3, <2>1, <2>2, SeqEqual
<1>6. wire' = << >>
  <2>1. LineEnd \in 0..Len(wire) /\ Len(wire) = Len(s) - r /\ Len(wire) \in Nat
    BY <1>1, <1>2, LineFacts DEF HasRead
  <2>2. Len(wire) - LineEnd = 0
    BY <1>3, <2>1
  <2>3. wire' \in Seq(Units) /\ Len(wire') = 0
    BY <1>2, <2>1, <2>2, RestFacts DEF ReadsLine
  <2> QED
    BY <2>3
<1>7. client.pc \in {"answer", "gone"}
  BY <1>1, <1>3, HowFar DEF Staged
<1> QED
  BY <1>5, <1>6, <1>7

\* The reader learns of a literal and asks for it.
LEMMA AnnouncedGathers ==
  ASSUME Gathering, SizesInv, LiteralAnnounced
  PROVE  Gathering'
<1>1. PICK phase, s, heads, r :
        /\ phase \in Stages /\ Staged(phase) /\ s = Stream(phase)
        /\ Marked(s, heads, phase, client.length) /\ HasRead(s, heads, phase, r)
  BY HowFar
<1>2. /\ wire \in Seq(Units) /\ ibuffer \in Seq(Units) /\ reader = "line" /\ HasLine
      /\ replies \in Seq({"plus", "done", "BAD"})
      /\ wire' = SubSeq(wire, LineEnd + 1, Len(wire)) /\ UNCHANGED <<client, said, pipe>>
      /\ reader' = "literal" /\ due' = Length /\ ibuffer' = Gathered /\ Announces
      /\ replies' \in {replies, Append(replies, "plus")}
  BY DEF SizesInv, ReaderTypeOK, ReadsLine, LiteralAnnounced, Pushes
<1>3. PICK j : j = r + LineEnd
  OBVIOUS
<1>4. /\ r \in Nat /\ LineEnd \in Nat /\ j \in 1..Len(s) /\ j \notin {0, 1}
      /\ Len(Gathered) = j - 1 /\ \A i \in 1..(j - 1) : Gathered[i] = s[i]
      /\ Length = s[j - 1][2] /\ (j \in heads \/ (j = Len(s) /\ phase = "announced"))
  <2>1. /\ r \in Nat /\ LineEnd \in Nat /\ r + LineEnd \in 1..Len(s) /\ r + LineEnd \notin {0, 1}
        /\ Len(Gathered) = r + LineEnd - 1 /\ \A i \in 1..(r + LineEnd - 1) : Gathered[i] = s[i]
        /\ Length = s[r + LineEnd - 1][2]
        /\ r + LineEnd \in heads \/ (r + LineEnd = Len(s) /\ phase = "announced")
    <3>1. /\ phase \in Stages /\ Marked(s, heads, phase, client.length) /\ HasRead(s, heads, phase, r)
          /\ wire \in Seq(Units) /\ ibuffer \in Seq(Units) /\ reader = "line" /\ HasLine /\ Announces
      BY <1>1, <1>2
    <3> QED
      BY <3>1, NextLine
  <2> QED
    BY <1>3, <2>1
<1>5. /\ Len(s) \in Nat /\ Len(wire) = Len(s) - r /\ \A i \in 1..Len(wire) : wire[i] = s[r + i]
      /\ LineEnd \in 0..Len(wire)
  BY <1>1, <1>2, LineFacts, SMTT(30) DEF HasRead, Marked
<1>6. Len(wire') = Len(s) - j /\ \A i \in 1..Len(wire') : wire'[i] = s[j + i]
  <2>1. /\ Len(wire') = Len(wire) - LineEnd
        /\ \A i \in 1..(Len(wire) - LineEnd) : wire'[i] = wire[LineEnd + i]
    BY <1>2, <1>5, RestFacts
  <2>2. Len(wire') = Len(s) - j
    BY <1>3, <1>4, <1>5, <2>1
  <2>3. ASSUME NEW i \in 1..Len(wire') PROVE wire'[i] = s[j + i]
    <3>1. LineEnd + i \in 1..Len(wire) /\ r + (LineEnd + i) = j + i
      BY <1>3, <1>4, <1>5, <2>1
    <3>2. wire[LineEnd + i] = s[r + (LineEnd + i)]
      BY <1>5, <3>1
    <3>3. wire'[i] = wire[LineEnd + i]
      BY <2>1
    <3> QED
      BY <3>1, <3>2, <3>3, Zenon
  <2> QED
    BY <2>2, <2>3
<1>7. HasRead(s, heads, phase, j)'
  <2>1. j \in 0..Len(s) /\ Len(wire') = Len(s) - j /\ \A i \in 1..Len(wire') : wire'[i] = s[j + i]
    BY <1>4, <1>5, <1>6
  <2>2. reader' = "literal" /\ ibuffer' = Gathered /\ due' = s[j - 1][2]
    BY <1>2, <1>4
  <2>3. Len(ibuffer') = j - 1 /\ \A i \in 1..(j - 1) : ibuffer'[i] = s[i]
    BY <1>4, <2>2
  <2>4. j \notin {0, 1} /\ (j \in heads \/ (j = Len(s) /\ phase = "announced"))
    BY <1>4
  <2> QED
    BY <2>1, <2>2, <2>3, <2>4, Zenon DEF HasRead
<1>8. NoAnswer'
  <2>1. pipe = << >> /\ \A i \in 1..Len(replies) : replies[i] = "plus"
    BY HowFar
  <2>2. \A i \in 1..Len(replies') : replies'[i] = "plus"
    BY <1>2, <2>1, SMTT(30)
  <2> QED
    BY <1>2, <2>1, <2>2 DEF NoAnswer
<1>9. Staged(phase)' /\ s = Stream(phase)'
  BY <1>1, <1>2 DEF Staged, Stream
<1>10. PICK length : length = client.length
  OBVIOUS
<1>11. Marked(s, heads, phase, length)
  BY <1>1, <1>10
<1> QED
  BY <1>1, <1>2, <1>7, <1>8, <1>9, <1>10, <1>11, Gathers

\* The reader takes the literal, and puts the line break before it back.
LEMMA ReadLiteralGathers ==
  ASSUME Gathering, SizesInv, ReadLiteral, ~ overrun'
  PROVE  Gathering'
<1>1. PICK phase, s, heads, r :
        /\ phase \in Stages /\ Staged(phase) /\ s = Stream(phase)
        /\ Marked(s, heads, phase, client.length) /\ HasRead(s, heads, phase, r)
  BY HowFar
<1>2. /\ wire \in Seq(Units) /\ ibuffer \in Seq(Units) /\ reader = "literal" /\ due \in Nat
      /\ Len(wire) >= due /\ Len(wire) \in Nat
      /\ wire' = SubSeq(wire, due + 1, Len(wire)) /\ UNCHANGED <<client, said, pipe>>
      /\ reader' = "line" /\ ibuffer' = ibuffer \o <<CRLF>> \o SubSeq(wire, 1, due)
      /\ replies' = replies
  <2>1. wire \in Seq(Units) /\ ibuffer \in Seq(Units) /\ due \in Nat /\ Len(wire) \in Nat
    BY ReaderAssumption DEF SizesInv, ReaderTypeOK
  <2>2. /\ reader = "literal" /\ Len(wire) >= due
        /\ wire' = SubSeq(wire, due + 1, Len(wire)) /\ UNCHANGED <<client, said, pipe>>
        /\ reader' = "line" /\ ibuffer' = ibuffer \o <<CRLF>> \o SubSeq(wire, 1, due)
        /\ replies' = replies
    BY DEF ReadLiteral
  <2> QED
    BY <2>1, <2>2
<1>3. /\ Len(s) \in Nat /\ Len(wire) = Len(s) - r /\ \A i \in 1..Len(wire) : wire[i] = s[r + i]
      /\ r \in 2..Len(s) /\ Len(ibuffer) = r - 1 /\ \A i \in 1..(r - 1) : ibuffer[i] = s[i]
      /\ r \in heads \/ (r = Len(s) /\ phase = "announced")
      /\ due = s[r - 1][2]
  <2>1. /\ Len(s) \in Nat /\ Len(wire) = Len(s) - r /\ \A i \in 1..Len(wire) : wire[i] = s[r + i]
        /\ r \in 0..Len(s) /\ r # 0 /\ r # 1
        /\ Len(ibuffer) = r - 1 /\ \A i \in 1..(r - 1) : ibuffer[i] = s[i]
        /\ r \in heads \/ (r = Len(s) /\ phase = "announced")
        /\ due = s[r - 1][2]
    BY <1>1, <1>2, SMTT(30) DEF HasRead, Marked
  <2>2. r \in 2..Len(s)
    <3>1. \A n \in Nat : \A k \in 0..n : k # 0 /\ k # 1 => k \in 2..n
      OBVIOUS
    <3> QED
      BY <2>1, <3>1, Zenon
  <2> QED
    BY <2>1, <2>2
<1>4. r \in heads /\ s[r] = CRLF /\ due = Lit(s, r)
  <2>1. CASE r \in heads
    BY <1>1, <1>3, <2>1 DEF Marked, Lit
  <2>2. CASE r = Len(s) /\ phase = "announced"
    <3>1. due = client.length /\ (client.length = 0 => r \in heads)
      BY <1>1, <1>3, <2>2 DEF Marked
    <3>2. due = 0
      BY <1>2, <1>3, <2>2
    <3> QED
      BY <2>1, <3>1, <3>2
  <2> QED
    BY <1>3, <2>1, <2>2
<1>5. PICK j : j = r + due
  OBVIOUS
<1>6. j \in Nat /\ j \in 0..Len(s) /\ due \in 0..Len(wire) /\ r \in Nat
  <2>1. /\ Len(wire) = Len(s) - r /\ r \in 2..Len(s) /\ Len(s) \in Nat
        /\ due \in Nat /\ Len(wire) >= due /\ Len(wire) \in Nat
    BY <1>2, <1>3
  <2> QED
    BY <1>5, <2>1
<1>7. Len(wire') = Len(s) - j /\ \A i \in 1..Len(wire') : wire'[i] = s[j + i]
  <2>1. /\ Len(wire') = Len(wire) - due
        /\ \A i \in 1..(Len(wire) - due) : wire'[i] = wire[due + i]
    BY <1>2, <1>6, RestFacts
  <2>2. Len(wire') = Len(s) - j
    <3>1. /\ Len(wire) = Len(s) - r /\ Len(s) \in Nat /\ due \in Nat /\ r \in Nat
          /\ Len(wire') = Len(wire) - due
      BY <1>2, <1>3, <1>6, <2>1
    <3> QED
      BY <1>5, <3>1
  <2>3. ASSUME NEW i \in 1..Len(wire') PROVE wire'[i] = s[j + i]
    <3>1. due + i \in 1..Len(wire) /\ r + (due + i) = j + i
      <4>1. /\ i \in 1..(Len(wire) - due) /\ due \in Nat /\ Len(wire) \in Nat /\ r \in Nat
        BY <1>2, <1>6, <2>1
      <4> QED
        BY <1>5, <4>1
    <3>2. wire[due + i] = s[r + (due + i)]
      BY <1>3, <3>1
    <3>3. wire'[i] = wire[due + i]
      BY <2>1
    <3> QED
      BY <3>1, <3>2, <3>3, Zenon
  <2> QED
    BY <2>2, <2>3
<1>8. Len(ibuffer') = j /\ \A i \in 1..j : ibuffer'[i] = s[i]
  <2>1. PICK u : u = SubSeq(wire, 1, due)
    OBVIOUS
  <2>2. u \in Seq(Units) /\ Len(u) = due /\ \A i \in 1..due : u[i] = wire[i]
    BY <1>2, <1>6, <2>1, FirstFacts
  <2>3. /\ Len(ibuffer') = Len(ibuffer) + 1 + Len(u)
        /\ \A i \in 1..Len(ibuffer) : ibuffer'[i] = ibuffer[i]
        /\ ibuffer'[Len(ibuffer) + 1] = CRLF
        /\ \A i \in 1..Len(u) : ibuffer'[Len(ibuffer) + 1 + i] = u[i]
    BY <1>2, <2>1, <2>2, PutBackFacts
  <2>4. Len(ibuffer') = j /\ Len(ibuffer) + 1 = r
    BY <1>2, <1>3, <1>5, <1>6, <2>2, <2>3
  <2>5. ASSUME NEW i \in 1..j PROVE ibuffer'[i] = s[i]
    <3>1. CASE i \in 1..(r - 1)
      BY <1>3, <2>3, <3>1
    <3>2. CASE i = r
      BY <1>4, <2>3, <2>4, <3>2
    <3>3. CASE i > r
      <4>1. i - r \in 1..due /\ r + (i - r) = i /\ i - r \in 1..Len(wire)
        BY <1>2, <1>5, <1>6, <3>3
      <4>2. ibuffer'[r + (i - r)] = u[i - r]
        BY <2>2, <2>3, <2>4, <4>1
      <4>3. u[i - r] = wire[i - r] /\ wire[i - r] = s[r + (i - r)]
        BY <1>3, <2>2, <4>1
      <4> QED
        BY <4>1, <4>2, <4>3, Zenon
    <3> QED
      BY <1>6, <3>1, <3>2, <3>3
  <2> QED
    BY <2>4, <2>5
<1>9. HasRead(s, heads, phase, j)'
  <2>1. \E f \in heads : j = f + Lit(s, f)
    BY <1>4, <1>5
  <2> QED
    BY <1>2, <1>6, <1>7, <1>8, <2>1 DEF HasRead
<1>10. NoAnswer'
  BY <1>2, HowFar DEF NoAnswer
<1>11. Staged(phase)' /\ s = Stream(phase)'
  BY <1>1, <1>2 DEF Staged, Stream
<1>12. PICK length : length = client.length
  OBVIOUS
<1>13. Marked(s, heads, phase, length)
  BY <1>1, <1>12
<1> QED
  BY <1>1, <1>2, <1>9, <1>10, <1>11, <1>12, <1>13, Gathers

-----------------------------------------------------------------------------
(* Whole commands *)

\* The user's process takes a frame: the others stay as they are.
LEMMA RunWhole ==
  ASSUME SizesInv, WholeCommands, ~ overrun, NEW answer, NEW last, Run(answer, last)
  PROVE  WholeCommands'
<1>1. /\ Len(pipe') = Len(pipe) - 1 /\ Len(pipe) \in Nat
      /\ \A i \in 1..Len(pipe') : pipe'[i] = pipe[i + 1]
      /\ DOMAIN pipe = 1..Len(pipe) /\ DOMAIN pipe' = 1..Len(pipe')
  <2>1. pipe \in Seq([length : Nat, whole : BOOLEAN]) /\ pipe # << >> /\ pipe' = Tail(pipe)
    BY DEF SizesInv, ReaderTypeOK, Run
  <2> QED
    BY <2>1, HeadTailProperties
<1>2. \A i \in 1..Len(pipe') : i + 1 \in 1..Len(pipe)
  BY <1>1
<1> QED
  BY <1>1, <1>2 DEF WholeCommands

\* A step from where a command is gathered.
LEMMA FromGathering ==
  ASSUME SizesInv, WholeInv, ~ overrun, Gathering, Next
  PROVE  WholeInv'
<1>0. WholeCommands
  BY DEF WholeInv
<1>1. pipe = << >> /\ (\A i \in 1..Len(replies) : replies[i] = "plus") /\ reader \in {"line", "literal"}
  BY HowFar
<1>2. CASE ClientSends
  <2>1. Gathering'
    BY <1>2, SendLineGathers, SendPrefixGathers, SendLiteralGathers DEF ClientSends
  <2>2. UNCHANGED <<pipe, overrun>>
    BY <1>2 DEF ClientSends, SendLine, SendPrefix, SendLiteral, Sends
  <2> QED
    BY <1>0, <2>1, <2>2 DEF WholeInv, WholeCommands
<1>3. CASE HearsPlus \/ HearsLatePlus \/ HangUp
  <2>1. Gathering'
    BY <1>3, ListensGathers
  <2>2. UNCHANGED <<pipe, overrun>>
    BY <1>3 DEF HearsPlus, HearsLatePlus, HangUp, Hears
  <2> QED
    BY <1>0, <2>1, <2>2 DEF WholeInv, WholeCommands
<1>4. ~ HearsAnswer
  <2> SUFFICES ASSUME HearsAnswer PROVE FALSE
    OBVIOUS
  <2>1. replies \in Seq({"plus", "done", "BAD"}) /\ replies # << >> /\ Head(replies) \in {"done", "BAD"}
    BY DEF SizesInv, ReaderTypeOK, HearsAnswer, Hears
  <2>2. 1 \in 1..Len(replies) /\ Head(replies) = replies[1]
    BY <2>1
  <2> QED
    BY <1>1, <2>1, <2>2
<1>5. CASE EmptyMessage
  <2>1. ~ Announces /\ ReadsLine /\ ibuffer = << >>
    <3>1. Line \in Seq(Units) /\ ibuffer \in Seq(Units) /\ ibuffer \o Line = << >>
      BY <1>5, LineFacts DEF EmptyMessage, ReadsLine, SizesInv, ReaderTypeOK, Gathered
    <3>2. Len(ibuffer \o Line) = Len(ibuffer) + Len(Line) /\ Len(ibuffer) \in Nat /\ Len(Line) \in Nat
      BY <3>1, JoinFacts
    <3>3. Len(<< >>) = 0
      OBVIOUS
    <3>4. Len(ibuffer) = 0 /\ Len(Line) = 0
      BY <3>1, <3>2, <3>3
    <3> QED
      BY <1>5, <3>1, <3>4 DEF EmptyMessage, Announces
  <2>2. wire' = << >> /\ client.pc \in {"answer", "gone"}
    BY <2>1, LastLine
  <2>3. /\ reader' = reader /\ reader = "line" /\ ibuffer' = ibuffer /\ client' = client
        /\ pipe' = pipe /\ overrun' = overrun /\ replies' = Append(replies, "BAD")
    BY <1>5 DEF EmptyMessage, ReadsLine, Pushes
  <2>4. \A i, j \in 1..Len(replies') : replies'[i] # "plus" /\ replies'[j] # "plus" => i = j
    <3>1. replies \in Seq({"plus", "done", "BAD"})
      BY DEF SizesInv, ReaderTypeOK
    <3> QED
      BY <1>1, <2>3, <3>1
  <2>5. Handed'
    BY <1>1, <2>1, <2>2, <2>3, <2>4 DEF Handed
  <2> QED
    BY <1>0, <2>3, <2>5 DEF WholeInv, WholeCommands
<1>6. CASE LiteralTooLong \/ CommandTooLong
  BY <1>6 DEF LiteralTooLong, CommandTooLong, WholeInv
<1>7. CASE LiteralAnnounced
  <2>1. Gathering'
    BY <1>7, AnnouncedGathers
  <2>2. UNCHANGED <<pipe, overrun>>
    BY <1>7 DEF LiteralAnnounced
  <2> QED
    BY <1>0, <2>1, <2>2 DEF WholeInv, WholeCommands
<1>8. CASE ReadLiteral
  <2>1. overrun' \/ Gathering'
    BY <1>8, ReadLiteralGathers
  <2>2. pipe' = pipe
    BY <1>8 DEF ReadLiteral
  <2> QED
    BY <1>0, <2>1, <2>2 DEF WholeInv, WholeCommands
<1>9. ~ Drain
  BY <1>1 DEF Drain
<1>10. CASE HandOn
  <2>1. ~ Announces /\ ReadsLine
    BY <1>10 DEF HandOn
  <2>2. wire' = << >> /\ client.pc \in {"answer", "gone"} /\ Gathered = said
    BY <2>1, LastLine
  <2>3. /\ reader' = reader /\ reader = "line" /\ ibuffer' = << >> /\ client' = client
        /\ pipe' = Append(pipe, Frame(Gathered)) /\ overrun' = overrun /\ replies' = replies
    BY <1>10 DEF HandOn, ReadsLine, Empties
  <2>4. Frame(Gathered).whole
    BY <2>2 DEF Frame
  <2>5. PICK frame : frame = Frame(Gathered)
    OBVIOUS
  <2>6. pipe' = <<frame>> /\ frame.whole
    BY <1>1, <2>3, <2>4, <2>5
  <2>7. Len(pipe') = 1 /\ DOMAIN pipe' = {1} /\ pipe'[1] = frame
    BY <2>6
  <2>8. \A i, j \in 1..Len(replies') : replies'[i] # "plus" /\ replies'[j] # "plus" => i = j
    BY <1>1, <2>3
  <2>9. Handed'
    BY <1>1, <2>2, <2>3, <2>7, <2>8 DEF Handed
  <2>10. WholeCommands'
    BY <2>6, <2>7 DEF WholeCommands
  <2> QED
    BY <2>9, <2>10 DEF WholeInv
<1>11. CASE EndOfFile \/ LineTooLong
  BY <1>0, <1>11 DEF EndOfFile, LineTooLong, WholeInv, WholeCommands
<1>12. ~ Serves
  BY <1>1 DEF Serves, Run
<1> QED
  BY <1>2, <1>3, <1>4, <1>5, <1>6, <1>7, <1>8, <1>9, <1>10, <1>11, <1>12 DEF Next, ClientHears, Start

\* A step from where the client is owed its answer.
LEMMA FromHanded ==
  ASSUME SizesInv, WholeInv, ~ overrun, Handed, Next
  PROVE  WholeInv'
<1>0. WholeCommands /\ reader = "line" /\ wire = << >> /\ client.pc \in {"answer", "silent", "gone"}
  BY DEF WholeInv, Handed
<1>1. client \in Client /\ replies \in Seq({"plus", "done", "BAD"}) /\ ~ HasLine
  BY <1>0 DEF SizesInv, ReaderTypeOK, HasLine, Range
<1>2. ~ ClientSends /\ ~ HearsPlus
  BY <1>0 DEF ClientSends, SendLine, SendPrefix, SendLiteral, HearsPlus
<1>3. ASSUME NEW answers, Hears(answers)
      PROVE  /\ Len(replies') = Len(replies) - 1 /\ Len(replies) \in Nat /\ Len(replies) # 0
             /\ Head(replies) = replies[1] /\ Head(replies) \in answers
             /\ \A i \in 1..Len(replies') : replies'[i] = replies[i + 1] /\ i + 1 \in 1..Len(replies)
  <2>1. replies # << >> /\ replies' = Tail(replies) /\ Head(replies) \in answers
    BY <1>3 DEF Hears
  <2>2. /\ Len(replies') = Len(replies) - 1 /\ Len(replies) \in Nat /\ Len(replies) # 0
        /\ Head(replies) = replies[1]
        /\ \A i \in 1..Len(replies') : replies'[i] = replies[i + 1]
    BY <1>1, <2>1, HeadTailProperties
  <2>3. \A i \in 1..Len(replies') : i + 1 \in 1..Len(replies)
    BY <2>2
  <2> QED
    BY <2>1, <2>2, <2>3
<1>4. CASE HearsAnswer
  <2>1. Hears({"done", "BAD"})
    BY <1>4 DEF HearsAnswer
  <2>2. /\ Len(replies') = Len(replies) - 1 /\ Len(replies) \in Nat /\ Len(replies) # 0
        /\ Head(replies) = replies[1] /\ Head(replies) \in {"done", "BAD"}
        /\ \A i \in 1..Len(replies') : replies'[i] = replies[i + 1] /\ i + 1 \in 1..Len(replies)
    BY <1>3, <2>1
  <2>3. 1 \in 1..Len(replies) /\ replies[1] # "plus"
    BY <2>2
  <2>4. \A i \in 1..Len(replies') : replies'[i] = "plus"
    <3>1. \A i \in 1..Len(replies') : i + 1 # 1
      BY <2>2
    <3> QED
      BY <2>2, <2>3, <3>1 DEF Handed
  <2>5. pipe = << >>
    BY <2>3 DEF Handed
  <2>6. UNCHANGED <<wire, reader, due, ibuffer, pipe, overrun>> /\ said' = << >>
    BY <1>4, <2>1 DEF Hears, HearsAnswer
  <2>7. PICK pc \in {"silent", "line"} :
          client' = [client EXCEPT !.pc = pc, !.sent = client.sent + 1, !.literals = 0, !.length = 0]
    BY <1>4 DEF HearsAnswer
  <2>8. client'.pc = pc
    BY <1>1, <2>7 DEF Client
  <2>9. CASE pc = "silent"
    <3>1. Handed'
      BY <1>0, <2>4, <2>5, <2>6, <2>8, <2>9 DEF Handed
    <3> QED
      BY <1>0, <2>6, <3>1 DEF WholeInv, WholeCommands
  <2>10. CASE pc = "line"
    <3>1. Staged("line")' /\ "line" \in Stages /\ << >> = Stream("line")'
      BY <2>6, <2>8, <2>10 DEF Staged, Stages, Stream
    <3>2. PICK length : length = client'.length
      OBVIOUS
    <3>3. Marked(<< >>, {}, "line", length)
      BY DEF Marked
    <3>4. HasRead(<< >>, {}, "line", 0)'
      BY <1>0, <2>6 DEF Handed, HasRead
    <3>5. NoAnswer'
      BY <2>4, <2>5, <2>6 DEF NoAnswer
    <3>6. Gathering'
      BY <3>1, <3>2, <3>3, <3>4, <3>5, Gathers
    <3> QED
      BY <1>0, <2>6, <3>6 DEF WholeInv, WholeCommands
  <2> QED
    BY <2>7, <2>9, <2>10
<1>5. CASE HearsLatePlus
  <2>1. Hears({"plus"}) /\ UNCHANGED <<client, said>>
    BY <1>5 DEF HearsLatePlus
  <2>2. UNCHANGED <<wire, reader, due, ibuffer, pipe, overrun>>
    BY <2>1 DEF Hears
  <2>3. /\ Len(replies) \in Nat /\ Len(replies') = Len(replies) - 1
        /\ \A i \in 1..Len(replies') : replies'[i] = replies[i + 1] /\ i + 1 \in 1..Len(replies)
    BY <1>3, <2>1
  <2>4. \A i, j \in 1..Len(replies') : replies'[i] # "plus" /\ replies'[j] # "plus" => i = j
    <3>1. \A i, j \in 1..Len(replies') : replies'[i] # "plus" /\ replies'[j] # "plus" => i + 1 = j + 1
      BY <2>3 DEF Handed
    <3>2. \A i, j \in 1..Len(replies') : i + 1 = j + 1 => i = j
      BY <2>3
    <3> QED
      BY <3>1, <3>2
  <2>5. pipe' # << >> => \A i \in 1..Len(replies') : replies'[i] = "plus"
    BY <2>2, <2>3 DEF Handed
  <2>6. Handed'
    BY <2>1, <2>2, <2>4, <2>5 DEF Handed
  <2> QED
    BY <1>0, <2>2, <2>6 DEF WholeInv, WholeCommands
<1>6. CASE HangUp
  <2>1. client'.pc = "gone" /\ UNCHANGED <<wire, replies, reader, ibuffer, pipe, overrun>>
    BY <1>1, <1>6 DEF HangUp, Client
  <2>2. Handed'
    BY <2>1 DEF Handed
  <2> QED
    BY <1>0, <2>1, <2>2 DEF WholeInv, WholeCommands
<1>7. CASE Start
  <2>1. EndOfFile \/ LineTooLong
    BY <1>0, <1>1, <1>7 DEF Start, EmptyMessage, LiteralTooLong, Drain, LiteralAnnounced, ReadLiteral,
                            CommandTooLong, HandOn, ReadsLine
  <2> QED
    BY <1>0, <2>1 DEF EndOfFile, LineTooLong, WholeInv, WholeCommands
<1>8. ASSUME NEW answer \in {"done", "BAD"}, NEW last \in BOOLEAN, Run(answer, last) PROVE WholeInv'
  <2>1. /\ pipe # << >> /\ pipe' = Tail(pipe) /\ pipe \in Seq([length : Nat, whole : BOOLEAN])
        /\ UNCHANGED <<wire, reader, ibuffer, overrun>>
    BY <1>8 DEF Run, SizesInv, ReaderTypeOK
  <2>2. pipe' = << >> /\ Len(pipe') = 0
    <3>1. pipe' \in Seq([length : Nat, whole : BOOLEAN]) /\ Len(pipe') = Len(pipe) - 1
          /\ Len(pipe') \in Nat /\ Len(pipe) <= 1
      BY <2>1, HeadTailProperties DEF Handed
    <3> QED
      BY <3>1
  <2>3. \A i \in 1..Len(replies) : replies[i] = "plus"
    BY <2>1 DEF Handed
  <2>4. \A i, j \in 1..Len(replies') : replies'[i] # "plus" /\ replies'[j] # "plus" => i = j
    <3>1. replies' \in {replies, Append(replies, answer)}
      BY <1>8 DEF Run, Pushes
    <3>2. \A i \in 1..Len(Append(replies, answer)) :
            Append(replies, answer)[i] # "plus" => i = Len(replies) + 1
      BY <1>1, <2>3
    <3> QED
      BY <2>3, <3>1, <3>2
  <2>5. client'.pc \in {"answer", "silent", "gone"}
    BY <1>0, <1>1, <1>8 DEF Run, Leaves, Client
  <2>6. Handed'
    BY <2>1, <2>2, <2>4, <2>5 DEF Handed
  <2>7. WholeCommands'
    BY <1>0, <1>8, RunWhole
  <2> QED
    BY <2>6, <2>7 DEF WholeInv
<1> QED
  BY <1>2, <1>4, <1>5, <1>6, <1>7, <1>8 DEF Next, ClientHears, Serves

\* A step after the reader has gone.
LEMMA FromClosed ==
  ASSUME SizesInv, WholeInv, ~ overrun, reader = "closed", Next
  PROVE  WholeInv'
<1>0. WholeCommands
  BY DEF WholeInv
<1>1. ~ Start
  BY DEF Start, EmptyMessage, LiteralTooLong, Drain, LiteralAnnounced, ReadLiteral, CommandTooLong,
         HandOn, EndOfFile, LineTooLong, ReadsLine
<1>2. CASE ClientSends \/ ClientHears \/ HangUp
  <2>1. UNCHANGED <<reader, pipe, overrun>>
    BY <1>2 DEF ClientSends, SendLine, SendPrefix, SendLiteral, Sends,
                ClientHears, HearsPlus, HearsAnswer, HearsLatePlus, Hears, HangUp
  <2> QED
    BY <1>0, <2>1 DEF WholeInv, WholeCommands
<1>3. ASSUME NEW answer \in {"done", "BAD"}, NEW last \in BOOLEAN, Run(answer, last) PROVE WholeInv'
  <2>1. WholeCommands'
    BY <1>0, <1>3, RunWhole
  <2> QED
    BY <1>3, <2>1 DEF Run, WholeInv
<1> QED
  BY <1>1, <1>2, <1>3 DEF Next, Serves

\* Once something has been refused for its length nothing is claimed any more.
LEMMA OverrunStays ==
  ASSUME overrun \in BOOLEAN, overrun, Next
  PROVE  WholeInv'
<1>1. overrun' = TRUE \/ overrun' = overrun
  <2>1. CASE ClientSends
    BY <2>1 DEF ClientSends, SendLine, SendPrefix, SendLiteral, Sends
  <2>2. CASE ClientHears \/ HangUp
    BY <2>2 DEF ClientHears, HearsPlus, HearsAnswer, HearsLatePlus, Hears, HangUp
  <2>3. CASE Start
    BY <2>3 DEF Start, EmptyMessage, LiteralTooLong, Drain, LiteralAnnounced, ReadLiteral, CommandTooLong,
                HandOn, EndOfFile, LineTooLong
  <2>4. CASE Serves
    BY <2>4 DEF Serves, Run
  <2> QED
    BY <2>1, <2>2, <2>3, <2>4 DEF Next
<1> QED
  BY <1>1 DEF WholeInv

(***************************************************************************)
(* What is handed on to the user's process is one command of the client,   *)
(* all of it and nothing else, however it is cut into lines and literals,  *)
(* whatever line breaks are in the literals and wherever the client hangs  *)
(* up, as long as nothing was refused for its length.                      *)
(***************************************************************************)
THEOREM WholeCommandsHolds == Spec => []WholeCommands
<1>1. Init => WholeInv
  <2> SUFFICES ASSUME Init PROVE WholeInv
    OBVIOUS
  <2>1. Marked(<< >>, {}, "line", 0)
    BY DEF Marked
  <2>2. HasRead(<< >>, {}, "line", 0) /\ NoAnswer
    BY DEF Init, HasRead, NoAnswer
  <2>3. Staged("line") /\ Stream("line") = << >> /\ client.length = 0
    BY DEF Init, Staged, Stages, Stream
  <2>4. "line" \in Stages /\ {} \in SUBSET (2..Len(<< >>)) /\ 0 \in 0..Len(<< >>)
    BY DEF Stages
  <2>5. Gathering
    BY <2>1, <2>2, <2>3, <2>4 DEF Gathering
  <2>6. WholeCommands
    BY DEF Init, WholeCommands
  <2> QED
    BY <2>5, <2>6 DEF WholeInv
<1>2. SizesInv /\ WholeInv /\ [Next]_vars => WholeInv'
  <2> SUFFICES ASSUME SizesInv, WholeInv, [Next]_vars PROVE WholeInv'
    OBVIOUS
  <2>1. CASE UNCHANGED vars
    <3>1. UNCHANGED <<client, said, wire, replies, reader, due, ibuffer, pipe, overrun>>
      BY <2>1 DEF vars
    <3>2. ASSUME Gathering PROVE Gathering'
      <4>1. PICK phase, s, heads, r :
              /\ phase \in Stages /\ Staged(phase) /\ s = Stream(phase)
              /\ Marked(s, heads, phase, client.length) /\ HasRead(s, heads, phase, r)
        BY <3>2, HowFar
      <4>2. Staged(phase)' /\ s = Stream(phase)' /\ HasRead(s, heads, phase, r)'
        BY <3>1, <4>1 DEF Staged, Stream, HasRead
      <4>3. NoAnswer'
        BY <3>1, <3>2 DEF Gathering, NoAnswer
      <4>4. PICK length : length = client.length
        OBVIOUS
      <4>5. Marked(s, heads, phase, length) /\ length = client'.length
        BY <3>1, <4>1, <4>4
      <4> QED
        BY <4>1, <4>2, <4>3, <4>5, Gathers
    <3>3. Handed => Handed'
      BY <3>1 DEF Handed
    <3>4. WholeCommands => WholeCommands'
      BY <3>1 DEF WholeCommands
    <3> QED
      BY <3>1, <3>2, <3>3, <3>4 DEF WholeInv
  <2>2. CASE Next
    <3>1. overrun \in BOOLEAN
      BY DEF SizesInv, ReaderTypeOK
    <3>2. CASE overrun
      BY <2>2, <3>1, <3>2, OverrunStays
    <3>3. CASE ~ overrun
      BY <2>2, <3>3, FromGathering, FromHanded, FromClosed DEF WholeInv
    <3> QED
      BY <3>2, <3>3
  <2> QED
    BY <2>1, <2>2
<1>3. WholeInv => WholeCommands
  BY DEF WholeInv, WholeCommands
<1> QED
  BY <1>1, <1>2, <1>3, SizesHold, PTL DEF Spec

-----------------------------------------------------------------------------
(* The sessions *)

\* What a client can have: no more messages than there are UIDs.
View == {v \in Seq(0..MaxUid) : Len(v) <= MaxUid}

\* A list knows of each message, at its place, nothing or what it is.
Knows(v, list) == Len(v) = Len(list) /\ \A i \in DOMAIN v : v[i] \in {Unknown, list[i]}

\* With these notes a client knows the list, and no note contradicts it.
Follows(v, notes, list) == AllCredible(v, notes) /\ Knows(HearAll(v, notes), list)

\* FETCH notes, each with the number that its message has in the list.
Numbered(list, notes) ==
  \A i \in DOMAIN notes : /\ notes[i].type = "FETCH" /\ notes[i].n \in DOMAIN list
                          /\ notes[i].uid = list[notes[i].n]

-----------------------------------------------------------------------------
(* Step by step through a list *)

\* What holds at zero and one further each time holds at the end.
LEMMA Climb ==
  ASSUME NEW N \in Nat, NEW S, S \subseteq 0..N, 0 \in S, \A n \in S : n < N => n + 1 \in S
  PROVE  N \in S
<1>1. S \subseteq Nat /\ IsFiniteSet(S) /\ S # {}
  <2>1. IsFiniteSet(0..N)
    BY FS_Interval
  <2>2. S \in SUBSET (0..N)
    OBVIOUS
  <2>3. IsFiniteSet(S)
    BY <2>1, <2>2, FS_Subset
  <2> QED
    BY <2>3
<1>2. Max(S) \in S /\ \A y \in S : y <= Max(S)
  BY <1>1, MaxOf
<1>3. ~ Max(S) < N
  <2> SUFFICES ASSUME Max(S) < N PROVE FALSE
    OBVIOUS
  <2>1. Max(S) + 1 \in S
    BY <1>2
  <2>2. Max(S) + 1 <= Max(S) /\ Max(S) \in Nat
    BY <1>1, <1>2, <2>1
  <2> QED
    BY <2>2
<1>4. Max(S) \in 0..N
  BY <1>2
<1>5. Max(S) = N
  BY <1>3, <1>4
<1> QED
  BY <1>2, <1>5

\* The first k elements of a list, and one more.
LEMMA FirstOf ==
  ASSUME NEW S, NEW s \in Seq(S), NEW k \in 0..Len(s)
  PROVE  /\ SubSeq(s, 1, k) \in Seq(S) /\ Len(SubSeq(s, 1, k)) = k
         /\ \A i \in 1..k : SubSeq(s, 1, k)[i] = s[i]
         /\ k < Len(s) => /\ k + 1 \in 1..Len(s) /\ s[k + 1] \in S
                          /\ SubSeq(s, 1, k + 1) = Append(SubSeq(s, 1, k), s[k + 1])
<1>1. Len(s) \in Nat /\ k \in Nat /\ \A i \in 1..Len(s) : s[i] \in S
  BY ListOf
<1>2. /\ SubSeq(s, 1, k) \in Seq(S) /\ Len(SubSeq(s, 1, k)) = k
      /\ \A i \in 1..k : SubSeq(s, 1, k)[i] = s[i]
  <2>1. \A i \in 1..k : s[i] \in S
    BY <1>1
  <2>2. /\ SubSeq(s, 1, k) \in Seq(S)
        /\ Len(SubSeq(s, 1, k)) = IF 1 <= k THEN k - 1 + 1 ELSE 0
        /\ \A i \in 1..(k - 1 + 1) : SubSeq(s, 1, k)[i] = s[1 + i - 1]
    BY <1>1, <2>1, SubSeqProperties
  <2> QED
    BY <1>1, <2>2
<1>3. ASSUME k < Len(s)
      PROVE  k + 1 \in 1..Len(s) /\ s[k + 1] \in S
             /\ SubSeq(s, 1, k + 1) = Append(SubSeq(s, 1, k), s[k + 1])
  <2>1. k + 1 \in 1..Len(s) /\ s[k + 1] \in S
    BY <1>1, <1>3
  <2>2. /\ SubSeq(s, 1, k + 1) \in Seq(S) /\ Len(SubSeq(s, 1, k + 1)) = k + 1
        /\ \A i \in 1..(k + 1) : SubSeq(s, 1, k + 1)[i] = s[i]
    <3>1. \A i \in 1..(k + 1) : s[i] \in S
      BY <1>1, <1>3
    <3>2. /\ SubSeq(s, 1, k + 1) \in Seq(S)
          /\ Len(SubSeq(s, 1, k + 1)) = IF 1 <= k + 1 THEN k + 1 - 1 + 1 ELSE 0
          /\ \A i \in 1..(k + 1 - 1 + 1) : SubSeq(s, 1, k + 1)[i] = s[1 + i - 1]
      BY <1>1, <3>1, SubSeqProperties
    <3> QED
      BY <1>1, <3>2
  <2>3. /\ Append(SubSeq(s, 1, k), s[k + 1]) \in Seq(S)
        /\ Len(Append(SubSeq(s, 1, k), s[k + 1])) = k + 1
        /\ \A i \in 1..k : Append(SubSeq(s, 1, k), s[k + 1])[i] = s[i]
        /\ Append(SubSeq(s, 1, k), s[k + 1])[k + 1] = s[k + 1]
    BY <1>2, <2>1, AppendProperties
  <2>4. \A i \in 1..(k + 1) : SubSeq(s, 1, k + 1)[i] = Append(SubSeq(s, 1, k), s[k + 1])[i]
    BY <1>1, <2>2, <2>3
  <2>5. Len(SubSeq(s, 1, k + 1)) = Len(Append(SubSeq(s, 1, k), s[k + 1]))
    BY <2>2, <2>3
  <2>6. \A i \in 1..Len(SubSeq(s, 1, k + 1)) :
          SubSeq(s, 1, k + 1)[i] = Append(SubSeq(s, 1, k), s[k + 1])[i]
    BY <2>2, <2>4
  <2>7. SubSeq(s, 1, k + 1) \in Seq(S) /\ Append(SubSeq(s, 1, k), s[k + 1]) \in Seq(S)
    BY <2>2, <2>3
  <2>8. SubSeq(s, 1, k + 1) = Append(SubSeq(s, 1, k), s[k + 1])
    BY <2>5, <2>6, <2>7, SeqEqual
  <2> QED
    BY <2>1, <2>8
<1> QED
  BY <1>2, <1>3

\* The beginning of two lists in a row.
LEMMA FirstOfTwo ==
  ASSUME NEW S, NEW s \in Seq(S), NEW t \in Seq(S), NEW k \in 0..Len(t)
  PROVE  /\ s \o t \in Seq(S) /\ Len(s \o t) = Len(s) + Len(t)
         /\ SubSeq(s \o t, 1, Len(s) + k) = s \o SubSeq(t, 1, k)
         /\ \A j \in 0..Len(s) : SubSeq(s \o t, 1, j) = SubSeq(s, 1, j)
         /\ \A i \in 1..Len(s) : (s \o t)[i] = s[i]
         /\ \A i \in 1..Len(t) : (s \o t)[Len(s) + i] = t[i]
<1>1. Len(s) \in Nat /\ Len(t) \in Nat
  BY ListOf
<1>2. /\ s \o t \in Seq(S) /\ Len(s \o t) = Len(s) + Len(t)
      /\ \A i \in 1..(Len(s) + Len(t)) : (s \o t)[i] = IF i <= Len(s) THEN s[i] ELSE t[i - Len(s)]
  BY ConcatProperties
<1>3. \A i \in 1..Len(s) : (s \o t)[i] = s[i]
  BY <1>1, <1>2
<1>4. \A i \in 1..Len(t) : (s \o t)[Len(s) + i] = t[i]
  <2> SUFFICES ASSUME NEW i \in 1..Len(t) PROVE (s \o t)[Len(s) + i] = t[i]
    OBVIOUS
  <2>1. Len(s) + i \in 1..(Len(s) + Len(t)) /\ ~ (Len(s) + i <= Len(s)) /\ Len(s) + i - Len(s) = i
    BY <1>1
  <2> QED
    BY <1>2, <2>1
<1>5. \A j \in 0..Len(s) : SubSeq(s \o t, 1, j) = SubSeq(s, 1, j)
  <2> SUFFICES ASSUME NEW j \in 0..Len(s) PROVE SubSeq(s \o t, 1, j) = SubSeq(s, 1, j)
    OBVIOUS
  <2>1. j \in 0..Len(s \o t)
    BY <1>1, <1>2
  <2>2. /\ SubSeq(s \o t, 1, j) \in Seq(S) /\ Len(SubSeq(s \o t, 1, j)) = j
        /\ \A i \in 1..j : SubSeq(s \o t, 1, j)[i] = (s \o t)[i]
    BY <1>2, <2>1, FirstOf
  <2>3. /\ SubSeq(s, 1, j) \in Seq(S) /\ Len(SubSeq(s, 1, j)) = j
        /\ \A i \in 1..j : SubSeq(s, 1, j)[i] = s[i]
    BY FirstOf
  <2>4. \A i \in 1..j : SubSeq(s \o t, 1, j)[i] = SubSeq(s, 1, j)[i]
    BY <1>1, <1>3, <2>2, <2>3
  <2> QED
    BY <2>2, <2>3, <2>4, SeqEqual
<1>6. SubSeq(s \o t, 1, Len(s) + k) = s \o SubSeq(t, 1, k)
  <2> DEFINE r == SubSeq(t, 1, k)
  <2>1. r \in Seq(S) /\ Len(r) = k /\ \A i \in 1..k : r[i] = t[i]
    BY FirstOf
  <2>2. Len(s) + k \in 0..Len(s \o t) /\ k \in Nat
    BY <1>1, <1>2
  <2>3. /\ SubSeq(s \o t, 1, Len(s) + k) \in Seq(S) /\ Len(SubSeq(s \o t, 1, Len(s) + k)) = Len(s) + k
        /\ \A i \in 1..(Len(s) + k) : SubSeq(s \o t, 1, Len(s) + k)[i] = (s \o t)[i]
    BY <1>2, <2>2, FirstOf
  <2> HIDE DEF r
  <2>4. /\ s \o r \in Seq(S) /\ Len(s \o r) = Len(s) + k
        /\ \A i \in 1..(Len(s) + k) : (s \o r)[i] = IF i <= Len(s) THEN s[i] ELSE r[i - Len(s)]
    BY <2>1, ConcatProperties
  <2>5. ASSUME NEW i \in 1..(Len(s) + k)
        PROVE  SubSeq(s \o t, 1, Len(s) + k)[i] = (s \o r)[i]
    <3>1. i \in 1..(Len(s) + Len(t)) /\ (i <= Len(s) \/ i - Len(s) \in 1..k)
      BY <1>1, <2>2
    <3> QED
      BY <1>2, <2>1, <2>3, <2>4, <3>1
  <2>6. SubSeq(s \o t, 1, Len(s) + k) = s \o r
    BY <2>3, <2>4, <2>5, SeqEqual
  <2> QED
    BY <2>6 DEF r
<1> QED
  BY <1>2, <1>3, <1>4, <1>5, <1>6

-----------------------------------------------------------------------------
(* What clients make of the responses *)

\* A client's list stays one, grows only by EXISTS and shrinks only by EXPUNGE.
LEMMA Heard ==
  ASSUME NEW v \in View, NEW x \in Note
  PROVE  /\ Hear(v, x) \in View
         /\ x.type = "EXISTS" => /\ Len(Hear(v, x)) = IF x.n > Len(v) THEN x.n ELSE Len(v)
                                 /\ \A i \in 1..Len(Hear(v, x)) :
                                      Hear(v, x)[i] = IF i <= Len(v) THEN v[i] ELSE Unknown
         /\ x.type = "FETCH" => /\ Len(Hear(v, x)) = Len(v)
                                /\ \A i \in 1..Len(v) : Hear(v, x)[i] = IF i = x.n THEN x.uid ELSE v[i]
         /\ x.type = "EXPUNGE" /\ x.n \in DOMAIN v => Hear(v, x) = RemoveAt(v, x.n)
<1>1. /\ v \in Seq(0..MaxUid) /\ Len(v) \in Nat /\ Len(v) <= MaxUid /\ DOMAIN v = 1..Len(v)
      /\ \A i \in 1..Len(v) : v[i] \in 0..MaxUid
  BY ListOf DEF View
<1>2. x.type \in {"EXISTS", "EXPUNGE", "FETCH"} /\ x.n \in 0..MaxUid /\ x.uid \in 0..MaxUid /\ MaxUid \in Nat
  BY SessionAssumption DEF Note
<1>3. ASSUME x.type = "EXISTS"
      PROVE  /\ Hear(v, x) \in View
             /\ Len(Hear(v, x)) = IF x.n > Len(v) THEN x.n ELSE Len(v)
             /\ \A i \in 1..Len(Hear(v, x)) : Hear(v, x)[i] = IF i <= Len(v) THEN v[i] ELSE Unknown
  <2> DEFINE more == [i \in 1..(x.n - Len(v)) |-> Unknown]
  <2>1. Hear(v, x) = v \o more
    BY <1>3 DEF Hear
  <2>2. /\ more \in Seq(0..MaxUid)
        /\ Len(more) = IF x.n > Len(v) THEN x.n - Len(v) ELSE 0
        /\ \A i \in 1..Len(more) : more[i] = Unknown
    <3>1. CASE x.n > Len(v)
      <4>1. x.n - Len(v) \in Nat /\ Unknown \in 0..MaxUid
        BY <1>1, <1>2, <3>1 DEF Unknown
      <4>2. more \in [1..(x.n - Len(v)) -> 0..MaxUid]
        BY <4>1
      <4>3. more \in Seq(0..MaxUid)
        BY <4>1, <4>2, SeqDef, ZenonT(60)
      <4>4. DOMAIN more = 1..(x.n - Len(v)) /\ DOMAIN more = 1..Len(more) /\ Len(more) \in Nat
        BY <4>3, LenProperties
      <4>5. Len(more) = x.n - Len(v)
        BY <4>1, <4>4
      <4> QED
        BY <3>1, <4>3, <4>5
    <3>2. CASE ~ x.n > Len(v)
      <4>1. 1..(x.n - Len(v)) = {}
        BY <1>1, <1>2, <3>2
      <4>2. more = << >>
        BY <4>1
      <4> HIDE DEF more
      <4> QED
        BY <3>2, <4>2, EmptyList
    <3> QED
      BY <3>1, <3>2
  <2> HIDE DEF more
  <2>3. /\ v \o more \in Seq(0..MaxUid) /\ Len(v \o more) = Len(v) + Len(more)
        /\ \A i \in 1..(Len(v) + Len(more)) : (v \o more)[i] = IF i <= Len(v) THEN v[i] ELSE more[i - Len(v)]
    BY <1>1, <2>2, ConcatProperties
  <2>4. Len(v \o more) = IF x.n > Len(v) THEN x.n ELSE Len(v)
    BY <1>1, <1>2, <2>2, <2>3
  <2>5. \A i \in 1..Len(v \o more) : (v \o more)[i] = IF i <= Len(v) THEN v[i] ELSE Unknown
    <3> SUFFICES ASSUME NEW i \in 1..Len(v \o more)
                 PROVE  (v \o more)[i] = IF i <= Len(v) THEN v[i] ELSE Unknown
      OBVIOUS
    <3>1. i <= Len(v) \/ i - Len(v) \in 1..Len(more)
      BY <1>1, <2>2, <2>3
    <3> QED
      BY <1>1, <2>2, <2>3, <3>1
  <2>6. v \o more \in View
    BY <1>1, <1>2, <2>3, <2>4 DEF View
  <2> QED
    BY <2>1, <2>4, <2>5, <2>6
<1>4. ASSUME x.type = "FETCH"
      PROVE  /\ Hear(v, x) \in View /\ Len(Hear(v, x)) = Len(v)
             /\ \A i \in 1..Len(v) : Hear(v, x)[i] = IF i = x.n THEN x.uid ELSE v[i]
  <2>1. Hear(v, x) = IF x.n \in DOMAIN v THEN [v EXCEPT ![x.n] = x.uid] ELSE v
    BY <1>4 DEF Hear
  <2>2. CASE x.n \in DOMAIN v
    <3>1. /\ [v EXCEPT ![x.n] = x.uid] \in Seq(0..MaxUid)
          /\ Len([v EXCEPT ![x.n] = x.uid]) = Len(v)
          /\ \A j \in 1..Len(v) : [v EXCEPT ![x.n] = x.uid][j] = IF j = x.n THEN x.uid ELSE v[j]
      BY <1>1, <1>2, <2>2, ExceptSeq
    <3> QED
      BY <1>1, <2>1, <2>2, <3>1 DEF View
  <2>3. CASE x.n \notin DOMAIN v
    BY <1>1, <2>1, <2>3
  <2> QED
    BY <2>2, <2>3
<1>5. ASSUME x.type = "EXPUNGE"
      PROVE  /\ Hear(v, x) \in View
             /\ x.n \in DOMAIN v => Hear(v, x) = RemoveAt(v, x.n)
  <2>1. Hear(v, x) = IF x.n \in DOMAIN v THEN RemoveAt(v, x.n) ELSE v
    BY <1>5 DEF Hear
  <2>2. CASE x.n \in DOMAIN v
    <3>1. RemoveAt(v, x.n) \in Seq(0..MaxUid) /\ Len(RemoveAt(v, x.n)) = Len(v) - 1
      BY <1>1, <2>2, RemovedAt
    <3>2. Len(RemoveAt(v, x.n)) <= MaxUid
      BY <1>1, <1>2, <3>1
    <3> QED
      BY <2>1, <2>2, <3>1, <3>2 DEF View
  <2>3. CASE x.n \notin DOMAIN v
    BY <2>1, <2>3
  <2> QED
    BY <2>1, <2>2, <2>3
<1> QED
  BY <1>2, <1>3, <1>4, <1>5

\* h tells what becomes of v, note by note.
Course(h, v, notes) ==
  h = [i \in 0..Len(notes) |-> IF i = 0 THEN v ELSE Hear(h[i - 1], notes[i])]

LEMMA CourseIs ==
  ASSUME NEW v, NEW notes, NEW h
  PROVE  Course(h, v, notes) <=>
           /\ DOMAIN h = 0..Len(notes) /\ h = [i \in DOMAIN h |-> h[i]]
           /\ \A i \in 0..Len(notes) : h[i] = IF i = 0 THEN v ELSE Hear(h[i - 1], notes[i])
<1>1. ASSUME Course(h, v, notes)
      PROVE  /\ DOMAIN h = 0..Len(notes) /\ h = [i \in DOMAIN h |-> h[i]]
             /\ \A i \in 0..Len(notes) : h[i] = IF i = 0 THEN v ELSE Hear(h[i - 1], notes[i])
  <2>1. h = [i \in 0..Len(notes) |-> IF i = 0 THEN v ELSE Hear(h[i - 1], notes[i])]
    BY <1>1 DEF Course
  <2> DEFINE e(i) == IF i = 0 THEN v ELSE Hear(h[i - 1], notes[i])
  <2>2. h = [i \in 0..Len(notes) |-> e(i)]
    BY <2>1
  <2> HIDE DEF e
  <2>3. DOMAIN h = 0..Len(notes) /\ \A i \in 0..Len(notes) : h[i] = e(i)
    BY <2>2
  <2>4. h = [i \in DOMAIN h |-> h[i]]
    BY <2>2, <2>3
  <2> QED
    BY <2>3, <2>4 DEF e
<1>2. ASSUME DOMAIN h = 0..Len(notes), h = [i \in DOMAIN h |-> h[i]],
             \A i \in 0..Len(notes) : h[i] = IF i = 0 THEN v ELSE Hear(h[i - 1], notes[i])
      PROVE  Course(h, v, notes)
  <2> DEFINE e(i) == IF i = 0 THEN v ELSE Hear(h[i - 1], notes[i])
  <2>1. \A i \in 0..Len(notes) : h[i] = e(i)
    BY <1>2
  <2>2. h = [i \in 0..Len(notes) |-> h[i]]
    BY <1>2
  <2> HIDE DEF e
  <2>3. h = [i \in 0..Len(notes) |-> e(i)]
    BY <2>1, <2>2
  <2> QED
    BY <2>3 DEF Course, e
<1> QED
  BY <1>1, <1>2

\* There is one for the first notes, and so for all.
LEMMA CourseExists ==
  ASSUME NEW v, NEW notes \in Seq(Note)
  PROVE  \E h : Course(h, v, notes)
<1>1. Len(notes) \in Nat
  BY ListOf
<1> DEFINE begun(h, n) == /\ DOMAIN h = 0..n /\ h = [i \in DOMAIN h |-> h[i]]
                          /\ \A i \in 0..n : h[i] = IF i = 0 THEN v ELSE Hear(h[i - 1], notes[i])
           S == {n \in 0..Len(notes) : \E h : begun(h, n)}
<1>2. 0 \in S
  <2> DEFINE h == [i \in 0..0 |-> v]
  <2>1. begun(h, 0)
    OBVIOUS
  <2> HIDE DEF h
  <2>2. \E g : begun(g, 0)
    BY <2>1
  <2> QED
    BY <1>1, <2>2
<1>3. ASSUME NEW n \in S, n < Len(notes) PROVE n + 1 \in S
  <2>1. n \in Nat /\ n + 1 \in 0..Len(notes)
    BY <1>1, <1>3
  <2>2. PICK h : begun(h, n)
    BY <1>3
  <2> DEFINE g == [i \in 0..(n + 1) |-> IF i = n + 1 THEN Hear(h[n], notes[n + 1]) ELSE h[i]]
  <2>3. DOMAIN g = 0..(n + 1) /\ g = [i \in DOMAIN g |-> g[i]]
    OBVIOUS
  <2>4. /\ g[n + 1] = Hear(h[n], notes[n + 1])
        /\ \A i \in 0..n : g[i] = h[i]
    BY <2>1
  <2> HIDE DEF g
  <2>5. ASSUME NEW i \in 0..(n + 1)
        PROVE  g[i] = IF i = 0 THEN v ELSE Hear(g[i - 1], notes[i])
    <3>1. CASE i = n + 1
      <4>1. i # 0 /\ i - 1 = n /\ n \in 0..n
        BY <2>1, <3>1
      <4> QED
        BY <2>4, <3>1, <4>1
    <3>2. CASE i \in 0..n
      <4>1. h[i] = IF i = 0 THEN v ELSE Hear(h[i - 1], notes[i])
        BY <2>2, <3>2
      <4>2. i # 0 => i - 1 \in 0..n
        BY <2>1, <3>2
      <4> QED
        BY <2>4, <3>2, <4>1, <4>2
    <3> QED
      BY <2>1, <3>1, <3>2
  <2>6. begun(g, n + 1)
    BY <2>3, <2>5
  <2> QED
    BY <2>1, <2>6
<1>4. S \subseteq 0..Len(notes)
  OBVIOUS
<1>5. Len(notes) \in S
  <2> HIDE DEF S
  <2> QED
    BY <1>1, <1>2, <1>3, <1>4, Climb
<1>6. PICK h : begun(h, Len(notes))
  BY <1>5
<1>7. Course(h, v, notes)
  BY <1>6, CourseIs
<1> QED
  BY <1>7

\* Two of them are the same.
LEMMA CourseOnce ==
  ASSUME NEW v, NEW notes \in Seq(Note), NEW h, NEW g, Course(h, v, notes), Course(g, v, notes),
         NEW k \in 0..Len(notes)
  PROVE  h[k] = g[k]
<1>1. Len(notes) \in Nat
  BY ListOf
<1>2. /\ \A i \in 0..Len(notes) : h[i] = IF i = 0 THEN v ELSE Hear(h[i - 1], notes[i])
      /\ \A i \in 0..Len(notes) : g[i] = IF i = 0 THEN v ELSE Hear(g[i - 1], notes[i])
  BY CourseIs
<1> DEFINE S == {n \in 0..k : h[n] = g[n]}
<1>3. 0 \in S
  BY <1>1, <1>2
<1>4. ASSUME NEW n \in S, n < k PROVE n + 1 \in S
  <2>1. n + 1 \in 0..k /\ n + 1 \in 0..Len(notes) /\ n + 1 # 0 /\ n + 1 - 1 = n /\ h[n] = g[n]
    BY <1>1, <1>4
  <2>2. h[n + 1] = Hear(h[n], notes[n + 1]) /\ g[n + 1] = Hear(g[n], notes[n + 1])
    BY <1>2, <2>1
  <2> QED
    BY <2>1, <2>2
<1>5. S \subseteq 0..k /\ k \in Nat
  BY <1>1
<1>6. k \in S
  <2> HIDE DEF S
  <2> QED
    BY <1>3, <1>4, <1>5, Climb
<1> QED
  BY <1>6

LEMMA HearAllIs ==
  ASSUME NEW v, NEW notes \in Seq(Note), NEW h, Course(h, v, notes)
  PROVE  HearAll(v, notes) = h[Len(notes)]
<1> DEFINE g == CHOOSE f : Course(f, v, notes)
<1>1. HearAll(v, notes) = g[Len(notes)]
  BY DEF HearAll, Course
<1>2. Course(g, v, notes)
  BY CourseExists
<1>3. Len(notes) \in 0..Len(notes)
  BY ListOf
<1> HIDE DEF g
<1>4. h[Len(notes)] = g[Len(notes)]
  BY <1>2, <1>3, CourseOnce
<1> QED
  BY <1>1, <1>4

\* Without notes nothing changes; a note more is heard last.
LEMMA HearAllSteps ==
  ASSUME NEW v, NEW notes \in Seq(Note)
  PROVE  /\ HearAll(v, << >>) = v
         /\ \A x \in Note : HearAll(v, Append(notes, x)) = Hear(HearAll(v, notes), x)
<1>1. HearAll(v, << >>) = v
  <2>1. << >> \in Seq(Note) /\ Len(<< >>) = 0
    BY EmptyList
  <2>2. PICK h : Course(h, v, << >>)
    BY <2>1, CourseExists
  <2>3. HearAll(v, << >>) = h[Len(<< >>)]
    BY <2>1, <2>2, HearAllIs
  <2>4. \A i \in 0..Len(<< >>) : h[i] = IF i = 0 THEN v ELSE Hear(h[i - 1], << >>[i])
    BY <2>2, CourseIs
  <2> QED
    BY <2>1, <2>3, <2>4
<1>2. ASSUME NEW x \in Note PROVE HearAll(v, Append(notes, x)) = Hear(HearAll(v, notes), x)
  <2> DEFINE all == Append(notes, x)
             n == Len(notes)
  <2>1. /\ all \in Seq(Note) /\ Len(all) = n + 1 /\ n \in Nat
        /\ \A i \in 1..n : all[i] = notes[i]
        /\ all[n + 1] = x
    BY ListOf, AppendProperties
  <2> HIDE DEF all
  <2>2. PICK h : Course(h, v, all)
    BY <2>1, CourseExists
  <2>3. \A i \in 0..Len(all) : h[i] = IF i = 0 THEN v ELSE Hear(h[i - 1], all[i])
    BY <2>2, CourseIs
  <2> DEFINE g == [i \in 0..n |-> h[i]]
  <2>4. DOMAIN g = 0..n /\ g = [i \in DOMAIN g |-> g[i]] /\ \A i \in 0..n : g[i] = h[i]
    OBVIOUS
  <2> HIDE DEF g
  <2>5. ASSUME NEW i \in 0..n PROVE g[i] = IF i = 0 THEN v ELSE Hear(g[i - 1], notes[i])
    <3>1. i \in 0..Len(all) /\ (i # 0 => i \in 1..n /\ i - 1 \in 0..n)
      BY <2>1
    <3> QED
      BY <2>1, <2>3, <2>4, <3>1
  <2>6. Course(g, v, notes)
    BY <2>4, <2>5, CourseIs
  <2>7. HearAll(v, notes) = g[n] /\ HearAll(v, all) = h[n + 1]
    BY <2>1, <2>2, <2>6, HearAllIs
  <2>8. h[n + 1] = Hear(h[n], x) /\ g[n] = h[n]
    <3>1. n + 1 \in 0..Len(all) /\ n + 1 # 0 /\ n + 1 - 1 = n /\ n \in 0..n
      BY <2>1
    <3> QED
      BY <2>1, <2>3, <2>4, <3>1
  <2> QED
    BY <2>7, <2>8 DEF all
<1> QED
  BY <1>1, <1>2

\* What has been heard after the first k notes.
By(v, notes, k) == HearAll(v, SubSeq(notes, 1, k))

LEMMA ByAndBy ==
  ASSUME NEW v \in View, NEW notes \in Seq(Note)
  PROVE  /\ By(v, notes, 0) = v /\ By(v, notes, Len(notes)) = HearAll(v, notes)
         /\ \A k \in 0..Len(notes) : k < Len(notes) =>
              notes[k + 1] \in Note /\ By(v, notes, k + 1) = Hear(By(v, notes, k), notes[k + 1])
         /\ \A k \in 0..Len(notes) : By(v, notes, k) \in View
<1>1. Len(notes) \in Nat /\ SubSeq(notes, 1, Len(notes)) = notes
  BY ListOf, SubSeqFull
<1>2. By(v, notes, 0) = v
  <2>1. SubSeq(notes, 1, 0) = << >>
    BY <1>1, SubSeqEmpty
  <2> QED
    BY <2>1, HearAllSteps DEF By
<1>3. ASSUME NEW k \in 0..Len(notes), k < Len(notes)
      PROVE  notes[k + 1] \in Note /\ By(v, notes, k + 1) = Hear(By(v, notes, k), notes[k + 1])
  <2>1. /\ SubSeq(notes, 1, k) \in Seq(Note) /\ notes[k + 1] \in Note
        /\ SubSeq(notes, 1, k + 1) = Append(SubSeq(notes, 1, k), notes[k + 1])
    BY <1>3, FirstOf
  <2> DEFINE first == SubSeq(notes, 1, k)
             x == notes[k + 1]
  <2>2. first \in Seq(Note) /\ x \in Note
    BY <2>1
  <2> HIDE DEF first, x
  <2>3. HearAll(v, Append(first, x)) = Hear(HearAll(v, first), x)
    BY <2>2, HearAllSteps
  <2> QED
    BY <2>1, <2>3 DEF first, x, By
<1> DEFINE S == {k \in 0..Len(notes) : By(v, notes, k) \in View}
<1>4. ASSUME NEW k \in S, k < Len(notes) PROVE k + 1 \in S
  <2>1. notes[k + 1] \in Note /\ By(v, notes, k + 1) = Hear(By(v, notes, k), notes[k + 1]) /\ By(v, notes, k) \in View
    BY <1>3, <1>4
  <2>2. Hear(By(v, notes, k), notes[k + 1]) \in View
    BY <2>1, Heard
  <2> QED
    BY <1>1, <1>4, <2>1, <2>2
<1>5. ASSUME NEW n \in 0..Len(notes) PROVE By(v, notes, n) \in View
  <2> DEFINE T == S \cap 0..n
  <2>1. T \subseteq 0..n /\ n \in Nat /\ 0 \in T
    BY <1>1, <1>2
  <2>2. ASSUME NEW k \in T, k < n PROVE k + 1 \in T
    <3>1. k \in S /\ k < Len(notes) /\ k + 1 \in 0..n
      BY <1>1, <2>2
    <3> HIDE DEF S
    <3> QED
      BY <1>4, <3>1
  <2> HIDE DEF T
  <2>3. n \in T
    BY <2>1, <2>2, Climb
  <2> QED
    BY <2>3 DEF T
<1> QED
  BY <1>1, <1>2, <1>3, <1>5 DEF By

LEMMA HearAllView ==
  ASSUME NEW v \in View, NEW notes \in Seq(Note)
  PROVE  HearAll(v, notes) \in View
<1>1. Len(notes) \in 0..Len(notes)
  BY ListOf
<1> QED
  BY <1>1, ByAndBy

\* One list of notes after another.
LEMMA HearThen ==
  ASSUME NEW v \in View, NEW s \in Seq(Note), NEW t \in Seq(Note)
  PROVE  /\ HearAll(v, s \o t) = HearAll(HearAll(v, s), t)
         /\ AllCredible(v, s) /\ AllCredible(HearAll(v, s), t) => AllCredible(v, s \o t)
         /\ AllCredible(v, s \o t) => AllCredible(v, s) /\ AllCredible(HearAll(v, s), t)
<1> DEFINE w == HearAll(v, s)
           all == s \o t
<1>1. /\ Len(s) \in Nat /\ Len(t) \in Nat /\ w \in View
      /\ all \in Seq(Note) /\ Len(all) = Len(s) + Len(t)
      /\ DOMAIN s = 1..Len(s) /\ DOMAIN t = 1..Len(t) /\ DOMAIN all = 1..Len(all)
  BY ListOf, HearAllView, ConcatProperties
<1>2. /\ \A k \in 0..Len(t) : SubSeq(all, 1, Len(s) + k) = s \o SubSeq(t, 1, k)
      /\ \A j \in 0..Len(s) : SubSeq(all, 1, j) = SubSeq(s, 1, j)
      /\ \A i \in 1..Len(s) : all[i] = s[i]
      /\ \A i \in 1..Len(t) : all[Len(s) + i] = t[i]
  <2>1. 0 \in 0..Len(t)
    BY <1>1
  <2>2. ASSUME NEW k \in 0..Len(t) PROVE SubSeq(all, 1, Len(s) + k) = s \o SubSeq(t, 1, k)
    BY FirstOfTwo
  <2> QED
    BY <2>1, <2>2, FirstOfTwo
<1> HIDE DEF w, all
<1>3. \A j \in 0..Len(s) : By(v, all, j) = By(v, s, j)
  BY <1>2 DEF By
<1>4. ASSUME NEW k \in 0..Len(t) PROVE By(v, all, Len(s) + k) = By(w, t, k)
  <2> DEFINE S == {n \in 0..k : By(v, all, Len(s) + n) = By(w, t, n)}
  <2>1. k \in Nat /\ S \subseteq 0..k
    BY <1>1
  <2>2. 0 \in S
    <3>1. Len(s) + 0 = Len(s) /\ Len(s) \in 0..Len(s) /\ 0 \in 0..k
      BY <1>1
    <3>2. By(v, all, Len(s)) = w
      BY <1>1, <1>3, <3>1, ByAndBy DEF w
    <3>3. By(w, t, 0) = w
      BY <1>1, ByAndBy
    <3> QED
      BY <3>1, <3>2, <3>3
  <2>3. ASSUME NEW n \in S, n < k PROVE n + 1 \in S
    <3>1. /\ n \in 0..Len(t) /\ n < Len(t) /\ n + 1 \in 0..k /\ n + 1 \in 1..Len(t)
          /\ Len(s) + n \in 0..Len(all) /\ Len(s) + n < Len(all)
          /\ Len(s) + (n + 1) = Len(s) + n + 1
          /\ By(v, all, Len(s) + n) = By(w, t, n)
      BY <1>1, <2>3
    <3>2. By(v, all, Len(s) + n + 1) = Hear(By(v, all, Len(s) + n), all[Len(s) + n + 1])
      BY <1>1, <3>1, ByAndBy
    <3>3. By(w, t, n + 1) = Hear(By(w, t, n), t[n + 1])
      BY <1>1, <3>1, ByAndBy
    <3>4. all[Len(s) + n + 1] = t[n + 1]
      BY <1>2, <3>1
    <3> QED
      BY <3>1, <3>2, <3>3, <3>4
  <2> HIDE DEF S
  <2>4. k \in S
    BY <2>1, <2>2, <2>3, Climb
  <2> QED
    BY <2>4 DEF S
<1>5. HearAll(v, all) = HearAll(w, t)
  <2>1. Len(t) \in 0..Len(t) /\ Len(s) + Len(t) = Len(all)
    BY <1>1
  <2>2. By(v, all, Len(all)) = By(w, t, Len(t))
    BY <1>4, <2>1
  <2>3. By(v, all, Len(all)) = HearAll(v, all)
    BY <1>1, ByAndBy
  <2>4. By(w, t, Len(t)) = HearAll(w, t)
    BY <1>1, ByAndBy
  <2> QED
    BY <2>2, <2>3, <2>4
<1>6. ASSUME AllCredible(v, s), AllCredible(w, t) PROVE AllCredible(v, all)
  <2> SUFFICES ASSUME NEW i \in DOMAIN all PROVE Credible(By(v, all, i - 1), all[i])
    BY DEF AllCredible, By
  <2>1. CASE i <= Len(s)
    <3>1. i \in DOMAIN s /\ i - 1 \in 0..Len(s) /\ all[i] = s[i]
      BY <1>1, <1>2, <2>1
    <3>2. Credible(By(v, s, i - 1), s[i])
      BY <1>6, <3>1 DEF AllCredible, By
    <3> QED
      BY <1>3, <3>1, <3>2
  <2>2. CASE ~ i <= Len(s)
    <3> DEFINE j == i - Len(s)
    <3>1. j \in DOMAIN t /\ j - 1 \in 0..Len(t) /\ i = Len(s) + j /\ i - 1 = Len(s) + (j - 1)
      BY <1>1, <2>2
    <3>2. all[i] = t[j]
      BY <1>1, <1>2, <3>1
    <3>3. Credible(By(w, t, j - 1), t[j])
      BY <1>6, <3>1 DEF AllCredible, By
    <3>4. By(v, all, i - 1) = By(w, t, j - 1)
      BY <1>4, <3>1
    <3> QED
      BY <3>2, <3>3, <3>4
  <2> QED
    BY <2>1, <2>2
<1>7. ASSUME AllCredible(v, all) PROVE AllCredible(v, s) /\ AllCredible(w, t)
  <2>1. ASSUME NEW i \in DOMAIN s PROVE Credible(By(v, s, i - 1), s[i])
    <3>1. i \in DOMAIN all /\ i - 1 \in 0..Len(s) /\ all[i] = s[i]
      BY <1>1, <1>2
    <3>2. Credible(By(v, all, i - 1), all[i])
      BY <1>7, <3>1 DEF AllCredible, By
    <3> QED
      BY <1>3, <3>1, <3>2
  <2>2. ASSUME NEW j \in DOMAIN t PROVE Credible(By(w, t, j - 1), t[j])
    <3>1. Len(s) + j \in DOMAIN all /\ j - 1 \in 0..Len(t) /\ Len(s) + j - 1 = Len(s) + (j - 1)
      BY <1>1
    <3>2. all[Len(s) + j] = t[j]
      BY <1>1, <1>2
    <3>3. Credible(By(v, all, Len(s) + j - 1), all[Len(s) + j])
      BY <1>7, <3>1 DEF AllCredible, By
    <3> QED
      BY <1>4, <3>1, <3>2, <3>3
  <2> QED
    BY <2>1, <2>2 DEF AllCredible, By
<1> QED
  BY <1>5, <1>6, <1>7 DEF w, all

-----------------------------------------------------------------------------
(* Being told what is so *)

\* A list of messages.
Mails == {l \in Seq(Uids) : Len(l) <= MaxUid}

LEMMA MailsAre ==
  ASSUME NEW l \in Mails
  PROVE  /\ l \in Seq(Uids) /\ Len(l) \in Nat /\ Len(l) <= MaxUid /\ DOMAIN l = 1..Len(l)
         /\ \A i \in 1..Len(l) : l[i] \in Uids /\ l[i] # Unknown
         /\ l \in View
<1>1. l \in Seq(Uids) /\ Len(l) \in Nat /\ Len(l) <= MaxUid /\ DOMAIN l = 1..Len(l)
  BY ListOf DEF Mails
<1>2. \A i \in 1..Len(l) : l[i] \in Uids /\ l[i] # Unknown
  <2>1. \A i \in 1..Len(l) : l[i] \in Uids
    BY <1>1, ListOf
  <2> QED
    BY <2>1 DEF Uids, Unknown
<1>3. l \in View
  <2>1. Uids \subseteq 0..MaxUid
    BY DEF Uids
  <2>2. l \in Seq(0..MaxUid)
    BY <1>1, <2>1, SeqMonotonic
  <2> QED
    BY <1>1, <2>2 DEF View
<1> QED
  BY <1>1, <1>2, <1>3

LEMMA ViewsAre ==
  ASSUME NEW v \in View
  PROVE  /\ v \in Seq(0..MaxUid) /\ Len(v) \in Nat /\ Len(v) <= MaxUid /\ DOMAIN v = 1..Len(v)
         /\ \A i \in 1..Len(v) : v[i] \in 0..MaxUid
BY ListOf DEF View

\* A right FETCH note keeps to what is so.
LEMMA FlagsKeep ==
  ASSUME NEW v \in View, NEW l \in Mails, NEW x \in Note, Knows(v, l),
         x.type = "FETCH", x.n \in DOMAIN l, x.uid = l[x.n]
  PROVE  Credible(v, x) /\ Knows(Hear(v, x), l)
<1>1. /\ DOMAIN v = 1..Len(v) /\ DOMAIN l = 1..Len(l) /\ Len(v) = Len(l)
      /\ \A i \in 1..Len(v) : v[i] \in {Unknown, l[i]}
  BY ViewsAre, MailsAre DEF Knows
<1>2. Credible(v, x)
  BY <1>1 DEF Credible
<1>3. /\ Hear(v, x) \in View /\ Len(Hear(v, x)) = Len(v)
      /\ \A i \in 1..Len(v) : Hear(v, x)[i] = IF i = x.n THEN x.uid ELSE v[i]
  BY Heard
<1>4. DOMAIN Hear(v, x) = 1..Len(v)
  BY <1>3, ViewsAre
<1>5. Knows(Hear(v, x), l)
  BY <1>1, <1>3, <1>4 DEF Knows
<1> QED
  BY <1>2, <1>5

\* ... and could not have changed anything else.
LEMMA FlagsKept ==
  ASSUME NEW v \in View, NEW l \in Mails, NEW x \in Note, Knows(Hear(v, x), l),
         x.type = "FETCH", x.uid # Unknown, Credible(v, x)
  PROVE  Knows(v, l) /\ x.n \in DOMAIN l /\ x.uid = l[x.n]
<1>1. DOMAIN v = 1..Len(v) /\ DOMAIN l = 1..Len(l)
  BY ViewsAre, MailsAre
<1>2. /\ Hear(v, x) \in View /\ Len(Hear(v, x)) = Len(v)
      /\ \A i \in 1..Len(v) : Hear(v, x)[i] = IF i = x.n THEN x.uid ELSE v[i]
  BY Heard
<1>3. DOMAIN Hear(v, x) = 1..Len(v)
  BY <1>2, ViewsAre
<1>4. Len(v) = Len(l) /\ \A i \in 1..Len(v) : Hear(v, x)[i] \in {Unknown, l[i]}
  BY <1>2, <1>3 DEF Knows
<1>5. x.n \in 1..Len(v) /\ v[x.n] \in {Unknown, x.uid}
  BY <1>1 DEF Credible
<1>6. x.uid = l[x.n]
  BY <1>2, <1>4, <1>5
<1>7. \A i \in 1..Len(v) : v[i] \in {Unknown, l[i]}
  <2> SUFFICES ASSUME NEW i \in 1..Len(v) PROVE v[i] \in {Unknown, l[i]}
    OBVIOUS
  <2>1. CASE i = x.n
    BY <1>5, <1>6, <2>1
  <2>2. CASE i # x.n
    BY <1>2, <1>4, <2>2
  <2> QED
    BY <2>1, <2>2
<1> QED
  BY <1>1, <1>4, <1>5, <1>6, <1>7 DEF Knows

\* Right FETCH notes may be heard at any time.
LEMMA NumberedFollows ==
  ASSUME NEW v \in View, NEW l \in Mails, NEW notes \in Seq(Note), Knows(v, l), Numbered(l, notes)
  PROVE  Follows(v, notes, l)
<1>1. Len(notes) \in Nat /\ DOMAIN notes = 1..Len(notes)
  BY ListOf
<1>2. ASSUME NEW k \in 0..Len(notes), k < Len(notes), Knows(By(v, notes, k), l)
      PROVE  Credible(By(v, notes, k), notes[k + 1]) /\ Knows(By(v, notes, k + 1), l)
  <2>1. k + 1 \in DOMAIN notes
    BY <1>1, <1>2
  <2>2. notes[k + 1].type = "FETCH" /\ notes[k + 1].n \in DOMAIN l /\ notes[k + 1].uid = l[notes[k + 1].n]
    BY <2>1 DEF Numbered
  <2>3. /\ notes[k + 1] \in Note /\ By(v, notes, k) \in View
        /\ By(v, notes, k + 1) = Hear(By(v, notes, k), notes[k + 1])
    BY <1>2, ByAndBy
  <2> QED
    BY <1>2, <2>2, <2>3, FlagsKeep
<1> DEFINE S == {k \in 0..Len(notes) : Knows(By(v, notes, k), l)}
<1>3. ASSUME NEW n \in 0..Len(notes) PROVE Knows(By(v, notes, n), l)
  <2> DEFINE T == S \cap 0..n
  <2>1. By(v, notes, 0) = v
    BY ByAndBy
  <2>2. T \subseteq 0..n /\ n \in Nat /\ 0 \in T
    BY <1>1, <2>1
  <2>3. ASSUME NEW k \in T, k < n PROVE k + 1 \in T
    <3>1. k \in 0..Len(notes) /\ k < Len(notes) /\ k + 1 \in 0..n /\ k + 1 \in 0..Len(notes) /\ Knows(By(v, notes, k), l)
      BY <1>1, <2>3
    <3>2. Knows(By(v, notes, k + 1), l)
      BY <1>2, <3>1
    <3> QED
      BY <3>1, <3>2
  <2> HIDE DEF T
  <2>4. n \in T
    BY <2>2, <2>3, Climb
  <2> QED
    BY <2>4 DEF T
<1>4. AllCredible(v, notes)
  <2> SUFFICES ASSUME NEW i \in DOMAIN notes PROVE Credible(By(v, notes, i - 1), notes[i])
    BY DEF AllCredible, By
  <2>1. i - 1 \in 0..Len(notes) /\ i - 1 < Len(notes) /\ i - 1 + 1 = i
    BY <1>1
  <2>2. Knows(By(v, notes, i - 1), l)
    BY <1>3, <2>1
  <2>3. Credible(By(v, notes, i - 1), notes[i - 1 + 1])
    BY <1>2, <2>1, <2>2
  <2> QED
    BY <2>1, <2>3
<1>5. Knows(HearAll(v, notes), l)
  <2>1. Len(notes) \in 0..Len(notes) /\ By(v, notes, Len(notes)) = HearAll(v, notes)
    BY <1>1, ByAndBy
  <2> QED
    BY <1>3, <2>1
<1> QED
  BY <1>4, <1>5 DEF Follows

\* Notes that say FETCH of some message.
Flagging(notes) == \A i \in DOMAIN notes : notes[i].type = "FETCH" /\ notes[i].uid # Unknown

\* A client that knows a list after FETCH notes knew it before, and they are right.
LEMMA FollowsNumbered ==
  ASSUME NEW v \in View, NEW l \in Mails, NEW notes \in Seq(Note), Flagging(notes), Follows(v, notes, l)
  PROVE  Knows(v, l) /\ Numbered(l, notes)
<1>1. Len(notes) \in Nat /\ DOMAIN notes = 1..Len(notes)
  BY ListOf
<1>2. ASSUME NEW k \in 0..Len(notes), k < Len(notes), Knows(By(v, notes, k + 1), l)
      PROVE  /\ Knows(By(v, notes, k), l) /\ notes[k + 1].n \in DOMAIN l
             /\ notes[k + 1].uid = l[notes[k + 1].n]
  <2>1. k + 1 \in DOMAIN notes /\ k + 1 - 1 = k
    BY <1>1, <1>2
  <2>2. notes[k + 1].type = "FETCH" /\ notes[k + 1].uid # Unknown
    BY <2>1 DEF Flagging
  <2>3. Credible(By(v, notes, k + 1 - 1), notes[k + 1])
    BY <2>1 DEF Follows, AllCredible, By
  <2>4. /\ notes[k + 1] \in Note /\ By(v, notes, k) \in View
        /\ By(v, notes, k + 1) = Hear(By(v, notes, k), notes[k + 1])
    BY <1>2, ByAndBy
  <2> QED
    BY <1>2, <2>1, <2>2, <2>3, <2>4, FlagsKept
<1> DEFINE N == Len(notes)
           S == {j \in 0..N : Knows(By(v, notes, N - j), l)}
<1>3. 0 \in S
  <2>1. N - 0 = N /\ By(v, notes, N) = HearAll(v, notes)
    BY <1>1, ByAndBy
  <2> QED
    BY <1>1, <2>1 DEF Follows
<1>4. ASSUME NEW j \in S, j < N PROVE j + 1 \in S
  <2>1. N - (j + 1) \in 0..N /\ N - (j + 1) < N /\ N - (j + 1) + 1 = N - j /\ j + 1 \in 0..N
    BY <1>1, <1>4
  <2>2. Knows(By(v, notes, N - (j + 1) + 1), l)
    BY <2>1
  <2>3. Knows(By(v, notes, N - (j + 1)), l)
    BY <1>2, <2>1, <2>2
  <2> QED
    BY <2>1, <2>3
<1>5. ASSUME NEW n \in 0..N PROVE Knows(By(v, notes, n), l)
  <2> DEFINE T == S \cap 0..(N - n)
  <2>1. T \subseteq 0..(N - n) /\ N - n \in Nat /\ 0 \in T
    BY <1>1, <1>3
  <2>2. ASSUME NEW j \in T, j < N - n PROVE j + 1 \in T
    <3>1. j \in S /\ j < N /\ j + 1 \in 0..(N - n)
      BY <1>1, <2>2
    <3> HIDE DEF S
    <3> QED
      BY <1>4, <3>1
  <2> HIDE DEF T
  <2>3. N - n \in T
    BY <2>1, <2>2, Climb
  <2>4. N - (N - n) = n
    BY <1>1
  <2> QED
    BY <2>3, <2>4 DEF T
<1>6. Knows(v, l)
  <2>1. 0 \in 0..N /\ By(v, notes, 0) = v
    BY <1>1, ByAndBy
  <2> QED
    BY <1>5, <2>1
<1>7. Numbered(l, notes)
  <2> SUFFICES ASSUME NEW i \in DOMAIN notes
               PROVE  notes[i].type = "FETCH" /\ notes[i].n \in DOMAIN l /\ notes[i].uid = l[notes[i].n]
    BY DEF Numbered
  <2>1. i - 1 \in 0..N /\ i - 1 < N /\ i - 1 + 1 = i /\ i \in 0..N
    BY <1>1
  <2>2. Knows(By(v, notes, i - 1 + 1), l)
    BY <1>5, <2>1
  <2>3. notes[i - 1 + 1].n \in DOMAIN l /\ notes[i - 1 + 1].uid = l[notes[i - 1 + 1].n]
    BY <1>2, <2>1, <2>2
  <2> QED
    BY <2>1, <2>3 DEF Flagging
<1> QED
  BY <1>6, <1>7

-----------------------------------------------------------------------------
(* Lists of what is in a set, and lists without some of it *)

\* A finite set in some order.
LEMMA EnumIs ==
  ASSUME NEW S, IsFiniteSet(S)
  PROVE  /\ SetToSeq(S) \in Seq(S) /\ IsInjective(SetToSeq(S))
         /\ \A x \in S : \E i \in DOMAIN SetToSeq(S) : SetToSeq(S)[i] = x
<1> DEFINE N == Cardinality(S)
           T == [1..N -> S]
<1>1. N \in Nat /\ ExistsBijection(1..N, S)
  BY FS_CardinalityType
<1>2. PICK f \in Bijection(1..N, S) : TRUE
  BY <1>1 DEF ExistsBijection
<1>3. f \in T /\ IsInjective(f)
  BY <1>2 DEF Bijection, Injection, IsInjective
<1> DEFINE g == SetToSeq(S)
<1>4. g \in T /\ IsInjective(g)
  BY <1>3 DEF SetToSeq
<1> HIDE DEF g
<1>5. g \in Injection(1..N, S)
  BY <1>4 DEF Injection, IsInjective
<1>6. IsFiniteSet(1..N) /\ Cardinality(1..N) = N
  BY <1>1, FS_Interval
<1>7. g \in Surjection(1..N, S)
  BY <1>5, <1>6, FS_Injection
<1>8. \A x \in S : \E i \in 1..N : g[i] = x
  BY <1>7 DEF Surjection
<1>9. g \in Seq(S) /\ DOMAIN g = 1..N
  BY <1>1, <1>4, SeqDef
<1> QED
  BY <1>4, <1>8, <1>9 DEF g

\* One element more.
LEMMA OneMoreOf ==
  ASSUME NEW S, NEW s \in Seq(S), NEW x \in S
  PROVE  /\ Append(s, x) \in Seq(S) /\ ToSet(Append(s, x)) = ToSet(s) \cup {x}
         /\ IsInjective(s) /\ x \notin ToSet(s) => IsInjective(Append(s, x))
<1> DEFINE t == Append(s, x)
<1>1. /\ t \in Seq(S) /\ Len(t) = Len(s) + 1 /\ Len(s) \in Nat
      /\ \A i \in 1..Len(s) : t[i] = s[i]
      /\ t[Len(s) + 1] = x
      /\ DOMAIN s = 1..Len(s)
  BY ListOf, AppendProperties
<1> HIDE DEF t
<1>2. DOMAIN t = 1..(Len(s) + 1)
  BY <1>1, ListOf
<1>3. \A i \in DOMAIN t : i \in DOMAIN s \/ i = Len(s) + 1
  BY <1>1, <1>2
<1>4. Len(s) + 1 \in DOMAIN t /\ \A i \in DOMAIN s : i \in DOMAIN t
  BY <1>1, <1>2
<1>5. ToSet(t) = ToSet(s) \cup {x}
  BY <1>1, <1>3, <1>4 DEF ToSet
<1>6. ASSUME IsInjective(s), x \notin ToSet(s) PROVE IsInjective(t)
  <2> SUFFICES ASSUME NEW i \in DOMAIN t, NEW j \in DOMAIN t, t[i] = t[j] PROVE i = j
    BY DEF IsInjective
  <2>1. \A k \in DOMAIN s : t[k] = s[k] /\ s[k] # x
    BY <1>1, <1>6 DEF ToSet
  <2> QED
    BY <1>1, <1>3, <1>6, <2>1 DEF IsInjective
<1> QED
  BY <1>1, <1>5, <1>6 DEF t

\* kept tells what is left of s without D, element by element.
Keeping(kept, s, D) ==
  kept = [i \in 0..Len(s) |-> IF i = 0 THEN << >>
                              ELSE IF s[i] \in D THEN kept[i - 1] ELSE Append(kept[i - 1], s[i])]

LEMMA KeepingExists ==
  ASSUME NEW S, NEW s \in Seq(S), NEW D
  PROVE  \E h : Keeping(h, s, D)
<1>1. Len(s) \in Nat
  BY ListOf
<1> DEFINE step(h, i) == IF i = 0 THEN << >>
                         ELSE IF s[i] \in D THEN h[i - 1] ELSE Append(h[i - 1], s[i])
           begun(h, n) == /\ DOMAIN h = 0..n /\ h = [i \in DOMAIN h |-> h[i]]
                          /\ \A i \in 0..n : h[i] = step(h, i)
           T == {n \in 0..Len(s) : \E h : begun(h, n)}
<1>2. 0 \in T
  <2> DEFINE h == [i \in 0..0 |-> << >>]
  <2>1. begun(h, 0)
    OBVIOUS
  <2> HIDE DEF h
  <2>2. \E g : begun(g, 0)
    BY <2>1
  <2> QED
    BY <1>1, <2>2
<1>3. ASSUME NEW n \in T, n < Len(s) PROVE n + 1 \in T
  <2>1. n \in Nat /\ n + 1 \in 0..Len(s)
    BY <1>1, <1>3
  <2>2. PICK h : begun(h, n)
    BY <1>3
  <2> DEFINE more == IF s[n + 1] \in D THEN h[n] ELSE Append(h[n], s[n + 1])
             g == [i \in 0..(n + 1) |-> IF i = n + 1 THEN more ELSE h[i]]
  <2>3. DOMAIN g = 0..(n + 1) /\ g = [i \in DOMAIN g |-> g[i]]
    OBVIOUS
  <2>4. g[n + 1] = more /\ \A i \in 0..n : g[i] = h[i]
    BY <2>1
  <2> HIDE DEF g
  <2>5. ASSUME NEW i \in 0..(n + 1) PROVE g[i] = step(g, i)
    <3>1. CASE i = n + 1
      <4>1. i # 0 /\ i - 1 = n /\ n \in 0..n
        BY <2>1, <3>1
      <4> QED
        BY <2>4, <3>1, <4>1
    <3>2. CASE i \in 0..n
      <4>1. h[i] = step(h, i)
        BY <2>2, <3>2
      <4>2. i # 0 => i - 1 \in 0..n
        BY <2>1, <3>2
      <4> QED
        BY <2>4, <3>2, <4>1, <4>2
    <3> QED
      BY <2>1, <3>1, <3>2
  <2>6. begun(g, n + 1)
    BY <2>3, <2>5
  <2> QED
    BY <2>1, <2>6
<1>4. Len(s) \in T
  <2>1. T \subseteq 0..Len(s)
    OBVIOUS
  <2> HIDE DEF T
  <2> QED
    BY <1>1, <1>2, <1>3, <2>1, Climb
<1>5. PICK h : begun(h, Len(s))
  BY <1>4
<1>6. h = [i \in 0..Len(s) |-> h[i]] /\ \A i \in 0..Len(s) : h[i] = step(h, i)
  BY <1>5
<1> HIDE DEF step
<1>7. h = [i \in 0..Len(s) |-> step(h, i)]
  BY <1>6
<1>8. Keeping(h, s, D)
  BY <1>7 DEF Keeping, step
<1> QED
  BY <1>8

\* What is left is the rest, in order.
LEMMA OutsideIs ==
  ASSUME NEW S, NEW s \in Seq(S), NEW D
  PROVE  /\ Outside(s, D) \in Seq(S) /\ ToSet(Outside(s, D)) = ToSet(s) \ D
         /\ IsInjective(s) => IsInjective(Outside(s, D))
<1> DEFINE h == CHOOSE f : Keeping(f, s, D)
<1>1. Outside(s, D) = h[Len(s)]
  BY DEF Outside, Keeping
<1>2. Keeping(h, s, D)
  BY KeepingExists
<1>3. Len(s) \in Nat /\ DOMAIN s = 1..Len(s) /\ \A i \in 1..Len(s) : s[i] \in S
  BY ListOf
<1> HIDE DEF h
<1> DEFINE step(i) == IF i = 0 THEN << >>
                      ELSE IF s[i] \in D THEN h[i - 1] ELSE Append(h[i - 1], s[i])
<1>4. \A i \in 0..Len(s) : h[i] = step(i)
  <2>1. h = [i \in 0..Len(s) |-> step(i)]
    BY <1>2 DEF Keeping
  <2> HIDE DEF step
  <2> QED
    BY <2>1
<1> DEFINE Had(n) == {s[j] : j \in 1..n}
           Good(n) == /\ h[n] \in Seq(S) /\ ToSet(h[n]) = Had(n) \ D
                      /\ IsInjective(s) => IsInjective(h[n])
           T == {n \in 0..Len(s) : Good(n)}
<1>5. 0 \in T
  <2>1. h[0] = << >> /\ 0 \in 0..Len(s)
    BY <1>3, <1>4
  <2>2. << >> \in Seq(S) /\ DOMAIN << >> = {}
    BY EmptyList
  <2>3. ToSet(<< >>) = {} /\ IsInjective(<< >>)
    BY <2>2 DEF ToSet, IsInjective
  <2>4. Had(0) = {}
    OBVIOUS
  <2> QED
    BY <2>1, <2>2, <2>3, <2>4
<1>6. ASSUME NEW n \in T, n < Len(s) PROVE n + 1 \in T
  <2>1. n \in Nat /\ n + 1 \in 0..Len(s) /\ n + 1 # 0 /\ n + 1 - 1 = n /\ n + 1 \in 1..Len(s) /\ Good(n)
    BY <1>3, <1>6
  <2>2. h[n + 1] = IF s[n + 1] \in D THEN h[n] ELSE Append(h[n], s[n + 1])
    BY <1>4, <2>1
  <2>3. Had(n + 1) = Had(n) \cup {s[n + 1]}
    <3>1. \A j \in 1..(n + 1) : j \in 1..n \/ j = n + 1
      BY <2>1
    <3>2. n + 1 \in 1..(n + 1) /\ \A j \in 1..n : j \in 1..(n + 1)
      BY <2>1
    <3> QED
      BY <3>1, <3>2
  <2>4. s[n + 1] \in S
    BY <1>3, <2>1
  <2>5. CASE s[n + 1] \in D
    <3>1. Had(n + 1) \ D = Had(n) \ D
      BY <2>3, <2>5
    <3> QED
      BY <2>1, <2>2, <2>5, <3>1
  <2>6. CASE s[n + 1] \notin D
    <3>1. Had(n + 1) \ D = (Had(n) \ D) \cup {s[n + 1]}
      BY <2>3, <2>6
    <3>2. IsInjective(s) => s[n + 1] \notin ToSet(h[n])
      <4>0. SUFFICES ASSUME IsInjective(s), s[n + 1] \in Had(n) PROVE FALSE
        BY <2>1
      <4>1. PICK j \in 1..n : s[j] = s[n + 1]
        BY <4>0
      <4>2. j \in DOMAIN s /\ n + 1 \in DOMAIN s /\ j # n + 1
        BY <1>3, <2>1
      <4> QED
        BY <4>0, <4>1, <4>2 DEF IsInjective
    <3> HIDE DEF Had
    <3>3. /\ Append(h[n], s[n + 1]) \in Seq(S)
          /\ ToSet(Append(h[n], s[n + 1])) = ToSet(h[n]) \cup {s[n + 1]}
          /\ IsInjective(h[n]) /\ s[n + 1] \notin ToSet(h[n]) => IsInjective(Append(h[n], s[n + 1]))
      BY <2>1, <2>4, OneMoreOf
    <3>4. Good(n + 1)
      BY <2>1, <2>2, <2>6, <3>1, <3>2, <3>3
    <3> QED
      BY <2>1, <3>4
  <2> QED
    BY <2>5, <2>6
<1>7. Len(s) \in T
  <2>1. T \subseteq 0..Len(s)
    OBVIOUS
  <2> HIDE DEF T
  <2> QED
    BY <1>3, <1>5, <1>6, <2>1, Climb
<1>8. ToSet(s) = Had(Len(s))
  BY <1>3 DEF ToSet
<1> QED
  BY <1>1, <1>7, <1>8

\* flat tells what becomes of some lists in a row, list by list.
Flattening(flat, seqs) ==
  flat = [i \in 1..Len(seqs) |-> IF i = 1 THEN seqs[i] ELSE flat[i - 1] \o seqs[i]]

LEMMA FlatteningExists ==
  ASSUME NEW S, NEW seqs \in Seq(S), Len(seqs) # 0
  PROVE  \E h : Flattening(h, seqs)
<1>1. Len(seqs) \in Nat
  BY ListOf
<1> DEFINE step(h, i) == IF i = 1 THEN seqs[i] ELSE h[i - 1] \o seqs[i]
           begun(h, n) == /\ DOMAIN h = 1..(n + 1) /\ h = [i \in DOMAIN h |-> h[i]]
                          /\ \A i \in 1..(n + 1) : h[i] = step(h, i)
           N == Len(seqs) - 1
           T == {n \in 0..N : \E h : begun(h, n)}
<1>2. N \in Nat /\ N + 1 = Len(seqs)
  BY <1>1
<1>3. 0 \in T
  <2> DEFINE h == [i \in 1..(0 + 1) |-> seqs[i]]
  <2>1. begun(h, 0)
    OBVIOUS
  <2> HIDE DEF h
  <2>2. \E g : begun(g, 0)
    BY <2>1
  <2> QED
    BY <1>2, <2>2
<1>4. ASSUME NEW n \in T, n < N PROVE n + 1 \in T
  <2>1. n \in Nat /\ n + 1 \in 0..N
    BY <1>2, <1>4
  <2>2. PICK h : begun(h, n)
    BY <1>4
  <2> DEFINE more == h[n + 1] \o seqs[n + 2]
             g == [i \in 1..(n + 1 + 1) |-> IF i = n + 2 THEN more ELSE h[i]]
  <2>3. DOMAIN g = 1..(n + 1 + 1) /\ g = [i \in DOMAIN g |-> g[i]]
    OBVIOUS
  <2>4. g[n + 2] = more /\ \A i \in 1..(n + 1) : g[i] = h[i]
    <3>1. n + 2 \in 1..(n + 1 + 1) /\ \A i \in 1..(n + 1) : i \in 1..(n + 1 + 1) /\ i # n + 2
      BY <2>1
    <3> HIDE DEF more
    <3> QED
      BY <3>1
  <2> HIDE DEF g
  <2>5. ASSUME NEW i \in 1..(n + 1 + 1) PROVE g[i] = step(g, i)
    <3>1. CASE i = n + 2
      <4>1. i # 1 /\ i - 1 = n + 1 /\ n + 1 \in 1..(n + 1)
        BY <2>1, <3>1
      <4> QED
        BY <2>4, <3>1, <4>1
    <3>2. CASE i \in 1..(n + 1)
      <4>1. h[i] = step(h, i)
        BY <2>2, <3>2
      <4>2. i # 1 => i - 1 \in 1..(n + 1)
        BY <2>1, <3>2
      <4> QED
        BY <2>4, <3>2, <4>1, <4>2
    <3> QED
      BY <2>1, <3>1, <3>2
  <2>6. begun(g, n + 1)
    BY <2>3, <2>5
  <2> QED
    BY <2>1, <2>6
<1>5. N \in T
  <2>1. T \subseteq 0..N
    OBVIOUS
  <2> HIDE DEF T
  <2> QED
    BY <1>2, <1>3, <1>4, <2>1, Climb
<1>6. PICK h : begun(h, N)
  BY <1>5
<1>7. h = [i \in 1..Len(seqs) |-> h[i]] /\ \A i \in 1..Len(seqs) : h[i] = step(h, i)
  BY <1>2, <1>6
<1> HIDE DEF step
<1>8. h = [i \in 1..Len(seqs) |-> step(h, i)]
  BY <1>7
<1>9. Flattening(h, seqs)
  BY <1>8 DEF Flattening, step
<1> QED
  BY <1>9

\* Some lists in a row: their elements are theirs, and if all but one are
\* empty that one is the whole.
LEMMA FlattenIs ==
  ASSUME NEW S, NEW seqs \in Seq(Seq(S))
  PROVE  /\ FlattenSeq(seqs) \in Seq(S)
         /\ \A i \in DOMAIN FlattenSeq(seqs) : \E k \in DOMAIN seqs :
              \E j \in DOMAIN seqs[k] : FlattenSeq(seqs)[i] = seqs[k][j]
         /\ \A k \in DOMAIN seqs : (\A l \in DOMAIN seqs : l # k => seqs[l] = << >>)
                                     => FlattenSeq(seqs) = seqs[k]
<1>1. Len(seqs) \in Nat /\ DOMAIN seqs = 1..Len(seqs) /\ \A i \in 1..Len(seqs) : seqs[i] \in Seq(S)
  BY ListOf
<1>2. CASE Len(seqs) = 0
  <2>1. FlattenSeq(seqs) = seqs /\ seqs = << >>
    BY <1>2, EmptyList DEF FlattenSeq
  <2>2. << >> \in Seq(S) /\ DOMAIN << >> = {}
    BY EmptyList
  <2> QED
    BY <2>1, <2>2
<1>3. CASE Len(seqs) # 0
  <2> DEFINE h == CHOOSE f : Flattening(f, seqs)
  <2>1. FlattenSeq(seqs) = h[Len(seqs)]
    BY <1>3 DEF FlattenSeq, Flattening
  <2>2. Flattening(h, seqs)
    BY <1>3, FlatteningExists
  <2> HIDE DEF h
  <2> DEFINE step(i) == IF i = 1 THEN seqs[i] ELSE h[i - 1] \o seqs[i]
  <2>3. \A i \in 1..Len(seqs) : h[i] = step(i)
    <3>1. h = [i \in 1..Len(seqs) |-> step(i)]
      BY <2>2 DEF Flattening
    <3> HIDE DEF step
    <3> QED
      BY <3>1
  <2> DEFINE Theirs(n) == \A i \in DOMAIN h[n] : \E k \in 1..n : \E j \in DOMAIN seqs[k] : h[n][i] = seqs[k][j]
             Alone(n) == /\ (\A l \in 1..n : seqs[l] = << >>) => h[n] = << >>
                         /\ \A k \in 1..n : (\A l \in 1..n : l # k => seqs[l] = << >>) => h[n] = seqs[k]
             Fine(n) == h[n] \in Seq(S) /\ Theirs(n) /\ Alone(n)
             N == Len(seqs) - 1
             T == {n \in 0..N : Fine(n + 1)}
  <2>4. N \in Nat /\ N + 1 = Len(seqs)
    BY <1>1, <1>3
  <2>5. Fine(1)
    <3>1. h[1] = seqs[1] /\ 1 \in 1..Len(seqs)
      BY <2>3, <2>4
    <3> QED
      BY <1>1, <3>1
  <2>6. ASSUME NEW n, n \in Nat, n \in 1..N, Fine(n) PROVE Fine(n + 1)
    <3> DEFINE s == h[n]
               t == seqs[n + 1]
    <3>1. /\ n + 1 \in 1..Len(seqs) /\ n + 1 # 1 /\ n + 1 - 1 = n
          /\ s \in Seq(S) /\ t \in Seq(S) /\ h[n + 1] = s \o t
      <4>1. n + 1 \in 1..Len(seqs) /\ n + 1 # 1 /\ n + 1 - 1 = n
        BY <2>4, <2>6
      <4>2. h[n + 1] = h[n] \o seqs[n + 1]
        <5>1. h[n + 1] = h[(n + 1) - 1] \o seqs[n + 1]
          BY <2>3, <4>1
        <5>2. (n + 1) - 1 = n
          BY <2>6
        <5> QED
          BY <5>1, <5>2
      <4> QED
        BY <1>1, <2>6, <4>1, <4>2
    <3>2. Theirs(n) /\ Alone(n)
      BY <2>6
    <3>3. \A l \in 1..(n + 1) : l \in 1..n \/ l = n + 1
      BY <2>6
    <3>4. n + 1 \in 1..(n + 1) /\ \A l \in 1..n : l \in 1..(n + 1) /\ l # n + 1
      BY <2>6
    <3>5. Theirs(n + 1)
      <4> SUFFICES ASSUME NEW i \in DOMAIN h[n + 1]
                   PROVE  \E k \in 1..(n + 1) : \E j \in DOMAIN seqs[k] : h[n + 1][i] = seqs[k][j]
        OBVIOUS
      <4> HIDE DEF s, t, Theirs, Alone
      <4>1. /\ s \o t \in Seq(S) /\ Len(s \o t) = Len(s) + Len(t)
            /\ \A m \in 1..(Len(s) + Len(t)) : (s \o t)[m] = IF m <= Len(s) THEN s[m] ELSE t[m - Len(s)]
        BY <3>1, ConcatProperties
      <4>2. /\ Len(s) \in Nat /\ Len(t) \in Nat /\ DOMAIN s = 1..Len(s) /\ DOMAIN t = 1..Len(t)
            /\ DOMAIN (s \o t) = 1..(Len(s) + Len(t))
        BY <3>1, <4>1, ListOf
      <4>3. i \in 1..(Len(s) + Len(t))
        BY <3>1, <4>2
      <4>4. CASE i <= Len(s)
        <5>1. i \in DOMAIN s /\ h[n + 1][i] = s[i]
          BY <3>1, <4>1, <4>2, <4>3, <4>4
        <5>2. PICK k \in 1..n : \E j \in DOMAIN seqs[k] : s[i] = seqs[k][j]
          BY <3>2, <5>1 DEF Theirs, s
        <5> QED
          BY <3>4, <5>1, <5>2
      <4>5. CASE ~ i <= Len(s)
        <5>1. i - Len(s) \in DOMAIN t /\ h[n + 1][i] = t[i - Len(s)]
          BY <3>1, <4>1, <4>2, <4>3, <4>5
        <5> QED
          BY <3>4, <5>1 DEF t
      <4> QED
        BY <4>4, <4>5
    <3>6. Alone(n + 1)
      <4> HIDE DEF s, t
      <4>1. s \o << >> = s /\ << >> \o t = t
        BY <3>1, ConcatEmptySeq
      <4>2. ASSUME \A l \in 1..(n + 1) : seqs[l] = << >> PROVE h[n + 1] = << >>
        <5>1. t = << >>
          BY <3>4, <4>2 DEF t
        <5>2. s = << >>
          BY <3>2, <3>4, <4>2 DEF s
        <5> QED
          BY <3>1, <4>1, <5>1, <5>2
      <4>3. ASSUME NEW k \in 1..(n + 1), \A l \in 1..(n + 1) : l # k => seqs[l] = << >>
            PROVE  h[n + 1] = seqs[k]
        <5>1. CASE k = n + 1
          <6>1. s = << >>
            BY <3>2, <3>4, <4>3, <5>1 DEF s
          <6> QED
            BY <3>1, <4>1, <5>1, <6>1 DEF t
        <5>2. CASE k \in 1..n
          <6>1. t = << >> /\ s = seqs[k]
            BY <3>2, <3>4, <4>3, <5>2 DEF s, t
          <6> QED
            BY <3>1, <4>1, <6>1
        <5> QED
          BY <3>3, <5>1, <5>2
      <4> QED
        BY <4>2, <4>3
    <3>7. h[n + 1] \in Seq(S)
      <4> HIDE DEF s, t
      <4> QED
        BY <3>1, ConcatProperties
    <3> QED
      BY <3>5, <3>6, <3>7
  <2> HIDE DEF Fine
  <2>7. ASSUME NEW n \in T, n < N PROVE n + 1 \in T
    <3>1. n + 1 \in Nat /\ n + 1 \in 1..N /\ n + 1 \in 0..N /\ Fine(n + 1)
      BY <2>4, <2>7
    <3>2. Fine(n + 1 + 1)
      BY <2>6, <3>1
    <3> QED
      BY <3>1, <3>2
  <2>8. 0 \in T
    BY <2>4, <2>5
  <2>9. N \in T
    <3>1. T \subseteq 0..N
      OBVIOUS
    <3> HIDE DEF T
    <3> QED
      BY <2>4, <2>7, <2>8, <3>1, Climb
  <2>10. Fine(Len(seqs))
    BY <2>4, <2>9
  <2> DEFINE r == h[Len(seqs)]
  <2>11. r \in Seq(S) /\ Theirs(Len(seqs)) /\ Alone(Len(seqs)) /\ FlattenSeq(seqs) = r
    BY <2>1, <2>10 DEF Fine
  <2> HIDE DEF r
  <2>12. /\ \A i \in DOMAIN r : \E k \in DOMAIN seqs : \E j \in DOMAIN seqs[k] : r[i] = seqs[k][j]
         /\ \A k \in DOMAIN seqs : (\A l \in DOMAIN seqs : l # k => seqs[l] = << >>) => r = seqs[k]
    BY <1>1, <2>11 DEF r
  <2> QED
    BY <2>11, <2>12
<1> QED
  BY <1>2, <1>3

\* A list with one element more at some position, and its undoing.
LEMMA InsertedAt ==
  ASSUME NEW S, NEW s \in Seq(S), NEW p \in 1..(Len(s) + 1), NEW x \in S
  PROVE  /\ InsertAt(s, p, x) \in Seq(S) /\ Len(InsertAt(s, p, x)) = Len(s) + 1
         /\ \A i \in 1..(Len(s) + 1) :
              InsertAt(s, p, x)[i] = IF i < p THEN s[i] ELSE IF i = p THEN x ELSE s[i - 1]
         /\ RemoveAt(InsertAt(s, p, x), p) = s
<1> DEFINE left  == SubSeq(s, 1, p - 1)
           right == SubSeq(s, p, Len(s))
           t == InsertAt(s, p, x)
<1>1. Len(s) \in Nat /\ p \in Int /\ p >= 1 /\ \A i \in 1..Len(s) : s[i] \in S
  BY ListOf
<1>2. /\ left \in Seq(S) /\ Len(left) = p - 1
      /\ \A i \in 1..(p - 1) : left[i] = s[i]
  <2>1. p - 1 \in 0..Len(s)
    BY <1>1
  <2> QED
    BY <2>1, FirstOf
<1>3. /\ right \in Seq(S) /\ Len(right) = Len(s) - p + 1
      /\ \A i \in 1..(Len(s) - p + 1) : right[i] = s[p + i - 1]
  <2>1. \A i \in p..Len(s) : s[i] \in S
    BY <1>1
  <2>2. /\ right \in Seq(S)
        /\ Len(right) = IF p <= Len(s) THEN Len(s) - p + 1 ELSE 0
        /\ \A i \in 1..(Len(s) - p + 1) : right[i] = s[p + i - 1]
    BY <1>1, <2>1, SubSeqProperties
  <2> QED
    BY <1>1, <2>2
<1>4. t = (left \o << x >>) \o right
  BY DEF InsertAt
<1> HIDE DEF left, right
<1>5. /\ left \o << x >> \in Seq(S) /\ Len(left \o << x >>) = p
      /\ \A i \in 1..p : (left \o << x >>)[i] = IF i < p THEN s[i] ELSE x
  <2>1. << x >> \in Seq(S) /\ Len(<< x >>) = 1 /\ << x >>[1] = x
    OBVIOUS
  <2>2. /\ left \o << x >> \in Seq(S) /\ Len(left \o << x >>) = Len(left) + 1
        /\ \A i \in 1..(Len(left) + 1) :
             (left \o << x >>)[i] = IF i <= Len(left) THEN left[i] ELSE << x >>[i - Len(left)]
    BY <1>2, <2>1, ConcatProperties
  <2>3. ASSUME NEW i \in 1..p PROVE (left \o << x >>)[i] = IF i < p THEN s[i] ELSE x
    <3>1. CASE i < p
      BY <1>1, <1>2, <2>2, <3>1
    <3>2. CASE i = p
      <4>1. i - Len(left) = 1 /\ ~ (i <= Len(left)) /\ i \in 1..(Len(left) + 1)
        BY <1>1, <1>2, <3>2
      <4> QED
        BY <1>1, <2>1, <2>2, <3>2, <4>1
    <3>3. i < p \/ i = p
      BY <1>1
    <3> QED
      BY <3>1, <3>2, <3>3
  <2> QED
    BY <1>1, <1>2, <2>2, <2>3
<1>6. /\ t \in Seq(S) /\ Len(t) = Len(s) + 1
      /\ \A i \in 1..(Len(s) + 1) : t[i] = IF i <= p THEN (left \o << x >>)[i] ELSE right[i - p]
  <2> DEFINE two == left \o << x >>
  <2>1. two \in Seq(S) /\ Len(two) = p
    BY <1>5
  <2> HIDE DEF two
  <2>2. /\ two \o right \in Seq(S) /\ Len(two \o right) = p + (Len(s) - p + 1)
        /\ \A i \in 1..(p + (Len(s) - p + 1)) : (two \o right)[i] = IF i <= p THEN two[i] ELSE right[i - p]
    BY <1>3, <2>1, ConcatProperties
  <2>3. t = two \o right
    BY <1>4 DEF two
  <2>4. p + (Len(s) - p + 1) = Len(s) + 1
    BY <1>1
  <2> HIDE DEF t
  <2>5. \A i \in 1..(Len(s) + 1) : t[i] = IF i <= p THEN two[i] ELSE right[i - p]
    BY <2>2, <2>3, <2>4
  <2> QED
    BY <2>2, <2>3, <2>4, <2>5 DEF two
<1> HIDE DEF t
<1>7. ASSUME NEW i \in 1..(Len(s) + 1)
      PROVE  t[i] = IF i < p THEN s[i] ELSE IF i = p THEN x ELSE s[i - 1]
  <2>1. CASE i <= p
    <3>1. i \in 1..p
      BY <1>1, <2>1
    <3>2. (left \o << x >>)[i] = IF i < p THEN s[i] ELSE x
      BY <1>5, <3>1
    <3>3. t[i] = (left \o << x >>)[i]
      BY <1>6, <2>1
    <3>4. i < p \/ i = p
      BY <1>1, <3>1
    <3> QED
      BY <3>2, <3>3, <3>4
  <2>2. CASE ~ i <= p
    <3>1. i - p \in 1..(Len(s) - p + 1) /\ p + (i - p) - 1 = i - 1
      BY <1>1, <2>2
    <3>2. right[i - p] = s[i - 1]
      BY <1>3, <3>1
    <3> QED
      BY <1>1, <1>6, <2>2, <3>2
  <2> QED
    BY <2>1, <2>2
<1>8. RemoveAt(t, p) = s
  <2>1. p \in 1..Len(t)
    BY <1>1, <1>6
  <2>2. /\ RemoveAt(t, p) \in Seq(S) /\ Len(RemoveAt(t, p)) = Len(t) - 1
        /\ \A i \in 1..(Len(t) - 1) : RemoveAt(t, p)[i] = IF i < p THEN t[i] ELSE t[i + 1]
    BY <1>6, <2>1, RemovedAt
  <2>3. Len(t) - 1 = Len(s)
    BY <1>1, <1>6
  <2>4. ASSUME NEW i \in 1..Len(s) PROVE RemoveAt(t, p)[i] = s[i]
    <3>1. i \in 1..(Len(s) + 1) /\ i + 1 \in 1..(Len(s) + 1) /\ i + 1 - 1 = i /\ (~ i < p => ~ (i + 1 < p) /\ i + 1 # p)
      BY <1>1
    <3>2. i \in 1..(Len(t) - 1)
      BY <2>3
    <3>3. RemoveAt(t, p)[i] = IF i < p THEN t[i] ELSE t[i + 1]
      BY <2>2, <3>2
    <3> QED
      BY <1>7, <3>1, <3>3
  <2> QED
    BY <2>2, <2>3, <2>4, SeqEqual
<1> QED
  BY <1>6, <1>7, <1>8 DEF t

\* What was removed is put back.
LEMMA PutBack ==
  ASSUME NEW S, NEW s \in Seq(S), NEW p \in 1..Len(s)
  PROVE  InsertAt(RemoveAt(s, p), p, s[p]) = s
<1> DEFINE r == RemoveAt(s, p)
           x == s[p]
<1>1. Len(s) \in Nat /\ p \in Int /\ x \in S
  BY ListOf
<1>2. /\ r \in Seq(S) /\ Len(r) = Len(s) - 1
      /\ \A i \in 1..(Len(s) - 1) : r[i] = IF i < p THEN s[i] ELSE s[i + 1]
  BY RemovedAt
<1> HIDE DEF r
<1>3. p \in 1..(Len(r) + 1) /\ Len(r) + 1 = Len(s)
  BY <1>1, <1>2
<1> HIDE DEF x
<1>4. /\ InsertAt(r, p, x) \in Seq(S) /\ Len(InsertAt(r, p, x)) = Len(r) + 1
      /\ \A i \in 1..(Len(r) + 1) :
           InsertAt(r, p, x)[i] = IF i < p THEN r[i] ELSE IF i = p THEN x ELSE r[i - 1]
  BY <1>1, <1>2, <1>3, InsertedAt
<1>5. ASSUME NEW i \in 1..Len(s) PROVE InsertAt(r, p, x)[i] = s[i]
  <2>1. InsertAt(r, p, x)[i] = IF i < p THEN r[i] ELSE IF i = p THEN x ELSE r[i - 1]
    BY <1>3, <1>4
  <2>2. CASE i < p
    BY <1>1, <1>2, <2>1, <2>2
  <2>3. CASE i = p
    BY <2>1, <2>3 DEF x
  <2>4. CASE i > p
    <3>1. i - 1 \in 1..(Len(s) - 1) /\ ~ (i - 1 < p) /\ i - 1 + 1 = i
      BY <1>1, <2>4
    <3>2. r[i - 1] = s[i]
      BY <1>2, <3>1
    <3> QED
      BY <1>1, <2>1, <2>4, <3>2
  <2> QED
    BY <1>1, <2>2, <2>3, <2>4
<1>6. InsertAt(r, p, x) = s
  BY <1>3, <1>4, <1>5, SeqEqual
<1> QED
  BY <1>6 DEF r, x

-----------------------------------------------------------------------------
(* What is brought to a client *)

\* One note, or none.
LEMMA OneNote ==
  ASSUME NEW v \in View
  PROVE  /\ HearAll(v, << >>) = v /\ AllCredible(v, << >>)
         /\ \A x \in Note : /\ << x >> \in Seq(Note) /\ HearAll(v, << x >>) = Hear(v, x)
                            /\ AllCredible(v, << x >>) <=> Credible(v, x)
<1>1. << >> \in Seq(Note) /\ DOMAIN << >> = {}
  BY EmptyList
<1>2. HearAll(v, << >>) = v /\ AllCredible(v, << >>)
  BY <1>1, HearAllSteps DEF AllCredible
<1>3. ASSUME NEW x \in Note
      PROVE  /\ << x >> \in Seq(Note) /\ HearAll(v, << x >>) = Hear(v, x)
             /\ AllCredible(v, << x >>) <=> Credible(v, x)
  <2>1. << x >> \in Seq(Note) /\ Len(<< x >>) = 1 /\ << x >>[1] = x /\ Append(<< >>, x) = << x >>
    OBVIOUS
  <2>2. HearAll(v, Append(<< >>, x)) = Hear(HearAll(v, << >>), x)
    BY <1>1, HearAllSteps
  <2> DEFINE s == << x >>
  <2>3. s \in Seq(Note) /\ s[1] = x /\ DOMAIN s = 1..1
    BY <2>1, ListOf
  <2> HIDE DEF s
  <2>4. By(v, s, 0) = v
    BY <2>3, ByAndBy
  <2>5. AllCredible(v, s) <=> Credible(By(v, s, 1 - 1), s[1])
    BY <2>3 DEF AllCredible, By
  <2>6. AllCredible(v, s) <=> Credible(v, x)
    BY <2>3, <2>4, <2>5
  <2> QED
    BY <1>2, <2>1, <2>2, <2>6 DEF s
<1> QED
  BY <1>2, <1>3

\* EXISTS brings those who know the list so far up to date.
LEMMA MailHeard ==
  ASSUME NEW v \in View, NEW l \in Mails, NEW k \in 0..Len(l), Knows(v, SubSeq(l, 1, k))
  PROVE  /\ Exists(Len(l)) \in Note /\ Credible(v, Exists(Len(l)))
         /\ Knows(Hear(v, Exists(Len(l))), l)
<1> DEFINE x == Exists(Len(l))
           s == SubSeq(l, 1, k)
<1>1. /\ l \in Seq(Uids) /\ Len(l) \in Nat /\ Len(l) <= MaxUid /\ DOMAIN l = 1..Len(l)
      /\ k \in Nat /\ k <= Len(l)
  BY MailsAre
<1>2. s \in Seq(Uids) /\ Len(s) = k /\ \A i \in 1..k : s[i] = l[i]
  BY <1>1, FirstOf
<1>3. x \in Note /\ x.type = "EXISTS" /\ x.n = Len(l)
  BY <1>1, SessionAssumption DEF Exists, Note, Unknown
<1> HIDE DEF x, s
<1>4. Len(v) = k /\ DOMAIN v = 1..k /\ \A i \in 1..k : v[i] \in {Unknown, l[i]}
  BY <1>2, ViewsAre DEF Knows, s
<1>5. Credible(v, x)
  BY <1>1, <1>3, <1>4 DEF Credible
<1> DEFINE h == Hear(v, x)
<1>6. /\ h \in View
      /\ Len(h) = IF x.n > Len(v) THEN x.n ELSE Len(v)
      /\ \A i \in 1..Len(h) : h[i] = IF i <= Len(v) THEN v[i] ELSE Unknown
  BY <1>3, Heard
<1> HIDE DEF h
<1>7. Len(h) = Len(l) /\ DOMAIN h = 1..Len(l)
  <2>1. Len(h) = Len(l)
    <3>1. Len(h) = IF Len(l) > k THEN Len(l) ELSE k
      BY <1>3, <1>4, <1>6
    <3>2. CASE Len(l) > k
      BY <3>1, <3>2
    <3>3. CASE Len(l) = k
      BY <3>1, <3>3
    <3>4. Len(l) > k \/ Len(l) = k
      <4>1. Len(l) \in Nat /\ k \in Nat /\ k <= Len(l)
        BY <1>1
      <4> QED
        BY <4>1
    <3> QED
      BY <3>2, <3>3, <3>4
  <2> QED
    BY <1>6, <2>1, ViewsAre
<1>8. ASSUME NEW i \in 1..Len(l) PROVE h[i] \in {Unknown, l[i]}
  <2>1. h[i] = IF i <= Len(v) THEN v[i] ELSE Unknown
    BY <1>6, <1>7
  <2>2. i <= Len(v) => i \in 1..k
    BY <1>1, <1>4
  <2> QED
    BY <1>4, <2>1, <2>2
<1>9. Knows(h, l)
  BY <1>7, <1>8 DEF Knows
<1> QED
  BY <1>3, <1>5, <1>9 DEF x, h

\* EXPUNGE brings those who know the list up to date with what is left of it.
LEMMA RemovalHeard ==
  ASSUME NEW v \in View, NEW l \in Mails, NEW n \in 1..(Len(l) + 1), NEW u \in Uids,
         Knows(v, InsertAt(l, n, u))
  PROVE  /\ Expunged(n, u) \in Note /\ Credible(v, Expunged(n, u))
         /\ Knows(Hear(v, Expunged(n, u)), l)
<1> DEFINE x == Expunged(n, u)
           s == InsertAt(l, n, u)
<1>1. l \in Seq(Uids) /\ Len(l) \in Nat /\ Len(l) <= MaxUid /\ DOMAIN l = 1..Len(l) /\ n \in Nat
  BY MailsAre
<1>2. /\ s \in Seq(Uids) /\ Len(s) = Len(l) + 1
      /\ \A i \in 1..(Len(l) + 1) : s[i] = IF i < n THEN l[i] ELSE IF i = n THEN u ELSE l[i - 1]
  BY <1>1, InsertedAt
<1> HIDE DEF s
<1>3. /\ Len(v) = Len(l) + 1 /\ DOMAIN v = 1..(Len(l) + 1) /\ Len(v) <= MaxUid
      /\ v \in Seq(0..MaxUid) /\ \A i \in 1..(Len(l) + 1) : v[i] \in {Unknown, s[i]}
  BY <1>2, ViewsAre DEF Knows, s
<1>4. x \in Note /\ x.type = "EXPUNGE" /\ x.n = n /\ x.uid = u
  <2>1. n \in 0..MaxUid /\ u \in 0..MaxUid
    BY <1>1, <1>3, SessionAssumption DEF Uids
  <2> QED
    BY <2>1 DEF Expunged, Note
<1> HIDE DEF x
<1>5. Credible(v, x)
  <2>1. n \in 1..(Len(l) + 1) /\ s[n] = u
    BY <1>1, <1>2
  <2> QED
    BY <1>3, <1>4, <2>1 DEF Credible
<1>6. Hear(v, x) = RemoveAt(v, n)
  BY <1>3, <1>4, Heard
<1> DEFINE r == RemoveAt(v, n)
<1>7. /\ r \in Seq(0..MaxUid) /\ Len(r) = Len(v) - 1
      /\ \A i \in 1..(Len(v) - 1) : r[i] = IF i < n THEN v[i] ELSE v[i + 1]
  <2>1. n \in 1..Len(v)
    BY <1>1, <1>3
  <2> QED
    BY <1>3, <2>1, RemovedAt
<1> HIDE DEF r
<1>8. Len(r) = Len(l) /\ DOMAIN r = 1..Len(l)
  BY <1>1, <1>3, <1>7, ListOf
<1>9. ASSUME NEW i \in 1..Len(l) PROVE r[i] \in {Unknown, l[i]}
  <2>1. /\ i \in 1..(Len(v) - 1) /\ i \in 1..(Len(l) + 1) /\ i + 1 \in 1..(Len(l) + 1)
        /\ (i + 1) - 1 = i /\ (~ (i < n) => ~ (i + 1 < n) /\ i + 1 # n)
    BY <1>1, <1>3
  <2>2. CASE i < n
    BY <1>2, <1>3, <1>7, <2>1, <2>2
  <2>3. CASE ~ (i < n)
    <3>1. r[i] = v[i + 1] /\ s[i + 1] = l[(i + 1) - 1]
      BY <1>2, <1>7, <2>1, <2>3
    <3> QED
      BY <1>3, <2>1, <3>1
  <2> QED
    BY <2>2, <2>3
<1>10. Knows(r, l)
  BY <1>8, <1>9 DEF Knows
<1> QED
  BY <1>4, <1>5, <1>6, <1>10 DEF x, r

\* The notes take those who know the list l to the list m.
Brings(notes, l, m) ==
  \/ Numbered(l, notes) /\ m = l
  \/ \E k \in 0..Len(m) : notes = << Exists(Len(m)) >> /\ l = SubSeq(m, 1, k)
  \/ \E n \in 1..(Len(m) + 1), u \in Uids : notes = << Expunged(n, u) >> /\ l = InsertAt(m, n, u)

LEMMA BringsFollows ==
  ASSUME NEW v \in View, NEW l \in Mails, NEW m \in Mails, NEW notes \in Seq(Note),
         Brings(notes, l, m), Knows(v, l)
  PROVE  Follows(v, notes, m)
<1>1. CASE Numbered(l, notes) /\ m = l
  BY <1>1, NumberedFollows
<1>2. ASSUME NEW k \in 0..Len(m), notes = << Exists(Len(m)) >>, l = SubSeq(m, 1, k)
      PROVE  Follows(v, notes, m)
  <2> DEFINE x == Exists(Len(m))
  <2>1. x \in Note /\ Credible(v, x) /\ Knows(Hear(v, x), m)
    BY <1>2, MailHeard
  <2> HIDE DEF x
  <2>2. AllCredible(v, << x >>) /\ HearAll(v, << x >>) = Hear(v, x)
    BY <2>1, OneNote
  <2> QED
    BY <1>2, <2>1, <2>2 DEF x, Follows
<1>3. ASSUME NEW n \in 1..(Len(m) + 1), NEW u \in Uids, notes = << Expunged(n, u) >>, l = InsertAt(m, n, u)
      PROVE  Follows(v, notes, m)
  <2> DEFINE x == Expunged(n, u)
  <2>1. x \in Note /\ Credible(v, x) /\ Knows(Hear(v, x), m)
    BY <1>3, RemovalHeard
  <2> HIDE DEF x
  <2>2. AllCredible(v, << x >>) /\ HearAll(v, << x >>) = Hear(v, x)
    BY <2>1, OneNote
  <2> QED
    BY <1>3, <2>1, <2>2 DEF x, Follows
<1> QED
  BY <1>1, <1>2, <1>3 DEF Brings

\* Notes that may be pending: no EXISTS, and the FETCHes name a message.
Pendable(notes) ==
  \A i \in DOMAIN notes : /\ notes[i].type \in {"EXPUNGE", "FETCH"}
                          /\ notes[i].type = "FETCH" => notes[i].uid # Unknown

\* Without an EXPUNGE among them, what is pending may wait.
LEMMA Flagged ==
  ASSUME NEW notes, Pendable(notes), ~ HasExpunge(notes)
  PROVE  Flagging(notes)
BY DEF Pendable, HasExpunge, Flagging

\* What is right of a list is right of the longer one.
LEMMA StillNumbered ==
  ASSUME NEW l \in Mails, NEW k \in 0..Len(l), NEW notes, Numbered(SubSeq(l, 1, k), notes)
  PROVE  Numbered(l, notes)
<1>1. l \in Seq(Uids) /\ Len(l) \in Nat /\ DOMAIN l = 1..Len(l)
  BY MailsAre
<1>2. /\ DOMAIN SubSeq(l, 1, k) = 1..k
      /\ \A i \in 1..k : SubSeq(l, 1, k)[i] = l[i] /\ i \in DOMAIN l
  <2>1. /\ SubSeq(l, 1, k) \in Seq(Uids) /\ Len(SubSeq(l, 1, k)) = k
        /\ \A i \in 1..k : SubSeq(l, 1, k)[i] = l[i]
    BY <1>1, FirstOf
  <2>2. DOMAIN SubSeq(l, 1, k) = 1..k
    BY <2>1, ListOf
  <2> QED
    BY <1>1, <2>1, <2>2
<1> QED
  BY <1>2 DEF Numbered

\* Told at once, a client that was not overtaken goes from l to m.
LEMMA AtOnceFollows ==
  ASSUME NEW v \in View, NEW l \in Mails, NEW m \in Mails,
         NEW owed \in Seq(Note), NEW notes \in Seq(Note),
         Pendable(owed), Follows(v, owed, l), Brings(notes, l, m),
         ~ (notes # << >> /\ HasExpunge(owed)), ~ (HasExpunge(notes) /\ owed # << >>)
  PROVE  HearAll(v, notes) \in View /\ Follows(HearAll(v, notes), owed, m)
<1> DEFINE w == HearAll(v, notes)
<1>1. w \in View
  BY HearAllView
<1>2. CASE notes = << >>
  <2>1. w = v
    BY <1>2, OneNote
  <2>2. m = l
    BY <1>2 DEF Brings
  <2> HIDE DEF w
  <2> QED
    BY <1>1, <2>1, <2>2 DEF w
<1>3. CASE notes # << >>
  <2>1. Flagging(owed)
    BY <1>3, Flagged
  <2>2. Knows(v, l) /\ Numbered(l, owed)
    BY <2>1, FollowsNumbered
  <2>3. Knows(w, m)
    BY <2>2, BringsFollows DEF Follows
  <2>4. Numbered(m, owed)
    <3>1. CASE Numbered(l, notes) /\ m = l
      BY <2>2, <3>1
    <3>2. ASSUME NEW k \in 0..Len(m), l = SubSeq(m, 1, k) PROVE Numbered(m, owed)
      BY <2>2, <3>2, StillNumbered
    <3>3. ASSUME NEW n \in 1..(Len(m) + 1), NEW u \in Uids, notes = << Expunged(n, u) >>
          PROVE  Numbered(m, owed)
      <4>1. HasExpunge(notes)
        BY <3>3 DEF HasExpunge, Expunged
      <4>2. owed = << >>
        BY <4>1
      <4> QED
        BY <4>2 DEF Numbered
    <3> QED
      BY <3>1, <3>2, <3>3 DEF Brings
  <2> HIDE DEF w
  <2> QED
    BY <1>1, <2>3, <2>4, NumberedFollows DEF w
<1> QED
  BY <1>2, <1>3

\* So does one for whom the notes are kept.
LEMMA LaterFollows ==
  ASSUME NEW v \in View, NEW l \in Mails, NEW m \in Mails,
         NEW owed \in Seq(Note), NEW notes \in Seq(Note),
         Follows(v, owed, l), Brings(notes, l, m)
  PROVE  Follows(v, owed \o notes, m)
<1>1. HearAll(v, owed) \in View
  BY HearAllView
<1>2. Follows(HearAll(v, owed), notes, m)
  BY <1>1, BringsFollows DEF Follows
<1> QED
  BY <1>2, HearThen DEF Follows

\* What is known of a message stays known through FETCH notes.
LEMMA KnownKept ==
  ASSUME NEW v \in View, NEW notes \in Seq(Note), Flagging(notes), AllCredible(v, notes),
         NEW i \in DOMAIN v, v[i] # Unknown
  PROVE  i \in DOMAIN HearAll(v, notes) /\ HearAll(v, notes)[i] = v[i]
<1>1. Len(notes) \in Nat /\ DOMAIN notes = 1..Len(notes)
  BY ListOf
<1> DEFINE S == {k \in 0..Len(notes) : i \in DOMAIN By(v, notes, k) /\ By(v, notes, k)[i] = v[i]}
<1>2. 0 \in S
  BY <1>1, ByAndBy
<1>3. ASSUME NEW k \in S, k < Len(notes) PROVE k + 1 \in S
  <2>1. k + 1 \in DOMAIN notes /\ (k + 1) - 1 = k /\ k \in 0..Len(notes) /\ k + 1 \in 0..Len(notes)
    BY <1>1, <1>3
  <2> DEFINE w == By(v, notes, k)
             x == notes[k + 1]
  <2>2. w \in View /\ x \in Note /\ By(v, notes, k + 1) = Hear(w, x) /\ i \in DOMAIN w /\ w[i] = v[i]
    BY <1>3, <2>1, ByAndBy
  <2>3. x.type = "FETCH" /\ x.uid # Unknown
    BY <2>1 DEF Flagging
  <2>4. Credible(w, x)
    BY <2>1 DEF AllCredible, By
  <2> HIDE DEF w, x
  <2>5. /\ Hear(w, x) \in View /\ Len(Hear(w, x)) = Len(w)
        /\ \A j \in 1..Len(w) : Hear(w, x)[j] = IF j = x.n THEN x.uid ELSE w[j]
    BY <2>2, <2>3, Heard
  <2>6. DOMAIN w = 1..Len(w) /\ DOMAIN Hear(w, x) = 1..Len(w)
    BY <2>2, <2>5, ViewsAre
  <2>7. i = x.n => x.uid = w[i]
    BY <2>2, <2>3, <2>4 DEF Credible
  <2> QED
    BY <2>1, <2>2, <2>5, <2>6, <2>7
<1>4. Len(notes) \in S
  <2>1. S \subseteq 0..Len(notes)
    OBVIOUS
  <2> HIDE DEF S
  <2> QED
    BY <1>1, <1>2, <1>3, <2>1, Climb
<1> QED
  BY <1>1, <1>4, ByAndBy

\* What is known of a message stays known while only others leave, and those
\* from behind it.
LEMMA KnownBefore ==
  ASSUME NEW v \in View, NEW notes \in Seq(Note), Pendable(notes), AllCredible(v, notes),
         NEW i \in DOMAIN v, v[i] # Unknown, LeavesAlone(notes, i)
  PROVE  i \in DOMAIN HearAll(v, notes) /\ HearAll(v, notes)[i] = v[i]
<1>1. Len(notes) \in Nat /\ DOMAIN notes = 1..Len(notes)
  BY ListOf
<1> DEFINE S == {k \in 0..Len(notes) : i \in DOMAIN By(v, notes, k) /\ By(v, notes, k)[i] = v[i]}
<1>2. 0 \in S
  BY <1>1, ByAndBy
<1>3. ASSUME NEW k \in S, k < Len(notes) PROVE k + 1 \in S
  <2>1. k + 1 \in DOMAIN notes /\ (k + 1) - 1 = k /\ k \in 0..Len(notes) /\ k + 1 \in 0..Len(notes)
    BY <1>1, <1>3
  <2> DEFINE w == By(v, notes, k)
             x == notes[k + 1]
  <2>2. w \in View /\ x \in Note /\ By(v, notes, k + 1) = Hear(w, x) /\ i \in DOMAIN w /\ w[i] = v[i]
    BY <1>3, <2>1, ByAndBy
  <2>3. /\ x.type \in {"EXPUNGE", "FETCH"} /\ (x.type = "FETCH" => x.uid # Unknown)
        /\ x.type = "EXPUNGE" => x.n > i
    BY <2>1 DEF Pendable, LeavesAlone
  <2>4. Credible(w, x)
    BY <2>1 DEF AllCredible, By
  <2> HIDE DEF w, x
  <2>5. Hear(w, x) \in View /\ DOMAIN w = 1..Len(w) /\ Len(w) \in Nat
    BY <2>2, Heard, ViewsAre
  <2>6. i \in DOMAIN Hear(w, x) /\ Hear(w, x)[i] = w[i]
    <3>1. CASE x.type = "FETCH"
      <4>1. /\ Len(Hear(w, x)) = Len(w)
            /\ \A j \in 1..Len(w) : Hear(w, x)[j] = IF j = x.n THEN x.uid ELSE w[j]
        BY <2>2, <3>1, Heard
      <4>2. DOMAIN Hear(w, x) = 1..Len(w)
        BY <2>5, <4>1, ViewsAre
      <4>3. i = x.n => x.uid = w[i]
        BY <2>2, <2>3, <2>4, <3>1 DEF Credible
      <4> QED
        BY <2>2, <2>5, <4>1, <4>2, <4>3
    <3>2. CASE x.type = "EXPUNGE"
      <4>1. x.n \in 1..Len(w) /\ x.n > i
        BY <2>3, <2>4, <2>5, <3>2 DEF Credible
      <4>2. Hear(w, x) = RemoveAt(w, x.n)
        BY <2>2, <2>5, <3>2, <4>1, Heard
      <4>3. w \in Seq(0..MaxUid)
        BY <2>2 DEF View
      <4> DEFINE r == RemoveAt(w, x.n)
      <4>4. /\ r \in Seq(0..MaxUid) /\ Len(r) = Len(w) - 1
            /\ \A j \in 1..(Len(w) - 1) : r[j] = IF j < x.n THEN w[j] ELSE w[j + 1]
        BY <4>1, <4>3, RemovedAt
      <4> HIDE DEF r
      <4>5. i \in 1..(Len(w) - 1) /\ i < x.n
        BY <2>2, <2>5, <4>1
      <4>6. DOMAIN r = 1..(Len(w) - 1) /\ r[i] = w[i]
        BY <4>4, <4>5, ListOf
      <4> QED
        BY <4>2, <4>5, <4>6 DEF r
    <3> QED
      BY <2>3, <3>1, <3>2
  <2> QED
    BY <2>1, <2>2, <2>6
<1>4. Len(notes) \in S
  <2>1. S \subseteq 0..Len(notes)
    OBVIOUS
  <2> HIDE DEF S
  <2> QED
    BY <1>1, <1>2, <1>3, <2>1, Climb
<1> QED
  BY <1>1, <1>4, ByAndBy

\* Nothing but EXPUNGE makes a client's list shorter.
LEMMA NeverShorter ==
  ASSUME NEW v \in View, NEW notes \in Seq(Note), ~ HasExpunge(notes)
  PROVE  Len(HearAll(v, notes)) >= Len(v)
<1>1. Len(notes) \in Nat /\ DOMAIN notes = 1..Len(notes) /\ Len(v) \in Nat
  BY ListOf, ViewsAre
<1> DEFINE S == {k \in 0..Len(notes) : Len(By(v, notes, k)) >= Len(v)}
<1>2. 0 \in S
  BY <1>1, ByAndBy
<1>3. ASSUME NEW k \in S, k < Len(notes) PROVE k + 1 \in S
  <2>1. k + 1 \in DOMAIN notes /\ k \in 0..Len(notes) /\ k + 1 \in 0..Len(notes)
    BY <1>1, <1>3
  <2> DEFINE w == By(v, notes, k)
             x == notes[k + 1]
  <2>2. w \in View /\ x \in Note /\ By(v, notes, k + 1) = Hear(w, x) /\ Len(w) >= Len(v)
    BY <1>3, <2>1, ByAndBy
  <2>3. x.type # "EXPUNGE" /\ x.type \in {"EXISTS", "FETCH", "EXPUNGE"}
    BY <2>1, <2>2 DEF HasExpunge, Note
  <2> HIDE DEF w, x
  <2>4. Len(w) \in Nat /\ x.n \in Nat
    BY <2>2, ViewsAre, SessionAssumption DEF Note
  <2>5. Len(Hear(w, x)) >= Len(w)
    <3>1. CASE x.type = "EXISTS"
      <4>1. Len(Hear(w, x)) = IF x.n > Len(w) THEN x.n ELSE Len(w)
        BY <2>2, <3>1, Heard
      <4> QED
        BY <2>4, <4>1
    <3>2. CASE x.type = "FETCH"
      <4>1. Len(Hear(w, x)) = Len(w)
        BY <2>2, <3>2, Heard
      <4> QED
        BY <2>4, <4>1
    <3> QED
      BY <2>3, <3>1, <3>2
  <2>6. Len(Hear(w, x)) \in Nat
    BY <2>2, Heard, ViewsAre
  <2> QED
    BY <1>1, <2>1, <2>2, <2>4, <2>5, <2>6
<1>4. Len(notes) \in S
  <2>1. S \subseteq 0..Len(notes)
    OBVIOUS
  <2> HIDE DEF S
  <2> QED
    BY <1>1, <1>2, <1>3, <2>1, Climb
<1> QED
  BY <1>1, <1>4, ByAndBy

-----------------------------------------------------------------------------
(* The walks and the sessions *)

Walk == [kind : {"none", "exists", "dispatch"}, notes : Seq(Note), after : Seq(Note),
         skip : Walkers, begun : BOOLEAN, done : SUBSET Clients, size : Nat, left : Nat]

\* The walk tells of messages that came or went.
Renumbering(k) == k.kind = "exists" \/ HasExpunge(k.notes)

\* The list as those know it whom the walk has yet to reach.
Before(k, list) ==
  IF k.kind = "exists" THEN SubSeq(list, 1, Len(list) - Len(k.after))
  ELSE InsertAt(list, k.notes[1].n, k.notes[1].uid)

\* What the walk brings is right, now that the list is as it is.
MailWalk(k, list) ==
  /\ k.kind = "exists" /\ k.notes = << Exists(Len(list)) >> /\ k.skip = Task
  /\ k.after # << >> /\ Len(k.after) <= Len(list) /\ Numbered(list, k.after)
FlagWalk(k, list) ==
  k.kind = "dispatch" /\ k.after = << >> /\ k.notes # << >> /\ Numbered(list, k.notes)
ExpungeWalk(k, list) ==
  /\ k.kind = "dispatch" /\ k.after = << >> /\ k.skip = Task
  /\ \E n \in 1..(Len(list) + 1), u \in Uids : k.notes = << Expunged(n, u) >>
RightWalk(k, list) ==
  k = NoWalk \/ MailWalk(k, list) \/ FlagWalk(k, list) \/ ExpungeWalk(k, list)

Renumbers(w) == Renumbering(walks[w])

\* A session whose client hears of the mailbox and has not been misled.
Good(c) == Registered(c) /\ Connected(c) /\ c \notin adrift

\* With what it was not sent yet, the client knows the list, or the list of
\* before the change that a walk is bringing to it.
Abreast(c) ==
  Good(c) =>
    /\ (\A w \in Walkers : ~ (Renumbers(w) /\ Ahead(w, c))) => Follows(view[c], Unsent(c), msgs)
    /\ \A w \in Walkers : Renumbers(w) /\ Ahead(w, c)
                            => Follows(view[c], Unsent(c), Before(walks[w], msgs))

NumberOps == {"FETCH", "STORE", "SEARCH"}

\* What the place that a session is at says of the rest of it.
Place(c) ==
  /\ sent[c] # 0 => stage[c] = "sending"
  /\ state[c] = "logged_out" => stage[c] = "closing"
  /\ stage[c] = "waiting" /\ req[c].op \in {"SELECT", "EXAMINE"} => pending[c] = << >> /\ ~ Registered(c)
  /\ stage[c] = "announcing" => Registered(c)
  /\ selected[c] => Registered(c)
  /\ stage[c] \in {"sending", "waiting", "working"} /\ req[c].op \in NumberOps /\ exists => selected[c]
  /\ idling[c] => stage[c] \in {"none", "closing"} \/ req[c].op \in {"EXPUNGE", "MOVED"}
  /\ stage[c] = "working" => exists

\* A command by number means the message its client has under the number.
Meant(c) ==
  /\ stage[c] \in {"sending", "waiting", "working"} /\ req[c].op \in NumberOps /\ ~ req[c].uid
  /\ c \notin adrift /\ exists /\ req[c].meant # Unknown
  => req[c].n \in DOMAIN view[c] /\ view[c][req[c].n] = req[c].meant

Own(c) == Place(c) /\ Meant(c) /\ Pendable(pending[c]) /\ Abreast(c)

\* Who walks is working, who renumbers is alone, and the task walks when
\* nobody works.
Alone ==
  /\ \A w \in Clients : walks[w] # NoWalk => stage[w] = "working" /\ req[w].op # "MOVE"
  /\ \A w \in Clients : Renumbers(w) => req[w].op \in Solitary
  /\ \A c, d \in Clients : c # d /\ Holding(c) /\ Holding(d) => req[c].op \notin Solitary
  /\ walks[Task] # NoWalk => \A c \in Clients : ~ Holding(c)

BoxTyped ==
  /\ msgs \in Mails /\ lastUid \in 0..MaxUid /\ Len(msgs) <= lastUid /\ flagged \subseteq Uids
  /\ exists \in BOOLEAN /\ served \in BOOLEAN /\ torn \in BOOLEAN
ListTyped == clients \in Seq(Clients) /\ IsInjective(clients)
WalksTyped == walks \in [Walkers -> Walk] /\ \A w \in Walkers : walks[w].left <= walks[w].size
PlaceTyped ==
  /\ state \in [Clients -> {"authenticated", "selected", "logged_out"}]
  /\ selected \in [Clients -> BOOLEAN] /\ examine \in [Clients -> BOOLEAN]
  /\ refusals \in [Clients -> 0..FetchLimit]
  /\ reselects \in [Clients -> 0..SelectLimit]
StageTyped ==
  /\ idling \in [Clients -> BOOLEAN]
  /\ req \in [Clients -> Request]
  /\ stage \in [Clients -> {"none", "sending", "waiting", "working", "announcing", "closing"}]
TalkTyped ==
  /\ pending \in [Clients -> Seq(Note)] /\ sent \in [Clients -> Nat]
  /\ \A c \in Clients : sent[c] <= Len(pending[c])
  /\ view \in [Clients -> View] /\ adrift \subseteq Clients
Typed == BoxTyped /\ ListTyped /\ WalksTyped /\ PlaceTyped /\ StageTyped /\ TalkTyped

SessionInv ==
  /\ Typed /\ (\A w \in Walkers : RightWalk(walks[w], msgs))
  /\ Alone /\ \A c \in Clients : Own(c)

\* Fixed facts.
LEMMA Constants ==
  /\ IsFiniteSet(Clients) /\ Task \notin Clients /\ Task \in Walkers /\ Clients \subseteq Walkers
  /\ IsFiniteSet(Walkers) /\ MaxUid \in Nat /\ InitialMail \in 0..MaxUid
  /\ FetchLimit \in Nat /\ SelectLimit \in Nat
  /\ NoWalk \in Walk /\ NoWalk.left <= NoWalk.size /\ ~ Renumbering(NoWalk) /\ NoWalk.notes = << >>
  /\ NoRequest \in Request /\ NoRequest.op = "none" /\ NoRequest.uid = FALSE
<1>1. /\ IsFiniteSet(Clients) /\ Task \notin Clients /\ Task \in Walkers /\ Clients \subseteq Walkers
      /\ MaxUid \in Nat /\ InitialMail \in 0..MaxUid /\ FetchLimit \in Nat /\ SelectLimit \in Nat
  BY SessionAssumption DEF Walkers
<1>2. IsFiniteSet(Walkers)
  BY <1>1, FS_AddElement DEF Walkers
<1>3. << >> \in Seq(Note) /\ DOMAIN << >> = {}
  BY EmptyList
<1>4. NoWalk \in Walk /\ NoWalk.left <= NoWalk.size /\ ~ Renumbering(NoWalk) /\ NoWalk.notes = << >>
  BY <1>1, <1>3 DEF NoWalk, Walk, Renumbering, HasExpunge
<1>5. NoRequest \in Request /\ NoRequest.op = "none" /\ NoRequest.uid = FALSE
  BY <1>1 DEF NoRequest, Request, Unknown
<1> QED
  BY <1>1, <1>2, <1>4, <1>5

\* What right walks bring.
LEMMA WalkBrings ==
  ASSUME NEW list \in Mails, NEW k \in Walk, RightWalk(k, list)
  PROVE  /\ k.notes \in Seq(Note)
         /\ k # NoWalk => k.notes # << >> /\ (k.notes[1].type = "FETCH" <=> ~ Renumbering(k))
         /\ Renumbering(k) => /\ Brings(k.notes, Before(k, list), list) /\ Before(k, list) \in Seq(Uids)
                              /\ k.skip = Task /\ k # NoWalk
         /\ ~ Renumbering(k) => Numbered(list, k.notes) /\ k.kind # "exists"
         /\ k.kind # "exists" => Pendable(k.notes) /\ k.after = << >>
         /\ k.kind = "exists" => ~ HasExpunge(k.notes) /\ k.after # << >> /\ k.after \in Seq(Note)
                                 /\ Numbered(list, k.after)
<1>1. k.notes \in Seq(Note) /\ k.after \in Seq(Note)
  BY DEF Walk
<1>2. /\ list \in Seq(Uids) /\ Len(list) \in Nat /\ DOMAIN list = 1..Len(list)
      /\ \A i \in 1..Len(list) : list[i] \in Uids /\ list[i] # Unknown
  BY MailsAre
<1>3. CASE k = NoWalk
  <2>1. k.notes = << >> /\ k.after = << >> /\ k.kind = "none" /\ DOMAIN k.notes = {}
    BY <1>3, EmptyList DEF NoWalk
  <2> QED
    BY <1>1, <1>3, <2>1 DEF Renumbering, HasExpunge, Numbered, Pendable
<1>4. CASE MailWalk(k, list)
  <2> DEFINE s == << Exists(Len(list)) >>
             n == Len(list) - Len(k.after)
  <2>1. k.notes = s /\ k.kind = "exists" /\ k.skip = Task /\ Len(k.after) \in Nat /\ Len(k.after) <= Len(list)
    BY <1>1, <1>4, ListOf DEF MailWalk
  <2>2. s # << >> /\ s[1].type = "EXISTS" /\ DOMAIN s = 1..1
    <3>1. s[1] = Exists(Len(list)) /\ Len(s) = 1 /\ DOMAIN s = 1..1
      OBVIOUS
    <3> QED
      BY <3>1, EmptyList DEF Exists
  <2>3. ~ HasExpunge(s)
    BY <2>2 DEF HasExpunge
  <2>4. n \in 0..Len(list)
    BY <1>2, <2>1
  <2>5. Before(k, list) = SubSeq(list, 1, n)
    BY <2>1 DEF Before
  <2>6. Before(k, list) \in Seq(Uids)
    BY <1>2, <2>4, <2>5, FirstOf
  <2>7. Brings(k.notes, Before(k, list), list)
    BY <2>1, <2>4, <2>5 DEF Brings
  <2>8. k # NoWalk
    BY <2>1 DEF NoWalk
  <2> QED
    BY <1>1, <1>4, <2>1, <2>2, <2>3, <2>6, <2>7, <2>8 DEF MailWalk, Renumbering
<1>5. CASE FlagWalk(k, list)
  <2>1. k.kind = "dispatch" /\ k.after = << >> /\ k.notes # << >> /\ Numbered(list, k.notes)
    BY <1>5 DEF FlagWalk
  <2>2. 1 \in DOMAIN k.notes
    BY <1>1, <2>1, ListOf, EmptyList
  <2>3. \A i \in DOMAIN k.notes : k.notes[i].type = "FETCH" /\ k.notes[i].uid # Unknown
    BY <1>2, <2>1 DEF Numbered
  <2>4. ~ HasExpunge(k.notes) /\ Pendable(k.notes)
    BY <2>3 DEF HasExpunge, Pendable
  <2> QED
    BY <1>1, <2>1, <2>2, <2>3, <2>4 DEF Renumbering
<1>6. CASE ExpungeWalk(k, list)
  <2>1. PICK n \in 1..(Len(list) + 1), u \in Uids : k.notes = << Expunged(n, u) >>
    BY <1>6 DEF ExpungeWalk
  <2>2. k.kind = "dispatch" /\ k.after = << >> /\ k.skip = Task
    BY <1>6 DEF ExpungeWalk
  <2> DEFINE x == Expunged(n, u)
  <2>3. x.type = "EXPUNGE" /\ x.n = n /\ x.uid = u
    BY DEF Expunged
  <2> HIDE DEF x
  <2>4. k.notes = << x >> /\ k.notes # << >> /\ k.notes[1] = x /\ DOMAIN k.notes = 1..1
    <3>1. k.notes = << x >> /\ Len(<< x >>) = 1 /\ << x >>[1] = x
      BY <2>1 DEF x
    <3> QED
      BY <3>1, EmptyList
  <2>5. Before(k, list) = InsertAt(list, n, u)
    BY <2>2, <2>3, <2>4 DEF Before
  <2>6. Before(k, list) \in Seq(Uids)
    BY <1>2, <2>5, InsertedAt
  <2>7. Brings(k.notes, Before(k, list), list)
    BY <2>1, <2>5 DEF Brings
  <2>8. HasExpunge(k.notes) /\ Pendable(k.notes)
    BY <2>3, <2>4 DEF HasExpunge, Pendable
  <2>9. k # NoWalk
    BY <2>2 DEF NoWalk
  <2> QED
    BY <1>1, <2>2, <2>3, <2>4, <2>6, <2>7, <2>8, <2>9 DEF Renumbering
<1> QED
  BY <1>3, <1>4, <1>5, <1>6 DEF RightWalk

-----------------------------------------------------------------------------
(* What a step leaves alone *)

\* Nothing about session d changes.
Still(d) ==
  /\ Registered(d)' <=> Registered(d)
  /\ state'[d] = state[d] /\ selected'[d] = selected[d] /\ idling'[d] = idling[d]
  /\ req'[d] = req[d] /\ stage'[d] = stage[d]
  /\ pending'[d] = pending[d] /\ sent'[d] = sent[d] /\ view'[d] = view[d]
  /\ d \in adrift' <=> d \in adrift

\* The walks that renumber are the same for d.
SameNews(d) ==
  \A w \in Walkers : /\ Renumbers(w)' /\ Ahead(w, d)' <=> Renumbers(w) /\ Ahead(w, d)
                     /\ Renumbers(w) /\ Ahead(w, d) => walks'[w] = walks[w]

LEMMA NewsKept ==
  ASSUME NEW d, \A w \in Walkers : walks'[w] = walks[w] \/ (~ Renumbers(w) /\ ~ Renumbers(w)')
  PROVE  SameNews(d)
BY DEF SameNews, Renumbers, Ahead

LEMMA AbreastKept ==
  ASSUME NEW c \in Clients, Abreast(c), Good(c)' => Good(c), view'[c] = view[c],
         Unsent(c)' = Unsent(c), msgs' = msgs, SameNews(c)
  PROVE  Abreast(c)'
<1> SUFFICES ASSUME Good(c)' PROVE Abreast(c)'
  BY DEF Abreast
<1>1. ASSUME \A w \in Walkers : ~ (Renumbers(w)' /\ Ahead(w, c)')
      PROVE  Follows(view'[c], Unsent(c)', msgs')
  BY <1>1 DEF Abreast, SameNews
<1>2. ASSUME NEW w \in Walkers, Renumbers(w)', Ahead(w, c)'
      PROVE  Follows(view'[c], Unsent(c)', Before(walks'[w], msgs'))
  BY <1>2 DEF Abreast, SameNews
<1> QED
  BY <1>1, <1>2 DEF Abreast

LEMMA OwnKept ==
  ASSUME NEW d \in Clients, Own(d), Still(d), exists' = exists, msgs' = msgs, SameNews(d)
  PROVE  Own(d)'
<1>1. Place(d)'
  BY DEF Own, Place, Still
<1>2. Meant(d)'
  BY DEF Own, Meant, Still
<1>3. Pendable(pending[d])'
  BY DEF Own, Still
<1>4. Abreast(d)'
  <2>1. Good(d)' => Good(d)
    BY DEF Good, Connected, Still
  <2>2. view'[d] = view[d] /\ Unsent(d)' = Unsent(d)
    BY DEF Still, Unsent
  <2> QED
    BY <2>1, <2>2, AbreastKept DEF Own
<1> QED
  BY <1>1, <1>2, <1>3, <1>4 DEF Own

\* A session goes on by itself, and holds the mailbox only if it did or may.
Modest(c) ==
  /\ walks[c] = NoWalk \/ (stage'[c] = "working" /\ req'[c].op = req[c].op)
  /\ Holding(c)' =>
       \/ Holding(c) /\ req'[c].op = req[c].op
       \/ /\ walks[Task] = NoWalk
          /\ \A d \in Clients : d # c /\ Holding(d) => req[d].op \notin Solitary /\ req'[c].op \notin Solitary

LEMMA AloneKept ==
  ASSUME NEW c \in Clients, Alone, Modest(c), walks' = walks,
         \A d \in Clients : d # c => stage'[d] = stage[d] /\ req'[d] = req[d]
  PROVE  Alone'
<1>1. ASSUME NEW w \in Clients, walks'[w] # NoWalk PROVE stage'[w] = "working" /\ req'[w].op # "MOVE"
  BY <1>1 DEF Alone, Modest
<1>2. ASSUME NEW w \in Clients, Renumbers(w)' PROVE req'[w].op \in Solitary
  <2>1. Renumbers(w) /\ walks[w] # NoWalk
    BY <1>2, Constants DEF Renumbers
  <2> QED
    BY <2>1 DEF Alone, Modest
<1>3. \A d \in Clients : d # c => (Holding(d)' <=> Holding(d)) /\ req'[d] = req[d]
  BY DEF Holding
<1>4. ASSUME NEW d \in Clients, NEW e \in Clients, d # e, Holding(d)', Holding(e)'
      PROVE  req'[d].op \notin Solitary
  <2>1. CASE d # c /\ e # c
    BY <1>3, <1>4, <2>1 DEF Alone
  <2>2. CASE d = c \/ e = c
    BY <1>3, <1>4, <2>2 DEF Alone, Modest
  <2> QED
    BY <2>1, <2>2
<1>5. ASSUME walks'[Task] # NoWalk, NEW d \in Clients PROVE ~ Holding(d)'
  BY <1>3, <1>5 DEF Alone, Modest
<1> QED
  BY <1>1, <1>2, <1>3, <1>4, <1>5 DEF Alone

\* One session goes on by itself.
LEMMA OwnStep ==
  ASSUME NEW c \in Clients, SessionInv, UNCHANGED <<boxVars, walks>>, Typed',
         \A d \in Clients : d # c => Still(d),
         Modest(c), Place(c)', Meant(c)', Pendable(pending[c])', Abreast(c)'
  PROVE  SessionInv'
<1>1. msgs' = msgs /\ exists' = exists /\ walks' = walks
  BY DEF boxVars
<1>2. \A w \in Walkers : RightWalk(walks'[w], msgs')
  BY <1>1 DEF SessionInv
<1>3. Alone'
  BY <1>1, AloneKept DEF SessionInv, Still
<1>4. ASSUME NEW d \in Clients PROVE Own(d)'
  <2>1. CASE d = c
    BY <2>1 DEF Own
  <2>2. CASE d # c
    <3>1. SameNews(d)
      BY <1>1, NewsKept
    <3> QED
      BY <1>1, <2>2, <3>1, OwnKept DEF SessionInv
  <2> QED
    BY <2>1, <2>2
<1> QED
  BY <1>2, <1>3, <1>4 DEF SessionInv

\* Its client is told nothing, and nothing becomes pending.
LEMMA AbreastOwn ==
  ASSUME NEW c \in Clients, SessionInv, UNCHANGED <<boxVars, walks>>, Good(c)' => Good(c),
         view'[c] = view[c], Unsent(c)' = Unsent(c)
  PROVE  Abreast(c)'
<1>1. msgs' = msgs /\ walks' = walks
  BY DEF boxVars
<1>2. SameNews(c)
  BY <1>1, NewsKept
<1> QED
  BY <1>1, <1>2, AbreastKept DEF SessionInv, Own

\* Nothing walks with the leave of a session that is not working.
LEMMA NotWalking ==
  ASSUME SessionInv, NEW c \in Clients, stage[c] # "working"
  PROVE  walks[c] = NoWalk
BY DEF SessionInv, Alone

\* Nobody is brought news while one that shares holds the mailbox.
LEMMA NoNews ==
  ASSUME SessionInv, NEW c \in Clients, Holding(c), req[c].op \notin Solitary
  PROVE  \A w \in Walkers : ~ Renumbers(w)
<1> SUFFICES ASSUME NEW w \in Walkers, Renumbers(w) PROVE FALSE
  OBVIOUS
<1>1. walks[w] # NoWalk
  BY Constants DEF Renumbers
<1>2. w # Task
  BY <1>1 DEF SessionInv, Alone
<1>3. w \in Clients
  BY <1>2 DEF Walkers
<1>4. stage[w] = "working" /\ req[w].op \in Solitary
  BY <1>1, <1>3 DEF SessionInv, Alone
<1> QED
  BY <1>3, <1>4 DEF SessionInv, Alone, Holding

\* Without news on the way the client knows the list.
LEMMA AbreastNow ==
  ASSUME NEW c \in Clients, Abreast(c), Good(c), \A w \in Walkers : ~ Renumbers(w)
  PROVE  Follows(view[c], Unsent(c), msgs)
BY DEF Abreast

-----------------------------------------------------------------------------
(* Sending what is pending *)

WaitOps == {"FETCH", "STORE", "SEARCH", "COPY", "MOVE", "CHECK", "APPEND", "DELETE", "EXPUNGE"}

LEMMA ProceedIs ==
  ASSUME StageTyped, NEW c \in Clients, NEW r \in Request, Proceed(c, r)
  PROVE  /\ StageTyped'
         /\ \A d \in Clients : d # c => stage'[d] = stage[d] /\ req'[d] = req[d] /\ idling'[d] = idling[d]
         /\ \/ /\ r.op \in WaitOps /\ stage'[c] = "waiting" /\ req'[c] = r
               /\ idling'[c] => r.op = "EXPUNGE"
            \/ stage'[c] = "none" /\ req'[c] = NoRequest
<1> DEFINE waits == \/ r.op \in {"FETCH", "STORE", "SEARCH", "COPY", "MOVE", "CHECK", "APPEND", "DELETE"}
                    \/ r.op = "EXPUNGE" /\ ~ examine[c]
           s == IF waits THEN "waiting" ELSE "none"
           q == IF waits THEN r ELSE NoRequest
           i == r.op = "IDLE" \/ (r.op = "EXPUNGE" /\ waits)
<1>1. /\ stage' = [stage EXCEPT ![c] = s] /\ req' = [req EXCEPT ![c] = q]
      /\ idling' = [idling EXCEPT ![c] = i]
  BY DEF Proceed
<1>2. s \in {"none", "sending", "waiting", "working", "announcing", "closing"} /\ q \in Request
  BY Constants
<1>3. i \in BOOLEAN
  OBVIOUS
<1>4. \/ r.op \in WaitOps /\ s = "waiting" /\ q = r /\ (i => r.op = "EXPUNGE")
      \/ s = "none" /\ q = NoRequest
  BY DEF WaitOps
<1> HIDE DEF s, q, i
<1>5. stage'[c] = s /\ req'[c] = q /\ idling'[c] = i
  BY <1>1 DEF StageTyped
<1>6. StageTyped'
  BY <1>1, <1>2, <1>3 DEF StageTyped
<1>7. \A d \in Clients : d # c => stage'[d] = stage[d] /\ req'[d] = req[d] /\ idling'[d] = idling[d]
  BY <1>1 DEF StageTyped
<1> QED
  BY <1>4, <1>5, <1>6, <1>7

\* What is unsent, for a session that is not sending and for one that begins.
LEMMA UnsentIs ==
  ASSUME NEW p \in Seq(Note)
  PROVE  /\ SubSeq(p, 0 + 1, Len(p)) = p
         /\ SubSeq(p, Len(p) + 1, Len(p)) = << >>
         /\ SubSeq(<< >>, 0 + 1, Len(<< >>)) = << >>
<1>1. Len(p) \in Nat /\ Len(<< >>) = 0 /\ 0 + 1 = 1
  BY ListOf
<1>2. SubSeq(p, 1, Len(p)) = p
  BY SubSeqFull
<1>3. \A s : \A i, j \in Int : s \in Seq(Note) /\ i > j => SubSeq(s, i, j) = << >>
  BY SubSeqEmpty
<1>4. << >> \in Seq(Note) /\ Len(p) + 1 \in Int /\ Len(p) \in Int /\ Len(p) + 1 > Len(p)
  BY <1>1
<1>5. SubSeq(p, Len(p) + 1, Len(p)) = << >>
  BY <1>3, <1>4
<1>6. SubSeq(<< >>, 1, 0) = << >>
  BY <1>3, <1>4
<1> QED
  BY <1>1, <1>2, <1>5, <1>6

LEMMA UnsentAll ==
  ASSUME SessionInv, NEW c \in Clients, stage[c] # "sending"
  PROVE  sent[c] = 0 /\ Unsent(c) = pending[c] /\ pending[c] \in Seq(Note)
<1>1. sent[c] = 0
  BY DEF SessionInv, Own, Place
<1>2. pending[c] \in Seq(Note)
  BY DEF SessionInv, Typed, TalkTyped
<1> QED
  BY <1>1, <1>2, UnsentIs DEF Unsent

\* What is unsent is pending.
LEMMA UnsentPends ==
  ASSUME SessionInv, NEW c \in Clients
  PROVE  Unsent(c) \in Seq(Note) /\ Pendable(Unsent(c)) /\ view[c] \in View /\ msgs \in Mails
<1> DEFINE p == pending[c]
           k == sent[c]
           n == Len(p)
<1>1. p \in Seq(Note) /\ k \in Nat /\ k <= n /\ n \in Nat /\ DOMAIN p = 1..n /\ Pendable(p) /\ view[c] \in View
  BY ListOf DEF SessionInv, Typed, TalkTyped, Own
<1>2. \A i \in (k + 1)..n : p[i] \in Note
  BY <1>1, ListOf
<1> HIDE DEF p, k, n
<1>3. /\ SubSeq(p, k + 1, n) \in Seq(Note)
      /\ Len(SubSeq(p, k + 1, n)) = IF k + 1 <= n THEN n - (k + 1) + 1 ELSE 0
      /\ \A i \in 1..(n - (k + 1) + 1) : SubSeq(p, k + 1, n)[i] = p[k + 1 + i - 1]
  BY <1>1, <1>2, SubSeqProperties
<1> DEFINE s == SubSeq(p, k + 1, n)
<1>4. s \in Seq(Note) /\ Len(s) = n - k /\ DOMAIN s = 1..(n - k)
  <2>1. Len(s) = n - k
    BY <1>1, <1>3
  <2> QED
    BY <1>3, <2>1, ListOf
<1>5. \A i \in 1..(n - k) : i + k \in DOMAIN p /\ s[i] = p[i + k]
  BY <1>1, <1>3
<1> HIDE DEF s
<1>6. Pendable(s)
  BY <1>1, <1>4, <1>5 DEF Pendable
<1>7. Unsent(c) = s
  BY DEF Unsent, s, p, k, n
<1>8. msgs \in Mails
  BY DEF SessionInv, Typed, BoxTyped
<1> QED
  BY <1>1, <1>4, <1>6, <1>7, <1>8

\* The list that a client is to know next.
LEMMA BeforeIs ==
  ASSUME SessionInv, NEW w \in Walkers, Renumbers(w)
  PROVE  Before(walks[w], msgs) \in Seq(Uids) /\ Brings(walks[w].notes, Before(walks[w], msgs), msgs)
<1>1. walks[w] \in Walk /\ RightWalk(walks[w], msgs) /\ msgs \in Mails
  BY DEF SessionInv, Typed, WalksTyped, BoxTyped
<1> QED
  BY <1>1, WalkBrings DEF Renumbers

\* A list that a client follows is not too long.
LEMMA FollowedMails ==
  ASSUME NEW v \in View, NEW notes \in Seq(Note), NEW l \in Seq(Uids), Follows(v, notes, l)
  PROVE  l \in Mails
<1>1. HearAll(v, notes) \in View
  BY HearAllView
<1>2. Len(l) = Len(HearAll(v, notes))
  BY DEF Follows, Knows
<1>3. Len(HearAll(v, notes)) <= MaxUid
  BY <1>1, ViewsAre
<1> QED
  BY <1>2, <1>3 DEF Mails

\* The client hears the rest of what was pending, and nothing is.
LEMMA AbreastSent ==
  ASSUME NEW c \in Clients, SessionInv, UNCHANGED <<boxVars, walks>>, Good(c)' => Good(c),
         view'[c] = HearAll(view[c], Unsent(c)), Unsent(c)' = << >>
  PROVE  Abreast(c)'
<1> SUFFICES ASSUME Good(c)' PROVE Abreast(c)'
  BY DEF Abreast
<1>1. msgs' = msgs /\ walks' = walks
  BY DEF boxVars
<1>2. Abreast(c) /\ Good(c)
  BY DEF SessionInv, Own
<1> DEFINE v == HearAll(view[c], Unsent(c))
<1>3. v \in View
  BY UnsentPends, HearAllView
<1>4. ASSUME NEW l, Follows(view[c], Unsent(c), l) PROVE Follows(v, << >>, l)
  <2>1. Knows(v, l)
    BY <1>4 DEF Follows
  <2> HIDE DEF v
  <2> QED
    BY <1>3, <2>1, OneNote DEF Follows
<1>5. \A w \in Walkers : (Renumbers(w)' <=> Renumbers(w)) /\ (Ahead(w, c)' <=> Ahead(w, c))
  BY <1>1 DEF Renumbers, Ahead
<1>6. ASSUME \A w \in Walkers : ~ (Renumbers(w)' /\ Ahead(w, c)')
      PROVE  Follows(view'[c], Unsent(c)', msgs')
  BY <1>1, <1>2, <1>4, <1>5, <1>6 DEF Abreast
<1>7. ASSUME NEW w \in Walkers, Renumbers(w)', Ahead(w, c)'
      PROVE  Follows(view'[c], Unsent(c)', Before(walks'[w], msgs'))
  <2> DEFINE l == Before(walks[w], msgs)
  <2>1. Follows(view[c], Unsent(c), l)
    BY <1>2, <1>5, <1>7 DEF Abreast
  <2>2. Before(walks'[w], msgs') = l
    BY <1>1
  <2> HIDE DEF l
  <2> QED
    BY <1>4, <2>1, <2>2
<1> QED
  BY <1>6, <1>7 DEF Abreast

\* What a good client is owed does not contradict what it knows.
LEMMA Believes ==
  ASSUME SessionInv, NEW c \in Clients, Good(c)
  PROVE  AllCredible(view[c], Unsent(c))
<1>1. Abreast(c)
  BY DEF SessionInv, Own
<1>2. CASE \A w \in Walkers : ~ (Renumbers(w) /\ Ahead(w, c))
  BY <1>1, <1>2 DEF Abreast, Follows
<1>3. ASSUME NEW w \in Walkers, Renumbers(w), Ahead(w, c)
      PROVE  AllCredible(view[c], Unsent(c))
  BY <1>1, <1>3 DEF Abreast, Follows
<1> QED
  BY <1>2, <1>3

\* What a command by number asks for, its client has.
Asks(c, r) ==
  r.op \in NumberOps /\ ~ r.uid =>
    /\ ~ HasExpunge(pending[c]) /\ r.n \in DOMAIN view[c] /\ view[c][r.n] = r.meant
    /\ c \notin adrift => Good(c)

\* The guards under which send_pending_notifications is called.
LEMMA SendsPending ==
  ASSUME NEW c \in Clients, NEW r \in Request, SessionInv, SendPending(c, r),
         UNCHANGED <<boxVars, walks, state, selected, examine, reselects, clients>>,
         refusals' \in [Clients -> 0..FetchLimit],
         stage[c] \in {"none", "waiting", "working"}, walks[c] = NoWalk,
         r.op \in NumberOps => selected[c],
         Asks(c, r),
         r.op = "NOOP" => /\ walks[Task] = NoWalk
                          /\ \A d \in Clients : d # c /\ Holding(d) => req[d].op \notin Solitary
  PROVE  SessionInv'
<1> DEFINE h == HearAll(view[c], Unsent(c))
<1>1. sent[c] = 0 /\ Unsent(c) = pending[c] /\ pending[c] \in Seq(Note) /\ stage[c] # "sending"
  BY UnsentAll
<1>2. view[c] \in View /\ h \in View /\ Pendable(pending[c])
  BY <1>1, UnsentPends, HearAllView
<1>3. /\ view' = [view EXCEPT ![c] = h] /\ adrift' = adrift
  BY <1>1 DEF SendPending
<1>4. /\ StageTyped /\ PlaceTyped /\ TalkTyped /\ Typed /\ Own(c)
  BY DEF SessionInv, Typed
<1> HIDE DEF h
<1>5. view'[c] = h /\ \A d \in Clients : d # c => view'[d] = view[d]
  BY <1>3, <1>4 DEF TalkTyped
<1>6. /\ BoxTyped' /\ ListTyped' /\ WalksTyped' /\ PlaceTyped'
  BY <1>4 DEF Typed, BoxTyped, ListTyped, WalksTyped, PlaceTyped, boxVars
<1> DEFINE Fast == /\ pending' = [pending EXCEPT ![c] = << >>]
                   /\ Proceed(c, r)
                   /\ UNCHANGED sent
           Slow == /\ sent' = [sent EXCEPT ![c] = Len(pending[c])]
                   /\ req' = [req EXCEPT ![c] = r]
                   /\ stage' = [stage EXCEPT ![c] = "sending"]
                   /\ idling' = [idling EXCEPT ![c] = FALSE]
                   /\ UNCHANGED pending
           Told == /\ StageTyped' /\ TalkTyped' /\ Unsent(c)' = << >> /\ Pendable(pending[c])'
                   /\ \A d \in Clients : d # c => /\ stage'[d] = stage[d] /\ req'[d] = req[d] /\ idling'[d] = idling[d]
                                                  /\ pending'[d] = pending[d] /\ sent'[d] = sent[d]
                   /\ \/ /\ sent'[c] = 0
                         /\ \/ /\ r.op \in WaitOps /\ stage'[c] = "waiting" /\ req'[c] = r
                               /\ idling'[c] => r.op = "EXPUNGE"
                            \/ stage'[c] = "none" /\ req'[c] = NoRequest
                      \/ stage'[c] = "sending" /\ req'[c] = r /\ ~ idling'[c]
<1>7. Fast \/ Slow
  BY DEF SendPending
<1>8. ASSUME Fast PROVE Told
  <2>1. /\ pending'[c] = << >> /\ sent'[c] = 0
        /\ \A d \in Clients : d # c => pending'[d] = pending[d] /\ sent'[d] = sent[d]
    BY <1>1, <1>4, <1>8 DEF TalkTyped
  <2>2. << >> \in Seq(Note) /\ Len(<< >>) = 0 /\ DOMAIN << >> = {}
    BY EmptyList
  <2>3. Unsent(c)' = << >>
    BY <1>1, <2>1, UnsentIs DEF Unsent
  <2>4. Pendable(pending[c])'
    BY <2>1, <2>2 DEF Pendable
  <2>5. TalkTyped'
    <3>1. pending' \in [Clients -> Seq(Note)] /\ sent' \in [Clients -> Nat]
      BY <1>4, <1>8, <2>2 DEF TalkTyped
    <3>2. ASSUME NEW d \in Clients PROVE sent'[d] <= Len(pending'[d])
      BY <1>4, <2>1, <2>2 DEF TalkTyped
    <3>3. view' \in [Clients -> View] /\ adrift' \subseteq Clients
      BY <1>2, <1>3, <1>4 DEF TalkTyped
    <3> QED
      BY <3>1, <3>2, <3>3 DEF TalkTyped
  <2>6. /\ StageTyped'
        /\ \A d \in Clients : d # c => stage'[d] = stage[d] /\ req'[d] = req[d] /\ idling'[d] = idling[d]
        /\ \/ /\ r.op \in WaitOps /\ stage'[c] = "waiting" /\ req'[c] = r
              /\ idling'[c] => r.op = "EXPUNGE"
           \/ stage'[c] = "none" /\ req'[c] = NoRequest
    BY <1>4, <1>8, ProceedIs
  <2> QED
    BY <2>1, <2>3, <2>4, <2>5, <2>6
<1>9. ASSUME Slow PROVE Told
  <2>1. /\ pending' = pending /\ sent'[c] = Len(pending[c])
        /\ \A d \in Clients : d # c => sent'[d] = sent[d]
    BY <1>4, <1>9 DEF TalkTyped
  <2>2. Unsent(c)' = << >>
    BY <1>1, <2>1, UnsentIs DEF Unsent
  <2>3. Len(pending[c]) \in Nat
    BY <1>1, ListOf
  <2>4. TalkTyped'
    <3>1. pending' \in [Clients -> Seq(Note)] /\ sent' \in [Clients -> Nat]
      BY <1>4, <1>9, <2>3 DEF TalkTyped
    <3>2. ASSUME NEW d \in Clients PROVE sent'[d] <= Len(pending'[d])
      <4>1. CASE d = c
        BY <2>1, <2>3, <4>1
      <4>2. CASE d # c
        BY <1>4, <2>1, <4>2 DEF TalkTyped
      <4> QED
        BY <4>1, <4>2
    <3>3. view' \in [Clients -> View] /\ adrift' \subseteq Clients
      BY <1>2, <1>3, <1>4 DEF TalkTyped
    <3> QED
      BY <3>1, <3>2, <3>3 DEF TalkTyped
  <2>5. /\ StageTyped' /\ stage'[c] = "sending" /\ req'[c] = r /\ ~ idling'[c]
        /\ \A d \in Clients : d # c => stage'[d] = stage[d] /\ req'[d] = req[d] /\ idling'[d] = idling[d]
    BY <1>4, <1>9 DEF StageTyped
  <2>6. Pendable(pending[c])'
    BY <1>2, <2>1
  <2> QED
    BY <2>1, <2>2, <2>4, <2>5, <2>6
<1>10. Told
  BY <1>7, <1>8, <1>9
<1> HIDE DEF Told, Fast, Slow
<1>11. Typed'
  BY <1>6, <1>10 DEF Typed, Told
<1>12. \A d \in Clients : d # c => Still(d)
  BY <1>3, <1>5, <1>10 DEF Still, Told, Registered
<1>13. Modest(c)
  BY <1>10 DEF Told, Modest, Holding, Solitary
<1>14. Place(c)'
  BY <1>4, <1>10 DEF Told, Place, Own, NoRequest, WaitOps, NumberOps, Registered, boxVars
<1>15. Meant(c)'
  <2> SUFFICES ASSUME /\ stage'[c] \in {"sending", "waiting", "working"} /\ req'[c].op \in NumberOps /\ ~ req'[c].uid
                      /\ c \notin adrift' /\ req'[c].meant # Unknown
               PROVE  req'[c].n \in DOMAIN view'[c] /\ view'[c][req'[c].n] = req'[c].meant
    BY DEF Meant
  <2>1. req'[c] = r
    BY <1>10 DEF Told
  <2>2. /\ ~ HasExpunge(pending[c]) /\ r.n \in DOMAIN view[c] /\ view[c][r.n] = r.meant
        /\ Good(c) /\ r.meant # Unknown
    BY <1>3, <2>1 DEF Asks
  <2>3. Flagging(pending[c])
    BY <1>2, <2>2, Flagged
  <2>4. AllCredible(view[c], pending[c])
    BY <1>1, <2>2, Believes
  <2>5. r.n \in DOMAIN h /\ h[r.n] = view[c][r.n]
    BY <1>1, <1>2, <2>2, <2>3, <2>4, KnownKept DEF h
  <2> QED
    BY <1>5, <2>1, <2>2, <2>5
<1>16. Abreast(c)'
  <2>1. Good(c)' => Good(c)
    BY <1>3, <1>4 DEF Good, Connected, Registered, Own, Place
  <2>2. view'[c] = HearAll(view[c], Unsent(c)) /\ Unsent(c)' = << >>
    BY <1>5, <1>10 DEF h, Told
  <2> QED
    BY <2>1, <2>2, AbreastSent
<1>17. Pendable(pending[c])'
  BY <1>10 DEF Told
<1> QED
  BY <1>11, <1>12, <1>13, <1>14, <1>15, <1>16, <1>17, OwnStep

LEMMA PlainIs ==
  ASSUME NEW c \in Clients, NEW op \in Offered[c] \cup {"none", "FETCHED", "MOVED"}
  PROVE  Plain(op) \in Request /\ Plain(op).op = op /\ Plain(op).uid = FALSE /\ Plain(op).meant = Unknown
<1>1. Plain(op) = [op |-> op, uid |-> FALSE, n |-> 0, meant |-> Unknown]
  <2> DEFINE j == NoRequest
  <2>1. j \in Request /\ j.uid = FALSE /\ j.n = 0 /\ j.meant = Unknown
    BY Constants DEF NoRequest
  <2> HIDE DEF j
  <2>2. [j EXCEPT !.op = op] = [op |-> op, uid |-> j.uid, n |-> j.n, meant |-> j.meant]
    BY <2>1 DEF Request
  <2> QED
    BY <2>1, <2>2 DEF Plain, j
<1>2. op \in (UNION {Offered[d] : d \in Clients}) \cup {"FETCHED", "MOVED", "none"}
  OBVIOUS
<1> QED
  BY <1>1, <1>2, Constants DEF Request, Unknown

\* A command that neither goes by number nor holds the mailbox.
LEMMA SendsPlain ==
  ASSUME NEW c \in Clients, NEW r \in Request, SessionInv, SendPending(c, r),
         UNCHANGED <<boxVars, placeVars, walks>>,
         stage[c] \in {"none", "waiting", "working"}, walks[c] = NoWalk,
         r.op \notin NumberOps, r.op # "NOOP"
  PROVE  SessionInv'
<1>1. refusals' \in [Clients -> 0..FetchLimit]
  BY DEF placeVars, SessionInv, Typed, PlaceTyped
<1>2. Asks(c, r)
  BY DEF Asks
<1> QED
  BY <1>1, <1>2, SendsPending DEF placeVars

LEMMA SendingInv ==
  ASSUME NEW c \in Clients, SessionInv,
         \/ DoPlain(c) \/ DoDone(c) \/ DoByName(c) \/ DoCheckOrExpunge(c)
         \/ RunNoop(c) \/ RunCheck(c) \/ FinishFetch(c) \/ FinishAppend(c)
  PROVE  SessionInv'
<1>1. stage[c] # "working" => walks[c] = NoWalk
  BY NotWalking
<1>2. CASE DoPlain(c)
  <2>1. PICK op \in {"LIST", "IDLE"} : Reads(c, op) /\ SendPending(c, Plain(op))
    BY <1>2 DEF DoPlain
  <2>2. UNCHANGED <<boxVars, placeVars, walks>>
    BY <1>2 DEF DoPlain
  <2>3. stage[c] = "none" /\ Plain(op) \in Request /\ Plain(op).op = op
    BY <2>1, PlainIs DEF Reads
  <2> QED
    BY <1>1, <2>1, <2>2, <2>3, SendsPlain DEF NumberOps
<1>3. CASE DoDone(c)
  <2>1. Plain("none") \in Request /\ Plain("none").op = "none"
    BY PlainIs
  <2> QED
    BY <1>1, <1>3, <2>1, SendsPlain DEF DoDone, NumberOps
<1>4. CASE DoByName(c)
  <2>1. PICK op \in {"APPEND", "DELETE"} : Reads(c, op) /\ SendPending(c, Plain(op))
    BY <1>4 DEF DoByName
  <2>2. UNCHANGED <<boxVars, placeVars, walks>>
    BY <1>4 DEF DoByName
  <2>3. stage[c] = "none" /\ Plain(op) \in Request /\ Plain(op).op = op
    BY <2>1, PlainIs DEF Reads
  <2> QED
    BY <1>1, <2>1, <2>2, <2>3, SendsPlain DEF NumberOps
<1>5. CASE DoCheckOrExpunge(c)
  <2>1. PICK op \in {"CHECK", "EXPUNGE"} : Reads(c, op) /\ SendPending(c, Plain(op))
    BY <1>5 DEF DoCheckOrExpunge
  <2>2. UNCHANGED <<boxVars, placeVars, walks>>
    BY <1>5 DEF DoCheckOrExpunge
  <2>3. stage[c] = "none" /\ Plain(op) \in Request /\ Plain(op).op = op
    BY <2>1, PlainIs DEF Reads
  <2> QED
    BY <1>1, <2>1, <2>2, <2>3, SendsPlain DEF NumberOps
<1>6. CASE RunNoop(c)
  <2> DEFINE r == req[c]
  <2>1. r \in Request /\ r.op = "NOOP" /\ stage[c] = "waiting" /\ walks[Task] = NoWalk
    BY <1>6 DEF RunNoop, LetIn, SessionInv, Typed, StageTyped
  <2>2. \A d \in Clients : d # c /\ Holding(d) => req[d].op \notin Solitary
    BY <1>6 DEF RunNoop, LetIn
  <2>3. SendPending(c, r) /\ UNCHANGED <<boxVars, placeVars, walks>>
    BY <1>6 DEF RunNoop
  <2> HIDE DEF r
  <2>4. refusals' \in [Clients -> 0..FetchLimit]
    BY <2>3 DEF placeVars, SessionInv, Typed, PlaceTyped
  <2>5. Asks(c, r) /\ r.op \notin NumberOps
    BY <2>1 DEF Asks, NumberOps
  <2> QED
    BY <1>1, <2>1, <2>2, <2>3, <2>4, <2>5, SendsPending DEF placeVars
<1>7. CASE RunCheck(c)
  <2>1. Plain("none") \in Request /\ Plain("none").op = "none"
    BY PlainIs
  <2> QED
    BY <1>1, <1>7, <2>1, SendsPlain DEF RunCheck, LetIn, NumberOps
<1>8. CASE FinishFetch(c)
  <2> DEFINE r == req[c]
  <2>1. r \in Request /\ r.op = "FETCHED"
    BY <1>8 DEF FinishFetch, SessionInv, Typed, StageTyped
  <2>2. SendPending(c, r) /\ UNCHANGED <<boxVars, placeVars, walks>> /\ stage[c] = "working" /\ walks[c] = NoWalk
    BY <1>8 DEF FinishFetch
  <2> HIDE DEF r
  <2> QED
    BY <2>1, <2>2, SendsPlain DEF NumberOps
<1>9. CASE FinishAppend(c)
  <2>1. Plain("none") \in Request /\ Plain("none").op = "none"
    BY PlainIs
  <2> QED
    BY <1>9, <2>1, SendsPlain DEF FinishAppend, NumberOps
<1> QED
  BY <1>2, <1>3, <1>4, <1>5, <1>6, <1>7, <1>8, <1>9

-----------------------------------------------------------------------------
(* A session that nothing is sent to *)

\* Only what the session is at changes, and perhaps what it has selected.
LEMMA Quiet ==
  ASSUME NEW c \in Clients, SessionInv, UNCHANGED <<boxVars, walks, clients, talkVars>>,
         PlaceTyped', StageTyped', stage[c] # "sending" \/ stage'[c] = "sending",
         \A d \in Clients : d # c => /\ state'[d] = state[d] /\ selected'[d] = selected[d]
                                     /\ stage'[d] = stage[d] /\ req'[d] = req[d] /\ idling'[d] = idling[d],
         Connected(c)' => Connected(c), Modest(c), Place(c)', Meant(c)'
  PROVE  SessionInv'
<1>1. /\ msgs' = msgs /\ walks' = walks /\ clients' = clients
      /\ pending' = pending /\ sent' = sent /\ view' = view /\ adrift' = adrift
  BY DEF boxVars, talkVars
<1>2. Typed'
  BY <1>1 DEF SessionInv, Typed, BoxTyped, ListTyped, WalksTyped, TalkTyped, boxVars
<1>3. \A d \in Clients : d # c => Still(d)
  BY <1>1 DEF Still, Registered
<1>4. Pendable(pending[c])'
  BY <1>1 DEF SessionInv, Own
<1>5. Abreast(c)'
  <2>1. Good(c)' => Good(c)
    BY <1>1 DEF Good, Registered
  <2>2. view'[c] = view[c] /\ Unsent(c)' = Unsent(c)
    BY <1>1 DEF Unsent
  <2> QED
    BY <2>1, <2>2, AbreastOwn
<1> QED
  BY <1>2, <1>3, <1>4, <1>5, OwnStep

\* What a client can ask for is a request.
LEMMA RequestedIs ==
  ASSUME NEW c \in Clients, NEW op \in Offered[c], view[c] \in View, NEW r \in Requested(c, op)
  PROVE  /\ r \in Request /\ r.op = op
         /\ ~ r.uid => r.n \in DOMAIN view[c] /\ view[c][r.n] = r.meant
<1>1. /\ DOMAIN view[c] = 1..Len(view[c]) /\ Len(view[c]) \in Nat /\ Len(view[c]) <= MaxUid
      /\ \A i \in 1..Len(view[c]) : view[c][i] \in 0..MaxUid
  BY ViewsAre
<1>2. op \in (UNION {Offered[d] : d \in Clients}) \cup {"FETCHED", "MOVED", "none"}
  OBVIOUS
<1>3. CASE r \in {[op |-> op, uid |-> FALSE, n |-> n, meant |-> view[c][n]] : n \in DOMAIN view[c]}
  <2>1. PICK n \in DOMAIN view[c] : r = [op |-> op, uid |-> FALSE, n |-> n, meant |-> view[c][n]]
    BY <1>3
  <2>2. n \in 0..MaxUid /\ view[c][n] \in 0..MaxUid
    BY <1>1, Constants
  <2> QED
    BY <1>2, <2>1, <2>2 DEF Request
<1>4. CASE r \in [op : {op}, uid : {TRUE}, n : {0}, meant : ToSet(view[c]) \ {Unknown}]
  <2>1. ToSet(view[c]) \subseteq 0..MaxUid
    BY <1>1 DEF ToSet
  <2>2. 0 \in 0..MaxUid
    BY Constants
  <2>3. r.op = op /\ r.uid = TRUE
    BY <1>4
  <2>4. r \in Request
    BY <1>2, <1>4, <2>1, <2>2 DEF Request
  <2> QED
    BY <2>3, <2>4
<1> QED
  BY <1>3, <1>4 DEF Requested

LEMMA ByNumberInv ==
  ASSUME NEW c \in Clients, SessionInv, DoByNumber(c)
  PROVE  SessionInv'
<1>1. PICK op \in ByNumber : Reads(c, op) /\ selected[c] /\ \E r \in Requested(c, op) :
        /\ ~ Refused(c, r)
        /\ op = "MOVE" => ~ examine[c]
        /\ refusals' = [refusals EXCEPT ![c] = IF op = "FETCH" THEN 0 ELSE @]
        /\ IF op = "SEARCH" /\ ~ PendingExpunges(c)
             THEN /\ req' = [req EXCEPT ![c] = r]
                  /\ stage' = [stage EXCEPT ![c] = "waiting"]
                  /\ UNCHANGED <<idling, talkVars>>
             ELSE SendPending(c, r)
        /\ UNCHANGED <<boxVars, state, selected, examine, reselects, clients, walks>>
  BY DEF DoByNumber
<1>2. PICK r \in Requested(c, op) :
        /\ ~ Refused(c, r)
        /\ refusals' = [refusals EXCEPT ![c] = IF op = "FETCH" THEN 0 ELSE @]
        /\ IF op = "SEARCH" /\ ~ PendingExpunges(c)
             THEN /\ req' = [req EXCEPT ![c] = r]
                  /\ stage' = [stage EXCEPT ![c] = "waiting"]
                  /\ UNCHANGED <<idling, talkVars>>
             ELSE SendPending(c, r)
        /\ UNCHANGED <<boxVars, state, selected, examine, reselects, clients, walks>>
  BY <1>1
<1>3. stage[c] = "none" /\ ~ idling[c] /\ op \in Offered[c] /\ selected[c] /\ walks[c] = NoWalk
  BY <1>1, NotWalking DEF Reads
<1>4. view[c] \in View /\ Own(c) /\ StageTyped /\ PlaceTyped
  BY DEF SessionInv, Typed, TalkTyped
<1>5. /\ r \in Request /\ r.op = op
      /\ ~ r.uid => r.n \in DOMAIN view[c] /\ view[c][r.n] = r.meant
  BY <1>3, <1>4, RequestedIs
<1>6. r.op \in NumberOps /\ ~ r.uid => ~ HasExpunge(pending[c])
  BY <1>2 DEF Refused, NumberOps, PendingExpunges
<1>7. c \notin adrift => Good(c)
  BY <1>3, <1>4 DEF Good, Connected, Own, Place
<1>8. Asks(c, r)
  BY <1>5, <1>6, <1>7 DEF Asks
<1>9. refusals' \in [Clients -> 0..FetchLimit]
  <2>1. 0 \in 0..FetchLimit
    BY Constants
  <2> QED
    BY <1>2, <1>4, <2>1 DEF PlaceTyped
<1>10. r.op # "NOOP"
  BY <1>5 DEF ByNumber
<1>11. CASE SendPending(c, r)
  BY <1>2, <1>3, <1>5, <1>8, <1>9, <1>10, <1>11, SendsPending
<1>12. CASE op = "SEARCH" /\ ~ PendingExpunges(c)
  <2>1. /\ req' = [req EXCEPT ![c] = r] /\ stage' = [stage EXCEPT ![c] = "waiting"]
        /\ idling' = idling /\ UNCHANGED talkVars
        /\ UNCHANGED <<boxVars, state, selected, examine, reselects, clients, walks>>
    BY <1>2, <1>12
  <2>2. PlaceTyped' /\ StageTyped'
    BY <1>4, <1>5, <1>9, <2>1 DEF PlaceTyped, StageTyped
  <2>3. /\ stage'[c] = "waiting" /\ req'[c] = r
        /\ \A d \in Clients : d # c => stage'[d] = stage[d] /\ req'[d] = req[d] /\ idling'[d] = idling[d]
    BY <1>4, <2>1 DEF StageTyped
  <2>4. Place(c)'
    BY <1>3, <1>4, <1>5, <1>12, <2>1, <2>3 DEF Own, Place, Registered, talkVars, boxVars
  <2>5. Meant(c)'
    BY <1>5, <2>1, <2>3 DEF Meant, talkVars
  <2>6. Connected(c)' => Connected(c)
    BY <1>3, <2>1 DEF Connected
  <2>7. Modest(c)
    BY <1>3, <2>3 DEF Modest, Holding
  <2> QED
    BY <1>3, <2>1, <2>2, <2>3, <2>4, <2>5, <2>6, <2>7, Quiet
<1> QED
  BY <1>2, <1>11, <1>12

\* The end of a command.
LEMMA EndsIs ==
  ASSUME StageTyped, NEW c \in Clients, Ends(c)
  PROVE  /\ StageTyped' /\ stage'[c] = "none" /\ req'[c] = NoRequest /\ ~ idling'[c]
         /\ \A d \in Clients : d # c => stage'[d] = stage[d] /\ req'[d] = req[d] /\ idling'[d] = idling[d]
BY Constants DEF Ends, StageTyped

\* A command that ends without a word to the client.
LEMMA EndsInv ==
  ASSUME NEW c \in Clients, SessionInv, Ends(c), UNCHANGED <<boxVars, placeVars, walks, talkVars>>,
         walks[c] = NoWalk, stage[c] \in {"waiting", "working"}
  PROVE  SessionInv'
<1>1. StageTyped /\ PlaceTyped /\ Own(c)
  BY DEF SessionInv, Typed
<1>2. PlaceTyped'
  BY <1>1 DEF PlaceTyped, placeVars
<1>3. /\ StageTyped' /\ stage'[c] = "none" /\ req'[c] = NoRequest /\ ~ idling'[c]
      /\ \A d \in Clients : d # c => stage'[d] = stage[d] /\ req'[d] = req[d] /\ idling'[d] = idling[d]
  BY <1>1, EndsIs
<1>4. Connected(c)' => Connected(c)
  BY <1>1 DEF Connected, placeVars
<1>5. Modest(c)
  BY <1>3 DEF Modest, Holding
<1>6. Place(c)' /\ Meant(c)'
  BY <1>1, <1>3 DEF Own, Place, Meant, Registered, placeVars, talkVars, boxVars
<1> QED
  BY <1>2, <1>3, <1>4, <1>5, <1>6, Quiet DEF placeVars

\* The mailbox lets a command in.
LEMMA BeginsInv ==
  ASSUME NEW c \in Clients, SessionInv, LetIn(c), stage' = [stage EXCEPT ![c] = "working"],
         UNCHANGED <<boxVars, placeVars, walks, idling, req, talkVars>>
  PROVE  SessionInv'
<1>1. StageTyped /\ PlaceTyped /\ Own(c) /\ stage[c] = "waiting" /\ exists
  BY DEF SessionInv, Typed, LetIn
<1>2. PlaceTyped' /\ StageTyped'
  BY <1>1 DEF PlaceTyped, StageTyped, placeVars
<1>3. stage'[c] = "working" /\ \A d \in Clients : d # c => stage'[d] = stage[d]
  BY <1>1 DEF StageTyped
<1>4. walks[c] = NoWalk
  BY <1>1, NotWalking
<1>5. Connected(c)' => Connected(c)
  BY <1>1 DEF Connected, placeVars
<1>6. Modest(c)
  BY <1>4 DEF Modest, LetIn
<1>7. Place(c)' /\ Meant(c)'
  BY <1>1, <1>3 DEF Own, Place, Meant, Registered, placeVars, talkVars, boxVars
<1> QED
  BY <1>1, <1>2, <1>3, <1>5, <1>6, <1>7, Quiet DEF placeVars

LEMMA QuietInv ==
  ASSUME NEW c \in Clients, SessionInv,
         \/ DoNoop(c) \/ GivesUp(c) \/ BeginByNumber(c) \/ FinishMove(c) \/ BeginExpunge(c)
         \/ FinishExpunge(c) \/ Leave(c) \/ Announced(c)
  PROVE  SessionInv'
<1>1. StageTyped /\ PlaceTyped /\ Own(c) /\ (stage[c] # "working" => walks[c] = NoWalk)
  BY NotWalking DEF SessionInv, Typed
<1>2. CASE DoNoop(c)
  <2>1. stage[c] = "none" /\ ~ idling[c] /\ "NOOP" \in Offered[c]
    BY <1>2 DEF DoNoop, Reads
  <2>2. Plain("NOOP") \in Request /\ Plain("NOOP").op = "NOOP"
    BY <2>1, PlainIs
  <2>3. /\ req' = [req EXCEPT ![c] = Plain("NOOP")] /\ stage' = [stage EXCEPT ![c] = "waiting"]
        /\ UNCHANGED <<boxVars, placeVars, walks, idling, talkVars>>
    BY <1>2 DEF DoNoop
  <2>4. PlaceTyped' /\ StageTyped'
    BY <1>1, <2>2, <2>3 DEF PlaceTyped, StageTyped, placeVars
  <2>5. /\ stage'[c] = "waiting" /\ req'[c].op = "NOOP"
        /\ \A d \in Clients : d # c => stage'[d] = stage[d] /\ req'[d] = req[d]
    BY <1>1, <2>2, <2>3 DEF StageTyped
  <2>6. Place(c)' /\ Meant(c)'
    BY <1>1, <2>1, <2>3, <2>5 DEF Own, Place, Meant, NumberOps, Registered, placeVars, talkVars, boxVars
  <2>7. Modest(c) /\ (Connected(c)' => Connected(c))
    BY <1>1, <2>1, <2>3, <2>5 DEF Modest, Holding, Connected, placeVars
  <2> QED
    BY <2>1, <2>3, <2>4, <2>5, <2>6, <2>7, Quiet DEF placeVars
<1>3. CASE GivesUp(c)
  BY <1>1, <1>3, EndsInv DEF GivesUp
<1>4. CASE BeginByNumber(c)
  BY <1>4, BeginsInv DEF BeginByNumber
<1>5. CASE BeginExpunge(c)
  BY <1>5, BeginsInv DEF BeginExpunge
<1>6. CASE FinishExpunge(c)
  BY <1>6, EndsInv DEF FinishExpunge
<1>7. CASE FinishMove(c)
  <2> DEFINE u == IF Targets(req[c]) = {} THEN Unknown ELSE msgs[CHOOSE i \in Targets(req[c]) : TRUE]
             r == [Plain("MOVED") EXCEPT !.meant = u]
  <2>1. u \in 0..MaxUid
    <3>1. Targets(req[c]) \subseteq DOMAIN msgs
      BY DEF Targets
    <3>2. \A i \in DOMAIN msgs : msgs[i] \in 0..MaxUid
      BY MailsAre DEF SessionInv, Typed, BoxTyped, Uids
    <3>3. Unknown \in 0..MaxUid
      BY Constants DEF Unknown
    <3> QED
      BY <3>1, <3>2, <3>3
  <2>2. r \in Request /\ r.op = "MOVED"
    <3> DEFINE p == Plain("MOVED")
    <3>1. p \in Request /\ p.op = "MOVED"
      BY PlainIs
    <3> HIDE DEF p, u
    <3>2. [p EXCEPT !.meant = u] = [op |-> p.op, uid |-> p.uid, n |-> p.n, meant |-> u]
      BY <3>1 DEF Request
    <3>3. [p EXCEPT !.meant = u] \in Request /\ [p EXCEPT !.meant = u].op = "MOVED"
      BY <2>1, <3>1, <3>2 DEF Request
    <3> QED
      BY <3>3 DEF p
  <2>3. /\ stage[c] = "working" /\ req[c].op = "MOVE" /\ stage' = [stage EXCEPT ![c] = "waiting"]
        /\ idling' = [idling EXCEPT ![c] = TRUE] /\ req' = [req EXCEPT ![c] = r]
        /\ UNCHANGED <<boxVars, placeVars, walks, talkVars>>
    BY <1>7 DEF FinishMove
  <2> HIDE DEF u, r
  <2>4. PlaceTyped' /\ StageTyped'
    BY <1>1, <2>2, <2>3 DEF PlaceTyped, StageTyped, placeVars
  <2>5. /\ stage'[c] = "waiting" /\ req'[c].op = "MOVED"
        /\ \A d \in Clients : d # c => stage'[d] = stage[d] /\ req'[d] = req[d] /\ idling'[d] = idling[d]
    BY <1>1, <2>2, <2>3 DEF StageTyped
  <2>6. Place(c)' /\ Meant(c)'
    BY <1>1, <2>3, <2>5 DEF Own, Place, Meant, NumberOps, Registered, placeVars, talkVars, boxVars
  <2>7. walks[c] = NoWalk
    BY <2>3 DEF SessionInv, Alone
  <2>8. Modest(c) /\ (Connected(c)' => Connected(c))
    BY <1>1, <2>3, <2>5, <2>7 DEF Modest, Holding, Connected, placeVars
  <2> QED
    BY <2>3, <2>4, <2>5, <2>6, <2>8, Quiet DEF placeVars
<1>8. CASE Leave(c)
  <2>1. /\ stage[c] = "none" /\ stage' = [stage EXCEPT ![c] = "closing"]
        /\ UNCHANGED <<boxVars, placeVars, walks, idling, req, talkVars>>
    BY <1>8 DEF Leave
  <2>2. PlaceTyped' /\ StageTyped'
    BY <1>1, <2>1 DEF PlaceTyped, StageTyped, placeVars
  <2>3. stage'[c] = "closing" /\ \A d \in Clients : d # c => stage'[d] = stage[d]
    BY <1>1, <2>1 DEF StageTyped
  <2>4. Place(c)' /\ Meant(c)'
    BY <1>1, <2>1, <2>3 DEF Own, Place, Meant, Registered, placeVars, talkVars, boxVars
  <2>5. Modest(c) /\ (Connected(c)' => Connected(c))
    BY <1>1, <2>1, <2>3 DEF Modest, Holding, Connected
  <2> QED
    BY <2>1, <2>2, <2>3, <2>4, <2>5, Quiet DEF placeVars
<1>9. CASE Announced(c)
  <2>1. /\ stage[c] = "announcing" /\ selected' = [selected EXCEPT ![c] = TRUE]
        /\ state' = [state EXCEPT ![c] = "selected"]
        /\ examine' = [examine EXCEPT ![c] = req[c].op = "EXAMINE"] /\ Ends(c)
        /\ UNCHANGED <<boxVars, refusals, reselects, clients, walks, talkVars>>
    BY <1>9 DEF Announced
  <2>2. /\ StageTyped' /\ stage'[c] = "none" /\ req'[c] = NoRequest /\ ~ idling'[c]
        /\ \A d \in Clients : d # c => stage'[d] = stage[d] /\ req'[d] = req[d] /\ idling'[d] = idling[d]
    BY <1>1, <2>1, EndsIs
  <2>3. PlaceTyped'
    BY <1>1, <2>1 DEF PlaceTyped
  <2>4. state'[c] = "selected" /\ \A d \in Clients : d # c => state'[d] = state[d] /\ selected'[d] = selected[d]
    BY <1>1, <2>1 DEF PlaceTyped
  <2>5. Place(c)' /\ Meant(c)'
    BY <1>1, <2>1, <2>2, <2>4 DEF Own, Place, Meant, Registered, talkVars, boxVars
  <2>6. Modest(c) /\ (Connected(c)' => Connected(c))
    BY <1>1, <2>1, <2>2 DEF Modest, Holding, Connected, Own, Place
  <2> QED
    BY <2>1, <2>2, <2>3, <2>4, <2>5, <2>6, Quiet
<1> QED
  BY <1>2, <1>3, <1>4, <1>5, <1>6, <1>7, <1>8, <1>9

-----------------------------------------------------------------------------
(* A session that leaves the mailbox *)

\* It is no longer in the list; the others are.
LEMMA WithoutIs ==
  ASSUME NEW c \in Clients, ListTyped, clients' = Without(c)
  PROVE  /\ ListTyped' /\ ~ Registered(c)'
         /\ \A d \in Clients : d # c => (Registered(d)' <=> Registered(d))
<1>1. clients \in Seq(Clients) /\ IsInjective(clients) /\ clients' = Outside(clients, {c})
  BY DEF ListTyped, Without
<1>2. clients' \in Seq(Clients) /\ IsInjective(clients') /\ ToSet(clients') = ToSet(clients) \ {c}
  BY <1>1, OutsideIs
<1> QED
  BY <1>2 DEF ListTyped, Registered

LEMMA Departs ==
  ASSUME NEW c \in Clients, SessionInv, clients' = Without(c), UNCHANGED <<boxVars, walks>>,
         PlaceTyped', StageTyped', TalkTyped',
         \A d \in Clients : d # c =>
           /\ state'[d] = state[d] /\ selected'[d] = selected[d] /\ idling'[d] = idling[d]
           /\ req'[d] = req[d] /\ stage'[d] = stage[d] /\ (d \in adrift' <=> d \in adrift)
           /\ pending'[d] = pending[d] /\ sent'[d] = sent[d] /\ view'[d] = view[d],
         walks[c] = NoWalk, stage'[c] \in {"none", "waiting", "closing"},
         Place(c)', Meant(c)', Pendable(pending[c])'
  PROVE  SessionInv'
<1>1. /\ ListTyped' /\ ~ Registered(c)'
      /\ \A d \in Clients : d # c => (Registered(d)' <=> Registered(d))
  BY WithoutIs DEF SessionInv, Typed
<1>2. Typed'
  BY <1>1 DEF SessionInv, Typed, BoxTyped, WalksTyped, boxVars
<1>3. \A d \in Clients : d # c => Still(d)
  BY <1>1 DEF Still
<1>4. Modest(c)
  BY DEF Modest, Holding
<1>5. Abreast(c)'
  BY <1>1 DEF Abreast, Good
<1> QED
  BY <1>2, <1>3, <1>4, <1>5, OwnStep

\* unceremonious_bye.
LEMMA ByeInv ==
  ASSUME NEW c \in Clients, SessionInv, Bye(c), stage[c] = "none", ~ idling[c],
         refusals' = refusals, reselects' \in [Clients -> 0..SelectLimit]
  PROVE  SessionInv'
<1>1. StageTyped /\ PlaceTyped /\ TalkTyped /\ Own(c) /\ walks[c] = NoWalk
  BY NotWalking DEF SessionInv, Typed
<1>2. /\ clients' = Without(c) /\ selected' = [selected EXCEPT ![c] = FALSE]
      /\ state' = [state EXCEPT ![c] = "logged_out"] /\ stage' = [stage EXCEPT ![c] = "closing"]
      /\ UNCHANGED <<boxVars, walks, idling, examine, req, talkVars>>
  BY DEF Bye
<1>3. PlaceTyped' /\ StageTyped' /\ TalkTyped'
  <2>1. PlaceTyped'
    BY <1>1, <1>2 DEF PlaceTyped
  <2>2. StageTyped'
    BY <1>1, <1>2 DEF StageTyped
  <2>3. TalkTyped'
    BY <1>1, <1>2 DEF TalkTyped, talkVars
  <2> QED
    BY <2>1, <2>2, <2>3
<1>4. /\ stage'[c] = "closing" /\ ~ selected'[c]
      /\ \A d \in Clients : d # c => state'[d] = state[d] /\ selected'[d] = selected[d] /\ stage'[d] = stage[d]
  BY <1>1, <1>2 DEF StageTyped, PlaceTyped
<1>5. Place(c)' /\ Meant(c)' /\ Pendable(pending[c])'
  BY <1>1, <1>2, <1>4 DEF Own, Place, Meant, talkVars
<1> QED
  BY <1>1, <1>2, <1>3, <1>4, <1>5, Departs DEF talkVars

\* The list of a session that looks at nothing.
LEMMA TalksNoMore ==
  ASSUME NEW c \in Clients, TalkTyped, sent'[c] = 0, UNCHANGED sent,
         pending' = [pending EXCEPT ![c] = << >>], view' = [view EXCEPT ![c] = << >>],
         adrift' = adrift \ {c}
  PROVE  /\ TalkTyped' /\ pending'[c] = << >> /\ Pendable(pending[c])'
         /\ \A d \in Clients : d # c => /\ pending'[d] = pending[d] /\ view'[d] = view[d]
                                        /\ d \in adrift' <=> d \in adrift
<1>1. /\ pending'[c] = << >> /\ view'[c] = << >>
      /\ \A d \in Clients : d # c => pending'[d] = pending[d] /\ view'[d] = view[d]
  BY DEF TalkTyped
<1>2. << >> \in Seq(Note) /\ Len(<< >>) = 0 /\ DOMAIN << >> = {} /\ << >> \in View
  BY EmptyList, Constants DEF View
<1>3. TalkTyped'
  <2>1. pending' \in [Clients -> Seq(Note)] /\ sent' \in [Clients -> Nat] /\ adrift' \subseteq Clients
    BY <1>2 DEF TalkTyped
  <2>2. view' \in [Clients -> View]
    BY <1>2 DEF TalkTyped
  <2>3. ASSUME NEW d \in Clients PROVE sent'[d] <= Len(pending'[d])
    BY <1>1, <1>2 DEF TalkTyped
  <2> QED
    BY <2>1, <2>2, <2>3 DEF TalkTyped
<1>4. Pendable(pending[c])'
  BY <1>1, <1>2 DEF Pendable
<1> QED
  BY <1>1, <1>3, <1>4

\* Leaving what was selected, and going on to something else.
LEMMA DeselectInv ==
  ASSUME NEW c \in Clients, SessionInv, Deselect(c), stage[c] = "none", ~ idling[c],
         UNCHANGED <<boxVars, walks, idling, examine, refusals, sent>>,
         reselects' \in [Clients -> 0..SelectLimit], StageTyped',
         \A d \in Clients : d # c => stage'[d] = stage[d] /\ req'[d] = req[d],
         stage'[c] \in {"none", "waiting"}, stage'[c] = "waiting" => req'[c].op \notin NumberOps
  PROVE  SessionInv'
<1>1. StageTyped /\ PlaceTyped /\ TalkTyped /\ Own(c) /\ walks[c] = NoWalk /\ ListTyped
  BY NotWalking DEF SessionInv, Typed
<1>2. /\ clients' = Without(c) /\ selected' = [selected EXCEPT ![c] = FALSE]
      /\ state' = [state EXCEPT ![c] = "authenticated"]
      /\ pending' = [pending EXCEPT ![c] = << >>] /\ view' = [view EXCEPT ![c] = << >>]
      /\ adrift' = adrift \ {c}
  BY DEF Deselect
<1>3. sent[c] = 0
  BY UnsentAll
<1>4. /\ TalkTyped' /\ pending'[c] = << >> /\ Pendable(pending[c])'
      /\ \A d \in Clients : d # c => /\ pending'[d] = pending[d] /\ view'[d] = view[d]
                                     /\ d \in adrift' <=> d \in adrift
  BY <1>1, <1>2, <1>3, TalksNoMore
<1>5. PlaceTyped'
  BY <1>1, <1>2 DEF PlaceTyped
<1>6. /\ ~ selected'[c] /\ state'[c] = "authenticated"
      /\ \A d \in Clients : d # c => state'[d] = state[d] /\ selected'[d] = selected[d]
  BY <1>1, <1>2 DEF PlaceTyped
<1>7. ~ Registered(c)'
  BY <1>1, <1>2, WithoutIs
<1>8. Place(c)' /\ Meant(c)'
  BY <1>1, <1>3, <1>4, <1>6, <1>7 DEF Place, Meant
<1> QED
  BY <1>1, <1>2, <1>4, <1>5, <1>6, <1>8, Departs

LEMMA LeavingInv ==
  ASSUME NEW c \in Clients, SessionInv,
         \/ DoOnDeleted(c) \/ DoFetchRefused(c) \/ DoUnselect(c) \/ DoSelect(c) \/ DoClose(c)
         \/ DoLogout(c) \/ Gone(c)
  PROVE  SessionInv'
<1>1. StageTyped /\ PlaceTyped /\ TalkTyped /\ Own(c) /\ (stage[c] # "working" => walks[c] = NoWalk)
  BY NotWalking DEF SessionInv, Typed
<1>2. CASE DoOnDeleted(c)
  <2>1. stage[c] = "none" /\ ~ idling[c] /\ Bye(c) /\ refusals' = refusals /\ reselects' = reselects
    BY <1>2 DEF DoOnDeleted, Reads
  <2> QED
    BY <1>1, <2>1, ByeInv DEF PlaceTyped
<1>3. CASE DoFetchRefused(c)
  <2>1. stage[c] = "none" /\ ~ idling[c]
    BY <1>3 DEF DoFetchRefused, Reads
  <2>2. CASE refusals[c] = FetchLimit
    <3>1. Bye(c) /\ refusals' = refusals /\ reselects' = reselects
      BY <1>3, <2>2 DEF DoFetchRefused
    <3> QED
      BY <1>1, <2>1, <3>1, ByeInv DEF PlaceTyped
  <2>3. CASE refusals[c] # FetchLimit
    <3>1. /\ refusals' = [refusals EXCEPT ![c] = @ + 1]
          /\ UNCHANGED <<boxVars, state, selected, examine, reselects, clients,
                         walks, idling, req, stage, talkVars>>
      BY <1>3, <2>3 DEF DoFetchRefused
    <3>2. refusals[c] + 1 \in 0..FetchLimit
      <4>1. refusals[c] \in 0..FetchLimit /\ FetchLimit \in Nat
        BY <1>1, Constants DEF PlaceTyped
      <4> QED
        BY <2>3, <4>1
    <3>3. PlaceTyped' /\ StageTyped'
      <4>1. refusals' \in [Clients -> 0..FetchLimit]
        BY <1>1, <3>1, <3>2 DEF PlaceTyped
      <4> QED
        BY <1>1, <3>1, <4>1 DEF PlaceTyped, StageTyped
    <3>4. Place(c)' /\ Meant(c)'
      BY <1>1, <3>1 DEF Own, Place, Meant, Registered, talkVars, boxVars
    <3>5. Modest(c) /\ (Connected(c)' => Connected(c))
      BY <1>1, <2>1, <3>1 DEF Modest, Holding, Connected
    <3> QED
      BY <2>1, <3>1, <3>3, <3>4, <3>5, Quiet
  <2> QED
    BY <2>2, <2>3
<1>4. CASE DoUnselect(c)
  <2>1. /\ stage[c] = "none" /\ ~ idling[c] /\ Deselect(c) /\ reselects' = [reselects EXCEPT ![c] = 0]
        /\ UNCHANGED <<boxVars, examine, refusals, walks, idling, req, stage, sent>>
    BY <1>4 DEF DoUnselect, Reads
  <2>2. reselects' \in [Clients -> 0..SelectLimit] /\ StageTyped'
    <3>1. 0 \in 0..SelectLimit
      BY Constants
    <3> QED
      BY <1>1, <2>1, <3>1 DEF PlaceTyped, StageTyped
  <2> QED
    BY <2>1, <2>2, DeselectInv
<1>5. CASE DoSelect(c)
  <2>1. PICK op \in {"SELECT", "EXAMINE"} :
          /\ Reads(c, op)
          /\ IF selected[c] /\ reselects[c] = SelectLimit
               THEN /\ Bye(c)
                    /\ reselects' = [reselects EXCEPT ![c] = 0]
                    /\ UNCHANGED refusals
               ELSE /\ reselects' = [reselects EXCEPT ![c] = IF selected[c] THEN @ + 1 ELSE @]
                    /\ Deselect(c)
                    /\ req' = [req EXCEPT ![c] = IF exists THEN Plain(op) ELSE NoRequest]
                    /\ stage' = [stage EXCEPT ![c] = IF exists THEN "waiting" ELSE "none"]
                    /\ UNCHANGED <<boxVars, examine, refusals, walks, idling, sent>>
    BY <1>5 DEF DoSelect
  <2>2. stage[c] = "none" /\ ~ idling[c] /\ op \in Offered[c]
    BY <2>1 DEF Reads
  <2>3. CASE selected[c] /\ reselects[c] = SelectLimit
    <3>1. Bye(c) /\ refusals' = refusals /\ reselects' = [reselects EXCEPT ![c] = 0]
      BY <2>1, <2>3
    <3>2. reselects' \in [Clients -> 0..SelectLimit]
      <4>1. 0 \in 0..SelectLimit
        BY Constants
      <4> QED
        BY <1>1, <3>1, <4>1 DEF PlaceTyped
    <3> QED
      BY <2>2, <3>1, <3>2, ByeInv
  <2>4. CASE ~ (selected[c] /\ reselects[c] = SelectLimit)
    <3> DEFINE k == IF selected[c] THEN reselects[c] + 1 ELSE reselects[c]
               q == IF exists THEN Plain(op) ELSE NoRequest
               s == IF exists THEN "waiting" ELSE "none"
    <3>1. /\ reselects' = [reselects EXCEPT ![c] = k] /\ Deselect(c)
          /\ req' = [req EXCEPT ![c] = q] /\ stage' = [stage EXCEPT ![c] = s]
          /\ UNCHANGED <<boxVars, examine, refusals, walks, idling, sent>>
      BY <2>1, <2>4
    <3>2. k \in 0..SelectLimit
      <4>1. reselects[c] \in 0..SelectLimit /\ SelectLimit \in Nat
        BY <1>1, Constants DEF PlaceTyped
      <4> QED
        BY <2>4, <4>1
    <3>3. q \in Request /\ q.op \notin NumberOps /\ s \in {"none", "waiting"}
      <4>1. Plain(op) \in Request /\ Plain(op).op = op
        BY <2>2, PlainIs
      <4> QED
        BY <4>1, Constants DEF NumberOps
    <3> HIDE DEF k, q, s
    <3>4. reselects' \in [Clients -> 0..SelectLimit]
      BY <1>1, <3>1, <3>2 DEF PlaceTyped
    <3>5. /\ StageTyped' /\ stage'[c] = s /\ req'[c] = q
          /\ \A d \in Clients : d # c => stage'[d] = stage[d] /\ req'[d] = req[d]
      BY <1>1, <3>1, <3>3 DEF StageTyped
    <3> QED
      BY <2>2, <3>1, <3>3, <3>4, <3>5, DeselectInv
  <2> QED
    BY <2>3, <2>4
<1>6. CASE DoClose(c)
  <2> DEFINE purges == selected[c] /\ ~ examine[c] /\ flagged # {}
             q == IF purges THEN Plain("CLOSE") ELSE NoRequest
             s == IF purges THEN "waiting" ELSE "none"
  <2>1. /\ stage[c] = "none" /\ ~ idling[c] /\ "CLOSE" \in Offered[c] /\ Deselect(c)
        /\ req' = [req EXCEPT ![c] = q] /\ stage' = [stage EXCEPT ![c] = s]
        /\ UNCHANGED <<boxVars, examine, refusals, reselects, walks, idling, sent>>
    BY <1>6 DEF DoClose, Reads
  <2>2. q \in Request /\ q.op \notin NumberOps /\ s \in {"none", "waiting"}
    <3>1. Plain("CLOSE") \in Request /\ Plain("CLOSE").op = "CLOSE"
      BY <2>1, PlainIs
    <3> QED
      BY <3>1, Constants DEF NumberOps
  <2> HIDE DEF q, s
  <2>3. reselects' \in [Clients -> 0..SelectLimit]
    BY <1>1, <2>1 DEF PlaceTyped
  <2>4. /\ StageTyped' /\ stage'[c] = s /\ req'[c] = q
        /\ \A d \in Clients : d # c => stage'[d] = stage[d] /\ req'[d] = req[d]
    BY <1>1, <2>1, <2>2 DEF StageTyped
  <2> QED
    BY <2>1, <2>2, <2>3, <2>4, DeselectInv
<1>7. CASE DoLogout(c)
  <2>1. /\ stage[c] = "none" /\ ~ idling[c] /\ pending' = [pending EXCEPT ![c] = << >>]
        /\ state' = [state EXCEPT ![c] = "logged_out"] /\ stage' = [stage EXCEPT ![c] = "closing"]
        /\ UNCHANGED <<boxVars, selected, examine, refusals, reselects, clients, walks, idling, req, sent, view, adrift>>
    BY <1>7 DEF DoLogout, Reads
  <2>2. sent[c] = 0
    BY <2>1, UnsentAll
  <2>3. /\ pending'[c] = << >> /\ \A d \in Clients : d # c => pending'[d] = pending[d]
    BY <1>1, <2>1 DEF TalkTyped
  <2>4. << >> \in Seq(Note) /\ Len(<< >>) = 0 /\ DOMAIN << >> = {}
    BY EmptyList
  <2>5. TalkTyped'
    <3>1. pending' \in [Clients -> Seq(Note)]
      BY <1>1, <2>1, <2>4 DEF TalkTyped
    <3>2. ASSUME NEW d \in Clients PROVE sent'[d] <= Len(pending'[d])
      BY <1>1, <2>1, <2>2, <2>3, <2>4 DEF TalkTyped
    <3> QED
      BY <1>1, <2>1, <3>1, <3>2 DEF TalkTyped
  <2>6. PlaceTyped' /\ StageTyped'
    BY <1>1, <2>1 DEF PlaceTyped, StageTyped
  <2>7. /\ stage'[c] = "closing" /\ state'[c] = "logged_out"
        /\ \A d \in Clients : d # c => state'[d] = state[d] /\ stage'[d] = stage[d]
    BY <1>1, <2>1 DEF StageTyped, PlaceTyped
  <2>8. Typed'
    BY <2>1, <2>5, <2>6 DEF SessionInv, Typed, BoxTyped, ListTyped, WalksTyped, boxVars
  <2>9. \A d \in Clients : d # c => Still(d)
    BY <2>1, <2>3, <2>7 DEF Still, Registered
  <2>10. Place(c)' /\ Meant(c)' /\ Pendable(pending[c])' /\ Abreast(c)' /\ Modest(c)
    <3>1. Place(c)' /\ Meant(c)'
      BY <1>1, <2>1, <2>2, <2>7 DEF Own, Place, Meant, Registered
    <3>2. Pendable(pending[c])'
      BY <2>3, <2>4 DEF Pendable
    <3>3. Abreast(c)' /\ Modest(c)
      BY <1>1, <2>1, <2>7 DEF Abreast, Good, Connected, Modest, Holding
    <3> QED
      BY <3>1, <3>2, <3>3
  <2> QED
    BY <2>1, <2>8, <2>9, <2>10, OwnStep
<1>8. CASE Gone(c)
  <2>1. /\ stage[c] = "closing" /\ walks[c] = NoWalk /\ clients' = Without(c)
        /\ state' = [state EXCEPT ![c] = "authenticated"] /\ selected' = [selected EXCEPT ![c] = FALSE]
        /\ idling' = [idling EXCEPT ![c] = FALSE] /\ examine' = [examine EXCEPT ![c] = FALSE]
        /\ refusals' = [refusals EXCEPT ![c] = 0] /\ reselects' = [reselects EXCEPT ![c] = 0]
        /\ pending' = [pending EXCEPT ![c] = << >>] /\ req' = [req EXCEPT ![c] = NoRequest]
        /\ stage' = [stage EXCEPT ![c] = "none"] /\ view' = [view EXCEPT ![c] = << >>]
        /\ adrift' = adrift \ {c} /\ UNCHANGED <<boxVars, walks, sent>>
    BY <1>8 DEF Gone
  <2>2. sent[c] = 0
    BY <2>1, UnsentAll
  <2>3. /\ TalkTyped' /\ pending'[c] = << >> /\ Pendable(pending[c])'
        /\ \A d \in Clients : d # c => /\ pending'[d] = pending[d] /\ view'[d] = view[d]
                                       /\ d \in adrift' <=> d \in adrift
    BY <1>1, <2>1, <2>2, TalksNoMore
  <2>4. PlaceTyped' /\ StageTyped'
    <3>1. 0 \in 0..SelectLimit /\ 0 \in 0..FetchLimit
      BY Constants
    <3>2. PlaceTyped'
      BY <1>1, <2>1, <3>1 DEF PlaceTyped
    <3>3. StageTyped'
      BY <1>1, <2>1, Constants DEF StageTyped
    <3> QED
      BY <3>2, <3>3
  <2>5. /\ stage'[c] = "none" /\ state'[c] = "authenticated" /\ ~ selected'[c] /\ ~ idling'[c]
        /\ \A d \in Clients : d # c => /\ state'[d] = state[d] /\ selected'[d] = selected[d]
                                       /\ idling'[d] = idling[d] /\ req'[d] = req[d] /\ stage'[d] = stage[d]
    BY <1>1, <2>1 DEF StageTyped, PlaceTyped
  <2>6. Place(c)' /\ Meant(c)'
    BY <2>1, <2>2, <2>5 DEF Place, Meant
  <2> QED
    BY <2>1, <2>3, <2>4, <2>5, <2>6, Departs
<1> QED
  BY <1>2, <1>3, <1>4, <1>5, <1>6, <1>7, <1>8

-----------------------------------------------------------------------------
(* Answers, and the end of a drain() *)

\* FETCH notes for some of the messages, each with its number.
LEMMA ResponsesAre ==
  ASSUME msgs \in Mails, NEW r
  PROVE  /\ Responses(r) \in Seq(Note) /\ Numbered(msgs, Responses(r))
         /\ Targets(r) # {} => Responses(r) # << >>
<1> DEFINE T == Targets(r)
           S == {Flags(i, msgs[i]) : i \in T}
           g == [i \in T |-> Flags(i, msgs[i])]
<1>1. /\ DOMAIN msgs = 1..Len(msgs) /\ Len(msgs) \in Nat /\ Len(msgs) <= MaxUid
      /\ \A i \in 1..Len(msgs) : msgs[i] \in Uids
  BY MailsAre
<1>2. T \in SUBSET DOMAIN msgs
  BY DEF Targets
<1>3. IsFiniteSet(T)
  <2>1. IsFiniteSet(1..Len(msgs))
    BY <1>1, FS_Interval
  <2> HIDE DEF T
  <2> QED
    BY <1>1, <1>2, <2>1, FS_Subset
<1>4. IsFiniteSet(S)
  <2>1. g \in Surjection(T, S)
    <3>1. g \in [T -> S]
      OBVIOUS
    <3>2. \A s \in S : \E i \in T : g[i] = s
      OBVIOUS
    <3> HIDE DEF T, S, g
    <3> QED
      BY <3>1, <3>2 DEF Surjection
  <2> HIDE DEF T, S, g
  <2> QED
    BY <1>3, <2>1, FS_Surjection
<1>5. ASSUME NEW s \in S
      PROVE  /\ s \in Note /\ s.type = "FETCH" /\ s.n \in DOMAIN msgs /\ s.uid = msgs[s.n]
  <2>1. PICK i \in T : s = Flags(i, msgs[i])
    OBVIOUS
  <2>2. i \in 1..Len(msgs) /\ i \in 0..MaxUid /\ msgs[i] \in 0..MaxUid
    BY <1>1, <1>2, Constants DEF Uids
  <2> QED
    BY <1>1, <2>1, <2>2 DEF Flags, Note
<1>6. /\ SetToSeq(S) \in Seq(S) /\ \A x \in S : \E i \in DOMAIN SetToSeq(S) : SetToSeq(S)[i] = x
  BY <1>4, EnumIs
<1> DEFINE q == SetToSeq(S)
<1>7. Responses(r) = q
  BY DEF Responses
<1>8. S # {} <=> T # {}
  OBVIOUS
<1> HIDE DEF S, q
<1>9. q \in Seq(S) /\ \A x \in S : \E i \in DOMAIN q : q[i] = x
  BY <1>6 DEF q
<1>10. DOMAIN q = 1..Len(q) /\ Len(q) \in Nat /\ \A i \in 1..Len(q) : q[i] \in S
  BY <1>9, ListOf
<1>11. q \in Seq(Note)
  <2>1. q \in [1..Len(q) -> Note]
    <3>1. q = [i \in 1..Len(q) |-> q[i]]
      BY <1>9, LenProperties
    <3> QED
      BY <1>5, <1>10, <3>1
  <2> QED
    BY <1>10, <2>1, SeqDef
<1>12. Numbered(msgs, q)
  BY <1>5, <1>10 DEF Numbered
<1>13. T # {} => q # << >>
  BY <1>8, <1>9, EmptyList
<1> QED
  BY <1>7, <1>11, <1>12, <1>13

\* A session that holds the mailbox with others is told of flags.
LEMMA TellsOne ==
  ASSUME NEW c \in Clients, SessionInv, Holding(c), req[c].op \notin Solitary,
         NEW notes \in Seq(Note), Numbered(msgs, notes), Tell({c}, notes)
  PROVE  /\ view' \in [Clients -> View] /\ adrift' \subseteq Clients
         /\ \A d \in Clients : d # c => view'[d] = view[d] /\ (d \in adrift' <=> d \in adrift)
         /\ Registered(c) /\ Connected(c) /\ c \notin adrift'
              => Good(c) /\ Follows(view'[c], Unsent(c), msgs)
<1>1. /\ view' = [d \in Clients |-> IF d \in {c} THEN HearAll(view[d], notes) ELSE view[d]]
      /\ adrift' = adrift \cup {d \in {c} : Overtakes(d, notes)}
  BY DEF Tell
<1>2. TalkTyped /\ Abreast(c)
  BY DEF SessionInv, Typed, Own
<1>3. HearAll(view[c], notes) \in View
  BY <1>2, HearAllView DEF TalkTyped
<1>4. view'[c] = HearAll(view[c], notes)
  BY <1>1
<1>5. view' \in [Clients -> View]
  BY <1>1, <1>2, <1>3 DEF TalkTyped
<1>6. \A d \in Clients : d # c => view'[d] = view[d] /\ (d \in adrift' <=> d \in adrift)
  BY <1>1
<1>7. adrift' \subseteq Clients
  BY <1>1, <1>2 DEF TalkTyped
<1>8. ASSUME Registered(c), Connected(c), c \notin adrift'
      PROVE  Good(c) /\ Follows(view'[c], Unsent(c), msgs)
  <2>1. Good(c) /\ ~ Overtakes(c, notes)
    BY <1>1, <1>8 DEF Good
  <2>2. Follows(view[c], Unsent(c), msgs)
    BY <1>2, <2>1, NoNews, AbreastNow
  <2>3. Unsent(c) \in Seq(Note) /\ Pendable(Unsent(c)) /\ view[c] \in View /\ msgs \in Mails
    BY UnsentPends
  <2>4. Brings(notes, msgs, msgs)
    BY DEF Brings
  <2>5. Follows(HearAll(view[c], notes), Unsent(c), msgs)
    BY <2>1, <2>2, <2>3, <2>4, AtOnceFollows DEF Overtakes
  <2> QED
    BY <1>4, <2>1, <2>5
<1> QED
  BY <1>5, <1>6, <1>7, <1>8

\* COPY ends unheard, STORE and SEARCH with an answer.
LEMMA AnsweringInv ==
  ASSUME NEW c \in Clients, SessionInv, FinishOthers(c)
  PROVE  SessionInv'
<1>1. /\ stage[c] = "working" /\ req[c].op \in {"STORE", "SEARCH", "COPY"} /\ walks[c] = NoWalk
      /\ Ends(c) /\ UNCHANGED <<boxVars, placeVars, walks, pending, sent>>
      /\ Tell({c}, Responses(req[c])) \/ UNCHANGED <<view, adrift>>
  BY DEF FinishOthers
<1>2. CASE UNCHANGED <<view, adrift>>
  BY <1>1, <1>2, EndsInv DEF talkVars
<1>3. CASE Tell({c}, Responses(req[c]))
  <2>1. StageTyped /\ PlaceTyped /\ TalkTyped /\ Own(c) /\ msgs \in Mails
    BY DEF SessionInv, Typed, BoxTyped
  <2>2. Responses(req[c]) \in Seq(Note) /\ Numbered(msgs, Responses(req[c]))
    BY <2>1, ResponsesAre
  <2>3. Holding(c) /\ req[c].op \notin Solitary
    BY <1>1 DEF Holding, Solitary
  <2>4. /\ view' \in [Clients -> View] /\ adrift' \subseteq Clients
        /\ \A d \in Clients : d # c => view'[d] = view[d] /\ (d \in adrift' <=> d \in adrift)
        /\ Registered(c) /\ Connected(c) /\ c \notin adrift'
             => Good(c) /\ Follows(view'[c], Unsent(c), msgs)
    BY <1>3, <2>2, <2>3, TellsOne
  <2>5. /\ StageTyped' /\ stage'[c] = "none" /\ req'[c] = NoRequest /\ ~ idling'[c]
        /\ \A d \in Clients : d # c => stage'[d] = stage[d] /\ req'[d] = req[d] /\ idling'[d] = idling[d]
    BY <1>1, <2>1, EndsIs
  <2>6. Typed'
    <3>1. PlaceTyped' /\ TalkTyped'
      BY <1>1, <2>1, <2>4 DEF PlaceTyped, TalkTyped, placeVars
    <3> QED
      BY <1>1, <2>5, <3>1 DEF SessionInv, Typed, BoxTyped, ListTyped, WalksTyped, boxVars, placeVars
  <2>7. \A d \in Clients : d # c => Still(d)
    BY <1>1, <2>4, <2>5 DEF Still, Registered, placeVars
  <2>8. Modest(c)
    BY <1>1, <2>5 DEF Modest, Holding
  <2>9. Place(c)' /\ Meant(c)' /\ Pendable(pending[c])'
    BY <1>1, <2>1, <2>5 DEF Own, Place, Meant, Registered, placeVars, boxVars
  <2>10. Abreast(c)'
    <3> SUFFICES ASSUME Good(c)' PROVE Abreast(c)'
      BY DEF Abreast
    <3>1. Registered(c) /\ Connected(c) /\ c \notin adrift'
      BY <1>1 DEF Good, Registered, Connected, placeVars
    <3>2. Follows(view'[c], Unsent(c)', msgs')
      BY <1>1, <2>4, <3>1 DEF Unsent, boxVars
    <3>3. \A w \in Walkers : ~ Renumbers(w)'
      BY <1>1, <2>3, NoNews DEF Renumbers
    <3> QED
      BY <3>2, <3>3 DEF Abreast
  <2> QED
    BY <1>1, <2>6, <2>7, <2>8, <2>9, <2>10, OwnStep
<1> QED
  BY <1>1, <1>2, <1>3

\* What may be dropped without the client missing it.
LEMMA DroppedFollows ==
  ASSUME NEW v \in View, NEW l \in Seq(Uids), NEW owed \in Seq(Note),
         Pendable(owed), ~ HasExpunge(owed), Follows(v, owed, l)
  PROVE  Follows(v, << >>, l)
<1>1. l \in Mails
  BY FollowedMails
<1>2. Flagging(owed)
  BY Flagged
<1>3. Knows(v, l)
  BY <1>1, <1>2, FollowsNumbered
<1> QED
  BY <1>3, OneNote DEF Follows

LEMMA DrainedInv ==
  ASSUME NEW c \in Clients, SessionInv, Drained(c)
  PROVE  SessionInv'
<1>1. /\ stage[c] = "sending" /\ Proceed(c, req[c])
      /\ adrift' = (IF HasExpunge(Unsent(c)) THEN adrift \cup {c} ELSE adrift)
      /\ pending' = [pending EXCEPT ![c] = << >>] /\ sent' = [sent EXCEPT ![c] = 0]
      /\ UNCHANGED <<boxVars, placeVars, walks, view>>
  BY DEF Drained
<1>2. StageTyped /\ PlaceTyped /\ TalkTyped /\ Own(c) /\ walks[c] = NoWalk /\ req[c] \in Request
  BY <1>1, NotWalking DEF SessionInv, Typed, StageTyped
<1>3. /\ StageTyped'
      /\ \A d \in Clients : d # c => stage'[d] = stage[d] /\ req'[d] = req[d] /\ idling'[d] = idling[d]
      /\ \/ /\ req[c].op \in WaitOps /\ stage'[c] = "waiting" /\ req'[c] = req[c]
            /\ idling'[c] => req[c].op = "EXPUNGE"
         \/ stage'[c] = "none" /\ req'[c] = NoRequest
  BY <1>1, <1>2, ProceedIs
<1>4. /\ pending'[c] = << >> /\ sent'[c] = 0
      /\ \A d \in Clients : d # c => pending'[d] = pending[d] /\ sent'[d] = sent[d]
  BY <1>1, <1>2 DEF TalkTyped
<1>5. << >> \in Seq(Note) /\ Len(<< >>) = 0 /\ DOMAIN << >> = {}
  BY EmptyList
<1>6. TalkTyped'
  <2>1. pending' \in [Clients -> Seq(Note)] /\ sent' \in [Clients -> Nat]
    BY <1>1, <1>2, <1>5 DEF TalkTyped
  <2>2. ASSUME NEW d \in Clients PROVE sent'[d] <= Len(pending'[d])
    BY <1>2, <1>4, <1>5 DEF TalkTyped
  <2>3. view' \in [Clients -> View] /\ adrift' \subseteq Clients
    BY <1>1, <1>2 DEF TalkTyped
  <2> QED
    BY <2>1, <2>2, <2>3 DEF TalkTyped
<1>7. Typed'
  BY <1>1, <1>2, <1>3, <1>6
  DEF SessionInv, Typed, BoxTyped, ListTyped, WalksTyped, PlaceTyped, boxVars, placeVars
<1>8. \A d \in Clients : d # c => Still(d)
  BY <1>1, <1>3, <1>4 DEF Still, Registered, placeVars
<1>9. Modest(c)
  BY <1>2, <1>3 DEF Modest, Holding
<1>10. Place(c)'
  BY <1>1, <1>2, <1>3, <1>4 DEF Own, Place, Registered, WaitOps, NumberOps, NoRequest, placeVars, boxVars
<1>11. Meant(c)'
  BY <1>1, <1>2, <1>3 DEF Own, Meant, boxVars
<1>12. Pendable(pending[c])'
  BY <1>4, <1>5 DEF Pendable
<1>13. Abreast(c)'
  <2> SUFFICES ASSUME Good(c)' PROVE Abreast(c)'
    BY DEF Abreast
  <2>1. Good(c) /\ ~ HasExpunge(Unsent(c))
    BY <1>1, <1>2 DEF Good, Registered, Connected, placeVars
  <2>2. Unsent(c) \in Seq(Note) /\ Pendable(Unsent(c)) /\ view[c] \in View /\ msgs \in Seq(Uids)
    BY UnsentPends, MailsAre
  <2>3. Unsent(c)' = << >> /\ view'[c] = view[c] /\ msgs' = msgs /\ walks' = walks
    BY <1>1, <1>4, <1>5, UnsentIs DEF Unsent, boxVars
  <2>4. \A w \in Walkers : (Renumbers(w)' <=> Renumbers(w)) /\ (Ahead(w, c)' <=> Ahead(w, c))
    BY <2>3 DEF Renumbers, Ahead
  <2>5. Abreast(c)
    BY <1>2 DEF Own
  <2>6. ASSUME \A w \in Walkers : ~ (Renumbers(w)' /\ Ahead(w, c)')
        PROVE  Follows(view'[c], Unsent(c)', msgs')
    <3>1. Follows(view[c], Unsent(c), msgs)
      BY <2>1, <2>4, <2>5, <2>6 DEF Abreast
    <3>2. Follows(view[c], << >>, msgs)
      BY <2>1, <2>2, <3>1, DroppedFollows
    <3> QED
      BY <2>3, <3>2
  <2>7. ASSUME NEW w \in Walkers, Renumbers(w)', Ahead(w, c)'
        PROVE  Follows(view'[c], Unsent(c)', Before(walks'[w], msgs'))
    <3> DEFINE l == Before(walks[w], msgs)
    <3>1. Follows(view[c], Unsent(c), l) /\ l \in Seq(Uids)
      BY <2>1, <2>4, <2>5, <2>7, BeforeIs DEF Abreast
    <3>2. Before(walks'[w], msgs') = l
      BY <2>3
    <3> HIDE DEF l
    <3>3. Follows(view[c], << >>, l)
      BY <2>1, <2>2, <3>1, DroppedFollows
    <3> QED
      BY <2>3, <3>2, <3>3
  <2> QED
    BY <2>6, <2>7 DEF Abreast
<1> QED
  BY <1>1, <1>7, <1>8, <1>9, <1>10, <1>11, <1>12, <1>13, OwnStep

-----------------------------------------------------------------------------
(* Walks that bring flags *)

\* A walk as it begins.
Fresh(k) == k.begun = FALSE /\ k.done = {} /\ k.left = k.size

LEMMA DispatchIs ==
  ASSUME NEW notes \in Seq(Note), NEW but \in Walkers
  PROVE  /\ Dispatch(notes, but) \in Walk /\ Dispatch(notes, but).kind = "dispatch"
         /\ Dispatch(notes, but).notes = notes /\ Dispatch(notes, but).after = << >>
         /\ Dispatch(notes, but).skip = but /\ Fresh(Dispatch(notes, but))
<1> DEFINE j == NoWalk
<1>0. j \in Walk
  BY Constants
<1>1. j.after = << >> /\ j.begun = FALSE /\ j.done = {} /\ j.size = 0 /\ j.left = 0
  BY DEF NoWalk
<1> HIDE DEF j
<1> DEFINE k == [j EXCEPT !.kind = "dispatch"]
<1>2. k = [kind |-> "dispatch", notes |-> j.notes, after |-> j.after, skip |-> j.skip,
           begun |-> j.begun, done |-> j.done, size |-> j.size, left |-> j.left]
  BY <1>0 DEF Walk
<1>3. k \in Walk
  BY <1>0, <1>2 DEF Walk
<1>4. k.after = << >> /\ k.begun = FALSE /\ k.done = {} /\ k.size = 0 /\ k.left = 0 /\ k.kind = "dispatch"
  BY <1>1, <1>2
<1> HIDE DEF k
<1> DEFINE l == [k EXCEPT !.notes = notes]
<1>5. l = [kind |-> k.kind, notes |-> notes, after |-> k.after, skip |-> k.skip,
           begun |-> k.begun, done |-> k.done, size |-> k.size, left |-> k.left]
  BY <1>3 DEF Walk
<1>6. l \in Walk
  BY <1>3, <1>5 DEF Walk
<1>7. l.after = << >> /\ l.begun = FALSE /\ l.done = {} /\ l.size = 0 /\ l.left = 0 /\ l.kind = "dispatch" /\ l.notes = notes
  BY <1>4, <1>5
<1> HIDE DEF l
<1> DEFINE m == [l EXCEPT !.skip = but]
<1>8. m = [kind |-> l.kind, notes |-> l.notes, after |-> l.after, skip |-> but,
           begun |-> l.begun, done |-> l.done, size |-> l.size, left |-> l.left]
  BY <1>6 DEF Walk
<1>9. m \in Walk
  BY <1>6, <1>8 DEF Walk
<1>10. m.after = << >> /\ m.begun = FALSE /\ m.done = {} /\ m.size = 0 /\ m.left = 0 /\ m.kind = "dispatch" /\ m.notes = notes /\ m.skip = but
  BY <1>7, <1>8
<1> HIDE DEF m
<1>11. Dispatch(notes, but) = m
  BY DEF Dispatch, m, l, k, j
<1> QED
  BY <1>9, <1>10, <1>11 DEF Fresh

LEMMA AnnouncementIs ==
  ASSUME NEW n, << Exists(n) >> \in Seq(Note), NEW after \in Seq(Note)
  PROVE  /\ Announcement(n, after) \in Walk /\ Announcement(n, after).kind = "exists"
         /\ Announcement(n, after).notes = << Exists(n) >> /\ Announcement(n, after).after = after
         /\ Announcement(n, after).skip = Task /\ Fresh(Announcement(n, after))
<1> DEFINE j == NoWalk
           x == << Exists(n) >>
<1>0. j \in Walk
  BY Constants
<1>1. j.skip = Task /\ j.begun = FALSE /\ j.done = {} /\ j.size = 0 /\ j.left = 0
  BY DEF NoWalk
<1>x. x \in Seq(Note)
  OBVIOUS
<1> HIDE DEF j, x
<1> DEFINE k == [j EXCEPT !.kind = "exists"]
<1>2. k = [kind |-> "exists", notes |-> j.notes, after |-> j.after, skip |-> j.skip,
           begun |-> j.begun, done |-> j.done, size |-> j.size, left |-> j.left]
  BY <1>0 DEF Walk
<1>3. k \in Walk
  BY <1>0, <1>2 DEF Walk
<1>4. k.skip = Task /\ k.begun = FALSE /\ k.done = {} /\ k.size = 0 /\ k.left = 0 /\ k.kind = "exists"
  BY <1>1, <1>2
<1> HIDE DEF k
<1> DEFINE l == [k EXCEPT !.notes = x]
<1>5. l = [kind |-> k.kind, notes |-> x, after |-> k.after, skip |-> k.skip,
           begun |-> k.begun, done |-> k.done, size |-> k.size, left |-> k.left]
  BY <1>3 DEF Walk
<1>6. l \in Walk
  BY <1>3, <1>5, <1>x DEF Walk
<1>7. l.skip = Task /\ l.begun = FALSE /\ l.done = {} /\ l.size = 0 /\ l.left = 0 /\ l.kind = "exists" /\ l.notes = x
  BY <1>4, <1>5
<1> HIDE DEF l
<1> DEFINE m == [l EXCEPT !.after = after]
<1>8. m = [kind |-> l.kind, notes |-> l.notes, after |-> after, skip |-> l.skip,
           begun |-> l.begun, done |-> l.done, size |-> l.size, left |-> l.left]
  BY <1>6, SMTT(30) DEF Walk
<1>9. m \in Walk
  BY <1>6, <1>8 DEF Walk
<1>10. m.skip = Task /\ m.begun = FALSE /\ m.done = {} /\ m.size = 0 /\ m.left = 0 /\ m.kind = "exists" /\ m.notes = x /\ m.after = after
  BY <1>7, <1>8
<1> HIDE DEF m
<1>11. Announcement(n, after) = m
  BY DEF Announcement, m, l, k, j, x
<1> QED
  BY <1>9, <1>10, <1>11 DEF x, Fresh

\* A walk of FETCH notes, whoever is left out.
LEMMA FlagWalks ==
  ASSUME NEW c \in Clients, SessionInv, ~ Renumbers(c), msgs' = msgs,
         NEW notes \in Seq(Note), notes # << >>, Numbered(msgs, notes), NEW but \in Walkers,
         walks' = [walks EXCEPT ![c] = Dispatch(notes, but)]
  PROVE  /\ WalksTyped' /\ (\A w \in Walkers : RightWalk(walks'[w], msgs')) /\ ~ Renumbers(c)'
         /\ (\A d \in Clients : SameNews(d)) /\ \A w \in Walkers : w # c => walks'[w] = walks[w]
<1> DEFINE k == Dispatch(notes, but)
<1>1. /\ k \in Walk /\ k.kind = "dispatch" /\ k.notes = notes /\ k.after = << >> /\ Fresh(k)
  BY DispatchIs
<1> HIDE DEF k
<1>2. WalksTyped /\ (\A w \in Walkers : RightWalk(walks[w], msgs)) /\ c \in Walkers /\ msgs \in Mails
  BY Constants DEF SessionInv, Typed, BoxTyped
<1>3. walks'[c] = k /\ \A w \in Walkers : w # c => walks'[w] = walks[w]
  BY <1>2 DEF WalksTyped, k
<1>4. FlagWalk(k, msgs)
  BY <1>1 DEF FlagWalk
<1>5. ~ Renumbering(k)
  BY <1>1 DEF Renumbering, HasExpunge, Numbered
<1>6. WalksTyped'
  <2>1. walks' \in [Walkers -> Walk]
    BY <1>1, <1>2 DEF WalksTyped, k
  <2>2. \A w \in Walkers : walks'[w].left <= walks'[w].size
    <3>1. k.left <= k.size
      BY <1>1 DEF Walk, Fresh
    <3> QED
      BY <1>2, <1>3, <3>1 DEF WalksTyped
  <2> QED
    BY <2>1, <2>2 DEF WalksTyped
<1>7. \A w \in Walkers : RightWalk(walks'[w], msgs')
  BY <1>2, <1>3, <1>4 DEF RightWalk
<1>8. ~ Renumbers(c)'
  BY <1>3, <1>5 DEF Renumbers
<1>9. \A d \in Clients : SameNews(d)
  BY <1>3, <1>8, NewsKept
<1> QED
  BY <1>3, <1>6, <1>7, <1>8, <1>9

\* One session goes on, and perhaps begins a walk.
LEMMA AloneWalks ==
  ASSUME NEW c \in Clients, Alone,
         \A d \in Clients : d # c => stage'[d] = stage[d] /\ req'[d] = req[d],
         \A w \in Walkers : w # c => walks'[w] = walks[w],
         stage'[c] = "working", req'[c].op # "MOVE", Renumbers(c)' => req'[c].op \in Solitary,
         \/ Holding(c) /\ (req'[c].op \in Solitary <=> req[c].op \in Solitary)
         \/ /\ walks[Task] = NoWalk
            /\ \A d \in Clients : d # c /\ Holding(d) => req[d].op \notin Solitary /\ req'[c].op \notin Solitary
  PROVE  Alone'
<1>1. Task \in Walkers /\ Task # c /\ Clients \subseteq Walkers
  BY Constants
<1>2. ASSUME NEW w \in Clients, walks'[w] # NoWalk PROVE stage'[w] = "working" /\ req'[w].op # "MOVE"
  BY <1>1, <1>2 DEF Alone
<1>3. ASSUME NEW w \in Clients, Renumbers(w)' PROVE req'[w].op \in Solitary
  BY <1>1, <1>3 DEF Alone, Renumbers
<1>4. \A d \in Clients : d # c => (Holding(d)' <=> Holding(d)) /\ req'[d] = req[d]
  BY DEF Holding
<1>5. ASSUME NEW d \in Clients, NEW e \in Clients, d # e, Holding(d)', Holding(e)'
      PROVE  req'[d].op \notin Solitary
  <2>1. CASE d # c /\ e # c
    BY <1>4, <1>5, <2>1 DEF Alone
  <2>2. CASE d = c \/ e = c
    BY <1>4, <1>5, <2>2 DEF Alone
  <2> QED
    BY <2>1, <2>2
<1>6. ASSUME walks'[Task] # NoWalk, NEW d \in Clients PROVE ~ Holding(d)'
  BY <1>1, <1>4, <1>6 DEF Alone
<1> QED
  BY <1>2, <1>3, <1>5, <1>6 DEF Alone

\* A session that holds the mailbox, or is let in, begins to bring flags.
LEMMA FlagsBegun ==
  ASSUME NEW c \in Clients, SessionInv, msgs' = msgs, exists' = exists,
         Typed', \A d \in Clients : d # c => Still(d),
         stage'[c] = "working", req'[c].op # "MOVE",
         \/ Holding(c) /\ (req'[c].op \in Solitary <=> req[c].op \in Solitary)
         \/ /\ walks[Task] = NoWalk
            /\ \A d \in Clients : d # c /\ Holding(d) => req[d].op \notin Solitary /\ req'[c].op \notin Solitary,
         \A w \in Walkers : RightWalk(walks'[w], msgs'), ~ Renumbers(c)',
         \A d \in Clients : SameNews(d), \A w \in Walkers : w # c => walks'[w] = walks[w],
         Own(c)'
  PROVE  SessionInv'
<1>1. Alone'
  BY AloneWalks DEF SessionInv, Still
<1>2. ASSUME NEW d \in Clients, d # c PROVE Own(d)'
  BY <1>2, OwnKept DEF SessionInv
<1> QED
  BY <1>1, <1>2 DEF SessionInv

LEMMA StoringInv ==
  ASSUME NEW c \in Clients, SessionInv, BeginStore(c)
  PROVE  SessionInv'
<1> DEFINE stored == {msgs[i] : i \in Targets(req[c])}
<1>1. /\ LetIn(c) /\ req[c].op = "STORE" /\ stage' = [stage EXCEPT ![c] = "working"]
      /\ flagged' \in {flagged, flagged \cup stored, flagged \ stored}
      /\ walks' = [walks EXCEPT ![c] = IF Targets(req[c]) = {} THEN NoWalk ELSE Dispatch(Responses(req[c]), c)]
      /\ UNCHANGED <<msgs, lastUid, exists, served, torn, placeVars, idling, req, talkVars>>
  BY DEF BeginStore, Responses
<1>2. /\ Typed /\ BoxTyped /\ StageTyped /\ WalksTyped /\ msgs \in Mails /\ Own(c) /\ c \in Walkers
      /\ stage[c] = "waiting" /\ exists /\ walks[c] = NoWalk /\ walks[Task] = NoWalk
  BY <1>1, NotWalking, Constants DEF SessionInv, Typed, BoxTyped, LetIn
<1>3. BoxTyped'
  <2>1. \A i \in DOMAIN msgs : msgs[i] \in Uids
    BY <1>2, MailsAre
  <2>2. Targets(req[c]) \subseteq DOMAIN msgs
    BY DEF Targets
  <2>3. stored \subseteq Uids
    BY <2>1, <2>2
  <2> HIDE DEF stored
  <2>4. flagged' \subseteq Uids
    BY <1>1, <1>2, <2>3 DEF BoxTyped
  <2> QED
    BY <1>1, <1>2, <2>4 DEF BoxTyped
<1>4. ~ Renumbers(c)
  BY <1>2, Constants DEF Renumbers
<1>5. /\ WalksTyped' /\ (\A w \in Walkers : RightWalk(walks'[w], msgs')) /\ ~ Renumbers(c)'
      /\ (\A d \in Clients : SameNews(d)) /\ \A w \in Walkers : w # c => walks'[w] = walks[w]
  <2>1. CASE Targets(req[c]) = {}
    <3>1. walks' = walks /\ msgs' = msgs
      BY <1>1, <1>2, <2>1 DEF WalksTyped
    <3>2. \A d \in Clients : SameNews(d)
      BY <3>1, NewsKept
    <3> QED
      BY <1>2, <1>4, <3>1, <3>2 DEF WalksTyped, SessionInv, Renumbers
  <2>2. CASE Targets(req[c]) # {}
    <3>1. Responses(req[c]) \in Seq(Note) /\ Numbered(msgs, Responses(req[c])) /\ Responses(req[c]) # << >>
      BY <1>2, <2>2, ResponsesAre
    <3>2. walks' = [walks EXCEPT ![c] = Dispatch(Responses(req[c]), c)] /\ msgs' = msgs
      BY <1>1, <2>2
    <3> QED
      BY <1>2, <1>4, <3>1, <3>2, FlagWalks
  <2> QED
    BY <2>1, <2>2
<1>6. stage'[c] = "working" /\ \A d \in Clients : d # c => stage'[d] = stage[d]
  BY <1>1, <1>2 DEF StageTyped
<1>7. Typed'
  BY <1>1, <1>2, <1>3, <1>5
  DEF Typed, ListTyped, PlaceTyped, StageTyped, TalkTyped, placeVars, talkVars
<1>8. \A d \in Clients : d # c => Still(d)
  BY <1>1, <1>6 DEF Still, Registered, placeVars, talkVars
<1>9. Own(c)'
  <2>1. Place(c)' /\ Meant(c)' /\ Pendable(pending[c])'
    BY <1>1, <1>2, <1>6 DEF Own, Place, Meant, Registered, placeVars, talkVars
  <2>2. Abreast(c)'
    <3>1. Good(c)' => Good(c)
      BY <1>1, <1>2 DEF Good, Connected, Registered, placeVars, talkVars
    <3>2. view'[c] = view[c] /\ Unsent(c)' = Unsent(c)
      BY <1>1 DEF Unsent, talkVars
    <3> QED
      BY <1>1, <1>2, <1>5, <3>1, <3>2, AbreastKept DEF Own
  <2> QED
    BY <2>1, <2>2 DEF Own
<1>10. \A d \in Clients : d # c /\ Holding(d) => req[d].op \notin Solitary /\ req'[c].op \notin Solitary
  BY <1>1 DEF LetIn
<1>11. req'[c].op # "MOVE"
  BY <1>1
<1> QED
  BY <1>1, <1>2, <1>5, <1>6, <1>7, <1>8, <1>9, <1>10, <1>11, FlagsBegun

LEMMA FetchingInv ==
  ASSUME NEW c \in Clients, SessionInv, RespondFetch(c)
  PROVE  SessionInv'
<1> DEFINE notes == Responses(req[c])
<1>1. /\ stage[c] = "working" /\ req[c].op = "FETCH" /\ Tell({c}, notes)
      /\ req' = [req EXCEPT ![c].op = "FETCHED"]
      /\ \/ walks' = walks
         \/ Targets(req[c]) # {} /\ walks' = [walks EXCEPT ![c] = Dispatch(notes, Task)]
      /\ UNCHANGED <<boxVars, placeVars, idling, stage, pending, sent>>
  BY DEF RespondFetch
<1>2. /\ Typed /\ BoxTyped /\ StageTyped /\ WalksTyped /\ TalkTyped /\ msgs \in Mails /\ Own(c) /\ c \in Walkers
      /\ Task \in Walkers
  BY Constants DEF SessionInv, Typed, BoxTyped
<1>3. /\ notes \in Seq(Note) /\ Numbered(msgs, notes) /\ (Targets(req[c]) # {} => notes # << >>)
  BY <1>2, ResponsesAre
<1> HIDE DEF notes
<1>4. Holding(c) /\ req[c].op \notin Solitary
  BY <1>1 DEF Holding, Solitary
<1>5. /\ view' \in [Clients -> View] /\ adrift' \subseteq Clients
      /\ \A d \in Clients : d # c => view'[d] = view[d] /\ (d \in adrift' <=> d \in adrift)
      /\ Registered(c) /\ Connected(c) /\ c \notin adrift'
           => Good(c) /\ Follows(view'[c], Unsent(c), msgs)
  BY <1>1, <1>3, <1>4, TellsOne
<1>6. \A w \in Walkers : ~ Renumbers(w)
  BY <1>4, NoNews
<1>7. /\ WalksTyped' /\ (\A w \in Walkers : RightWalk(walks'[w], msgs')) /\ ~ Renumbers(c)'
      /\ (\A d \in Clients : SameNews(d)) /\ \A w \in Walkers : w # c => walks'[w] = walks[w]
  <2>1. CASE walks' = walks
    <3>1. \A d \in Clients : SameNews(d)
      BY <2>1, NewsKept
    <3> QED
      BY <1>1, <1>2, <1>6, <2>1, <3>1 DEF WalksTyped, SessionInv, Renumbers, boxVars
  <2>2. CASE Targets(req[c]) # {} /\ walks' = [walks EXCEPT ![c] = Dispatch(notes, Task)]
    <3>1. msgs' = msgs
      BY <1>1 DEF boxVars
    <3> QED
      BY <1>2, <1>3, <1>6, <2>2, <3>1, FlagWalks
  <2> QED
    BY <1>1, <2>1, <2>2
<1>8. /\ req' \in [Clients -> Request] /\ req'[c].op = "FETCHED"
      /\ \A d \in Clients : d # c => req'[d] = req[d]
  <2> DEFINE r == req[c]
  <2>1. r \in Request
    BY <1>2 DEF StageTyped
  <2> HIDE DEF r
  <2>2. [r EXCEPT !.op = "FETCHED"] = [op |-> "FETCHED", uid |-> r.uid, n |-> r.n, meant |-> r.meant]
    BY <2>1 DEF Request
  <2>3. [r EXCEPT !.op = "FETCHED"] \in Request /\ [r EXCEPT !.op = "FETCHED"].op = "FETCHED"
    BY <2>1, <2>2 DEF Request
  <2>4. req' = [req EXCEPT ![c] = [r EXCEPT !.op = "FETCHED"]]
    BY <1>1 DEF r
  <2> QED
    BY <1>2, <2>3, <2>4 DEF StageTyped
<1>9. Typed'
  <2>1. TalkTyped'
    BY <1>1, <1>2, <1>5 DEF TalkTyped
  <2>2. StageTyped'
    BY <1>1, <1>2, <1>8 DEF StageTyped
  <2> QED
    BY <1>1, <1>2, <1>7, <2>1, <2>2 DEF Typed, BoxTyped, ListTyped, PlaceTyped, placeVars, boxVars
<1>10. \A d \in Clients : d # c => Still(d)
  BY <1>1, <1>5, <1>8 DEF Still, Registered, placeVars
<1>11. Own(c)'
  <2>1. Place(c)' /\ Meant(c)' /\ Pendable(pending[c])'
    BY <1>1, <1>2, <1>8 DEF Own, Place, Meant, NumberOps, Registered, placeVars, boxVars
  <2>2. Abreast(c)'
    <3> SUFFICES ASSUME Good(c)' PROVE Abreast(c)'
      BY DEF Abreast
    <3>1. Registered(c) /\ Connected(c) /\ c \notin adrift'
      BY <1>1 DEF Good, Registered, Connected, placeVars
    <3>2. Follows(view'[c], Unsent(c)', msgs')
      BY <1>1, <1>5, <3>1 DEF Unsent, boxVars
    <3>3. \A w \in Walkers : ~ Renumbers(w)'
      BY <1>6, <1>7 DEF Renumbers
    <3> QED
      BY <3>2, <3>3 DEF Abreast
  <2> QED
    BY <2>1, <2>2 DEF Own
<1>12. req'[c].op \notin Solitary /\ req'[c].op # "MOVE"
  BY <1>8 DEF Solitary
<1>13. stage'[c] = "working" /\ exists' = exists /\ msgs' = msgs
  BY <1>1 DEF boxVars
<1> QED
  BY <1>4, <1>7, <1>9, <1>10, <1>11, <1>12, <1>13, FlagsBegun

-----------------------------------------------------------------------------
(* Messages that come and go *)

\* Who has the mailbox to itself, and does not walk, is the only one to begin.
LEMMA NobodyWalks ==
  ASSUME SessionInv, NEW c \in Clients, Holding(c), req[c].op \in Solitary, walks[c] = NoWalk
  PROVE  \A w \in Walkers : walks[w] = NoWalk
<1> SUFFICES ASSUME NEW w \in Walkers, walks[w] # NoWalk PROVE FALSE
  OBVIOUS
<1>1. w # Task /\ w # c
  BY DEF SessionInv, Alone
<1>2. w \in Clients
  BY <1>1 DEF Walkers
<1>3. stage[w] = "working"
  BY <1>2 DEF SessionInv, Alone
<1>4. Holding(w)
  BY <1>3 DEF Holding
<1> QED
  BY <1>1, <1>2, <1>4 DEF SessionInv, Alone

LEMMA NobodyHolds ==
  ASSUME SessionInv, walks[Task] = NoWalk, \A d \in Clients : ~ Holding(d)
  PROVE  \A w \in Walkers : walks[w] = NoWalk
<1> SUFFICES ASSUME NEW w \in Walkers, walks[w] # NoWalk PROVE FALSE
  OBVIOUS
<1>1. w \in Clients
  BY DEF Walkers
<1>2. stage[w] = "working"
  BY <1>1 DEF SessionInv, Alone
<1> QED
  BY <1>1, <1>2 DEF Holding

\* A walk of news begins: it has everyone before it, and they know the list
\* as it was.
LEMMA NewsBegun ==
  ASSUME SessionInv, NEW w \in Walkers, \A x \in Walkers : walks[x] = NoWalk,
         NEW k \in Walk, Fresh(k), Renumbering(k), k.skip = Task,
         msgs' \in Mails, RightWalk(k, msgs'), Before(k, msgs') = msgs,
         walks' = [walks EXCEPT ![w] = k]
  PROVE  /\ WalksTyped' /\ (\A x \in Walkers : RightWalk(walks'[x], msgs'))
         /\ \A x \in Walkers : walks'[x] = IF x = w THEN k ELSE NoWalk
         /\ \A c \in Clients : (Good(c)' => Good(c)) /\ view'[c] = view[c] /\ Unsent(c)' = Unsent(c)
                                 => Abreast(c)'
<1>1. WalksTyped
  BY DEF SessionInv, Typed
<1>2. \A x \in Walkers : walks'[x] = IF x = w THEN k ELSE NoWalk
  BY <1>1 DEF WalksTyped
<1>3. walks' \in [Walkers -> Walk]
  BY <1>1 DEF WalksTyped
<1>4. k.left <= k.size
  BY DEF Fresh, Walk
<1>5. WalksTyped'
  BY <1>2, <1>3, <1>4, Constants DEF WalksTyped
<1>6. \A x \in Walkers : RightWalk(walks'[x], msgs')
  BY <1>2 DEF RightWalk
<1>7. ASSUME NEW c \in Clients, Good(c)' => Good(c), view'[c] = view[c], Unsent(c)' = Unsent(c)
      PROVE  Abreast(c)'
  <2> SUFFICES ASSUME Good(c)' PROVE Abreast(c)'
    BY DEF Abreast
  <2>1. Good(c) /\ Abreast(c)
    BY <1>7 DEF SessionInv, Own
  <2>2. \A x \in Walkers : ~ Renumbers(x)
    BY Constants DEF Renumbers
  <2>3. Follows(view[c], Unsent(c), msgs)
    BY <2>1, <2>2, AbreastNow
  <2>4. Renumbers(w)' /\ \A x \in Walkers : Renumbers(x)' => x = w
    BY <1>2, Constants DEF Renumbers
  <2>5. Ahead(w, c)'
    BY <1>2, Constants DEF Ahead, Fresh
  <2>6. ASSUME NEW x \in Walkers, Renumbers(x)', Ahead(x, c)'
        PROVE  Follows(view'[c], Unsent(c)', Before(walks'[x], msgs'))
    <3>1. x = w /\ walks'[x] = k
      BY <1>2, <2>4, <2>6
    <3> QED
      BY <1>7, <2>3, <3>1
  <2> QED
    BY <2>4, <2>5, <2>6 DEF Abreast
<1> QED
  BY <1>2, <1>5, <1>6, <1>7

\* The list changes under a session that nothing else happens to.
LEMMA OwnThrough ==
  ASSUME NEW d \in Clients, Own(d), Still(d), exists' = exists, Abreast(d)'
  PROVE  Own(d)'
<1>1. Place(d)' /\ Meant(d)' /\ Pendable(pending[d])'
  BY DEF Own, Place, Meant, Still
<1> QED
  BY <1>1 DEF Own

\* One list after another.
LEMMA Joined ==
  ASSUME NEW S, NEW s \in Seq(S), NEW t \in Seq(S)
  PROVE  /\ s \o t \in Seq(S) /\ Len(s \o t) = Len(s) + Len(t)
         /\ \A i \in 1..Len(s) : (s \o t)[i] = s[i]
         /\ \A i \in 1..Len(t) : (s \o t)[Len(s) + i] = t[i]
         /\ SubSeq(s \o t, 1, Len(s)) = s
<1> DEFINE r == s \o t
           q == SubSeq(r, 1, Len(s))
<1>1. Len(s) \in Nat /\ Len(t) \in Nat
  BY ListOf
<1>2. /\ r \in Seq(S) /\ Len(r) = Len(s) + Len(t)
      /\ \A i \in 1..(Len(s) + Len(t)) : r[i] = IF i <= Len(s) THEN s[i] ELSE t[i - Len(s)]
  BY ConcatProperties
<1> HIDE DEF r
<1>3. \A i \in 1..Len(s) : r[i] = s[i]
  BY <1>1, <1>2
<1>4. ASSUME NEW i \in 1..Len(t) PROVE r[Len(s) + i] = t[i]
  <2>1. Len(s) + i \in 1..(Len(s) + Len(t)) /\ ~ (Len(s) + i <= Len(s)) /\ (Len(s) + i) - Len(s) = i
    BY <1>1
  <2> QED
    BY <1>2, <2>1
<1>5. Len(s) \in 0..Len(r)
  BY <1>1, <1>2
<1>6. q \in Seq(S) /\ Len(q) = Len(s) /\ \A i \in 1..Len(s) : q[i] = r[i]
  BY <1>2, <1>5, FirstOf
<1> HIDE DEF q
<1>7. q = s
  BY <1>3, <1>6, SeqEqual
<1> QED
  BY <1>2, <1>3, <1>4, <1>7 DEF r, q

\* New mail: the list grows, and EXISTS is on its way to everyone.
LEMMA MailFound ==
  ASSUME SessionInv, NEW w \in Walkers, \A x \in Walkers : walks[x] = NoWalk,
         NEW n \in 1..2, FindMail(w, n)
  PROVE  /\ BoxTyped' /\ WalksTyped' /\ exists' = exists
         /\ \A x \in Walkers : RightWalk(walks'[x], msgs')
         /\ \A x \in Walkers : x # w => walks'[x] = NoWalk
         /\ \A c \in Clients : (Good(c)' => Good(c)) /\ view'[c] = view[c] /\ Unsent(c)' = Unsent(c)
                                 => Abreast(c)'
<1> DEFINE t == [i \in 1..n |-> lastUid + i]
           a == [i \in 1..n |-> Flags(Len(msgs) + i, lastUid + i)]
           k == Announcement(Len(msgs'), a)
<1>1. /\ lastUid + n <= MaxUid /\ msgs' = msgs \o t /\ lastUid' = lastUid + n
      /\ walks' = [walks EXCEPT ![w] = k]
      /\ flagged' = flagged /\ exists' = exists /\ served' = served /\ torn' = torn
  BY DEF FindMail
<1>2. /\ BoxTyped /\ msgs \in Seq(Uids) /\ Len(msgs) \in Nat /\ Len(msgs) <= lastUid /\ lastUid \in Nat
      /\ MaxUid \in Nat /\ n \in Nat /\ n # 0
  BY MailsAre, Constants DEF SessionInv, Typed, BoxTyped
<1>3. t \in Seq(Uids) /\ Len(t) = n /\ \A i \in 1..n : t[i] = lastUid + i
  <2>1. \A i \in 1..n : lastUid + i \in Uids
    BY <1>1, <1>2 DEF Uids
  <2>2. t \in [1..n -> Uids]
    BY <2>1
  <2>3. t \in Seq(Uids)
    BY <1>2, <2>2, SeqDef
  <2>4. DOMAIN t = 1..n /\ \A i \in 1..n : t[i] = lastUid + i
    OBVIOUS
  <2> HIDE DEF t
  <2>5. DOMAIN t = 1..Len(t) /\ Len(t) \in Nat
    BY <2>3, ListOf
  <2>6. Len(t) = n
    BY <1>2, <2>4, <2>5
  <2> QED
    BY <2>3, <2>4, <2>6
<1> HIDE DEF t
<1>4. /\ msgs' \in Seq(Uids) /\ Len(msgs') = Len(msgs) + n /\ SubSeq(msgs', 1, Len(msgs)) = msgs
      /\ \A i \in 1..n : msgs'[Len(msgs) + i] = lastUid + i
  BY <1>1, <1>2, <1>3, Joined
<1>5. msgs' \in Mails /\ DOMAIN msgs' = 1..(Len(msgs) + n)
  <2>1. Len(msgs') <= MaxUid
    BY <1>1, <1>2, <1>4
  <2>2. DOMAIN msgs' = 1..Len(msgs')
    BY <1>4, ListOf
  <2> QED
    BY <1>4, <2>1, <2>2 DEF Mails
<1>6. BoxTyped'
  <2>1. Len(msgs') <= lastUid' /\ lastUid' \in 0..MaxUid
    BY <1>1, <1>2, <1>4
  <2> QED
    BY <1>1, <1>2, <1>5, <2>1 DEF BoxTyped
<1>7. /\ a \in Seq(Note) /\ Len(a) = n /\ DOMAIN a = 1..n
      /\ \A i \in 1..n : a[i].type = "FETCH" /\ a[i].n = Len(msgs) + i /\ a[i].uid = lastUid + i
  <2>1. \A i \in 1..n : Flags(Len(msgs) + i, lastUid + i) \in Note
    <3> SUFFICES ASSUME NEW i \in 1..n PROVE Flags(Len(msgs) + i, lastUid + i) \in Note
      OBVIOUS
    <3>1. Len(msgs) + i \in 0..MaxUid /\ lastUid + i \in 0..MaxUid
      BY <1>1, <1>2
    <3> QED
      BY <3>1 DEF Flags, Note
  <2>2. a \in [1..n -> Note]
    BY <2>1
  <2>3. a \in Seq(Note)
    BY <1>2, <2>2, SeqDef
  <2>4. DOMAIN a = 1..n /\ \A i \in 1..n : a[i] = Flags(Len(msgs) + i, lastUid + i)
    OBVIOUS
  <2> HIDE DEF a
  <2>5. DOMAIN a = 1..Len(a) /\ Len(a) \in Nat
    BY <2>3, ListOf
  <2>6. Len(a) = n
    BY <1>2, <2>4, <2>5
  <2> QED
    BY <2>3, <2>4, <2>6 DEF Flags
<1> HIDE DEF a
<1>8. << Exists(Len(msgs')) >> \in Seq(Note)
  <2>1. Len(msgs') \in 0..MaxUid /\ Unknown \in 0..MaxUid
    BY <1>1, <1>2, <1>4, Constants DEF Unknown
  <2>2. Exists(Len(msgs')) \in Note
    BY <2>1 DEF Exists, Note
  <2> QED
    BY <2>2
<1>9. /\ k \in Walk /\ k.kind = "exists" /\ k.notes = << Exists(Len(msgs')) >> /\ k.after = a
      /\ k.skip = Task /\ Fresh(k)
  BY <1>7, <1>8, AnnouncementIs
<1> HIDE DEF k
<1>10. Numbered(msgs', a)
  <2> SUFFICES ASSUME NEW i \in DOMAIN a
               PROVE  a[i].type = "FETCH" /\ a[i].n \in DOMAIN msgs' /\ a[i].uid = msgs'[a[i].n]
    BY DEF Numbered
  <2>1. i \in 1..n
    BY <1>7
  <2>2. Len(msgs) + i \in DOMAIN msgs'
    BY <1>2, <1>5, <2>1
  <2> QED
    BY <1>4, <1>7, <2>1, <2>2
<1>11. RightWalk(k, msgs')
  <2>1. a # << >> /\ Len(a) <= Len(msgs')
    BY <1>2, <1>4, <1>7, EmptyList
  <2> QED
    BY <1>9, <1>10, <2>1 DEF RightWalk, MailWalk
<1>12. Before(k, msgs') = msgs
  <2>1. Len(msgs') - Len(k.after) = Len(msgs)
    BY <1>2, <1>4, <1>7, <1>9
  <2> QED
    BY <1>4, <1>9, <2>1 DEF Before
<1>13. Renumbering(k)
  BY <1>9 DEF Renumbering
<1>14. /\ WalksTyped' /\ (\A x \in Walkers : RightWalk(walks'[x], msgs'))
       /\ \A x \in Walkers : walks'[x] = IF x = w THEN k ELSE NoWalk
       /\ \A c \in Clients : (Good(c)' => Good(c)) /\ view'[c] = view[c] /\ Unsent(c)' = Unsent(c)
                               => Abreast(c)'
  BY <1>1, <1>5, <1>9, <1>11, <1>12, <1>13, NewsBegun
<1> QED
  BY <1>1, <1>6, <1>14

LEMMA ResyncInv ==
  ASSUME SessionInv, Resync
  PROVE  SessionInv'
<1>1. /\ walks[Task] = NoWalk /\ (\A c \in Clients : ~ Holding(c)) /\ FindMail(Task, 1)
      /\ UNCHANGED <<placeVars, idling, req, stage, talkVars>>
  BY DEF Resync
<1>2. (\A x \in Walkers : walks[x] = NoWalk) /\ Task \in Walkers /\ 1 \in 1..2
  BY <1>1, NobodyHolds, Constants
<1>3. /\ BoxTyped' /\ WalksTyped' /\ exists' = exists
      /\ \A x \in Walkers : RightWalk(walks'[x], msgs')
      /\ \A x \in Walkers : x # Task => walks'[x] = NoWalk
      /\ \A c \in Clients : (Good(c)' => Good(c)) /\ view'[c] = view[c] /\ Unsent(c)' = Unsent(c)
                              => Abreast(c)'
  BY <1>1, <1>2, MailFound
<1>4. Typed'
  BY <1>1, <1>3 DEF SessionInv, Typed, ListTyped, PlaceTyped, StageTyped, TalkTyped, placeVars, talkVars
<1>5. Alone'
  <2>1. \A w \in Clients : walks'[w] = NoWalk /\ ~ Renumbers(w)'
    BY <1>3, Constants DEF Renumbers
  <2>2. \A c \in Clients : ~ Holding(c)'
    BY <1>1 DEF Holding
  <2> QED
    BY <2>1, <2>2 DEF Alone
<1>6. ASSUME NEW d \in Clients PROVE Own(d)'
  <2>1. Still(d)
    BY <1>1 DEF Still, Registered, placeVars, talkVars
  <2>2. (Good(d)' => Good(d)) /\ view'[d] = view[d] /\ Unsent(d)' = Unsent(d)
    BY <1>1 DEF Good, Registered, Connected, Unsent, placeVars, talkVars
  <2> QED
    BY <1>3, <2>1, <2>2, OwnThrough DEF SessionInv
<1> QED
  BY <1>3, <1>4, <1>5, <1>6 DEF SessionInv

LEMMA AppendingInv ==
  ASSUME NEW c \in Clients, SessionInv, BeginAppend(c)
  PROVE  SessionInv'
<1>1. PICK n \in 1..2 : FindMail(c, n)
  BY DEF BeginAppend
<1>2. /\ LetIn(c) /\ req[c].op = "APPEND" /\ stage' = [stage EXCEPT ![c] = "working"]
      /\ UNCHANGED <<placeVars, idling, req, talkVars>>
  BY DEF BeginAppend
<1>3. StageTyped /\ Own(c) /\ stage[c] = "waiting" /\ exists /\ c \in Walkers
  BY <1>2, Constants DEF SessionInv, Typed, LetIn
<1>4. \A d \in Clients : ~ Holding(d)
  BY <1>2 DEF LetIn, Solitary
<1>5. \A x \in Walkers : walks[x] = NoWalk
  BY <1>2, <1>4, NobodyHolds DEF LetIn
<1>6. /\ BoxTyped' /\ WalksTyped' /\ exists' = exists
      /\ \A x \in Walkers : RightWalk(walks'[x], msgs')
      /\ \A x \in Walkers : x # c => walks'[x] = NoWalk
      /\ \A d \in Clients : (Good(d)' => Good(d)) /\ view'[d] = view[d] /\ Unsent(d)' = Unsent(d)
                              => Abreast(d)'
  BY <1>1, <1>3, <1>5, MailFound
<1>7. stage'[c] = "working" /\ StageTyped' /\ \A d \in Clients : d # c => stage'[d] = stage[d]
  BY <1>2, <1>3 DEF StageTyped
<1>8. Typed'
  BY <1>2, <1>6, <1>7 DEF SessionInv, Typed, ListTyped, PlaceTyped, TalkTyped, placeVars, talkVars
<1>9. Alone'
  <2>1. \A w \in Walkers : w # c => walks'[w] = walks[w]
    BY <1>5, <1>6
  <2>2. req'[c].op = "APPEND" /\ "APPEND" \in Solitary
    BY <1>2 DEF Solitary
  <2>3. walks[Task] = NoWalk
    BY <1>2 DEF LetIn
  <2>4. \A d \in Clients : d # c => stage'[d] = stage[d] /\ req'[d] = req[d]
    BY <1>2, <1>7
  <2> QED
    BY <1>4, <1>7, <2>1, <2>2, <2>3, <2>4, AloneWalks DEF SessionInv
<1>10. ASSUME NEW d \in Clients PROVE Own(d)'
  <2>1. (Good(d)' => Good(d)) /\ view'[d] = view[d] /\ Unsent(d)' = Unsent(d)
    <3>1. Connected(d)' => Connected(d)
      BY <1>2, <1>3, <1>7 DEF Connected, placeVars
    <3> QED
      BY <1>2, <3>1 DEF Good, Registered, Unsent, placeVars, talkVars
  <2>2. Abreast(d)'
    BY <1>6, <2>1
  <2>3. CASE d # c
    <3>1. Still(d)
      BY <1>2, <1>7, <2>3 DEF Still, Registered, placeVars, talkVars
    <3> QED
      BY <1>6, <2>2, <3>1, OwnThrough DEF SessionInv
  <2>4. CASE d = c
    <3>1. Place(c)' /\ Meant(c)' /\ Pendable(pending[c])'
      BY <1>2, <1>3, <1>6, <1>7 DEF Own, Place, Meant, NumberOps, Registered, placeVars, talkVars
    <3> QED
      BY <2>2, <2>4, <3>1 DEF Own
  <2> QED
    BY <2>3, <2>4
<1> QED
  BY <1>6, <1>8, <1>9, <1>10 DEF SessionInv

LEMMA ExpungingInv ==
  ASSUME NEW c \in Clients, SessionInv, ExpungeOne(c)
  PROVE  SessionInv'
<1> DEFINE u == Max(Victims(c))
           p == Position(u)
           k == Dispatch(<< Expunged(p, u) >>, Task)
<1>1. /\ stage[c] = "working" /\ req[c].op \in {"EXPUNGE", "CLOSE", "MOVED"}
      /\ walks[c] = NoWalk /\ Victims(c) # {}
      /\ msgs' = RemoveAt(msgs, p) /\ flagged' = flagged \ {u}
      /\ walks' = [walks EXCEPT ![c] = k]
      /\ UNCHANGED <<lastUid, exists, served, torn, placeVars, idling, req, stage, talkVars>>
  BY DEF ExpungeOne
<1>2. /\ BoxTyped /\ msgs \in Seq(Uids) /\ Len(msgs) \in Nat /\ Len(msgs) <= lastUid /\ lastUid \in Nat
      /\ Len(msgs) <= MaxUid /\ MaxUid \in Nat /\ DOMAIN msgs = 1..Len(msgs) /\ c \in Walkers
  BY MailsAre, Constants DEF SessionInv, Typed, BoxTyped
<1>3. u \in Uids /\ \E i \in DOMAIN msgs : msgs[i] = u
  <2>1. Victims(c) \subseteq ToSet(msgs)
    BY DEF Victims
  <2>2. ToSet(msgs) = Range(msgs) /\ ToSet(msgs) \subseteq Uids
    BY <1>2, ListOf DEF ToSet, Range
  <2>3. IsFiniteSet(ToSet(msgs))
    BY <1>2, <2>2, RangeFinite
  <2>4. Victims(c) \in SUBSET ToSet(msgs)
    BY <2>1
  <2>5. IsFiniteSet(Victims(c))
    BY <2>3, <2>4, FS_Subset
  <2>6. Victims(c) \subseteq Nat
    BY <2>1, <2>2 DEF Uids
  <2>7. u \in Victims(c)
    BY <1>1, <2>5, <2>6, MaxOf
  <2>8. u \in ToSet(msgs)
    BY <2>1, <2>7
  <2> QED
    BY <2>2, <2>8 DEF ToSet
<1> HIDE DEF u
<1>4. p \in 1..Len(msgs) /\ msgs[p] = u
  BY <1>2, <1>3 DEF Position
<1> HIDE DEF p
<1>5. RemoveAt(msgs, p) \in Seq(Uids) /\ Len(RemoveAt(msgs, p)) = Len(msgs) - 1
  BY <1>2, <1>4, RemovedAt
<1>6. InsertAt(RemoveAt(msgs, p), p, msgs[p]) = msgs
  BY <1>2, <1>4, PutBack
<1>7. /\ msgs' \in Mails /\ Len(msgs') = Len(msgs) - 1 /\ InsertAt(msgs', p, u) = msgs
      /\ p \in 1..(Len(msgs') + 1)
  BY <1>1, <1>2, <1>4, <1>5, <1>6 DEF Mails
<1>8. BoxTyped'
  BY <1>1, <1>2, <1>7 DEF BoxTyped
<1> DEFINE x == Expunged(p, u)
<1>9. x \in Note /\ x.type = "EXPUNGE" /\ x.n = p /\ x.uid = u
  <2>1. p \in 0..MaxUid /\ u \in 0..MaxUid
    BY <1>2, <1>3, <1>4 DEF Uids
  <2> QED
    BY <2>1 DEF Expunged, Note
<1>10. << x >> \in Seq(Note) /\ << x >>[1] = x /\ DOMAIN << x >> = 1..1
  BY <1>9
<1>11. /\ k \in Walk /\ k.kind = "dispatch" /\ k.notes = << x >> /\ k.after = << >> /\ k.skip = Task
       /\ Fresh(k)
  BY <1>10, DispatchIs, Constants, ZenonT(60)
<1> HIDE DEF k
<1>12. RightWalk(k, msgs')
  BY <1>3, <1>7, <1>11 DEF RightWalk, ExpungeWalk
<1>13. Before(k, msgs') = msgs /\ Renumbering(k)
  <2>1. k.notes[1].n = p /\ k.notes[1].uid = u /\ k.notes[1].type = "EXPUNGE" /\ 1 \in DOMAIN k.notes
    BY <1>9, <1>10, <1>11
  <2> QED
    BY <1>7, <1>11, <2>1 DEF Before, Renumbering, HasExpunge
<1>14. Holding(c) /\ req[c].op \in Solitary
  BY <1>1 DEF Holding, Solitary
<1>15. \A w \in Walkers : walks[w] = NoWalk
  BY <1>1, <1>14, NobodyWalks
<1>16. /\ WalksTyped' /\ (\A w \in Walkers : RightWalk(walks'[w], msgs'))
       /\ \A w \in Walkers : walks'[w] = IF w = c THEN k ELSE NoWalk
       /\ \A d \in Clients : (Good(d)' => Good(d)) /\ view'[d] = view[d] /\ Unsent(d)' = Unsent(d)
                               => Abreast(d)'
  BY <1>1, <1>2, <1>7, <1>11, <1>12, <1>13, <1>15, NewsBegun
<1>17. Typed'
  BY <1>1, <1>8, <1>16
  DEF SessionInv, Typed, ListTyped, PlaceTyped, StageTyped, TalkTyped, placeVars, talkVars
<1>18. Alone'
  <2>1. \A w \in Walkers : w # c => walks'[w] = walks[w]
    BY <1>15, <1>16
  <2>2. stage'[c] = "working" /\ req'[c].op = req[c].op /\ req[c].op # "MOVE"
    BY <1>1
  <2>3. \A d \in Clients : d # c => stage'[d] = stage[d] /\ req'[d] = req[d]
    BY <1>1
  <2> QED
    BY <1>14, <2>1, <2>2, <2>3, AloneWalks DEF SessionInv
<1>19. ASSUME NEW d \in Clients PROVE Own(d)'
  <2>1. Still(d) /\ exists' = exists
    BY <1>1 DEF Still, Registered, placeVars, talkVars
  <2>2. (Good(d)' => Good(d)) /\ view'[d] = view[d] /\ Unsent(d)' = Unsent(d)
    BY <1>1 DEF Good, Registered, Connected, Unsent, placeVars, talkVars
  <2> QED
    BY <1>16, <2>1, <2>2, OwnThrough DEF SessionInv
<1> QED
  BY <1>16, <1>17, <1>18, <1>19 DEF SessionInv

LEMMA DeletingInv ==
  ASSUME NEW c \in Clients, SessionInv, RunDelete(c)
  PROVE  SessionInv'
<1>1. /\ LetIn(c) /\ req[c].op = "DELETE" /\ exists' = FALSE /\ msgs' = << >> /\ flagged' = {}
      /\ clients' = << >> /\ selected' = [d \in Clients |-> selected[d] /\ ~ Registered(d)] /\ Ends(c)
      /\ UNCHANGED <<lastUid, served, torn, state, examine, refusals, reselects, walks, talkVars>>
  BY DEF RunDelete
<1>2. StageTyped /\ PlaceTyped /\ BoxTyped
  BY DEF SessionInv, Typed
<1>3. \A d \in Clients : ~ Holding(d)
  BY <1>1 DEF LetIn, Solitary
<1>4. \A w \in Walkers : walks[w] = NoWalk
  BY <1>1, <1>3, NobodyHolds DEF LetIn
<1>5. /\ StageTyped' /\ stage'[c] = "none" /\ req'[c] = NoRequest /\ ~ idling'[c]
      /\ \A d \in Clients : d # c => stage'[d] = stage[d] /\ req'[d] = req[d] /\ idling'[d] = idling[d]
  BY <1>1, <1>2, EndsIs
<1>6. << >> \in Seq(Uids) /\ << >> \in Seq(Clients) /\ Len(<< >>) = 0 /\ DOMAIN << >> = {}
  BY EmptyList
<1>7. \A d \in Clients : ~ Registered(d)'
  BY <1>1, <1>6 DEF Registered, ToSet
<1>8. Typed'
  <2>1. << >> \in Mails
    BY <1>6, Constants DEF Mails
  <2>2. BoxTyped'
    <3>1. msgs' \in Mails /\ Len(msgs') = 0 /\ flagged' \subseteq Uids /\ exists' \in BOOLEAN
      BY <1>1, <1>6, <2>1
    <3>2. lastUid' \in 0..MaxUid /\ lastUid' \in Nat /\ served' \in BOOLEAN /\ torn' \in BOOLEAN
      BY <1>1, <1>2 DEF BoxTyped
    <3> QED
      BY <3>1, <3>2 DEF BoxTyped
  <2>3. IsInjective(<< >>)
    BY <1>6 DEF IsInjective
  <2>4. ListTyped'
    BY <1>1, <1>6, <2>3 DEF ListTyped
  <2>5. PlaceTyped'
    BY <1>1, <1>2 DEF PlaceTyped
  <2> QED
    BY <1>1, <1>5, <2>2, <2>4, <2>5 DEF SessionInv, Typed, WalksTyped, TalkTyped, talkVars
<1>9. \A w \in Walkers : RightWalk(walks'[w], msgs')
  BY <1>1, <1>4 DEF RightWalk
<1>10. \A d \in Clients : ~ Holding(d)'
  BY <1>3, <1>5 DEF Holding
<1>11. Alone'
  BY <1>1, <1>4, <1>10, Constants DEF Alone, Renumbers
<1>12. ASSUME NEW d \in Clients PROVE Own(d)'
  <2>1. Own(d) /\ ~ selected'[d]
    BY <1>1 DEF SessionInv, Own, Place
  <2>2. stage[d] # "working" /\ stage[d] # "announcing"
    BY <1>3 DEF Holding
  <2>3. \/ stage'[d] = stage[d] /\ req'[d] = req[d] /\ (idling'[d] => idling[d])
        \/ d = c /\ stage'[d] = "none" /\ ~ idling'[d]
    BY <1>5
  <2>4. stage[c] = "waiting"
    BY <1>1 DEF LetIn
  <2>5. Place(d)'
    <3>1. state'[d] = state[d] /\ sent'[d] = sent[d] /\ pending'[d] = pending[d] /\ ~ exists'
      BY <1>1 DEF talkVars
    <3> QED
      BY <1>7, <2>1, <2>2, <2>3, <2>4, <3>1 DEF Own, Place
  <2>6. Meant(d)' /\ Pendable(pending[d])' /\ Abreast(d)'
    BY <1>1, <1>7, <2>1 DEF Meant, Own, Abreast, Good, talkVars
  <2> QED
    BY <2>5, <2>6 DEF Own
<1> QED
  BY <1>8, <1>9, <1>11, <1>12 DEF SessionInv

\* Who has been reached is forgotten.
LEMMA Forgotten ==
  ASSUME NEW j \in Walk, NEW D \in SUBSET Clients
  PROVE  /\ [j EXCEPT !.done = D] \in Walk
         /\ [j EXCEPT !.done = D].kind = j.kind /\ [j EXCEPT !.done = D].notes = j.notes
         /\ [j EXCEPT !.done = D].after = j.after /\ [j EXCEPT !.done = D].skip = j.skip
         /\ [j EXCEPT !.done = D].left = j.left /\ [j EXCEPT !.done = D].size = j.size
         /\ D = j.done => [j EXCEPT !.done = D] = j
<1> DEFINE k == [j EXCEPT !.done = D]
<1>1. k = [kind |-> j.kind, notes |-> j.notes, after |-> j.after, skip |-> j.skip,
           begun |-> j.begun, done |-> D, size |-> j.size, left |-> j.left]
  BY DEF Walk
<1>2. j = [kind |-> j.kind, notes |-> j.notes, after |-> j.after, skip |-> j.skip,
           begun |-> j.begun, done |-> j.done, size |-> j.size, left |-> j.left]
  BY DEF Walk
<1>3. k \in Walk
  BY <1>1 DEF Walk
<1> HIDE DEF k
<1>4. /\ k.kind = j.kind /\ k.notes = j.notes /\ k.after = j.after /\ k.skip = j.skip
      /\ k.left = j.left /\ k.size = j.size
  BY <1>1
<1>5. D = j.done => k = j
  BY <1>1, <1>2
<1> QED
  BY <1>3, <1>4, <1>5 DEF k

LEMMA SelectingInv ==
  ASSUME NEW c \in Clients, SessionInv, Select(c)
  PROVE  SessionInv'
<1> DEFINE W(w) == [walks[w] EXCEPT !.done = walks[w].done \ {c}]
<1>1. /\ LetIn(c) /\ req[c].op \in {"SELECT", "EXAMINE"} /\ clients' = Append(Without(c), c)
      /\ walks' = [w \in Walkers |-> W(w)] /\ view' = [view EXCEPT ![c] = msgs]
      /\ adrift' = adrift \ {c} /\ stage' = [stage EXCEPT ![c] = "announcing"]
      /\ UNCHANGED <<boxVars, state, selected, examine, refusals, reselects, idling, req, pending, sent>>
  BY DEF Select
<1>2. /\ StageTyped /\ PlaceTyped /\ TalkTyped /\ ListTyped /\ WalksTyped /\ Own(c) /\ msgs \in Mails
      /\ stage[c] = "waiting" /\ walks[Task] = NoWalk /\ msgs' = msgs /\ exists' = exists
  BY <1>1 DEF SessionInv, Typed, BoxTyped, LetIn, boxVars
<1>3. /\ ListTyped' /\ Registered(c)' /\ \A d \in Clients : d # c => (Registered(d)' <=> Registered(d))
  <2>1. /\ clients \in Seq(Clients) /\ IsInjective(clients)
    BY <1>2 DEF ListTyped
  <2> DEFINE s == Outside(clients, {c})
  <2>2. s \in Seq(Clients) /\ ToSet(s) = ToSet(clients) \ {c} /\ IsInjective(s)
    BY <2>1, OutsideIs
  <2>3. clients' = Append(s, c)
    BY <1>1 DEF Without
  <2> HIDE DEF s
  <2>4. clients' \in Seq(Clients) /\ ToSet(clients') = ToSet(s) \cup {c} /\ IsInjective(clients')
    BY <2>2, <2>3, OneMoreOf
  <2> QED
    BY <2>2, <2>4 DEF ListTyped, Registered
<1>4. ASSUME NEW w \in Walkers
      PROVE  /\ walks'[w] \in Walk /\ walks'[w].left <= walks'[w].size
             /\ walks'[w].kind = walks[w].kind /\ walks'[w].notes = walks[w].notes
             /\ walks'[w].after = walks[w].after /\ walks'[w].skip = walks[w].skip
             /\ walks[w] = NoWalk => walks'[w] = NoWalk
  <2> DEFINE j == walks[w]
             D == j.done \ {c}
  <2>1. j \in Walk /\ j.left <= j.size
    BY <1>2 DEF WalksTyped
  <2>2. D \in SUBSET Clients
    BY <2>1 DEF Walk
  <2>3. walks'[w] = [j EXCEPT !.done = D]
    BY <1>1
  <2>4. j = NoWalk => D = j.done
    BY DEF NoWalk
  <2> HIDE DEF j, D
  <2>5. /\ walks'[w] \in Walk /\ walks'[w].left = j.left /\ walks'[w].size = j.size
        /\ walks'[w].kind = j.kind /\ walks'[w].notes = j.notes
        /\ walks'[w].after = j.after /\ walks'[w].skip = j.skip
        /\ D = j.done => walks'[w] = j
    BY <2>1, <2>2, <2>3, Forgotten
  <2>6. walks'[w].left <= walks'[w].size
    BY <2>1, <2>5
  <2>7. j = NoWalk => walks'[w] = NoWalk
    BY <2>4, <2>5
  <2> QED
    BY <2>5, <2>6, <2>7 DEF j
<1>5. WalksTyped'
  <2>1. walks' \in [Walkers -> Walk]
    <3>1. walks' = [w \in Walkers |-> walks'[w]]
      BY <1>1
    <3> QED
      BY <1>4, <3>1
  <2> QED
    BY <1>4, <2>1 DEF WalksTyped
<1>6. \A w \in Walkers : RightWalk(walks'[w], msgs')
  <2> SUFFICES ASSUME NEW w \in Walkers PROVE RightWalk(walks'[w], msgs)
    BY <1>2
  <2>1. RightWalk(walks[w], msgs)
    BY DEF SessionInv
  <2> QED
    BY <1>4, <2>1 DEF RightWalk, MailWalk, FlagWalk, ExpungeWalk
<1>7. \A w \in Walkers : ~ Renumbers(w) /\ ~ Renumbers(w)'
  <2> SUFFICES ASSUME NEW w \in Walkers PROVE ~ Renumbers(w) /\ ~ Renumbers(w)'
    OBVIOUS
  <2>1. Renumbers(w)' <=> Renumbers(w)
    BY <1>4 DEF Renumbers, Renumbering
  <2>2. ~ Renumbers(w)
    <3> SUFFICES ASSUME Renumbers(w) PROVE FALSE
      OBVIOUS
    <3>1. walks[w] # NoWalk
      BY Constants DEF Renumbers
    <3>2. w \in Clients
      BY <1>2, <3>1 DEF Walkers
    <3>3. stage[w] = "working" /\ req[w].op \in Solitary
      BY <3>1, <3>2 DEF SessionInv, Alone
    <3> QED
      BY <1>1, <3>2, <3>3 DEF LetIn, Holding
  <2> QED
    BY <2>1, <2>2
<1>8. stage'[c] = "announcing" /\ StageTyped' /\ \A d \in Clients : d # c => stage'[d] = stage[d]
  BY <1>1, <1>2 DEF StageTyped
<1>9. view'[c] = msgs /\ TalkTyped' /\ \A d \in Clients : d # c => view'[d] = view[d]
  <2>1. msgs \in View
    BY <1>2, MailsAre
  <2> QED
    BY <1>1, <1>2, <2>1 DEF TalkTyped
<1>10. Typed'
  BY <1>1, <1>2, <1>3, <1>5, <1>8, <1>9 DEF SessionInv, Typed, BoxTyped, PlaceTyped, boxVars
<1>11. Alone'
  <2>1. ASSUME NEW w \in Clients, walks'[w] # NoWalk PROVE stage'[w] = "working" /\ req'[w].op # "MOVE"
    <3>1. walks[w] # NoWalk
      BY <1>4, <2>1, Constants
    <3> QED
      BY <1>1, <1>2, <1>8, <3>1 DEF SessionInv, Alone
  <2>2. \A w \in Clients : Renumbers(w)' => req'[w].op \in Solitary
    BY <1>7, Constants
  <2>3. \A d \in Clients : d # c => (Holding(d)' <=> Holding(d)) /\ req'[d] = req[d]
    BY <1>1, <1>8 DEF Holding
  <2>4. req'[c].op \notin Solitary
    BY <1>1 DEF Solitary
  <2>5. ASSUME NEW d \in Clients, NEW e \in Clients, d # e, Holding(d)', Holding(e)'
        PROVE  req'[d].op \notin Solitary
    <3>1. CASE d = c
      BY <2>4, <3>1
    <3>2. CASE d # c
      BY <1>1, <2>3, <2>5, <3>2 DEF LetIn
    <3> QED
      BY <3>1, <3>2
  <2>6. walks'[Task] = NoWalk
    BY <1>2, <1>4, Constants
  <2> QED
    BY <2>1, <2>2, <2>5, <2>6 DEF Alone
<1>12. ASSUME NEW d \in Clients, d # c PROVE Own(d)'
  <2>1. Still(d)
    BY <1>1, <1>3, <1>8, <1>9, <1>12 DEF Still
  <2>2. SameNews(d)
    BY <1>7 DEF SameNews
  <2> QED
    BY <1>2, <2>1, <2>2, OwnKept DEF SessionInv
<1>13. Own(c)'
  <2>1. pending[c] = << >> /\ sent[c] = 0
    BY <1>1, <1>2 DEF Own, Place
  <2>2. Place(c)'
    BY <1>1, <1>2, <1>3, <1>8, <2>1 DEF Own, Place
  <2>3. Meant(c)' /\ Pendable(pending[c])'
    BY <1>1, <1>2, <1>8 DEF Meant, Own
  <2>4. Unsent(c)' = << >>
    <3>1. << >> \in Seq(Note)
      BY EmptyList
    <3> QED
      BY <1>1, <2>1, <3>1, UnsentIs DEF Unsent
  <2>5. Follows(msgs, << >>, msgs)
    <3>1. msgs \in View
      BY <1>2, MailsAre
    <3>2. Knows(msgs, msgs)
      BY DEF Knows
    <3> QED
      BY <3>1, <3>2, OneNote DEF Follows
  <2>6. Abreast(c)'
    BY <1>2, <1>7, <1>9, <2>4, <2>5 DEF Abreast
  <2> QED
    BY <2>2, <2>3, <2>6 DEF Own
<1> QED
  BY <1>6, <1>10, <1>11, <1>12, <1>13 DEF SessionInv

-----------------------------------------------------------------------------
(* What a walk brings to each client *)

\* The rest of a list, from some element on.
LEMMA RestIs ==
  ASSUME NEW S, NEW p \in Seq(S), NEW k, k \in Nat, k <= Len(p)
  PROVE  /\ SubSeq(p, k + 1, Len(p)) \in Seq(S) /\ Len(SubSeq(p, k + 1, Len(p))) = Len(p) - k
         /\ \A i \in 1..(Len(p) - k) : SubSeq(p, k + 1, Len(p))[i] = p[k + i]
<1> DEFINE n == Len(p)
           s == SubSeq(p, k + 1, n)
<1>1. n \in Nat /\ \A i \in (k + 1)..n : p[i] \in S
  BY ListOf
<1> HIDE DEF n
<1>2. /\ s \in Seq(S)
      /\ Len(s) = IF k + 1 <= n THEN n - (k + 1) + 1 ELSE 0
      /\ \A i \in 1..(n - (k + 1) + 1) : s[i] = p[k + 1 + i - 1]
  BY <1>1, SubSeqProperties
<1> HIDE DEF s
<1>3. n - (k + 1) + 1 = n - k /\ \A i \in 1..(n - k) : k + 1 + i - 1 = k + i
  BY <1>1
<1>4. Len(s) = n - k
  <2>1. k <= n
    BY DEF n
  <2> QED
    BY <1>1, <1>2, <2>1
<1>5. \A i \in 1..(n - k) : s[i] = p[k + i]
  BY <1>2, <1>3
<1> QED
  BY <1>2, <1>4, <1>5 DEF s, n

\* What is appended to a list is appended to its rest.
LEMMA RestGrows ==
  ASSUME NEW p \in Seq(Note), NEW t \in Seq(Note), NEW k, k \in Nat, k <= Len(p)
  PROVE  /\ p \o t \in Seq(Note) /\ k <= Len(p \o t)
         /\ SubSeq(p \o t, k + 1, Len(p \o t)) = SubSeq(p, k + 1, Len(p)) \o t
<1> DEFINE q == p \o t
           a == SubSeq(q, k + 1, Len(q))
           r == SubSeq(p, k + 1, Len(p))
           b == r \o t
<1>1. Len(p) \in Nat /\ Len(t) \in Nat
  BY ListOf
<1>2. /\ q \in Seq(Note) /\ Len(q) = Len(p) + Len(t)
      /\ \A i \in 1..Len(p) : q[i] = p[i]
      /\ \A i \in 1..Len(t) : q[Len(p) + i] = t[i]
  BY Joined
<1> HIDE DEF q
<1>3. k <= Len(q)
  BY <1>1, <1>2
<1>4. /\ a \in Seq(Note) /\ Len(a) = Len(q) - k /\ \A i \in 1..(Len(q) - k) : a[i] = q[k + i]
  BY <1>2, <1>3, RestIs
<1>5. /\ r \in Seq(Note) /\ Len(r) = Len(p) - k /\ \A i \in 1..(Len(p) - k) : r[i] = p[k + i]
  BY RestIs
<1> HIDE DEF a, r
<1>6. /\ b \in Seq(Note) /\ Len(b) = Len(r) + Len(t)
      /\ \A i \in 1..Len(r) : b[i] = r[i]
      /\ \A i \in 1..Len(t) : b[Len(r) + i] = t[i]
  <2>1. r \in Seq(Note)
    BY <1>5
  <2> QED
    BY <2>1, Joined
<1> HIDE DEF b
<1>7. Len(a) = Len(b) /\ Len(a) \in Nat
  BY <1>1, <1>2, <1>4, <1>5, <1>6
<1>8. ASSUME NEW i \in 1..Len(a) PROVE a[i] = b[i]
  <2>1. i \in 1..(Len(q) - k)
    BY <1>4
  <2>2. CASE i <= Len(p) - k
    <3>1. i \in 1..(Len(p) - k) /\ i \in 1..Len(r) /\ k + i \in 1..Len(p)
      BY <1>1, <1>5, <2>1, <2>2
    <3> QED
      BY <1>2, <1>4, <1>5, <1>6, <2>1, <3>1
  <2>3. CASE i > Len(p) - k
    <3> DEFINE j == i - (Len(p) - k)
    <3>1. j \in 1..Len(t) /\ Len(p) + j = k + i /\ Len(r) + j = i
      BY <1>1, <1>2, <1>5, <2>1, <2>3
    <3> HIDE DEF j
    <3>2. a[i] = q[k + i] /\ q[Len(p) + j] = t[j] /\ b[Len(r) + j] = t[j]
      BY <1>2, <1>4, <1>6, <2>1, <3>1
    <3> QED
      BY <3>1, <3>2
  <2> QED
    BY <1>1, <2>1, <2>2, <2>3
<1>9. a = b
  BY <1>4, <1>6, <1>7, <1>8, SeqEqual
<1> QED
  BY <1>2, <1>3, <1>9 DEF a, b, q, r

\* Two lists that may be pending, one after the other.
LEMMA PendableJoined ==
  ASSUME NEW p \in Seq(Note), NEW t \in Seq(Note), Pendable(p), Pendable(t)
  PROVE  Pendable(p \o t)
<1> DEFINE q == p \o t
<1>1. Len(p) \in Nat /\ Len(t) \in Nat /\ DOMAIN p = 1..Len(p) /\ DOMAIN t = 1..Len(t)
  BY ListOf
<1>2. /\ q \in Seq(Note) /\ Len(q) = Len(p) + Len(t)
      /\ \A i \in 1..Len(p) : q[i] = p[i]
      /\ \A i \in 1..Len(t) : q[Len(p) + i] = t[i]
  BY Joined
<1> HIDE DEF q
<1>3. DOMAIN q = 1..(Len(p) + Len(t))
  BY <1>2, ListOf
<1>4. ASSUME NEW i \in DOMAIN q
      PROVE  \/ i \in DOMAIN p /\ q[i] = p[i]
             \/ i - Len(p) \in DOMAIN t /\ q[i] = t[i - Len(p)]
  <2>1. CASE i <= Len(p)
    BY <1>1, <1>2, <1>3, <2>1
  <2>2. CASE i > Len(p)
    <3> DEFINE j == i - Len(p)
    <3>1. j \in 1..Len(t) /\ Len(p) + j = i
      BY <1>1, <1>3, <2>2
    <3> HIDE DEF j
    <3>2. q[i] = t[j]
      BY <1>2, <3>1
    <3> QED
      BY <1>1, <3>1, <3>2 DEF j
  <2> QED
    BY <1>1, <1>3, <2>1, <2>2
<1>5. Pendable(q)
  BY <1>4 DEF Pendable
<1> QED
  BY <1>5 DEF q

\* News is brought by one walk at a time, and nothing else is.
LEMMA OneNews ==
  ASSUME SessionInv, NEW w \in Walkers, Renumbers(w), NEW x \in Walkers, walks[x] # NoWalk
  PROVE  x = w
<1>1. walks[w] # NoWalk
  BY Constants DEF Renumbers
<1>2. CASE w = Task
  <2>1. ASSUME x \in Clients PROVE FALSE
    <3>1. stage[x] = "working"
      BY <2>1 DEF SessionInv, Alone
    <3> QED
      BY <1>1, <1>2, <2>1, <3>1 DEF SessionInv, Alone, Holding
  <2> QED
    BY <1>2, <2>1 DEF Walkers
<1>3. CASE w # Task
  <2>1. w \in Clients /\ stage[w] = "working" /\ req[w].op \in Solitary
    BY <1>1, <1>3 DEF SessionInv, Alone, Walkers
  <2>2. Holding(w)
    BY <2>1 DEF Holding
  <2>3. x # Task
    BY <2>1, <2>2 DEF SessionInv, Alone
  <2>4. x \in Clients /\ stage[x] = "working"
    BY <2>3 DEF SessionInv, Alone, Walkers
  <2>5. Holding(x)
    BY <2>4 DEF Holding
  <2> QED
    BY <2>1, <2>2, <2>4, <2>5 DEF SessionInv, Alone
<1> QED
  BY <1>2, <1>3

\* Who is before the iterator looks at the mailbox and was not reached.
LEMMA TodoIs ==
  ASSUME SessionInv, NEW w \in Walkers
  PROVE  /\ Todo(w) \in Seq(Clients) /\ Len(Todo(w)) \in Nat
         /\ \A d \in Clients : d \in ToSet(Todo(w)) <=> Registered(d) /\ d \notin walks[w].done
         /\ \A n \in 0..Len(Todo(w)) : /\ ToSet(SubSeq(Todo(w), 1, n)) \subseteq ToSet(Todo(w))
                                       /\ ToSet(Todo(w)) \subseteq Clients
         /\ ToSet(SubSeq(Todo(w), 1, Len(Todo(w)))) = ToSet(Todo(w))
<1> DEFINE s == Todo(w)
<1>1. clients \in Seq(Clients)
  BY DEF SessionInv, Typed, ListTyped
<1>2. s \in Seq(Clients) /\ ToSet(s) = ToSet(clients) \ walks[w].done
  BY <1>1, OutsideIs DEF Todo
<1> HIDE DEF s
<1>3. Len(s) \in Nat /\ DOMAIN s = 1..Len(s) /\ \A i \in 1..Len(s) : s[i] \in Clients
  BY <1>2, ListOf
<1>4. ASSUME NEW n \in 0..Len(s)
      PROVE  ToSet(SubSeq(s, 1, n)) \subseteq ToSet(s)
  <2> DEFINE q == SubSeq(s, 1, n)
  <2>1. q \in Seq(Clients) /\ Len(q) = n /\ \A i \in 1..n : q[i] = s[i]
    BY <1>2, FirstOf
  <2> HIDE DEF q
  <2>2. DOMAIN q = 1..n
    BY <2>1, ListOf
  <2>3. \A i \in 1..n : i \in DOMAIN s
    BY <1>3
  <2>4. ToSet(q) \subseteq ToSet(s)
    BY <2>1, <2>2, <2>3 DEF ToSet
  <2> QED
    BY <2>4 DEF q
<1>5. ToSet(s) \subseteq Clients
  BY <1>3 DEF ToSet
<1>6. SubSeq(s, 1, Len(s)) = s
  BY <1>2, SubSeqFull
<1>7. \A d \in Clients : d \in ToSet(s) <=> Registered(d) /\ d \notin walks[w].done
  BY <1>2 DEF Registered
<1> QED
  BY <1>2, <1>3, <1>4, <1>5, <1>6, <1>7 DEF s

\* Those whom a walk is yet to reach know the list that it starts from.
LEMMA Owing ==
  ASSUME SessionInv, NEW w \in Walkers, walks[w] # NoWalk, NEW d \in Clients, Good(d)
  PROVE  /\ Ahead(w, d) => \E l \in Mails : /\ Follows(view[d], Unsent(d), l)
                                            /\ Brings(walks[w].notes, l, msgs)
         /\ ~ (Renumbers(w) /\ Ahead(w, d)) => Follows(view[d], Unsent(d), msgs)
<1>1. /\ Unsent(d) \in Seq(Note) /\ view[d] \in View /\ msgs \in Mails
      /\ walks[w] \in Walk /\ RightWalk(walks[w], msgs) /\ Abreast(d)
  BY UnsentPends DEF SessionInv, Typed, WalksTyped, Own
<1>2. ~ Renumbers(w) => Numbered(msgs, walks[w].notes)
  BY <1>1, WalkBrings DEF Renumbers
<1>3. \A x \in Walkers : Renumbers(x) => x = w
  BY OneNews
<1>4. ASSUME ~ (Renumbers(w) /\ Ahead(w, d)) PROVE Follows(view[d], Unsent(d), msgs)
  BY <1>1, <1>3, <1>4 DEF Abreast
<1>5. ASSUME Ahead(w, d), Renumbers(w)
      PROVE  \E l \in Mails : Follows(view[d], Unsent(d), l) /\ Brings(walks[w].notes, l, msgs)
  <2> DEFINE l == Before(walks[w], msgs)
  <2>1. l \in Seq(Uids) /\ Brings(walks[w].notes, l, msgs)
    BY <1>5, BeforeIs
  <2>2. Follows(view[d], Unsent(d), l)
    BY <1>1, <1>5 DEF Abreast
  <2> HIDE DEF l
  <2>3. l \in Mails
    BY <1>1, <2>1, <2>2, FollowedMails
  <2> QED
    BY <2>1, <2>2, <2>3
<1>6. ASSUME Ahead(w, d), ~ Renumbers(w)
      PROVE  \E l \in Mails : Follows(view[d], Unsent(d), l) /\ Brings(walks[w].notes, l, msgs)
  BY <1>1, <1>2, <1>4, <1>6 DEF Brings
<1> QED
  BY <1>4, <1>5, <1>6

\* A client's own record of a message outlives EXISTS.
LEMMA MailKeeps ==
  ASSUME NEW v \in View, NEW n \in 0..MaxUid, NEW i \in DOMAIN v
  PROVE  i \in DOMAIN HearAll(v, << Exists(n) >>) /\ HearAll(v, << Exists(n) >>)[i] = v[i]
<1> DEFINE x == Exists(n)
<1>1. x \in Note /\ x.type = "EXISTS" /\ x.n = n
  BY Constants DEF Exists, Note, Unknown
<1> HIDE DEF x
<1>2. HearAll(v, << x >>) = Hear(v, x)
  BY <1>1, OneNote
<1>3. /\ Hear(v, x) \in View
      /\ Len(Hear(v, x)) = IF x.n > Len(v) THEN x.n ELSE Len(v)
      /\ \A j \in 1..Len(Hear(v, x)) : Hear(v, x)[j] = IF j <= Len(v) THEN v[j] ELSE Unknown
  BY <1>1, Heard
<1>4. DOMAIN v = 1..Len(v) /\ Len(v) \in Nat /\ n \in Nat /\ DOMAIN Hear(v, x) = 1..Len(Hear(v, x))
  BY <1>3, ViewsAre, Constants
<1>5. i \in 1..Len(Hear(v, x)) /\ i <= Len(v)
  BY <1>1, <1>3, <1>4
<1>6. i \in DOMAIN Hear(v, x) /\ Hear(v, x)[i] = v[i]
  BY <1>3, <1>4, <1>5
<1> QED
  BY <1>2, <1>6 DEF x

Reached(w, n) == ToSet(SubSeq(Todo(w), 1, n))

LEMMA Brought ==
  ASSUME SessionInv, NEW w \in Walkers, walks[w] # NoWalk, NEW n \in 0..Len(Todo(w)), BringTo(w, n),
         UNCHANGED <<boxVars, placeVars, idling, req, stage, sent>>
  PROVE  /\ TalkTyped'
         /\ \A d \in Clients :
              /\ Place(d)' /\ Meant(d)' /\ Pendable(pending[d])' /\ (Good(d)' => Good(d))
              /\ d \notin Reached(w, n) => view'[d] = view[d] /\ Unsent(d)' = Unsent(d)
              /\ d \in Reached(w, n) /\ Good(d)' => Follows(view'[d], Unsent(d)', msgs)
<1> DEFINE R == Reached(w, n)
           t == walks[w].notes
           now == {d \in R : d # walks[w].skip}
           told == {d \in now : AtOnce(w, d)}
<1>1. /\ R \subseteq Clients
      /\ \A d \in R : d \in Clients /\ Registered(d) /\ d \notin walks[w].done
  BY TodoIs DEF Reached
<1>2. /\ view' = [d \in Clients |-> IF d \in told THEN HearAll(view[d], t) ELSE view[d]]
      /\ adrift' = adrift \cup {d \in told : Overtakes(d, t)}
      /\ pending' = [d \in Clients |-> IF d \in now /\ ~ AtOnce(w, d) THEN pending[d] \o t ELSE pending[d]]
  BY DEF BringTo, Tell, Reached
<1>3. /\ walks[w] \in Walk /\ RightWalk(walks[w], msgs) /\ msgs \in Mails /\ TalkTyped
  BY DEF SessionInv, Typed, WalksTyped, BoxTyped
<1>4. /\ t \in Seq(Note)
      /\ walks[w].kind # "exists" => Pendable(t)
      /\ walks[w].skip \in Clients => ~ Renumbers(w)
  BY <1>3, WalkBrings, Constants DEF Renumbers
<1>5. walks[w].kind = "exists" => t = << Exists(Len(msgs)) >> /\ Len(msgs) \in 0..MaxUid
  <2>1. Len(msgs) \in Nat /\ Len(msgs) <= MaxUid /\ MaxUid \in Nat
    BY <1>3, MailsAre, Constants
  <2> QED
    BY <1>3, <2>1 DEF RightWalk, MailWalk, FlagWalk, ExpungeWalk, NoWalk
<1> HIDE DEF R, t
<1> DEFINE Told(d)   == /\ d \in R /\ d # walks[w].skip /\ AtOnce(w, d)
                        /\ view'[d] = HearAll(view[d], t) /\ pending'[d] = pending[d]
                        /\ d \in adrift' <=> d \in adrift \/ Overtakes(d, t)
           Kept(d)   == /\ d \in R /\ d # walks[w].skip /\ ~ AtOnce(w, d)
                        /\ view'[d] = view[d] /\ pending'[d] = pending[d] \o t
                        /\ d \in adrift' <=> d \in adrift
           Missed(d) == /\ d \notin R \/ d = walks[w].skip
                        /\ view'[d] = view[d] /\ pending'[d] = pending[d]
                        /\ d \in adrift' <=> d \in adrift
<1>6. ASSUME NEW d \in Clients PROVE Told(d) \/ Kept(d) \/ Missed(d)
  <2>1. CASE d \in R /\ d # walks[w].skip /\ AtOnce(w, d)
    BY <1>2, <2>1
  <2>2. CASE d \in R /\ d # walks[w].skip /\ ~ AtOnce(w, d)
    BY <1>2, <2>2
  <2>3. CASE d \notin R \/ d = walks[w].skip
    BY <1>2, <2>3
  <2> QED
    BY <2>1, <2>2, <2>3
<1>7. adrift \subseteq adrift' /\ adrift' \subseteq Clients
  BY <1>1, <1>2, <1>3 DEF TalkTyped
<1> HIDE DEF now, told
<1>8. ASSUME NEW d \in Clients
      PROVE  /\ pending[d] \in Seq(Note) /\ sent[d] \in Nat /\ sent[d] <= Len(pending[d]) /\ view[d] \in View
             /\ Unsent(d) \in Seq(Note) /\ Pendable(Unsent(d)) /\ Pendable(pending[d]) /\ Place(d) /\ Meant(d)
             /\ HearAll(view[d], t) \in View
  <2>1. /\ pending[d] \in Seq(Note) /\ sent[d] \in Nat /\ sent[d] <= Len(pending[d]) /\ view[d] \in View
        /\ Pendable(pending[d]) /\ Place(d) /\ Meant(d)
    BY <1>3 DEF TalkTyped, SessionInv, Own
  <2> QED
    BY <1>4, <2>1, UnsentPends, HearAllView
<1>9. ASSUME NEW d \in Clients, Kept(d)
      PROVE  /\ pending'[d] \in Seq(Note) /\ sent[d] <= Len(pending'[d])
             /\ Unsent(d)' = Unsent(d) \o t /\ Pendable(pending'[d])
  <2> DEFINE p == pending[d]
             k == sent[d]
  <2>1. p \in Seq(Note) /\ k \in Nat /\ k <= Len(p) /\ Pendable(p) /\ Unsent(d) = SubSeq(p, k + 1, Len(p))
    BY <1>8 DEF Unsent
  <2>2. pending'[d] = p \o t /\ sent'[d] = k
    BY <1>9
  <2>3. Unsent(d)' = SubSeq(p \o t, k + 1, Len(p \o t))
    BY <2>2 DEF Unsent
  <2>4. Pendable(t)
    BY <1>4, <1>9 DEF AtOnce
  <2>5. sent[d] = k
    OBVIOUS
  <2> HIDE DEF p, k
  <2>6. /\ p \o t \in Seq(Note) /\ k <= Len(p \o t)
        /\ SubSeq(p \o t, k + 1, Len(p \o t)) = SubSeq(p, k + 1, Len(p)) \o t
    <3>1. t \in Seq(Note)
      BY <1>4
    <3>2. p \in Seq(Note) /\ k \in Nat /\ k <= Len(p)
      BY <2>1
    <3> QED
      BY <3>1, <3>2, RestGrows
  <2>7. Pendable(p \o t)
    BY <1>4, <2>1, <2>4, PendableJoined
  <2> QED
    BY <2>1, <2>2, <2>3, <2>5, <2>6, <2>7
<1>10. \A d \in Clients : Told(d) \/ Missed(d) => pending'[d] = pending[d] /\ Unsent(d)' = Unsent(d)
  BY DEF Unsent
<1>11. TalkTyped'
  <2>1. ASSUME NEW d \in Clients
        PROVE  pending'[d] \in Seq(Note) /\ sent'[d] <= Len(pending'[d]) /\ view'[d] \in View
    BY <1>6, <1>8, <1>9
  <2>2. view' = [d \in Clients |-> view'[d]] /\ pending' = [d \in Clients |-> pending'[d]]
    BY <1>2
  <2>3. view' \in [Clients -> View] /\ pending' \in [Clients -> Seq(Note)]
    BY <2>1, <2>2
  <2>4. sent' \in [Clients -> Nat]
    BY <1>3 DEF TalkTyped
  <2> QED
    BY <1>7, <2>1, <2>3, <2>4 DEF TalkTyped
<1>12. ASSUME NEW d \in Clients PROVE Good(d)' => Good(d)
  BY <1>7 DEF Good, Registered, Connected, placeVars
<1>13. ASSUME NEW d \in Clients PROVE Pendable(pending[d])'
  BY <1>6, <1>8, <1>9
<1>14. ASSUME NEW d \in Clients PROVE Place(d)'
  <2>1. Registered(d) \/ pending'[d] = pending[d]
    BY <1>1, <1>6 DEF R
  <2> QED
    BY <1>8, <2>1 DEF Place, Registered, placeVars, boxVars
<1>15. ASSUME NEW d \in Clients PROVE Meant(d)'
  <2>1. CASE view'[d] = view[d]
    BY <1>7, <1>8, <2>1 DEF Meant, boxVars
  <2>2. CASE Told(d) /\ walks[w].kind = "exists"
    <3>1. \A i \in DOMAIN view[d] : i \in DOMAIN view'[d] /\ view'[d][i] = view[d][i]
      BY <1>5, <1>8, <2>2, MailKeeps
    <3> QED
      BY <1>7, <1>8, <3>1 DEF Meant, boxVars
  <2>3. CASE Told(d) /\ walks[w].kind # "exists"
    <3>1. idling[d]
      BY <2>3 DEF AtOnce
    <3>2. stage[d] \in {"none", "closing"} \/ req[d].op \in {"EXPUNGE", "MOVED"}
      BY <1>8, <3>1 DEF Place
    <3> QED
      BY <3>2 DEF Meant, NumberOps
  <2> QED
    BY <1>6, <2>1, <2>2, <2>3
<1>16. ASSUME NEW d \in Clients, d \notin R PROVE view'[d] = view[d] /\ Unsent(d)' = Unsent(d)
  BY <1>6, <1>10, <1>16
<1>17. ASSUME NEW d \in Clients, d \in R, Good(d)' PROVE Follows(view'[d], Unsent(d)', msgs)
  <2>1. Good(d)
    BY <1>12, <1>17
  <2>2. CASE Missed(d)
    <3>1. ~ Renumbers(w)
      BY <1>4, <1>17, <2>2
    <3>2. Follows(view[d], Unsent(d), msgs)
      BY <2>1, <3>1, Owing
    <3> QED
      BY <1>10, <2>2, <3>2
  <2>3. ASSUME d # walks[w].skip
        PROVE  \E l \in Mails : Follows(view[d], Unsent(d), l) /\ Brings(t, l, msgs)
    <3>1. Ahead(w, d)
      BY <1>1, <1>17, <2>3 DEF Ahead, R
    <3> QED
      BY <2>1, <3>1, Owing DEF t
  <2>4. CASE Told(d)
    <3>1. PICK l \in Mails : Follows(view[d], Unsent(d), l) /\ Brings(t, l, msgs)
      BY <2>3, <2>4
    <3>2. ~ Overtakes(d, t)
      BY <1>17, <2>4 DEF Good
    <3>3. Follows(HearAll(view[d], t), Unsent(d), msgs)
      <4>1. ~ (t # << >> /\ HasExpunge(Unsent(d))) /\ ~ (HasExpunge(t) /\ Unsent(d) # << >>)
        BY <3>2 DEF Overtakes
      <4> QED
        BY <1>3, <1>4, <1>8, <3>1, <4>1, AtOnceFollows
    <3> QED
      BY <1>10, <2>4, <3>3
  <2>5. CASE Kept(d)
    <3>1. PICK l \in Mails : Follows(view[d], Unsent(d), l) /\ Brings(t, l, msgs)
      BY <2>3, <2>5
    <3>2. Follows(view[d], Unsent(d) \o t, msgs)
      BY <1>3, <1>4, <1>8, <3>1, LaterFollows
    <3> QED
      BY <1>9, <2>5, <3>2
  <2> QED
    BY <1>6, <2>2, <2>4, <2>5
<1> HIDE DEF Told, Kept, Missed
<1> QED
  BY <1>11, <1>12, <1>13, <1>14, <1>15, <1>16, <1>17 DEF R

Further(j, D, n, m) == [j EXCEPT !.begun = TRUE, !.done = D, !.size = n, !.left = m]

\* One field of a walk changes.
LEMMA BegunIs ==
  ASSUME NEW j \in Walk, NEW x
  PROVE  [j EXCEPT !.begun = x] = [kind |-> j.kind, notes |-> j.notes, after |-> j.after, skip |-> j.skip,
                                   begun |-> x, done |-> j.done, size |-> j.size, left |-> j.left]
BY DEF Walk

LEMMA DoneIs ==
  ASSUME NEW j \in Walk, NEW x
  PROVE  [j EXCEPT !.done = x] = [kind |-> j.kind, notes |-> j.notes, after |-> j.after, skip |-> j.skip,
                                  begun |-> j.begun, done |-> x, size |-> j.size, left |-> j.left]
BY DEF Walk

LEMMA SizeIs ==
  ASSUME NEW j \in Walk, NEW x
  PROVE  [j EXCEPT !.size = x] = [kind |-> j.kind, notes |-> j.notes, after |-> j.after, skip |-> j.skip,
                                  begun |-> j.begun, done |-> j.done, size |-> x, left |-> j.left]
BY DEF Walk

LEMMA LeftIs ==
  ASSUME NEW j \in Walk, NEW x
  PROVE  [j EXCEPT !.left = x] = [kind |-> j.kind, notes |-> j.notes, after |-> j.after, skip |-> j.skip,
                                  begun |-> j.begun, done |-> j.done, size |-> j.size, left |-> x]
BY DEF Walk

\* A walk that goes on is the same but for how far it has come.
LEMMA Advanced ==
  ASSUME NEW j \in Walk, NEW D \in SUBSET Clients, NEW n, n \in Nat, NEW m, m \in Nat
  PROVE  /\ Further(j, D, n, m) \in Walk /\ Further(j, D, n, m).done = D
         /\ Further(j, D, n, m).size = n /\ Further(j, D, n, m).left = m
         /\ Further(j, D, n, m).kind = j.kind /\ Further(j, D, n, m).notes = j.notes
         /\ Further(j, D, n, m).after = j.after /\ Further(j, D, n, m).skip = j.skip
<1> DEFINE k == [j EXCEPT !.begun = TRUE]
<1>1. k = [kind |-> j.kind, notes |-> j.notes, after |-> j.after, skip |-> j.skip,
           begun |-> TRUE, done |-> j.done, size |-> j.size, left |-> j.left]
  BY BegunIs
<1> HIDE DEF k
<1>2. k \in Walk
  BY <1>1 DEF Walk
<1> DEFINE l == [k EXCEPT !.done = D]
<1>4. l = [kind |-> k.kind, notes |-> k.notes, after |-> k.after, skip |-> k.skip,
           begun |-> k.begun, done |-> D, size |-> k.size, left |-> k.left]
  BY <1>2, DoneIs
<1> HIDE DEF l
<1>5. l \in Walk
  BY <1>2, <1>4 DEF Walk
<1> DEFINE o == [l EXCEPT !.size = n]
<1>7. o = [kind |-> l.kind, notes |-> l.notes, after |-> l.after, skip |-> l.skip,
           begun |-> l.begun, done |-> l.done, size |-> n, left |-> l.left]
  BY <1>5, SizeIs
<1> HIDE DEF o
<1>8. o \in Walk
  BY <1>5, <1>7 DEF Walk
<1> DEFINE p == [o EXCEPT !.left = m]
<1>10. p = [kind |-> o.kind, notes |-> o.notes, after |-> o.after, skip |-> o.skip,
            begun |-> o.begun, done |-> o.done, size |-> o.size, left |-> m]
  BY <1>8, LeftIs
<1> HIDE DEF p
<1>11. p \in Walk
  BY <1>8, <1>10 DEF Walk
<1>12. /\ k.kind = j.kind /\ k.notes = j.notes /\ k.after = j.after /\ k.skip = j.skip
       /\ l.done = D /\ l.kind = k.kind /\ l.notes = k.notes /\ l.after = k.after /\ l.skip = k.skip
       /\ o.done = D /\ o.size = n
       /\ o.kind = l.kind /\ o.notes = l.notes /\ o.after = l.after /\ o.skip = l.skip
  BY <1>1, <1>4, <1>7
<1>13. /\ p.done = D /\ p.size = n /\ p.left = m
       /\ p.kind = o.kind /\ p.notes = o.notes /\ p.after = o.after /\ p.skip = o.skip
  BY <1>10, <1>12
<1>14. Further(j, D, n, m) = p
  BY DEF Further, p, o, l, k
<1> QED
  BY <1>11, <1>12, <1>13, <1>14

\* A walk goes on or ends: who had to wait still waits.
LEMMA AloneOn ==
  ASSUME Alone, req' = req, \A c \in Clients : Holding(c)' => Holding(c),
         \A x \in Walkers : (walks'[x] # NoWalk => walks[x] # NoWalk) /\ (Renumbers(x)' => Renumbers(x)),
         \A x \in Clients : walks'[x] # NoWalk => stage'[x] = stage[x]
  PROVE  Alone'
<1>1. Task \in Walkers /\ Clients \subseteq Walkers
  BY Constants
<1>2. ASSUME NEW x \in Clients, walks'[x] # NoWalk PROVE stage'[x] = "working" /\ req'[x].op # "MOVE"
  BY <1>1, <1>2 DEF Alone
<1>3. \A x \in Clients : Renumbers(x)' => req'[x].op \in Solitary
  BY <1>1 DEF Alone
<1>4. \A c, d \in Clients : c # d /\ Holding(c)' /\ Holding(d)' => req'[c].op \notin Solitary
  BY DEF Alone
<1>5. walks'[Task] # NoWalk => \A c \in Clients : ~ Holding(c)'
  BY <1>1 DEF Alone
<1> QED
  BY <1>2, <1>3, <1>4, <1>5 DEF Alone

\* With a step of walk w a client knows the list, or is no further.
LEMMA AbreastOn ==
  ASSUME SessionInv, NEW w \in Walkers, walks[w] # NoWalk, NEW d \in Clients, Good(d)' => Good(d),
         msgs' = msgs, \A x \in Walkers : x # w => walks'[x] = walks[x],
         Renumbers(w)' => Renumbers(w),
         Good(d)' =>
           \/ Follows(view'[d], Unsent(d)', msgs) /\ ~ (Renumbers(w)' /\ Ahead(w, d)')
           \/ /\ view'[d] = view[d] /\ Unsent(d)' = Unsent(d)
              /\ Renumbers(w) /\ Ahead(w, d) => Renumbers(w)' /\ Ahead(w, d)'
              /\ Ahead(w, d)' => Ahead(w, d)
              /\ Before(walks'[w], msgs) = Before(walks[w], msgs)
  PROVE  Abreast(d)'
<1> SUFFICES ASSUME Good(d)' PROVE Abreast(d)'
  BY DEF Abreast
<1>1. Abreast(d) /\ Good(d)
  BY DEF SessionInv, Own
<1>2. \A x \in Walkers : x # w => ~ Renumbers(x) /\ ~ Renumbers(x)'
  <2>1. \A x \in Walkers : Renumbers(x) => w = x
    BY OneNews
  <2> QED
    BY <2>1 DEF Renumbers
<1>3. CASE Follows(view'[d], Unsent(d)', msgs) /\ ~ (Renumbers(w)' /\ Ahead(w, d)')
  BY <1>2, <1>3 DEF Abreast
<1>4. ASSUME view'[d] = view[d], Unsent(d)' = Unsent(d),
             Renumbers(w) /\ Ahead(w, d) => Renumbers(w)' /\ Ahead(w, d)',
             Ahead(w, d)' => Ahead(w, d),
             Before(walks'[w], msgs) = Before(walks[w], msgs)
      PROVE  Abreast(d)'
  <2>1. CASE Renumbers(w)' /\ Ahead(w, d)'
    <3>1. Follows(view[d], Unsent(d), Before(walks[w], msgs))
      BY <1>1, <1>4, <2>1 DEF Abreast
    <3>2. Follows(view'[d], Unsent(d)', Before(walks'[w], msgs'))
      BY <1>4, <3>1
    <3> QED
      BY <1>2, <2>1, <3>2 DEF Abreast
  <2>2. CASE ~ (Renumbers(w)' /\ Ahead(w, d)')
    <3>1. Follows(view[d], Unsent(d), msgs)
      BY <1>1, <1>2, <1>4, <2>2 DEF Abreast
    <3> QED
      BY <1>2, <1>4, <2>2, <3>1 DEF Abreast
  <2> QED
    BY <2>1, <2>2
<1> QED
  BY <1>3, <1>4

LEMMA VisitingInv ==
  ASSUME NEW w \in Walkers, SessionInv, Visit(w)
  PROVE  SessionInv'
<1>1. /\ walks[w] # NoWalk /\ UNCHANGED <<boxVars, placeVars, idling, req, stage, sent>>
      /\ WalksTyped /\ walks[w] \in Walk /\ TalkTyped
  BY DEF Visit, SessionInv, Typed, WalksTyped
<1>2. PICK k \in 1..Len(Todo(w)) :
        /\ k <= Left(w) /\ BringTo(w, k)
        /\ walks' = [walks EXCEPT ![w] = Further(walks[w], walks[w].done \cup Reached(w, k),
                                                 Len(clients), Left(w) - k)]
  BY <1>1 DEF Visit, Further, Reached, WalksTyped
<1>3. Len(Todo(w)) \in Nat /\ k \in 0..Len(Todo(w)) /\ k \in Nat
  <2>1. Len(Todo(w)) \in Nat
    BY TodoIs
  <2> QED
    BY <2>1
<1> DEFINE j == walks[w]
           D == j.done \cup Reached(w, k)
           n == Len(clients)
           m == Left(w) - k
           a == Further(j, D, n, m)
<1>4. D \in SUBSET Clients
  <2>1. Reached(w, k) \subseteq Clients
    BY <1>3, TodoIs DEF Reached
  <2>2. j.done \subseteq Clients
    BY <1>1 DEF Walk
  <2> QED
    BY <2>1, <2>2
<1>5. n \in Nat /\ m \in Nat /\ m <= n
  <2>1. n \in Nat
    BY ListOf DEF SessionInv, Typed, ListTyped
  <2>2. CASE walks[w].begun
    <3>1. Left(w) = walks[w].left /\ walks[w].left \in Nat /\ walks[w].size \in Nat
          /\ walks[w].left <= walks[w].size
      BY <1>1, <2>2 DEF Left, WalksTyped, Walk
    <3>2. walks[w].size = n
      BY <2>2 DEF Visit, Disturbed
    <3>3. k <= walks[w].left
      BY <1>2, <3>1
    <3>4. m = walks[w].left - k
      BY <3>1
    <3> HIDE DEF m, n
    <3> QED
      BY <1>3, <2>1, <3>1, <3>2, <3>3, <3>4
  <2>3. CASE ~ walks[w].begun
    <3>1. Left(w) = n
      BY <2>3 DEF Left
    <3>2. k <= n /\ m = n - k
      BY <1>2, <3>1
    <3> HIDE DEF m, n
    <3> QED
      BY <1>3, <2>1, <3>2
  <2> QED
    BY <2>2, <2>3
<1> HIDE DEF D, n, m
<1>6. /\ a \in Walk /\ a.done = D /\ a.size = n /\ a.left = m
      /\ a.kind = j.kind /\ a.notes = j.notes /\ a.after = j.after /\ a.skip = j.skip
  BY <1>1, <1>4, <1>5, Advanced
<1> HIDE DEF a
<1>7. walks' = [walks EXCEPT ![w] = a]
  BY <1>2 DEF a, D, n, m
<1>8. walks'[w] = a /\ \A x \in Walkers : x # w => walks'[x] = walks[x]
  BY <1>1, <1>7 DEF WalksTyped
<1>9. WalksTyped'
  <2>1. walks' \in [Walkers -> Walk]
    BY <1>1, <1>6, <1>7 DEF WalksTyped
  <2>2. \A x \in Walkers : walks'[x].left <= walks'[x].size
    BY <1>1, <1>5, <1>6, <1>8 DEF WalksTyped
  <2> QED
    BY <2>1, <2>2 DEF WalksTyped
<1>10. /\ TalkTyped'
       /\ \A d \in Clients :
            /\ Place(d)' /\ Meant(d)' /\ Pendable(pending[d])' /\ (Good(d)' => Good(d))
            /\ d \notin Reached(w, k) => view'[d] = view[d] /\ Unsent(d)' = Unsent(d)
            /\ d \in Reached(w, k) /\ Good(d)' => Follows(view'[d], Unsent(d)', msgs)
  BY <1>1, <1>2, <1>3, Brought
<1>11. Typed'
  BY <1>1, <1>9, <1>10
  DEF SessionInv, Typed, BoxTyped, ListTyped, PlaceTyped, StageTyped, boxVars, placeVars
<1>12. msgs' = msgs
  BY <1>1 DEF boxVars
<1>13. \A x \in Walkers : RightWalk(walks'[x], msgs')
  <2>1. RightWalk(j, msgs) /\ \A x \in Walkers : RightWalk(walks[x], msgs)
    BY DEF SessionInv
  <2>2. RightWalk(a, msgs)
    BY <1>1, <1>6, <2>1 DEF RightWalk, MailWalk, FlagWalk, ExpungeWalk
  <2> QED
    BY <1>8, <1>12, <2>1, <2>2
<1>14. /\ Renumbers(w)' <=> Renumbers(w)
       /\ Before(walks'[w], msgs) = Before(walks[w], msgs)
       /\ \A d : Ahead(w, d)' <=> Ahead(w, d) /\ d \notin Reached(w, k)
  <2>1. walks'[w].kind = walks[w].kind /\ walks'[w].notes = walks[w].notes
        /\ walks'[w].after = walks[w].after /\ walks'[w].skip = walks[w].skip
        /\ walks'[w].done = walks[w].done \cup Reached(w, k)
    BY <1>6, <1>8 DEF D
  <2>2. Renumbers(w)' <=> Renumbers(w)
    BY <2>1 DEF Renumbers, Renumbering
  <2>3. Before(walks'[w], msgs) = Before(walks[w], msgs)
    BY <2>1 DEF Before
  <2>4. \A d : Ahead(w, d)' <=> Ahead(w, d) /\ d \notin Reached(w, k)
    BY <2>1 DEF Ahead
  <2> QED
    BY <2>2, <2>3, <2>4
<1>15. Alone'
  <2>1. \A c \in Clients : Holding(c)' => Holding(c)
    BY <1>1 DEF Holding
  <2>2. ASSUME NEW x \in Walkers
        PROVE  (walks'[x] # NoWalk => walks[x] # NoWalk) /\ (Renumbers(x)' => Renumbers(x))
    <3>1. CASE x = w
      BY <1>1, <1>14, <3>1
    <3>2. CASE x # w
      BY <1>8, <3>2 DEF Renumbers
    <3> QED
      BY <3>1, <3>2
  <2> QED
    BY <1>1, <2>1, <2>2, AloneOn DEF SessionInv
<1>16. ASSUME NEW d \in Clients PROVE Abreast(d)'
  <2>1. CASE d \in Reached(w, k)
    BY <1>1, <1>8, <1>10, <1>12, <1>14, <2>1, AbreastOn
  <2>2. CASE d \notin Reached(w, k)
    BY <1>1, <1>8, <1>10, <1>12, <1>14, <2>2, AbreastOn
  <2> QED
    BY <2>1, <2>2
<1> QED
  BY <1>10, <1>11, <1>13, <1>15, <1>16 DEF SessionInv, Own

LEMMA VisitingLastInv ==
  ASSUME NEW w \in Walkers, SessionInv, VisitLast(w)
  PROVE  SessionInv'
<1> DEFINE j == walks[w]
           a == IF j.after # << >> THEN Dispatch(j.after, Task) ELSE NoWalk
           n == Len(Todo(w))
<1>1. /\ j # NoWalk /\ BringTo(w, n)
      /\ UNCHANGED <<boxVars, placeVars, idling, req, stage, sent>>
  BY DEF VisitLast
<1>2. WalksTyped /\ j \in Walk /\ TalkTyped /\ RightWalk(j, msgs) /\ msgs \in Mails
  BY DEF SessionInv, Typed, WalksTyped, BoxTyped
<1>3. walks' = [walks EXCEPT ![w] = a]
  BY <1>2 DEF VisitLast, WalksTyped
<1>4. n \in Nat /\ n \in 0..n
  <2>1. n \in Nat
    BY TodoIs
  <2> HIDE DEF n
  <2> QED
    BY <2>1
<1>5. a \in Walk /\ a.left <= a.size /\ RightWalk(a, msgs) /\ ~ Renumbering(a)
  <2>1. CASE j.after = << >>
    BY <2>1, Constants DEF RightWalk
  <2>2. CASE j.after # << >>
    <3> DEFINE t == j.after
    <3>1. t \in Seq(Note) /\ Numbered(msgs, t) /\ t # << >>
      BY <1>2, <2>2, WalkBrings
    <3>2. a = Dispatch(t, Task)
      BY <2>2
    <3> HIDE DEF t, a
    <3>3. a \in Walk /\ a.kind = "dispatch" /\ a.notes = t /\ a.after = << >> /\ Fresh(a)
      BY <3>1, <3>2, DispatchIs, Constants
    <3>4. FlagWalk(a, msgs)
      BY <3>1, <3>3 DEF FlagWalk
    <3>5. ~ Renumbering(a)
      BY <3>1, <3>3 DEF Renumbering, HasExpunge, Numbered
    <3>6. a.left <= a.size
      BY <3>3 DEF Fresh, Walk
    <3> QED
      BY <3>3, <3>4, <3>5, <3>6 DEF RightWalk
  <2> QED
    BY <2>1, <2>2
<1> HIDE DEF a
<1>6. walks'[w] = a /\ \A x \in Walkers : x # w => walks'[x] = walks[x]
  BY <1>2, <1>3 DEF WalksTyped
<1>7. WalksTyped'
  <2>1. walks' \in [Walkers -> Walk]
    BY <1>2, <1>3, <1>5 DEF WalksTyped
  <2>2. \A x \in Walkers : walks'[x].left <= walks'[x].size
    BY <1>2, <1>5, <1>6 DEF WalksTyped
  <2> QED
    BY <2>1, <2>2 DEF WalksTyped
<1>8. /\ TalkTyped'
      /\ \A d \in Clients :
           /\ Place(d)' /\ Meant(d)' /\ Pendable(pending[d])' /\ (Good(d)' => Good(d))
           /\ d \notin Reached(w, n) => view'[d] = view[d] /\ Unsent(d)' = Unsent(d)
           /\ d \in Reached(w, n) /\ Good(d)' => Follows(view'[d], Unsent(d)', msgs)
  BY <1>1, <1>4, Brought
<1>9. Typed'
  BY <1>1, <1>7, <1>8
  DEF SessionInv, Typed, BoxTyped, ListTyped, PlaceTyped, StageTyped, boxVars, placeVars
<1>10. msgs' = msgs /\ ~ Renumbers(w)'
  BY <1>1, <1>5, <1>6 DEF boxVars, Renumbers
<1>11. \A x \in Walkers : RightWalk(walks'[x], msgs')
  BY <1>5, <1>6, <1>10 DEF SessionInv
<1>12. Alone'
  <2>1. \A c \in Clients : Holding(c)' => Holding(c)
    BY <1>1 DEF Holding
  <2>2. ASSUME NEW x \in Walkers
        PROVE  (walks'[x] # NoWalk => walks[x] # NoWalk) /\ (Renumbers(x)' => Renumbers(x))
    <3>1. CASE x = w
      BY <1>1, <1>10, <3>1
    <3>2. CASE x # w
      BY <1>6, <3>2 DEF Renumbers
    <3> QED
      BY <3>1, <3>2
  <2> QED
    BY <1>1, <2>1, <2>2, AloneOn DEF SessionInv
<1>13. ASSUME NEW d \in Clients PROVE Abreast(d)'
  <2>1. ASSUME Good(d)' PROVE Follows(view'[d], Unsent(d)', msgs)
    <3>1. CASE d \in Reached(w, n)
      BY <1>8, <2>1, <3>1
    <3>2. CASE d \notin Reached(w, n)
      <4>1. Good(d) /\ Registered(d)
        BY <1>8, <2>1 DEF Good
      <4>2. d \in walks[w].done
        <5>1. Reached(w, n) = ToSet(Todo(w))
          BY TodoIs DEF Reached
        <5> QED
          BY <3>2, <4>1, <5>1, TodoIs
      <4>3. ~ Ahead(w, d)
        BY <4>2 DEF Ahead
      <4>4. Follows(view[d], Unsent(d), msgs)
        BY <1>1, <4>1, <4>3, Owing
      <4> QED
        BY <1>8, <3>2, <4>4
    <3> QED
      BY <3>1, <3>2
  <2>2. Good(d)' => Good(d)
    BY <1>8
  <2> QED
    BY <1>1, <1>6, <1>10, <2>1, <2>2, AbreastOn
<1> QED
  BY <1>8, <1>9, <1>11, <1>12, <1>13 DEF SessionInv, Own

LEMMA WalkFailingInv ==
  ASSUME NEW w \in Walkers, SessionInv, WalkFails(w)
  PROVE  SessionInv'
<1>1. /\ walks[w].begun /\ walks' = [walks EXCEPT ![w] = NoWalk]
      /\ adrift' = IF walks[w].notes[1].type = "FETCH" THEN adrift ELSE adrift \cup ToSet(Todo(w))
      /\ served' = IF w = Task /\ Disturbed(w) THEN FALSE ELSE served
      /\ UNCHANGED <<msgs, lastUid, flagged, exists, placeVars, req, pending, sent, view>>
  BY DEF WalkFails
<1>2. /\ WalksTyped /\ walks[w] \in Walk /\ TalkTyped /\ RightWalk(walks[w], msgs) /\ msgs \in Mails
      /\ BoxTyped /\ StageTyped
  BY DEF SessionInv, Typed, WalksTyped, BoxTyped
<1>3. walks[w] # NoWalk
  BY <1>1 DEF NoWalk
<1>4. walks[w].notes[1].type = "FETCH" <=> ~ Renumbers(w)
  BY <1>2, <1>3, WalkBrings DEF Renumbers
<1>5. walks'[w] = NoWalk /\ ~ Renumbers(w)' /\ \A x \in Walkers : x # w => walks'[x] = walks[x]
  BY <1>1, <1>2, Constants DEF WalksTyped, Renumbers
<1>6. WalksTyped'
  <2>1. walks' \in [Walkers -> Walk]
    BY <1>1, <1>2, Constants DEF WalksTyped
  <2>2. \A x \in Walkers : walks'[x].left <= walks'[x].size
    BY <1>2, <1>5, Constants DEF WalksTyped
  <2> QED
    BY <2>1, <2>2 DEF WalksTyped
<1>7. w \in Clients => stage[w] = "working" /\ sent[w] = 0
  BY <1>3 DEF SessionInv, Alone, Own, Place
<1>8. ASSUME NEW d \in Clients
      PROVE  \/ stage'[d] = stage[d] /\ idling'[d] = idling[d]
             \/ d = w /\ stage'[d] = "closing" /\ idling'[d] = FALSE
  BY <1>2 DEF WalkFails, StageTyped
<1>9. StageTyped' /\ torn' \in BOOLEAN
  <2>1. CASE w = Task
    BY <1>1, <1>2, <2>1 DEF WalkFails, StageTyped, BoxTyped
  <2>2. CASE w # Task
    <3>1. w \in Clients
      BY <2>2 DEF Walkers
    <3>2. /\ stage' = [stage EXCEPT ![w] = "closing"] /\ idling' = [idling EXCEPT ![w] = FALSE]
          /\ torn' = (torn \/ req[w].op \in {"EXPUNGE", "MOVED", "CLOSE"})
      BY <2>2 DEF WalkFails
    <3>3. StageTyped'
      BY <1>1, <1>2, <3>2 DEF StageTyped
    <3>4. torn' \in BOOLEAN
      BY <1>2, <3>2 DEF BoxTyped
    <3> QED
      BY <3>3, <3>4
  <2> QED
    BY <2>1, <2>2
<1>10. adrift \subseteq adrift' /\ adrift' \subseteq Clients
  <2>1. ToSet(Todo(w)) \subseteq Clients
    <3>1. 0 \in 0..Len(Todo(w))
      <4>1. Len(Todo(w)) \in Nat
        BY TodoIs
      <4> QED
        BY <4>1
    <3> QED
      BY <3>1, TodoIs
  <2> QED
    BY <1>1, <1>2, <2>1 DEF TalkTyped
<1>11. Typed'
  <2>1. BoxTyped'
    BY <1>1, <1>2, <1>9 DEF BoxTyped
  <2>2. TalkTyped'
    BY <1>1, <1>2, <1>10 DEF TalkTyped
  <2> QED
    BY <1>1, <1>6, <1>9, <2>1, <2>2 DEF SessionInv, Typed, ListTyped, PlaceTyped, placeVars
<1>12. \A x \in Walkers : RightWalk(walks'[x], msgs')
  BY <1>1, <1>5 DEF SessionInv, RightWalk
<1>13. Alone'
  <2>1. \A c \in Clients : Holding(c)' => Holding(c)
    BY <1>1, <1>8 DEF Holding
  <2>2. ASSUME NEW x \in Walkers
        PROVE  (walks'[x] # NoWalk => walks[x] # NoWalk) /\ (Renumbers(x)' => Renumbers(x))
    <3>1. CASE x = w
      BY <1>5, <3>1
    <3>2. CASE x # w
      BY <1>5, <3>2 DEF Renumbers
    <3> QED
      BY <3>1, <3>2
  <2>3. \A x \in Clients : walks'[x] # NoWalk => stage'[x] = stage[x]
    BY <1>5, <1>8
  <2> QED
    BY <1>1, <2>1, <2>2, <2>3, AloneOn DEF SessionInv
<1>14. ASSUME NEW d \in Clients PROVE Own(d)'
  <2>1. Place(d) /\ Meant(d) /\ Pendable(pending[d])
    BY DEF SessionInv, Own
  <2>2. Registered(d)' = Registered(d) /\ view'[d] = view[d] /\ Unsent(d)' = Unsent(d)
    BY <1>1 DEF Registered, Unsent, placeVars
  <2>3. Place(d)'
    BY <1>1, <1>7, <1>8, <2>1, <2>2 DEF Place, placeVars
  <2>4. Meant(d)'
    BY <1>1, <1>8, <1>10, <2>1 DEF Meant
  <2>5. Pendable(pending[d])'
    BY <1>1, <2>1
  <2>6. Good(d)' => Good(d)
    BY <1>1, <1>8, <1>10, <2>2 DEF Good, Connected, placeVars
  <2>7. ASSUME Good(d)' PROVE Follows(view'[d], Unsent(d)', msgs)
    <3>1. Good(d) /\ Registered(d)
      BY <2>6, <2>7 DEF Good
    <3>2. ~ (Renumbers(w) /\ Ahead(w, d))
      <4> SUFFICES ASSUME Renumbers(w), Ahead(w, d) PROVE FALSE
        OBVIOUS
      <4>1. d \in ToSet(Todo(w))
        BY <3>1, TodoIs DEF Ahead
      <4>2. d \in adrift'
        BY <1>1, <1>4, <4>1
      <4> QED
        BY <2>7, <4>2 DEF Good
    <3>3. Follows(view[d], Unsent(d), msgs)
      BY <1>3, <3>1, <3>2, Owing
    <3> QED
      BY <2>2, <3>3
  <2>8. Abreast(d)'
    BY <1>1, <1>3, <1>5, <2>6, <2>7, AbreastOn
  <2> QED
    BY <2>3, <2>4, <2>5, <2>8 DEF Own
<1> QED
  BY <1>11, <1>12, <1>13, <1>14 DEF SessionInv

-----------------------------------------------------------------------------
(* The invariant of the sessions *)

LEMMA StartsRight ==
  ASSUME SessionInit
  PROVE  SessionInv
<1>1. /\ msgs = [i \in 1..InitialMail |-> i] /\ lastUid = InitialMail
      /\ flagged = {} /\ exists = TRUE /\ served = TRUE /\ torn = FALSE
      /\ clients = SetToSeq(Clients)
      /\ walks = [w \in Walkers |-> NoWalk]
      /\ state = [c \in Clients |-> "selected"]
      /\ selected = [c \in Clients |-> TRUE]
      /\ idling = [c \in Clients |-> FALSE]
      /\ examine = [c \in Clients |-> FALSE]
      /\ refusals = [c \in Clients |-> 0]
      /\ reselects = [c \in Clients |-> 0]
      /\ pending = [c \in Clients |-> << >>]
      /\ req = [c \in Clients |-> NoRequest]
      /\ stage = [c \in Clients |-> "none"]
      /\ sent = [c \in Clients |-> 0]
      /\ view = [c \in Clients |-> msgs]
      /\ adrift = {}
  BY DEF SessionInit
<1>2. InitialMail \in Nat /\ InitialMail <= MaxUid /\ MaxUid \in Nat /\ FetchLimit \in Nat /\ SelectLimit \in Nat
  BY Constants
<1>3. msgs \in Mails /\ Len(msgs) = InitialMail
  <2>1. msgs \in [1..InitialMail -> Uids]
    BY <1>1, <1>2 DEF Uids
  <2>2. msgs \in Seq(Uids) /\ DOMAIN msgs = 1..InitialMail
    BY <1>2, <2>1, SeqDef
  <2>3. Len(msgs) = InitialMail
    BY <1>2, <2>2, LenProperties
  <2> QED
    BY <1>2, <2>2, <2>3 DEF Mails
<1>4. BoxTyped
  <2>1. lastUid \in 0..MaxUid /\ Len(msgs) <= lastUid
    BY <1>1, <1>2, <1>3
  <2> QED
    BY <1>1, <1>3, <2>1 DEF BoxTyped
<1>5. ListTyped /\ \A c \in Clients : Registered(c)
  <2>1. IsFiniteSet(Clients)
    BY Constants
  <2> DEFINE s == SetToSeq(Clients)
  <2>2. s \in Seq(Clients) /\ IsInjective(s) /\ \A x \in Clients : \E i \in DOMAIN s : s[i] = x
    BY <2>1, EnumIs
  <2> HIDE DEF s
  <2>3. clients = s
    BY <1>1 DEF s
  <2> QED
    BY <2>2, <2>3 DEF ListTyped, Registered, ToSet
<1>6. WalksTyped /\ (\A w \in Walkers : walks[w] = NoWalk)
  <2>1. \A w \in Walkers : walks[w] = NoWalk
    BY <1>1
  <2>2. walks \in [Walkers -> Walk]
    BY <1>1, Constants
  <2> QED
    BY <2>1, <2>2, Constants DEF WalksTyped
<1>7. PlaceTyped
  BY <1>1, <1>2 DEF PlaceTyped
<1>8. StageTyped
  BY <1>1, Constants DEF StageTyped
<1>9. TalkTyped
  <2>1. << >> \in Seq(Note) /\ Len(<< >>) = 0
    BY EmptyList
  <2>2. msgs \in View
    BY <1>3, MailsAre
  <2>3. pending \in [Clients -> Seq(Note)] /\ \A c \in Clients : Len(pending[c]) = 0
    BY <1>1, <2>1
  <2>4. sent \in [Clients -> Nat] /\ \A c \in Clients : sent[c] = 0
    BY <1>1
  <2>5. view \in [Clients -> View] /\ adrift \subseteq Clients
    BY <1>1, <2>2
  <2> QED
    BY <2>3, <2>4, <2>5 DEF TalkTyped
<1>10. \A w \in Walkers : RightWalk(walks[w], msgs)
  BY <1>6 DEF RightWalk
<1>11. \A c \in Clients : ~ Holding(c)
  BY <1>1 DEF Holding
<1>12. Alone
  BY <1>6, <1>11, Constants DEF Alone, Renumbers
<1>13. ASSUME NEW c \in Clients PROVE Own(c)
  <2>1. /\ sent[c] = 0 /\ state[c] = "selected" /\ stage[c] = "none" /\ ~ idling[c]
        /\ pending[c] = << >> /\ view[c] = msgs /\ Registered(c)
    BY <1>1, <1>5
  <2>2. Place(c) /\ Meant(c)
    BY <2>1 DEF Place, Meant
  <2>3. Pendable(pending[c])
    BY <2>1, EmptyList DEF Pendable
  <2>4. Unsent(c) = << >>
    <3>1. << >> \in Seq(Note)
      BY EmptyList
    <3> QED
      BY <2>1, <3>1, UnsentIs DEF Unsent
  <2>5. Follows(msgs, << >>, msgs)
    <3>1. msgs \in View
      BY <1>3, MailsAre
    <3>2. Knows(msgs, msgs)
      BY DEF Knows
    <3> QED
      BY <3>1, <3>2, OneNote DEF Follows
  <2>6. Abreast(c)
    BY <1>6, <2>1, <2>4, <2>5, Constants DEF Abreast, Renumbers
  <2> QED
    BY <2>2, <2>3, <2>6 DEF Own
<1> QED
  BY <1>4, <1>5, <1>6, <1>7, <1>8, <1>9, <1>10, <1>12, <1>13 DEF SessionInv, Typed

LEMMA CommandsRight ==
  ASSUME NEW c \in Clients, SessionInv, Command(c) \/ SessionStep(c)
  PROVE  SessionInv'
<1>1. CASE Command(c)
  <2>1. CASE DoPlain(c) \/ DoDone(c) \/ DoByName(c) \/ DoCheckOrExpunge(c)
    BY <2>1, SendingInv
  <2>2. CASE DoNoop(c) \/ Leave(c)
    BY <2>2, QuietInv
  <2>3. CASE DoOnDeleted(c) \/ DoFetchRefused(c) \/ DoUnselect(c) \/ DoSelect(c) \/ DoClose(c) \/ DoLogout(c)
    BY <2>3, LeavingInv
  <2>4. CASE DoByNumber(c)
    BY <2>4, ByNumberInv
  <2> QED
    BY <1>1, <2>1, <2>2, <2>3, <2>4 DEF Command
<1>2. CASE SessionStep(c)
  <2>1. CASE RunNoop(c) \/ RunCheck(c) \/ FinishFetch(c) \/ FinishAppend(c)
    BY <2>1, SendingInv
  <2>2. CASE GivesUp(c) \/ BeginByNumber(c) \/ FinishMove(c) \/ BeginExpunge(c) \/ FinishExpunge(c) \/ Announced(c)
    BY <2>2, QuietInv
  <2>3. CASE Drained(c) \/ BeginStore(c) \/ RespondFetch(c) \/ FinishOthers(c)
    BY <2>3, DrainedInv, StoringInv, FetchingInv, AnsweringInv
  <2>4. CASE ExpungeOne(c) \/ BeginAppend(c) \/ RunDelete(c) \/ Select(c) \/ Gone(c)
    BY <2>4, ExpungingInv, AppendingInv, DeletingInv, SelectingInv, LeavingInv
  <2> QED
    BY <1>2, <2>1, <2>2, <2>3, <2>4 DEF SessionStep
<1> QED
  BY <1>1, <1>2

LEMMA StaysRight ==
  ASSUME SessionInv, [SessionNext]_sessionVars
  PROVE  SessionInv'
<1>1. CASE UNCHANGED sessionVars
  <2>1. /\ UNCHANGED <<msgs, lastUid, flagged, exists, served, torn, clients, walks, state, selected>>
        /\ UNCHANGED <<idling, examine, refusals, reselects, req, stage, pending, sent, view, adrift>>
    BY <1>1 DEF sessionVars, boxVars, talkVars
  <2>2. Typed'
    BY <2>1 DEF SessionInv, Typed, BoxTyped, ListTyped, WalksTyped, PlaceTyped, StageTyped, TalkTyped
  <2>3. Alone' /\ \A w \in Walkers : RightWalk(walks'[w], msgs')
    BY <2>1 DEF SessionInv, Alone, Holding, Renumbers
  <2>4. ASSUME NEW c \in Clients PROVE Own(c)'
    <3>1. Still(c)
      BY <2>1 DEF Still, Registered
    <3>2. SameNews(c)
      BY <2>1, NewsKept
    <3> QED
      BY <2>1, <3>1, <3>2, OwnKept DEF SessionInv
  <2> QED
    BY <2>2, <2>3, <2>4 DEF SessionInv
<1>2. CASE SessionNext
  <2>1. CASE Resync
    BY <2>1, ResyncInv
  <2>2. ASSUME NEW w \in Walkers, Visit(w) \/ VisitLast(w) \/ WalkFails(w) PROVE SessionInv'
    BY <2>2, VisitingInv, VisitingLastInv, WalkFailingInv
  <2>3. ASSUME NEW c \in Clients, Command(c) \/ SessionStep(c) PROVE SessionInv'
    BY <2>3, CommandsRight
  <2> QED
    BY <1>2, <2>1, <2>2, <2>3 DEF SessionNext
<1> QED
  BY <1>1, <1>2

\* What is read is counted.
LEMMA ReadsBounded ==
  SessionSpec => [](reads \in 0..MaxReads)
<1>1. SessionInit => reads \in 0..MaxReads
  BY SessionAssumption DEF SessionInit
<1>2. reads \in 0..MaxReads /\ [SessionNext]_sessionVars => (reads \in 0..MaxReads)'
  BY SessionAssumption DEF SessionNext, sessionVars
<1> QED
  BY <1>1, <1>2, PTL DEF SessionSpec

LEMMA AlwaysRight ==
  SessionSpec => []SessionInv
<1>1. SessionInit => SessionInv
  BY StartsRight
<1>2. SessionInv /\ [SessionNext]_sessionVars => SessionInv'
  BY StaysRight
<1> QED
  BY <1>1, <1>2, PTL DEF SessionSpec

\* In every state of the sessions the lists, the walks over them and what is
\* pending are what Mailbox and Authenticated take them for.
THEOREM SessionsTyped ==
  SessionSpec => []SessionTypeOK
<1>1. SessionInv /\ reads \in 0..MaxReads => SessionTypeOK
  <2> SUFFICES ASSUME SessionInv, reads \in 0..MaxReads PROVE SessionTypeOK
    OBVIOUS
  <2>1. BoxTyped /\ ListTyped /\ WalksTyped /\ PlaceTyped /\ StageTyped /\ TalkTyped
    BY DEF SessionInv, Typed
  <2>2. msgs \in Seq(Uids) /\ lastUid \in 0..MaxUid /\ flagged \subseteq Uids
        /\ {exists, served, torn} \subseteq BOOLEAN
    BY <2>1 DEF BoxTyped, Mails
  <2>3. ASSUME NEW w \in Walkers
        PROVE  /\ walks[w].notes \in Seq(Note) /\ walks[w].done \subseteq Clients
               /\ walks[w].kind \in {"none", "exists", "dispatch"} /\ walks[w].skip \in Walkers
               /\ walks[w].begun \in BOOLEAN /\ walks[w].left \in 0..walks[w].size
    <3>1. walks[w] \in Walk /\ walks[w].left <= walks[w].size
      BY <2>1 DEF WalksTyped
    <3> QED
      BY <3>1 DEF Walk
  <2>4. \A c \in Clients : pending[c] \in Seq(Note) /\ sent[c] \in 0..Len(pending[c])
    <3> SUFFICES ASSUME NEW c \in Clients PROVE pending[c] \in Seq(Note) /\ sent[c] \in 0..Len(pending[c])
      OBVIOUS
    <3>1. pending[c] \in Seq(Note) /\ sent[c] \in Nat /\ sent[c] <= Len(pending[c])
      BY <2>1 DEF TalkTyped
    <3>2. Len(pending[c]) \in Nat
      BY <3>1, ListOf
    <3> QED
      BY <3>1, <3>2
  <2>5. (\A c \in Clients : view[c] \in Seq(0..MaxUid)) /\ adrift \subseteq Clients
    BY <2>1 DEF TalkTyped, View
  <2> QED
    BY <2>1, <2>2, <2>3, <2>4, <2>5 DEF SessionTypeOK, ListTyped, PlaceTyped, StageTyped
<1> QED
  BY <1>1, AlwaysRight, ReadsBounded, PTL

\* A command that works on a message number works on the message that its
\* client has under that number.
LEMMA RightNow ==
  SessionInv => RightMessage
<1> SUFFICES ASSUME SessionInv, NEW c \in Clients,
                    stage[c] = "working", req[c].op \in NumberOps, ~ req[c].uid,
                    c \notin adrift, LeavesAlone(pending[c], req[c].n), req[c].meant # Unknown
             PROVE  req[c].n \in DOMAIN msgs /\ msgs[req[c].n] = req[c].meant
  BY DEF RightMessage, NumberOps
<1>1. Own(c)
  BY DEF SessionInv
<1>2. exists /\ Good(c)
  BY <1>1 DEF Own, Place, Good, Connected
<1>3. req[c].n \in DOMAIN view[c] /\ view[c][req[c].n] = req[c].meant
  BY <1>1, <1>2 DEF Own, Meant
<1>4. \A w \in Walkers : ~ Renumbers(w)
  <2>1. Holding(c) /\ req[c].op \notin Solitary
    BY DEF Holding, Solitary, NumberOps
  <2> QED
    BY <2>1, NoNews
<1>5. /\ Unsent(c) = pending[c] /\ pending[c] \in Seq(Note) /\ Pendable(pending[c])
      /\ view[c] \in View /\ msgs \in Mails
  <2>1. Unsent(c) = pending[c]
    BY UnsentAll
  <2> QED
    BY <2>1, UnsentPends
<1>6. Follows(view[c], pending[c], msgs)
  <2>1. Follows(view[c], Unsent(c), msgs)
    BY <1>1, <1>2, <1>4, AbreastNow DEF Own
  <2> QED
    BY <1>5, <2>1
<1> DEFINE v == view[c]
           notes == pending[c]
           n == req[c].n
           w == HearAll(v, notes)
<1>7. v \in View /\ notes \in Seq(Note) /\ Pendable(notes) /\ LeavesAlone(notes, n)
      /\ n \in DOMAIN v /\ v[n] = req[c].meant /\ v[n] # Unknown
  BY <1>3, <1>5
<1>8. AllCredible(v, notes) /\ Knows(w, msgs)
  BY <1>6 DEF Follows
<1>9. w \in View
  BY <1>7, HearAllView
<1> HIDE DEF v, notes, n
<1>10. n \in DOMAIN w /\ w[n] = v[n]
  BY <1>7, <1>8, KnownBefore
<1>11. DOMAIN w = DOMAIN msgs /\ w[n] \in {Unknown, msgs[n]}
  <2> HIDE DEF w
  <2> QED
    BY <1>5, <1>8, <1>9, <1>10, ViewsAre, MailsAre DEF Knows
<1>12. n \in DOMAIN msgs /\ msgs[n] = req[c].meant
  BY <1>7, <1>10, <1>11
<1> QED
  BY <1>12 DEF n

\* A command by number works on the message its client means, however many
\* messages came meanwhile and however many behind it left; that an EXPUNGE of
\* its number or of a lower one became pending while it waited is set aside,
\* for the code does not look for that.
THEOREM WorksOnTheRightMessage ==
  SessionSpec => []RightMessage
BY RightNow, AlwaysRight, PTL

\* What is on its way to a client.
LEMMA ComingIs ==
  ASSUME SessionInv, NEW c \in Clients
  PROVE  /\ Coming(c) \in Seq(Note)
         /\ (\A w \in Walkers : Ahead(w, c) => ~ Renumbers(w)) => Numbered(msgs, Coming(c))
         /\ \A w \in Walkers : Renumbers(w) /\ Ahead(w, c) => Coming(c) = walks[w].notes
<1> DEFINE s == SetToSeq(Walkers)
           q == [i \in DOMAIN s |-> IF Ahead(s[i], c) THEN walks[s[i]].notes ELSE << >>]
<1>1. s \in Seq(Walkers) /\ IsInjective(s) /\ \A w \in Walkers : \E i \in DOMAIN s : s[i] = w
  BY EnumIs, Constants
<1> HIDE DEF s
<1>2. Len(s) \in Nat /\ DOMAIN s = 1..Len(s) /\ \A i \in DOMAIN s : s[i] \in Walkers
  BY <1>1, ListOf
<1>3. \A w \in Walkers : walks[w] \in Walk /\ walks[w].notes \in Seq(Note) /\ RightWalk(walks[w], msgs)
  BY DEF SessionInv, Typed, WalksTyped, Walk
<1>4. q \in Seq(Seq(Note)) /\ DOMAIN q = DOMAIN s
  <2>1. \A i \in 1..Len(s) : q[i] \in Seq(Note)
    BY <1>2, <1>3, EmptyList
  <2>2. q \in [1..Len(s) -> Seq(Note)]
    BY <1>2, <2>1
  <2> HIDE DEF q
  <2>3. q \in Seq(Seq(Note))
    BY <1>2, <2>2, SeqDef
  <2> QED
    BY <1>2, <2>2, <2>3
<1>5. \A i \in DOMAIN s : q[i] = IF Ahead(s[i], c) THEN walks[s[i]].notes ELSE << >>
  OBVIOUS
<1>6. Coming(c) = FlattenSeq(q)
  BY DEF Coming, s
<1> HIDE DEF q
<1> DEFINE f == FlattenSeq(q)
<1>7. /\ f \in Seq(Note)
      /\ \A i \in DOMAIN f : \E k \in DOMAIN q : \E j \in DOMAIN q[k] : f[i] = q[k][j]
      /\ \A k \in DOMAIN q : (\A l \in DOMAIN q : l # k => q[l] = << >>) => f = q[k]
  BY <1>4, FlattenIs
<1> HIDE DEF f
<1>8. ASSUME \A w \in Walkers : Ahead(w, c) => ~ Renumbers(w)
      PROVE  Numbered(msgs, f)
  <2> SUFFICES ASSUME NEW i \in DOMAIN f
               PROVE  /\ f[i].type = "FETCH" /\ f[i].n \in DOMAIN msgs /\ f[i].uid = msgs[f[i].n]
    BY DEF Numbered
  <2>1. PICK k \in DOMAIN q : \E j \in DOMAIN q[k] : f[i] = q[k][j]
    BY <1>7
  <2>2. PICK j \in DOMAIN q[k] : f[i] = q[k][j]
    BY <2>1
  <2>3. Ahead(s[k], c) /\ q[k] = walks[s[k]].notes /\ s[k] \in Walkers
    BY <1>2, <1>4, <1>5, <2>2, EmptyList
  <2>4. Numbered(msgs, walks[s[k]].notes)
    <3>1. ~ Renumbering(walks[s[k]])
      BY <1>8, <2>3 DEF Renumbers
    <3>2. msgs \in Mails
      BY DEF SessionInv, Typed, BoxTyped
    <3> QED
      BY <1>3, <2>3, <3>1, <3>2, WalkBrings
  <2> QED
    BY <2>2, <2>3, <2>4 DEF Numbered
<1>9. ASSUME NEW w \in Walkers, Renumbers(w), Ahead(w, c) PROVE f = walks[w].notes
  <2>1. PICK k \in DOMAIN s : s[k] = w
    BY <1>1
  <2>2. \A x \in Walkers : x # w => walks[x].notes = << >>
    <3>1. \A x \in Walkers : walks[x] # NoWalk => x = w
      BY <1>9, OneNews
    <3> QED
      BY <3>1, Constants
  <2>3. \A l \in DOMAIN s : l # k => s[l] # w
    BY <1>1, <2>1 DEF IsInjective
  <2>4. \A l \in DOMAIN q : l # k => q[l] = << >>
    BY <1>2, <1>4, <1>5, <2>2, <2>3
  <2>5. q[k] = walks[w].notes
    BY <1>5, <1>9, <2>1
  <2> QED
    BY <1>4, <1>7, <2>1, <2>4, <2>5
<1> QED
  BY <1>6, <1>7, <1>8, <1>9 DEF f

\* With all that is owed to it a client knows the list.
LEMMA FollowsOwed ==
  ASSUME SessionInv, NEW c \in Clients, Good(c)
  PROVE  Follows(view[c], Unsent(c) \o Coming(c), msgs)
<1>1. /\ Unsent(c) \in Seq(Note) /\ view[c] \in View /\ msgs \in Mails /\ Abreast(c)
      /\ Coming(c) \in Seq(Note)
  BY UnsentPends, ComingIs DEF SessionInv, Own
<1>2. CASE \A w \in Walkers : Ahead(w, c) => ~ Renumbers(w)
  <2>1. Follows(view[c], Unsent(c), msgs)
    BY <1>1, <1>2 DEF Abreast
  <2>2. Numbered(msgs, Coming(c))
    BY <1>2, ComingIs
  <2>3. Brings(Coming(c), msgs, msgs)
    BY <2>2 DEF Brings
  <2> QED
    BY <1>1, <2>1, <2>3, LaterFollows
<1>3. ASSUME NEW w \in Walkers, Ahead(w, c), Renumbers(w)
      PROVE  Follows(view[c], Unsent(c) \o Coming(c), msgs)
  <2> DEFINE l == Before(walks[w], msgs)
  <2>1. Follows(view[c], Unsent(c), l)
    BY <1>1, <1>3 DEF Abreast
  <2>2. l \in Seq(Uids) /\ Brings(walks[w].notes, l, msgs)
    BY <1>3, BeforeIs
  <2> HIDE DEF l
  <2>3. l \in Mails
    BY <1>1, <2>1, <2>2, FollowedMails
  <2>4. Coming(c) = walks[w].notes
    BY <1>3, ComingIs
  <2>5. Brings(Coming(c), l, msgs)
    BY <2>2, <2>4
  <2> QED
    BY <1>1, <2>1, <2>3, <2>5, LaterFollows
<1> QED
  BY <1>2, <1>3

\* With what is pending and what walks bring, the list of messages that a
\* client makes of its responses is the mailbox's.
THEOREM ClientsInStep ==
  SessionSpec => []InStep
<1>1. SessionInv => InStep
  <2> SUFFICES ASSUME SessionInv, NEW c \in Clients, Registered(c), Connected(c), c \notin adrift
               PROVE  AllCredible(view[c], Owed(c)) /\ Agrees(HearAll(view[c], Owed(c)))
    BY DEF InStep
  <2>1. Follows(view[c], Owed(c), msgs)
    BY FollowsOwed DEF Good, Owed
  <2> QED
    BY <2>1 DEF Follows, Knows, Agrees
<1> QED
  BY <1>1, AlwaysRight, PTL

-----------------------------------------------------------------------------
(* When a client hears EXPUNGE *)

InPlace(c) ==
  ExpungeHeard(c) /\ ~ idling[c] =>
    IF stage[c] = "none"
      THEN req'[c].uid \/ req'[c].op \notin {"FETCH", "STORE", "SEARCH"}
      ELSE req[c].op \in {"NOOP", "CHECK", "APPEND", "FETCHED"}

\* One whose list gets no shorter, or who leaves, hears none.
LEMMA HearsNone ==
  ASSUME SessionInv, NEW d \in Clients,
         \/ view'[d] = view[d] \/ ~ Registered(d) \/ ~ Registered(d)'
         \/ \E notes \in Seq(Note) : ~ HasExpunge(notes) /\ view'[d] = HearAll(view[d], notes)
  PROVE  InPlace(d)
<1>1. view[d] \in View
  BY UnsentPends
<1>2. Len(view[d]) \in Nat
  BY <1>1, ViewsAre
<1>3. CASE view'[d] = view[d] \/ ~ Registered(d) \/ ~ Registered(d)'
  BY <1>2, <1>3 DEF InPlace, ExpungeHeard
<1>4. ASSUME NEW notes \in Seq(Note), ~ HasExpunge(notes), view'[d] = HearAll(view[d], notes)
      PROVE  InPlace(d)
  <2>1. Len(HearAll(view[d], notes)) >= Len(view[d])
    BY <1>1, <1>4, NeverShorter
  <2>2. Len(HearAll(view[d], notes)) \in Nat
    BY <1>1, <1>4, HearAllView, ViewsAre
  <2>3. ~ (Len(view'[d]) < Len(view[d]))
    BY <1>2, <1>4, <2>1, <2>2
  <2> QED
    BY <2>3 DEF InPlace, ExpungeHeard
<1> QED
  BY <1>3, <1>4

\* What a session is sent of what is pending.
LEMMA SendingIs ==
  ASSUME SessionInv, NEW c \in Clients, NEW r, SendPending(c, r)
  PROVE  /\ \A d \in Clients : d # c => view'[d] = view[d]
         /\ view'[c] = HearAll(view[c], pending[c]) /\ pending[c] \in Seq(Note)
         /\ req'[c] \in {r, NoRequest}
<1>1. TalkTyped /\ StageTyped
  BY DEF SessionInv, Typed
<1>2. view' = [view EXCEPT ![c] = HearAll(view[c], pending[c])]
  BY <1>1 DEF SendPending, TalkTyped
<1>3. \E q \in {r, NoRequest} : req' = [req EXCEPT ![c] = q]
  BY DEF SendPending, Proceed
<1> QED
  BY <1>1, <1>2, <1>3 DEF TalkTyped, StageTyped

LEMMA SendingInPlace ==
  ASSUME SessionInv, NEW c \in Clients, NEW d \in Clients,
         \/ DoPlain(c) \/ DoDone(c) \/ DoByName(c) \/ DoCheckOrExpunge(c)
         \/ RunNoop(c) \/ RunCheck(c) \/ FinishFetch(c) \/ FinishAppend(c)
  PROVE  InPlace(d)
<1>1. ASSUME NEW r, SendPending(c, r),
             idling[c] \/ IF stage[c] = "none" THEN r.op \notin NumberOps
                          ELSE req[c].op \in {"NOOP", "CHECK", "APPEND", "FETCHED"}
      PROVE  InPlace(d)
  <2>1. CASE d # c
    BY <1>1, <2>1, SendingIs, HearsNone
  <2>2. CASE d = c
    <3>1. req'[c] = r \/ req'[c] = NoRequest
      BY <1>1, SendingIs
    <3>2. req'[c].op = r.op \/ req'[c].op \notin NumberOps
      BY <3>1, Constants DEF NumberOps
    <3> QED
      BY <1>1, <2>2, <3>2 DEF InPlace, NumberOps
  <2> QED
    BY <2>1, <2>2
<1>2. \A op \in Offered[c] \cup {"none"} : op \notin NumberOps => Plain(op).op \notin NumberOps
  BY PlainIs
<1>3. CASE DoPlain(c)
  <2>1. PICK op \in {"LIST", "IDLE"} : Reads(c, op) /\ SendPending(c, Plain(op))
    BY <1>3 DEF DoPlain
  <2>2. stage[c] = "none" /\ Plain(op).op \notin NumberOps
    BY <1>2, <2>1 DEF Reads, NumberOps
  <2> QED
    BY <1>1, <2>1, <2>2
<1>4. CASE DoDone(c)
  BY <1>1, <1>4 DEF DoDone
<1>5. CASE DoByName(c)
  <2>1. PICK op \in {"APPEND", "DELETE"} : Reads(c, op) /\ SendPending(c, Plain(op))
    BY <1>5 DEF DoByName
  <2>2. stage[c] = "none" /\ Plain(op).op \notin NumberOps
    BY <1>2, <2>1 DEF Reads, NumberOps
  <2> QED
    BY <1>1, <2>1, <2>2
<1>6. CASE DoCheckOrExpunge(c)
  <2>1. PICK op \in {"CHECK", "EXPUNGE"} : Reads(c, op) /\ SendPending(c, Plain(op))
    BY <1>6 DEF DoCheckOrExpunge
  <2>2. stage[c] = "none" /\ Plain(op).op \notin NumberOps
    BY <1>2, <2>1 DEF Reads, NumberOps
  <2> QED
    BY <1>1, <2>1, <2>2
<1>7. CASE RunNoop(c) \/ RunCheck(c)
  BY <1>1, <1>7 DEF RunNoop, RunCheck, LetIn
<1>8. CASE FinishFetch(c) \/ FinishAppend(c)
  BY <1>1, <1>8 DEF FinishFetch, FinishAppend
<1> QED
  BY <1>3, <1>4, <1>5, <1>6, <1>7, <1>8

LEMMA ByNumberInPlace ==
  ASSUME SessionInv, NEW c \in Clients, NEW d \in Clients, DoByNumber(c)
  PROVE  InPlace(d)
<1>1. PICK op \in ByNumber : Reads(c, op) /\ selected[c] /\ \E r \in Requested(c, op) :
        /\ ~ Refused(c, r)
        /\ UNCHANGED view \/ SendPending(c, r)
  BY DEF DoByNumber, talkVars
<1>2. PICK r \in Requested(c, op) : ~ Refused(c, r) /\ (UNCHANGED view \/ SendPending(c, r))
  BY <1>1
<1>3. r.op = op /\ stage[c] = "none"
  <2>1. op \in Offered[c] /\ stage[c] = "none"
    BY <1>1 DEF Reads
  <2>2. view[c] \in View
    BY UnsentPends
  <2> QED
    BY <2>1, <2>2, RequestedIs
<1>4. CASE UNCHANGED view
  BY <1>4, HearsNone
<1>5. CASE SendPending(c, r) /\ d # c
  BY <1>5, SendingIs, HearsNone
<1>6. CASE SendPending(c, r) /\ d = c
  <2>1. /\ req'[c] \in {r, NoRequest}
        /\ view'[c] = HearAll(view[c], pending[c]) /\ pending[c] \in Seq(Note)
    BY <1>6, SendingIs
  <2>2. CASE ~ r.uid /\ r.op \in NumberOps
    <3>1. ~ HasExpunge(pending[c])
      BY <1>2, <2>2 DEF Refused, PendingExpunges, NumberOps
    <3> QED
      BY <1>6, <2>1, <3>1, HearsNone
  <2>3. CASE r.uid \/ r.op \notin NumberOps
    <3>1. req'[c].uid \/ req'[c].op \notin NumberOps
      BY <2>1, <2>3, Constants DEF NumberOps
    <3> QED
      BY <1>3, <1>6, <3>1 DEF InPlace, NumberOps
  <2> QED
    BY <2>2, <2>3
<1> QED
  BY <1>2, <1>4, <1>5, <1>6

\* FETCH, STORE and SEARCH answer with FETCH responses and numbers alone.
LEMMA AnswersInPlace ==
  ASSUME SessionInv, NEW c \in Clients, NEW d \in Clients, Tell({c}, Responses(req[c]))
  PROVE  InPlace(d)
<1>1. Responses(req[c]) \in Seq(Note) /\ Numbered(msgs, Responses(req[c]))
  BY ResponsesAre DEF SessionInv, Typed, BoxTyped
<1>2. ~ HasExpunge(Responses(req[c]))
  BY <1>1 DEF HasExpunge, Numbered
<1>3. view'[d] = IF d = c THEN HearAll(view[d], Responses(req[c])) ELSE view[d]
  BY DEF Tell
<1> QED
  BY <1>1, <1>2, <1>3, HearsNone

LEMMA LeavingInPlace ==
  ASSUME SessionInv, NEW c \in Clients, NEW d \in Clients,
         \/ DoOnDeleted(c) \/ DoFetchRefused(c) \/ DoUnselect(c) \/ DoSelect(c) \/ DoClose(c)
         \/ DoLogout(c) \/ Gone(c) \/ Select(c)
  PROVE  InPlace(d)
<1>1. ListTyped /\ TalkTyped
  BY DEF SessionInv, Typed
<1>2. ASSUME Bye(c) PROVE view' = view
  BY <1>2 DEF Bye, talkVars
<1>3. ASSUME Deselect(c) PROVE InPlace(d)
  <2>1. clients' = Without(c) /\ view' = [view EXCEPT ![c] = << >>]
    BY <1>3 DEF Deselect
  <2>2. ~ Registered(c)'
    BY <1>1, <2>1, WithoutIs
  <2>3. d = c \/ view'[d] = view[d]
    BY <2>1 DEF TalkTyped
  <2> QED
    BY <2>2, <2>3, HearsNone
<1>4. CASE DoOnDeleted(c)
  BY <1>2, <1>4, HearsNone DEF DoOnDeleted
<1>5. CASE DoFetchRefused(c)
  BY <1>2, <1>5, HearsNone DEF DoFetchRefused, talkVars
<1>6. CASE DoUnselect(c)
  BY <1>3, <1>6 DEF DoUnselect
<1>7. CASE DoSelect(c)
  <2>1. Bye(c) \/ Deselect(c)
    BY <1>7 DEF DoSelect
  <2> QED
    BY <1>2, <1>3, <2>1, HearsNone
<1>8. CASE DoClose(c)
  BY <1>3, <1>8 DEF DoClose
<1>9. CASE DoLogout(c)
  BY <1>9, HearsNone DEF DoLogout
<1>10. CASE Gone(c)
  <2>1. clients' = Without(c) /\ view' = [view EXCEPT ![c] = << >>]
    BY <1>10 DEF Gone
  <2>2. ~ Registered(c)'
    BY <1>1, <2>1, WithoutIs
  <2>3. d = c \/ view'[d] = view[d]
    BY <2>1 DEF TalkTyped
  <2> QED
    BY <2>2, <2>3, HearsNone
<1>11. CASE Select(c)
  <2>1. stage[c] = "waiting" /\ req[c].op \in {"SELECT", "EXAMINE"} /\ view' = [view EXCEPT ![c] = msgs]
    BY <1>11 DEF Select, LetIn
  <2>2. ~ Registered(c)
    BY <2>1 DEF SessionInv, Own, Place
  <2>3. d = c \/ view'[d] = view[d]
    BY <2>1 DEF TalkTyped
  <2> QED
    BY <2>2, <2>3, HearsNone
<1> QED
  BY <1>4, <1>5, <1>6, <1>7, <1>8, <1>9, <1>10, <1>11

\* A walk tells of an EXPUNGE at once only who idles.
LEMMA WalksInPlace ==
  ASSUME SessionInv, NEW w \in Walkers, NEW d \in Clients, NEW n, BringTo(w, n), walks[w] # NoWalk
  PROVE  InPlace(d)
<1>1. walks[w] \in Walk /\ RightWalk(walks[w], msgs) /\ msgs \in Mails
  BY DEF SessionInv, Typed, WalksTyped, BoxTyped
<1>2. walks[w].notes \in Seq(Note) /\ (walks[w].kind = "exists" => ~ HasExpunge(walks[w].notes))
  BY <1>1, WalkBrings
<1>3. \/ view'[d] = view[d]
      \/ AtOnce(w, d) /\ view'[d] = HearAll(view[d], walks[w].notes)
  BY DEF BringTo, Tell
<1>4. CASE idling[d]
  BY <1>4 DEF InPlace
<1>5. CASE ~ idling[d]
  <2>1. \/ view'[d] = view[d]
        \/ ~ HasExpunge(walks[w].notes) /\ view'[d] = HearAll(view[d], walks[w].notes)
    BY <1>2, <1>3, <1>5 DEF AtOnce
  <2> QED
    BY <1>2, <2>1, HearsNone
<1> QED
  BY <1>4, <1>5

\* EXPUNGE is heard only where RFC 3501 lets it be sent, as far as commands
\* by number go.
THEOREM ExpungesWhereAllowed ==
  SessionSpec => ExpungesInPlace
<1>1. ASSUME SessionInv, [SessionNext]_sessionVars, NEW d \in Clients
      PROVE  InPlace(d)
  <2>1. CASE UNCHANGED view
    BY <1>1, <2>1, HearsNone
  <2>2. CASE SessionNext
    <3>1. CASE Resync
      BY <2>1, <3>1 DEF Resync, talkVars
    <3>2. ASSUME NEW w \in Walkers, Visit(w) \/ VisitLast(w) \/ WalkFails(w) PROVE InPlace(d)
      <4>1. CASE Visit(w) \/ VisitLast(w)
        <5>1. walks[w] # NoWalk /\ \E n : BringTo(w, n)
          BY <4>1 DEF Visit, VisitLast
        <5> QED
          BY <1>1, <5>1, WalksInPlace
      <4>2. CASE WalkFails(w)
        BY <2>1, <4>2 DEF WalkFails
      <4> QED
        BY <3>2, <4>1, <4>2
    <3>3. ASSUME NEW c \in Clients, Command(c) PROVE InPlace(d)
      <4>1. CASE DoPlain(c) \/ DoDone(c) \/ DoByName(c) \/ DoCheckOrExpunge(c)
        BY <1>1, <4>1, SendingInPlace
      <4>2. CASE DoNoop(c) \/ Leave(c)
        BY <2>1, <4>2 DEF DoNoop, Leave, talkVars
      <4>3. CASE DoOnDeleted(c) \/ DoFetchRefused(c) \/ DoUnselect(c) \/ DoSelect(c) \/ DoClose(c) \/ DoLogout(c)
        BY <1>1, <4>3, LeavingInPlace
      <4>4. CASE DoByNumber(c)
        BY <1>1, <4>4, ByNumberInPlace
      <4> QED
        BY <3>3, <4>1, <4>2, <4>3, <4>4 DEF Command
    <3>4. ASSUME NEW c \in Clients, SessionStep(c) PROVE InPlace(d)
      <4>1. CASE RunNoop(c) \/ RunCheck(c) \/ FinishFetch(c) \/ FinishAppend(c)
        BY <1>1, <4>1, SendingInPlace
      <4>2. CASE GivesUp(c) \/ BeginByNumber(c) \/ FinishMove(c) \/ BeginExpunge(c) \/ FinishExpunge(c) \/ Announced(c)
        BY <2>1, <4>2
        DEF GivesUp, BeginByNumber, FinishMove, BeginExpunge, FinishExpunge, Announced, talkVars
      <4>3. CASE Drained(c) \/ BeginStore(c) \/ ExpungeOne(c) \/ BeginAppend(c) \/ RunDelete(c)
        BY <2>1, <4>3 DEF Drained, BeginStore, ExpungeOne, BeginAppend, RunDelete, talkVars
      <4>4. CASE RespondFetch(c) \/ FinishOthers(c)
        <5>1. Tell({c}, Responses(req[c])) \/ UNCHANGED view
          BY <4>4 DEF RespondFetch, FinishOthers
        <5> QED
          BY <1>1, <2>1, <5>1, AnswersInPlace
      <4>5. CASE Gone(c) \/ Select(c)
        BY <1>1, <4>5, LeavingInPlace
      <4> QED
        BY <3>4, <4>1, <4>2, <4>3, <4>4, <4>5 DEF SessionStep
    <3> QED
      BY <2>2, <3>1, <3>2, <3>3, <3>4 DEF SessionNext
  <2> QED
    BY <1>1, <2>1, <2>2 DEF sessionVars, talkVars
<1>2. SessionInv /\ [SessionNext]_sessionVars =>
        [\A c \in Clients : ExpungeHeard(c) /\ ~ idling[c] =>
           IF stage[c] = "none"
             THEN req'[c].uid \/ req'[c].op \notin {"FETCH", "STORE", "SEARCH"}
             ELSE req[c].op \in {"NOOP", "CHECK", "APPEND", "FETCHED"}]_sessionVars
  BY <1>1 DEF InPlace
<1> QED
  BY <1>2, AlwaysRight, PTL DEF SessionSpec, ExpungesInPlace
=============================================================================
