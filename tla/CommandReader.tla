--------------------------- MODULE CommandReader ---------------------------
(***************************************************************************)
(* How the bytes of an IMAP client become commands: IMAPClient.start of    *)
(* the front server reads lines and literals into ibuffer, answers a       *)
(* synchronizing literal with "+", refuses what is too long, and hands a   *)
(* whole command on, in a frame that tells its length, to IMAPClientProxy  *)
(* of the user's process (or, before LOGIN, to the command processor of    *)
(* its own).                                                               *)
(*                                                                         *)
(* A byte is a unit of the wire, and so are a CRLF and the prefix {n} or   *)
(* {n+} of a literal, whose length in bytes no property is about.  The     *)
(* client sends one command at a time, any command, and may hang up        *)
(* anywhere.                                                               *)
(***************************************************************************)
EXTENDS Naturals, Sequences, SequencesExt

CONSTANTS
  MaxInput,      \* MAX_INPUT_SIZE
  StreamLimit,   \* how much of a line the StreamReader takes: 64 KiB, no other limit is set
  MaxText,       \* bytes in a line of the client, at most
  Lengths,       \* bytes in a literal
  MaxLiterals,   \* literals in a command, at most
  MaxCommands    \* commands the client sends, at most

ASSUME ReaderAssumption ==
  /\ {MaxInput, StreamLimit, MaxText, MaxLiterals, MaxCommands} \cup Lengths \subseteq Nat
  /\ MaxCommands # 0

VARIABLES
  client,        \* what the client does next, and what it has sent
  said,          \* the command it is at, as it is meant
  wire,          \* sent by the client and not read yet
  replies,       \* sent to the client and not read yet
  reader,        \* what IMAPClient.start awaits: a "line", "literal", "drain"; "closed"
  due,           \* the length of the literal it reads
  ibuffer,       \* what it has of a command
  ibuffer_size,
  pipe,          \* frames on their way to the user's process
  overrun        \* something was refused for its length

vars == <<client, said, wire, replies, reader, due, ibuffer, ibuffer_size, pipe, overrun>>

-----------------------------------------------------------------------------
Byte == <<"byte">>
CRLF == <<"crlf">>
Prefix(length, sync) == <<"prefix", length, sync>>

Units == {Byte, CRLF} \cup {Prefix(n, sync) : n \in Lengths, sync \in BOOLEAN}

Bytes(n) == [i \in 1..n |-> Byte]

\* Text without a line break, or with one.
Literals(n) == {Bytes(n)} \cup {[Bytes(n) EXCEPT ![i] = CRLF] : i \in 1..n \cap {1}}

-----------------------------------------------------------------------------
(* The client *)

Sends(meant, units) ==
  /\ said' = said \o meant
  /\ wire' = wire \o units
  /\ UNCHANGED <<replies, reader, due, ibuffer, ibuffer_size, pipe, overrun>>

\* The last line of a command.
SendLine(n) ==
  /\ client.pc = "line"
  /\ client' = [client EXCEPT !.pc = "answer"]
  /\ Sends(Bytes(n), Bytes(n) \o <<CRLF>>)

\* A line that announces a literal.
SendPrefix(n, length, sync) ==
  /\ client.pc = "line" /\ client.literals < MaxLiterals
  /\ client' = [client EXCEPT !.pc = IF sync THEN "plus" ELSE "literal",
                              !.literals = @ + 1, !.length = length]
  /\ LET line == Append(Bytes(n), Prefix(length, sync)) IN Sends(line, Append(line, CRLF))

SendLiteral(text) ==
  /\ client.pc = "literal" /\ Len(text) = client.length
  /\ client' = [client EXCEPT !.pc = "line"]
  /\ Sends(<<CRLF>> \o text, text)

Hears(answers) ==
  /\ replies # << >> /\ Head(replies) \in answers
  /\ replies' = Tail(replies)
  /\ UNCHANGED <<wire, reader, due, ibuffer, ibuffer_size, pipe, overrun>>

HearsPlus ==
  /\ client.pc = "plus" /\ Hears({"plus"})
  /\ client' = [client EXCEPT !.pc = "literal"]
  /\ UNCHANGED said

\* With its answer a command is over, and with a BAD instead of the "+" as well.
HearsAnswer ==
  /\ client.pc \in {"plus", "answer"} /\ Hears({"done", "BAD"})
  /\ client' = [client EXCEPT !.pc = IF client.sent = MaxCommands THEN "silent" ELSE "line",
                              !.sent = @ + 1, !.literals = 0, !.length = 0]
  /\ said' = << >>

\* A "+" for a literal it no longer means to send.
HearsLatePlus ==
  /\ client.pc = "answer" /\ Hears({"plus"})
  /\ UNCHANGED <<client, said>>

HangUp ==
  /\ client.pc # "gone"
  /\ client' = [client EXCEPT !.pc = "gone"]
  /\ UNCHANGED <<said, wire, replies, reader, due, ibuffer, ibuffer_size, pipe, overrun>>

-----------------------------------------------------------------------------
(* IMAPClient.start *)

HasLine == CRLF \in Range(wire)

\* readuntil: the line, and what is left of the wire after it.
LineEnd == CHOOSE i \in DOMAIN wire : wire[i] = CRLF /\ \A j \in 1..(i - 1) : wire[j] # CRLF
Line == SubSeq(wire, 1, LineEnd - 1)

Gathered == ibuffer \o Line
GatheredSize == ibuffer_size + Len(Line)

Announces == Line # << >> /\ Last(Line)[1] = "prefix"
Length == Last(Line)[2]
Synchronizing == Last(Line)[3]

\* What readuntil has looked through, with or without coming upon a CRLF.
Stretch == IF HasLine THEN LineEnd - 1 ELSE Len(wire)

ReadsLine ==
  /\ reader = "line" /\ HasLine /\ Stretch <= StreamLimit
  /\ wire' = SubSeq(wire, LineEnd + 1, Len(wire))
  /\ UNCHANGED <<client, said>>

Pushes(reply) == replies' = Append(replies, reply)

\* Mutant: what is left of the size is what the buffer has more than the line.
EmptiesUncounted == ibuffer' = << >> /\ ibuffer_size' = ibuffer_size - Len(Gathered)

\* The buffer is emptied: for the next command, or because this one is refused.
Empties == ibuffer' = << >> /\ ibuffer_size' = 0

EmptyMessage ==
  /\ ReadsLine /\ Gathered = << >>
  /\ Pushes("BAD")
  /\ UNCHANGED <<reader, due, ibuffer, ibuffer_size, pipe, overrun>>

\* "Drain the line terminator that follows the literal declaration": but it has
\* been read with the line, so that what is drained is the line after it.
LiteralTooLong ==
  /\ ReadsLine /\ Announces /\ Length > MaxInput
  /\ Pushes("BAD") /\ Empties
  /\ reader' = "drain" /\ overrun' = TRUE
  /\ UNCHANGED <<due, pipe>>

Drain ==
  /\ reader = "drain" /\ HasLine /\ Stretch <= StreamLimit
  /\ reader' = "line"
  /\ wire' = SubSeq(wire, LineEnd + 1, Len(wire))
  /\ UNCHANGED <<client, said, replies, due, ibuffer, ibuffer_size, pipe, overrun>>

\* Mutant: only the first literal of a command is asked for.
LiteralAnnouncedOnce ==
  /\ ReadsLine /\ Announces /\ Length <= MaxInput
  /\ IF Synchronizing /\ ibuffer = << >> THEN Pushes("plus") ELSE UNCHANGED replies
  /\ reader' = "literal" /\ due' = Length
  /\ ibuffer' = Gathered /\ ibuffer_size' = GatheredSize
  /\ UNCHANGED <<pipe, overrun>>

LiteralAnnounced ==
  /\ ReadsLine /\ Announces /\ Length <= MaxInput
  /\ IF Synchronizing THEN Pushes("plus") ELSE UNCHANGED replies
  /\ reader' = "literal" /\ due' = Length
  /\ ibuffer' = Gathered /\ ibuffer_size' = GatheredSize
  /\ UNCHANGED <<pipe, overrun>>

\* Mutant: the CRLF that is put back is not counted.
ReadLiteralUncounted ==
  /\ reader = "literal" /\ Len(wire) >= due
  /\ reader' = "line" /\ due' = 0
  /\ wire' = SubSeq(wire, due + 1, Len(wire))
  /\ IF ibuffer_size + due > MaxInput
     THEN Empties /\ Pushes("BAD") /\ overrun' = TRUE
     ELSE /\ ibuffer' = ibuffer \o <<CRLF>> \o SubSeq(wire, 1, due)
          /\ ibuffer_size' = ibuffer_size + due
          /\ UNCHANGED <<replies, overrun>>
  /\ UNCHANGED <<client, said, pipe>>

\* readexactly, and the CRLF put back between prefix and literal.
ReadLiteral ==
  /\ reader = "literal" /\ Len(wire) >= due
  /\ reader' = "line" /\ due' = 0
  /\ wire' = SubSeq(wire, due + 1, Len(wire))
  /\ IF ibuffer_size + due + 1 > MaxInput
     THEN Empties /\ Pushes("BAD") /\ overrun' = TRUE
     ELSE /\ ibuffer' = ibuffer \o <<CRLF>> \o SubSeq(wire, 1, due)
          /\ ibuffer_size' = ibuffer_size + due + 1
          /\ UNCHANGED <<replies, overrun>>
  /\ UNCHANGED <<client, said, pipe>>

CommandTooLong ==
  /\ ReadsLine /\ Gathered # << >> /\ ~ Announces /\ GatheredSize > MaxInput
  /\ Pushes("BAD") /\ Empties
  /\ overrun' = TRUE
  /\ UNCHANGED <<reader, due, pipe>>

\* IMAPSubprocessInterface.message: the length, then the command.
Frame(command) == [length |-> Len(command), whole |-> client.pc \in {"answer", "gone"} /\ command = said]

\* Mutant: the buffer is kept.
HandOnKeeping ==
  /\ ReadsLine /\ Gathered # << >> /\ ~ Announces /\ GatheredSize <= MaxInput
  /\ pipe' = Append(pipe, Frame(Gathered))
  /\ ibuffer' = Gathered /\ ibuffer_size' = 0
  /\ UNCHANGED <<replies, reader, due, overrun>>

HandOn ==
  /\ ReadsLine /\ Gathered # << >> /\ ~ Announces /\ GatheredSize <= MaxInput
  /\ pipe' = Append(pipe, Frame(Gathered)) /\ Empties
  /\ UNCHANGED <<replies, reader, due, overrun>>

Leaves == client' = [client EXCEPT !.pc = "gone"]

\* LimitOverrunError: the connection is closed without a word.
LineTooLong ==
  /\ reader \in {"line", "drain"} /\ Stretch > StreamLimit
  /\ reader' = "closed" /\ due' = 0 /\ Empties
  /\ Leaves
  /\ UNCHANGED <<said, wire, replies, pipe, overrun>>

\* The client or the user's process has hung up: what is in the buffer is dropped.
EndOfFile ==
  /\ client.pc = "gone"
  /\ \/ reader \in {"line", "drain"} /\ ~ HasLine
     \/ reader = "literal" /\ Len(wire) < due
  /\ reader' = "closed" /\ due' = 0 /\ Empties
  /\ UNCHANGED <<client, said, wire, replies, pipe, overrun>>

-----------------------------------------------------------------------------
(* IMAPClientProxy.run *)

\* A frame that is too long ends the connection without a word.  A command that
\* does not parse is BAD, and after LOGIN that ends the connection, too.
Run(answer, last) ==
  /\ pipe # << >> /\ pipe' = Tail(pipe)
  /\ IF Head(pipe).length > MaxInput
     THEN Leaves /\ UNCHANGED replies
     ELSE Pushes(answer) /\ IF last THEN Leaves ELSE UNCHANGED client
  /\ UNCHANGED <<said, wire, reader, due, ibuffer, ibuffer_size, overrun>>

-----------------------------------------------------------------------------
ClientSends ==
  \/ \E n \in 0..MaxText : SendLine(n)
  \/ \E n \in 0..MaxText, length \in Lengths, sync \in BOOLEAN : SendPrefix(n, length, sync)
  \/ \E n \in Lengths : \E text \in Literals(n) : SendLiteral(text)
ClientHears == HearsPlus \/ HearsAnswer \/ HearsLatePlus

Start ==
  \/ EmptyMessage \/ LiteralTooLong \/ Drain \/ LiteralAnnounced \/ ReadLiteral
  \/ CommandTooLong \/ LineTooLong \/ HandOn \/ EndOfFile
Serves == Run("done", FALSE) \/ \E last \in BOOLEAN : Run("BAD", last)

Init ==
  /\ client = [pc |-> "line", length |-> 0, literals |-> 0, sent |-> 1]
  /\ said = << >> /\ wire = << >> /\ replies = << >>
  /\ reader = "line" /\ due = 0 /\ ibuffer = << >> /\ ibuffer_size = 0
  /\ pipe = << >> /\ overrun = FALSE

Next == ClientSends \/ ClientHears \/ HangUp \/ Start \/ Serves

Spec == Init /\ [][Next]_vars

\* The servers go on; the client reads, and ends what it began to send.
FairSpec ==
  /\ Spec
  /\ WF_vars(Start) /\ WF_vars(Serves) /\ WF_vars(ClientHears)

-----------------------------------------------------------------------------
(* Properties *)

ReaderTypeOK ==
  /\ client.pc \in {"line", "literal", "plus", "answer", "silent", "gone"}
  /\ client.length \in Lengths \cup {0} /\ client.literals \in 0..MaxLiterals
  /\ client.sent \in 1..(MaxCommands + 1)
  /\ {said, wire, ibuffer} \subseteq Seq(Units)
  /\ replies \in Seq({"plus", "done", "BAD"})
  /\ reader \in {"line", "literal", "drain", "closed"} /\ due \in Lengths \cup {0}
  /\ ibuffer_size \in Nat
  /\ pipe \in Seq([length : Nat, whole : BOOLEAN]) /\ overrun \in BOOLEAN

\* What is handed on is one command of the client, all of it, however it was cut
\* into lines and literals and wherever the client hung up, as long as nothing
\* was refused for its length.
WholeCommands == ~ overrun => \A i \in DOMAIN pipe : pipe[i].whole

\* The front server counts lines, literals and the CRLFs it puts back, and the
\* user's process the bytes of the frame: what the one lets pass is never too
\* long for the other, which would hang up without a word.
FitsFrame == \A i \in DOMAIN pipe : pipe[i].length <= MaxInput

\* A client that waits, for a "+" or for an answer, is heard or hung up on: it
\* never waits for the reader while the reader waits for it.
Answered ==
  /\ client.pc = "plus" ~> client.pc # "plus" \/ overrun
  /\ client.pc = "answer" ~> client.pc # "answer" \/ overrun
=============================================================================
