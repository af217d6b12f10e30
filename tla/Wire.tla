--------------------------------- MODULE Wire ---------------------------------
(***************************************************************************)
(* What goes over a connection in TRANSACTION: the lines a client sends    *)
(* and how they are parsed (protocol/command.rs), the replies and their    *)
(* framing (protocol/response.rs), what RETR and TOP make of a message     *)
(* (server/session.rs), and a client that reads replies as RFC 1939 says.  *)
(*                                                                         *)
(* The mailbox holds one message.  Its content is a sequence of line       *)
(* feeds, carriage returns, periods and one other character, and a reply   *)
(* is a sequence of these and of its status; the texts of replies are left *)
(* out.  A line of the client is a verb and the words after it, numbers or *)
(* junk.  The client sends a line when it has read the reply to the last:  *)
(* CAPA does not offer PIPELINING.                                         *)
(*                                                                         *)
(* The command timeout may drop a handler whose whole reply is written and *)
(* waits to be flushed: an error follows that answers nothing, and from    *)
(* then on the client takes every reply for that to the line after.        *)
(***************************************************************************)
EXTENDS Naturals, Sequences, SequencesExt

CONSTANTS
  MaxContent,   \* bound on the length of the message
  MaxWords,     \* bound on the words after a verb
  MaxU32,       \* the largest number of the code's u32
  MaxStray,     \* bound on the lines a client sends once it is out of step
  Junk          \* a word that is no number

ASSUME WireConstants ==
  MaxContent \in Nat /\ MaxWords \in Nat /\ MaxU32 \in Nat \ {0} /\ MaxStray \in Nat

VARIABLES
  mail,      \* the content of the message
  marked,    \* the message is marked for deletion
  turn,      \* "client", to send a line, or "server", whose reply is on its way
  asked,     \* the command of the last line
  wire,      \* what the client has not yet taken for a reply
  ended,     \* TRANSACTION is over: QUIT, or the idle timeout
  stray      \* 0 while in step; 1 when an error followed a whole reply, and one
             \* more with every line since

vars == <<mail, marked, turn, asked, wire, ended, stray>>

Characters == {"LF", "CR", ".", "x"}
Symbols == Characters \cup {"+OK", "-ERR"}
CRLF == <<"CR", "LF">>
Words == 0..(MaxU32 + 1) \cup {Junk}
Bare == {"STAT", "NOOP", "RSET", "QUIT", "CAPA"}        \* words after these are ignored
Verbs == Bare \cup {"USER", "PASS", "APOP", "LIST", "UIDL", "RETR", "DELE", "TOP", "OTHER"}

\* The step is taken over the elements of s from the first to the last.  (FoldLeft of
\* SequencesExt, written as a recursive function because there are proofs about it.)
Fold(step(_, _), start, s) ==
  LET acc[n \in 0..Len(s)] == IF n = 0 THEN start ELSE step(acc[n - 1], s[n])
  IN  acc[Len(s)]

\* Lines, every one ended by CRLF.
Joined(lines) == FlattenSeq([i \in 1..Len(lines) |-> lines[i] \o CRLF])

-----------------------------------------------------------------------------
(* CommandParser::parse *)

\* A slip: a word that is no u32 is let through.
IsAnyNumber(w) == w # Junk

IsU32(w) == w # Junk /\ w <= MaxU32

\* A slip: zero is a number like the others.
NumberOrZero(words) == Len(words) = 1 /\ IsU32(words[1])

\* The number of a message: all that follows the verb, and positive.
IsNumber(words) == Len(words) = 1 /\ IsU32(words[1]) /\ words[1] # 0

Parses(verb, words) ==
  CASE verb \in Bare             -> TRUE
    [] verb \in {"USER", "PASS"} -> words # <<>>
    [] verb = "APOP"             -> Len(words) >= 2
    [] verb \in {"LIST", "UIDL"} -> words = <<>> \/ IsNumber(words)
    [] verb \in {"RETR", "DELE"} -> IsNumber(words)
    [] verb = "TOP"              -> /\ Len(words) >= 2
                                    /\ IsU32(words[1]) /\ IsU32(words[2])
                                    /\ words[1] # 0
    [] OTHER                     -> FALSE

\* A command: its number and its count of lines if it has them, else <<>>.
Command(verb, words) ==
  [verb |-> verb, cut |-> FALSE,
   num |-> IF verb \in {"LIST", "UIDL", "RETR", "DELE", "TOP"} /\ words # <<>>
             THEN <<Head(words)>> ELSE <<>>,
   lines |-> IF verb = "TOP" THEN words[2] ELSE 0]
NoCommand == [verb |-> "OTHER", cut |-> FALSE, num |-> <<>>, lines |-> 0]

-----------------------------------------------------------------------------
(* The content of a message in lines, and a reply *)

\* A slip: lines are split at line feeds alone.
WithoutNothing(line) == line

\* str::lines takes the one carriage return before a line feed away.
WithoutCR(line) ==
  IF line # <<>> /\ Last(line) = "CR" THEN Front(line) ELSE line

\* The lines so far, and what there is of the next.
NoLine == [done |-> <<>>, line |-> <<>>]
LongerLine(acc, c) == [acc EXCEPT !.line = Append(@, c)]
NextLine(acc, line) == [done |-> Append(acc.done, line), line |-> <<>>]

\* str::lines: each line feed ends a line; what follows the last is one if not empty.
SplitAt(acc, c) ==
  IF c = "LF" THEN NextLine(acc, WithoutCR(acc.line)) ELSE LongerLine(acc, c)
Split(content) == Fold(SplitAt, NoLine, content)
LinesOf(content) ==
  LET all == Split(content)
  IN  IF all.line = <<>> THEN all.done ELSE Append(all.done, all.line)

\* A slip: the count is compared once the line was taken.
EnoughOneLate(taken, lines) == taken > lines

Enough(taken, lines) == taken >= lines

\* The loop of handle_top: the headers, the empty line, and some lines of the body.
NoTop == [result |-> <<>>, inBody |-> FALSE, taken |-> 0]
TopStep(acc, line, lines) ==
  CASE acc.inBody /\ Enough(acc.taken, lines) -> acc
    [] acc.inBody /\ ~ Enough(acc.taken, lines) ->
         [acc EXCEPT !.result = Append(@, line), !.taken = @ + 1]
    [] ~ acc.inBody ->
         [acc EXCEPT !.result = Append(@, line), !.inBody = (line = <<>>)]
TopFrom(text, lines) == Fold(LAMBDA acc, line : TopStep(acc, line, lines), NoTop, text)
TopOf(content, lines) == TopFrom(LinesOf(content), lines).result

\* A slip: a line goes out as it is.
Unstuffed(line) == line

\* A line that starts with a period gets another one in front.
Stuffed(line) == IF line # <<>> /\ Head(line) = "." THEN <<".">> \o line ELSE line

Single(status) == <<status>> \o CRLF
MultiLine(lines) ==
  Single("+OK") \o Joined([i \in 1..Len(lines) |-> Stuffed(lines[i])]) \o <<".">> \o CRLF

-----------------------------------------------------------------------------
(* The handlers *)

\* The lines of CAPA, LIST and UIDL start with a letter or a digit.
Capabilities == [i \in 1..4 |-> <<"x">>]
Listing == IF marked THEN <<>> ELSE << <<"x">> >>

\* idx = num - 1 lies in the listing, and that message is not marked.
Names(cmd) == cmd.num = <<1>> /\ ~ marked

\* What the handler of cmd sends.  Of number 0 the index cannot be computed: the
\* task panics, and nothing is sent.
Reply(cmd) ==
  CASE cmd.num = <<0>>                                      -> <<>>
    [] cmd.verb \in {"USER", "PASS", "APOP"}                -> Single("-ERR")
    [] cmd.verb \in Bare \ {"CAPA"}                         -> Single("+OK")
    [] cmd.verb = "CAPA"                                    -> MultiLine(Capabilities)
    [] cmd.verb \in {"LIST", "UIDL"} /\ cmd.num = <<>>      -> MultiLine(Listing)
    [] cmd.num \notin {<<>>, <<0>>} /\ ~ Names(cmd)         -> Single("-ERR")
    [] cmd.verb \in {"LIST", "UIDL", "DELE"} /\ Names(cmd)  -> Single("+OK")
    [] cmd.verb = "RETR" /\ Names(cmd)                      -> MultiLine(LinesOf(mail))
    [] cmd.verb = "TOP" /\ Names(cmd)                       -> MultiLine(TopOf(mail, cmd.lines))

\* These read the maildir, which may fail.
Reads(cmd) == cmd.verb \in {"STAT", "LIST", "UIDL", "RETR", "DELE", "TOP"}

\* The client may send a line.
MayAsk == turn = "client" /\ ~ ended /\ stray <= MaxStray

\* The symbols go out; they are twice: a whole reply and an error after it.
Send(cmd, symbols, twice) ==
  /\ turn' = "server"
  /\ asked' = cmd
  /\ wire' = wire \o symbols
  /\ stray' = IF twice \/ stray > 0 THEN stray + 1 ELSE 0
  /\ UNCHANGED mail

\* The line is too long or does not parse: refused in a send that nothing cuts.
Refuse(verb, words) ==
  /\ MayAsk
  /\ ~ Parses(verb, words)
  /\ Send(NoCommand, Single("-ERR"), FALSE)
  /\ UNCHANGED <<marked, ended>>

\* The handler runs to its end.
Answer(verb, words) ==
  /\ MayAsk
  /\ Parses(verb, words)
  /\ LET cmd == Command(verb, words) IN
       /\ Send(cmd, Reply(cmd), FALSE)
       /\ marked' = ((marked \/ (verb = "DELE" /\ Names(cmd))) /\ verb # "RSET")
  /\ ended' = (verb = "QUIT")

\* The maildir cannot be read: `?` leaves the handler, and run reports the error.
Fail(verb, words) ==
  /\ MayAsk
  /\ Parses(verb, words)
  /\ LET cmd == Command(verb, words) IN Reads(cmd) /\ Send(cmd, Single("-ERR"), FALSE)
  /\ UNCHANGED <<marked, ended>>

\* The command timeout drops the handler in its send: part of the reply is out, or in
\* the flush all of it, and "-ERR Command timeout" follows.  A QUIT has left TRANSACTION.
Cut(verb, words) ==
  /\ MayAsk
  /\ Parses(verb, words)
  /\ LET cmd == Command(verb, words) IN
       /\ \E n \in 0..Len(Reply(cmd)) :
            Send([cmd EXCEPT !.cut = TRUE], SubSeq(Reply(cmd), 1, n) \o Single("-ERR"),
                 n = Len(Reply(cmd)))
       /\ marked' = ((marked \/ (verb = "DELE" /\ Names(cmd))) /\ verb # "RSET")
  /\ ended' = (verb = "QUIT")

-----------------------------------------------------------------------------
(* A client that reads as RFC 1939, section 3, says *)

\* What is on the wire in lines, and the rest that no CRLF ends.
ReadOn(acc, c) ==
  IF c = "LF" /\ acc.line # <<>> /\ Last(acc.line) = "CR"
    THEN NextLine(acc, Front(acc.line)) ELSE LongerLine(acc, c)
Reading(symbols) == Fold(ReadOn, NoLine, symbols)
WireLines(symbols) == Reading(symbols).done

\* The reply to this command has several lines if it is positive.
IsMulti(cmd) ==
  \/ cmd.verb \in {"CAPA", "RETR", "TOP"}
  \/ cmd.verb \in {"LIST", "UIDL"} /\ cmd.num = <<>>

Positive(line) == line # <<>> /\ Head(line) = "+OK"
Terminators(lines) == {i \in 2..Len(lines) : lines[i] = <<".">>}

\* How many of the lines are the reply to cmd; 0 while it is not complete.
Extent(cmd, lines) ==
  CASE lines = <<>>                                            -> 0
    [] lines # <<>> /\ ~ (IsMulti(cmd) /\ Positive(lines[1]))  -> 1
    [] lines # <<>> /\ IsMulti(cmd) /\ Positive(lines[1])      ->
         IF Terminators(lines) = {} THEN 0
         ELSE CHOOSE i \in Terminators(lines) : \A j \in Terminators(lines) : i <= j

Complete == Extent(asked, WireLines(wire)) > 0

\* The body of a complete reply, a period at the start of a line taken away.
Body ==
  LET lines == WireLines(wire)
  IN  [i \in 1..(Extent(asked, lines) - 2) |->
         IF Head(lines[i + 1] \o <<"x">>) = "." THEN Tail(lines[i + 1]) ELSE lines[i + 1]]

\* The client takes the reply, and may send its next line.
Take ==
  /\ turn = "server"
  /\ Complete
  /\ turn' = "client"
  /\ LET lines == WireLines(wire)
     IN  wire' = Joined(SubSeq(lines, Extent(asked, lines) + 1, Len(lines)))
  /\ asked' = NoCommand
  /\ UNCHANGED <<mail, marked, ended, stray>>

\* No line came: the server says so and ends.
IdleTimeout ==
  /\ ~ ended
  /\ wire' = wire \o Single("-ERR")
  /\ ended' = TRUE
  /\ UNCHANGED <<mail, marked, turn, asked, stray>>

-----------------------------------------------------------------------------
Init ==
  /\ mail \in SeqOf(Characters, MaxContent)
  /\ marked = FALSE
  /\ turn = "client"
  /\ asked = NoCommand
  /\ wire = <<>>
  /\ ended = FALSE
  /\ stray = 0

Next ==
  \/ \E verb \in Verbs, words \in SeqOf(Words, MaxWords) :
       Refuse(verb, words) \/ Answer(verb, words) \/ Fail(verb, words) \/ Cut(verb, words)
  \/ Take
  \/ IdleTimeout

Spec == Init /\ [][Next]_vars

-----------------------------------------------------------------------------
(* Properties *)

\* Every variable holds a value of its kind, and a number a handler gets is a u32
\* other than 0, whatever the client typed.
TypeOK ==
  /\ mail \in Seq(Characters) /\ wire \in Seq(Symbols)
  /\ marked \in BOOLEAN /\ ended \in BOOLEAN /\ turn \in {"client", "server"}
  /\ asked.verb \in Verbs /\ asked.cut \in BOOLEAN
  /\ asked.num \in {<<>>} \cup {<<n>> : n \in 1..MaxU32}
  /\ asked.lines \in 0..MaxU32
  /\ stray \in 0..(MaxStray + 1)

\* Until an error follows a whole reply: however the message looks and whatever the
\* client types, it finds exactly one reply to its line, all of it and nothing after
\* it, unless the server cut it.
InStep ==
  ~ ended /\ stray = 0 =>
    /\ turn = "client" => wire = <<>>
    /\ turn = "server" /\ ~ asked.cut =>
         Complete /\ Extent(asked, WireLines(wire)) = Len(WireLines(wire))

\* A reply of several lines that was cut short is never taken for a whole one, not
\* even with the error and the idle notice after it: no client keeps half a message,
\* and deletes it, for want of noticing.
TruncationIsSeen ==
  turn = "server" /\ stray = 0 /\ asked.cut /\ IsMulti(asked) /\ Complete =>
    ~ Positive(WireLines(wire)[1])

\* The client takes a positive and complete reply for that to its cmd.
Taken(verb) ==
  turn = "server" /\ asked.verb = verb /\ Complete /\ Positive(WireLines(wire)[1])

\* ... and is in step, or was when it asked: cut or not, what it takes answers its cmd.
Served(verb) == Taken(verb) /\ stray <= 1

\* The text of a message, every line ended by CRLF: a line feed that has no carriage
\* return before it gets one, and so does an end without a line feed.
Canonical(content) ==
  FlattenSeq([i \in 1..Len(content) |->
     IF content[i] = "LF" /\ (i = 1 \/ content[i - 1] # "CR") THEN CRLF ELSE <<content[i]>>])
  \o (IF content = <<>> \/ Last(content) = "LF" THEN <<>> ELSE CRLF)

\* RETR brings the message to the client character by character, with nothing
\* changed but the ends of lines that were not CRLF: whatever it takes for a message
\* is one, also when the timeout came in the middle of the reply or at its end.
MessageArrivesWhole ==
  Served("RETR") => Joined(Body) = Canonical(mail)

\* TOP brings the start of what RETR brings: every header, the empty line, and of
\* the lines after it as many as were asked for or as there are.
TopIsAStart ==
  Served("TOP") =>
    LET lines == LinesOf(mail)
        blank == {i \in 1..Len(lines) : lines[i] = <<>>}
    IN  /\ IsPrefix(Body, lines)
        /\ blank = {} => Body = lines
        /\ \A h \in blank : (\A i \in blank : h <= i) =>
             \/ Len(Body) = h + asked.lines
             \/ Body = lines /\ Len(Body) < h + asked.lines

-----------------------------------------------------------------------------
(* The invariant the proofs rest on *)

\* What a line may hold, and what is on the wire in lines.
Line == Seq(Symbols \ {"LF"})
Lines == WireLines(wire)

\* The line a positive reply is or starts with, a negative reply, and the end of a reply
\* of several lines; such a reply in lines.
Fine == <<<<"+OK">>>>
Wrong == <<<<"-ERR">>>>
End == <<<<".">>>>
Inside(text) == [i \in 1..Len(text) |-> Stuffed(text[i])]
Framed(text) == Fine \o Inside(text) \o End

\* What a reply of several lines to cmd may bring, and the whole replies to cmd.
Texts(cmd) ==
  CASE cmd.verb = "RETR" -> {LinesOf(mail)}
    [] cmd.verb = "TOP"  -> {TopOf(mail, cmd.lines)}
    [] OTHER             -> {Capabilities, <<>>, << <<"x">> >>}
Replies(cmd) ==
  {Wrong} \cup IF IsMulti(cmd) THEN {Framed(text) : text \in Texts(cmd)} ELSE {Fine}

\* Nothing but whole lines is on the wire.  While in step: nothing while the client may
\* send; a whole reply, and maybe the notice of the idle timeout, when the server
\* answered; and when it was cut short, lines among which none looks like the end: one,
\* or several that start like a reply of several lines.  When an error followed a whole
\* reply, the two are there.
WireInv ==
  /\ TypeOK
  /\ Lines \in Seq(Line) /\ wire = Joined(Lines)
  /\ stray = 0 /\ turn = "client" /\ ~ ended => Lines = <<>>
  /\ stray = 0 /\ turn = "server" /\ ~ asked.cut =>
       \E reply \in Replies(asked) : Lines = reply \/ (ended /\ Lines = reply \o Wrong)
  /\ stray = 0 /\ turn = "server" /\ asked.cut =>
       /\ Terminators(Lines) = {}
       /\ ended \/ Len(Lines) = 1 \/ (IsMulti(asked) /\ Positive(Lines[1]))
  /\ stray = 1 /\ turn = "server" =>
       \E reply \in Replies(asked) :
         Lines = reply \o Wrong \/ (ended /\ Lines = (reply \o Wrong) \o Wrong)
===============================================================================
