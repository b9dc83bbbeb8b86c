------------------------------ MODULE LineReader ------------------------------
(***************************************************************************)
(* jpl_read_child_output() and the buffers of struct jpl_child: how what a *)
(* child writes to one of its two descriptors becomes calls of the log     *)
(* callback.  The child writes while the loop reads; every read() returns  *)
(* as much as the kernel likes; jpl_run() reads as often as it is called.  *)
(*                                                                         *)
(* Abstractions: a character is a member of a small set; the log is the    *)
(* sequence of messages without their wording.  "written" is what arrives  *)
(* at read(): the terminal that forkpty() opens has put a carriage return  *)
(* before every newline of the standard output.                            *)
(***************************************************************************)
EXTENDS Naturals, FiniteSetsExt, SequencesExt

CONSTANTS
  Char,         \* characters, NL among them
  NL,           \* the newline
  Nul,          \* the character that ends a C string
  BufferSize,   \* CLIENT_OUTPUT_BUFFER_SIZE
  CountMod,     \* 2^32: the repeat count is an unsigned int
  MaxWritten    \* bound: characters the child writes

ASSUME LineReaderAssumption ==
  /\ NL \in Char /\ NL # Nul
  /\ BufferSize \in Nat \ {0, 1}
  /\ CountMod \in Nat \ {0, 1}
  /\ MaxWritten \in Nat

VARIABLES
  written,      \* history: everything the child wrote
  unread,       \* how much of it is still in the pipe or the terminal
  ended,        \* the child has exited
  held,         \* stdout_buffer up to stdout_buffer_ptr
  last_line,    \* stdout_last_line
  repeat_count, \* stdout_last_line_repeat_count
  log,          \* messages given to the log callback
  reading,      \* the do-while loop is running
  buried        \* jpl_zombies_bury() has taken the child

vars == <<written, unread, ended, held, last_line, repeat_count, log, reading, buried>>

(* The messages: a line, the part of a line that filled the buffer, and the *)
(* notices about repetition and truncation.                                 *)
Line(text)  == [kind |-> "line", text |-> text]
Part(text)  == [kind |-> "part", text |-> text]
Repeating   == [kind |-> "repeating"]
Repeated(n) == [kind |-> "repeated", times |-> n]
Truncated   == [kind |-> "truncated"]

Init ==
  /\ written = <<>>
  /\ unread = 0
  /\ ended = FALSE
  /\ held = <<>>
  /\ last_line = <<>>
  /\ repeat_count = 0
  /\ log = <<>>
  /\ reading = FALSE
  /\ buried = FALSE
-----------------------------------------------------------------------------
(* What the functions of the C library see of a buffer. *)
UpToNul(s) ==
  LET ends == {i \in DOMAIN s : s[i] = Nul}
  IN  IF ends = {} THEN s ELSE SubSeq(s, 1, Min(ends) - 1)

(* Where the newlines of s are. *)
Newlines(s) == {i \in DOMAIN s : s[i] = NL}

(* The k-th place of a set, and what comes before all of them. *)
Nth(places, k) ==
  IF k = 0 THEN 0 ELSE CHOOSE i \in places : Cardinality({j \in places : j <= i}) = k

(* The complete lines of s, without their newlines. *)
LinesOf(s) ==
  LET eol == Newlines(s)
  IN  [k \in 1..Cardinality(eol) |-> SubSeq(s, Nth(eol, k - 1) + 1, Nth(eol, k) - 1)]

(* What is left of s after its complete lines. *)
RestOf(s, seen) ==
  LET eol == Newlines(seen)
  IN  IF eol = {} THEN s ELSE SubSeq(s, Max(eol) + 1, Len(s))
-----------------------------------------------------------------------------
(* The state of the repetition filter. *)
Filter == [log |-> log, last |-> last_line, count |-> repeat_count]

(* Mutant: a line that came twice is not worth a notice. *)
EndRepeatLate(f) ==
  IF f.count > 2 THEN Append(f.log, Repeated(f.count)) ELSE f.log

(* jpl_check_line_repeat_end() *)
EndRepeat(f) ==
  IF f.count >= 2 THEN Append(f.log, Repeated(f.count)) ELSE f.log

(* Mutant: the count is not reset. *)
LogLineNoReset(f, line) ==
  IF f.count > 0 /\ f.last = line
  THEN [f EXCEPT !.log = IF f.count = 1 THEN Append(@, Repeating) ELSE @,
                 !.count = (@ + 1) % CountMod]
  ELSE [log |-> Append(EndRepeat(f), Line(line)), last |-> line,
        count |-> IF f.count = 0 THEN 1 ELSE f.count]

(* One line: counted if it is the last one again, logged otherwise. *)
LogLine(f, line) ==
  IF f.count > 0 /\ f.last = line
  THEN [f EXCEPT !.log = IF f.count = 1 THEN Append(@, Repeating) ELSE @,
                 !.count = (@ + 1) % CountMod]
  ELSE [log |-> Append(EndRepeat(f), Line(line)), last |-> line, count |-> 1]

(* size_t max_read *)
MaxRead == BufferSize - 1 - Len(held)

(* Mutant: a full buffer is kept, to be completed by the next read. *)
TooLongNever(rest) == FALSE

(* The rest of the buffer fills all of it: the line does not fit. *)
TooLong(rest) == Len(rest) = BufferSize - 1

SetFilter(f) ==
  /\ log' = f.log
  /\ last_line' = f.last
  /\ repeat_count' = f.count

(* Mutant: what was held is overwritten. *)
BufferOverwritten(chunk) == chunk

(* read() puts its characters behind those that are held. *)
Buffer(chunk) == held \o chunk

(* One turn of the loop whose read() returns n > 0 characters. *)
Read(n) ==
  LET chunk == SubSeq(written, Len(written) - unread + 1, Len(written) - unread + n)
      buffer == Buffer(chunk)
      seen == UpToNul(buffer)
      rest == RestOf(buffer, seen)
      f == FoldLeft(LogLine, Filter, LinesOf(seen))
  IN  /\ reading
      /\ n \in 1..MaxRead
      /\ n <= unread
      /\ unread' = unread - n
      /\ IF TooLong(rest)
         THEN /\ SetFilter([f EXCEPT !.log = @ \o <<Part(UpToNul(rest)), Truncated>>])
              /\ held' = <<>>
         ELSE /\ SetFilter(f)
              /\ held' = rest
      /\ reading' = (n = MaxRead)
      /\ UNCHANGED <<written, ended, buried>>

(* read() finds nothing, or the end of the output, or has no room. *)
ReadNothing ==
  /\ reading
  /\ unread = 0 \/ MaxRead = 0
  /\ reading' = (MaxRead = 0)
  /\ UNCHANGED <<written, unread, ended, held, last_line, repeat_count, log, buried>>

(* jpl_run() comes to this descriptor. *)
ReadBegin ==
  /\ ~reading /\ ~buried
  /\ reading' = TRUE
  /\ UNCHANGED <<written, unread, ended, held, last_line, repeat_count, log, buried>>

(* jpl_zombies_bury(): the notice for the last line, and the struct is gone *)
(* with what it held.                                                       *)
Bury ==
  /\ ended /\ ~reading /\ ~buried
  /\ buried' = TRUE
  /\ log' = EndRepeat(Filter)
  /\ UNCHANGED <<written, unread, ended, held, last_line, repeat_count, reading>>

ChildWrite(c) ==
  /\ ~ended
  /\ Len(written) < MaxWritten
  /\ written' = Append(written, c)
  /\ unread' = unread + 1
  /\ UNCHANGED <<ended, held, last_line, repeat_count, log, reading, buried>>

ChildExit ==
  /\ ~ended
  /\ ended' = TRUE
  /\ UNCHANGED <<written, unread, held, last_line, repeat_count, log, reading, buried>>

Loop == ReadNothing \/ \E n \in 1..BufferSize : Read(n)

Next ==
  \/ ReadBegin \/ Loop \/ Bury
  \/ ChildExit \/ \E c \in Char : ChildWrite(c)

Spec == Init /\ [][Next]_vars

(* The loop runs on the main thread of a program that is not starved. *)
FairSpec == Spec /\ WF_vars(Loop)
-----------------------------------------------------------------------------
Text == Seq(Char \ {NL, Nul})

Message ==
  [kind : {"line", "part"}, text : Text] \cup [kind : {"repeated"}, times : Nat]
    \cup {Repeating, Truncated}

(* What is held leaves room to read: the buffer never overflows, and read() *)
(* is never asked for nothing, which the loop would take for success.       *)
RoomToRead ==
  /\ written \in Seq(Char) /\ Len(written) <= MaxWritten
  /\ unread \in 0..Len(written)
  /\ held \in Seq(Char) /\ Len(held) <= BufferSize - 2

TypeOK ==
  /\ RoomToRead
  /\ ended \in BOOLEAN
  /\ last_line \in Text /\ Len(last_line) <= BufferSize - 2
  /\ repeat_count \in 0..CountMod - 1
  /\ log \in Seq(Message)
  /\ reading \in BOOLEAN
  /\ buried \in BOOLEAN

(* What read() has returned so far. *)
Consumed == SubSeq(written, 1, Len(written) - unread)

(* The reference: one character at a time, without a buffer; a line is cut  *)
(* when it is as long as the buffer.                                        *)
Feed(s, c) ==
  IF c = NL
  THEN [filter |-> LogLine(s.filter, s.line), line |-> <<>>]
  ELSE IF Len(s.line) + 2 = BufferSize
  THEN [filter |-> [s.filter EXCEPT
                      !.log = @ \o <<Part(Append(s.line, c)), Truncated>>],
        line |-> <<>>]
  ELSE [s EXCEPT !.line = Append(@, c)]

CharByChar ==
  FoldLeft(Feed,
           [filter |-> [log |-> <<>>, last |-> <<>>, count |-> 0], line |-> <<>>],
           Consumed)

(* The C library finds no newline behind a NUL. *)
WithoutNul == Nul \notin Range(Consumed)

(* How the kernel cuts the output into reads does not show: the log, the    *)
(* repetition filter and the buffer are what reading one character at a     *)
(* time would make of the same output.                                      *)
ChunkingInvisible ==
  WithoutNul /\ ~buried => CharByChar = [filter |-> Filter, line |-> held]

Copies(line, n) == FlattenSeq([i \in 1..n |-> Append(line, NL)])

(* What a reader of the log takes the output to have been. *)
Understand(s, message) ==
  CASE message.kind = "line" ->
         [out |-> s.out \o Append(message.text, NL), last |-> message.text]
    [] message.kind = "repeating" -> [s EXCEPT !.out = @ \o Copies(s.last, 1)]
    [] message.kind = "repeated" ->
         [s EXCEPT !.out = @ \o Copies(s.last, message.times - 2)]
    [] OTHER -> s

Understood == FoldLeft(Understand, [out |-> <<>>, last |-> <<>>], log).out

(* No line came as often in a row as the repeat count can count. *)
NoWrap ==
  LET lines == LinesOf(Consumed)
  IN  \A i \in 1..Len(lines) - CountMod + 1 :
        \E j \in i..i + CountMod - 1 : lines[j] # lines[i]

(* As long as no line was cut and none came 2^32 times in a row, the log    *)
(* says exactly what the child wrote: its lines in order, the repeated ones *)
(* as often as they came, once the repetition is over.                      *)
LogTellsOutput ==
  WithoutNul /\ NoWrap /\ Truncated \notin Range(log) =>
    Consumed = Understood
               \o (IF buried \/ repeat_count < 3 THEN <<>>
                   ELSE Copies(last_line, repeat_count - 2))
               \o held

Times(message) == IF message.kind = "repeated" THEN message.times - 1 ELSE 0

Accounted ==
  Cardinality({i \in DOMAIN log : log[i].kind = "line"})
  + FoldLeft(LAMBDA n, message : n + Times(message), 0, log)
  + (IF buried \/ repeat_count = 0 THEN 0 ELSE repeat_count - 1)

(* Every line is logged or counted in a notice, cut lines included.  The    *)
(* count of the notices is right even when a cut line comes in between.     *)
(* When the repeat count wraps, which takes as many lines as it can count,  *)
(* those but the first are lost, and nothing else.  A NUL hides the lines   *)
(* behind it until the buffer is full, and costs no more than those.        *)
LinesAccounted ==
  LET lines   == Cardinality(Newlines(Consumed))
      hidden  == Cardinality(Newlines(held))
      cuts    == Cardinality({i \in DOMAIN log : log[i] = Truncated})
  IN  /\ Accounted + hidden <= lines
      /\ WithoutNul => (lines - Accounted) % (CountMod - 1) = 0
      /\ lines < CountMod =>
           /\ WithoutNul => Accounted = lines
           /\ lines <= Accounted + hidden + cuts * (BufferSize - 2)

(* jpl_read_child_output() returns once the child pauses. *)
ReadReturns == reading ~> ~reading
=============================================================================
