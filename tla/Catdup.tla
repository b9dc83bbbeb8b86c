------------------------------- MODULE Catdup -------------------------------
(***************************************************************************)
(* catdup.c: concatenation into a new block of memory.  Every helper goes  *)
(* over its strings twice, once to add up their lengths for malloc() and   *)
(* once to copy them; nothing but that the two agree keeps the copies      *)
(* inside the block.  A string is the sequence of its characters without   *)
(* the NUL at its end; NULL is no string.                                  *)
(***************************************************************************)
EXTENDS Naturals, SequencesExt

CONSTANTS
  Nul,            \* the character that ends a string
  NULL            \* the null pointer

strlen(s) == Len(s)

(* memcpy(): the string is written at an address relative to the block,     *)
(* inside of it or not.                                                    *)
memcpy(data, at, s) ==
  LET to == at .. (at + Len(s) - 1)
  IN  [a \in DOMAIN data \cup to |-> IF a \in to THEN s[a - at + 1] ELSE data[a]]

(* The block malloc() returns: nothing in it was written, and p is at its   *)
(* begin.                                                                  *)
Malloc(size) == [size |-> size, to |-> [data |-> << >>, p |-> 0]]

(* memcpy() to p, which then moves behind what was written. *)
Put(block, s) ==
  [block EXCEPT !.to = [data |-> memcpy(@.data, @.p, s), p |-> @.p + Len(s)]]

Terminate(block) == Put(block, <<Nul>>)

Total(array) == FoldLeft(LAMBDA sum, s : sum + strlen(s), 0, array)

catdup(s1, s2) ==
  LET end == strlen(s1) + strlen(s2)
      two == memcpy(memcpy(<< >>, 0, s1), strlen(s1), s2)
  IN  [size |-> end + 1, to |-> [data |-> memcpy(two, end, <<Nul>>), p |-> 0]]

catdup3(s1, s2, s3) ==
  LET end   == strlen(s1) + strlen(s2) + strlen(s3)
      two   == memcpy(memcpy(<< >>, 0, s1), strlen(s1), s2)
      three == memcpy(two, strlen(s1) + strlen(s2), s3)
  IN  [size |-> end + 1, to |-> [data |-> memcpy(three, end, <<Nul>>), p |-> 0]]

catdup4(s1, s2, s3, s4) ==
  LET end   == strlen(s1) + strlen(s2) + strlen(s3) + strlen(s4)
      two   == memcpy(memcpy(<< >>, 0, s1), strlen(s1), s2)
      three == memcpy(two, strlen(s1) + strlen(s2), s3)
      four  == memcpy(three, strlen(s1) + strlen(s2) + strlen(s3), s4)
  IN  [size |-> end + 1, to |-> [data |-> memcpy(four, end, <<Nul>>), p |-> 0]]

(* "rest" are the arguments up to NULL. *)
catdupv(s1, s2, rest) ==
  LET len == strlen(s1) + strlen(s2) + Total(rest) + 1
  IN  Terminate(FoldLeft(Put, Put(Put(Malloc(len), s1), s2), rest))

DelimiterLength(delimiter) == IF delimiter = NULL THEN 0 ELSE strlen(delimiter)

CountedLength(array, delimiter) ==
  Total(array) + Len(array) * DelimiterLength(delimiter) + 1

(* Mutant: the delimiter is copied only between two strings, which is what  *)
(* catdup.h:64 says ("to insert in between input strings"), but counted    *)
(* for each.                                                               *)
catdup_array_between(array, delimiter) ==
  LET PutBoth(block, s) ==
        Put(Put(block, IF block.to.p > 0 /\ delimiter # NULL THEN delimiter ELSE << >>), s)
  IN  Terminate(FoldLeft(PutBoth, Malloc(CountedLength(array, delimiter)), array))

(* The array without the NULL at its end.  The delimiter comes after every  *)
(* string, the last one too.                                               *)
catdup_array(array, delimiter) ==
  LET PutBoth(block, s) ==
        IF DelimiterLength(delimiter) > 0 THEN Put(Put(block, s), delimiter) ELSE Put(block, s)
  IN  Terminate(FoldLeft(PutBoth, Malloc(CountedLength(array, delimiter)), array))
-----------------------------------------------------------------------------
(* Every byte of the block was written and none outside of it, and it holds *)
(* one string that ends in its last byte.                                   *)
Exact(block) ==
  LET data == block.to.data
  IN  /\ DOMAIN data = 0 .. (block.size - 1)
      /\ \A a \in DOMAIN data : data[a] = Nul <=> a = block.size - 1

(* The string in an exact block. *)
Str(block) == [i \in 1 .. (block.size - 1) |-> block.to.data[i - 1]]
=============================================================================
