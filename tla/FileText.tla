------------------------------ MODULE FileText ------------------------------
(***************************************************************************)
(* The bytes of a file, a position in them, and what one write or one read *)
(* does: write_at, the seek and write_all of write_direct, read_one and    *)
(* read_line_bytes of lua_stdlib/src/io.rs.  Bytes are stored as they are: *)
(* the bodies of lua_stdlib/src/host_io.rs for hosts other than Windows.   *)
(***************************************************************************)
EXTENDS Integers, Sequences, FiniteSets

CONSTANTS NewLine,  \* the byte \n
          Nil       \* what a read answers at the end, and no file at all

Least(m, n) == IF m < n THEN m ELSE n

\* The bytes s over those of c, from a position that is not behind the end.
Overwrite(c, pos, s) ==
    [i \in 1..(IF Len(c) < pos + Len(s) THEN pos + Len(s) ELSE Len(c)) |->
        IF pos < i /\ i <= pos + Len(s) THEN s[i - pos] ELSE c[i]]

\* write_at: a position behind the end counts as the end.
WriteAt(c, pos, s) == Overwrite(c, Least(pos, Len(c)), s)

\* The position after the first newline at or behind pos, or the end: the number
\* of bytes that no newline precedes from there on.
AfterLine(c, pos) ==
    Cardinality({i \in 1..Len(c) : \A j \in pos+1..i-1 : c[j] # NewLine})

\* What precedes it; a \r in front of it, which is dropped too, is left out.
Line(c, pos) ==
    LET next == AfterLine(c, pos) IN
    SubSeq(c, pos + 1, IF c[next] = NewLine THEN next - 1 ELSE next)

\* read_one: the value that one format reads, and the position behind it.  A
\* format is "line", "all", or "byte" for a number of bytes, here 1.
ReadOne(c, at, format) ==
    LET pos == Least(at, Len(c)) IN
    IF format = "all" THEN <<SubSeq(c, pos + 1, Len(c)), Len(c)>>
    ELSE IF pos = Len(c) THEN <<Nil, pos>>
    ELSE IF format = "line" THEN <<Line(c, pos), AfterLine(c, pos)>>
    ELSE <<SubSeq(c, pos + 1, pos + 1), pos + 1>>

=============================================================================
