----------------------------- MODULE MCFilterRels -----------------------------
(* Instances of FilterRels for TLC. *)
EXTENDS FilterRels, SequencesExt
CONSTANTS c1, c2, c3

\* One thread without locks; two levels of which the first has two threads.
AllSetups ==
  {[posix |-> FALSE, last |-> 1, level |-> (c1 :> 1)],
   [posix |-> TRUE, last |-> 2, level |-> (c1 :> 1 @@ c2 :> 1 @@ c3 :> 2)]}

\* Lines of two or three bytes, some of them comments; the buffer holds about
\* six of them and is filled more than once.  Main always has a whole line to
\* begin a round with.
Files(a, b) ==
  LET lines   == a \o b
      Until(i) == Len(FlattenSeq(SubSeq(lines, 1, i)))
      Bytes(i) == [j \in 1 .. Len(lines[i]) |-> Until(i - 1) + j]
      NoComment(i) == lines[i][1] # "#"
  IN [bytes |-> FlattenSeq(lines), ends |-> <<Until(Len(a)), Until(Len(lines))>>,
      lines |-> LET numbers == SelectSeq([i \in 1 .. Len(lines) |-> i], NoComment)
                IN [i \in 1 .. Len(numbers) |-> Bytes(numbers[i])]]
Short == <<"r", "n">>
Long == <<"r", "r", "n">>
Comment == <<"#", "n">>
TwoFiles ==
  {Files(<<Short, Long, Comment, Long>>, <<Comment, Long, Comment, Short>>),
   Files(<<Comment, Comment, Comment, Long, Comment>>, <<Long, Short>>)}
===============================================================================
