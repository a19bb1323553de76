------------------------------- MODULE RingBuf -------------------------------
(***************************************************************************)
(* The ring buffer of utils/ringbuf.c between the thread that reads the    *)
(* input files (ringbuf_feed_stream, called by filter_rels_producer_thread *)
(* of utils/filter_io.cpp) and the thread that consumes complete lines     *)
(* (ringbuf_strchr, ringbuf_skip_get).                                     *)
(*                                                                         *)
(* The bytes of all files together are numbered from 1, and a cell of the  *)
(* buffer holds the number of the byte last written there.  Bytes are      *)
(* written and searched without the lock; everything else needs it.        *)
(***************************************************************************)
EXTENDS Integers, Sequences, FiniteSetsExt

CONSTANTS
  Alloc,      \* r->alloc, PREEMPT_BUF: the buffer does not grow here
  OneRead,    \* PREEMPT_ONE_READ
  Inputs,     \* lists of files: their bytes one after the other ("n" is a
              \* newline), where each file ends, and which bytes make up the
              \* lines that are no comments
  SizeMod     \* 2^64: how many values a size_t has

ASSUME RingAssumption ==
  /\ Alloc \in Nat \ {0} /\ OneRead \in Nat \ {0} /\ SizeMod \in Nat
  /\ SizeMod > Alloc

\* Where a line begins, and how many of the lines that begin up to there are no
\* comments.
Begins(f, p) == p = 1 \/ f.bytes[p - 1] = "n"
LinesUntil(f, p) == Cardinality({q \in 1 .. p : Begins(f, q) /\ f.bytes[q] # "#"})

\* One file follows the other, and `lines` are what it says.
ASSUME InputsAssumption ==
  \A f \in Inputs :
    /\ Len(f.bytes) \in Nat /\ Len(f.ends) \in Nat \ {0} /\ Len(f.lines) \in Nat
    /\ \A n \in 1 .. Len(f.ends) : f.ends[n] \in 0 .. Len(f.bytes)
    /\ \A n \in 1 .. Len(f.ends) - 1 : f.ends[n] <= f.ends[n + 1]
    /\ \A p, e \in 1 .. Len(f.bytes) :
         /\ p <= e /\ Begins(f, p) /\ f.bytes[p] # "#"
         /\ f.bytes[e] = "n" /\ \A q \in p .. e - 1 : f.bytes[q] # "n"
         => /\ LinesUntil(f, p) \in 1 .. Len(f.lines)
            /\ f.lines[LinesUntil(f, p)] = [i \in 1 .. e - p + 1 |-> p + i - 1]

VARIABLES
  input,     \* the list of files of this execution
  rb,        \* rhead, whead, avail_to_read, avail_to_write, done
  cells,     \* what the buffer holds, 0 for a byte never written
  reader,    \* the reading thread: pc, file, pos (bytes read), local, s
  sleeping   \* the threads that wait on rb->bored

ringVars == <<input, rb, cells, reader, sleeping>>

Stream == input.bytes
IsNewline(byte) == byte # 0 /\ Stream[byte] = "n"

RingInit ==
  /\ input \in Inputs
  /\ rb = [rhead |-> 0, whead |-> 0, avail_to_read |-> 0, avail_to_write |-> Alloc,
           done |-> FALSE]
  /\ cells = [i \in 0 .. Alloc - 1 |-> 0]
  /\ reader = [pc |-> "open", file |-> 1, pos |-> 0, local |-> 0, s |-> 0]
  /\ sleeping = {}

\* pthread_cond_signal(): one of the waiting threads, if any, wakes up.
Signal ==
  IF sleeping = {} THEN UNCHANGED sleeping
                   ELSE \E t \in sleeping : sleeping' = sleeping \ {t}

-------------------------------------------------------------------------------
(* The reading thread.                                                     *)

\* ringbuf_feed_stream() is called for a file: a lower bound of
\* avail_to_write is kept from here on.
OpenFile ==
  /\ reader.pc = "open"
  /\ reader' = [reader EXCEPT !.pc = "check", !.local = rb.avail_to_write]
  /\ UNCHANGED <<input, rb, cells, sleeping>>

\* With no room known of, the thread waits until there is some.
CheckRoom ==
  /\ reader.pc = "check" /\ "reader" \notin sleeping
  /\ \/ /\ reader.local # 0
        /\ reader' = [reader EXCEPT !.pc = "read"] /\ UNCHANGED sleeping
     \/ /\ reader.local = 0 /\ rb.avail_to_write # 0
        /\ reader' = [reader EXCEPT !.pc = "read", !.local = rb.avail_to_write]
        /\ UNCHANGED sleeping
     \/ /\ reader.local = 0 /\ rb.avail_to_write = 0
        /\ sleeping' = sleeping \union {"reader"} /\ UNCHANGED reader
  /\ UNCHANGED <<input, rb, cells>>

\* How much is asked of fread(): the contiguous room, but not too much.
ReadSize == Min({Alloc - rb.whead, reader.local, OneRead})

\* fread() into the buffer, without the lock; it returns less only at the end
\* of the file, and then 0, which ends ringbuf_feed_stream().
Fread ==
  /\ reader.pc = "read"
  /\ LET left == input.ends[reader.file] - reader.pos
         s    == Min({ReadSize, left})
     IN \/ /\ left > 0
           /\ cells' = [i \in DOMAIN cells |->
                          IF (i - rb.whead) % Alloc < s
                          THEN reader.pos + 1 + ((i - rb.whead) % Alloc) ELSE cells[i]]
           /\ reader' = [reader EXCEPT !.pc = "fed", !.pos = @ + s, !.s = s]
        \/ /\ left = 0 /\ reader.file < Len(input.ends)
           /\ reader' = [reader EXCEPT !.pc = "open", !.file = @ + 1]
           /\ UNCHANGED cells
        \/ /\ left = 0 /\ reader.file = Len(input.ends)
           /\ reader' = [reader EXCEPT !.pc = "mark_done"]
           /\ UNCHANGED cells
  /\ UNCHANGED <<input, rb, sleeping>>

\* What was read is accounted for, and who waits for data is told.
Account_untold ==
  /\ reader.pc = "fed"
  /\ rb' = [rb EXCEPT !.whead = (@ + reader.s) % Alloc,
                      !.avail_to_read = (@ + reader.s) % SizeMod,
                      !.avail_to_write = (@ - reader.s) % SizeMod]
  /\ reader' = [reader EXCEPT !.pc = "check", !.local = rb'.avail_to_write]
  /\ UNCHANGED <<input, cells, sleeping>>
Account ==
  /\ reader.pc = "fed"
  /\ rb' = [rb EXCEPT !.whead = (@ + reader.s) % Alloc,
                      !.avail_to_read = (@ + reader.s) % SizeMod,
                      !.avail_to_write = (@ - reader.s) % SizeMod]
  /\ reader' = [reader EXCEPT !.pc = "check", !.local = rb'.avail_to_write]
  /\ Signal
  /\ UNCHANGED <<input, cells>>

ringbuf_mark_done ==
  /\ reader.pc = "mark_done"
  /\ rb' = [rb EXCEPT !.done = TRUE] /\ sleeping' = {}
  /\ reader' = [reader EXCEPT !.pc = "ended"]
  /\ UNCHANGED <<input, cells>>

ReaderStep == OpenFile \/ CheckRoom \/ Fread \/ Account \/ ringbuf_mark_done

-------------------------------------------------------------------------------
(* What the consuming thread calls.                                        *)

\* The cell at a distance from the read head.
Cell(s) == cells[(rb.rhead + s) % Alloc]

\* ringbuf_strchr(rb, '\n', 0): the first loop goes to the end of the
\* allocation, whatever part of it is readable; the second one through the
\* rest of the readable part, a size_t that wraps around if there is none.
\* (Beyond the allocation, the memory is not the buffer's: not modelled.)
ringbuf_strchr ==
  LET tail  == Alloc - rb.rhead
      rest  == (rb.avail_to_read - tail) % SizeMod
      found == {s \in 0 .. Alloc - 1 :
                  /\ s < tail \/ s - tail < rest
                  /\ IsNewline(Cell(s))}
  IN IF found = {} THEN -1 ELSE Min(found)

\* ringbuf_skip_get(rb, s).
ringbuf_skip_get_no_room(s) ==
  /\ rb' = [rb EXCEPT !.rhead = (@ + s) % Alloc,
                      !.avail_to_read = (@ - s) % SizeMod]
  /\ Signal
  /\ UNCHANGED <<input, cells, reader>>
ringbuf_skip_get(s) ==
  /\ rb' = [rb EXCEPT !.rhead = (@ + s) % Alloc,
                      !.avail_to_read = (@ - s) % SizeMod,
                      !.avail_to_write = (@ + s) % SizeMod]
  /\ Signal
  /\ UNCHANGED <<input, cells, reader>>
===============================================================================
