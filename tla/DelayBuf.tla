------------------------------- MODULE DelayBuf -------------------------------
(***************************************************************************)
(* The delay buffer between the two threads of the sound device, of which  *)
(* one puts a frame and the other gets one, each under the lock of the     *)
(* buffer: delaybuf.c, the circular buffer of circbuf.h it keeps the       *)
(* samples in, and the way wsola.c takes samples out of the middle of it.  *)
(*                                                                         *)
(* A sample is a number that tells its age among those in the buffer, 1    *)
(* the oldest; 0 is a cell that holds none of them.  Where WSOLA blends    *)
(* two samples the blend is named for the later one.  The burst level is   *)
(* left out: AGC, which it is counted for, is cur = cur.                   *)
(***************************************************************************)
EXTENDS Integers, Sequences, FiniteSets

CONSTANTS
  MaxCnt,  \* max_cnt
  Spf,     \* samples_per_frame
  Hanning, \* hanning_size of WSOLA
  EraseCnt \* ERASE_CNT, frames in its erase buffer

ASSUME DelayBufAssumption ==
  /\ Spf \in Nat \ {0, 1} /\ MaxCnt \in Nat /\ MaxCnt >= Spf
  /\ Hanning \in 0 .. Spf /\ EraseCnt \in Nat \ {0}

VARIABLES
  wsola,   \* the buffer was created without PJMEDIA_DELAY_BUF_SIMPLE_FIFO
  buf,     \* the circular buffer: its cells, start and len
  last_op, \* the operation before, kept with WSOLA only
  taken    \* history: the samples the last get took from the buffer

vars == <<wsola, buf, last_op, taken>>

Cells == 0 .. MaxCnt - 1

\* Half the buffer; update never moves it.
EffCnt == MaxCnt \div 2

TypeOK ==
  /\ wsola \in BOOLEAN
  /\ buf \in [cells : [Cells -> Nat], start : Cells, len : 0 .. MaxCnt]
  /\ last_op \in {"put", "get"}

Init ==
  /\ wsola \in BOOLEAN
  /\ buf = [cells |-> [i \in Cells |-> 0], start |-> 0, len |-> 0]
  /\ last_op = "put"
  /\ taken = << >>

-----------------------------------------------------------------------------
(* The circular buffer *)

Least(m, n) == IF m < n THEN m ELSE n

Around(i) == IF i >= MaxCnt THEN i - MaxCnt ELSE i

\* How far cell i is behind cell `from', going round.
Offset(i, from) == IF i >= from THEN i - from ELSE i + MaxCnt - from

Contents(b) == [k \in 1 .. b.len |-> b.cells[Around(b.start + k - 1)]]

\* Samples in the first of the two regions they lie in.
FirstRegion(b) == Least(b.len, MaxCnt - b.start)

Reset(b) == [b EXCEPT !.start = 0, !.len = 0]

\* Mutant: the pointer is turned round one cell late.
AdvReadLate(b, count) ==
  IF count >= b.len
  THEN Reset(b)
  ELSE [b EXCEPT !.start = IF @ + count > MaxCnt THEN @ + count - MaxCnt
                           ELSE @ + count,
                 !.len = @ - count]

\* pjmedia_circ_buf_adv_read_ptr
AdvRead(b, count) ==
  IF count >= b.len
  THEN Reset(b)
  ELSE [b EXCEPT !.start = Around(@ + count), !.len = @ - count]

\* pjmedia_circ_buf_write; a frame that does not fit is refused.
Written(b, frame) ==
  LET end == Around(b.start + b.len) IN
  IF Len(frame) > MaxCnt - b.len
  THEN b
  ELSE [b EXCEPT
          !.cells = [i \in Cells |-> IF Offset(i, end) < Len(frame)
                                     THEN frame[Offset(i, end) + 1]
                                     ELSE b.cells[i]],
          !.len = @ + Len(frame)]

\* The samples in the buffer are numbered anew.
Renumbered(b) ==
  LET held    == {i \in Cells : Offset(i, b.start) < b.len}
      samples == {b.cells[i] : i \in held} \ {0}
      Age(s)  == Cardinality({r \in samples : r <= s})
  IN  [b EXCEPT !.cells = [i \in Cells |-> IF i \in held THEN Age(b.cells[i]) ELSE 0]]

\* A frame, numbered behind the samples of the buffer.
Frame(b) == [k \in 1 .. Spf |-> b.len + k]

-----------------------------------------------------------------------------
(* WSOLA *)

\* memmove
Moved(cells, to, from, count) ==
  [i \in Cells |-> IF i \in to .. to + count - 1 THEN cells[i - to + from]
                   ELSE cells[i]]

\* How many samples compress takes out of `count' when it should take `del':
\* the distance find_pitch comes up with.
Distances(count, del) ==
  IF count <= Hanning + del
  THEN {0}
  ELSE del .. Least(del + Spf, count - Hanning) - 1

Compressed(b, at, count, d) == Moved(b.cells, at, at + d, count - d)

Shorter(b, cells, d) == [b EXCEPT !.cells = cells, !.len = @ - d]

\* The second region moves up behind the first one.
MovedUp(cells, d, n2) ==
  Moved(Moved(cells, MaxCnt - d, 0, Least(d, n2)), 0, d, n2 - Least(d, n2))

\* Both regions are compressed in a copy and written back.
Joined(b, d) ==
  [i \in Cells |-> IF Offset(i, b.start) < b.len - d
                   THEN b.cells[Around(b.start + Offset(i, b.start) + d)]
                   ELSE b.cells[i]]

EraseSize == EraseCnt * Spf

\* Mutant: what is left of the second region is not moved up.
DiscardedLeavingGap(b, del) ==
  LET n1 == FirstRegion(b)
      n2 == b.len - n1
  IN  IF n2 = 0
      THEN {Shorter(b, Compressed(b, b.start, n1, d), d) : d \in Distances(n1, del)}
      ELSE IF n2 >= EraseSize
      THEN {Shorter(b, Compressed(b, 0, n2, d), d) : d \in Distances(n2, del)}
      ELSE IF n1 >= EraseSize
      THEN {Shorter(b, Moved(Compressed(b, b.start, n1, d), MaxCnt - d, 0, Least(d, n2)),
                    d) : d \in Distances(n1, del)}
      ELSE {Shorter(b, Joined(b, d), d) : d \in Distances(Least(b.len, EraseSize), del)}

\* pjmedia_wsola_discard and shrink_buffer.  The samples are taken out of the
\* second region when it is large, else out of the first one and the second
\* moves up, else out of a copy of both that is written back.
Discarded(b, del) ==
  LET n1 == FirstRegion(b)
      n2 == b.len - n1
  IN  IF n2 = 0
      THEN {Shorter(b, Compressed(b, b.start, n1, d), d) : d \in Distances(n1, del)}
      ELSE IF n2 >= EraseSize
      THEN {Shorter(b, Compressed(b, 0, n2, d), d) : d \in Distances(n2, del)}
      ELSE IF n1 >= EraseSize
      THEN {Shorter(b, MovedUp(Compressed(b, b.start, n1, d), d, n2), d) :
              d \in Distances(n1, del)}
      ELSE {Shorter(b, Joined(b, d), d) : d \in Distances(Least(b.len, EraseSize), del)}

-----------------------------------------------------------------------------
(* The delay buffer *)

\* Mutant: the buffer is never shrunk before it overflows.
UpdatedNever(b) == {b}

\* update, when a put follows a get
Updated(b) ==
  IF wsola /\ last_op = "get" /\ b.len > Spf + EffCnt
  THEN Discarded(b, Spf \div 2)
  ELSE {b}

\* Mutant: one sample too few goes.
ExcessShort(b) == b.len + Spf - MaxCnt - 1

Excess(b) == b.len + Spf - MaxCnt

\* The overflow check of put: WSOLA first, and the eldest samples go when that
\* was not enough.
Relieved(b) ==
  {IF Excess(r) > 0 THEN AdvRead(r, Excess(r)) ELSE r :
     r \in IF wsola /\ Excess(b) > 0 THEN Discarded(b, Excess(b)) ELSE {b}}

\* pjmedia_delay_buf_put
Put ==
  /\ \E updated \in Updated(buf) : \E relieved \in Relieved(updated) :
       \E written \in {Written(relieved, Frame(buf))} : buf' = Renumbered(written)
  /\ last_op' = IF wsola THEN "put" ELSE last_op
  /\ taken' = << >>
  /\ UNCHANGED wsola

\* The end of get: a frame is read, or refused when there is none.
ReadFrame(b) ==
  IF Spf > b.len
  THEN taken' = << >> /\ buf' = b
  ELSE /\ taken' = SubSeq(Contents(b), 1, Spf)
       /\ buf' = Renumbered(AdvRead(b, Spf))

\* pjmedia_delay_buf_get: when there is less than a frame WSOLA makes one up,
\* and puts it behind the samples that are left; without it they are handed
\* out and zeroes follow.
Get ==
  /\ \/ buf.len >= Spf /\ ReadFrame(buf)
     \/ wsola /\ buf.len = 0 /\ taken' = << >> /\ UNCHANGED buf
     \/ wsola /\ buf.len \in 1 .. Spf - 1 /\ ReadFrame(Written(buf, Frame(buf)))
     \/ ~wsola /\ buf.len < Spf /\ taken' = Contents(buf) /\ buf' = Renumbered(Reset(buf))
  /\ last_op' = IF wsola THEN "get" ELSE last_op
  /\ UNCHANGED wsola

\* pjmedia_delay_buf_reset
DelayReset ==
  /\ buf' = Renumbered(Reset(buf))
  /\ taken' = << >>
  /\ UNCHANGED <<wsola, last_op>>

Next == Put \/ Get \/ DelayReset

Spec == Init /\ [][Next]_vars

\* Both callbacks of the sound device keep coming.
FairSpec == Spec /\ WF_vars(Put) /\ WF_vars(Get)

-----------------------------------------------------------------------------

Abstract == INSTANCE SampleQueue WITH queue <- Contents(buf)

\* Whatever was taken out of the middle of the buffer and wherever it lies in
\* its cells, the samples come out in the order they came, none is lost before
\* the buffer is crowded, and no frame is refused, although nobody looks at the
\* status of the write (delaybuf.c:252-376, circbuf.h:154-345, wsola.c:936-1033).
QueueOfSamples == Abstract!QSpec

\* put and get look at the status of no write and no read.  They need not: when
\* put comes to its write there is room for the frame, whatever WSOLA left of
\* the buffer; and the frame get makes up has room behind a remainder that is
\* less than one, so that there is a frame to be read (delaybuf.c:284-317,
\* 336-378).
NoFrameRefused ==
  /\ \A updated \in Updated(buf) : \A relieved \in Relieved(updated) :
       relieved.len + Spf <= MaxCnt
  /\ buf.len < Spf => buf.len + Spf <= MaxCnt

\* When no put comes right after a put any more, the delay goes down to half
\* the buffer and the frames around it (delaybuf.c:214-250).
DelayComesDown ==
  wsola /\ <>[][~(Put /\ last_op = "put")]_vars
    => <>[](buf.len <= EffCnt + 2 * Spf)

=============================================================================
