----------------------------- MODULE SampleQueue -----------------------------
(***************************************************************************)
(* What a delay buffer promises: the samples that were put come out in the *)
(* order they came, none twice, and none is lost unless the buffer is      *)
(* crowded; a frame that is put is always taken in.  Samples are numbered  *)
(* by their age in the buffer, the oldest is 1.                            *)
(***************************************************************************)
EXTENDS Integers, Sequences

CONSTANTS
  MaxCnt, \* samples the buffer holds
  Spf,    \* samples of a frame
  EffCnt  \* samples it should hold

VARIABLES
  queue, \* the samples in the buffer
  taken  \* those the last get took

Ordered(n) == [i \in 1 .. n |-> i]

QInit == queue = << >> /\ taken = << >>

Crowded == Len(queue) > Spf + EffCnt \/ Len(queue) + Spf > MaxCnt

QPut ==
  /\ \E kept \in 0 .. Len(queue) :
       /\ Crowded \/ kept = Len(queue)
       /\ kept + Spf <= MaxCnt
       /\ queue' = Ordered(kept + Spf)
  /\ taken' = << >>

\* When there is less than a frame the rest of it is made up, and it may be
\* made up by samples that join the queue.
QGet ==
  \E madeUp \in {0, Spf} : \E count \in 0 .. Spf :
    /\ madeUp > 0 => Len(queue) \in 1 .. Spf - 1
    /\ count = IF Len(queue) + madeUp < Spf THEN Len(queue) + madeUp ELSE Spf
    /\ taken' = Ordered(count)
    /\ queue' = Ordered(Len(queue) + madeUp - count)

QReset == queue' = << >> /\ taken' = << >>

QNext == QPut \/ QGet \/ QReset

QSpec == QInit /\ [][QNext]_<<queue, taken>>

=============================================================================
