---------------------------- MODULE DelayBufProofs ----------------------------
(***************************************************************************)
(* The delay buffer keeps within its cells, refuses no frame and gives the *)
(* samples in the order they came, whatever its size, that of a frame and  *)
(* what WSOLA takes out of it.                                             *)
(***************************************************************************)
EXTENDS DelayBuf, FiniteSetTheorems, TLAPS

Lengths == 0 .. MaxCnt

Fillings == [Cells -> Nat]

Buffers == [cells : Fillings, start : Cells, len : Lengths]

LEMMA Sizes ==
  /\ MaxCnt \in Nat /\ Spf \in Nat /\ Spf > 1 /\ MaxCnt >= Spf
  /\ Hanning \in Nat /\ EffCnt \in Nat
  /\ EraseSize \in Nat
  /\ Spf \div 2 \in Nat
  /\ 0 \in Cells
BY SMT, DelayBufAssumption DEF Cells, EffCnt, EraseSize

-----------------------------------------------------------------------------
(* The circular buffer stays one *)

\* Going round from any cell by no more than the buffer is long leads to a cell.
LEMMA AroundType ==
  ASSUME NEW i \in Nat, i < 2 * MaxCnt
  PROVE  Around(i) \in Cells
BY SMT, Sizes DEF Around, Cells

LEMMA OffsetType ==
  ASSUME NEW i \in Cells, NEW from \in Cells
  PROVE  Offset(i, from) \in Cells
BY SMT, Sizes DEF Offset, Cells

LEMMA FieldTypes ==
  ASSUME NEW b \in Buffers
  PROVE  /\ b.cells \in [Cells -> Nat] /\ b.start \in Cells
         /\ b.start \in Nat /\ b.len \in Nat /\ b.start < MaxCnt /\ b.len <= MaxCnt
BY SMT, Sizes DEF Buffers, Cells, Lengths, Fillings

LEMMA ResetType ==
  ASSUME NEW b \in Buffers
  PROVE  Reset(b) \in Buffers /\ Reset(b).len = 0
<1>1. 0 \in Lengths
  BY SMT, Sizes DEF Lengths
<1>2. QED
  BY <1>1, Sizes DEF Reset, Buffers

LEMMA AdvReadType ==
  ASSUME NEW b \in Buffers, NEW count \in Nat
  PROVE  /\ AdvRead(b, count) \in Buffers
         /\ AdvRead(b, count).len = IF count >= b.len THEN 0 ELSE b.len - count
<1>1. CASE count >= b.len
  BY <1>1, ResetType DEF AdvRead
<1>2. CASE ~(count >= b.len)
  <2>1. b.start + count \in Nat /\ b.start + count < 2 * MaxCnt
    BY SMT, <1>2, FieldTypes, Sizes
  <2>2. Around(b.start + count) \in Cells
    BY <2>1, AroundType
  <2>3. b.len - count \in Lengths
    BY SMT, <1>2, FieldTypes, Sizes DEF Lengths
  <2>4. AdvRead(b, count)
          = [b EXCEPT !.start = Around(b.start + count), !.len = b.len - count]
    BY <1>2 DEF AdvRead
  <2>5. QED
    BY <1>2, <2>2, <2>3, <2>4 DEF Buffers
<1>3. QED
  BY <1>1, <1>2

\* A frame is written whole or not at all.
LEMMA WrittenType ==
  ASSUME NEW b \in Buffers, NEW frame \in Seq(Nat)
  PROVE  /\ Written(b, frame) \in Buffers
         /\ Written(b, frame).len = IF Len(frame) > MaxCnt - b.len THEN b.len
                                    ELSE b.len + Len(frame)
<1>1. CASE Len(frame) > MaxCnt - b.len
  BY <1>1 DEF Written
<1>2. CASE ~(Len(frame) > MaxCnt - b.len)
  <2> DEFINE end == Around(b.start + b.len)
             cells == [i \in Cells |-> IF Offset(i, end) < Len(frame)
                                       THEN frame[Offset(i, end) + 1]
                                       ELSE b.cells[i]]
  <2>1. end \in Cells
    <3>1. b.start + b.len \in Nat /\ b.start + b.len < 2 * MaxCnt
      BY SMT, FieldTypes, Sizes
    <3>2. QED
      BY <3>1, AroundType
  <2>2. ASSUME NEW i \in Cells, Offset(i, end) < Len(frame)
        PROVE  frame[Offset(i, end) + 1] \in Nat
    <3>1. Offset(i, end) \in Cells
      BY <2>1, OffsetType
    <3> HIDE DEF end
    <3>2. Offset(i, end) + 1 \in 1 .. Len(frame)
      BY SMT, <2>2, <3>1, Sizes DEF Cells
    <3>3. QED
      BY SMT, <3>2
  <2>3. cells \in Fillings
    BY <2>2, FieldTypes DEF Fillings
  <2>4. b.len + Len(frame) \in Lengths
    BY SMT, <1>2, FieldTypes, Sizes DEF Lengths
  <2>5. Written(b, frame) = [b EXCEPT !.cells = cells, !.len = b.len + Len(frame)]
    BY <1>2 DEF Written
  <2> HIDE DEF cells
  <2>6. QED
    BY <1>2, <2>3, <2>4, <2>5 DEF Buffers
<1>3. QED
  BY <1>1, <1>2

LEMMA FrameType ==
  ASSUME NEW b \in Buffers
  PROVE  Frame(b) \in Seq(Nat) /\ Len(Frame(b)) = Spf
<1>1. Frame(b) \in [1 .. Spf -> Nat]
  BY SMT, FieldTypes, Sizes DEF Frame
<1>2. QED
  BY SMT, <1>1, Sizes DEF Frame

\* Numbering anew changes the names of the samples only.
LEMMA RenumberedType ==
  ASSUME NEW b \in Buffers
  PROVE  Renumbered(b) \in Buffers /\ Renumbered(b).len = b.len
<1> DEFINE held    == {i \in Cells : Offset(i, b.start) < b.len}
           samples == {b.cells[i] : i \in held} \ {0}
           Age(s)  == Cardinality({r \in samples : r <= s})
           cells   == [i \in Cells |-> IF i \in held THEN Age(b.cells[i]) ELSE 0]
<1>1. IsFiniteSet(Cells)
  BY Sizes, FS_Interval DEF Cells
<1>2. IsFiniteSet(held)
  <2>1. held \subseteq Cells
    OBVIOUS
  <2>2. QED
    BY <1>1, <2>1, FS_Subset
<1>3. IsFiniteSet({b.cells[i] : i \in held})
  <2> HIDE DEF held
  <2> DEFINE T == {b.cells[i] : i \in held}
             f == [i \in held |-> b.cells[i]]
  <2>1. f \in Surjection(held, T)
    BY DEF Surjection
  <2> HIDE DEF T, f
  <2>3. IsFiniteSet(T)
    BY <1>2, <2>1, FS_Surjection
  <2>4. QED
    BY <2>3 DEF T
<1>4. ASSUME NEW s PROVE Age(s) \in Nat
  <2>1. {r \in samples : r <= s} \subseteq {b.cells[i] : i \in held}
    OBVIOUS
  <2>2. IsFiniteSet({r \in samples : r <= s})
    BY <1>3, <2>1, FS_Subset
  <2>3. QED
    BY <2>2, FS_CardinalityType
<1>5. cells \in Fillings
  <2> HIDE DEF held, Age
  <2>1. QED
    BY <1>4 DEF Fillings
<1>6. Renumbered(b) = [b EXCEPT !.cells = cells]
  BY DEF Renumbered
<1> HIDE DEF cells
<1>7. QED
  BY <1>5, <1>6 DEF Buffers

-----------------------------------------------------------------------------
(* WSOLA takes samples out of the buffer and leaves a buffer *)

LEMMA MovedType ==
  ASSUME NEW cells \in Fillings, NEW to \in Nat, NEW from \in Nat, NEW count \in Int,
         from + count <= MaxCnt
  PROVE  Moved(cells, to, from, count) \in Fillings
<1>1. ASSUME NEW i \in Cells, i \in to .. to + count - 1
      PROVE  cells[i - to + from] \in Nat
  <2>1. i - to + from \in Cells
    BY SMT, <1>1, Sizes DEF Cells
  <2>2. QED
    BY <2>1 DEF Fillings
<1>2. QED
  BY <1>1 DEF Moved, Fillings

\* compress takes out less than it was given.
LEMMA DistancesType ==
  ASSUME NEW count \in Nat, NEW del \in Nat, NEW d \in Distances(count, del)
  PROVE  d \in Nat /\ d <= count
BY SMT, Sizes DEF Distances, Least

LEMMA ShorterType ==
  ASSUME NEW b \in Buffers, NEW cells \in Fillings, NEW d \in Nat, d <= b.len
  PROVE  Shorter(b, cells, d) \in Buffers
<1>1. b.len \in Nat /\ b.len <= MaxCnt
  BY FieldTypes
<1>2. b.len - d \in Lengths
  BY SMT, <1>1, Sizes DEF Lengths
<1>3. QED
  BY <1>2 DEF Shorter, Buffers

LEMMA CompressedType ==
  ASSUME NEW b \in Buffers, NEW at \in Nat, NEW count \in Nat, NEW d \in Nat,
         d <= count, at + count <= MaxCnt
  PROVE  Compressed(b, at, count, d) \in Fillings
<1>1. at + d \in Nat /\ count - d \in Int /\ (at + d) + (count - d) <= MaxCnt
  BY SMT, Sizes
<1>2. QED
  BY <1>1, MovedType, FieldTypes DEF Compressed, Fillings

LEMMA MovedUpType ==
  ASSUME NEW cells \in Fillings, NEW d \in 0 .. MaxCnt, NEW n2 \in 0 .. MaxCnt
  PROVE  MovedUp(cells, d, n2) \in Fillings
<1> DEFINE once == Moved(cells, MaxCnt - d, 0, Least(d, n2))
<1>1. /\ 0 \in Nat /\ MaxCnt - d \in Nat /\ d \in Nat
      /\ Least(d, n2) \in Int /\ 0 + Least(d, n2) <= MaxCnt
      /\ n2 - Least(d, n2) \in Int /\ d + (n2 - Least(d, n2)) <= MaxCnt
  BY SMT, Sizes DEF Least
<1>2. once \in Fillings
  BY <1>1, MovedType
<1> HIDE DEF once
<1>3. Moved(once, 0, d, n2 - Least(d, n2)) \in Fillings
  BY <1>1, <1>2, MovedType
<1>4. QED
  BY <1>3 DEF MovedUp, once

LEMMA JoinedType ==
  ASSUME NEW b \in Buffers, NEW d \in Nat
  PROVE  Joined(b, d) \in Fillings
<1>1. ASSUME NEW i \in Cells, Offset(i, b.start) < b.len - d
      PROVE  b.cells[Around(b.start + Offset(i, b.start) + d)] \in Nat
  <2>1. Offset(i, b.start) \in Cells
    BY FieldTypes, OffsetType
  <2>2. /\ b.start + Offset(i, b.start) + d \in Nat
        /\ b.start + Offset(i, b.start) + d < 2 * MaxCnt
    BY SMT, <1>1, <2>1, FieldTypes, Sizes DEF Cells
  <2>3. Around(b.start + Offset(i, b.start) + d) \in Cells
    BY <2>2, AroundType
  <2>4. QED
    BY <2>3, FieldTypes
<1>2. QED
  BY <1>1, FieldTypes DEF Joined, Fillings

LEMMA DiscardedType ==
  ASSUME NEW b \in Buffers, NEW del \in Nat, NEW c \in Discarded(b, del)
  PROVE  c \in Buffers
<1> DEFINE n1 == FirstRegion(b)
           n2 == b.len - n1
           there == Least(b.len, EraseSize)
<1>1. /\ n1 \in Nat /\ n2 \in Nat /\ n1 <= b.len /\ n2 <= b.len
      /\ b.start + n1 <= MaxCnt /\ 0 + n2 <= MaxCnt
      /\ n2 \in 0 .. MaxCnt
      /\ there \in Nat /\ there <= b.len
      /\ b.start \in Nat /\ b.len \in Nat /\ b.len <= MaxCnt /\ MaxCnt \in Nat
  BY SMT, FieldTypes, Sizes DEF FirstRegion, Least
<1>2. CASE n2 = 0
  <2>1. PICK d \in Distances(n1, del) :
          c = Shorter(b, Compressed(b, b.start, n1, d), d)
    BY <1>2 DEF Discarded
  <2> HIDE DEF n1, n2
  <2>2. d \in Nat /\ d <= n1
    BY <1>1, <2>1, DistancesType
  <2>3. d <= b.len
    BY SMT, <1>1, <2>2
  <2>4. QED
    BY <1>1, <2>1, <2>2, <2>3, CompressedType, ShorterType
<1>3. CASE n2 # 0 /\ n2 >= EraseSize
  <2>1. PICK d \in Distances(n2, del) : c = Shorter(b, Compressed(b, 0, n2, d), d)
    BY <1>3 DEF Discarded
  <2> HIDE DEF n1, n2
  <2>2. d \in Nat /\ d <= n2
    BY <1>1, <2>1, DistancesType
  <2>3. d <= b.len /\ 0 \in Nat
    BY SMT, <1>1, <2>2
  <2>4. QED
    BY <1>1, <2>1, <2>2, <2>3, CompressedType, ShorterType
<1>4. CASE n2 # 0 /\ ~(n2 >= EraseSize) /\ n1 >= EraseSize
  <2>1. PICK d \in Distances(n1, del) :
          c = Shorter(b, MovedUp(Compressed(b, b.start, n1, d), d, n2), d)
    BY <1>4 DEF Discarded
  <2> HIDE DEF n1, n2
  <2>2. d \in Nat /\ d <= n1
    BY <1>1, <2>1, DistancesType
  <2>3. d <= b.len /\ d \in 0 .. MaxCnt
    BY SMT, <1>1, <2>2
  <2>4. Compressed(b, b.start, n1, d) \in Fillings
    BY <1>1, <2>2, CompressedType
  <2>5. MovedUp(Compressed(b, b.start, n1, d), d, n2) \in Fillings
    BY <1>1, <2>3, <2>4, MovedUpType
  <2>6. QED
    BY <2>1, <2>2, <2>3, <2>5, ShorterType
<1>5. CASE n2 # 0 /\ ~(n2 >= EraseSize) /\ ~(n1 >= EraseSize)
  <2>1. PICK d \in Distances(there, del) : c = Shorter(b, Joined(b, d), d)
    BY <1>5 DEF Discarded
  <2> HIDE DEF n1, n2, there
  <2>2. d \in Nat /\ d <= there
    BY <1>1, <2>1, DistancesType
  <2>3. d <= b.len
    BY SMT, <1>1, <2>2
  <2>4. QED
    BY <2>1, <2>2, <2>3, JoinedType, ShorterType
<1>6. QED
  BY <1>2, <1>3, <1>4, <1>5

-----------------------------------------------------------------------------
(* The operations *)

LEMMA UpdatedType ==
  ASSUME NEW b \in Buffers, NEW c \in Updated(b)
  PROVE  c \in Buffers
BY Sizes, DiscardedType DEF Updated

\* Whatever WSOLA took out, what stays leaves room for a frame.
LEMMA RelievedType ==
  ASSUME NEW b \in Buffers, NEW c \in Relieved(b)
  PROVE  c \in Buffers /\ c.len + Spf <= MaxCnt
<1>1. PICK r \in IF wsola /\ Excess(b) > 0 THEN Discarded(b, Excess(b)) ELSE {b} :
        c = IF Excess(r) > 0 THEN AdvRead(r, Excess(r)) ELSE r
  BY DEF Relieved
<1>2. ASSUME NEW a \in Buffers PROVE Excess(a) \in Int /\ Excess(a) = a.len + Spf - MaxCnt
  BY SMT, FieldTypes, Sizes DEF Excess
<1>3. r \in Buffers
  <2>1. CASE wsola /\ Excess(b) > 0
    <3>1. Excess(b) \in Nat
      BY SMT, <1>2, <2>1
    <3>2. QED
      BY <1>1, <2>1, <3>1, DiscardedType
  <2>2. CASE ~(wsola /\ Excess(b) > 0)
    BY <1>1, <2>2
  <2>3. QED
    BY <2>1, <2>2
<1>4. CASE Excess(r) > 0
  <2>1. c = AdvRead(r, Excess(r)) /\ Excess(r) \in Nat
    BY SMT, <1>1, <1>2, <1>3, <1>4
  <2>2. /\ c \in Buffers
        /\ c.len = IF Excess(r) >= r.len THEN 0 ELSE r.len - Excess(r)
    BY <1>3, <2>1, AdvReadType
  <2>3. c.len + Spf <= MaxCnt
    BY SMT, <1>2, <1>3, <2>2, FieldTypes, Sizes
  <2>4. QED
    BY <2>2, <2>3
<1>5. CASE ~(Excess(r) > 0)
  <2>1. c = r
    BY <1>1, <1>5
  <2>2. r.len + Spf <= MaxCnt
    BY SMT, <1>2, <1>3, <1>5, FieldTypes, Sizes
  <2>3. QED
    BY <1>3, <2>1, <2>2
<1>6. QED
  BY <1>4, <1>5

\* A remainder too small for a frame to be read has room for one behind it: the
\* conjunct of NoFrameRefused that a step has to keep.
RoomBehind(b) == b.len < Spf => b.len + Spf <= MaxCnt

IInv == TypeOK /\ RoomBehind(buf)

LEMMA BufType == TypeOK <=> wsola \in BOOLEAN /\ buf \in Buffers /\ last_op \in {"put", "get"}
BY DEF TypeOK, Buffers, Fillings, Lengths

LEMMA InitInv == Init => IInv
<1> SUFFICES ASSUME Init PROVE IInv
  OBVIOUS
<1>1. 0 \in Lengths /\ 0 + Spf <= MaxCnt
  BY SMT, Sizes DEF Lengths
<1>2. [i \in Cells |-> 0] \in Fillings
  BY DEF Fillings
<1>3. buf \in Buffers
  BY <1>1, <1>2, Sizes DEF Init, Buffers
<1>4. buf.len = 0
  BY DEF Init
<1>5. QED
  BY <1>1, <1>3, <1>4, BufType DEF Init, IInv, RoomBehind

\* After a put there is a frame in the buffer.
LEMMA PutInv == IInv /\ Put => IInv'
<1> SUFFICES ASSUME IInv, Put PROVE IInv'
  OBVIOUS
<1>1. wsola \in BOOLEAN /\ buf \in Buffers /\ last_op \in {"put", "get"}
  BY BufType DEF IInv
<1>2. PICK updated \in Updated(buf) : \E relieved \in Relieved(updated) :
        buf' = Renumbered(Written(relieved, Frame(buf)))
  BY DEF Put
<1>3. PICK relieved \in Relieved(updated) :
         buf' = Renumbered(Written(relieved, Frame(buf)))
  BY <1>2
<1>4. relieved \in Buffers /\ relieved.len + Spf <= MaxCnt
  BY <1>1, <1>2, <1>3, UpdatedType, RelievedType
<1>5. Frame(buf) \in Seq(Nat) /\ Len(Frame(buf)) = Spf
  BY <1>1, FrameType
<1>6. /\ Written(relieved, Frame(buf)) \in Buffers
      /\ Written(relieved, Frame(buf)).len = IF Spf > MaxCnt - relieved.len
                                             THEN relieved.len
                                             ELSE relieved.len + Spf
  BY <1>4, <1>5, WrittenType
<1>7. buf' \in Buffers /\ buf'.len = Written(relieved, Frame(buf)).len
  BY <1>3, <1>6, RenumberedType
<1>8. ~(buf'.len < Spf)
  BY SMT, <1>4, <1>6, <1>7, FieldTypes, Sizes
<1>9. wsola' \in BOOLEAN /\ last_op' \in {"put", "get"}
  BY <1>1 DEF Put
<1>10. TypeOK'
  BY <1>7, <1>9 DEF TypeOK, Buffers, Fillings, Lengths
<1>11. QED
  BY <1>8, <1>10 DEF IInv, RoomBehind

\* What a get leaves has the room of the frame it took.
LEMMA ReadFrameInv ==
  ASSUME NEW b \in Buffers, b.len >= Spf, ReadFrame(b)
  PROVE  buf' \in Buffers /\ RoomBehind(buf')
<1>1. ~(Spf > b.len)
  BY SMT, FieldTypes, Sizes
<1>2. buf' = Renumbered(AdvRead(b, Spf))
  BY <1>1 DEF ReadFrame
<1>3. /\ AdvRead(b, Spf) \in Buffers
      /\ AdvRead(b, Spf).len = IF Spf >= b.len THEN 0 ELSE b.len - Spf
  BY AdvReadType, Sizes
<1>4. buf' \in Buffers /\ buf'.len = AdvRead(b, Spf).len
  BY <1>2, <1>3, RenumberedType
<1>5. buf'.len + Spf <= MaxCnt
  BY SMT, <1>1, <1>3, <1>4, FieldTypes, Sizes
<1>6. QED
  BY <1>4, <1>5 DEF RoomBehind

LEMMA GetInv == IInv /\ Get => IInv'
<1> SUFFICES ASSUME IInv, Get PROVE IInv'
  OBVIOUS
<1>1. wsola \in BOOLEAN /\ buf \in Buffers /\ last_op \in {"put", "get"}
  BY BufType DEF IInv
<1> SUFFICES buf' \in Buffers /\ RoomBehind(buf')
  <2>1. wsola' \in BOOLEAN /\ last_op' \in {"put", "get"}
    BY <1>1 DEF Get
  <2>2. QED
    BY <2>1 DEF IInv, TypeOK, RoomBehind, Buffers, Fillings, Lengths
<1>2. CASE buf.len >= Spf /\ ReadFrame(buf)
  BY <1>1, <1>2, ReadFrameInv
<1>3. CASE wsola /\ buf.len = 0 /\ taken' = << >> /\ UNCHANGED buf
  BY <1>1, <1>3 DEF IInv, RoomBehind
<1>4. CASE wsola /\ buf.len \in 1 .. Spf - 1 /\ ReadFrame(Written(buf, Frame(buf)))
  <2>1. Frame(buf) \in Seq(Nat) /\ Len(Frame(buf)) = Spf
    BY <1>1, FrameType
  <2>2. /\ Written(buf, Frame(buf)) \in Buffers
        /\ Written(buf, Frame(buf)).len = IF Spf > MaxCnt - buf.len THEN buf.len
                                          ELSE buf.len + Spf
    BY <1>1, <2>1, WrittenType
  <2>3. buf.len < Spf
    BY SMT, <1>1, <1>4, FieldTypes, Sizes
  <2>4. buf.len + Spf <= MaxCnt
    BY <2>3 DEF IInv, RoomBehind
  <2>5. Written(buf, Frame(buf)).len >= Spf
    BY SMT, <1>1, <2>2, <2>4, FieldTypes, Sizes
  <2>6. QED
    BY <1>4, <2>2, <2>5, ReadFrameInv
<1>5. CASE ~wsola /\ buf.len < Spf /\ buf' = Renumbered(Reset(buf))
  <2>1. buf' \in Buffers /\ buf'.len = 0
    BY <1>1, <1>5, ResetType, RenumberedType
  <2>2. buf'.len + Spf <= MaxCnt
    BY SMT, <2>1, Sizes
  <2>3. QED
    BY <2>1, <2>2 DEF RoomBehind
<1>6. QED
  BY <1>2, <1>3, <1>4, <1>5 DEF Get

LEMMA ResetInv == IInv /\ DelayReset => IInv'
<1> SUFFICES ASSUME IInv, DelayReset PROVE IInv'
  OBVIOUS
<1>1. wsola \in BOOLEAN /\ buf \in Buffers /\ last_op \in {"put", "get"}
  BY BufType DEF IInv
<1>2. buf' \in Buffers /\ buf'.len = 0
  BY <1>1, ResetType, RenumberedType DEF DelayReset
<1>3. buf'.len + Spf <= MaxCnt
  BY SMT, <1>2, Sizes
<1>4. wsola' \in BOOLEAN /\ last_op' \in {"put", "get"}
  BY <1>1 DEF DelayReset
<1>5. QED
  BY <1>2, <1>3, <1>4 DEF IInv, TypeOK, RoomBehind, Buffers, Fillings, Lengths

LEMMA Inductive == Spec => []IInv
<1>1. IInv /\ UNCHANGED vars => IInv'
  BY DEF IInv, TypeOK, RoomBehind, vars
<1>2. IInv /\ [Next]_vars => IInv'
  BY <1>1, PutInv, GetInv, ResetInv DEF Next
<1>3. QED
  BY <1>2, InitInv, PTL DEF Spec

\* The pointers never leave the cells and the length never exceeds them, for
\* every size of the buffer and of a frame (circbuf.h:158-336, wsola.c:936-1045).
THEOREM WithinCells == Spec => []TypeOK
<1>1. IInv => TypeOK
  BY DEF IInv
<1>2. QED
  BY <1>1, Inductive, PTL

\* put always finds room for its frame and get for the one it makes up, so that
\* the statuses nobody looks at are all PJ_SUCCESS (delaybuf.c:284-317, 336-378).
THEOREM Accepted == Spec => []NoFrameRefused
<1>1. IInv => NoFrameRefused
  <2> SUFFICES ASSUME IInv PROVE NoFrameRefused
    OBVIOUS
  <2>1. buf \in Buffers
    BY BufType DEF IInv
  <2>2. ASSUME NEW updated \in Updated(buf), NEW relieved \in Relieved(updated)
        PROVE  relieved.len + Spf <= MaxCnt
    BY <2>1, UpdatedType, RelievedType
  <2>3. QED
    BY <2>2 DEF IInv, RoomBehind, NoFrameRefused
<1>2. QED
  BY <1>1, Inductive, PTL

-----------------------------------------------------------------------------
(* The samples stay in the order of their age *)

\* The k-th of the samples in the buffer
Sample(b, k) == b.cells[Around(b.start + k - 1)]

\* The samples are in the order of their age, and none is older than m says.
Aged(b, m) ==
  /\ \A k \in 1 .. b.len : Sample(b, k) \in 1 .. m
  /\ \A j, k \in 1 .. b.len : j < k => Sample(b, j) < Sample(b, k)

\* Going round from the start of the buffer and back
LEMMA Places ==
  ASSUME NEW b \in Buffers
  PROVE  /\ \A k \in 1 .. b.len :
              /\ Around(b.start + k - 1) \in Cells
              /\ Offset(Around(b.start + k - 1), b.start) = k - 1
         /\ \A i \in Cells : Offset(i, b.start) < b.len =>
              /\ Offset(i, b.start) + 1 \in 1 .. b.len
              /\ Around(b.start + (Offset(i, b.start) + 1) - 1) = i
<1> USE Sizes
<1>1. b.start \in 0 .. MaxCnt - 1 /\ b.len \in 0 .. MaxCnt
  BY FieldTypes
<1>2. ASSUME NEW k \in 1 .. b.len
      PROVE  /\ Around(b.start + k - 1) \in Cells
             /\ Offset(Around(b.start + k - 1), b.start) = k - 1
  BY <1>1, SMT DEF Around, Offset, Cells
<1>3. ASSUME NEW i \in Cells, Offset(i, b.start) < b.len
      PROVE  /\ Offset(i, b.start) + 1 \in 1 .. b.len
             /\ Around(b.start + (Offset(i, b.start) + 1) - 1) = i
  BY <1>1, <1>3, SMT DEF Around, Offset, Cells
<1>4. QED
  BY <1>2, <1>3

\* Numbered anew, the samples are 1, 2, 3 ...
LEMMA RenumberedOrder ==
  ASSUME NEW b \in Buffers, NEW m \in Nat, Aged(b, m)
  PROVE  Contents(Renumbered(b)) = Abstract!Ordered(b.len)
<1> DEFINE held    == {i \in Cells : Offset(i, b.start) < b.len}
           samples == {b.cells[i] : i \in held} \ {0}
           Age(s)  == Cardinality({r \in samples : r <= s})
           cells   == [i \in Cells |-> IF i \in held THEN Age(b.cells[i]) ELSE 0]
<1>1. b.len \in Nat
  BY FieldTypes
<1>2. ASSUME NEW k \in 1 .. b.len PROVE Around(b.start + k - 1) \in held
  <2>1. /\ Around(b.start + k - 1) \in Cells
        /\ Offset(Around(b.start + k - 1), b.start) = k - 1
    BY Places
  <2>2. k - 1 < b.len
    BY <1>1
  <2>3. QED
    BY <2>1, <2>2
<1>3. samples = {Sample(b, k) : k \in 1 .. b.len}
  <2>1. ASSUME NEW s \in samples PROVE \E k \in 1 .. b.len : s = Sample(b, k)
    <3>1. PICK i \in held : s = b.cells[i]
      OBVIOUS
    <3>2. /\ Offset(i, b.start) + 1 \in 1 .. b.len
          /\ Around(b.start + (Offset(i, b.start) + 1) - 1) = i
      BY Places
    <3>3. s = Sample(b, Offset(i, b.start) + 1)
      BY <3>1, <3>2 DEF Sample
    <3>4. QED
      BY <3>2, <3>3
  <2>2. ASSUME NEW k \in 1 .. b.len PROVE Sample(b, k) \in samples
    <3>1. Sample(b, k) # 0
      BY DEF Aged
    <3>2. QED
      BY <3>1, <1>2 DEF Sample
  <2> HIDE DEF samples
  <2>3. QED
    BY <2>1, <2>2
<1>4. ASSUME NEW k \in 1 .. b.len PROVE Age(Sample(b, k)) = k
  <2> DEFINE younger == {r \in samples : r <= Sample(b, k)}
             f == [j \in 1 .. k |-> Sample(b, j)]
  <2>1. k \in Nat /\ 1 .. k \subseteq 1 .. b.len
    BY <1>1
  <2>2. \A j \in 1 .. b.len : Sample(b, j) \in Nat
    BY DEF Aged
  <2>3. \A j \in 1 .. k : Sample(b, j) \in younger
    <3>1. TAKE j \in 1 .. k
    <3>2. j = k \/ j < k
      OBVIOUS
    <3>3. Sample(b, j) <= Sample(b, k)
      BY <2>1, <2>2, <3>2 DEF Aged
    <3>4. QED
      BY <1>3, <2>1, <3>3
  <2>4. \A r \in younger : \E j \in 1 .. k : r = Sample(b, j)
    <3>1. TAKE r \in younger
    <3>2. PICK j \in 1 .. b.len : r = Sample(b, j)
      BY <1>3
    <3>3. j <= k
      BY <1>1, <2>2, <3>2 DEF Aged
    <3>4. QED
      BY <3>2, <3>3, <1>1
  <2>5. \A i, j \in 1 .. k : f[i] = f[j] => i = j
    BY <2>1, <2>2 DEF Aged
  <2> HIDE DEF younger
  <2>6. f \in Bijection(1 .. k, younger)
    <3>1. f \in [1 .. k -> younger]
      BY <2>3
    <3>2. \A r \in younger : \E j \in 1 .. k : f[j] = r
      BY <2>4
    <3> HIDE DEF f
    <3>3. QED
      BY <2>5, <3>1, <3>2 DEF Bijection, Injection, Surjection, IsInjective
  <2>7. Cardinality(younger) = k
    <3>1. ExistsBijection(1 .. k, younger)
      BY <2>6 DEF ExistsBijection
    <3>2. QED
      BY <2>1, <3>1, FS_CountingElements
  <2>8. QED
    BY <2>7 DEF younger
<1>5. Renumbered(b) = [b EXCEPT !.cells = cells]
  BY DEF Renumbered
<1>6. ASSUME NEW k \in 1 .. b.len
      PROVE  Renumbered(b).cells[Around(Renumbered(b).start + k - 1)] = k
  <2>1. /\ Renumbered(b).cells = cells /\ Renumbered(b).start = b.start
    <3> HIDE DEF cells
    <3>1. QED
      BY <1>5 DEF Buffers
  <2>2. Around(b.start + k - 1) \in Cells /\ Around(b.start + k - 1) \in held
    BY <1>2
  <2> HIDE DEF held, Age
  <2>3. cells[Around(b.start + k - 1)] = Age(Sample(b, k))
    BY <2>2 DEF Sample
  <2>4. QED
    BY <2>1, <2>3, <1>4
<1>7. Renumbered(b).len = b.len
  BY RenumberedType
<1> HIDE DEF held, samples, Age, cells
<1>8. QED
  BY <1>6, <1>7 DEF Contents, Abstract!Ordered

-----------------------------------------------------------------------------
(* Samples joining and leaving at the ends *)

\* Without some of them, the samples are in order still.
LEMMA LessAged ==
  ASSUME NEW b \in Buffers, NEW c \in Buffers, NEW m \in Nat, Aged(b, m),
         NEW h \in Nat, NEW d \in Nat, c.len + d <= b.len,
         \A k \in 1 .. c.len :
           Sample(c, k) = IF k <= h THEN Sample(b, k) ELSE Sample(b, k + d)
  PROVE  Aged(c, m)
<1>1. b.len \in Nat /\ c.len \in Nat
  BY FieldTypes
<1>2. \A k \in 1 .. b.len : Sample(b, k) \in Nat
  BY DEF Aged
<1>3. ASSUME NEW k \in 1 .. c.len PROVE Sample(c, k) \in 1 .. m
  BY <1>1, <1>3 DEF Aged
<1>4. ASSUME NEW j \in 1 .. c.len, NEW k \in 1 .. c.len, j < k
      PROVE  Sample(c, j) < Sample(c, k)
  <2> DEFINE p == IF j <= h THEN j ELSE j + d
             q == IF k <= h THEN k ELSE k + d
  <2>1. p \in 1 .. b.len /\ q \in 1 .. b.len /\ p < q
    BY <1>1, <1>4
  <2>2. Sample(c, j) = Sample(b, p) /\ Sample(c, k) = Sample(b, q)
    OBVIOUS
  <2> HIDE DEF p, q
  <2>3. QED
    BY <2>1, <2>2 DEF Aged
<1>5. QED
  BY <1>3, <1>4 DEF Aged

\* The eldest samples go.
LEMMA AdvReadAged ==
  ASSUME NEW b \in Buffers, NEW m \in Nat, Aged(b, m), NEW count \in Nat
  PROVE  Aged(AdvRead(b, count), m)
<1> DEFINE c == AdvRead(b, count)
<1> SUFFICES Aged(c, m)
  OBVIOUS
<1>1. c \in Buffers /\ c.len = IF count >= b.len THEN 0 ELSE b.len - count
  BY AdvReadType
<1>2. CASE count >= b.len
  <2>1. 1 .. c.len = {}
    BY <1>1, <1>2
  <2> HIDE DEF c
  <2>2. QED
    BY <2>1 DEF Aged
<1>3. CASE ~(count >= b.len)
  <2>1. c = [b EXCEPT !.start = Around(b.start + count), !.len = b.len - count]
    BY <1>3 DEF AdvRead
  <2>2. c.start = Around(b.start + count) /\ c.cells = b.cells
    <3> HIDE DEF c
    <3>1. QED
      BY <2>1 DEF Buffers
  <2>3. b.start \in 0 .. MaxCnt - 1 /\ b.len \in 0 .. MaxCnt
    BY FieldTypes, Sizes
  <2>4. c.len = b.len - count
    BY <1>1, <1>3
  <2> HIDE DEF c
  <2>5. ASSUME NEW k \in 1 .. c.len
        PROVE  Sample(c, k) = Sample(b, k + count)
    <3>1. Around(Around(b.start + count) + k - 1) = Around(b.start + (k + count) - 1)
      BY <1>3, <2>3, <2>4, Sizes, SMT DEF Around
    <3>2. QED
      BY <2>2, <3>1 DEF Sample
  <2>6. c.len + count <= b.len
    BY <2>3, <2>4
  <2>7. \A k \in 1 .. c.len :
          Sample(c, k) = IF k <= 0 THEN Sample(b, k) ELSE Sample(b, k + count)
    BY <1>1, <2>5
  <2>8. QED
    BY <1>1, <2>6, <2>7, LessAged
<1>4. QED
  BY <1>2, <1>3

\* Where the samples of the buffer and those of a frame behind them lie
LEMMA BehindEnd ==
  ASSUME NEW start \in Cells, NEW len \in 0 .. MaxCnt, len + Spf <= MaxCnt
  PROVE  /\ \A k \in 1 .. len :
              /\ Around(start + k - 1) \in Cells
              /\ ~(Offset(Around(start + k - 1), Around(start + len)) < Spf)
         /\ \A k \in len + 1 .. len + Spf :
              /\ Around(start + k - 1) \in Cells
              /\ Offset(Around(start + k - 1), Around(start + len)) = k - len - 1
<1>0. MaxCnt \in Nat /\ Spf \in Nat /\ start \in 0 .. MaxCnt - 1
  BY Sizes DEF Cells
<1>1. ASSUME NEW k \in 1 .. len
      PROVE  /\ Around(start + k - 1) \in Cells
             /\ ~(Offset(Around(start + k - 1), Around(start + len)) < Spf)
  BY <1>0, SMT DEF Around, Offset, Cells
<1>2. ASSUME NEW k \in len + 1 .. len + Spf
      PROVE  /\ Around(start + k - 1) \in Cells
             /\ Offset(Around(start + k - 1), Around(start + len)) = k - len - 1
  BY <1>0, SMT DEF Around, Offset, Cells
<1>3. QED
  BY <1>1, <1>2

\* A frame of younger ones comes behind them.
LEMMA WrittenAged ==
  ASSUME NEW b \in Buffers, NEW m \in Nat, Aged(b, m), b.len + Spf <= MaxCnt,
         NEW frame \in Seq(Nat), Len(frame) = Spf,
         \A k \in 1 .. Spf : frame[k] = m + k
  PROVE  Aged(Written(b, frame), m + Spf)
<1> DEFINE end == Around(b.start + b.len)
           cells == [i \in Cells |-> IF Offset(i, end) < Spf
                                     THEN frame[Offset(i, end) + 1]
                                     ELSE b.cells[i]]
           w == Written(b, frame)
<1>1. b.start \in 0 .. MaxCnt - 1 /\ b.len \in 0 .. MaxCnt
  BY FieldTypes, Sizes
<1>2. ~(Spf > MaxCnt - b.len)
  BY <1>1, Sizes
<1>a. MaxCnt \in Nat /\ Spf \in Nat
  BY Sizes
<1>3. w = [b EXCEPT !.cells = cells, !.len = b.len + Spf]
  BY <1>2 DEF Written
<1>4. w.cells = cells /\ w.start = b.start /\ w.len = b.len + Spf
  <2> HIDE DEF cells, w
  <2>1. QED
    BY <1>3 DEF Buffers
<1>5. ASSUME NEW k \in 1 .. b.len
      PROVE  Sample(w, k) = Sample(b, k)
  <2>1. /\ Around(b.start + k - 1) \in Cells
        /\ ~(Offset(Around(b.start + k - 1), end) < Spf)
    BY <1>1, BehindEnd, FieldTypes
  <2> HIDE DEF end, w
  <2>2. cells[Around(b.start + k - 1)] = b.cells[Around(b.start + k - 1)]
    BY <2>1
  <2>3. QED
    BY <1>4, <2>2 DEF Sample
<1>6. ASSUME NEW k \in b.len + 1 .. b.len + Spf
      PROVE  Sample(w, k) = m + (k - b.len)
  <2>1. /\ Around(b.start + k - 1) \in Cells
        /\ Offset(Around(b.start + k - 1), end) = k - b.len - 1
    BY <1>1, BehindEnd, FieldTypes
  <2>2. k - b.len - 1 < Spf /\ (k - b.len - 1) + 1 = k - b.len /\ k - b.len \in 1 .. Spf
    BY <1>1, Sizes, SMTT(30)
  <2> HIDE DEF end, w
  <2>3. cells[Around(b.start + k - 1)] = frame[k - b.len]
    BY <2>1, <2>2
  <2>4. QED
    BY <1>4, <2>2, <2>3 DEF Sample
<1> HIDE DEF w
<1>7. \A k \in 1 .. b.len : Sample(b, k) \in 1 .. m
  BY DEF Aged
<1>8. ASSUME NEW k \in 1 .. w.len PROVE Sample(w, k) \in 1 .. m + Spf
  <2>1. CASE k <= b.len
    BY <1>1, <1>5, <1>7, <2>1, Sizes
  <2>2. CASE ~(k <= b.len)
    <3>1. k \in b.len + 1 .. b.len + Spf
      BY <1>1, <1>4, <2>2, Sizes
    <3>2. Sample(w, k) = m + (k - b.len)
      BY <1>6, <3>1
    <3>3. m + (k - b.len) \in 1 .. m + Spf
      BY <1>1, <1>a, <3>1, SMTT(30)
    <3>4. QED
      BY <3>2, <3>3
  <2>3. QED
    BY <2>1, <2>2
<1>9. ASSUME NEW j \in 1 .. w.len, NEW k \in 1 .. w.len, j < k
      PROVE  Sample(w, j) < Sample(w, k)
  <2>1. CASE k <= b.len
    <3>1. j \in 1 .. b.len /\ k \in 1 .. b.len
      BY <1>1, <1>4, <1>9, <2>1, Sizes
    <3>2. QED
      BY <1>5, <1>9, <3>1 DEF Aged
  <2>2. CASE j <= b.len /\ ~(k <= b.len)
    <3>1. j \in 1 .. b.len /\ k \in b.len + 1 .. b.len + Spf
      BY <1>1, <1>4, <2>2, Sizes
    <3>2. Sample(w, j) \in 1 .. m /\ Sample(w, k) = m + (k - b.len)
      BY <1>5, <1>6, <1>7, <3>1
    <3>3. QED
      BY <1>1, <3>1, <3>2
  <2>3. CASE ~(j <= b.len)
    <3>1. j \in b.len + 1 .. b.len + Spf /\ k \in b.len + 1 .. b.len + Spf
      BY <1>1, <1>4, <1>9, <2>3, Sizes
    <3>2. Sample(w, j) = m + (j - b.len) /\ Sample(w, k) = m + (k - b.len)
      BY <1>6, <3>1
    <3>3. QED
      BY <1>1, <1>9, <3>1, <3>2
  <2>4. QED
    BY <2>1, <2>2, <2>3
<1>10. QED
  BY <1>8, <1>9 DEF Aged, w

-----------------------------------------------------------------------------
(* WSOLA cuts the samples out *)

LEMMA ShorterFields ==
  ASSUME NEW b \in Buffers, NEW cells, NEW d \in Nat, d <= b.len
  PROVE  /\ Shorter(b, cells, d).cells = cells
         /\ Shorter(b, cells, d).start = b.start
         /\ Shorter(b, cells, d).len = b.len - d
BY DEF Shorter, Buffers

\* WSOLA cuts in the first region, and there is no other.
LEMMA CutUnwrapped ==
  ASSUME NEW s \in Cells, NEW len \in 0 .. MaxCnt, s + len <= MaxCnt,
         NEW cells \in Fillings, NEW d \in 0 .. len, NEW k \in 1 .. len - d
  PROVE  Moved(cells, s, s + d, len - d)[Around(s + k - 1)]
           = cells[Around(s + (k + d) - 1)]
<1>1. MaxCnt \in Nat /\ s \in 0 .. MaxCnt - 1
  BY Sizes DEF Cells
<1> DEFINE i == s + k - 1
<1>2. /\ Around(s + k - 1) = i /\ Around(s + (k + d) - 1) = i - s + (s + d)
      /\ i \in Cells /\ i \in s .. s + (len - d) - 1
  BY <1>1, SMT DEF Around, Cells
<1> HIDE DEF i
<1>3. QED
  BY <1>2 DEF Moved

\* It cuts in the second region.
LEMMA CutSecond ==
  ASSUME NEW s \in Cells, NEW len \in 0 .. MaxCnt, s + len > MaxCnt,
         NEW n1, n1 = MaxCnt - s, NEW n2, n2 = len - n1,
         NEW cells \in Fillings, NEW d \in 0 .. n2, NEW k \in 1 .. len - d
  PROVE  Moved(cells, 0, 0 + d, n2 - d)[Around(s + k - 1)]
           = IF k <= n1 THEN cells[Around(s + k - 1)] ELSE cells[Around(s + (k + d) - 1)]
<1>1. MaxCnt \in Nat /\ s \in 0 .. MaxCnt - 1
  BY Sizes DEF Cells
<1>2. CASE k <= n1
  <2>1. Around(s + k - 1) \in Cells /\ Around(s + k - 1) \notin 0 .. 0 + (n2 - d) - 1
    BY <1>1, <1>2, SMT DEF Around, Cells
  <2>2. QED
    BY <1>2, <2>1 DEF Moved
<1>3. CASE ~(k <= n1)
  <2>1. /\ Around(s + k - 1) \in Cells /\ Around(s + k - 1) \in 0 .. 0 + (n2 - d) - 1
        /\ Around(s + (k + d) - 1) = Around(s + k - 1) - 0 + (0 + d)
    BY <1>1, <1>3, SMT DEF Around, Cells
  <2>2. QED
    BY <1>3, <2>1 DEF Moved
<1>4. QED
  BY <1>2, <1>3

\* It cuts in the first region, and the second one moves up behind that.
LEMMA CutFirst ==
  ASSUME NEW s \in Cells, NEW len \in 0 .. MaxCnt, s + len > MaxCnt,
         NEW n1, n1 = MaxCnt - s, NEW n2, n2 = len - n1,
         NEW cells \in Fillings, NEW d \in 0 .. n1, NEW k \in 1 .. len - d
  PROVE  MovedUp(Moved(cells, s, s + d, n1 - d), d, n2)[Around(s + k - 1)]
           = cells[Around(s + (k + d) - 1)]
<1>1. MaxCnt \in Nat /\ s \in 0 .. MaxCnt - 1
  BY Sizes DEF Cells
<1> DEFINE first == Moved(cells, s, s + d, n1 - d)
           l == Least(d, n2)
           second == Moved(first, MaxCnt - d, 0, l)
           third == Moved(second, 0, d, n2 - l)
<1>2. l \in Int /\ l <= d /\ l <= n2 /\ 0 <= l /\ (l = d \/ l = n2)
  BY <1>1, SMT DEF Least
<1>3. MovedUp(first, d, n2) = third
  BY DEF MovedUp
<1>4. \A i \in Cells :
        first[i] = IF i \in s .. s + (n1 - d) - 1 THEN cells[i - s + (s + d)] ELSE cells[i]
  BY DEF Moved
<1>5. \A i \in Cells :
        second[i] = IF i \in MaxCnt - d .. MaxCnt - d + l - 1
                    THEN first[i - (MaxCnt - d) + 0] ELSE first[i]
  BY DEF Moved
<1>6. \A i \in Cells :
        third[i] = IF i \in 0 .. 0 + (n2 - l) - 1 THEN second[i - 0 + d] ELSE second[i]
  BY DEF Moved
<1> HIDE DEF first, second, third, l
<1>7. CASE k <= n1 - d
  <2> DEFINE i == s + k - 1
  <2>1. /\ Around(s + k - 1) = i /\ i \in Cells /\ i \notin 0 .. 0 + (n2 - l) - 1
        /\ i \notin MaxCnt - d .. MaxCnt - d + l - 1 /\ i \in s .. s + (n1 - d) - 1
        /\ Around(s + (k + d) - 1) = i - s + (s + d)
    BY <1>1, <1>2, <1>7, SMT DEF Around, Cells
  <2> HIDE DEF i
  <2>2. QED
    BY <1>3, <1>4, <1>5, <1>6, <2>1 DEF first
<1>8. CASE k > n1 - d /\ k <= n1 - d + l
  <2> DEFINE i == s + k - 1  j == i - (MaxCnt - d) + 0
  <2>1. /\ Around(s + k - 1) = i /\ i \in Cells /\ i \notin 0 .. 0 + (n2 - l) - 1
        /\ i \in MaxCnt - d .. MaxCnt - d + l - 1
        /\ j \in Cells /\ j \notin s .. s + (n1 - d) - 1
        /\ Around(s + (k + d) - 1) = j
    BY <1>1, <1>2, <1>8, SMT DEF Around, Cells
  <2>2. third[i] = first[j]
    BY <1>5, <1>6, <2>1
  <2> HIDE DEF i, j
  <2>3. QED
    BY <1>3, <1>4, <2>1, <2>2 DEF first
<1>9. CASE k > n1 - d + l
  <2> DEFINE i == s + k - 1 - MaxCnt  j == i - 0 + d
  <2>1. l = d
    BY <1>1, <1>2, <1>9, SMT
  <2>2. /\ Around(s + k - 1) = i /\ i \in Cells /\ i \in 0 .. 0 + (n2 - l) - 1
        /\ j \in Cells /\ j \notin MaxCnt - d .. MaxCnt - d + l - 1
        /\ j \notin s .. s + (n1 - d) - 1
        /\ Around(s + (k + d) - 1) = j
    BY <1>1, <1>2, <1>9, <2>1, SMT DEF Around, Cells
  <2>3. third[i] = second[j]
    BY <1>6, <2>2
  <2> HIDE DEF i, j
  <2>4. QED
    BY <1>3, <1>4, <1>5, <2>2, <2>3 DEF first
<1>10. QED
  BY <1>1, <1>2, <1>7, <1>8, <1>9

\* Wherever WSOLA cuts, the rest stays in order.
LEMMA DiscardedAged ==
  ASSUME NEW b \in Buffers, NEW m \in Nat, Aged(b, m),
         NEW del \in Nat, NEW c \in Discarded(b, del)
  PROVE  Aged(c, m) /\ c.len <= b.len
<1> DEFINE n1 == FirstRegion(b)
           n2 == b.len - n1
           there == Least(b.len, EraseSize)
<1>0. /\ MaxCnt \in Nat /\ b.start \in Cells /\ b.start \in 0 .. MaxCnt - 1
      /\ b.len \in 0 .. MaxCnt /\ b.cells \in Fillings /\ EraseSize \in Nat
  BY FieldTypes, Sizes DEF Fillings, Cells
<1>1. /\ n1 \in Nat /\ n2 \in Nat /\ n1 <= b.len /\ n2 <= b.len
      /\ there \in Nat /\ there <= b.len
      /\ n2 = 0 => n1 = b.len /\ b.start + b.len <= MaxCnt
      /\ n2 # 0 => n1 = MaxCnt - b.start /\ b.start + b.len > MaxCnt
  BY <1>0, SMT DEF FirstRegion, Least
<1>2. c \in Buffers
  BY DiscardedType
<1> SUFFICES \E h \in Nat, d \in Nat :
               /\ c.len + d <= b.len
               /\ \A k \in 1 .. c.len :
                    Sample(c, k) = IF k <= h THEN Sample(b, k) ELSE Sample(b, k + d)
  <2>1. PICK h \in Nat, d \in Nat :
               /\ c.len + d <= b.len
               /\ \A k \in 1 .. c.len :
                    Sample(c, k) = IF k <= h THEN Sample(b, k) ELSE Sample(b, k + d)
    OBVIOUS
  <2>2. Aged(c, m)
    BY <1>2, <2>1, LessAged, ZenonT(60)
  <2>3. c.len \in Nat
    BY <1>2, FieldTypes
  <2>4. QED
    BY <1>0, <2>1, <2>2, <2>3
<1>3. CASE n2 = 0
  <2>1. PICK d \in Distances(n1, del) :
          c = Shorter(b, Compressed(b, b.start, n1, d), d)
    BY <1>3 DEF Discarded
  <2> HIDE DEF n1, n2
  <2>2. d \in Nat /\ d <= n1
    BY <1>1, <2>1, DistancesType
  <2>3. d \in 0 .. b.len /\ d <= b.len
    BY <1>0, <1>1, <2>2
  <2>4. /\ c.cells = Moved(b.cells, b.start, b.start + d, b.len - d)
        /\ c.start = b.start /\ c.len = b.len - d
    BY <1>1, <1>3, <2>1, <2>2, <2>3, ShorterFields DEF Compressed
  <2>5. ASSUME NEW k \in 1 .. c.len PROVE Sample(c, k) = Sample(b, k + d)
    BY <1>0, <1>1, <1>3, <2>3, <2>4, CutUnwrapped DEF Sample
  <2>6. \A k \in 1 .. c.len :
          Sample(c, k) = IF k <= 0 THEN Sample(b, k) ELSE Sample(b, k + d)
    BY <1>0, <2>2, <2>4, <2>5
  <2>7. c.len + d <= b.len
    BY <1>0, <2>2, <2>4
  <2>8. QED
    BY <2>2, <2>6, <2>7
<1>4. CASE n2 # 0 /\ n2 >= EraseSize
  <2>1. PICK d \in Distances(n2, del) : c = Shorter(b, Compressed(b, 0, n2, d), d)
    BY <1>4 DEF Discarded
  <2> HIDE DEF n1
  <2>2. d \in Nat /\ d <= n2
    BY <1>1, <2>1, DistancesType
  <2>3. d \in 0 .. n2 /\ d <= b.len
    BY <1>0, <1>1, <2>2
  <2>4. /\ c.cells = Moved(b.cells, 0, 0 + d, n2 - d)
        /\ c.start = b.start /\ c.len = b.len - d
    BY <2>1, <2>2, <2>3, ShorterFields DEF Compressed
  <2>5. ASSUME NEW k \in 1 .. c.len
        PROVE  Sample(c, k) = IF k <= n1 THEN Sample(b, k) ELSE Sample(b, k + d)
    BY <1>0, <1>1, <1>4, <2>3, <2>4, CutSecond DEF Sample
  <2>6. c.len + d <= b.len
    BY <1>0, <2>2, <2>4
  <2>7. QED
    BY <1>1, <2>2, <2>5, <2>6
<1>5. CASE n2 # 0 /\ ~(n2 >= EraseSize) /\ n1 >= EraseSize
  <2>1. PICK d \in Distances(n1, del) :
          c = Shorter(b, MovedUp(Compressed(b, b.start, n1, d), d, n2), d)
    BY <1>5 DEF Discarded
  <2> HIDE DEF n1
  <2>2. d \in Nat /\ d <= n1
    BY <1>1, <2>1, DistancesType
  <2>3. d \in 0 .. n1 /\ d <= b.len
    BY <1>0, <1>1, <2>2
  <2>4. /\ c.cells = MovedUp(Moved(b.cells, b.start, b.start + d, n1 - d), d, n2)
        /\ c.start = b.start /\ c.len = b.len - d
    BY <2>1, <2>2, <2>3, ShorterFields DEF Compressed
  <2>5. ASSUME NEW k \in 1 .. c.len PROVE Sample(c, k) = Sample(b, k + d)
    BY <1>0, <1>1, <1>5, <2>3, <2>4, CutFirst DEF Sample
  <2>6. \A k \in 1 .. c.len :
          Sample(c, k) = IF k <= 0 THEN Sample(b, k) ELSE Sample(b, k + d)
    BY <1>0, <2>2, <2>4, <2>5
  <2>7. c.len + d <= b.len
    BY <1>0, <2>2, <2>4
  <2>8. QED
    BY <2>2, <2>6, <2>7
<1>6. CASE n2 # 0 /\ ~(n2 >= EraseSize) /\ ~(n1 >= EraseSize)
  <2>1. PICK d \in Distances(there, del) : c = Shorter(b, Joined(b, d), d)
    BY <1>6 DEF Discarded
  <2> HIDE DEF n1, n2, there
  <2>2. d \in Nat /\ d <= there
    BY <1>1, <2>1, DistancesType
  <2>3. d <= b.len
    BY <1>0, <1>1, <2>2
  <2>4. c.cells = Joined(b, d) /\ c.start = b.start /\ c.len = b.len - d
    BY <2>1, <2>2, <2>3, ShorterFields
  <2>5. ASSUME NEW k \in 1 .. c.len PROVE Sample(c, k) = Sample(b, k + d)
    <3> DEFINE i == Around(b.start + k - 1)
    <3>1. k \in 1 .. b.len /\ k - 1 < b.len - d
      BY <1>0, <2>2, <2>4
    <3>2. i \in Cells /\ Offset(i, b.start) = k - 1
      BY <3>1, Places
    <3> HIDE DEF i
    <3>3. Joined(b, d)[i] = b.cells[Around(b.start + (k - 1) + d)]
      BY <3>1, <3>2 DEF Joined
    <3>4. b.start + (k - 1) + d = b.start + (k + d) - 1
      BY <1>0, <2>2
    <3>5. QED
      BY <2>4, <3>3, <3>4 DEF Sample, i
  <2>6. \A k \in 1 .. c.len :
          Sample(c, k) = IF k <= 0 THEN Sample(b, k) ELSE Sample(b, k + d)
    BY <1>0, <2>2, <2>4, <2>5
  <2>7. c.len + d <= b.len
    BY <1>0, <2>2, <2>4
  <2>8. QED
    BY <2>2, <2>6, <2>7
<1>7. QED
  BY <1>3, <1>4, <1>5, <1>6

-----------------------------------------------------------------------------
(* The order through a put *)

\* Before a put the samples stay in order, and all of them stay when the buffer
\* is not crowded.
LEMMA RelievedAged ==
  ASSUME NEW b \in Buffers, NEW m \in Nat, Aged(b, m),
         NEW updated \in Updated(b), NEW relieved \in Relieved(updated)
  PROVE  /\ Aged(relieved, m) /\ relieved.len <= b.len
         /\ ~(b.len > Spf + EffCnt) /\ ~(b.len + Spf > MaxCnt) => relieved = b
<1>0. MaxCnt \in Nat /\ Spf \in Nat /\ Spf \div 2 \in Nat /\ b.len \in Nat
  BY Sizes, FieldTypes
<1>1. updated \in Buffers
  BY UpdatedType
<1>2. Aged(updated, m) /\ updated.len <= b.len
  <2>1. CASE wsola /\ last_op = "get" /\ b.len > Spf + EffCnt
    BY <1>0, <2>1, DiscardedAged DEF Updated
  <2>2. CASE ~(wsola /\ last_op = "get" /\ b.len > Spf + EffCnt)
    BY <1>0, <2>2 DEF Updated
  <2>3. QED
    BY <2>1, <2>2
<1>3. updated.len \in Nat
  BY <1>1, FieldTypes
<1>4. PICK r \in IF wsola /\ Excess(updated) > 0
                 THEN Discarded(updated, Excess(updated)) ELSE {updated} :
        relieved = IF Excess(r) > 0 THEN AdvRead(r, Excess(r)) ELSE r
  BY DEF Relieved
<1>5. r \in Buffers /\ Aged(r, m) /\ r.len <= updated.len
  <2>1. CASE wsola /\ Excess(updated) > 0
    <3>1. Excess(updated) \in Nat
      BY <1>0, <1>3, <2>1 DEF Excess
    <3>2. r \in Discarded(updated, Excess(updated))
      BY <1>4, <2>1
    <3>3. QED
      BY <1>1, <1>2, <3>1, <3>2, DiscardedType, DiscardedAged
  <2>2. CASE ~(wsola /\ Excess(updated) > 0)
    BY <1>1, <1>2, <1>3, <1>4, <2>2
  <2>3. QED
    BY <2>1, <2>2
<1>6. r.len \in Nat
  BY <1>5, FieldTypes
<1>7. Aged(relieved, m) /\ relieved.len <= r.len
  <2>1. CASE Excess(r) > 0
    <3>1. Excess(r) \in Nat
      BY <1>0, <1>6, <2>1 DEF Excess
    <3>2. relieved = AdvRead(r, Excess(r))
      BY <1>4, <2>1
    <3>3. AdvRead(r, Excess(r)).len = IF Excess(r) >= r.len THEN 0 ELSE r.len - Excess(r)
      BY <1>5, <3>1, AdvReadType
    <3>4. relieved.len <= r.len
      BY <1>6, <3>1, <3>2, <3>3
    <3>5. QED
      BY <1>5, <3>1, <3>2, <3>4, AdvReadAged
  <2>2. CASE ~(Excess(r) > 0)
    BY <1>4, <1>5, <1>6, <2>2
  <2>3. QED
    BY <2>1, <2>2
<1>8. relieved.len \in Nat
  BY <1>1, RelievedType, FieldTypes
<1>9. ASSUME ~(b.len > Spf + EffCnt), ~(b.len + Spf > MaxCnt)
      PROVE  relieved = b
  <2>1. updated = b
    BY <1>9 DEF Updated
  <2>2. ~(Excess(b) > 0)
    BY <1>0, <1>9 DEF Excess
  <2>3. QED
    BY <1>4, <2>1, <2>2
<1>10. relieved.len <= b.len
  BY <1>0, <1>2, <1>3, <1>5, <1>6, <1>7, <1>8
<1>11. QED
  BY <1>7, <1>9, <1>10

\* The samples in the buffer are numbered from 1 up.
InOrder == Contents(buf) = Abstract!Ordered(buf.len)

LEMMA OrderedFacts ==
  ASSUME NEW n \in Nat
  PROVE  /\ Len(Abstract!Ordered(n)) = n
         /\ Abstract!Ordered(n) \in Seq(Nat)
         /\ \A k \in 1 .. n : Abstract!Ordered(n)[k] = k
         /\ Abstract!Ordered(0) = << >>
<1>1. Abstract!Ordered(n) \in [1 .. n -> Nat]
  BY DEF Abstract!Ordered
<1>2. Abstract!Ordered(0) = << >>
  BY DEF Abstract!Ordered
<1>3. QED
  BY <1>1, <1>2 DEF Abstract!Ordered

LEMMA OrderedAged ==
  ASSUME NEW b \in Buffers, Contents(b) = Abstract!Ordered(b.len)
  PROVE  Aged(b, b.len)
<1>1. b.len \in Nat
  BY FieldTypes
<1>2. ASSUME NEW k \in 1 .. b.len PROVE Sample(b, k) = k
  <2>1. Contents(b)[k] = Sample(b, k)
    BY DEF Contents, Sample
  <2>2. QED
    BY <1>1, <2>1, OrderedFacts
<1>3. QED
  BY <1>1, <1>2 DEF Aged

LEMMA FrameAged ==
  ASSUME NEW b \in Buffers
  PROVE  \A k \in 1 .. Spf : Frame(b)[k] = b.len + k
BY DEF Frame

\* put is a put of the queue.
LEMMA PutOrder == IInv /\ InOrder /\ Put => InOrder' /\ Abstract!QPut
<1> SUFFICES ASSUME IInv, InOrder, Put PROVE InOrder' /\ Abstract!QPut
  OBVIOUS
<1>1. buf \in Buffers
  BY BufType DEF IInv
<1>2. buf.len \in Nat /\ Spf \in Nat /\ MaxCnt \in Nat /\ Aged(buf, buf.len)
  BY <1>1, FieldTypes, Sizes, OrderedAged DEF InOrder
<1>3. PICK updated \in Updated(buf) : \E relieved \in Relieved(updated) :
        buf' = Renumbered(Written(relieved, Frame(buf)))
  BY DEF Put
<1>4. PICK relieved \in Relieved(updated) :
         buf' = Renumbered(Written(relieved, Frame(buf)))
  BY <1>3
<1>5. relieved \in Buffers /\ relieved.len + Spf <= MaxCnt
  BY <1>1, UpdatedType, RelievedType
<1>6. /\ Aged(relieved, buf.len) /\ relieved.len <= buf.len
      /\ ~(buf.len > Spf + EffCnt) /\ ~(buf.len + Spf > MaxCnt) => relieved = buf
  BY <1>1, <1>2, RelievedAged
<1>7. relieved.len \in 0 .. buf.len
  BY <1>2, <1>5, <1>6, FieldTypes
<1> DEFINE w == Written(relieved, Frame(buf))
<1>8. Frame(buf) \in Seq(Nat) /\ Len(Frame(buf)) = Spf
  BY <1>1, FrameType
<1>9. w \in Buffers /\ w.len = relieved.len + Spf
  <2>1. ~(Spf > MaxCnt - relieved.len)
    BY <1>2, <1>5, <1>7
  <2>2. QED
    BY <1>5, <1>8, <2>1, WrittenType
<1>10. Aged(w, buf.len + Spf) /\ buf.len + Spf \in Nat
  BY <1>1, <1>2, <1>5, <1>6, <1>8, FrameAged, WrittenAged
<1>11. Contents(buf') = Abstract!Ordered(w.len) /\ buf'.len = w.len
  BY <1>4, <1>9, <1>10, RenumberedOrder, RenumberedType
<1>12. Contents(buf)' = Contents(buf')
  BY DEF Contents
<1>13. InOrder'
  BY <1>11 DEF InOrder, Contents, Abstract!Ordered
<1>14. Len(Contents(buf)) = buf.len
  BY <1>2, OrderedFacts DEF InOrder
<1>15. Contents(buf)' = Abstract!Ordered(relieved.len + Spf)
  BY <1>9, <1>11, <1>12
<1>16. taken' = << >>
  BY DEF Put
<1>17. Abstract!Crowded \/ relieved.len = Len(Contents(buf))
  BY <1>6, <1>14 DEF Abstract!Crowded
<1>18. QED
  BY <1>5, <1>7, <1>13, <1>14, <1>15, <1>16, <1>17 DEF Abstract!QPut

-----------------------------------------------------------------------------
(* The order through a get, and the queue *)

\* A frame is read from the front of the queue.
LEMMA ReadOrder ==
  ASSUME NEW b \in Buffers, b.len >= Spf, Contents(b) = Abstract!Ordered(b.len),
         ReadFrame(b)
  PROVE  /\ taken' = Abstract!Ordered(Spf)
         /\ Contents(buf') = Abstract!Ordered(b.len - Spf)
         /\ buf'.len = b.len - Spf
<1>1. b.len \in Nat /\ Spf \in Nat /\ ~(Spf > b.len)
  BY FieldTypes, Sizes
<1>2. taken' = SubSeq(Contents(b), 1, Spf) /\ buf' = Renumbered(AdvRead(b, Spf))
  BY <1>1 DEF ReadFrame
<1>3. AdvRead(b, Spf) \in Buffers /\ AdvRead(b, Spf).len = b.len - Spf
  <2>1. /\ AdvRead(b, Spf) \in Buffers
        /\ AdvRead(b, Spf).len = IF Spf >= b.len THEN 0 ELSE b.len - Spf
    BY <1>1, AdvReadType
  <2>2. QED
    BY <1>1, <2>1
<1>4. Aged(AdvRead(b, Spf), b.len)
  BY <1>1, OrderedAged, AdvReadAged
<1>5. Contents(buf') = Abstract!Ordered(b.len - Spf) /\ buf'.len = b.len - Spf
  BY <1>1, <1>2, <1>3, <1>4, RenumberedOrder, RenumberedType
<1>6. SubSeq(Abstract!Ordered(b.len), 1, Spf) = Abstract!Ordered(Spf)
  BY <1>1 DEF Abstract!Ordered
<1>7. QED
  BY <1>2, <1>5, <1>6

\* Behind samples in order, the samples of a frame are in order.
LEMMA WrittenOrder ==
  ASSUME NEW b \in Buffers, Contents(b) = Abstract!Ordered(b.len),
         b.len + Spf <= MaxCnt
  PROVE  \A k \in 1 .. b.len + Spf : Sample(Written(b, Frame(b)), k) = k
<1> DEFINE frame == Frame(b)
           end == Around(b.start + b.len)
           cells == [i \in Cells |-> IF Offset(i, end) < Spf
                                     THEN frame[Offset(i, end) + 1]
                                     ELSE b.cells[i]]
           w == Written(b, frame)
<1>1. /\ b.start \in Cells /\ b.len \in 0 .. MaxCnt /\ MaxCnt \in Nat /\ Spf \in Nat
      /\ b.len \in Nat /\ Len(frame) = Spf
  BY FieldTypes, FrameType, Sizes
<1>2. ~(Spf > MaxCnt - b.len)
  BY <1>1
<1>3. w = [b EXCEPT !.cells = cells, !.len = b.len + Spf]
  BY <1>1, <1>2 DEF Written
<1>4. w.cells = cells /\ w.start = b.start
  <2> HIDE DEF cells, w
  <2>1. QED
    BY <1>3 DEF Buffers
<1>5. ASSUME NEW k \in 1 .. b.len PROVE Sample(w, k) = k
  <2>1. /\ Around(b.start + k - 1) \in Cells
        /\ ~(Offset(Around(b.start + k - 1), end) < Spf)
    BY <1>1, BehindEnd
  <2> HIDE DEF end, w, frame
  <2>2. cells[Around(b.start + k - 1)] = b.cells[Around(b.start + k - 1)]
    BY <2>1
  <2>3. Contents(b)[k] = b.cells[Around(b.start + k - 1)]
    BY DEF Contents
  <2>4. Contents(b)[k] = k
    BY <1>1, OrderedFacts
  <2>5. QED
    BY <1>4, <2>2, <2>3, <2>4 DEF Sample
<1>6. ASSUME NEW k \in b.len + 1 .. b.len + Spf PROVE Sample(w, k) = k
  <2>1. /\ Around(b.start + k - 1) \in Cells
        /\ Offset(Around(b.start + k - 1), end) = k - b.len - 1
    BY <1>1, BehindEnd
  <2>2. /\ k - b.len - 1 < Spf /\ (k - b.len - 1) + 1 = k - b.len
        /\ k - b.len \in 1 .. Spf
    BY <1>1
  <2>3. frame[k - b.len] = k
    BY <1>1, <2>2, FrameAged
  <2> HIDE DEF end, w, frame
  <2>4. cells[Around(b.start + k - 1)] = frame[k - b.len]
    BY <2>1, <2>2
  <2>5. QED
    BY <1>4, <2>3, <2>4 DEF Sample
<1>7. QED
  BY <1>1, <1>5, <1>6

\* An empty buffer is an empty queue.
LEMMA ResetOrder ==
  ASSUME NEW b \in Buffers, buf' = Renumbered(Reset(b))
  PROVE  Contents(buf') = Abstract!Ordered(0) /\ buf'.len = 0
<1>1. Reset(b) \in Buffers /\ Reset(b).len = 0
  BY ResetType
<1>2. buf'.len = 0
  BY <1>1, RenumberedType
<1>3. QED
  BY <1>2 DEF Contents, Abstract!Ordered

\* get is a get of the queue: a whole frame, the frame WSOLA makes up, or what is
\* left.
LEMMA GetOrder == IInv /\ InOrder /\ Get => InOrder' /\ Abstract!QGet
<1> SUFFICES ASSUME IInv, InOrder, Get PROVE InOrder' /\ Abstract!QGet
  OBVIOUS
<1>1. buf \in Buffers
  BY BufType DEF IInv
<1>2. buf.len \in Nat /\ Spf \in Nat /\ Spf > 1 /\ MaxCnt \in Nat /\ Aged(buf, buf.len)
  BY <1>1, FieldTypes, Sizes, OrderedAged DEF InOrder
<1>3. Contents(buf) = Abstract!Ordered(buf.len) /\ Len(Contents(buf)) = buf.len
  BY <1>2, OrderedFacts DEF InOrder
<1>4. Contents(buf)' = Contents(buf')
  BY DEF Contents
<1> SUFFICES \E madeUp \in {0, Spf} :
               \E count \in Nat :
                 /\ count = IF buf.len + madeUp < Spf THEN buf.len + madeUp ELSE Spf
                 /\ madeUp > 0 => buf.len \in 1 .. Spf - 1
                 /\ taken' = Abstract!Ordered(count)
                 /\ Contents(buf') = Abstract!Ordered(buf.len + madeUp - count)
                 /\ buf'.len = buf.len + madeUp - count
  <2>1. PICK madeUp \in {0, Spf}, count \in Nat :
          /\ count = IF buf.len + madeUp < Spf THEN buf.len + madeUp ELSE Spf
          /\ madeUp > 0 => buf.len \in 1 .. Spf - 1
          /\ taken' = Abstract!Ordered(count)
          /\ Contents(buf') = Abstract!Ordered(buf.len + madeUp - count)
          /\ buf'.len = buf.len + madeUp - count
    OBVIOUS
  <2>2. InOrder'
    BY <2>1 DEF InOrder, Contents, Abstract!Ordered
  <2>3. Abstract!QGet
    <3>1. Len(Contents(buf)) = buf.len
      BY <1>3
    <3>2. Contents(buf)' = Abstract!Ordered(buf.len + madeUp - count)
      BY <1>4, <2>1
    <3>3. count = IF Len(Contents(buf)) + madeUp < Spf
                  THEN Len(Contents(buf)) + madeUp ELSE Spf
      BY <2>1, <3>1
    <3>4. madeUp > 0 => Len(Contents(buf)) \in 1 .. Spf - 1
      BY <2>1, <3>1
    <3>5. count \in 0 .. Spf
      BY <1>2, <2>1
    <3>6. Contents(buf)' = Abstract!Ordered(Len(Contents(buf)) + madeUp - count)
      BY <3>1, <3>2
    <3>7. QED
      BY <2>1, <3>3, <3>4, <3>5, <3>6, Zenon DEF Abstract!QGet
  <2>4. QED
    BY <2>2, <2>3
<1>5. CASE buf.len >= Spf /\ ReadFrame(buf)
  <2>1. /\ taken' = Abstract!Ordered(Spf)
        /\ Contents(buf') = Abstract!Ordered(buf.len - Spf)
        /\ buf'.len = buf.len - Spf
    BY <1>1, <1>3, <1>5, ReadOrder
  <2>2. buf.len + 0 - Spf = buf.len - Spf /\ ~(buf.len + 0 < Spf)
    BY <1>2, <1>5
  <2>3. QED
    BY <1>2, <2>1, <2>2
<1>6. CASE wsola /\ buf.len = 0 /\ taken' = << >> /\ UNCHANGED buf
  <2>1. taken' = Abstract!Ordered(0)
    BY <1>2, <1>6, OrderedFacts
  <2>2. buf.len + 0 - 0 = buf.len /\ buf.len + 0 < Spf /\ buf.len + 0 = 0
    BY <1>2, <1>6
  <2>3. QED
    BY <1>2, <1>3, <1>6, <2>1, <2>2
<1>7. CASE wsola /\ buf.len \in 1 .. Spf - 1 /\ ReadFrame(Written(buf, Frame(buf)))
  <2> DEFINE w == Written(buf, Frame(buf))
  <2>1. Frame(buf) \in Seq(Nat) /\ Len(Frame(buf)) = Spf
    BY <1>1, FrameType
  <2>2. buf.len < Spf
    BY <1>2, <1>7
  <2>3. buf.len + Spf <= MaxCnt
    BY <2>2 DEF IInv, RoomBehind
  <2>4. w \in Buffers /\ w.len = buf.len + Spf
    <3>1. ~(Spf > MaxCnt - buf.len)
      BY <1>2, <2>3
    <3>2. QED
      BY <1>1, <2>1, <3>1, WrittenType
  <2>5. Contents(w) = Abstract!Ordered(w.len)
    <3>1. ASSUME NEW k \in 1 .. w.len PROVE Sample(w, k) = k
      BY <1>1, <1>2, <1>3, <2>1, <2>3, <2>4, <3>1, WrittenOrder
    <3>2. QED
      BY <3>1 DEF Contents, Sample, Abstract!Ordered
  <2>6. w.len >= Spf /\ w.len - Spf = buf.len
    BY <1>2, <2>4
  <2>7. /\ taken' = Abstract!Ordered(Spf)
        /\ Contents(buf') = Abstract!Ordered(w.len - Spf)
        /\ buf'.len = w.len - Spf
    BY <1>7, <2>4, <2>5, <2>6, ReadOrder
  <2>8. buf.len + Spf - Spf = buf.len /\ ~(buf.len + Spf < Spf)
    BY <1>2
  <2>9. QED
    BY <1>2, <1>7, <2>6, <2>7, <2>8
<1>8. CASE /\ ~wsola /\ buf.len < Spf /\ taken' = Contents(buf)
           /\ buf' = Renumbered(Reset(buf))
  <2>1. Contents(buf') = Abstract!Ordered(0) /\ buf'.len = 0
    BY <1>1, <1>8, ResetOrder
  <2>2. buf.len + 0 - buf.len = 0 /\ buf.len + 0 < Spf /\ buf.len + 0 = buf.len
    BY <1>2, <1>8
  <2>3. QED
    BY <1>2, <1>3, <1>8, <2>1, <2>2
<1>9. QED
  BY <1>5, <1>6, <1>7, <1>8 DEF Get

LEMMA ResetStepOrder == IInv /\ InOrder /\ DelayReset => InOrder' /\ Abstract!QReset
<1> SUFFICES ASSUME IInv, DelayReset PROVE InOrder' /\ Abstract!QReset
  OBVIOUS
<1>1. buf \in Buffers /\ buf' = Renumbered(Reset(buf)) /\ taken' = << >>
  BY BufType DEF IInv, DelayReset
<1>2. Contents(buf') = Abstract!Ordered(0) /\ buf'.len = 0
  BY <1>1, ResetOrder
<1>3. Abstract!Ordered(0) = << >>
  BY OrderedFacts
<1>4. Contents(buf)' = Contents(buf')
  BY DEF Contents
<1>5. InOrder'
  BY <1>2 DEF InOrder, Contents, Abstract!Ordered
<1>6. QED
  BY <1>1, <1>2, <1>3, <1>4, <1>5 DEF Abstract!QReset

\* The samples come out in the order they came, none twice; none is lost before the
\* buffer is crowded, and no frame is refused: for any size of the buffer, a frame
\* and WSOLA's window, wherever the samples lie in the cells and wherever WSOLA cuts
\* (delaybuf.c:252-376, circbuf.h:154-345, wsola.c:936-1033).
THEOREM QueueOfSamplesHolds == Spec => QueueOfSamples
<1>1. Init => InOrder /\ Abstract!QInit
  <2> SUFFICES ASSUME Init PROVE InOrder /\ Abstract!QInit
    OBVIOUS
  <2>1. buf.len = 0 /\ taken = << >>
    BY DEF Init
  <2>2. Contents(buf) = Abstract!Ordered(0)
    BY <2>1 DEF Contents, Abstract!Ordered
  <2>3. Abstract!Ordered(0) = << >>
    BY OrderedFacts
  <2>4. QED
    BY <2>1, <2>2, <2>3 DEF InOrder, Abstract!QInit
<1>2. IInv /\ InOrder /\ [Next]_vars =>
        InOrder' /\ [Abstract!QNext]_<<Contents(buf), taken>>
  <2>1. IInv /\ InOrder /\ UNCHANGED vars =>
          InOrder' /\ UNCHANGED <<Contents(buf), taken>>
    BY DEF InOrder, Contents, Abstract!Ordered, vars
  <2>2. QED
    BY <2>1, PutOrder, GetOrder, ResetStepOrder DEF Next, Abstract!QNext
<1>3. QED
  BY <1>1, <1>2, Inductive, PTL DEF Spec, QueueOfSamples, Abstract!QSpec

=============================================================================
