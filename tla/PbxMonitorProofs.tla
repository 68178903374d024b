--------------------------- MODULE PbxMonitorProofs ---------------------------
(***************************************************************************)
(* Proofs about PbxMonitor, for any callers, poll, wire and disturbances.  *)
(***************************************************************************)
EXTENDS PbxMonitor, TLAPS, FiniteSetTheorems, FunctionTheorems, SequenceTheorems,
        WellFoundedInduction

\* A connection is only made while the lamp is off: the disconnect of a poll
\* without an answer never meets a socket that is connecting, and no login
\* starts over a running one (mainwindow.cpp:187-193, 683-699).
ConnectingMeansOff == sock = "connecting" => ~pbxOk

\* Every step keeps the lamp off while a connection is being made.
LEMMA StepConnecting == ConnectingMeansOff /\ [Next]_vars => ConnectingMeansOff'
<1> SUFFICES ASSUME ConnectingMeansOff, [Next]_vars PROVE ConnectingMeansOff'
  OBVIOUS
<1> USE DEF ConnectingMeansOff
<1>1. CASE Tick
  <2>1. CASE inetTimeout > INET_TIMEOUT /\ pbxRq /\ pbxOk
    BY <1>1, <2>1 DEF Tick, switchedOff, Disconnect
  <2>2. CASE inetTimeout > INET_TIMEOUT /\ ~(pbxRq /\ pbxOk)
    BY <1>1, <2>2 DEF Tick, checkPBX
  <2>3. CASE ~(inetTimeout > INET_TIMEOUT)
    BY <1>1, <2>3 DEF Tick
  <2>4. QED
    BY <2>1, <2>2, <2>3
<1>2. CASE Connected
  BY <1>2 DEF Connected
<1>3. CASE ReadStep
  <2>1. sock = "connected"
    BY <1>3 DEF ReadStep, ReadLogin, ReadConference, ReadTrunk, ReadIdle, ReadKey,
                Read
  <2>2. sock' \in {sock, "closed"}
    BY <1>3 DEF ReadStep, ReadLogin, ReadConference, ReadTrunk, ReadIdle, ReadKey,
                Disconnect
  <2>3. QED
    BY <2>1, <2>2
<1>4. CASE ClickStep
  BY <1>4 DEF ClickStep, ClickSpeak, ClickKick, GuiUnchanged
<1>5. CASE ServeStep
  <2>1. UNCHANGED <<gui, sock>>
    BY <1>5 DEF ServeStep, ServeLogin, ServeList, ServeRegistry, ServeModeration,
                Serve
  <2>2. QED
    BY <2>1 DEF gui
<1>6. CASE \E c \in Channels \cup {Own} : Joins(c) \/ Leaves(c) \/ OtherEvent(c)
  BY <1>6 DEF Joins, Leaves, OtherEvent, Environment, gui
<1>7. CASE \E c \in Channels, key \in TestKeys : Presses(c, key)
  BY <1>7 DEF Presses, Environment, gui
<1>8. CASE TrunkChanges
  BY <1>8 DEF TrunkChanges, Environment, gui
<1>9. CASE ConnectionLost
  <2>1. sock' = "connecting" => sock = "connecting"
    BY <1>9 DEF ConnectionLost
  <2>2. QED
    BY <1>9, <2>1 DEF ConnectionLost, gui
<1>10. CASE ConnectFails
  BY <1>10 DEF ConnectFails
<1>11. CASE ServerReturns
  BY <1>11 DEF ServerReturns, gui
<1>12. CASE SegmentEnds
  BY <1>12 DEF SegmentEnds, Environment, gui
<1>13. CASE UNCHANGED vars
  BY <1>13 DEF vars, gui
<1>14. QED
  BY <1>1, <1>2, <1>3, <1>4, <1>5, <1>6, <1>7, <1>8, <1>9, <1>10, <1>11, <1>12,
     <1>13
  DEF Next, OtherStep

\* While a connection is being made the lamp is off: the poll never drops a
\* connection half made, whatever is lost, late or clicked
\* (mainwindow.cpp:187-193, 258-273, 683-699).
THEOREM ConnectingIsOff == Spec => []ConnectingMeansOff
<1>1. Init => ConnectingMeansOff
  BY DEF Init, ConnectingMeansOff
<1>2. QED
  BY <1>1, StepConnecting, PTL DEF Spec

-----------------------------------------------------------------------------
(* The table of listeners *)

\* A set of numbers has a smallest one.
LEMMA Smallest ==
  ASSUME NEW S, S \subseteq Nat, S # {}
  PROVE  Min(S) \in S
<1>1. PICK x \in S : \A y \in S : <<y, x>> \notin OpToRel(<, Nat)
  BY WFMin, NatLessThanWellFounded
<1>2. ASSUME NEW y \in S PROVE x <= y
  <2>1. CASE y < x
    <3>1. <<y, x>> \in Nat \X Nat /\ <<y, x>>[1] < <<y, x>>[2]
      BY <2>1
    <3>2. <<y, x>> \in OpToRel(<, Nat)
      BY <3>1 DEF OpToRel
    <3>3. QED
      BY <1>1, <3>2
  <2>2. CASE ~(y < x)
    BY <2>2
  <2>3. QED
    BY <2>1, <2>2
<1>3. QED
  BY <1>2 DEF Min

\* findCall returns a row of the channel, or 0 when there is none.
LEMMA FoundCall ==
  ASSUME NEW S, NEW table \in Seq(S), NEW c
  PROVE  \/ findCall(table, c) = 0 /\ \A i \in 1 .. Len(table) : table[i].channel # c
         \/ findCall(table, c) \in 1 .. Len(table) /\ table[findCall(table, c)].channel = c
<1> DEFINE I == {i \in 1 .. Len(table) : table[i].channel = c}
<1>1. findCall(table, c) = IF I # {} THEN Min(I) ELSE 0
  BY DEF findCall, SelectInSeq
<1>2. CASE I = {}
  BY <1>1, <1>2
<1>3. CASE I # {}
  <2>1. Min(I) \in I
    BY <1>3, Smallest
  <2> QED BY <2>1, <1>1, <1>3
<1> QED BY <1>2, <1>3
\* Every kept row gets a place of its own.
LEMMA PlacesOfKept ==
  ASSUME NEW n \in Nat, NEW kept \in SUBSET (1 .. n)
  PROVE  LET place(r) == Cardinality({q \in kept : q <= r})
         IN  /\ Cardinality(kept) \in Nat
             /\ \A r \in kept : place(r) \in 1 .. Cardinality(kept)
             /\ \A r, q \in kept : place(r) = place(q) => r = q
             /\ \A i \in 1 .. Cardinality(kept) : \E r \in kept : place(r) = i
<1> DEFINE below(r) == {q \in kept : q <= r}
           place(r) == Cardinality(below(r))
           m == Cardinality(kept)
           f == [r \in kept |-> place(r)]
<1>1. IsFiniteSet(kept) /\ m \in Nat
  <2>1. IsFiniteSet(1 .. n)
    BY FS_Interval
  <2>2. QED
    BY <2>1, FS_Subset, FS_CardinalityType
<1>2. ASSUME NEW r \in kept
      PROVE  IsFiniteSet(below(r)) /\ place(r) \in 1 .. m
  <2>1. below(r) \in SUBSET kept /\ r \in below(r)
    OBVIOUS
  <2>2. IsFiniteSet(below(r)) /\ place(r) <= m
    BY <1>1, <2>1, FS_Subset
  <2>3. place(r) \in Nat
    BY <2>2, FS_CardinalityType
  <2>4. place(r) # 0
    BY <2>1, <2>2, FS_EmptySet
  <2>5. QED
    BY <1>1, <2>2, <2>3, <2>4
<1>3. ASSUME NEW r \in kept, NEW q \in kept, place(r) = place(q), r < q
      PROVE  FALSE
  <2>0. kept \subseteq Int
    OBVIOUS
  <2>01. \A a \in kept : a <= r => a <= q
    BY <1>3, <2>0
  <2>02. q <= q /\ ~(q <= r)
    BY <1>3, <2>0
  <2>1. below(r) \in SUBSET below(q) /\ q \in below(q) /\ q \notin below(r)
    BY <2>01, <2>02
  <2>2. below(r) = below(q)
    BY <1>2, <1>3, <2>1, FS_Subset
  <2>3. QED
    BY <2>1, <2>2
<1>4. \A r, q \in kept : place(r) = place(q) => r = q
  <2> SUFFICES ASSUME NEW r \in kept, NEW q \in kept, place(r) = place(q)
               PROVE  r = q
    OBVIOUS
  <2>1. ~(r < q) /\ ~(q < r)
    BY <1>3
  <2>2. r \in Int /\ q \in Int
    OBVIOUS
  <2>3. QED
    BY <2>1, <2>2
<1>5. f \in Injection(kept, 1 .. m)
  <2>1. f \in [kept -> 1 .. m]
    BY <1>2
  <2>2. \A r, q \in kept : f[r] = f[q] => r = q
    BY <1>4
  <2>3. QED
    BY <2>1, <2>2 DEF Injection, IsInjective
<1>6. f \in Surjection(kept, 1 .. m)
  <2>1. IsFiniteSet(1 .. m) /\ Cardinality(1 .. m) = m
    BY <1>1, FS_Interval
  <2>2. QED
    BY <1>5, <2>1, FS_Injection
<1>7. \A i \in 1 .. m : \E r \in kept : place(r) = i
  BY <1>6 DEF Surjection
<1>8. QED
  BY <1>1, <1>2, <1>4, <1>7

\* What is left of a table: its rows but the Removed ones, each once.
IsKept(new, old) ==
  \E from \in [1 .. Len(new) -> DOMAIN old \ Removed(old)] :
    /\ \A i, j \in DOMAIN from : from[i] = from[j] => i = j
    /\ \A i \in DOMAIN from : new[i] = old[from[i]]
    /\ \A r \in DOMAIN old \ Removed(old) : \E i \in DOMAIN from : from[i] = r

\* removeUnusedChannels keeps the rows that are not Removed, each once.
LEMMA KeptRows ==
  ASSUME NEW S, NEW table \in Seq(S)
  PROVE  /\ removeUnusedChannels(table) \in Seq(S)
         /\ IsKept(removeUnusedChannels(table), table)
<1> DEFINE kept == DOMAIN table \ Removed(table)
           m == Cardinality(kept)
           place(r) == Cardinality({q \in kept : q <= r})
           from == [i \in 1 .. m |-> CHOOSE r \in kept : place(r) = i]
           result == removeUnusedChannels(table)
<1>1. kept \in SUBSET (1 .. Len(table)) /\ Len(table) \in Nat
  OBVIOUS
<1>2. /\ m \in Nat
      /\ \A r \in kept : place(r) \in 1 .. m
      /\ \A r, q \in kept : place(r) = place(q) => r = q
      /\ \A i \in 1 .. m : \E r \in kept : place(r) = i
  BY <1>1, PlacesOfKept
<1>3. \A i \in 1 .. m : from[i] \in kept /\ place(from[i]) = i
  BY <1>2
<1>4. result = [i \in 1 .. m |-> table[from[i]]]
  BY DEF removeUnusedChannels
<1> HIDE DEF from, result, place, m, kept
<1>5. from \in [1 .. m -> kept]
  BY <1>3 DEF from
<1>6. \A i \in 1 .. m : table[from[i]] \in S
  BY <1>1, <1>3, ElementOfSeq
<1>7. result \in Seq(S) /\ Len(result) = m
  BY <1>2, <1>4, <1>6
<1>8. \A i, j \in 1 .. m : from[i] = from[j] => i = j
  BY <1>3
<1>9. \A r \in kept : place(r) \in 1 .. m /\ from[place(r)] = r
  BY <1>2, <1>3
<1>10. \A i \in 1 .. m : result[i] = table[from[i]]
  BY <1>4
<1>11. DOMAIN from = 1 .. m
  BY DEF from
<1>12. QED
  BY <1>5, <1>7, <1>8, <1>9, <1>10, <1>11 DEF kept, result, IsKept

\* A row whose mark is changed.
LEMMA MarkChanged ==
  ASSUME NEW C, NEW row \in Row(C), NEW value \in BOOLEAN
  PROVE  LET new == [row EXCEPT !.marked = value] IN
         /\ new \in Row(C) /\ new.marked = value
         /\ new.channel = row.channel
         /\ new.text = row.text /\ new.number = row.number
  BY DEF Row

\* A row whose leave to speak is changed.
LEMMA UnmutedChanged ==
  ASSUME NEW C, NEW row \in Row(C), NEW value \in BOOLEAN
  PROVE  LET new == [row EXCEPT !.unmuted = value] IN
         /\ new \in Row(C) /\ new.unmuted = value
         /\ new.channel = row.channel
         /\ new.marked = row.marked
         /\ new.text = row.text /\ new.number = row.number
  BY DEF Row

\* A row whose number is changed.
LEMMA NumberChanged ==
  ASSUME NEW C, NEW row \in Row(C), NEW value \in -INT_HALF .. INT_HALF - 1
  PROVE  LET new == [row EXCEPT !.number = value] IN
         /\ new \in Row(C) /\ new.number = value
         /\ new.channel = row.channel
         /\ new.marked = row.marked
         /\ new.unmuted = row.unmuted /\ new.text = row.text
  BY DEF Row

\* The same callers, in the same order.
SameCallers(new, old) ==
  /\ Len(new) = Len(old)
  /\ \A r \in DOMAIN old : new[r].channel = old[r].channel

Unique(table) ==
  \A r, q \in DOMAIN table : table[r].channel = table[q].channel => r = q

\* markAllChannels
LEMMA MarkedRows ==
  ASSUME NEW C, NEW table \in Seq(Row(C)), NEW value \in BOOLEAN
  PROVE  /\ markAllChannels(table, value) \in Seq(Row(C))
         /\ SameCallers(markAllChannels(table, value), table)
<1> DEFINE new == markAllChannels(table, value)
<1>1. new = [r \in 1 .. Len(table) |-> [table[r] EXCEPT !.marked = value]]
  BY DEF markAllChannels
<1>2. \A r \in 1 .. Len(table) :
        /\ [table[r] EXCEPT !.marked = value] \in Row(C)
        /\ [table[r] EXCEPT !.marked = value].channel = table[r].channel
  BY ElementOfSeq, MarkChanged
<1> HIDE DEF new
<1>3. new \in Seq(Row(C)) /\ Len(new) = Len(table)
  BY <1>1, <1>2
<1>4. \A r \in 1 .. Len(table) : new[r].channel = table[r].channel
  BY <1>1, <1>2
<1>5. QED
  BY <1>3, <1>4 DEF new, SameCallers

\* Listed updates the row of a caller, or adds one at the end.
LEMMA ListedRows ==
  ASSUME NEW C, NEW table \in Seq(Row(C)), NEW c \in C, NEW unmuted \in BOOLEAN
  PROVE  LET new == Listed(table, c, unmuted) IN
         /\ new \in Seq(Row(C))
         /\ \/ SameCallers(new, table)
            \/ /\ c \notin ChannelsOf(table)
               /\ new = Append(table, NewRow(c, unmuted))
         /\ \E r \in DOMAIN new : new[r].channel = c /\ new[r].marked
         /\ \A r \in DOMAIN table :
              /\ r \in DOMAIN new
              /\ table[r].marked => new[r].marked
              /\ new[r].channel = table[r].channel
              /\ new[r].text = table[r].text /\ new[r].number = table[r].number
<1> DEFINE new == Listed(table, c, unmuted)
           r == findCall(table, c)
<1>1. CASE r = 0
  <2>1. new = Append(table, NewRow(c, unmuted))
    BY <1>1 DEF Listed
  <2>2. \A i \in 1 .. Len(table) : table[i].channel # c
    BY <1>1, FoundCall
  <2>3. c \notin ChannelsOf(table)
    BY <2>2 DEF ChannelsOf
  <2>4. /\ NewRow(c, unmuted) \in Row(C)
        /\ NewRow(c, unmuted).channel = c /\ NewRow(c, unmuted).marked
    BY ListenersAssumption DEF NewRow, Row
  <2> HIDE DEF new, r
  <2>5. new \in Seq(Row(C)) /\ Len(new) = Len(table) + 1
    BY <2>1, <2>4
  <2>6. new[Len(table) + 1] = NewRow(c, unmuted)
    BY <2>1, <2>4
  <2>7. \A i \in 1 .. Len(table) : new[i] = table[i]
    BY <2>1, <2>4
  <2>8. Len(table) + 1 \in DOMAIN new
    BY <2>5
  <2>9. QED
    BY <2>1, <2>3, <2>4, <2>5, <2>6, <2>7, <2>8 DEF new
<1>2. CASE r # 0
  <2>1. r \in 1 .. Len(table) /\ table[r].channel = c
    BY <1>2, FoundCall
  <2>2. new = [table EXCEPT ![r] =
                 [[table[r] EXCEPT !.unmuted = unmuted] EXCEPT !.marked = TRUE]]
    BY <1>2, <2>1 DEF Listed
  <2> DEFINE row == [[table[r] EXCEPT !.unmuted = unmuted] EXCEPT !.marked = TRUE]
  <2>3. /\ row \in Row(C) /\ row.channel = table[r].channel /\ row.marked = TRUE
        /\ row.text = table[r].text /\ row.number = table[r].number
    <3>1. table[r] \in Row(C)
      BY <2>1, ElementOfSeq
    <3> DEFINE half == [table[r] EXCEPT !.unmuted = unmuted]
    <3>2. /\ half \in Row(C)
          /\ half.channel = table[r].channel
          /\ half.text = table[r].text /\ half.number = table[r].number
      BY <3>1, UnmutedChanged
    <3>3. row = [half EXCEPT !.marked = TRUE]
      OBVIOUS
    <3> HIDE DEF half, row
    <3>4. QED
      BY <3>2, <3>3, MarkChanged, ZenonT(60)
  <2> HIDE DEF row, new, r
  <2>4. new \in Seq(Row(C)) /\ Len(new) = Len(table)
    <3>1. new = [table EXCEPT ![r] = row]
      BY <2>2 DEF row
    <3>2. QED
      BY <2>1, <2>3, <3>1, ExceptSeq
  <2>5. new[r] = row /\ \A i \in 1 .. Len(table) : i # r => new[i] = table[i]
    <3>1. new = [table EXCEPT ![r] = row]
      BY <2>2 DEF row
    <3>2. QED
      BY <2>1, <2>3, <3>1, ExceptSeq
  <2>6. SameCallers(new, table)
    BY <2>3, <2>4, <2>5 DEF SameCallers
  <2>7. QED
    BY <2>1, <2>3, <2>4, <2>5, <2>6 DEF new
<1>3. QED
  BY <1>1, <1>2

\* A number that does not fit wraps around to one that does; one that fits stays.
LEMMA WrappedInRange ==
  ASSUME NEW n \in Int
  PROVE  /\ Wrapped(n) \in -INT_HALF .. INT_HALF - 1
         /\ n \in -INT_HALF .. INT_HALF - 1 => Wrapped(n) = n
<1> DEFINE m == 2 * INT_HALF
<1>1. INT_HALF \in Nat /\ m \in Nat /\ m > 0 /\ m = 2 * INT_HALF
  BY ListenersAssumption
<1>2. n + INT_HALF \in Int
  BY <1>1
<1> HIDE DEF m
<1>3. (n + INT_HALF) % m \in 0 .. m - 1
  BY <1>1, <1>2
<1>4. Wrapped(n) = ((n + INT_HALF) % m) - INT_HALF
  BY DEF Wrapped, m
<1>5. Wrapped(n) \in -INT_HALF .. INT_HALF - 1
  BY <1>1, <1>3, <1>4
<1>6. ASSUME n \in -INT_HALF .. INT_HALF - 1
      PROVE  Wrapped(n) = n
  <2>1. n + INT_HALF \in 0 .. m - 1
    BY <1>1, <1>6
  <2>2. (n + INT_HALF) % m = n + INT_HALF
    BY <1>1, <2>1
  <2>3. QED
    BY <1>1, <1>4, <2>2
<1>7. QED
  BY <1>5, <1>6

\* What a key does to the table.
LEMMA DialledRows ==
  ASSUME NEW C, NEW table \in Seq(Row(C)), NEW c, NEW key \in Keys \cup {Cut}
  PROVE  LET new == Dialled(table, c, key) IN
         /\ new \in Seq(Row(C))
         /\ SameCallers(new, table)
         /\ \A i \in DOMAIN table :
              /\ new[i].marked = table[i].marked /\ new[i].unmuted = table[i].unmuted
              /\ \/ new[i].text = table[i].text /\ new[i].number = table[i].number
                 \/ /\ table[i].channel = c
                    /\ \/ /\ table[i].number \in 1 .. 99
                          /\ new[i].text = table[i].number
                          /\ new[i].number = table[i].number
                       \/ new[i].text = 0 /\ new[i].number = 0
                       \/ /\ key \in 0 .. 9
                          /\ new[i].text = table[i].text
                          /\ new[i].number = Wrapped(table[i].number * 10 + key)
<1> DEFINE new == Dialled(table, c, key)
           r == findCall(table, c)
           n == table[r].number
<1>1. r = 0 \/ (r \in 1 .. Len(table) /\ table[r].channel = c)
  BY FoundCall
<1>2. ASSUME r \in 1 .. Len(table) PROVE table[r] \in Row(C)
  BY <1>2, ElementOfSeq
<1>3. ASSUME r \in 1 .. Len(table), NEW row \in Row(C), new = [table EXCEPT ![r] = row],
             row.channel = table[r].channel,
             row.marked = table[r].marked, row.unmuted = table[r].unmuted
      PROVE  /\ new \in Seq(Row(C)) /\ SameCallers(new, table)
             /\ \A i \in DOMAIN table :
                  /\ new[i].marked = table[i].marked
                  /\ new[i].unmuted = table[i].unmuted
                  /\ i # r => new[i] = table[i]
                  /\ i = r => new[i] = row
  <2> HIDE DEF new, r, n
  <2>1. /\ new \in Seq(Row(C)) /\ Len(new) = Len(table)
        /\ \A i \in 1 .. Len(table) : new[i] = IF i = r THEN row ELSE table[i]
    BY <1>3, ExceptSeq
  <2>2. DOMAIN table = 1 .. Len(table)
    OBVIOUS
  <2>3. QED
    BY <1>3, <2>1, <2>2 DEF SameCallers
<1>4. CASE r # 0 /\ key = Hash /\ n \in 1 .. 99
  <2>1. new = [table EXCEPT ![r] = [table[r] EXCEPT !.text = n]]
    <3>1. key # Star /\ key \notin 0 .. 9
      BY <1>4 DEF Star, Hash
    <3>2. QED
      BY <1>4, <3>1, Zenon DEF Dialled
  <2>2. n \in 0 .. 99
    BY <1>4
  <2>0. table[r] \in Row(C) /\ table[r].number = n
    BY <1>1, <1>2, <1>4
  <2> DEFINE row == [table[r] EXCEPT !.text = n]
  <2> HIDE DEF r, n, new
  <2>3. /\ row \in Row(C) /\ row.text = n /\ row.channel = table[r].channel
        /\ row.marked = table[r].marked /\ row.unmuted = table[r].unmuted
        /\ row.number = n
    BY <2>0, <2>2 DEF Row
  <2> HIDE DEF row
  <2>4. new = [table EXCEPT ![r] = row]
    BY <2>1 DEF row
  <2>5. QED
    BY <1>1, <1>3, <1>4, <2>3, <2>4 DEF new, r, n
<1>5. CASE r # 0 /\ (key = Star \/ (key = Hash /\ n \notin 1 .. 99))
  <2>1. new = [table EXCEPT ![r] = [[table[r] EXCEPT !.number = 0] EXCEPT !.text = 0]]
    <3>1. key \notin 0 .. 9 /\ ~(key = Hash /\ n \in 1 .. 99)
      <4>1. Star # Hash /\ Star \notin 0 .. 9 /\ Hash \notin 0 .. 9
        BY DEF Star, Hash
      <4> HIDE DEF n, r
      <4>2. QED
        BY <1>5, <4>1, Zenon
    <3>2. QED
      BY <1>5, <3>1, Zenon DEF Dialled
  <2>0. table[r] \in Row(C)
    BY <1>1, <1>2, <1>5
  <2> DEFINE half == [table[r] EXCEPT !.number = 0]
             row == [half EXCEPT !.text = 0]
  <2> HIDE DEF r, n, new
  <2>2. 0 \in -INT_HALF .. INT_HALF - 1 /\ 0 \in 0 .. 99
    BY ListenersAssumption
  <2>3. /\ half \in Row(C) /\ half.number = 0 /\ half.channel = table[r].channel
        /\ half.marked = table[r].marked /\ half.unmuted = table[r].unmuted
    BY <2>0, <2>2 DEF Row
  <2> HIDE DEF half
  <2>4. /\ row \in Row(C) /\ row.text = 0 /\ row.number = 0
        /\ row.channel = table[r].channel
        /\ row.marked = table[r].marked /\ row.unmuted = table[r].unmuted
    BY <2>2, <2>3 DEF Row
  <2> HIDE DEF row
  <2>5. new = [table EXCEPT ![r] = row]
    BY <2>1 DEF row, half
  <2>6. QED
    BY <1>1, <1>3, <1>5, <2>4, <2>5 DEF new, r, n
<1>6. CASE r # 0 /\ key \in 0 .. 9
  <2>1. new = [table EXCEPT ![r] = [table[r] EXCEPT !.number = Wrapped(n * 10 + key)]]
    <3>1. key # Star /\ key # Hash
      BY <1>6 DEF Star, Hash
    <3>2. QED
      BY <1>6, <3>1, Zenon DEF Dialled
  <2> DEFINE row == [table[r] EXCEPT !.number = Wrapped(n * 10 + key)]
  <2>2. n * 10 + key \in Int
    <3>1. n \in Int
      BY <1>1, <1>2, <1>6, ListenersAssumption DEF Row
    <3> HIDE DEF n
    <3>2. QED
      BY <1>6, <3>1
  <2>3. Wrapped(n * 10 + key) \in -INT_HALF .. INT_HALF - 1
    BY <2>2, WrappedInRange
  <2>4. /\ row \in Row(C) /\ row.number = Wrapped(n * 10 + key)
        /\ row.channel = table[r].channel /\ row.text = table[r].text
        /\ row.marked = table[r].marked /\ row.unmuted = table[r].unmuted
    BY <1>1, <1>2, <1>6, <2>3, NumberChanged
  <2> HIDE DEF row, new, r
  <2>5. new = [table EXCEPT ![r] = row]
    BY <2>1 DEF row
  <2>6. QED
    BY <1>1, <1>3, <1>6, <2>4, <2>5 DEF new, r
<1>7. CASE ~(r # 0 /\ key = Hash /\ n \in 1 .. 99)
           /\ ~(r # 0 /\ (key = Star \/ (key = Hash /\ n \notin 1 .. 99)))
           /\ ~(r # 0 /\ key \in 0 .. 9)
  <2>1. new = table
    BY <1>7 DEF Dialled
  <2>2. QED
    BY <2>1 DEF SameCallers
<1>8. QED
  BY <1>4, <1>5, <1>6, <1>7

\* A row changed in one place of the table.
LEMMA RowReplaced ==
  ASSUME NEW C, NEW table \in Seq(Row(C)), NEW r \in 1 .. Len(table),
         NEW row \in Row(C), row.channel = table[r].channel
  PROVE  LET new == [table EXCEPT ![r] = row] IN
         /\ new \in Seq(Row(C))
         /\ SameCallers(new, table)
         /\ new[r] = row
         /\ \A i \in DOMAIN table : i # r => new[i] = table[i]
<1> DEFINE new == [table EXCEPT ![r] = row]
<1> HIDE DEF new
<1>1. /\ new \in Seq(Row(C)) /\ Len(new) = Len(table)
      /\ \A i \in 1 .. Len(table) : new[i] = IF i = r THEN row ELSE table[i]
  BY ExceptSeq DEF new
<1>2. DOMAIN table = 1 .. Len(table)
  OBVIOUS
<1>3. QED
  BY <1>1, <1>2 DEF SameCallers, new

\* A click on the second column.
LEMMA SpokenRows ==
  ASSUME NEW C, NEW table \in Seq(Row(C)), NEW r \in DOMAIN table, NEW multi \in BOOLEAN
  PROVE  LET new == SpeakClicked(table, r, multi) IN
         /\ new \in Seq(Row(C))
         /\ SameCallers(new, table)
         /\ \A i \in DOMAIN table :
              /\ new[i].marked = table[i].marked
              /\ new[i].number = table[i].number
              /\ new[i].text = table[i].text \/ new[i].text = 0
<1> DEFINE new == SpeakClicked(table, r, multi)
<1>0. r \in 1 .. Len(table) /\ table[r] \in Row(C) /\ DOMAIN table = 1 .. Len(table)
  BY ElementOfSeq
<1>1. CASE table[r].unmuted
  <2> DEFINE half == [table[r] EXCEPT !.unmuted = FALSE]
             row == [half EXCEPT !.text = 0]
  <2>1. new = [table EXCEPT ![r] = row]
    BY <1>1, <1>0 DEF SpeakClicked
  <2>2. half \in Row(C) /\ half.marked = table[r].marked
      /\ half.number = table[r].number /\ half.channel = table[r].channel
    BY <1>0 DEF Row
  <2> HIDE DEF half, new
  <2>3. row \in Row(C) /\ row.marked = table[r].marked
      /\ row.number = table[r].number /\ row.channel = table[r].channel
        /\ row.text = 0
    BY <2>2 DEF Row
  <2> HIDE DEF row
  <2>4. /\ new \in Seq(Row(C)) /\ SameCallers(new, table) /\ new[r] = row
        /\ \A i \in DOMAIN table : i # r => new[i] = table[i]
    BY <1>0, <2>1, <2>3, RowReplaced
  <2>5. QED
    BY <2>3, <2>4 DEF new
<1>2. CASE ~table[r].unmuted
  <2> DEFINE row(q) == [table[q] EXCEPT !.unmuted = (q = r \/ (multi /\ table[q].unmuted))]
  <2>1. new = [q \in 1 .. Len(table) |-> row(q)]
    BY <1>2, <1>0 DEF SpeakClicked
  <2>2. ASSUME NEW q \in 1 .. Len(table)
        PROVE  /\ row(q) \in Row(C) /\ row(q).marked = table[q].marked
               /\ row(q).number = table[q].number
               /\ row(q).channel = table[q].channel /\ row(q).text = table[q].text
    <3>1. table[q] \in Row(C)
      BY ElementOfSeq
    <3>2. (q = r \/ (multi /\ table[q].unmuted)) \in BOOLEAN
      OBVIOUS
    <3>3. QED
      BY <3>1, <3>2 DEF Row
  <2> HIDE DEF row, new
  <2>3. new \in Seq(Row(C)) /\ Len(new) = Len(table)
    BY <2>1, <2>2
  <2>4. \A q \in 1 .. Len(table) : new[q] = row(q)
    BY <2>1
  <2>5. SameCallers(new, table)
    BY <2>2, <2>3, <2>4, <1>0 DEF SameCallers
  <2>6. QED
    BY <1>0, <2>2, <2>3, <2>4, <2>5 DEF new
<1>3. QED
  BY <1>1, <1>2

\* A click on the third column.
LEMMA KickedRows ==
  ASSUME NEW C, NEW table \in Seq(Row(C)), NEW r \in DOMAIN table
  PROVE  LET new == KickClicked(table, r) IN
         /\ new \in Seq(Row(C))
         /\ SameCallers(new, table)
         /\ \A i \in DOMAIN table :
              /\ new[i].marked = table[i].marked
              /\ new[i].number = table[i].number
              /\ new[i].text = table[i].text \/ new[i].text = 0
<1> DEFINE new == KickClicked(table, r)
<1>0. r \in 1 .. Len(table) /\ table[r] \in Row(C) /\ DOMAIN table = 1 .. Len(table)
  BY ElementOfSeq
<1> DEFINE half == [table[r] EXCEPT !.unmuted = FALSE]
           most == [half EXCEPT !.kicked = TRUE]
           row == [most EXCEPT !.text = 0]
<1>1. new = [table EXCEPT ![r] = row]
  BY <1>0 DEF KickClicked
<1>2. half \in Row(C) /\ half.marked = table[r].marked
      /\ half.number = table[r].number /\ half.channel = table[r].channel
  BY <1>0 DEF Row
<1> HIDE DEF half, new
<1>3. most \in Row(C) /\ most.marked = table[r].marked
      /\ most.number = table[r].number /\ most.channel = table[r].channel
  BY <1>2 DEF Row
<1> HIDE DEF most
<1>4. row \in Row(C) /\ row.marked = table[r].marked
      /\ row.number = table[r].number /\ row.channel = table[r].channel
      /\ row.text = 0
  BY <1>3 DEF Row
<1> HIDE DEF row
<1>5. /\ new \in Seq(Row(C)) /\ SameCallers(new, table) /\ new[r] = row
      /\ \A i \in DOMAIN table : i # r => new[i] = table[i]
  BY <1>0, <1>1, <1>4, RowReplaced
<1>6. QED
  BY <1>4, <1>5 DEF new

\* A table with the same callers has as many rows of each.
LEMMA SameUnique ==
  ASSUME NEW C, NEW new \in Seq(Row(C)), NEW old \in Seq(Row(C)),
         SameCallers(new, old), Unique(old)
  PROVE  Unique(new)
<1>1. DOMAIN new = DOMAIN old
  BY DEF SameCallers
<1>2. QED
  BY <1>1 DEF SameCallers, Unique

\* Tables with the same callers name the same channels.
LEMMA SameChannels ==
  ASSUME NEW C, NEW new \in Seq(Row(C)), NEW old \in Seq(Row(C)),
         SameCallers(new, old)
  PROVE  ChannelsOf(new) = ChannelsOf(old)
<1>1. DOMAIN new = DOMAIN old
  BY DEF SameCallers
<1>2. QED
  BY <1>1 DEF SameCallers, ChannelsOf

\* Listed gives no caller a second row.
LEMMA ListedUnique ==
  ASSUME NEW C, NEW table \in Seq(Row(C)), NEW c \in C, NEW unmuted \in BOOLEAN,
         Unique(table)
  PROVE  Unique(Listed(table, c, unmuted))
<1> DEFINE new == Listed(table, c, unmuted)
<1>1. /\ new \in Seq(Row(C))
      /\ \/ SameCallers(new, table)
         \/ c \notin ChannelsOf(table) /\ new = Append(table, NewRow(c, unmuted))
  BY ListedRows
<1>2. CASE SameCallers(new, table)
  BY <1>1, <1>2, SameUnique
<1>3. CASE c \notin ChannelsOf(table) /\ new = Append(table, NewRow(c, unmuted))
  <2>0. NewRow(c, unmuted).channel = c
    BY DEF NewRow
  <2> DEFINE row == NewRow(c, unmuted)
  <2> HIDE DEF row, new
  <2>1. DOMAIN new = 1 .. Len(table) + 1 /\ DOMAIN table = 1 .. Len(table)
    BY <1>3 DEF row
  <2>2. /\ new[Len(table) + 1] = row
        /\ \A i \in 1 .. Len(table) : new[i] = table[i]
    BY <1>3 DEF row
  <2>3. \A i \in 1 .. Len(table) : table[i].channel # c
    BY <1>3, <2>1 DEF ChannelsOf
  <2>4. ASSUME NEW i \in DOMAIN new, NEW j \in DOMAIN new, new[i].channel = new[j].channel
        PROVE  i = j
    <3>1. i \in 1 .. Len(table) \/ i = Len(table) + 1
      BY <2>1
    <3>2. j \in 1 .. Len(table) \/ j = Len(table) + 1
      BY <2>1
    <3>3. CASE i \in 1 .. Len(table) /\ j \in 1 .. Len(table)
      BY <2>1, <2>2, <2>4, <3>3 DEF Unique
    <3>4. row.channel = c
      BY <2>0 DEF row
    <3>5. QED
      BY <2>2, <2>3, <2>4, <3>1, <3>2, <3>3, <3>4
  <2>5. QED
    BY <2>4 DEF Unique, new
<1>4. QED
  BY <1>1, <1>2, <1>3

\* Nor does removeUnusedChannels.
LEMMA KeptUnique ==
  ASSUME NEW C, NEW table \in Seq(Row(C)), Unique(table)
  PROVE  Unique(removeUnusedChannels(table))
<1> DEFINE new == removeUnusedChannels(table)
<1>1. new \in Seq(Row(C)) /\ IsKept(new, table)
  BY KeptRows
<1>2. PICK from \in [1 .. Len(new) -> DOMAIN table \ Removed(table)] :
        /\ \A i, j \in DOMAIN from : from[i] = from[j] => i = j
        /\ \A i \in DOMAIN from : new[i] = table[from[i]]
  BY <1>1 DEF IsKept
<1> HIDE DEF new
<1>3. DOMAIN new = DOMAIN from
  BY <1>1, <1>2
<1>4. \A i \in DOMAIN from : from[i] \in DOMAIN table
  BY <1>2
<1>5. QED
  BY <1>2, <1>3, <1>4 DEF Unique, new

-----------------------------------------------------------------------------
(* Types *)

\* A kind of element taken away: RemoveAt of the community modules.
LEMMA RemovedAt ==
  ASSUME NEW S, NEW s \in Seq(S), NEW i \in 1 .. Len(s)
  PROVE  /\ RemoveAt(s, i) \in Seq(S)
         /\ \A x : x \in ToSet(RemoveAt(s, i)) => x \in ToSet(s)
         /\ \A k \in DOMAIN s : k # i => s[k] \in ToSet(RemoveAt(s, i))
<1> DEFINE a == SubSeq(s, 1, i - 1)
           b == SubSeq(s, i + 1, Len(s))
           new == a \o b
<1>1. new = RemoveAt(s, i)
  BY DEF RemoveAt
<1>2. /\ a \in Seq(S) /\ Len(a) = i - 1
      /\ \A k \in 1 .. i - 1 : a[k] = s[k]
  OBVIOUS
<1>3. /\ b \in Seq(S) /\ Len(b) = Len(s) - i
      /\ \A k \in 1 .. Len(s) - i : b[k] = s[i + k]
  OBVIOUS
<1> HIDE DEF a, b
<1>4. new \in Seq(S) /\ Len(new) = Len(s) - 1
  <2>1. new \in Seq(S) /\ Len(new) = Len(a) + Len(b)
    BY <1>2, <1>3, ConcatProperties
  <2> HIDE DEF new
  <2>2. i \in Int /\ Len(s) \in Int
    OBVIOUS
  <2>3. QED
    BY <1>2, <1>3, <2>1, <2>2
<1>5. \A k \in 1 .. Len(s) - 1 : new[k] = IF k < i THEN s[k] ELSE s[k + 1]
  <2> SUFFICES ASSUME NEW k \in 1 .. Len(s) - 1
               PROVE  new[k] = IF k < i THEN s[k] ELSE s[k + 1]
    OBVIOUS
  <2>0. k \in 1 .. Len(a) + Len(b) /\ Len(a) = i - 1
    BY <1>2, <1>3
  <2>1. new[k] = IF k <= Len(a) THEN a[k] ELSE b[k - Len(a)]
    BY <1>2, <1>3, <2>0, ConcatProperties
  <2> HIDE DEF new
  <2>2. CASE k < i
    BY <1>2, <2>0, <2>1, <2>2
  <2>3. CASE ~(k < i)
    <3>1. new[k] = b[k - (i - 1)]
      BY <2>0, <2>1, <2>3
    <3>2. k - (i - 1) \in 1 .. Len(s) - i /\ i + (k - (i - 1)) = k + 1
      BY <2>3
    <3>3. b[k - (i - 1)] = s[i + (k - (i - 1))]
      BY <1>3, <3>2
    <3>4. QED
      BY <2>3, <3>1, <3>2, <3>3
  <2>4. QED
    BY <2>2, <2>3
<1> HIDE DEF new
<1>6. ToSet(new) = {new[k] : k \in 1 .. Len(s) - 1} /\ ToSet(s) = {s[k] : k \in 1 .. Len(s)}
  BY <1>4 DEF ToSet
<1>7. \A k \in 1 .. Len(s) - 1 : new[k] \in ToSet(s)
  BY <1>5, <1>6
<1>8. ASSUME NEW k \in 1 .. Len(s), k # i PROVE s[k] \in ToSet(new)
  <2>1. CASE k < i
    BY <1>5, <1>6, <2>1
  <2>2. CASE k > i
    <3>1. k - 1 \in 1 .. Len(s) - 1 /\ new[k - 1] = s[k]
      BY <1>5, <2>2
    <3>2. QED
      BY <1>6, <3>1
  <2>3. QED
    BY <1>8, <2>1, <2>2
<1>9. \A x : x \in ToSet(new) => x \in ToSet(s)
  BY <1>6, <1>7
<1>10. DOMAIN s = 1 .. Len(s)
  OBVIOUS
<1>11. QED
  BY <1>1, <1>4, <1>8, <1>9, <1>10

Entries == [channel : Channels \cup {Own, Cut}, unmuted : BOOLEAN, own : BOOLEAN]

\* What the manager says in words.
Words ==
  {"Success", "Error", "Follows", "Authentication accepted", "Authentication failed",
   "No active conferences.", "Permission denied", "Confbridge user list will follow",
   "User", "Registered", "Rejected", "--END COMMAND--", "DTMFEnd", "Newstate"}

\* What a line on the wire may be.
Lines ==
  [key : {"Response", "Message", "Trunk", "Output", "Event"}, value : Words \cup {Cut}]
    \cup [key : {"Channel"}, value : Channels \cup {Own, Cut}]
    \cup [key : {"Digit"}, value : Keys \cup {Cut}]
    \cup [key : {"Entry"}, value : Entries]
    \cup [key : {"ListItems"}, value : Int]
    \cup [key : {"Torn"}, value : {Cut}]

ActionNames ==
  {"Login", "ConfBridgeList", "Registry", "ConfbridgeMute", "ConfbridgeUnmute",
   "ConfbridgeKick"}

Actions == [name : ActionNames, channel : Channels \cup {Own, NoChannel, Cut}]

\* A line that is whole tells a caller's entry from the program's own, and a
\* list has at least one participant.
WholeLine(line) ==
  /\ line.key = "Entry" => /\ line.value.channel \in Channels \cup {Own}
                           /\ line.value.own = (line.value.channel = Own)
  /\ line.key = "ListItems" => line.value >= 1

\* The channels a row may have.
RowChannels == IF Whole THEN Channels ELSE Channels \cup {Own, Cut}

WholeLines(t) == \A i \in DOMAIN t : WholeLine(t[i])

\* The part of TypeOK that is not the wire.
GuiTyped ==
  /\ state \in ParserStates
  /\ parse \in BOOLEAN
  /\ admin \in {0, 1}
  /\ pbxRq \in BOOLEAN /\ pbxOk \in BOOLEAN /\ trunkOk \in BOOLEAN
  /\ inetTimeout \in 0 .. INET_TIMEOUT + 1
  /\ rows \in Seq(Row(RowChannels))
  /\ listens \in Int /\ (Whole => listens >= 0)
  /\ dtmfChannel \in Channels \cup {Own, NoChannel, Cut}

PbxTyped ==
  /\ up \in BOOLEAN
  /\ conf \in Seq(Participant)
  /\ joined \subseteq Channels
  /\ trunk \in {"Registered", "Rejected"}
  /\ events \in 0 .. scenario.maxEvents
  /\ outage \in BOOLEAN
  /\ dialled \in [Channels -> SUBSET (0 .. 9)]

SockTyped == sock \in {"closed", "connecting", "connected", "dead"}

WireTyped ==
  /\ toServer \in Seq(Actions)
  /\ toClient \in Seq(Lines)
  /\ Whole => WholeLines(toClient)

TypeInv == scenario \in Scenarios /\ GuiTyped /\ PbxTyped /\ SockTyped /\ WireTyped

\* The sequence of one element.
LEMMA OneElement ==
  ASSUME NEW S, NEW x \in S
  PROVE  <<x>> \in Seq(S) /\ Len(<<x>>) = 1 /\ <<x>>[1] = x
OBVIOUS

\* An action on the wire.
LEMMA ActionTyped ==
  ASSUME NEW name \in ActionNames, NEW c \in Channels \cup {Own, NoChannel, Cut}
  PROVE  Action(name, c) \in Actions /\ <<Action(name, c)>> \in Seq(Actions)
<1>1. Action(name, c) \in Actions
  BY DEF Action, Actions
<1>2. QED
  BY <1>1, OneElement

\* Write leaves actions on the wire.
LEMMA WrittenTyped ==
  ASSUME toServer \in Seq(Actions), NEW actions \in Seq(Actions), Write(actions)
  PROVE  toServer' \in Seq(Actions)
BY DEF Write

\* What the keys of the lines say of their values.
LEMMA LineTyped ==
  ASSUME NEW line \in Lines
  PROVE  /\ line.key \in LineKeys
         /\ line.key = "Channel" => line.value \in Channels \cup {Own, Cut}
         /\ line.key = "Digit" => line.value \in Keys \cup {Cut}
         /\ line.key = "Entry" => line.value \in Entries
         /\ line.key = "ListItems" => line.value \in Int
BY DEF Lines, LineKeys

\* The wire's part of TypeOK.
LEMMA LinesTyped ==
  ASSUME NEW s \in Seq(Actions), NEW t \in Seq(Lines)
  PROVE  /\ \A i \in DOMAIN s : s[i].channel \in Channels \cup {Own, NoChannel, Cut}
         /\ \A i \in DOMAIN t : t[i].key \in LineKeys
<1>1. \A i \in DOMAIN s : s[i] \in Actions
  BY ElementOfSeq
<1>2. \A i \in DOMAIN t : t[i] \in Lines
  BY ElementOfSeq
<1>3. \A a \in Actions : a.channel \in Channels \cup {Own, NoChannel, Cut}
  BY DEF Actions
<1>4. QED
  BY <1>1, <1>2, <1>3, LineTyped

\* The invariant gives TypeOK.
LEMMA TypeInvOK == TypeInv => TypeOK
<1> SUFFICES ASSUME TypeInv PROVE TypeOK
  OBVIOUS
<1>1. /\ \A i \in DOMAIN toServer : toServer[i].channel \in Channels \cup {Own, NoChannel, Cut}
      /\ \A i \in DOMAIN toClient : toClient[i].key \in LineKeys
  BY LinesTyped DEF TypeInv, WireTyped
<1>2. QED
  BY <1>1 DEF TypeInv, TypeOK, GuiTyped, PbxTyped, SockTyped, RowChannels

\* The line that is read, and the ones behind it.
LEMMA HeadAndTail ==
  ASSUME NEW S, NEW t \in Seq(S), t # << >>
  PROVE  /\ Head(t) \in S /\ Head(t) = t[1] /\ 1 \in DOMAIN t
         /\ Tail(t) \in Seq(S) /\ Len(Tail(t)) = Len(t) - 1
         /\ \A i \in 1 .. Len(t) - 1 : Tail(t)[i] = t[i + 1]
OBVIOUS

\* Lines added at the end.
LEMMA Added ==
  ASSUME NEW S, NEW t \in Seq(S), NEW lines \in Seq(S)
  PROVE  /\ t \o lines \in Seq(S) /\ Len(t \o lines) = Len(t) + Len(lines)
         /\ \A i \in 1 .. Len(t) : (t \o lines)[i] = t[i]
         /\ \A i \in Len(t) + 1 .. Len(t) + Len(lines) :
              (t \o lines)[i] = lines[i - Len(t)]
<1> DEFINE new == t \o lines
<1>1. /\ new \in Seq(S) /\ Len(new) = Len(t) + Len(lines)
      /\ \A i \in 1 .. Len(t) + Len(lines) :
           new[i] = IF i <= Len(t) THEN t[i] ELSE lines[i - Len(t)]
  BY ConcatProperties
<1> HIDE DEF new
<1>2. Len(t) \in Nat /\ Len(lines) \in Nat
  OBVIOUS
<1>3. \A i \in 1 .. Len(t) : new[i] = t[i]
  BY <1>1, <1>2
<1>4. ASSUME NEW i \in Len(t) + 1 .. Len(t) + Len(lines)
      PROVE  new[i] = lines[i - Len(t)]
  BY <1>1, <1>2
<1>5. QED
  BY <1>1, <1>3, <1>4 DEF new

\* What is left of the wire when a line was read is lines, whole if they were.
LEMMA TailWire ==
  ASSUME TypeInv, toClient # << >>
  PROVE  /\ Head(toClient) \in Lines
         /\ Tail(toClient) \in Seq(Lines)
         /\ Whole => WholeLine(Head(toClient)) /\ WholeLines(Tail(toClient))
<1>1. toClient \in Seq(Lines) /\ (Whole => WholeLines(toClient))
  BY DEF TypeInv, WireTyped
<1>2. /\ Head(toClient) \in Lines /\ Head(toClient) = toClient[1] /\ 1 \in DOMAIN toClient
      /\ Tail(toClient) \in Seq(Lines) /\ Len(Tail(toClient)) = Len(toClient) - 1
      /\ \A i \in 1 .. Len(toClient) - 1 : Tail(toClient)[i] = toClient[i + 1]
  BY <1>1, HeadAndTail
<1>3. ASSUME Whole, NEW i \in DOMAIN Tail(toClient) PROVE WholeLine(Tail(toClient)[i])
  <2>1. i \in 1 .. Len(toClient) - 1 /\ i + 1 \in DOMAIN toClient
    BY <1>1, <1>2
  <2>2. QED
    BY <1>1, <1>2, <1>3, <2>1 DEF WholeLines
<1>4. QED
  BY <1>1, <1>2, <1>3 DEF WholeLines

\* An answer leaves lines on the wire.
LEMMA AnsweredWire ==
  ASSUME TypeInv, NEW lines \in Seq(Lines), Whole => WholeLines(lines)
  PROVE  /\ toClient \o lines \in Seq(Lines)
         /\ Whole => WholeLines(toClient \o lines)
<1>1. toClient \in Seq(Lines) /\ (Whole => WholeLines(toClient))
  BY DEF TypeInv, WireTyped
<1> DEFINE new == toClient \o lines
<1>2. /\ new \in Seq(Lines) /\ Len(new) = Len(toClient) + Len(lines)
      /\ \A i \in 1 .. Len(toClient) : new[i] = toClient[i]
      /\ \A i \in Len(toClient) + 1 .. Len(toClient) + Len(lines) :
           new[i] = lines[i - Len(toClient)]
  BY <1>1, Added
<1> HIDE DEF new
<1>3. ASSUME Whole, NEW i \in DOMAIN new PROVE WholeLine(new[i])
  <2>1. CASE i \in 1 .. Len(toClient)
    BY <1>1, <1>2, <1>3, <2>1 DEF WholeLines
  <2>2. CASE i \in Len(toClient) + 1 .. Len(toClient) + Len(lines)
    <3>1. i - Len(toClient) \in DOMAIN lines
      BY <1>1, <2>2
    <3>2. QED
      BY <1>2, <1>3, <2>2, <3>1 DEF WholeLines
  <2>3. QED
    BY <1>1, <1>2, <2>1, <2>2
<1>4. QED
  BY <1>2, <1>3 DEF WholeLines, new

\* The state at the start has its types.
LEMMA TypeInit == Init => TypeInv
<1> SUFFICES ASSUME Init PROVE TypeInv
  OBVIOUS
<1>1. << >> \in Seq(Lines) /\ << >> \in Seq(Actions) /\ << >> \in Seq(Participant)
      /\ << >> \in Seq(Row(RowChannels))
  OBVIOUS
<1>2. scenario.maxEvents \in Nat
  BY PbxMonitorAssumption DEF Init, Scenario
<1>3. GuiTyped
  <2>1. INET_TIMEOUT \in 0 .. INET_TIMEOUT + 1
    BY PbxMonitorAssumption
  <2>2. listens \in Int /\ listens >= 0 /\ admin \in {0, 1}
    BY DEF Init
  <2>3. /\ pbxRq \in BOOLEAN /\ pbxOk \in BOOLEAN /\ trunkOk \in BOOLEAN
        /\ rows \in Seq(Row(RowChannels))
        /\ dtmfChannel \in Channels \cup {Own, NoChannel, Cut}
    BY <1>1, Zenon DEF Init
  <2>4. QED
    BY <2>1, <2>2, <2>3 DEF Init, GuiTyped
<1>4. PbxTyped
  <2>1. events \in 0 .. scenario.maxEvents
    BY <1>2 DEF Init
  <2>2. QED
    BY <1>1, <2>1 DEF Init, PbxTyped
<1>5. SockTyped /\ WireTyped
  BY <1>1 DEF Init, SockTyped, WireTyped, WholeLines
<1>6. QED
  BY <1>3, <1>4, <1>5 DEF Init, TypeInv

\* The poll keeps the types.
LEMMA TypeTick == TypeInv /\ Tick => TypeInv'
<1> SUFFICES ASSUME TypeInv, Tick PROVE TypeInv'
  OBVIOUS
<1>0. Whole' = Whole /\ RowChannels' = RowChannels
  BY DEF Tick, Whole, RowChannels, pbx
<1>1. rows' \in Seq(Row(RowChannels))
  <2>1. rows \in Seq(Row(RowChannels))
    BY DEF TypeInv, GuiTyped
  <2>2. rows' = rows \/ rows' = markAllChannels(rows, FALSE)
    BY DEF Tick, checkPBX, switchedOff
  <2>3. QED
    BY <2>1, <2>2, MarkedRows
<1>2. WireTyped'
  <2>1. <<Action("ConfBridgeList", NoChannel)>> \in Seq(Actions)
    <3>1. "ConfBridgeList" \in ActionNames /\ NoChannel \in Channels \cup {Own, NoChannel, Cut}
      BY DEF ActionNames
    <3>2. QED
      BY <3>1, ActionTyped
  <2>2. WireTyped
    BY DEF TypeInv
  <2>3. /\ \/ toServer' = toServer \/ toServer' = << >>
           \/ Write(<<Action("ConfBridgeList", NoChannel)>>)
        /\ toClient' = toClient \/ toClient' = << >>
    BY DEF Tick, checkPBX, switchedOff, Connect, Disconnect
  <2>4. toServer' \in Seq(Actions)
    <3>1. toServer \in Seq(Actions) /\ << >> \in Seq(Actions)
      BY <2>2 DEF WireTyped
    <3>2. QED
      BY <2>1, <2>3, <3>1, WrittenTyped
  <2>5. << >> \in Seq(Lines) /\ WholeLines(<< >>)
    BY DEF WholeLines
  <2>6. QED
    BY <1>0, <2>2, <2>3, <2>4, <2>5 DEF WireTyped
<1>3. GuiTyped'
  <2>1. /\ state' \in ParserStates /\ parse' \in BOOLEAN /\ admin' \in {0, 1}
        /\ pbxRq' \in BOOLEAN /\ pbxOk' \in BOOLEAN
    BY DEF TypeInv, GuiTyped, Tick, checkPBX, switchedOff, ParserStates
  <2>2. inetTimeout' \in 0 .. INET_TIMEOUT + 1
    BY PbxMonitorAssumption DEF TypeInv, GuiTyped, Tick
  <2>3. UNCHANGED <<trunkOk, listens, dtmfChannel>>
    BY DEF Tick
  <2>4. QED
    BY <1>0, <1>1, <2>1, <2>2, <2>3 DEF TypeInv, GuiTyped
<1>4. SockTyped'
  BY DEF TypeInv, SockTyped, Tick, checkPBX, switchedOff, Connect, Disconnect
<1>5. QED
  BY <1>2, <1>3, <1>4 DEF TypeInv, Tick, pbx, history, PbxTyped

\* The connection that is made keeps the types.
LEMMA TypeConnected == TypeInv /\ Connected => TypeInv'
<1> SUFFICES ASSUME TypeInv, Connected PROVE TypeInv'
  OBVIOUS
<1>0. Whole' = Whole /\ RowChannels' = RowChannels
  BY DEF Connected, Whole, RowChannels, pbx
<1>1. <<Action("Login", NoChannel)>> \in Seq(Actions)
  <2>1. "Login" \in ActionNames /\ NoChannel \in Channels \cup {Own, NoChannel, Cut}
    BY DEF ActionNames
  <2>2. QED
    BY <2>1, ActionTyped
<1>2. WireTyped'
  BY <1>0, <1>1 DEF TypeInv, WireTyped, Connected
<1>3. GuiTyped' /\ SockTyped'
  BY <1>0 DEF TypeInv, GuiTyped, Connected, ParserStates, SockTyped
<1>4. QED
  BY <1>2, <1>3 DEF TypeInv, Connected, pbx, PbxTyped

\* What every step of the parser leaves alone.
LEMMA ReadLeaves ==
  ASSUME TypeInv, NEW states, Read(states)
  PROVE  /\ scenario' = scenario /\ scenario' \in Scenarios /\ PbxTyped'
         /\ Whole' = Whole /\ RowChannels' = RowChannels
         /\ pbxRq' = FALSE /\ inetTimeout' = inetTimeout
         /\ sock = "connected" /\ toClient # << >> /\ state \in states
  BY DEF Read, TypeInv, PbxTyped, pbx, history, Whole, RowChannels

\* The answer to the login keeps the types.
LEMMA TypeReadLogin == TypeInv /\ ReadLogin => TypeInv'
<1> SUFFICES ASSUME TypeInv, ReadLogin PROVE TypeInv'
  OBVIOUS
<1>0. Read({"LOGIN"})
  BY DEF ReadLogin
<1>1. /\ scenario' = scenario /\ scenario' \in Scenarios /\ PbxTyped'
      /\ Whole' = Whole /\ RowChannels' = RowChannels
      /\ pbxRq' = FALSE /\ inetTimeout' = inetTimeout
      /\ sock = "connected" /\ toClient # << >>
  BY <1>0, ReadLeaves
<1>2. <<Action("ConfBridgeList", NoChannel)>> \in Seq(Actions)
  <2>1. "ConfBridgeList" \in ActionNames /\ NoChannel \in Channels \cup {Own, NoChannel, Cut}
    BY DEF ActionNames
  <2>2. QED
    BY <2>1, ActionTyped
<1>3. toServer' \in Seq(Actions)
  <2>1. toServer \in Seq(Actions) /\ << >> \in Seq(Actions)
    BY DEF TypeInv, WireTyped
  <2>2. \/ toServer' = toServer \/ toServer' = << >>
        \/ Write(<<Action("ConfBridgeList", NoChannel)>>)
    BY DEF ReadLogin, Disconnect
  <2>3. QED
    BY <1>2, <2>1, <2>2, WrittenTyped
<1>4. toClient' = << >> \/ toClient' = Tail(toClient)
  BY DEF ReadLogin, Disconnect
<1>5. WireTyped'
  <2>1. << >> \in Seq(Lines) /\ WholeLines(<< >>)
    BY DEF WholeLines
  <2>2. QED
    BY <1>1, <1>3, <1>4, <2>1, TailWire DEF WireTyped
<1>6. GuiTyped'
  <2>1. << >> \in Seq(Row(RowChannels))
    OBVIOUS
  <2>2. QED
    BY <1>1, <2>1 DEF ReadLogin, TypeInv, GuiTyped, ParserStates
<1>7. SockTyped'
  BY DEF TypeInv, SockTyped, ReadLogin, Disconnect
<1>8. QED
  BY <1>1, <1>5, <1>6, <1>7 DEF TypeInv

\* Head of the wire, read by what the line says.
LEMMA HeadTyped ==
  ASSUME TypeInv, toClient # << >>
  PROVE  LET line == Head(toClient) IN
         /\ line.key = "Channel" => line.value \in Channels \cup {Own, Cut}
         /\ line.key = "Digit" => line.value \in Keys \cup {Cut}
         /\ line.key = "Entry" => /\ line.value \in Entries
                                  /\ ~line.value.own => line.value.channel \in RowChannels
         /\ line.key = "ListItems" => line.value \in Int /\ (Whole => line.value >= 1)
<1> DEFINE line == Head(toClient)
<1>1. line \in Lines /\ (Whole => WholeLine(line))
  BY TailWire
<1> HIDE DEF line
<1>2. /\ line.key = "Channel" => line.value \in Channels \cup {Own, Cut}
      /\ line.key = "Digit" => line.value \in Keys \cup {Cut}
      /\ line.key = "Entry" => line.value \in Entries
      /\ line.key = "ListItems" => line.value \in Int
  BY <1>1, LineTyped
<1>3. ASSUME line.key = "Entry", ~line.value.own
      PROVE  line.value.channel \in RowChannels
  <2>1. line.value.channel \in Channels \cup {Own, Cut}
    BY <1>2, <1>3 DEF Entries
  <2>2. Whole => line.value.channel \in Channels
    BY <1>1, <1>3 DEF WholeLine
  <2>3. QED
    BY <2>1, <2>2 DEF RowChannels
<1>4. Whole /\ line.key = "ListItems" => line.value >= 1
  BY <1>1 DEF WholeLine
<1>5. QED
  BY <1>2, <1>3, <1>4 DEF line

\* A line of the list keeps the types: a count is at least the one own entry.
LEMMA TypeReadConference == TypeInv /\ ReadConference => TypeInv'
<1> SUFFICES ASSUME TypeInv, ReadConference PROVE TypeInv'
  OBVIOUS
<1> DEFINE line == Head(toClient)
<1>0. Read({"CONFERENCE"})
  BY DEF ReadConference
<1>1. /\ scenario' = scenario /\ scenario' \in Scenarios /\ PbxTyped'
      /\ Whole' = Whole /\ RowChannels' = RowChannels
      /\ pbxRq' = FALSE /\ inetTimeout' = inetTimeout
      /\ sock = "connected" /\ toClient # << >>
  BY <1>0, ReadLeaves
<1>2. /\ line.key = "Entry" => /\ line.value \in Entries
                               /\ ~line.value.own => line.value.channel \in RowChannels
      /\ line.key = "ListItems" => line.value \in Int /\ (Whole => line.value >= 1)
  BY <1>1, HeadTyped
<1>3. toServer' \in Seq(Actions)
  <2>1. <<Action("Registry", NoChannel)>> \in Seq(Actions)
    <3>1. "Registry" \in ActionNames /\ NoChannel \in Channels \cup {Own, NoChannel, Cut}
      BY DEF ActionNames
    <3>2. QED
      BY <3>1, ActionTyped
  <2>2. toServer \in Seq(Actions)
    BY DEF TypeInv, WireTyped
  <2>3. toServer' = toServer \/ Write(<<Action("Registry", NoChannel)>>)
    BY DEF ReadConference, ListEnds
  <2>4. QED
    BY <2>1, <2>2, <2>3, WrittenTyped
<1>4. WireTyped'
  BY <1>1, <1>3, TailWire DEF WireTyped, ReadConference
<1>5. rows' \in Seq(Row(RowChannels))
  <2>1. rows \in Seq(Row(RowChannels)) /\ << >> \in Seq(Row(RowChannels))
    BY DEF TypeInv, GuiTyped
  <2>2. \/ rows' = rows \/ rows' = << >>
        \/ rows' = removeUnusedChannels(rows)
        \/ /\ line.key = "Entry" /\ ~line.value.own
           /\ rows' = Listed(rows, line.value.channel, line.value.unmuted)
    BY DEF ReadConference, ListEnds, showListenersCount
  <2>3. CASE /\ line.key = "Entry" /\ ~line.value.own
             /\ rows' = Listed(rows, line.value.channel, line.value.unmuted)
    <3> HIDE DEF line
    <3>0. line.value \in Entries /\ line.value.channel \in RowChannels
      BY <1>2, <2>3, Zenon
    <3>1. line.value.unmuted \in BOOLEAN
      <4>1. \A e \in Entries : e.unmuted \in BOOLEAN
        BY DEF Entries
      <4>2. QED
        BY <3>0, <4>1, Zenon
    <3>2. QED
      BY <2>1, <2>3, <3>0, <3>1, ListedRows
  <2>4. QED
    BY <2>1, <2>2, <2>3, KeptRows
<1>6. listens' \in Int /\ (Whole => listens' >= 0)
  <2>1. listens \in Int /\ (Whole => listens >= 0) /\ admin \in {0, 1}
    BY DEF TypeInv, GuiTyped
  <2>2. \/ listens' = listens \/ listens' = 0
        \/ line.key = "ListItems" /\ listens' = line.value - admin
    BY DEF ReadConference, ListEnds, showListenersCount
  <2> HIDE DEF line
  <2>3. CASE line.key = "ListItems" /\ listens' = line.value - admin
    <3>1. line.value \in Int /\ (Whole => line.value >= 1)
      BY <1>2, <2>3
    <3>2. QED
      BY <2>1, <2>3, <3>1
  <2>4. QED
    BY <2>1, <2>2, <2>3
<1>7. /\ state' \in ParserStates /\ parse' \in BOOLEAN /\ admin' \in {0, 1}
      /\ pbxOk' = TRUE /\ trunkOk' = trunkOk /\ dtmfChannel' = dtmfChannel
  BY DEF TypeInv, GuiTyped, ReadConference, ListEnds, ParserStates
<1>8. GuiTyped'
  BY <1>1, <1>5, <1>6, <1>7 DEF TypeInv, GuiTyped
<1>9. SockTyped'
  BY DEF TypeInv, SockTyped, ReadConference
<1>10. QED
  BY <1>1, <1>4, <1>8, <1>9 DEF TypeInv

\* The lines of the other answers and events keep the types.
LEMMA TypeReadOther == TypeInv /\ (ReadTrunk \/ ReadIdle \/ ReadKey) => TypeInv'
<1> SUFFICES ASSUME TypeInv, ReadTrunk \/ ReadIdle \/ ReadKey PROVE TypeInv'
  OBVIOUS
<1> DEFINE line == Head(toClient)
<1>1. /\ scenario' = scenario /\ scenario' \in Scenarios /\ PbxTyped'
      /\ Whole' = Whole /\ RowChannels' = RowChannels
      /\ pbxRq' = FALSE /\ inetTimeout' = inetTimeout
      /\ sock = "connected" /\ toClient # << >>
  BY ReadLeaves DEF ReadTrunk, ReadIdle, ReadKey
<1>2. /\ toClient' = Tail(toClient) /\ toServer' = toServer /\ sock' = sock
      /\ pbxOk' = TRUE /\ admin' = admin /\ listens' = listens
  BY DEF ReadTrunk, ReadIdle, ReadKey
<1>3. WireTyped'
  BY <1>1, <1>2, TailWire DEF TypeInv, WireTyped
<1>4. /\ line.key = "Channel" => line.value \in Channels \cup {Own, Cut}
      /\ line.key = "Digit" => line.value \in Keys \cup {Cut}
  BY <1>1, HeadTyped
<1>5. rows' \in Seq(Row(RowChannels))
  <2>1. rows \in Seq(Row(RowChannels))
    BY DEF TypeInv, GuiTyped
  <2>2. \/ rows' = rows
        \/ line.key = "Digit" /\ rows' = Dialled(rows, dtmfChannel, line.value)
    BY DEF ReadTrunk, ReadIdle, ReadKey
  <2> HIDE DEF line
  <2>3. QED
    BY <1>4, <2>1, <2>2, DialledRows
<1>6. /\ state' \in ParserStates /\ parse' \in BOOLEAN /\ trunkOk' \in BOOLEAN
      /\ dtmfChannel' \in Channels \cup {Own, NoChannel, Cut}
  <2>1. state' \in ParserStates
    BY DEF TypeInv, GuiTyped, ReadTrunk, ReadIdle, ReadKey, ParserStates
  <2>2. parse' \in BOOLEAN /\ trunkOk' \in BOOLEAN
    BY DEF TypeInv, GuiTyped, ReadTrunk, ReadIdle, ReadKey, Is
  <2>3. dtmfChannel' \in Channels \cup {Own, NoChannel, Cut}
    BY <1>4 DEF TypeInv, GuiTyped, ReadTrunk, ReadIdle, ReadKey
  <2>4. QED
    BY <2>1, <2>2, <2>3
<1>7. GuiTyped' /\ SockTyped'
  BY <1>1, <1>2, <1>5, <1>6 DEF TypeInv, GuiTyped, SockTyped
<1>8. QED
  BY <1>1, <1>3, <1>7 DEF TypeInv

\* What a click writes.
LEMMA SpeakActionsTyped ==
  ASSUME TypeInv, NEW r \in DOMAIN rows
  PROVE  /\ SpeakActions(r) \in Seq(Actions)
         /\ <<Action("ConfbridgeKick", rows[r].channel)>> \in Seq(Actions)
<1>1. rows \in Seq(Row(RowChannels)) /\ DOMAIN rows = 1 .. Len(rows)
  BY DEF TypeInv, GuiTyped
<1>2. ASSUME NEW q \in DOMAIN rows
      PROVE  rows[q].channel \in Channels \cup {Own, NoChannel, Cut}
  <2>1. rows[q] \in Row(RowChannels)
    BY <1>1, ElementOfSeq
  <2>2. QED
    BY <2>1 DEF Row, RowChannels
<1>3. ASSUME NEW name \in ActionNames, NEW q \in DOMAIN rows
      PROVE  /\ Action(name, rows[q].channel) \in Actions
             /\ <<Action(name, rows[q].channel)>> \in Seq(Actions)
  BY <1>2, ActionTyped
<1>4. {"ConfbridgeMute", "ConfbridgeUnmute", "ConfbridgeKick"} \subseteq ActionNames
  BY DEF ActionNames
<1> DEFINE mutes == [q \in DOMAIN rows |-> Action("ConfbridgeMute", rows[q].channel)]
<1>5. mutes \in Seq(Actions) /\ << >> \in Seq(Actions)
  <2>1. \A q \in 1 .. Len(rows) : Action("ConfbridgeMute", rows[q].channel) \in Actions
    BY <1>1, <1>3, <1>4
  <2>2. mutes = [q \in 1 .. Len(rows) |-> Action("ConfbridgeMute", rows[q].channel)]
    BY <1>1
  <2> HIDE DEF mutes
  <2>3. Len(rows) \in Nat
    BY <1>1
  <2>4. QED
    BY <2>1, <2>2, <2>3
<1> HIDE DEF mutes
<1>6. /\ <<Action("ConfbridgeMute", rows[r].channel)>> \in Seq(Actions)
      /\ <<Action("ConfbridgeUnmute", rows[r].channel)>> \in Seq(Actions)
      /\ <<Action("ConfbridgeKick", rows[r].channel)>> \in Seq(Actions)
  BY <1>3, <1>4
<1>7. SpeakActions(r) \in
        {<<Action("ConfbridgeMute", rows[r].channel)>>,
         << >> \o <<Action("ConfbridgeUnmute", rows[r].channel)>>,
         mutes \o <<Action("ConfbridgeUnmute", rows[r].channel)>>}
  BY DEF SpeakActions, mutes
<1>8. /\ << >> \o <<Action("ConfbridgeUnmute", rows[r].channel)>> \in Seq(Actions)
      /\ mutes \o <<Action("ConfbridgeUnmute", rows[r].channel)>> \in Seq(Actions)
  BY <1>5, <1>6, Added
<1>9. SpeakActions(r) \in Seq(Actions)
  BY <1>6, <1>7, <1>8, Zenon
<1>10. QED
  BY <1>6, <1>9

\* A click keeps the types.
LEMMA TypeClick == TypeInv /\ ClickStep => TypeInv'
<1> SUFFICES ASSUME TypeInv, NEW r \in DOMAIN rows, ClickSpeak(r) \/ ClickKick(r)
             PROVE  TypeInv'
  BY DEF ClickStep
<1>1. /\ UNCHANGED <<sock, toClient, pbx, outage, dialled>> /\ GuiUnchanged
      /\ Counted
  BY DEF ClickSpeak, ClickKick, Disturb
<1>2. Whole' = Whole /\ RowChannels' = RowChannels /\ scenario' = scenario
  BY <1>1 DEF Whole, RowChannels, pbx
<1>3. toServer' \in Seq(Actions)
  BY SpeakActionsTyped, WrittenTyped DEF ClickSpeak, ClickKick, TypeInv, WireTyped
<1>4. rows' \in Seq(Row(RowChannels))
  <2>1. scenario.multi \in BOOLEAN
    BY PbxMonitorAssumption DEF TypeInv, Scenario
  <2>2. rows \in Seq(Row(RowChannels))
    BY DEF TypeInv, GuiTyped
  <2>3. QED
    BY <2>1, <2>2, SpokenRows, KickedRows DEF ClickSpeak, ClickKick
<1>5. GuiTyped'
  BY <1>1, <1>2, <1>4 DEF TypeInv, GuiTyped, GuiUnchanged
<1>6. events' \in 0 .. scenario.maxEvents
  <2>1. scenario.maxEvents \in Nat
    BY PbxMonitorAssumption DEF TypeInv, Scenario
  <2>2. events \in 0 .. scenario.maxEvents
    BY DEF TypeInv, PbxTyped
  <2>3. QED
    BY <1>1, <2>1, <2>2 DEF Counted
<1>7. PbxTyped'
  BY <1>1, <1>2, <1>6 DEF TypeInv, PbxTyped, pbx
<1>8. WireTyped' /\ SockTyped'
  BY <1>1, <1>2, <1>3 DEF TypeInv, WireTyped, SockTyped
<1>9. QED
  BY <1>1, <1>2, <1>5, <1>7, <1>8 DEF TypeInv

\* The sequence of two elements.
LEMMA TwoElements ==
  ASSUME NEW S, NEW x \in S, NEW y \in S
  PROVE  <<x, y>> \in Seq(S) /\ Len(<<x, y>>) = 2 /\ <<x, y>>[1] = x /\ <<x, y>>[2] = y
OBVIOUS

\* The sequence of three elements.
LEMMA ThreeElements ==
  ASSUME NEW S, NEW x \in S, NEW y \in S, NEW z \in S
  PROVE  /\ <<x, y, z>> \in Seq(S) /\ Len(<<x, y, z>>) = 3
         /\ <<x, y, z>>[1] = x /\ <<x, y, z>>[2] = y /\ <<x, y, z>>[3] = z
OBVIOUS

\* A line that is said in words.
WordKeys == {"Response", "Message", "Trunk", "Output", "Event"}

\* A line of words is a whole line.
LEMMA WordLine ==
  ASSUME NEW key \in WordKeys, NEW value \in Words \cup {Cut}
  PROVE  Line(key, value) \in Lines /\ WholeLine(Line(key, value))
<1>1. Line(key, value) \in Lines
  BY DEF Line, Lines, WordKeys
<1>2. WholeLine(Line(key, value))
  BY DEF Line, WholeLine, WordKeys
<1>3. QED
  BY <1>1, <1>2

\* The lines of a key event are whole lines.
LEMMA KeyLine ==
  ASSUME NEW c \in Channels \cup {Own}, NEW k \in Keys
  PROVE  /\ Line("Channel", c) \in Lines /\ WholeLine(Line("Channel", c))
         /\ Line("Digit", k) \in Lines /\ WholeLine(Line("Digit", k))
BY DEF Line, Lines, WholeLine

\* The answer to a login.
LoginLines ==
  IF scenario.goodLogin
  THEN <<Line("Response", "Success"), Line("Message", "Authentication accepted")>>
  ELSE <<Line("Response", "Error"), Line("Message", "Authentication failed")>>

\* The entries of a list.
ListEntries == [i \in DOMAIN conf |-> Line("Entry", Entry(conf[i]))]

NoListLines ==
  <<Line("Response", "Error"),
    Line("Message", IF scenario.goodLogin THEN "No active conferences."
                    ELSE "Permission denied")>>

ListHead ==
  <<Line("Response", "Success"), Line("Message", "Confbridge user list will follow")>>

RegistryLines ==
  <<Line("Response", "Follows"), Line("Trunk", trunk),
    Line("Output", "--END COMMAND--")>>

\* The entries of the list are whole lines, one for each participant.
LEMMA EntriesTyped ==
  ASSUME TypeInv
  PROVE  /\ ListEntries \in Seq(Lines) /\ Len(ListEntries) = Len(conf)
         /\ \A i \in 1 .. Len(conf) :
              /\ ListEntries[i] = Line("Entry", Entry(conf[i]))
              /\ conf[i] \in Participant
         /\ WholeLines(ListEntries)
<1>1. conf \in Seq(Participant)
  BY DEF TypeInv, PbxTyped
<1>2. ASSUME NEW i \in 1 .. Len(conf)
      PROVE  /\ conf[i] \in Participant
             /\ Line("Entry", Entry(conf[i])) \in Lines
             /\ WholeLine(Line("Entry", Entry(conf[i])))
  <2>1. conf[i] \in Participant
    BY <1>1, ElementOfSeq
  <2> DEFINE p == conf[i]
  <2> HIDE DEF p
  <2>2. p \in Participant
    BY <2>1 DEF p
  <2>3. Entry(p) \in Entries
    BY <2>2 DEF Entry, Entries, Participant
  <2>4. /\ Entry(p).channel \in Channels \cup {Own}
        /\ Entry(p).own = (Entry(p).channel = Own)
    BY <2>2 DEF Entry, Participant
  <2> DEFINE e == Entry(p)
  <2> HIDE DEF e
  <2>5. e \in Entries /\ e.channel \in Channels \cup {Own} /\ e.own = (e.channel = Own)
    BY <2>3, <2>4, Zenon DEF e
  <2>6. Line("Entry", e) \in Lines
    BY <2>5 DEF Line, Lines
  <2>7. Line("Entry", e).key = "Entry" /\ Line("Entry", e).value = e
    BY DEF Line
  <2>8. WholeLine(Line("Entry", e))
    BY <2>5, <2>7 DEF WholeLine
  <2>9. QED
    BY <2>1, <2>6, <2>8 DEF e, p
<1>3. ListEntries = [i \in 1 .. Len(conf) |-> Line("Entry", Entry(conf[i]))]
  BY <1>1 DEF ListEntries
<1>4. ListEntries \in Seq(Lines) /\ Len(ListEntries) = Len(conf)
  <2> DEFINE l(i) == Line("Entry", Entry(conf[i]))
  <2>1. \A i \in 1 .. Len(conf) : l(i) \in Lines
    BY <1>2
  <2>2. ListEntries = [i \in 1 .. Len(conf) |-> l(i)]
    BY <1>3
  <2> HIDE DEF l
  <2>3. Len(conf) \in Nat
    BY <1>1
  <2>4. QED
    BY <2>1, <2>2, <2>3
<1>5. \A i \in 1 .. Len(conf) : ListEntries[i] = Line("Entry", Entry(conf[i]))
  BY <1>3
<1>6. QED
  BY <1>2, <1>4, <1>5 DEF WholeLines

\* What the manager answers, in lines.
LEMMA AnswersTyped ==
  ASSUME TypeInv
  PROVE  /\ LoginLines \in Seq(Lines) /\ WholeLines(LoginLines)
         /\ NoListLines \in Seq(Lines) /\ WholeLines(NoListLines)
         /\ RegistryLines \in Seq(Lines) /\ WholeLines(RegistryLines)
         /\ \A word \in {"Success", "Error"} :
              LET lines == <<Line("Response", word), Line("Message", "User")>> IN
              lines \in Seq(Lines) /\ WholeLines(lines)
         /\ ListHead \in Seq(Lines) /\ WholeLines(ListHead) /\ Len(ListHead) = 2
<1>1. /\ {"Success", "Error", "Follows", "Authentication accepted",
          "Authentication failed", "No active conferences.", "Permission denied",
          "Confbridge user list will follow", "User", "--END COMMAND--"} \subseteq Words
      /\ trunk \in Words
  BY DEF Words, TypeInv, PbxTyped
<1>2. {"Response", "Message", "Trunk", "Output"} \subseteq WordKeys
  BY DEF WordKeys
<1>3. \A key \in WordKeys, word \in Words :
        Line(key, word) \in Lines /\ WholeLine(Line(key, word))
  BY WordLine
<1>4. ASSUME NEW x \in Lines, NEW y \in Lines, WholeLine(x), WholeLine(y)
      PROVE  <<x, y>> \in Seq(Lines) /\ WholeLines(<<x, y>>) /\ Len(<<x, y>>) = 2
  BY <1>4, TwoElements DEF WholeLines
<1>5. LoginLines \in Seq(Lines) /\ WholeLines(LoginLines)
  BY <1>1, <1>2, <1>3, <1>4 DEF LoginLines
<1>6. NoListLines \in Seq(Lines) /\ WholeLines(NoListLines)
  BY <1>1, <1>2, <1>3, <1>4 DEF NoListLines
<1>7. RegistryLines \in Seq(Lines) /\ WholeLines(RegistryLines)
  <2> DEFINE x == Line("Response", "Follows")
             y == Line("Trunk", trunk)
             z == Line("Output", "--END COMMAND--")
  <2>1. x \in Lines /\ y \in Lines /\ z \in Lines
        /\ WholeLine(x) /\ WholeLine(y) /\ WholeLine(z)
    BY <1>1, <1>2, <1>3
  <2> HIDE DEF x, y, z
  <2>2. <<x, y, z>> \in Seq(Lines) /\ WholeLines(<<x, y, z>>)
    BY <2>1, ThreeElements DEF WholeLines
  <2>3. QED
    BY <2>2 DEF RegistryLines, x, y, z
<1>8. ASSUME NEW word \in {"Success", "Error"}
      PROVE  LET lines == <<Line("Response", word), Line("Message", "User")>> IN
             lines \in Seq(Lines) /\ WholeLines(lines)
  BY <1>1, <1>2, <1>3, <1>4
<1>9. ListHead \in Seq(Lines) /\ WholeLines(ListHead) /\ Len(ListHead) = 2
  BY <1>1, <1>2, <1>3, <1>4 DEF ListHead
<1>10. QED
  BY <1>5, <1>6, <1>7, <1>8, <1>9

\* What serving an action leaves alone, and what it takes from the wire.
LEMMA ServeLeaves ==
  ASSUME TypeInv, NEW name, Serve(name)
  PROVE  /\ scenario' = scenario /\ Whole' = Whole /\ RowChannels' = RowChannels
         /\ sock = "connected" /\ sock' = sock
         /\ toServer # << >> /\ toServer' = Tail(toServer) /\ toServer' \in Seq(Actions)
         /\ Head(toServer) \in Actions /\ Head(toServer).name = name
         /\ UNCHANGED <<gui, up, joined, trunk, history>>
         /\ GuiTyped' /\ SockTyped'
<1>1. UNCHANGED <<scenario, gui, sock, up, joined, trunk, history>>
  BY DEF Serve
<1>2. toServer \in Seq(Actions) /\ toServer # << >>
  BY DEF TypeInv, WireTyped, Serve
<1>3. Head(toServer) \in Actions /\ Tail(toServer) \in Seq(Actions)
  BY <1>2, HeadAndTail
<1>4. Whole' = Whole /\ RowChannels' = RowChannels
  BY <1>1 DEF Whole, RowChannels
<1>5. GuiTyped' /\ SockTyped'
  BY <1>1, <1>4 DEF TypeInv, GuiTyped, SockTyped, gui
<1>6. QED
  BY <1>1, <1>2, <1>3, <1>4, <1>5 DEF Serve

\* The lines of a list, or of the answer that there is none.
ListLines ==
  IF conf = << >> \/ ~scenario.goodLogin
  THEN NoListLines
  ELSE ListHead \o ListEntries \o <<Line("ListItems", Len(conf))>>

\* What answers the request for the list is whole lines.
LEMMA ListLinesTyped ==
  ASSUME TypeInv
  PROVE  ListLines \in Seq(Lines) /\ WholeLines(ListLines)
<1>0. conf \in Seq(Participant)
  BY DEF TypeInv, PbxTyped
<1>1. CASE conf = << >> \/ ~scenario.goodLogin
  BY <1>1, AnswersTyped DEF ListLines
<1>2. CASE ~(conf = << >> \/ ~scenario.goodLogin)
  <2> DEFINE last == Line("ListItems", Len(conf))
             begin == ListHead \o ListEntries
  <2>1. Len(conf) \in Int /\ Len(conf) >= 1
    BY <1>0, <1>2
  <2>2. last \in Lines /\ WholeLine(last)
    <3> DEFINE n == Len(conf)
    <3> HIDE DEF n
    <3>1. n \in Int /\ n >= 1
      BY <2>1 DEF n
    <3>2. Line("ListItems", n) \in Lines /\ WholeLine(Line("ListItems", n))
      BY <3>1 DEF Line, Lines, WholeLine
    <3>3. QED
      BY <3>2 DEF n
  <2> HIDE DEF last
  <2>3. /\ <<last>> \in Seq(Lines) /\ Len(<<last>>) = 1 /\ <<last>>[1] = last
        /\ WholeLines(<<last>>)
    BY <2>2, OneElement DEF WholeLines
  <2>4. ASSUME NEW s \in Seq(Lines), NEW t \in Seq(Lines), WholeLines(s), WholeLines(t)
        PROVE  s \o t \in Seq(Lines) /\ WholeLines(s \o t)
    <3> DEFINE new == s \o t
    <3>1. /\ new \in Seq(Lines) /\ Len(new) = Len(s) + Len(t)
          /\ \A i \in 1 .. Len(s) : new[i] = s[i]
          /\ \A i \in Len(s) + 1 .. Len(s) + Len(t) : new[i] = t[i - Len(s)]
      BY Added
    <3> HIDE DEF new
    <3>2. ASSUME NEW i \in DOMAIN new PROVE WholeLine(new[i])
      <4>1. CASE i \in 1 .. Len(s)
        BY <2>4, <3>1, <4>1 DEF WholeLines
      <4>2. CASE i \in Len(s) + 1 .. Len(s) + Len(t)
        <5>1. i - Len(s) \in DOMAIN t
          BY <4>2
        <5>2. QED
          BY <2>4, <3>1, <4>2, <5>1 DEF WholeLines
      <4>3. QED
        BY <3>1, <4>1, <4>2
    <3>3. QED
      BY <3>1, <3>2 DEF WholeLines, new
  <2>5. begin \in Seq(Lines) /\ WholeLines(begin)
    BY <2>4, AnswersTyped, EntriesTyped
  <2> HIDE DEF begin
  <2>6. begin \o <<last>> \in Seq(Lines) /\ WholeLines(begin \o <<last>>)
    BY <2>3, <2>4, <2>5
  <2>7. ListLines = begin \o <<last>>
    BY <1>2 DEF ListLines, begin, last
  <2>8. QED
    BY <2>6, <2>7
<1>3. QED
  BY <1>1, <1>2

\* A list has a line for every participant, in their order.
LEMMA ListLinesAre ==
  ASSUME TypeInv, conf # << >>, scenario.goodLogin
  PROVE  /\ Len(ListLines) = Len(conf) + 3 /\ Len(conf) \in Nat /\ Len(conf) >= 1
         /\ ListLines[1] = Line("Response", "Success")
         /\ ListLines[2] = Line("Message", "Confbridge user list will follow")
         /\ \A i \in 1 .. Len(conf) : ListLines[i + 2] = Line("Entry", Entry(conf[i]))
         /\ ListLines[Len(conf) + 3] = Line("ListItems", Len(conf))
<1>0. conf \in Seq(Participant)
  BY DEF TypeInv, PbxTyped
<1> DEFINE n == Len(conf)
           last == Line("ListItems", n)
           begin == ListHead \o ListEntries
           new == begin \o <<last>>
<1>1. ListLines = new
  BY DEF ListLines
<1>2. n \in Nat /\ n >= 1
  BY <1>0
<1>3. last \in Lines
  <2> HIDE DEF n
  <2>1. QED
    BY <1>2 DEF Line, Lines
<1>15. ListHead \in Seq(Lines) /\ ListEntries \in Seq(Lines)
  BY AnswersTyped, EntriesTyped
<1>4. Len(ListHead) = 2 /\ Len(ListEntries) = n
  BY AnswersTyped, EntriesTyped
<1>5. /\ begin \in Seq(Lines) /\ Len(begin) = Len(ListHead) + Len(ListEntries)
      /\ \A i \in 1 .. Len(ListHead) : begin[i] = ListHead[i]
      /\ \A i \in Len(ListHead) + 1 .. Len(ListHead) + Len(ListEntries) :
           begin[i] = ListEntries[i - Len(ListHead)]
  BY <1>15, Added
<1> HIDE DEF last, begin, n
<1>6. Len(begin) = n + 2
  BY <1>2, <1>4, <1>5
<1>7. <<last>> \in Seq(Lines) /\ Len(<<last>>) = 1 /\ <<last>>[1] = last
  BY <1>3, OneElement
<1>8. /\ Len(new) = Len(begin) + 1
      /\ \A i \in 1 .. Len(begin) : new[i] = begin[i]
      /\ \A i \in Len(begin) + 1 .. Len(begin) + Len(<<last>>) :
           new[i] = <<last>>[i - Len(begin)]
  BY <1>5, <1>7, Added
<1> HIDE DEF new
<1>9. Len(new) = n + 3
  BY <1>2, <1>6, <1>8
<1>10. new[n + 3] = last
  <2>1. n + 3 \in Len(begin) + 1 .. Len(begin) + Len(<<last>>) /\ n + 3 - Len(begin) = 1
    BY <1>2, <1>6, <1>7
  <2>2. QED
    BY <1>7, <1>8, <2>1
<1>11. new[1] = ListHead[1] /\ new[2] = ListHead[2]
  BY <1>2, <1>4, <1>5, <1>6, <1>8
<1>12. ASSUME NEW i \in 1 .. n PROVE new[i + 2] = Line("Entry", Entry(conf[i]))
  <2>1. /\ i + 2 \in Len(ListHead) + 1 .. Len(ListHead) + Len(ListEntries)
        /\ i + 2 \in 1 .. Len(begin) /\ i + 2 - Len(ListHead) = i
    BY <1>2, <1>4, <1>6
  <2>2. new[i + 2] = ListEntries[i]
    BY <1>5, <1>8, <2>1
  <2>3. QED
    BY <2>2, EntriesTyped DEF n
<1>13. /\ ListHead[1] = Line("Response", "Success")
       /\ ListHead[2] = Line("Message", "Confbridge user list will follow")
  BY DEF ListHead
<1>14. QED
  BY <1>1, <1>2, <1>9, <1>10, <1>11, <1>12, <1>13 DEF n, last

\* The request for the list is answered.
LEMMA ListLinesNotEmpty ==
  ASSUME TypeInv
  PROVE  ListLines # << >>
<1>1. CASE conf = << >> \/ ~scenario.goodLogin
  BY <1>1 DEF ListLines, NoListLines
<1>2. CASE ~(conf = << >> \/ ~scenario.goodLogin)
  <2>1. Len(ListLines) = Len(conf) + 3 /\ Len(conf) \in Nat
    BY <1>2, ListLinesAre
  <2>2. QED
    BY <2>1
<1>3. QED
  BY <1>1, <1>2

\* What the participants are when an action was served.
Moderated(action) ==
  IF action.name = "ConfbridgeKick"
  THEN Without(conf, action.channel)
  ELSE [i \in DOMAIN conf |->
          IF conf[i].channel = action.channel
          THEN [conf[i] EXCEPT !.unmuted = action.name = "ConfbridgeUnmute"]
          ELSE conf[i]]

\* Participants stay participants when one is gone.
LEMMA WithoutTyped ==
  ASSUME NEW s \in Seq(Participant), NEW c
  PROVE  Without(s, c) \in Seq(Participant)
<1>1. CASE c \in ChannelsIn(s)
  <2> DEFINE i == CHOOSE i \in DOMAIN s : s[i].channel = c
  <2>1. i \in DOMAIN s
    BY <1>1 DEF ChannelsIn
  <2>2. DOMAIN s = 1 .. Len(s)
    OBVIOUS
  <2>3. Without(s, c) = RemoveAt(s, i)
    BY <1>1 DEF Without
  <2> HIDE DEF i
  <2>4. QED
    BY <2>1, <2>2, <2>3, RemovedAt
<1>2. CASE c \notin ChannelsIn(s)
  BY <1>2 DEF Without
<1>3. QED
  BY <1>1, <1>2

\* What an action makes of the participants: a mute or unmute changes its callers
\* only.
LEMMA ModeratedTyped ==
  ASSUME TypeInv, NEW action
  PROVE  /\ Moderated(action) \in Seq(Participant)
         /\ action.name # "ConfbridgeKick" =>
              /\ Len(Moderated(action)) = Len(conf)
              /\ \A i \in 1 .. Len(conf) :
                   /\ Moderated(action)[i].channel = conf[i].channel
                   /\ Moderated(action)[i].unmuted =
                        IF conf[i].channel = action.channel
                        THEN action.name = "ConfbridgeUnmute"
                        ELSE conf[i].unmuted
<1>1. conf \in Seq(Participant)
  BY DEF TypeInv, PbxTyped
<1>2. CASE action.name = "ConfbridgeKick"
  BY <1>1, <1>2, WithoutTyped DEF Moderated
<1>3. CASE action.name # "ConfbridgeKick"
  <2> DEFINE open == (action.name = "ConfbridgeUnmute")
             p(i) == IF conf[i].channel = action.channel
                     THEN [conf[i] EXCEPT !.unmuted = open]
                     ELSE conf[i]
             new == Moderated(action)
  <2>1. new = [i \in 1 .. Len(conf) |-> p(i)]
    BY <1>1, <1>3 DEF Moderated
  <2>2. ASSUME NEW i \in 1 .. Len(conf)
        PROVE  /\ p(i) \in Participant /\ p(i).channel = conf[i].channel
               /\ p(i).unmuted = IF conf[i].channel = action.channel
                                 THEN open ELSE conf[i].unmuted
    <3>1. conf[i] \in Participant
      BY <1>1, ElementOfSeq
    <3>2. open \in BOOLEAN
      OBVIOUS
    <3> HIDE DEF open
    <3>3. QED
      BY <3>1, <3>2 DEF Participant
  <2> HIDE DEF p, new
  <2>3. Len(conf) \in Nat
    BY <1>1
  <2>4. new \in Seq(Participant) /\ Len(new) = Len(conf)
    BY <2>1, <2>2, <2>3
  <2>5. \A i \in 1 .. Len(conf) : new[i] = p(i)
    BY <2>1
  <2>6. QED
    BY <2>2, <2>4, <2>5 DEF new
<1>4. QED
  BY <1>2, <1>3

\* What serving an action does to the wire and the conference.
LEMMA Served ==
  ASSUME TypeInv, ServeStep
  PROVE  /\ scenario' = scenario /\ Whole' = Whole /\ RowChannels' = RowChannels
         /\ sock = "connected" /\ sock' = sock
         /\ toServer # << >> /\ toServer' = Tail(toServer) /\ toServer' \in Seq(Actions)
         /\ Head(toServer) \in Actions
         /\ UNCHANGED <<gui, up, joined, trunk, history>>
         /\ \/ /\ Head(toServer).name = "Login" /\ conf' = conf
               /\ toClient' = toClient \o LoginLines
            \/ /\ Head(toServer).name = "ConfBridgeList" /\ conf' = conf
               /\ toClient' = toClient \o ListLines
            \/ /\ Head(toServer).name = "Registry" /\ conf' = conf
               /\ toClient' = toClient \o RegistryLines
            \/ /\ Head(toServer).name \in
                    {"ConfbridgeMute", "ConfbridgeUnmute", "ConfbridgeKick"}
               /\ conf' = Moderated(Head(toServer))
               /\ \E word \in {"Success", "Error"} :
                    toClient' = toClient \o <<Line("Response", word),
                                              Line("Message", "User")>>
<1>1. PICK name \in ActionNames : Serve(name)
  BY DEF ServeStep, ServeLogin, ServeList, ServeRegistry, ServeModeration, ActionNames
<1>2. /\ scenario' = scenario /\ Whole' = Whole /\ RowChannels' = RowChannels
      /\ sock = "connected" /\ sock' = sock
      /\ toServer # << >> /\ toServer' = Tail(toServer) /\ toServer' \in Seq(Actions)
      /\ Head(toServer) \in Actions /\ Head(toServer).name = name
      /\ UNCHANGED <<gui, up, joined, trunk, history>>
  BY <1>1, ServeLeaves
<1>3. CASE ServeLogin
  <2>1. Head(toServer).name = "Login" /\ conf' = conf
        /\ toClient' = toClient \o LoginLines
    BY <1>3 DEF ServeLogin, Serve, Answer, LoginLines
  <2>2. QED
    BY <1>2, <2>1
<1>4. CASE ServeList
  <2>1. Head(toServer).name = "ConfBridgeList" /\ conf' = conf
    BY <1>4 DEF ServeList, Serve
  <2>2. toClient' = toClient \o ListLines
    BY <1>4 DEF ServeList, Answer, ListLines, NoListLines, ListHead, ListEntries
  <2>3. QED
    BY <1>2, <2>1, <2>2
<1>5. CASE ServeRegistry
  <2>1. Head(toServer).name = "Registry" /\ conf' = conf
        /\ toClient' = toClient \o RegistryLines
    BY <1>5 DEF ServeRegistry, Serve, Answer, RegistryLines
  <2>2. QED
    BY <1>2, <2>1
<1>6. CASE ServeModeration
  <2>1. /\ Head(toServer).name \in
             {"ConfbridgeMute", "ConfbridgeUnmute", "ConfbridgeKick"}
        /\ conf' = Moderated(Head(toServer))
        /\ \E word \in {"Success", "Error"} :
             toClient' = toClient \o <<Line("Response", word), Line("Message", "User")>>
    BY <1>6 DEF ServeModeration, Serve, Answer, Moderated
  <2>2. QED
    BY <1>2, <2>1
<1>7. QED
  BY <1>3, <1>4, <1>5, <1>6 DEF ServeStep

\* The manager's answers keep the types.
LEMMA TypeServe == TypeInv /\ ServeStep => TypeInv'
<1> SUFFICES ASSUME TypeInv, ServeStep PROVE TypeInv'
  OBVIOUS
<1>1. /\ scenario' = scenario /\ Whole' = Whole /\ RowChannels' = RowChannels
      /\ sock' = sock /\ toServer' \in Seq(Actions)
      /\ UNCHANGED <<gui, up, joined, trunk, history>>
  BY Served
<1>2. PICK lines \in Seq(Lines) : WholeLines(lines) /\ toClient' = toClient \o lines
  BY Served, AnswersTyped, ListLinesTyped
<1>3. conf' \in Seq(Participant)
  <2>1. conf \in Seq(Participant)
    BY DEF TypeInv, PbxTyped
  <2>2. QED
    BY <2>1, Served, ModeratedTyped, ZenonT(60)
<1>4. WireTyped'
  BY <1>1, <1>2, AnsweredWire DEF WireTyped
<1>5. GuiTyped' /\ SockTyped'
  BY <1>1 DEF TypeInv, GuiTyped, SockTyped, gui
<1>6. PbxTyped'
  BY <1>1, <1>3 DEF TypeInv, PbxTyped, history
<1>7. QED
  BY <1>1, <1>4, <1>5, <1>6 DEF TypeInv

\* A disturbance is counted.
LEMMA CountedTyped ==
  ASSUME TypeInv, Counted
  PROVE  events' \in 0 .. scenario.maxEvents
<1>1. scenario.maxEvents \in Nat
  BY PbxMonitorAssumption DEF TypeInv, Scenario
<1>2. events \in 0 .. scenario.maxEvents
  BY DEF TypeInv, PbxTyped
<1>3. QED
  BY <1>1, <1>2 DEF Counted

EventLines(c) == <<Line("Event", "Newstate"), Line("Channel", c)>>
KeyLines(c, key) == <<Line("Event", "DTMFEnd"), Line("Channel", c), Line("Digit", key)>>

\* The lines of events are whole lines.
LEMMA EventsTyped ==
  ASSUME NEW c \in Channels \cup {Own}, NEW key \in Keys
  PROVE  /\ EventLines(c) \in Seq(Lines) /\ WholeLines(EventLines(c))
         /\ KeyLines(c, key) \in Seq(Lines) /\ WholeLines(KeyLines(c, key))
<1> DEFINE x == Line("Event", "Newstate")
           w == Line("Event", "DTMFEnd")
           y == Line("Channel", c)
           z == Line("Digit", key)
<1>1. x \in Lines /\ WholeLine(x) /\ w \in Lines /\ WholeLine(w)
  <2>1. "Event" \in WordKeys /\ "Newstate" \in Words \cup {Cut} /\ "DTMFEnd" \in Words \cup {Cut}
    BY DEF WordKeys, Words
  <2>2. QED
    BY <2>1, WordLine
<1>2. y \in Lines /\ WholeLine(y) /\ z \in Lines /\ WholeLine(z)
  BY KeyLine
<1> HIDE DEF x, y, z, w
<1>3. <<x, y>> \in Seq(Lines) /\ WholeLines(<<x, y>>)
  BY <1>1, <1>2, TwoElements DEF WholeLines
<1>4. <<w, y, z>> \in Seq(Lines) /\ WholeLines(<<w, y, z>>)
  BY <1>1, <1>2, ThreeElements DEF WholeLines
<1>5. QED
  BY <1>3, <1>4 DEF EventLines, KeyLines, x, y, z, w

\* The monitor does not move when the conference does.
LEMMA EnvironmentLeaves ==
  ASSUME TypeInv, Environment, scenario' = scenario
  PROVE  /\ Whole' = Whole /\ RowChannels' = RowChannels /\ GuiTyped'
         /\ toServer' \in Seq(Actions)
<1>1. Whole' = Whole /\ RowChannels' = RowChannels
  BY DEF Whole, RowChannels
<1>2. QED
  BY <1>1 DEF Environment, TypeInv, GuiTyped, WireTyped, gui

\* Callers who come and go keep the types.
LEMMA TypeComesAndGoes ==
  TypeInv /\ (\E c \in Channels \cup {Own} : Joins(c) \/ Leaves(c)) => TypeInv'
<1> SUFFICES ASSUME TypeInv, NEW c \in Channels \cup {Own}, Joins(c) \/ Leaves(c)
             PROVE  TypeInv'
  OBVIOUS
<1>1. /\ UNCHANGED <<scenario, sock, toClient, up, trunk, dialled>> /\ Environment
      /\ Counted
  BY DEF Joins, Leaves
<1>2. /\ Whole' = Whole /\ RowChannels' = RowChannels /\ GuiTyped'
      /\ toServer' \in Seq(Actions)
  BY <1>1, EnvironmentLeaves
<1>3. events' \in 0 .. scenario.maxEvents
  BY <1>1, CountedTyped
<1>4. conf' \in Seq(Participant)
  <2>1. conf \in Seq(Participant)
    BY DEF TypeInv, PbxTyped
  <2>2. CASE Joins(c)
    <3>1. [channel |-> c, unmuted |-> c = Own] \in Participant
      BY DEF Participant
    <3>2. QED
      BY <2>1, <2>2, <3>1, AppendProperties DEF Joins
  <2>3. CASE Leaves(c)
    BY <2>1, <2>3, WithoutTyped DEF Leaves
  <2>4. QED
    BY <2>2, <2>3
<1>5. joined' \subseteq Channels
  BY DEF Joins, Leaves, TypeInv, PbxTyped
<1>6. PbxTyped'
  BY <1>1, <1>3, <1>4, <1>5 DEF TypeInv, PbxTyped, Environment
<1>7. WireTyped' /\ SockTyped'
  BY <1>1, <1>2 DEF TypeInv, WireTyped, SockTyped
<1>8. QED
  BY <1>1, <1>2, <1>6, <1>7 DEF TypeInv

\* Events of the conference, keys among them.
LEMMA TypeEvent ==
  /\ TypeInv
  /\ \/ \E c \in Channels \cup {Own} : OtherEvent(c)
     \/ \E c \in Channels, key \in TestKeys : Presses(c, key)
  => TypeInv'
<1> SUFFICES ASSUME TypeInv,
                    \/ \E c \in Channels \cup {Own} : OtherEvent(c)
                    \/ \E c \in Channels, key \in TestKeys : Presses(c, key)
             PROVE  TypeInv'
  OBVIOUS
<1>1. /\ UNCHANGED <<sock, pbx>> /\ Environment /\ Counted
  BY DEF OtherEvent, Presses, Disturb
<1>2. /\ Whole' = Whole /\ RowChannels' = RowChannels /\ GuiTyped'
      /\ toServer' \in Seq(Actions)
  BY <1>1, EnvironmentLeaves DEF pbx
<1>3. events' \in 0 .. scenario.maxEvents
  BY <1>1, CountedTyped
<1>4. PICK lines \in Seq(Lines) : WholeLines(lines) /\ toClient' = toClient \o lines
  <2>1. CASE \E c \in Channels \cup {Own} : OtherEvent(c)
    <3>1. PICK c \in Channels \cup {Own} : OtherEvent(c)
      BY <2>1
    <3>2. toClient' = toClient \o EventLines(c)
      BY <3>1 DEF OtherEvent, Answer, EventLines
    <3>3. 0 \in Keys
      BY DEF Keys
    <3>4. QED
      BY <3>2, <3>3, EventsTyped
  <2>2. CASE \E c \in Channels, key \in TestKeys : Presses(c, key)
    <3>1. PICK c \in Channels, key \in TestKeys : Presses(c, key)
      BY <2>2
    <3>2. toClient' = toClient \o KeyLines(c, key)
      BY <3>1 DEF Presses, Answer, KeyLines
    <3>3. key \in Keys /\ c \in Channels \cup {Own}
      BY PbxMonitorAssumption
    <3>4. QED
      BY <3>2, <3>3, EventsTyped
  <2>3. QED
    BY <2>1, <2>2
<1>5. dialled' \in [Channels -> SUBSET (0 .. 9)]
  <2>1. dialled \in [Channels -> SUBSET (0 .. 9)]
    BY DEF TypeInv, PbxTyped
  <2>2. CASE \E c \in Channels, key \in TestKeys : Presses(c, key)
    <3>1. PICK c \in Channels, key \in TestKeys : Presses(c, key)
      BY <2>2
    <3>2. {key} \ {Star, Hash} \subseteq 0 .. 9
      BY PbxMonitorAssumption DEF Keys, Star, Hash
    <3>3. dialled' = [dialled EXCEPT ![c] = dialled[c] \cup ({key} \ {Star, Hash})]
      BY <3>1 DEF Presses
    <3>4. QED
      BY <2>1, <3>2, <3>3
  <2>3. QED
    BY <2>1, <2>2 DEF OtherEvent
<1>6. PbxTyped'
  BY <1>1, <1>3, <1>5 DEF TypeInv, PbxTyped, Environment, pbx
<1>7. WireTyped' /\ SockTyped'
  BY <1>1, <1>2, <1>4, AnsweredWire DEF TypeInv, WireTyped, SockTyped
<1>8. QED
  BY <1>1, <1>2, <1>6, <1>7 DEF TypeInv, pbx

\* A torn line is still one the parser may meet.
LEMMA HalvesTyped ==
  ASSUME TypeInv, NEW line \in Lines, NEW half \in Halves(line)
  PROVE  half \in Lines
<1>1. joined \subseteq Channels
  BY DEF TypeInv, PbxTyped
<1>2. CASE half = Line("Torn", Cut)
  BY <1>2 DEF Line, Lines
<1>3. CASE line.key = "Entry"
  <2>1. line.value \in Entries
    BY <1>3, LineTyped
  <2>2. ASSUME NEW entry \in TornEntries(line.value)
        PROVE  entry \in Entries
    <3> DEFINE e == line.value
    <3> HIDE DEF e
    <3>1. e \in Entries
      BY <2>1 DEF e
    <3>2. \/ \E c \in joined \cup {Own, Cut} : entry = [e EXCEPT !.channel = c]
          \/ \E own \in BOOLEAN : entry = [e EXCEPT !.own = own]
          \/ entry = [e EXCEPT !.unmuted = TRUE]
      BY <2>2 DEF TornEntries, e
    <3>3. QED
      BY <1>1, <3>1, <3>2 DEF Entries
  <2>3. ASSUME NEW entry \in Entries PROVE Line("Entry", entry) \in Lines
    BY <2>3 DEF Line, Lines
  <2>4. \/ half = Line("Torn", Cut)
        \/ \E entry \in TornEntries(line.value) : half = Line("Entry", entry)
    BY <1>3 DEF Halves
  <2>5. QED
    BY <1>2, <2>2, <2>3, <2>4
<1>4. CASE line.key = "ListItems"
  <2>1. line.value \in Int
    BY <1>4, LineTyped
  <2>2. line.value \div 10 \in Int
    BY <2>1
  <2>3. ASSUME NEW n \in Int PROVE Line("ListItems", n) \in Lines
    BY <2>3 DEF Line, Lines
  <2>4. line.key # "Entry"
    BY <1>4
  <2>5. half = Line("Torn", Cut)
        \/ \E n \in {0, line.value \div 10} : half = Line("ListItems", n)
    BY <1>4, <2>4 DEF Halves
  <2>6. 0 \in Int
    OBVIOUS
  <2>7. QED
    BY <1>2, <2>2, <2>3, <2>5, <2>6
<1>5. CASE line.key # "Entry" /\ line.key # "ListItems"
  <2>1. half = Line("Torn", Cut) \/ half = Line(line.key, Cut)
    BY <1>5 DEF Halves
  <2>2. line.key \in LineKeys
    BY LineTyped
  <2>3. Line(line.key, Cut) \in Lines
    BY <1>5, <2>2 DEF Line, Lines, LineKeys
  <2>4. QED
    BY <1>2, <2>1, <2>3
<1>6. QED
  BY <1>3, <1>4, <1>5

\* A segment that ends within a line keeps the types.
LEMMA TypeSegment == TypeInv /\ SegmentEnds => TypeInv'
<1> SUFFICES ASSUME TypeInv, SegmentEnds PROVE TypeInv'
  OBVIOUS
<1>1. /\ UNCHANGED <<sock, pbx, dialled>> /\ Environment /\ Counted
      /\ ~Whole /\ toClient # << >>
  BY DEF SegmentEnds, Disturb, Whole
<1>2. /\ Whole' = Whole /\ RowChannels' = RowChannels /\ GuiTyped'
      /\ toServer' \in Seq(Actions)
  BY <1>1, EnvironmentLeaves DEF pbx
<1>3. events' \in 0 .. scenario.maxEvents
  BY <1>1, CountedTyped
<1>4. toClient' \in Seq(Lines)
  <2>1. Head(toClient) \in Lines /\ Tail(toClient) \in Seq(Lines)
    BY <1>1, TailWire
  <2>2. PICK half \in Halves(Head(toClient)) : toClient' = <<half>> \o Tail(toClient)
    BY DEF SegmentEnds
  <2>3. half \in Lines
    BY <2>1, HalvesTyped
  <2>4. <<half>> \in Seq(Lines)
    BY <2>3, OneElement
  <2>5. QED
    BY <2>1, <2>2, <2>4, Added
<1>5. PbxTyped'
  BY <1>1, <1>3 DEF TypeInv, PbxTyped, Environment, pbx
<1>6. WireTyped' /\ SockTyped'
  BY <1>1, <1>2, <1>4 DEF TypeInv, WireTyped, SockTyped
<1>7. QED
  BY <1>1, <1>2, <1>5, <1>6 DEF TypeInv, pbx

\* A connection that breaks keeps the types.
LEMMA TypeLost == TypeInv /\ ConnectionLost => TypeInv'
<1> SUFFICES ASSUME TypeInv, ConnectionLost PROVE TypeInv'
  OBVIOUS
<1>1. Whole' = Whole /\ RowChannels' = RowChannels
  BY DEF ConnectionLost, Whole, RowChannels
<1>2. << >> \in Seq(Lines) /\ << >> \in Seq(Actions) /\ WholeLines(<< >>)
  BY DEF WholeLines
<1>3. sock' \in {"closed", "connecting", "connected", "dead"}
  <2>1. \/ sock = "connected" /\ sock' \in {"closed", "dead"}
        \/ sock = "connecting" /\ sock' \in {"closed", "connecting"}
        \/ sock' = sock
    BY DEF ConnectionLost
  <2>2. QED
    BY <2>1 DEF TypeInv, SockTyped
<1>4. events' \in 0 .. scenario.maxEvents
  BY CountedTyped DEF ConnectionLost, Disturb
<1>5. GuiTyped' /\ WireTyped' /\ SockTyped'
  BY <1>1, <1>2, <1>3 DEF ConnectionLost, gui, TypeInv, GuiTyped, WireTyped, SockTyped
<1>6. PbxTyped'
  BY <1>1, <1>4 DEF ConnectionLost, TypeInv, PbxTyped
<1>7. QED
  BY <1>5, <1>6 DEF TypeInv, ConnectionLost

\* The steps of the connection, the trunk and the PBX keep the types.
LEMMA TypeRest ==
  TypeInv /\ (TrunkChanges \/ ConnectFails \/ ServerReturns \/ UNCHANGED vars) => TypeInv'
<1>1. TypeInv /\ TrunkChanges => TypeInv'
  <2> SUFFICES ASSUME TypeInv, TrunkChanges PROVE TypeInv'
    OBVIOUS
  <2>1. /\ UNCHANGED <<scenario, sock, toClient, up, conf, joined, dialled>>
        /\ Environment /\ Counted /\ trunk' \in {"Registered", "Rejected"}
    BY DEF TrunkChanges, Disturb
  <2>2. /\ Whole' = Whole /\ RowChannels' = RowChannels /\ GuiTyped'
        /\ toServer' \in Seq(Actions)
    BY <2>1, EnvironmentLeaves
  <2>3. events' \in 0 .. scenario.maxEvents
    BY <2>1, CountedTyped
  <2>4. PbxTyped'
    BY <2>1, <2>3 DEF TypeInv, PbxTyped, Environment
  <2>5. QED
    BY <2>1, <2>2, <2>4 DEF TypeInv, WireTyped, SockTyped
<1>2. TypeInv /\ ConnectFails => TypeInv'
  BY DEF TypeInv, ConnectFails, gui, pbx, history, GuiTyped, PbxTyped, WireTyped,
         SockTyped, Whole, RowChannels
<1>3. TypeInv /\ ServerReturns => TypeInv'
  BY DEF TypeInv, ServerReturns, gui, pbx, history, GuiTyped, PbxTyped, WireTyped,
         SockTyped, Whole, RowChannels
<1>4. TypeInv /\ UNCHANGED vars => TypeInv'
  BY DEF TypeInv, vars, gui, pbx, history, GuiTyped, PbxTyped, WireTyped,
         SockTyped, Whole, RowChannels
<1>5. QED
  BY <1>1, <1>2, <1>3, <1>4

\* Every step keeps the types.
LEMMA TypeStep == TypeInv /\ [Next]_vars => TypeInv'
BY TypeTick, TypeConnected, TypeReadLogin, TypeReadConference, TypeReadOther, TypeClick,
   TypeServe, TypeComesAndGoes, TypeEvent, TypeSegment, TypeLost, TypeRest
DEF Next, ReadStep, OtherStep

\* The types hold in every behaviour.
LEMMA Typed == Spec => []TypeInv
BY TypeInit, TypeStep, PTL DEF Spec

\* Every variable keeps its type; the row of a caller names a channel of the
\* conference unless a line was torn, and the count shown is not negative
\* (mainwindow.cpp:292-621, 1203-1240).
THEOREM PbxMonitorTypeOK == Spec => []TypeOK
BY Typed, TypeInvOK, PTL

-----------------------------------------------------------------------------
(* One row for each caller *)

\* All that happens to the table of listeners.
LEMMA RowsStep ==
  ASSUME TypeInv, [Next]_vars
  PROVE  \/ rows' = rows
         \/ ReadLogin /\ rows' = << >>
         \/ Tick /\ rows' = markAllChannels(rows, FALSE)
         \/ /\ ReadConference
            /\ \/ /\ parse /\ Head(toClient).key = "Entry" /\ ~Head(toClient).value.own
                  /\ rows' = Listed(rows, Head(toClient).value.channel,
                                    Head(toClient).value.unmuted)
               \/ /\ parse /\ Head(toClient).key = "ListItems"
                  /\ rows' = IF Head(toClient).value - admin = 0 THEN << >>
                             ELSE removeUnusedChannels(rows)
               \/ /\ Is("Message", "No active conferences.")
                  /\ rows' = << >>
         \/ /\ ReadKey /\ Head(toClient).key = "Digit"
            /\ rows' = Dialled(rows, dtmfChannel, Head(toClient).value)
         \/ \E r \in DOMAIN rows :
              \/ ClickSpeak(r) /\ rows' = SpeakClicked(rows, r, scenario.multi)
              \/ ClickKick(r) /\ rows' = KickClicked(rows, r)
<1>1. CASE Tick
  BY <1>1 DEF Tick, checkPBX, switchedOff
<1>2. CASE ReadLogin
  BY <1>2 DEF ReadLogin
<1>3. CASE ReadConference
  BY <1>3 DEF ReadConference, ListEnds, showListenersCount
<1>4. CASE ReadKey
  BY <1>4 DEF ReadKey
<1>5. CASE ClickStep
  BY <1>5 DEF ClickStep, ClickSpeak, ClickKick
<1>6. CASE ReadTrunk \/ ReadIdle \/ Connected
  BY <1>6 DEF ReadTrunk, ReadIdle, Connected
<1>7. CASE ServeStep
  BY <1>7, Served DEF gui
<1>8. CASE \/ \E c \in Channels \cup {Own} : Joins(c) \/ Leaves(c) \/ OtherEvent(c)
           \/ \E c \in Channels, key \in TestKeys : Presses(c, key)
           \/ TrunkChanges \/ SegmentEnds
  BY <1>8 DEF Joins, Leaves, OtherEvent, Presses, TrunkChanges, SegmentEnds,
              Environment, gui
<1>9. CASE ConnectionLost \/ ConnectFails \/ ServerReturns \/ UNCHANGED vars
  BY <1>9 DEF ConnectionLost, ConnectFails, ServerReturns, vars, gui
<1>10. QED
  BY <1>1, <1>2, <1>3, <1>4, <1>5, <1>6, <1>7, <1>8, <1>9
  DEF Next, ReadStep, OtherStep

\* The rows, by what the lines and the keys are.
LEMMA RowsTyped ==
  ASSUME TypeInv
  PROVE  /\ rows \in Seq(Row(RowChannels)) /\ scenario.multi \in BOOLEAN
         /\ toClient # << >> =>
              /\ Head(toClient).key = "Digit" => Head(toClient).value \in Keys \cup {Cut}
              /\ Head(toClient).key = "Entry" /\ ~Head(toClient).value.own =>
                   /\ Head(toClient).value.channel \in RowChannels
                   /\ Head(toClient).value.unmuted \in BOOLEAN
<1>1. rows \in Seq(Row(RowChannels)) /\ scenario.multi \in BOOLEAN
  BY PbxMonitorAssumption DEF TypeInv, GuiTyped, Scenario
<1>2. ASSUME toClient # << >>, Head(toClient).key = "Entry", ~Head(toClient).value.own
      PROVE  /\ Head(toClient).value.channel \in RowChannels
             /\ Head(toClient).value.unmuted \in BOOLEAN
  <2> DEFINE e == Head(toClient).value
  <2>1. e \in Entries /\ e.channel \in RowChannels
    BY <1>2, HeadTyped
  <2> HIDE DEF e
  <2>2. e.unmuted \in BOOLEAN
    <3>1. \A f \in Entries : f.unmuted \in BOOLEAN
      BY DEF Entries
    <3>2. QED
      BY <2>1, <3>1, Zenon
  <2>3. QED
    BY <2>1, <2>2 DEF e
<1>3. QED
  BY <1>1, <1>2, HeadTyped

\* One row for each caller, as a property of the table.
LEMMA OneRowIsUnique == OneRowEach <=> Unique(rows)
BY DEF OneRowEach, Unique

\* Every step keeps one row for each caller.
LEMMA OneRowStep == TypeInv /\ OneRowEach /\ [Next]_vars => OneRowEach'
<1> SUFFICES ASSUME TypeInv, Unique(rows), [Next]_vars PROVE Unique(rows')
  BY OneRowIsUnique DEF OneRowEach, Unique
<1>1. rows \in Seq(Row(RowChannels)) /\ scenario.multi \in BOOLEAN
  BY RowsTyped
<1>2. Unique(<< >>)
  BY DEF Unique
<1>3. CASE Tick /\ rows' = markAllChannels(rows, FALSE)
  BY <1>1, <1>3, MarkedRows, SameUnique
<1>4. CASE /\ ReadConference /\ parse
           /\ Head(toClient).key = "Entry" /\ ~Head(toClient).value.own
           /\ rows' = Listed(rows, Head(toClient).value.channel,
                             Head(toClient).value.unmuted)
  <2>1. toClient # << >>
    BY <1>4 DEF ReadConference, Read
  <2>2. QED
    BY <1>1, <1>4, <2>1, RowsTyped, ListedUnique
<1>5. CASE rows' = IF Head(toClient).value - admin = 0 THEN << >>
                   ELSE removeUnusedChannels(rows)
  BY <1>1, <1>2, <1>5, KeptUnique
<1>6. CASE /\ ReadKey /\ Head(toClient).key = "Digit"
           /\ rows' = Dialled(rows, dtmfChannel, Head(toClient).value)
  <2>1. toClient # << >>
    BY <1>6 DEF ReadKey, Read
  <2>2. Head(toClient).value \in Keys \cup {Cut}
    BY <1>6, <2>1, RowsTyped
  <2>3. rows' \in Seq(Row(RowChannels)) /\ SameCallers(rows', rows)
    BY <1>1, <1>6, <2>2, DialledRows
  <2>4. QED
    BY <1>1, <2>3, SameUnique
<1>7. CASE \E r \in DOMAIN rows :
             \/ ClickSpeak(r) /\ rows' = SpeakClicked(rows, r, scenario.multi)
             \/ ClickKick(r) /\ rows' = KickClicked(rows, r)
  <2>1. rows' \in Seq(Row(RowChannels)) /\ SameCallers(rows', rows)
    BY <1>1, <1>7, SpokenRows, KickedRows
  <2>2. QED
    BY <1>1, <2>1, SameUnique
<1>8. QED
  BY <1>2, <1>3, <1>4, <1>5, <1>6, <1>7, RowsStep

\* No caller has two rows, whatever lines are torn and whatever channel half a
\* line names: findCall looks at the whole table before a row is added, and the
\* loop that removes rows never doubles one (mainwindow.cpp:370-388, 1214-1240).
THEOREM OneRowForEach == Spec => []OneRowEach
<1>1. Init => OneRowEach
  BY DEF Init, OneRowEach
<1>2. QED
  BY <1>1, Typed, OneRowStep, PTL DEF Spec

-----------------------------------------------------------------------------
(* The session *)

\* A connection is only there with the lamp on, and nothing is under way without one.
Session ==
  /\ sock \in {"connected", "dead"} => pbxOk
  /\ sock # "connected" => toServer = << >> /\ toClient = << >>

Accepted == Line("Message", "Authentication accepted")

\* The answer to the login comes before any other answer.
AcceptedFirst(lines) ==
  \E i \in DOMAIN lines :
    lines[i] = Accepted /\ \A j \in 1 .. i - 1 : lines[j].key # "Message"

\* While the parser waits for the answer to its login, the login is the first
\* action under way and nothing was answered, or its acceptance comes first.
LoggingIn ==
  Whole /\ scenario.goodLogin /\ sock = "connected" /\ state = "LOGIN" =>
    \/ /\ toClient = << >> /\ toServer # << >>
       /\ Head(toServer) = Action("Login", NoChannel)
    \/ AcceptedFirst(toClient)

\* A session that was not broken is connected, and while a request waits for
\* its answer something is under way.
Waiting ==
  Whole /\ scenario.goodLogin /\ PbxType = "asterisk" /\ ~outage /\ pbxOk =>
    /\ sock = "connected"
    /\ pbxRq => toServer # << >> \/ toClient # << >>

\* The steps that do not touch the session.
Apart ==
  \/ \E c \in Channels \cup {Own} : Joins(c) \/ Leaves(c)
  \/ TrunkChanges
  \/ ServerReturns
  \/ UNCHANGED vars

\* They change the participants, the trunk or the PBX only.
LEMMA ApartLeaves ==
  ASSUME Apart
  PROVE  /\ UNCHANGED <<gui, scenario, sock, toServer, toClient, outage, dialled>>
         /\ Whole' = Whole
<1>1. UNCHANGED <<gui, scenario, sock, toServer, toClient, outage, dialled>>
  BY DEF Apart, Joins, Leaves, TrunkChanges, ServerReturns, Environment, vars, gui,
         pbx, history
<1>2. QED
  BY <1>1 DEF Whole

\* Events of the conference.
Happens ==
  \/ \E c \in Channels \cup {Own} : OtherEvent(c)
  \/ \E c \in Channels, key \in TestKeys : Presses(c, key)

\* An event only adds its lines to the wire.
LEMMA HappensLeaves ==
  ASSUME TypeInv, Happens
  PROVE  /\ UNCHANGED <<gui, sock, pbx, toServer, outage>> /\ Whole' = Whole
         /\ Listening
         /\ \E lines \in Seq(Lines) :
              /\ toClient' = toClient \o lines
              /\ \/ \E c \in Channels \cup {Own} :
                      lines = EventLines(c) /\ dialled' = dialled
                 \/ \E c \in Channels, key \in TestKeys :
                      /\ lines = KeyLines(c, key)
                      /\ dialled' = [dialled EXCEPT ![c] = @ \cup ({key} \ {Star, Hash})]
<1>1. UNCHANGED <<gui, sock, pbx, toServer, outage>> /\ Listening
  BY DEF Happens, OtherEvent, Presses, Environment
<1>2. Whole' = Whole
  BY <1>1 DEF pbx, Whole
<1>3. CASE \E c \in Channels \cup {Own} : OtherEvent(c)
  <2>1. PICK c \in Channels \cup {Own} : OtherEvent(c)
    BY <1>3
  <2>2. toClient' = toClient \o EventLines(c) /\ dialled' = dialled
    BY <2>1 DEF OtherEvent, Answer, EventLines
  <2>3. EventLines(c) \in Seq(Lines)
    BY EventsTyped DEF Keys
  <2>4. QED
    BY <1>1, <1>2, <2>2, <2>3
<1>4. CASE \E c \in Channels, key \in TestKeys : Presses(c, key)
  <2>1. PICK c \in Channels, key \in TestKeys : Presses(c, key)
    BY <1>4
  <2>2. toClient' = toClient \o KeyLines(c, key)
        /\ dialled' = [dialled EXCEPT ![c] = @ \cup ({key} \ {Star, Hash})]
    BY <2>1 DEF Presses, Answer, KeyLines
  <2>3. KeyLines(c, key) \in Seq(Lines)
    BY EventsTyped, PbxMonitorAssumption
  <2>4. QED
    BY <1>1, <1>2, <2>2, <2>3
<1>5. QED
  BY <1>3, <1>4 DEF Happens

\* Every step is one of these.
LEMMA NextIs ==
  ASSUME [Next]_vars
  PROVE  \/ Tick \/ Connected \/ ReadLogin \/ ReadConference
         \/ ReadTrunk \/ ReadIdle \/ ReadKey
         \/ ClickStep \/ ServeStep \/ Happens \/ Apart
         \/ SegmentEnds \/ ConnectionLost \/ ConnectFails
BY DEF Next, ReadStep, OtherStep, Happens, Apart

\* A click changes the table and writes actions, nothing else.
LEMMA ClickLeaves ==
  ASSUME TypeInv, ClickStep
  PROVE  /\ UNCHANGED <<sock, toClient, pbx, outage, dialled>> /\ GuiUnchanged
         /\ Whole' = Whole
         /\ \E actions \in Seq(Actions) : Write(actions)
<1>1. PICK r \in DOMAIN rows : ClickSpeak(r) \/ ClickKick(r)
  BY DEF ClickStep
<1>2. UNCHANGED <<sock, toClient, pbx, outage, dialled>> /\ GuiUnchanged
  BY <1>1 DEF ClickSpeak, ClickKick
<1>3. \E actions \in Seq(Actions) : Write(actions)
  BY <1>1, SpeakActionsTyped DEF ClickSpeak, ClickKick
<1>4. QED
  BY <1>2, <1>3 DEF Whole, pbx

\* What is written comes behind what is under way.
LEMMA WrittenBehind ==
  ASSUME TypeInv, NEW actions \in Seq(Actions), Write(actions), toServer # << >>
  PROVE  toServer' # << >> /\ Head(toServer') = Head(toServer)
<1>1. toServer \in Seq(Actions)
  BY DEF TypeInv, WireTyped
<1> DEFINE new == toServer \o actions
<1>2. /\ new \in Seq(Actions) /\ Len(new) = Len(toServer) + Len(actions)
      /\ \A i \in 1 .. Len(toServer) : new[i] = toServer[i]
  BY <1>1, Added
<1> HIDE DEF new
<1>3. Len(toServer) >= 1 /\ Len(actions) \in Nat
  BY <1>1
<1>4. new # << >> /\ new[1] = toServer[1] /\ Head(new) = new[1] /\ Head(toServer) = toServer[1]
  BY <1>1, <1>2, <1>3, HeadAndTail
<1>5. QED
  BY <1>4 DEF Write, new

\* Every step keeps the lamp and the wire with the connection.
LEMMA SessionStep == TypeInv /\ Session /\ [Next]_vars => Session'
<1> SUFFICES ASSUME TypeInv, Session, [Next]_vars PROVE Session'
  OBVIOUS
<1> USE DEF Session
<1>1. CASE Tick
  BY <1>1 DEF Tick, checkPBX, switchedOff, Connect, Disconnect, Write
<1>2. CASE Connected
  BY <1>2 DEF Connected
<1>3. CASE ReadLogin
  BY <1>3 DEF ReadLogin, Read, Disconnect, Write
<1>4. CASE ReadConference \/ ReadTrunk \/ ReadIdle \/ ReadKey
  BY <1>4 DEF ReadConference, ReadTrunk, ReadIdle, ReadKey, Read
<1>5. CASE ClickStep
  BY <1>5, ClickLeaves DEF GuiUnchanged, Write
<1>6. CASE ServeStep
  BY <1>6, Served DEF gui
<1>7. CASE Happens
  BY <1>7, HappensLeaves DEF gui, Listening
<1>8. CASE Apart
  BY <1>8, ApartLeaves DEF gui
<1>9. CASE SegmentEnds
  BY <1>9 DEF SegmentEnds, Environment, gui
<1>10. CASE ConnectionLost
  <2>1. \/ sock = "connected" /\ sock' \in {"closed", "dead"}
        \/ sock = "connecting" /\ sock' \in {"closed", "connecting"}
        \/ sock' = sock
    BY <1>10 DEF ConnectionLost
  <2>2. QED
    BY <1>10, <2>1 DEF ConnectionLost, gui
<1>11. CASE ConnectFails
  BY <1>11 DEF ConnectFails, gui
<1>12. QED
  BY <1>1, <1>2, <1>3, <1>4, <1>5, <1>6, <1>7, <1>8, <1>9, <1>10, <1>11, NextIs

\* Lines behind the acceptance leave it first.
LEMMA AcceptedStays ==
  ASSUME NEW t \in Seq(Lines), NEW lines \in Seq(Lines), AcceptedFirst(t)
  PROVE  AcceptedFirst(t \o lines)
<1> DEFINE new == t \o lines
<1>1. /\ Len(new) = Len(t) + Len(lines) /\ new \in Seq(Lines)
      /\ \A i \in 1 .. Len(t) : new[i] = t[i]
  BY Added
<1>2. PICK i \in 1 .. Len(t) :
        t[i] = Accepted /\ \A j \in 1 .. i - 1 : t[j].key # "Message"
  BY DEF AcceptedFirst
<1> HIDE DEF new
<1>3. i \in DOMAIN new /\ new[i] = Accepted
  BY <1>1, <1>2
<1>4. \A j \in 1 .. i - 1 : j \in 1 .. Len(t)
  OBVIOUS
<1>5. \A j \in 1 .. i - 1 : new[j].key # "Message"
  BY <1>1, <1>2, <1>4
<1>6. QED
  BY <1>3, <1>5 DEF AcceptedFirst, new

\* It stays first when a line before it is read.
LEMMA AcceptedMoves ==
  ASSUME NEW t \in Seq(Lines), AcceptedFirst(t), t # << >>, Head(t).key # "Message"
  PROVE  AcceptedFirst(Tail(t))
<1>1. /\ Head(t) = t[1] /\ Tail(t) \in Seq(Lines) /\ Len(Tail(t)) = Len(t) - 1
      /\ \A i \in 1 .. Len(t) - 1 : Tail(t)[i] = t[i + 1]
  BY HeadAndTail
<1>2. PICK i \in 1 .. Len(t) :
        t[i] = Accepted /\ \A j \in 1 .. i - 1 : t[j].key # "Message"
  BY DEF AcceptedFirst
<1>3. Accepted.key = "Message"
  BY DEF Accepted, Line
<1>4. i # 1
  BY <1>1, <1>2, <1>3
<1>5. i - 1 \in 1 .. Len(t) - 1 /\ (i - 1) + 1 = i
  BY <1>4
<1> DEFINE new == Tail(t)
<1> HIDE DEF new
<1>6. new[i - 1] = Accepted /\ i - 1 \in DOMAIN new
  BY <1>1, <1>2, <1>5 DEF new
<1>7. ASSUME NEW j \in 1 .. (i - 1) - 1 PROVE new[j].key # "Message"
  <2>1. j \in 1 .. Len(t) - 1 /\ j + 1 \in 1 .. i - 1
    OBVIOUS
  <2>2. QED
    BY <1>1, <1>2, <2>1 DEF new
<1>8. QED
  BY <1>6, <1>7 DEF AcceptedFirst, new

\* The answer to a good login.
LEMMA LoginIsAccepted ==
  ASSUME scenario.goodLogin
  PROVE  AcceptedFirst(LoginLines)
<1>1. LoginLines = <<Line("Response", "Success"), Accepted>>
  BY DEF LoginLines, Accepted
<1>2. Line("Response", "Success").key # "Message"
  BY DEF Line
<1> DEFINE x == Line("Response", "Success")
           lines == <<x, Accepted>>
<1> HIDE DEF x
<1>3. /\ DOMAIN lines = 1 .. 2 /\ lines[1] = x /\ lines[2] = Accepted
  OBVIOUS
<1>4. \A j \in 1 .. 2 - 1 : lines[j].key # "Message"
  BY <1>2, <1>3 DEF x
<1>5. QED
  BY <1>1, <1>3, <1>4 DEF AcceptedFirst, x

\* Nothing but the acceptance is read for an answer to a good login.
LEMMA ReadLoginIsTrue ==
  ASSUME TypeInv, LoggingIn, Whole, scenario.goodLogin, ReadLogin
  PROVE  \/ Head(toClient) = Accepted /\ sock' = sock /\ state' = "CONFERENCE"
         \/ /\ AcceptedFirst(toClient) /\ Head(toClient).key # "Message"
            /\ toClient' = Tail(toClient) /\ UNCHANGED <<sock, state, toServer>>
<1>1. toClient # << >> /\ sock = "connected" /\ state = "LOGIN"
  BY DEF ReadLogin, Read
<1>2. AcceptedFirst(toClient) /\ toClient \in Seq(Lines)
  BY <1>1 DEF LoggingIn, TypeInv, WireTyped
<1>3. PICK i \in 1 .. Len(toClient) :
        toClient[i] = Accepted /\ \A j \in 1 .. i - 1 : toClient[j].key # "Message"
  BY <1>2 DEF AcceptedFirst
<1>4. Head(toClient) = toClient[1]
  BY <1>1, <1>2, HeadAndTail
<1>5. Accepted.key = "Message" /\ Accepted.value = "Authentication accepted"
  BY DEF Accepted, Line
<1>6. CASE i = 1
  <2>1. Head(toClient) = Accepted
    BY <1>3, <1>4, <1>6
  <2>2. Is("Message", "Authentication accepted")
    BY <1>5, <2>1 DEF Is
  <2>3. QED
    BY <2>1, <2>2 DEF ReadLogin
<1>7. CASE i # 1
  <2>1. 1 \in 1 .. i - 1
    BY <1>7
  <2>2. Head(toClient).key # "Message"
    BY <1>3, <1>4, <2>1
  <2>3. QED
    BY <1>2, <2>2 DEF ReadLogin, Is
<1>8. QED
  BY <1>6, <1>7

\* Every step keeps the acceptance first of the answers.
LEMMA LoggingInStep == TypeInv /\ Session /\ LoggingIn /\ [Next]_vars => LoggingIn'
<1> SUFFICES ASSUME TypeInv, Session, LoggingIn, [Next]_vars,
                    Whole', scenario'.goodLogin, sock' = "connected", state' = "LOGIN"
             PROVE  (\/ /\ toClient = << >> /\ toServer # << >>
                        /\ Head(toServer) = Action("Login", NoChannel)
                     \/ AcceptedFirst(toClient))'
  BY DEF LoggingIn
<1> DEFINE Asked == /\ toClient = << >> /\ toServer # << >>
                    /\ Head(toServer) = Action("Login", NoChannel)
<1>0. toClient \in Seq(Lines) /\ toServer \in Seq(Actions)
  BY DEF TypeInv, WireTyped
<1>1. CASE Tick
  <2>1. UNCHANGED <<toServer, toClient, sock, state>>
    BY <1>1 DEF Tick, checkPBX, switchedOff, Connect, Disconnect, Session
  <2>2. Whole /\ scenario.goodLogin
    BY <1>1 DEF Tick, pbx, Whole
  <2>3. QED
    BY <2>1, <2>2 DEF LoggingIn, AcceptedFirst
<1>2. CASE Connected
  <2>1. toClient' = << >> /\ toServer' = <<Action("Login", NoChannel)>>
    BY <1>2 DEF Connected, Session
  <2>2. QED
    BY <2>1
<1>3. CASE ReadLogin
  <2>1. Whole /\ scenario.goodLogin
    BY <1>3, ReadLeaves DEF ReadLogin
  <2>2. AcceptedFirst(toClient) /\ Head(toClient).key # "Message"
        /\ toClient' = Tail(toClient) /\ toClient # << >>
    BY <1>3, <2>1, ReadLoginIsTrue DEF ReadLogin, Read
  <2>3. AcceptedFirst(Tail(toClient))
    BY <1>0, <2>2, AcceptedMoves
  <2>4. QED
    BY <2>2, <2>3 DEF AcceptedFirst
<1>4. CASE ReadConference \/ ReadTrunk \/ ReadIdle \/ ReadKey
  BY <1>4 DEF ReadConference, ReadTrunk, ReadIdle, ReadKey, Read, ListEnds
<1>5. CASE ClickStep
  <2>1. /\ UNCHANGED <<sock, toClient, pbx>> /\ GuiUnchanged /\ Whole' = Whole
        /\ \E actions \in Seq(Actions) : Write(actions)
    BY <1>5, ClickLeaves
  <2>2. Asked \/ AcceptedFirst(toClient)
    BY <2>1 DEF LoggingIn, GuiUnchanged, pbx
  <2>3. Asked => toServer' # << >> /\ Head(toServer') = Action("Login", NoChannel)
    BY <2>1, WrittenBehind
  <2>4. QED
    BY <2>1, <2>2, <2>3 DEF AcceptedFirst
<1>6. CASE ServeStep
  <2>1. /\ scenario' = scenario /\ Whole' = Whole /\ sock = "connected"
        /\ UNCHANGED gui
    BY <1>6, Served
  <2>2. Asked \/ AcceptedFirst(toClient)
    BY <2>1 DEF LoggingIn, gui
  <2>3. CASE Asked
    <3>1. Head(toServer).name = "Login"
      BY <2>3 DEF Action
    <3>2. toClient' = toClient \o LoginLines
      BY <1>6, <3>1, Served
    <3>3. LoginLines \in Seq(Lines) /\ AcceptedFirst(LoginLines)
      BY <2>1, AnswersTyped, LoginIsAccepted
    <3>4. toClient' = LoginLines
      BY <2>3, <3>2, <3>3
    <3>5. QED
      BY <3>3, <3>4 DEF AcceptedFirst
  <2>4. CASE AcceptedFirst(toClient)
    <3>1. PICK lines \in Seq(Lines) : toClient' = toClient \o lines
      BY <1>6, Served, AnswersTyped, ListLinesTyped
    <3>2. AcceptedFirst(toClient \o lines)
      BY <1>0, <2>4, AcceptedStays
    <3>3. QED
      BY <3>1, <3>2 DEF AcceptedFirst
  <2>5. QED
    BY <2>2, <2>3, <2>4
<1>7. CASE Happens
  <2>1. UNCHANGED <<gui, sock, pbx, toServer>> /\ Listening /\ Whole' = Whole
    BY <1>7, HappensLeaves
  <2>2. PICK lines \in Seq(Lines) : toClient' = toClient \o lines
    BY <1>7, HappensLeaves
  <2>3. Asked \/ AcceptedFirst(toClient)
    BY <2>1 DEF LoggingIn, gui, pbx
  <2>4. ~Asked
    <3>1. ASSUME Asked PROVE FALSE
      <4>1. Head(toServer) = toServer[1] /\ 1 \in DOMAIN toServer
        BY <1>0, <3>1, HeadAndTail
      <4>2. Action("Login", NoChannel) \in ToSet(toServer)
        BY <3>1, <4>1 DEF ToSet
      <4>3. QED
        BY <2>1, <4>2 DEF Listening
    <3>2. QED
      BY <3>1
  <2>5. AcceptedFirst(toClient \o lines)
    BY <1>0, <2>3, <2>4, AcceptedStays
  <2>6. QED
    BY <2>2, <2>5 DEF AcceptedFirst
<1>8. CASE Apart
  BY <1>8, ApartLeaves DEF gui, LoggingIn, AcceptedFirst
<1>9. CASE SegmentEnds
  BY <1>9 DEF SegmentEnds, Disturb, Whole, pbx
<1>10. CASE ConnectionLost
  BY <1>10 DEF ConnectionLost
<1>11. CASE ConnectFails
  BY <1>11 DEF ConnectFails
<1>12. QED
  BY <1>1, <1>2, <1>3, <1>4, <1>5, <1>6, <1>7, <1>8, <1>9, <1>10, <1>11, NextIs

\* Every step keeps something under way while a request waits.
LEMMA WaitingStep ==
  TypeInv /\ Session /\ LoggingIn /\ Waiting /\ [Next]_vars => Waiting'
<1> SUFFICES ASSUME TypeInv, Session, LoggingIn, Waiting, [Next]_vars,
                    Whole', scenario'.goodLogin, PbxType = "asterisk", ~outage', pbxOk'
             PROVE  /\ sock' = "connected"
                    /\ pbxRq' => toServer' # << >> \/ toClient' # << >>
  BY DEF Waiting
<1>0. toClient \in Seq(Lines) /\ toServer \in Seq(Actions)
  BY DEF TypeInv, WireTyped
<1>1. CASE Tick
  <2>1. Whole /\ scenario.goodLogin /\ ~outage /\ pbxOk
    BY <1>1 DEF Tick, checkPBX, switchedOff, pbx, history, Whole
  <2>2. sock = "connected" /\ (pbxRq => toServer # << >> \/ toClient # << >>)
    BY <2>1 DEF Waiting
  <2>3. CASE inetTimeout > INET_TIMEOUT
    <3>1. checkPBX
      BY <1>1, <2>3 DEF Tick, switchedOff
    <3>2. sock' = sock /\ toServer' = toServer \o <<Action("ConfBridgeList", NoChannel)>>
      BY <2>1, <2>2, <3>1 DEF checkPBX, Write
    <3> DEFINE asked == Action("ConfBridgeList", NoChannel)
    <3>3. asked \in Actions
      BY ActionTyped DEF ActionNames
    <3> HIDE DEF asked
    <3>4. <<asked>> \in Seq(Actions) /\ Len(<<asked>>) = 1
      BY <3>3, OneElement
    <3>5. Len(toServer \o <<asked>>) = Len(toServer) + 1
      BY <1>0, <3>4, Added
    <3>6. toServer' # << >>
      <4>1. Len(toServer') = Len(toServer) + 1 /\ Len(toServer) \in Nat
        BY <1>0, <3>2, <3>5 DEF asked
      <4>2. QED
        BY <4>1
    <3>7. QED
      BY <2>2, <3>2, <3>6
  <2>4. CASE ~(inetTimeout > INET_TIMEOUT)
    BY <1>1, <2>2, <2>4 DEF Tick
  <2>5. QED
    BY <2>3, <2>4
<1>2. CASE Connected
  BY <1>2 DEF Connected
<1>3. CASE ReadLogin
  <2>1. Whole /\ scenario.goodLogin /\ pbxRq' = FALSE /\ sock = "connected"
    BY <1>3, ReadLeaves DEF ReadLogin
  <2>2. QED
    BY <1>3, <2>1, ReadLoginIsTrue
<1>4. CASE ReadConference \/ ReadTrunk \/ ReadIdle \/ ReadKey
  BY <1>4 DEF ReadConference, ReadTrunk, ReadIdle, ReadKey, Read
<1>5. CASE ClickStep
  <2>1. /\ UNCHANGED <<sock, toClient, pbx, outage>> /\ GuiUnchanged /\ Whole' = Whole
        /\ \E actions \in Seq(Actions) : Write(actions)
    BY <1>5, ClickLeaves
  <2>2. sock = "connected" /\ (pbxRq => toServer # << >> \/ toClient # << >>)
    BY <2>1 DEF Waiting, GuiUnchanged, pbx
  <2>3. toServer # << >> => toServer' # << >>
    BY <2>1, WrittenBehind
  <2>4. QED
    BY <2>1, <2>2, <2>3 DEF GuiUnchanged
<1>6. CASE ServeStep
  <2>1. sock' = "connected"
    BY <1>6, Served
  <2>2. toClient' # << >>
    <3>1. ASSUME NEW lines \in Seq(Lines), lines # << >>
          PROVE  toClient \o lines # << >>
      <4>1. Len(toClient \o lines) = Len(toClient) + Len(lines)
        BY <1>0, Added
      <4>2. Len(lines) >= 1 /\ Len(toClient) \in Nat
        BY <1>0, <3>1
      <4>3. Len(toClient \o lines) # 0
        BY <4>1, <4>2
      <4>4. QED
        BY <4>3
    <3>2. LoginLines # << >> /\ RegistryLines # << >> /\ NoListLines # << >>
      BY DEF LoginLines, RegistryLines, NoListLines
    <3>3. ListLines # << >>
      BY ListLinesNotEmpty
    <3>4. \A word : <<Line("Response", word), Line("Message", "User")>> # << >>
      OBVIOUS
    <3>5. QED
      BY <1>6, <3>1, <3>2, <3>3, <3>4, Served, AnswersTyped, ListLinesTyped
  <2>3. QED
    BY <2>1, <2>2
<1>7. CASE Happens
  <2>1. UNCHANGED <<gui, sock, pbx, toServer, outage>> /\ Whole' = Whole
    BY <1>7, HappensLeaves
  <2>2. PICK lines \in Seq(Lines) : toClient' = toClient \o lines
    BY <1>7, HappensLeaves
  <2>3. toClient # << >> => toClient' # << >>
    BY <1>0, <2>2
  <2>4. QED
    BY <2>1, <2>3 DEF Waiting, gui, pbx
<1>8. CASE Apart
  <2>1. /\ UNCHANGED <<pbxRq, pbxOk, scenario, sock, toServer, toClient, outage>>
        /\ Whole' = Whole
    BY <1>8, ApartLeaves DEF gui
  <2>2. QED
    BY <2>1 DEF Waiting
<1>9. CASE SegmentEnds
  BY <1>9 DEF SegmentEnds, Disturb, Whole, pbx
<1>10. CASE ConnectionLost
  BY <1>10 DEF ConnectionLost
<1>11. CASE ConnectFails
  BY <1>11 DEF ConnectFails, gui, pbx, history, Waiting, Whole
<1>12. QED
  BY <1>1, <1>2, <1>3, <1>4, <1>5, <1>6, <1>7, <1>8, <1>9, <1>10, <1>11, NextIs

SessionInv == Session /\ LoggingIn /\ Waiting

\* What is said of the session holds in every behaviour.
LEMMA SessionHolds == Spec => []SessionInv
<1>1. Init => SessionInv
  BY DEF Init, SessionInv, Session, LoggingIn, Waiting
<1>2. TypeInv /\ SessionInv /\ [Next]_vars => SessionInv'
  BY SessionStep, LoggingInStep, WaitingStep DEF SessionInv
<1>3. QED
  BY <1>1, <1>2, Typed, PTL DEF Spec

\* "PBX login failed" is said of bad credentials only, unless a line was torn: the
\* parser is in the login state only while the answer to its own login comes first
\* (mainwindow.cpp:187-193, 303-325).
THEOREM LoginFailureIsTrueForAll == Spec => LoginFailureIsTrue
<1>1. TypeInv /\ SessionInv /\ [Next]_vars =>
        [Whole /\ ReadLogin /\ sock' = "closed" => ~scenario.goodLogin]_vars
  <2> SUFFICES ASSUME TypeInv, SessionInv, Whole, ReadLogin, sock' = "closed",
                      scenario.goodLogin
               PROVE  FALSE
    OBVIOUS
  <2>1. sock = "connected"
    BY DEF ReadLogin, Read
  <2>2. QED
    BY <2>1, ReadLoginIsTrue DEF SessionInv
<1>2. QED
  BY <1>1, Typed, SessionHolds, PTL DEF Spec, LoginFailureIsTrue

\* Where the manager answers before the next poll and the credentials are good,
\* "PBX was switched off" is said only of a connection that broke.  A manager that
\* is late is taken for one that is switched off; YATE always is, as the run
\* pbx_yate shows (mainwindow.cpp:183-214, 683-699).
THEOREM SwitchedOffIsTrueWhenPrompt ==
  ASSUME PbxType = "asterisk", \A s \in Scenarios : s.prompt /\ s.goodLogin
  PROVE  Spec => SwitchedOffIsTrue
<1>1. TypeInv /\ SessionInv /\ [Next]_vars =>
        [Whole /\ pbxOk /\ ~pbxOk' => outage]_vars
  <2> SUFFICES ASSUME TypeInv, SessionInv, [Next]_vars, Whole, pbxOk, ~pbxOk', ~outage
               PROVE  FALSE
    OBVIOUS
  <2>1. scenario.prompt /\ scenario.goodLogin
    BY DEF TypeInv
  <2>2. pbxRq => toServer # << >> \/ toClient # << >>
    BY <2>1 DEF SessionInv, Waiting
  <2>3. CASE Tick
    <3>1. inetTimeout > INET_TIMEOUT /\ pbxRq /\ Answered
      BY <2>1, <2>3 DEF Tick
    <3>2. QED
      BY <2>2, <3>1 DEF Answered
  <2>4. CASE Connected \/ ReadLogin \/ ReadConference \/ ReadTrunk \/ ReadIdle \/ ReadKey
    BY <2>4 DEF Connected, ReadLogin, ReadConference, ReadTrunk, ReadIdle, ReadKey
  <2>5. CASE ClickStep
    BY <2>5, ClickLeaves DEF GuiUnchanged
  <2>6. CASE ServeStep
    BY <2>6, Served DEF gui
  <2>7. CASE Happens
    BY <2>7, HappensLeaves DEF gui
  <2>8. CASE Apart
    BY <2>8, ApartLeaves DEF gui
  <2>9. CASE SegmentEnds \/ ConnectionLost \/ ConnectFails
    BY <2>9 DEF SegmentEnds, ConnectionLost, ConnectFails, Environment, gui
  <2>10. QED
    BY <2>3, <2>4, <2>5, <2>6, <2>7, <2>8, <2>9, NextIs
<1>2. QED
  BY <1>1, Typed, SessionHolds, PTL DEF Spec, SwitchedOffIsTrue

-----------------------------------------------------------------------------
(* Key events *)

\* At this place of the wire is the rest of a key event, of a key its caller pressed.
KeyAt(lines, i, pressed) ==
  /\ i + 1 \in DOMAIN lines
  /\ lines[i].key = "Channel" /\ lines[i].value \in Channels
  /\ lines[i + 1].key = "Digit"
  /\ lines[i + 1].value \in 0 .. 9 => lines[i + 1].value \in pressed[lines[i].value]

KeyEvent == Line("Event", "DTMFEnd")

\* Every key event on the wire is whole.
KeysWhole(lines, pressed) ==
  \A i \in DOMAIN lines : lines[i] = KeyEvent => KeyAt(lines, i + 1, pressed)

\* The parser in a key event has the rest of it before it.
InKeyEvent ==
  Whole /\ sock = "connected" /\ state = "DTMF" =>
    /\ toClient # << >>
    /\ \/ KeyAt(toClient, 1, dialled)
       \/ /\ Head(toClient).key = "Digit" /\ dtmfChannel \in Channels
          /\ Head(toClient).value \in 0 .. 9 =>
               Head(toClient).value \in dialled[dtmfChannel]

KeysInv == (Whole => KeysWhole(toClient, dialled)) /\ InKeyEvent

Grows(new, old) == \A c \in Channels : old[c] \subseteq new[c]

\* The digits a caller pressed stay pressed; no row changes with them.
LEMMA DialledGrows ==
  ASSUME TypeInv, [Next]_vars
  PROVE  /\ Grows(dialled', dialled)
         /\ rows' # rows => dialled' = dialled
<1>1. CASE Happens
  <2>1. dialled \in [Channels -> SUBSET (0 .. 9)]
    BY DEF TypeInv, PbxTyped
  <2>2. \/ dialled' = dialled
        \/ \E c \in Channels, key \in TestKeys :
             dialled' = [dialled EXCEPT ![c] = dialled[c] \cup ({key} \ {Star, Hash})]
    BY <1>1, HappensLeaves
  <2>3. rows' = rows
    BY <1>1, HappensLeaves DEF gui
  <2>4. QED
    BY <2>1, <2>2, <2>3 DEF Grows
<1>2. CASE ~Happens
  <2>1. dialled' = dialled
    <3>1. CASE Tick \/ Connected \/ ConnectionLost \/ ConnectFails
      BY <3>1 DEF Tick, Connected, ConnectionLost, ConnectFails, history
    <3>2. CASE ReadLogin \/ ReadConference \/ ReadTrunk \/ ReadIdle \/ ReadKey
      BY <3>2 DEF ReadLogin, ReadConference, ReadTrunk, ReadIdle, ReadKey, Read, history
    <3>3. CASE ClickStep
      BY <3>3, ClickLeaves
    <3>4. CASE ServeStep
      BY <3>4, Served DEF history
    <3>5. CASE Apart
      BY <3>5, ApartLeaves
    <3>6. CASE SegmentEnds
      BY <3>6 DEF SegmentEnds
    <3>7. QED
      BY <1>2, <3>1, <3>2, <3>3, <3>4, <3>5, <3>6, NextIs
  <2>2. QED
    BY <2>1 DEF Grows
<1>3. QED
  BY <1>1, <1>2

\* A key event on the wire stays whole when lines come behind it.
LEMMA KeyStays ==
  ASSUME NEW t \in Seq(Lines), NEW lines \in Seq(Lines), NEW i \in Nat, i >= 1,
         NEW old, NEW new, Grows(new, old), KeyAt(t, i, old)
  PROVE  KeyAt(t \o lines, i, new)
<1> DEFINE all == t \o lines
<1>1. /\ Len(all) = Len(t) + Len(lines) /\ all \in Seq(Lines)
      /\ \A j \in 1 .. Len(t) : all[j] = t[j]
  BY Added
<1>2. i \in 1 .. Len(t) /\ i + 1 \in 1 .. Len(t)
  BY DEF KeyAt
<1> HIDE DEF all
<1>3. i + 1 \in DOMAIN all /\ all[i] = t[i] /\ all[i + 1] = t[i + 1]
  BY <1>1, <1>2
<1>4. QED
  BY <1>3 DEF KeyAt, Grows, all

\* It moves up when a line is read.
LEMMA KeyMoves ==
  ASSUME NEW t \in Seq(Lines), t # << >>, NEW i \in Nat, i >= 1, NEW d, KeyAt(t, i + 1, d)
  PROVE  KeyAt(Tail(t), i, d)
<1> DEFINE new == Tail(t)
<1>1. /\ new \in Seq(Lines) /\ Len(new) = Len(t) - 1
      /\ \A j \in 1 .. Len(t) - 1 : new[j] = t[j + 1]
  BY HeadAndTail
<1> HIDE DEF new
<1>2. (i + 1) + 1 \in 1 .. Len(t)
  BY DEF KeyAt
<1>3. i + 1 \in DOMAIN new /\ new[i] = t[i + 1] /\ new[i + 1] = t[(i + 1) + 1]
  BY <1>1, <1>2
<1>4. QED
  BY <1>3 DEF KeyAt, new

\* The key events of the wire stay whole when whole ones come behind them.
LEMMA KeysStay ==
  ASSUME NEW t \in Seq(Lines), NEW lines \in Seq(Lines),
         NEW old, NEW new, Grows(new, old), KeysWhole(t, old), KeysWhole(lines, new)
  PROVE  KeysWhole(t \o lines, new)
<1> DEFINE all == t \o lines
<1>1. /\ Len(all) = Len(t) + Len(lines) /\ all \in Seq(Lines)
      /\ \A j \in 1 .. Len(t) : all[j] = t[j]
      /\ \A j \in Len(t) + 1 .. Len(t) + Len(lines) : all[j] = lines[j - Len(t)]
  BY Added
<1>2. ASSUME NEW i \in DOMAIN all, all[i] = KeyEvent
      PROVE  KeyAt(all, i + 1, new)
  <2>1. CASE i \in 1 .. Len(t)
    <3>1. KeyAt(t, i + 1, old) /\ i + 1 \in Nat /\ i + 1 >= 1
      BY <1>1, <1>2, <2>1 DEF KeysWhole
    <3>2. QED
      BY <3>1, KeyStays
  <2>2. CASE i \in Len(t) + 1 .. Len(t) + Len(lines)
    <3> HIDE DEF all
    <3> DEFINE j == i - Len(t)
    <3>1. j \in DOMAIN lines /\ all[i] = lines[j]
      BY <1>1, <2>2
    <3>2. KeyAt(lines, j + 1, new)
      BY <1>2, <3>1 DEF KeysWhole
    <3>3. j + 1 + 1 \in DOMAIN lines
      BY <3>2 DEF KeyAt
    <3>4. /\ i + 1 \in Len(t) + 1 .. Len(t) + Len(lines) /\ (i + 1) - Len(t) = j + 1
          /\ (i + 1) + 1 \in Len(t) + 1 .. Len(t) + Len(lines)
          /\ ((i + 1) + 1) - Len(t) = (j + 1) + 1
      BY <2>2, <3>3
    <3>5. /\ all[i + 1] = lines[j + 1] /\ all[(i + 1) + 1] = lines[(j + 1) + 1]
          /\ (i + 1) + 1 \in DOMAIN all
      BY <1>1, <3>4
    <3>6. QED
      BY <3>2, <3>5 DEF KeyAt
  <2>3. QED
    <3> HIDE DEF all
    <3>1. i \in 1 .. Len(t) \/ i \in Len(t) + 1 .. Len(t) + Len(lines)
      BY <1>1
    <3>2. QED
      BY <2>1, <2>2, <3>1
<1>3. QED
  BY <1>2 DEF KeysWhole

\* They stay whole when a line is read.
LEMMA KeysMove ==
  ASSUME NEW t \in Seq(Lines), t # << >>, NEW d, KeysWhole(t, d)
  PROVE  KeysWhole(Tail(t), d)
<1>1. /\ Tail(t) \in Seq(Lines) /\ Len(Tail(t)) = Len(t) - 1
      /\ \A j \in 1 .. Len(t) - 1 : Tail(t)[j] = t[j + 1]
  BY HeadAndTail
<1>2. ASSUME NEW i \in DOMAIN Tail(t), Tail(t)[i] = KeyEvent
      PROVE  KeyAt(Tail(t), i + 1, d)
  <2>1. i \in 1 .. Len(t) - 1 /\ i + 1 \in DOMAIN t /\ t[i + 1] = KeyEvent
    BY <1>1, <1>2
  <2>2. KeyAt(t, (i + 1) + 1, d) /\ i + 1 \in Nat /\ i + 1 >= 1
    BY <2>1 DEF KeysWhole
  <2>3. QED
    BY <2>2, KeyMoves
<1>3. QED
  BY <1>2 DEF KeysWhole

\* The answer that there is no conference.
NoConference == Line("Message", "No active conferences.")

\* The lines that belong to no list and to no event.
Plain ==
  {line \in Lines :
     line.key \in {"Response", "Message", "Trunk", "Output"} /\ line # NoConference}

\* The answers to a login, the registrations and moderation are plain.
LEMMA PlainAnswers ==
  ASSUME TypeInv
  PROVE  /\ LoginLines \in Seq(Plain)
         /\ RegistryLines \in Seq(Plain)
         /\ \A word \in {"Success", "Error"} :
              <<Line("Response", word), Line("Message", "User")>> \in Seq(Plain)
<1>1. ASSUME NEW key \in {"Response", "Message", "Trunk", "Output"}, NEW word \in Words,
             word # "No active conferences."
      PROVE  Line(key, word) \in Plain
  <2>1. Line(key, word) \in Lines
    BY <1>1, WordLine DEF WordKeys
  <2>2. /\ Line(key, word).key = key /\ Line(key, word).value = word
        /\ NoConference.value = "No active conferences."
    BY DEF Line, NoConference
  <2>3. QED
    BY <1>1, <2>1, <2>2 DEF Plain
<1>2. /\ {"Success", "Error", "Follows", "Authentication accepted",
          "Authentication failed", "User", "--END COMMAND--"} \subseteq Words
      /\ trunk \in Words /\ trunk # "No active conferences."
  BY DEF Words, TypeInv, PbxTyped
<1>3. LoginLines \in Seq(Plain)
  <2>1. /\ Line("Response", "Success") \in Plain /\ Line("Response", "Error") \in Plain
        /\ Line("Message", "Authentication accepted") \in Plain
        /\ Line("Message", "Authentication failed") \in Plain
    BY <1>1, <1>2
  <2>2. QED
    BY <2>1, TwoElements DEF LoginLines
<1>4. RegistryLines \in Seq(Plain)
  <2>1. /\ Line("Response", "Follows") \in Plain /\ Line("Trunk", trunk) \in Plain
        /\ Line("Output", "--END COMMAND--") \in Plain
    BY <1>1, <1>2
  <2>2. QED
    BY <2>1, ThreeElements DEF RegistryLines
<1>5. ASSUME NEW word \in {"Success", "Error"}
      PROVE  <<Line("Response", word), Line("Message", "User")>> \in Seq(Plain)
  <2>1. Line("Response", word) \in Plain /\ Line("Message", "User") \in Plain
    BY <1>1, <1>2
  <2>2. QED
    BY <2>1, TwoElements
<1>6. QED
  BY <1>3, <1>4, <1>5

\* Plain lines are neither events nor lists.
LEMMA PlainSpeaks ==
  ASSUME NEW lines \in Seq(Plain)
  PROVE  /\ lines \in Seq(Lines)
         /\ \A i \in DOMAIN lines :
              /\ lines[i].key \in {"Response", "Message", "Trunk", "Output"}
              /\ lines[i] # NoConference
<1>1. \A i \in DOMAIN lines : lines[i] \in Plain
  BY ElementOfSeq
<1>2. Plain \subseteq Lines
  BY DEF Plain
<1>3. lines \in Seq(Lines)
  BY <1>2
<1>4. QED
  BY <1>1, <1>3 DEF Plain

\* What the manager answers is no event.
LEMMA ListIsNoEvent ==
  ASSUME TypeInv
  PROVE  \A i \in DOMAIN ListLines : ListLines[i].key # "Event"
<1>0. \A key, value : Line(key, value).key = key
  BY DEF Line
<1>1. CASE conf = << >> \/ ~scenario.goodLogin
  <2>2. QED
    <3>1. PICK w : ListLines = <<Line("Response", "Error"), Line("Message", w)>>
      BY <1>1 DEF ListLines, NoListLines
    <3> DEFINE x == Line("Response", "Error")
               y == Line("Message", w)
    <3>2. x.key # "Event" /\ y.key # "Event"
      BY <1>0
    <3> HIDE DEF x, y
    <3>3. \A i \in DOMAIN <<x, y>> : <<x, y>>[i].key # "Event"
      BY <3>2
    <3>4. QED
      BY <3>1, <3>3 DEF x, y
<1>2. CASE ~(conf = << >> \/ ~scenario.goodLogin)
  <2> DEFINE n == Len(conf)
  <2>1. /\ Len(ListLines) = n + 3
        /\ ListLines[1] = Line("Response", "Success")
        /\ ListLines[2] = Line("Message", "Confbridge user list will follow")
        /\ \A i \in 1 .. n : ListLines[i + 2] = Line("Entry", Entry(conf[i]))
        /\ ListLines[n + 3] = Line("ListItems", n)
    BY <1>2, ListLinesAre
  <2>2. ListLines \in Seq(Lines) /\ n \in Nat /\ Len(ListLines) = n + 3
    BY <1>2, ListLinesTyped, ListLinesAre
  <2> HIDE DEF n
  <2>6. DOMAIN ListLines = 1 .. n + 3
    BY <2>2
  <2>7. /\ Line("Response", "Success").key # "Event"
         /\ Line("Message", "Confbridge user list will follow").key # "Event"
         /\ Line("ListItems", n).key # "Event"
    BY DEF Line
  <2>8. /\ ListLines[1].key # "Event" /\ ListLines[2].key # "Event"
         /\ ListLines[n + 3].key # "Event"
    BY <2>1, <2>7, Zenon
  <2>3. ASSUME NEW i \in 1 .. n + 3 PROVE ListLines[i].key # "Event"
    <3>1. i = 1 \/ i = 2 \/ i - 2 \in 1 .. n \/ i = n + 3
      BY <2>2
    <3>2. CASE i - 2 \in 1 .. n
      <4>1. (i - 2) + 2 = i
        OBVIOUS
      <4>2. ListLines[(i - 2) + 2] = Line("Entry", Entry(conf[i - 2]))
        BY <2>1, <3>2
      <4>3. QED
        BY <1>0, <4>1, <4>2
    <3>3. CASE i = 1
      BY <2>8, <3>3
    <3>4. CASE i = 2
      BY <2>8, <3>4
    <3>5. CASE i = n + 3
      BY <2>8, <3>5
    <3>6. QED
      BY <3>1, <3>2, <3>3, <3>4, <3>5
  <2>5. QED
    BY <2>3, <2>6
<1>3. QED
  BY <1>1, <1>2

\* Lines without an event have no key event.
LEMMA NoEventNoKey ==
  ASSUME NEW lines \in Seq(Lines), \A i \in DOMAIN lines : lines[i].key # "Event", NEW d
  PROVE  KeysWhole(lines, d)
BY DEF KeysWhole, KeyEvent, Line

\* The events, by their lines.
LEMMA EventIsWhole ==
  ASSUME NEW c \in Channels \cup {Own}, NEW d
  PROVE  KeysWhole(EventLines(c), d)
<1> DEFINE x == Line("Event", "Newstate")
           y == Line("Channel", c)
<1>1. x # KeyEvent /\ y # KeyEvent
  BY DEF Line, KeyEvent
<1>2. EventLines(c) = <<x, y>>
  BY DEF EventLines
<1> HIDE DEF x, y
<1>3. \A i \in DOMAIN <<x, y>> : <<x, y>>[i] # KeyEvent
  BY <1>1
<1>4. QED
  BY <1>2, <1>3 DEF KeysWhole

\* A key that is pressed is sent as a whole event.
LEMMA PressedIsWhole ==
  ASSUME NEW c \in Channels, NEW key \in TestKeys, NEW d, key \in 0 .. 9 => key \in d[c]
  PROVE  KeysWhole(KeyLines(c, key), d)
<1> DEFINE x == KeyEvent
           y == Line("Channel", c)
           z == Line("Digit", key)
           all == <<x, y, z>>
<1>1. /\ y.key = "Channel" /\ y.value = c /\ z.key = "Digit" /\ z.value = key
      /\ y # x /\ z # x
  BY DEF Line, KeyEvent
<1>2. KeyLines(c, key) = all
  BY DEF KeyLines, KeyEvent
<1> HIDE DEF x, y, z
<1>3. DOMAIN all = 1 .. 3 /\ all[1] = x /\ all[2] = y /\ all[3] = z
  OBVIOUS
<1> HIDE DEF all
<1>4. ASSUME NEW i \in 1 .. 3, all[i] = x PROVE i = 1
  <2>1. i = 1 \/ i = 2 \/ i = 3
    OBVIOUS
  <2>2. QED
    BY <1>1, <1>3, <1>4, <2>1
<1>5. KeyAt(all, 1 + 1, d)
  <2>1. 1 + 1 = 2 /\ 2 + 1 = 3 /\ 3 \in DOMAIN all
    BY <1>3
  <2>2. QED
    BY <1>1, <1>3, <2>1 DEF KeyAt
<1>6. QED
  BY <1>2, <1>3, <1>4, <1>5 DEF KeysWhole, x

\* Every step keeps the key events on the wire whole.
LEMMA KeysWholeStep == TypeInv /\ Session /\ KeysInv /\ [Next]_vars =>
                         (Whole => KeysWhole(toClient, dialled))'
<1> SUFFICES ASSUME TypeInv, Session, KeysInv, [Next]_vars, Whole'
             PROVE  KeysWhole(toClient', dialled')
  BY DEF KeysWhole, KeyAt, KeyEvent
<1>0. toClient \in Seq(Lines)
  BY DEF TypeInv, WireTyped
<1>1. Grows(dialled', dialled)
  BY DialledGrows
<1>2. KeysWhole(<< >>, dialled')
  BY DEF KeysWhole
<1>3. << >> \in Seq(Lines)
  OBVIOUS
<1>4. ASSUME Whole, NEW lines \in Seq(Lines), KeysWhole(lines, dialled'),
             toClient' = toClient \o lines
      PROVE  KeysWhole(toClient', dialled')
  BY <1>0, <1>1, <1>4, KeysStay DEF KeysInv
<1>5. ASSUME Whole, toClient' = toClient PROVE KeysWhole(toClient', dialled')
  <2>1. toClient \o << >> = toClient
    BY <1>0
  <2>2. QED
    BY <1>2, <1>3, <1>4, <1>5, <2>1
<1>6. ASSUME Whole, toClient # << >>, toClient' = Tail(toClient), dialled' = dialled
      PROVE  KeysWhole(toClient', dialled')
  BY <1>0, <1>6, KeysMove DEF KeysInv
<1>7. CASE Tick
  BY <1>2, <1>5, <1>7 DEF Tick, checkPBX, switchedOff, Connect, Disconnect, pbx, Whole
<1>8. CASE Connected \/ ConnectionLost \/ ConnectFails
  BY <1>2, <1>5, <1>8 DEF Connected, ConnectionLost, ConnectFails, pbx, Whole
<1>9. CASE ReadLogin \/ ReadConference \/ ReadTrunk \/ ReadIdle \/ ReadKey
  <2>1. Whole /\ dialled' = dialled /\ toClient # << >>
    BY <1>9 DEF ReadLogin, ReadConference, ReadTrunk, ReadIdle, ReadKey, Read, pbx,
                history, Whole
  <2>2. toClient' = Tail(toClient) \/ toClient' = << >>
    BY <1>9 DEF ReadLogin, ReadConference, ReadTrunk, ReadIdle, ReadKey, Disconnect
  <2>3. QED
    BY <1>2, <1>6, <2>1, <2>2
<1>10. CASE ClickStep
  BY <1>5, <1>10, ClickLeaves
<1>11. CASE ServeStep
  <2>1. PICK lines \in Seq(Lines) :
          /\ toClient' = toClient \o lines
          /\ \A i \in DOMAIN lines : lines[i].key # "Event"
    BY <1>11, Served, PlainAnswers, PlainSpeaks, ListLinesTyped, ListIsNoEvent
  <2>2. KeysWhole(lines, dialled')
    <3>1. lines \in Seq(Lines) /\ \A i \in DOMAIN lines : lines[i].key # "Event"
      BY <2>1
    <3>2. QED
      BY <3>1, NoEventNoKey
  <2>3. Whole
    BY <1>11, Served
  <2>4. toClient' = toClient \o lines /\ lines \in Seq(Lines)
    BY <2>1
  <2>5. QED
    BY <1>4, <2>2, <2>3, <2>4
<1>12. CASE Happens
  <2>1. PICK lines \in Seq(Lines) :
          /\ toClient' = toClient \o lines
          /\ \/ \E c \in Channels \cup {Own} :
                  lines = EventLines(c) /\ dialled' = dialled
             \/ \E c \in Channels, key \in TestKeys :
                  /\ lines = KeyLines(c, key)
                  /\ dialled' = [dialled EXCEPT ![c] = @ \cup ({key} \ {Star, Hash})]
    BY <1>12, HappensLeaves
  <2>4. KeysWhole(lines, dialled')
    <3>1. CASE \E c \in Channels \cup {Own} : lines = EventLines(c)
      BY <3>1, EventIsWhole
    <3>2. CASE \E c \in Channels, key \in TestKeys :
                 /\ lines = KeyLines(c, key)
                 /\ dialled' = [dialled EXCEPT ![c] = @ \cup ({key} \ {Star, Hash})]
      <4>1. PICK c \in Channels, key \in TestKeys :
                 /\ lines = KeyLines(c, key)
                 /\ dialled' = [dialled EXCEPT ![c] = dialled[c] \cup ({key} \ {Star, Hash})]
        BY <3>2
      <4>2. dialled \in [Channels -> SUBSET (0 .. 9)]
        BY DEF TypeInv, PbxTyped
      <4>3. key \in 0 .. 9 => key \notin {Star, Hash}
        BY DEF Star, Hash
      <4>4. key \in 0 .. 9 => key \in dialled'[c]
        BY <4>1, <4>2, <4>3
      <4>5. QED
        BY <4>1, <4>4, PressedIsWhole
    <3>3. QED
      BY <2>1, <3>1, <3>2
  <2>5. Whole
    BY <1>12, HappensLeaves
  <2>6. toClient' = toClient \o lines /\ lines \in Seq(Lines)
    BY <2>1
  <2>7. QED
    BY <1>4, <2>4, <2>5, <2>6
<1>13. CASE Apart
  BY <1>5, <1>13, ApartLeaves
<1>14. CASE SegmentEnds
  BY <1>14 DEF SegmentEnds, Disturb, Whole, pbx
<1>15. QED
  BY <1>7, <1>8, <1>9, <1>10, <1>11, <1>12, <1>13, <1>14, NextIs

\* Every step keeps the parser in step with the event it reads.
LEMMA InKeyEventStep == TypeInv /\ Session /\ KeysInv /\ [Next]_vars => InKeyEvent'
<1> SUFFICES ASSUME TypeInv, Session, KeysInv, [Next]_vars,
                    Whole', sock' = "connected", state' = "DTMF"
             PROVE  /\ toClient' # << >>
                    /\ \/ KeyAt(toClient', 1, dialled')
                       \/ /\ Head(toClient').key = "Digit" /\ dtmfChannel' \in Channels
                          /\ Head(toClient').value \in 0 .. 9 =>
                               Head(toClient').value \in dialled'[dtmfChannel']
  BY DEF InKeyEvent, KeyAt
<1>0. toClient \in Seq(Lines)
  BY DEF TypeInv, WireTyped
<1>1. Grows(dialled', dialled)
  BY DialledGrows
\* what comes behind changes nothing
<1>2. ASSUME Whole, sock = "connected", state = "DTMF", dtmfChannel' = dtmfChannel,
             NEW lines \in Seq(Lines), toClient' = toClient \o lines
      PROVE  /\ toClient' # << >>
             /\ \/ KeyAt(toClient', 1, dialled')
                \/ /\ Head(toClient').key = "Digit" /\ dtmfChannel' \in Channels
                   /\ Head(toClient').value \in 0 .. 9 =>
                        Head(toClient').value \in dialled'[dtmfChannel']
  <2>1. /\ toClient # << >>
        /\ \/ KeyAt(toClient, 1, dialled)
           \/ /\ Head(toClient).key = "Digit" /\ dtmfChannel \in Channels
              /\ Head(toClient).value \in 0 .. 9 =>
                   Head(toClient).value \in dialled[dtmfChannel]
    BY <1>2 DEF KeysInv, InKeyEvent
  <2> DEFINE new == toClient \o lines
  <2>2. /\ new \in Seq(Lines) /\ Len(new) = Len(toClient) + Len(lines)
        /\ \A i \in 1 .. Len(toClient) : new[i] = toClient[i]
    BY <1>0, Added
  <2> HIDE DEF new
  <2>3. Len(toClient) >= 1 /\ Len(lines) \in Nat /\ Head(toClient) = toClient[1]
    BY <1>0, <2>1, HeadAndTail
  <2>4. new # << >>
    BY <2>2, <2>3
  <2>5. Head(new) = Head(toClient)
    BY <2>2, <2>3, <2>4, HeadAndTail
  <2>6. KeyAt(toClient, 1, dialled) => KeyAt(new, 1, dialled')
    BY <1>0, <1>1, KeyStays DEF new
  <2>7. \A c \in Channels : \A k : k \in dialled[c] => k \in dialled'[c]
    BY <1>1 DEF Grows
  <2>8. QED
    BY <1>2, <2>1, <2>4, <2>5, <2>6, <2>7 DEF new
<1>3. ASSUME Whole, UNCHANGED <<sock, state, dtmfChannel, toClient>>
      PROVE  /\ toClient' # << >>
             /\ \/ KeyAt(toClient', 1, dialled')
                \/ /\ Head(toClient').key = "Digit" /\ dtmfChannel' \in Channels
                   /\ Head(toClient').value \in 0 .. 9 =>
                        Head(toClient').value \in dialled'[dtmfChannel']
  <2>1. toClient \o << >> = toClient /\ << >> \in Seq(Lines)
    BY <1>0
  <2>2. QED
    BY <1>2, <1>3, <2>1
<1>4. CASE Tick
  <2>1. Whole /\ UNCHANGED <<sock, state, dtmfChannel, toClient>>
    BY <1>4 DEF Tick, checkPBX, switchedOff, Connect, Disconnect, pbx, Whole, Session
  <2>2. QED
    BY <1>3, <2>1
<1>5. CASE Connected \/ ConnectionLost \/ ConnectFails \/ ReadLogin \/ ReadConference \/ ReadTrunk
  BY <1>5 DEF Connected, ConnectionLost, ConnectFails, ReadLogin, ReadConference,
              ReadTrunk, Read, ListEnds
<1>6. CASE ReadIdle
  <2>1. /\ Whole /\ toClient # << >> /\ toClient' = Tail(toClient) /\ dialled' = dialled
        /\ Is("Event", "DTMFEnd")
    BY <1>6 DEF ReadIdle, Read, Whole, pbx, history
  <2>2. Head(toClient) \in Lines /\ Head(toClient) = toClient[1] /\ 1 \in DOMAIN toClient
    BY <1>0, <2>1, HeadAndTail
  <2>3. toClient[1] = KeyEvent
    <3> DEFINE l == toClient[1]
    <3>1. l \in Lines /\ l.key = "Event" /\ l.value = "DTMFEnd"
      BY <2>1, <2>2 DEF Is
    <3> HIDE DEF l
    <3>2. l = [key |-> "Event", value |-> "DTMFEnd"]
      BY <3>1 DEF Lines
    <3>3. QED
      BY <3>2 DEF l, KeyEvent, Line
  <2>4. KeyAt(toClient, 1 + 1, dialled)
    BY <2>1, <2>2, <2>3 DEF KeysInv, KeysWhole
  <2>5. KeyAt(Tail(toClient), 1, dialled)
    BY <1>0, <2>1, <2>4, KeyMoves
  <2>6. Tail(toClient) # << >>
    <3> DEFINE rest == Tail(toClient)
    <3>1. (1 + 1) + 1 \in 1 .. Len(toClient)
      BY <1>0, <2>4 DEF KeyAt
    <3>2. rest \in Seq(Lines) /\ Len(rest) = Len(toClient) - 1
      BY <1>0, <2>1, HeadAndTail
    <3>3. Len(toClient) \in Nat
      BY <1>0
    <3> HIDE DEF rest
    <3>4. Len(rest) # 0
      BY <3>1, <3>2, <3>3
    <3>5. rest # << >>
      BY <3>4
    <3>6. QED
      BY <3>5 DEF rest
  <2>7. QED
    BY <2>1, <2>5, <2>6
<1>7. CASE ReadKey
  <2>1. /\ Whole /\ toClient # << >> /\ toClient' = Tail(toClient) /\ dialled' = dialled
        /\ Head(toClient).key # "Digit" /\ sock = "connected" /\ state = "DTMF"
        /\ Head(toClient).key = "Channel" => dtmfChannel' = Head(toClient).value
    BY <1>7 DEF ReadKey, Read, Whole, pbx, history
  <2>2. KeyAt(toClient, 1, dialled)
    BY <2>1 DEF KeysInv, InKeyEvent
  <2>3. /\ Head(toClient) = toClient[1] /\ Tail(toClient) \in Seq(Lines)
        /\ Len(Tail(toClient)) = Len(toClient) - 1
        /\ \A i \in 1 .. Len(toClient) - 1 : Tail(toClient)[i] = toClient[i + 1]
    BY <1>0, <2>1, HeadAndTail
  <2>4. 1 + 1 \in DOMAIN toClient
    BY <2>2 DEF KeyAt
  <2>5. Tail(toClient) # << >> /\ Tail(toClient)[1] = toClient[1 + 1]
    <3> DEFINE rest == Tail(toClient)
    <3>1. Len(toClient) \in Nat /\ 1 + 1 \in 1 .. Len(toClient)
      BY <1>0, <2>4
    <3>2. /\ rest \in Seq(Lines) /\ Len(rest) = Len(toClient) - 1
          /\ \A i \in 1 .. Len(toClient) - 1 : rest[i] = toClient[i + 1]
      BY <2>3
    <3> HIDE DEF rest
    <3>3. Len(rest) # 0 /\ 1 \in 1 .. Len(toClient) - 1
      BY <3>1, <3>2
    <3>4. rest # << >> /\ rest[1] = toClient[1 + 1]
      BY <3>2, <3>3
    <3>5. QED
      BY <3>4 DEF rest
  <2>6. Head(Tail(toClient)) = toClient[1 + 1]
    BY <2>3, <2>5, HeadAndTail
  <2>7. dtmfChannel' = toClient[1].value
    BY <2>1, <2>2, <2>3 DEF KeyAt
  <2>8. QED
    BY <2>1, <2>2, <2>5, <2>6, <2>7 DEF KeyAt
<1>8. CASE ClickStep
  <2>1. Whole /\ UNCHANGED <<sock, state, dtmfChannel, toClient>>
    BY <1>8, ClickLeaves DEF GuiUnchanged
  <2>2. QED
    BY <1>3, <2>1
<1>9. CASE ServeStep
  <2>1. Whole /\ UNCHANGED <<sock, state, dtmfChannel>>
    BY <1>9, Served DEF gui
  <2>2. PICK lines \in Seq(Lines) : toClient' = toClient \o lines
    BY <1>9, Served, AnswersTyped, ListLinesTyped
  <2>3. QED
    BY <1>2, <2>1, <2>2
<1>10. CASE Happens
  <2>1. Whole /\ UNCHANGED <<sock, state, dtmfChannel>>
    BY <1>10, HappensLeaves DEF gui
  <2>2. PICK lines \in Seq(Lines) : toClient' = toClient \o lines
    BY <1>10, HappensLeaves
  <2>3. QED
    BY <1>2, <2>1, <2>2
<1>11. CASE Apart
  <2>1. Whole /\ UNCHANGED <<sock, state, dtmfChannel, toClient>>
    BY <1>11, ApartLeaves DEF gui
  <2>2. QED
    BY <1>3, <2>1
<1>12. CASE SegmentEnds
  BY <1>12 DEF SegmentEnds, Disturb, Whole, pbx
<1>13. QED
  BY <1>4, <1>5, <1>6, <1>7, <1>8, <1>9, <1>10, <1>11, <1>12, NextIs

\* What is said of key events holds in every behaviour.
LEMMA KeysHold == Spec => []KeysInv
<1>1. Init => KeysInv
  BY DEF Init, KeysInv, KeysWhole, InKeyEvent
<1>2. TypeInv /\ SessionInv /\ KeysInv /\ [Next]_vars => KeysInv'
  BY KeysWholeStep, InKeyEventStep DEF SessionInv, KeysInv
<1>3. QED
  BY <1>1, <1>2, Typed, SessionHolds, PTL DEF Spec

-----------------------------------------------------------------------------
(* The digits of a row *)

\* A number of one or two digits has only digits of this set.
OwnNumber(n, digits) ==
  /\ n \in Nat
  /\ n \in 1 .. 9 => n \in digits
  /\ n \in 10 .. 99 => n \div 10 \in digits /\ n % 10 \in digits

OwnRow(row, pressed) ==
  /\ OwnNumber(row.number, pressed[row.channel])
  /\ OwnNumber(row.text, pressed[row.channel])

\* The number being dialled and the one shown have digits of their caller only.
OwnDigits == Whole => \A r \in DOMAIN rows : OwnRow(rows[r], dialled)

\* A digit more and the numbers still fit.
NumbersFit == \A r \in DOMAIN rows : rows[r].number * 10 + 9 < INT_HALF

\* A number of own digits, with another one.
LEMMA DigitAdded ==
  ASSUME NEW digits, NEW n, OwnNumber(n, digits), NEW key \in 0 .. 9, key \in digits
  PROVE  OwnNumber(n * 10 + key, digits)
<1> DEFINE m == n * 10 + key
<1>1. n \in Nat /\ m \in Nat /\ m = n * 10 + key
  BY DEF OwnNumber
<1> HIDE DEF m
<1>2. ASSUME m \in 1 .. 9 PROVE m \in digits
  <2>1. n = 0 /\ m = key
    BY <1>1, <1>2
  <2>2. QED
    BY <2>1
<1>3. ASSUME m \in 10 .. 99 PROVE m \div 10 \in digits /\ m % 10 \in digits
  <2>1. n \in 1 .. 9
    BY <1>1, <1>3
  <2>2. m \div 10 = n /\ m % 10 = key
    BY <1>1, <2>1
  <2>3. n \in digits
    BY <2>1 DEF OwnNumber
  <2>4. QED
    BY <2>2, <2>3
<1>4. OwnNumber(m, digits)
  BY <1>1, <1>2, <1>3 DEF OwnNumber
<1>5. QED
  BY <1>4 DEF m

\* No number has no digits.
LEMMA NoNumber == ASSUME NEW digits PROVE OwnNumber(0, digits)
BY DEF OwnNumber

\* A row stays its caller's own when callers press more keys.
LEMMA MoreDigits ==
  ASSUME NEW C, C \subseteq Channels, NEW row \in Row(C), NEW old, NEW new,
         Grows(new, old), OwnRow(row, old)
  PROVE  OwnRow(row, new)
<1>1. row.channel \in Channels
  BY DEF Row
<1>2. old[row.channel] \subseteq new[row.channel]
  BY <1>1 DEF Grows
<1>3. QED
  BY <1>2 DEF OwnRow, OwnNumber

\* A row keeps its number, and its text or none.
LEMMA RowsStayOwn ==
  ASSUME NEW C, NEW new \in Seq(Row(C)), NEW old \in Seq(Row(C)), NEW pressed,
         SameCallers(new, old), \A r \in DOMAIN old : OwnRow(old[r], pressed),
         \A r \in DOMAIN old :
           /\ new[r].number = old[r].number
           /\ new[r].text = old[r].text \/ new[r].text = 0
  PROVE  \A r \in DOMAIN new : OwnRow(new[r], pressed)
<1>1. DOMAIN new = DOMAIN old
  BY DEF SameCallers
<1>2. QED
  BY <1>1, NoNumber DEF SameCallers, OwnRow

\* The scenario does not change.
LEMMA WholeStays ==
  ASSUME TypeInv, [Next]_vars
  PROVE  Whole' = Whole /\ scenario' = scenario
<1>1. CASE Tick \/ Connected \/ ConnectionLost \/ ConnectFails \/ SegmentEnds
  BY <1>1 DEF Tick, Connected, ConnectionLost, ConnectFails, SegmentEnds, pbx, Whole
<1>2. CASE ReadLogin \/ ReadConference \/ ReadTrunk \/ ReadIdle \/ ReadKey
  BY <1>2 DEF ReadLogin, ReadConference, ReadTrunk, ReadIdle, ReadKey, Read, pbx, Whole
<1>3. CASE ClickStep
  BY <1>3, ClickLeaves DEF pbx
<1>4. CASE ServeStep
  BY <1>4, Served
<1>5. CASE Happens
  BY <1>5, HappensLeaves DEF pbx
<1>6. CASE Apart
  BY <1>6, ApartLeaves
<1>7. QED
  BY <1>1, <1>2, <1>3, <1>4, <1>5, <1>6, NextIs

\* An entry of the list leaves the numbers of the rows.
LEMMA ListedNumbers ==
  ASSUME NEW C, NEW table \in Seq(Row(C)), NEW c \in C, NEW unmuted \in BOOLEAN,
         NEW new, new = Listed(table, c, unmuted)
  PROVE  /\ new \in Seq(Row(C))
         /\ SameCallers(new, table) \/ new = Append(table, NewRow(c, unmuted))
         /\ \A r \in DOMAIN table :
              new[r].number = table[r].number /\ new[r].text = table[r].text
<1>1. /\ new \in Seq(Row(C))
      /\ SameCallers(new, table) \/ new = Append(table, NewRow(c, unmuted))
  BY ListedRows
<1>2. \A r \in DOMAIN table : 
        new[r].number = table[r].number /\ new[r].text = table[r].text
  BY ListedRows
<1>3. QED
  BY <1>1, <1>2

\* While numbers fit, every step keeps the digits of a row its caller's own.
LEMMA OwnDigitsStep ==
  TypeInv /\ KeysInv /\ OwnDigits /\ NumbersFit /\ [Next]_vars => OwnDigits'
<1> SUFFICES ASSUME TypeInv, KeysInv, OwnDigits, NumbersFit, [Next]_vars, Whole'
             PROVE  \A r \in DOMAIN rows' : OwnRow(rows'[r], dialled')
  BY DEF OwnDigits
<1>0. Whole
  BY WholeStays
<1>1. /\ rows \in Seq(Row(Channels)) /\ scenario.multi \in BOOLEAN
      /\ \A r \in DOMAIN rows : OwnRow(rows[r], dialled)
  BY <1>0, RowsTyped DEF RowChannels, OwnDigits
<1>2. CASE rows' = rows
  <2>1. Grows(dialled', dialled)
    BY DialledGrows
  <2>2. \A r \in DOMAIN rows : rows[r] \in Row(Channels)
    BY <1>1, ElementOfSeq
  <2>3. QED
    BY <1>1, <1>2, <2>1, <2>2, MoreDigits
<1>3. CASE rows' # rows
  <2>0. dialled' = dialled
    BY <1>3, DialledGrows
  <2> SUFFICES \A r \in DOMAIN rows' : OwnRow(rows'[r], dialled)
    BY <2>0
  <2>1. CASE rows' = << >>
    BY <2>1
  <2>2. CASE Tick /\ rows' = markAllChannels(rows, FALSE)
    <3>1. rows' \in Seq(Row(Channels)) /\ SameCallers(rows', rows)
      BY <1>1, <2>2, MarkedRows
    <3>2. \A r \in DOMAIN rows : /\ rows'[r].number = rows[r].number
                                 /\ rows'[r].text = rows[r].text
      <4>1. ASSUME NEW r \in DOMAIN rows
            PROVE  rows'[r].number = rows[r].number /\ rows'[r].text = rows[r].text
        <5>1. rows[r] \in Row(Channels)
          BY <1>1, ElementOfSeq
        <5>2. rows'[r] = [rows[r] EXCEPT !.marked = FALSE]
          BY <2>2 DEF markAllChannels
        <5>3. QED
          BY <5>1, <5>2, MarkChanged
      <4>2. QED
        BY <4>1
    <3>3. QED
      BY <1>1, <3>1, <3>2, RowsStayOwn
  <2>3. CASE /\ ReadConference /\ parse
             /\ Head(toClient).key = "Entry" /\ ~Head(toClient).value.own
             /\ rows' = Listed(rows, Head(toClient).value.channel,
                               Head(toClient).value.unmuted)
    <3> DEFINE c == Head(toClient).value.channel
               unmuted == Head(toClient).value.unmuted
    <3>1. toClient # << >>
      BY <2>3 DEF ReadConference, Read
    <3>2. c \in Channels /\ unmuted \in BOOLEAN
      BY <1>0, <2>3, <3>1, RowsTyped DEF RowChannels
    <3>3. rows' = Listed(rows, c, unmuted)
      BY <2>3
    <3> HIDE DEF c, unmuted
    <3>4. /\ rows' \in Seq(Row(Channels))
          /\ SameCallers(rows', rows) \/ rows' = Append(rows, NewRow(c, unmuted))
          /\ \A r \in DOMAIN rows :
               rows'[r].number = rows[r].number /\ rows'[r].text = rows[r].text
      BY <1>1, <3>2, <3>3, ListedNumbers
    <3>5. CASE SameCallers(rows', rows)
      BY <1>1, <3>4, <3>5, RowsStayOwn
    <3>6. CASE rows' = Append(rows, NewRow(c, unmuted))
      <4> DEFINE row == NewRow(c, unmuted)
      <4>1. OwnRow(row, dialled)
        BY NoNumber DEF OwnRow, NewRow
      <4> HIDE DEF row
      <4>2. rows' = Append(rows, row)
        BY <3>6 DEF row
      <4>3. /\ DOMAIN rows' = 1 .. Len(rows) + 1 /\ DOMAIN rows = 1 .. Len(rows)
            /\ rows'[Len(rows) + 1] = row
            /\ \A r \in 1 .. Len(rows) : rows'[r] = rows[r]
        BY <1>1, <4>2
      <4>4. QED
        BY <1>1, <4>1, <4>3
    <3>7. QED
      BY <3>4, <3>5, <3>6
  <2>4. CASE rows' = removeUnusedChannels(rows)
    <3>1. IsKept(rows', rows)
      BY <1>1, <2>4, KeptRows
    <3>2. PICK from \in [1 .. Len(rows') -> DOMAIN rows \ Removed(rows)] :
            \A i \in DOMAIN from : rows'[i] = rows[from[i]]
      BY <3>1 DEF IsKept
    <3>3. DOMAIN rows' = DOMAIN from
      BY <1>1, <2>4, KeptRows
    <3>4. QED
      BY <1>1, <3>2, <3>3
  <2>5. CASE /\ ReadKey /\ Head(toClient).key = "Digit"
             /\ rows' = Dialled(rows, dtmfChannel, Head(toClient).value)
    <3> DEFINE key == Head(toClient).value
    <3>1. toClient # << >> /\ sock = "connected" /\ state = "DTMF"
      BY <2>5 DEF ReadKey, Read
    <3>2. key \in Keys \cup {Cut} /\ Head(toClient) = toClient[1]
      BY <2>5, <3>1, RowsTyped, HeadAndTail DEF TypeInv, WireTyped
    <3>3. key \in 0 .. 9 => key \in dialled[dtmfChannel]
      BY <1>0, <2>5, <3>1, <3>2 DEF KeysInv, InKeyEvent, KeyAt
    <3> HIDE DEF key
    <3>4. rows' = Dialled(rows, dtmfChannel, key)
      BY <2>5 DEF key
    <3>5. /\ rows' \in Seq(Row(Channels)) /\ SameCallers(rows', rows)
          /\ \A i \in DOMAIN rows :
               \/ rows'[i].text = rows[i].text /\ rows'[i].number = rows[i].number
               \/ /\ rows[i].channel = dtmfChannel
                  /\ \/ /\ rows[i].number \in 1 .. 99
                        /\ rows'[i].text = rows[i].number
                        /\ rows'[i].number = rows[i].number
                     \/ rows'[i].text = 0 /\ rows'[i].number = 0
                     \/ /\ key \in 0 .. 9
                        /\ rows'[i].text = rows[i].text
                        /\ rows'[i].number = Wrapped(rows[i].number * 10 + key)
      BY <1>1, <3>2, <3>4, DialledRows
    <3>6. DOMAIN rows' = DOMAIN rows
      BY <1>1, <3>5 DEF SameCallers
    <3>7. ASSUME NEW i \in DOMAIN rows PROVE OwnRow(rows'[i], dialled)
      <4>1. rows'[i].channel = rows[i].channel
        BY <3>5 DEF SameCallers
      <4> DEFINE own == dialled[rows[i].channel]
      <4>2. OwnNumber(rows[i].number, own) /\ OwnNumber(rows[i].text, own)
        BY <1>1 DEF OwnRow
      <4>3. ASSUME key \in 0 .. 9, rows[i].channel = dtmfChannel
            PROVE  OwnNumber(Wrapped(rows[i].number * 10 + key), own)
        <5> DEFINE n == rows[i].number
        <5>1. n \in Nat /\ n * 10 + 9 < INT_HALF
          BY <4>2 DEF OwnNumber, NumbersFit
        <5>2. INT_HALF \in Nat
          BY ListenersAssumption
        <5>3. key \in own
          BY <3>3, <4>3
        <5>4. OwnNumber(n * 10 + key, own)
          BY <4>2, <4>3, <5>3, DigitAdded
        <5> HIDE DEF n, own
        <5>5. n * 10 + key \in -INT_HALF .. INT_HALF - 1 /\ n * 10 + key \in Int
          BY <4>3, <5>1, <5>2
        <5>6. Wrapped(n * 10 + key) = n * 10 + key
          BY <5>5, WrappedInRange
        <5>7. QED
          BY <5>4, <5>6 DEF n
      <4> HIDE DEF own
      <4>4. OwnNumber(rows'[i].number, own) /\ OwnNumber(rows'[i].text, own)
        <5>1. OwnNumber(0, own)
          BY NoNumber
        <5>2. QED
          BY <3>5, <4>2, <4>3, <5>1, Zenon
      <4>5. QED
        BY <4>1, <4>4 DEF OwnRow, own
    <3>8. QED
      BY <3>6, <3>7
  <2>6. CASE \E r \in DOMAIN rows :
               \/ ClickSpeak(r) /\ rows' = SpeakClicked(rows, r, scenario.multi)
               \/ ClickKick(r) /\ rows' = KickClicked(rows, r)
    <3>1. /\ rows' \in Seq(Row(Channels)) /\ SameCallers(rows', rows)
          /\ \A i \in DOMAIN rows :
               /\ rows'[i].number = rows[i].number
               /\ rows'[i].text = rows[i].text \/ rows'[i].text = 0
      BY <1>1, <2>6, SpokenRows, KickedRows
    <3>2. QED
      BY <1>1, <3>1, RowsStayOwn
  <2>7. QED
    BY <1>3, <2>1, <2>2, <2>3, <2>4, <2>5, <2>6, RowsStep
<1>4. QED
  BY <1>2, <1>3

\* Own digits are what the runs check of the numbers shown.
LEMMA OwnDigitsShown == TypeInv /\ OwnDigits => AnswersAreOwn
<1> SUFFICES ASSUME TypeInv, OwnDigits, Whole, NEW r \in DOMAIN rows
             PROVE  LET n == rows[r].text
                        digits == IF n < 10 THEN {n} ELSE {n \div 10, n % 10}
                    IN  n = 0 \/ digits \subseteq dialled[rows[r].channel]
  BY DEF AnswersAreOwn
<1> DEFINE n == rows[r].text
           own == dialled[rows[r].channel]
<1>1. rows \in Seq(Row(RowChannels))
  BY RowsTyped
<1>2. rows[r] \in Row(RowChannels)
  BY <1>1, ElementOfSeq
<1>3. n \in 0 .. 99
  BY <1>2 DEF Row
<1>4. OwnNumber(n, own)
  BY DEF OwnDigits, OwnRow
<1> HIDE DEF n, own
<1>5. n = 0 \/ (IF n < 10 THEN {n} ELSE {n \div 10, n % 10}) \subseteq own
  <2>1. n = 0 \/ n \in 1 .. 9 \/ n \in 10 .. 99
    BY <1>3
  <2>2. CASE n \in 1 .. 9
    <3>1. n < 10 /\ n \in own
      BY <1>4, <2>2 DEF OwnNumber
    <3>2. QED
      BY <3>1
  <2>3. CASE n \in 10 .. 99
    <3>1. ~(n < 10)
      BY <2>3
    <3>2. n \div 10 \in own /\ n % 10 \in own
      BY <1>4, <2>3 DEF OwnNumber
    <3>3. QED
      BY <3>1, <3>2
  <2>4. QED
    BY <2>1, <2>2, <2>3
<1>6. QED
  BY <1>5 DEF n, own

\* A number shown for a caller has only digits that this caller pressed, unless a
\* line was torn, for as long as no number of a row comes near the width of an int
\* (NumbersFit; a longer one overflows, mainwindow.cpp:606): the channel of a key
\* event is read before its digit, with nothing between them
\* (mainwindow.cpp:537-614).
THEOREM AnswersAreTheirOwn == Spec /\ []NumbersFit => []AnswersAreOwn
<1>1. Init => OwnDigits
  BY DEF Init, OwnDigits
<1>2. TypeInv /\ KeysInv /\ OwnDigits /\ NumbersFit /\ [Next]_vars => OwnDigits'
  BY OwnDigitsStep
<1>3. TypeInv /\ OwnDigits => AnswersAreOwn
  BY OwnDigitsShown
<1>4. QED
  BY <1>1, <1>2, <1>3, Typed, KeysHold, PTL DEF Spec

-----------------------------------------------------------------------------
(* Lists *)

\* The lines a list is read from.
ListLine == {"Entry", "ListItems"}

\* The line at i is the entry of c.
Names(t, i, c) == t[i].key = "Entry" /\ t[i].value.channel = c

\* From j on there are only entries before i.
Run(t, j, i) == \A k \in j .. i - 1 : t[k].key = "Entry"

\* The list that ends at i names c.
InList(t, i, c) == \E j \in 1 .. i - 1 : Names(t, j, c) /\ Run(t, j, i)

\* A line before i names c.
Told(t, i, c) == \E j \in 1 .. i - 1 : Names(t, j, c)

\* A list under way names every one of the callers that are known by the time
\* it ends, or began before and those are safe.
NamesAll(t, callers, known, safe) ==
  \A i \in DOMAIN t, c \in callers :
    t[i].key = "ListItems" /\ (c \in known \/ Told(t, i, c)) =>
      InList(t, i, c) \/ (Run(t, 1, i) /\ c \in safe)

\* When the parser meets the answer that there is no conference, it knows none
\* of the callers.
NoneKnown(t, callers, known) ==
  \A i \in DOMAIN t, c \in callers :
    t[i] = NoConference => c \notin known /\ ~Told(t, i, c)

\* Behind an entry the list goes on or ends; it names participants only.
ListsGoOn(t, participants) ==
  \A i \in DOMAIN t :
    t[i].key = "Entry" =>
      /\ i + 1 \in DOMAIN t /\ t[i + 1].key \in ListLine
      /\ t[i].value.channel \in participants

\* A list of one participant is its message, one entry and its end; it is there
\* from one of the places on when some of it was read.
OwnAlone(t, places) ==
  \A i \in DOMAIN t :
    t[i].key = "ListItems" /\ t[i].value = 1 =>
      \/ i >= 3 /\ t[i - 1].key = "Entry" /\ t[i - 2].key = "Message"
      \/ i \in places /\ (i = 2 => t[1].key = "Entry")

\* The same lines, for other callers.
LEMMA CallersChange ==
  ASSUME NEW t \in Seq(Lines), NEW callers, NEW known, NEW safe,
         NamesAll(t, callers, known, safe), NoneKnown(t, callers, known),
         NEW callers2, NEW known2, NEW safe2,
         \A c \in callers2 :
           \/ c \in callers /\ (c \in known2 => c \in known) /\ (c \in safe => c \in safe2)
           \/ c \notin known2 /\ \A i \in DOMAIN t : ~Names(t, i, c)
  PROVE  NamesAll(t, callers2, known2, safe2) /\ NoneKnown(t, callers2, known2)
<1>1. ASSUME NEW i \in DOMAIN t, NEW c \in callers2, \A j \in DOMAIN t : ~Names(t, j, c)
      PROVE  ~Told(t, i, c)
  <2>1. i \in 1 .. Len(t)
    OBVIOUS
  <2>2. \A j \in 1 .. i - 1 : j \in DOMAIN t
    BY <2>1
  <2>3. QED
    BY <1>1, <2>2 DEF Told
<1>2. QED
  BY <1>1 DEF NamesAll, NoneKnown

\* Lines that come behind the others.
LEMMA ListsStay ==
  ASSUME NEW t \in Seq(Lines), NEW lines \in Seq(Lines), NEW i \in 1 .. Len(t), NEW c
  PROVE  LET all == t \o lines IN
         /\ all[i] = t[i]
         /\ Told(all, i, c) <=> Told(t, i, c)
         /\ InList(all, i, c) <=> InList(t, i, c)
         /\ Run(all, 1, i) <=> Run(t, 1, i)
<1> DEFINE all == t \o lines
<1>1. \A j \in 1 .. Len(t) : all[j] = t[j]
  BY Added
<1> HIDE DEF all
<1>2. \A j \in 1 .. i - 1 : all[j] = t[j]
  BY <1>1
<1>3. \A j \in 1 .. i - 1 : Names(all, j, c) <=> Names(t, j, c)
  BY <1>2 DEF Names
<1>4. \A j \in Nat : j >= 1 => (Run(all, j, i) <=> Run(t, j, i))
  <2>1. ASSUME NEW j \in Nat, j >= 1 PROVE Run(all, j, i) <=> Run(t, j, i)
    <3>1. \A k \in j .. i - 1 : k \in 1 .. i - 1
      BY <2>1
    <3>2. QED
      BY <1>2, <3>1 DEF Run
  <2>2. QED
    BY <2>1
<1>5. InList(all, i, c) <=> InList(t, i, c)
  <2>1. \A j \in 1 .. i - 1 : j \in Nat /\ j >= 1
    OBVIOUS
  <2>2. QED
    BY <1>3, <1>4, <2>1 DEF InList
<1>6. QED
  BY <1>1, <1>3, <1>4, <1>5 DEF all, Told

\* A list among the lines that come behind.
LEMMA ListBehind ==
  ASSUME NEW t \in Seq(Lines), NEW lines \in Seq(Lines), NEW i \in 1 .. Len(lines), NEW c,
         InList(lines, i, c)
  PROVE  InList(t \o lines, Len(t) + i, c)
<1> DEFINE all == t \o lines
           n == Len(t)
<1>1. n \in Nat
  OBVIOUS
<1>2. \A k \in 1 .. Len(lines) : all[n + k] = lines[k]
  <2>1. \A k \in n + 1 .. n + Len(lines) : all[k] = lines[k - n]
    BY Added
  <2> HIDE DEF all, n
  <2>2. \A k \in 1 .. Len(lines) : n + k \in n + 1 .. n + Len(lines) /\ (n + k) - n = k
    BY <1>1
  <2>3. QED
    BY <2>1, <2>2
<1>3. PICK j \in 1 .. i - 1 : Names(lines, j, c) /\ Run(lines, j, i)
  BY DEF InList
<1> HIDE DEF all, n
<1>4. n + j \in 1 .. (n + i) - 1 /\ j \in 1 .. Len(lines)
  BY <1>1
<1>5. Names(all, n + j, c)
  BY <1>2, <1>3, <1>4 DEF Names
<1>6. ASSUME NEW k \in n + j .. (n + i) - 1 PROVE all[k].key = "Entry"
  <2>1. k - n \in j .. i - 1 /\ k - n \in 1 .. Len(lines) /\ n + (k - n) = k
    BY <1>1
  <2>2. QED
    BY <1>2, <1>3, <2>1 DEF Run
<1>7. QED
  BY <1>4, <1>5, <1>6 DEF InList, Run, all, n

\* These lines, behind any others, are lists as they should be.
ListsFit(lines, callers, participants) ==
  \A i \in 1 .. Len(lines) :
    /\ lines[i].key = "ListItems" => \A c \in callers : InList(lines, i, c)
    /\ lines[i] = NoConference => callers = {}
    /\ lines[i].key = "Entry" =>
         /\ i + 1 \in DOMAIN lines /\ lines[i + 1].key \in ListLine
         /\ lines[i].value.channel \in participants
    /\ lines[i].key = "ListItems" /\ lines[i].value = 1 =>
         i >= 3 /\ lines[i - 1].key = "Entry" /\ lines[i - 2].key = "Message"

\* What is said of the lists on the wire stays true when fitting lines are added.
LEMMA MoreLines ==
  ASSUME NEW t \in Seq(Lines), NEW lines \in Seq(Lines),
         NEW callers, NEW known, NEW safe, NEW participants, NEW places,
         NamesAll(t, callers, known, safe), NoneKnown(t, callers, known),
         ListsGoOn(t, participants), OwnAlone(t, places),
         ListsFit(lines, callers, participants)
  PROVE  LET all == t \o lines IN
         /\ NamesAll(all, callers, known, safe)
         /\ NoneKnown(all, callers, known)
         /\ ListsGoOn(all, participants)
         /\ OwnAlone(all, places)
<1> USE DEF ListsFit
<1> DEFINE all == t \o lines
           n == Len(t)
           m == Len(lines)
<1>1. n \in Nat /\ m \in Nat
  OBVIOUS
<1>2. /\ Len(all) = n + m /\ all \in Seq(Lines)
      /\ \A i \in 1 .. n : all[i] = t[i]
      /\ \A i \in n + 1 .. n + m : all[i] = lines[i - n]
  BY Added
<1>3. DOMAIN all = 1 .. n + m /\ DOMAIN t = 1 .. n /\ DOMAIN lines = 1 .. m
  BY <1>2
<1>4. \A i \in 1 .. n : \A c :
        /\ Told(all, i, c) <=> Told(t, i, c)
        /\ InList(all, i, c) <=> InList(t, i, c)
        /\ Run(all, 1, i) <=> Run(t, 1, i)
  BY ListsStay
<1>5. \A i \in 1 .. m : \A c : InList(lines, i, c) => InList(all, n + i, c)
  BY ListBehind
<1> HIDE DEF all, n, m
<1>6. ASSUME NEW i \in n + 1 .. n + m
      PROVE  i - n \in 1 .. m /\ n + (i - n) = i /\ all[i] = lines[i - n]
  BY <1>1, <1>2
<1>7. \A i \in 1 .. n + m : i \in 1 .. n \/ i \in n + 1 .. n + m
  BY <1>1
<1>8. NamesAll(all, callers, known, safe)
  <2>1. ASSUME NEW i \in 1 .. n, NEW c \in callers, all[i].key = "ListItems",
               c \in known \/ Told(all, i, c)
        PROVE  InList(all, i, c) \/ (Run(all, 1, i) /\ c \in safe)
    BY <1>2, <1>3, <1>4, <2>1 DEF NamesAll
  <2>2. ASSUME NEW i \in n + 1 .. n + m, NEW c \in callers, all[i].key = "ListItems"
        PROVE  InList(all, i, c)
    <3>1. InList(lines, i - n, c)
      BY <1>6, <2>2 DEF m
    <3>2. QED
      BY <1>5, <1>6, <3>1
  <2>3. QED
    BY <1>3, <1>7, <2>1, <2>2 DEF NamesAll
<1>9. NoneKnown(all, callers, known)
  <2>1. ASSUME NEW i \in 1 .. n, NEW c \in callers, all[i] = NoConference
        PROVE  c \notin known /\ ~Told(all, i, c)
    BY <1>2, <1>3, <1>4, <2>1 DEF NoneKnown
  <2>2. ASSUME NEW i \in n + 1 .. n + m, all[i] = NoConference
        PROVE  callers = {}
    BY <1>6, <2>2 DEF m
  <2>3. QED
    BY <1>3, <1>7, <2>1, <2>2 DEF NoneKnown
<1>10. ListsGoOn(all, participants)
  <2>1. ASSUME NEW i \in 1 .. n, all[i].key = "Entry"
        PROVE  /\ i + 1 \in DOMAIN all /\ all[i + 1].key \in ListLine
               /\ all[i].value.channel \in participants
    <3>1. /\ i + 1 \in 1 .. n /\ t[i + 1].key \in ListLine
          /\ t[i].value.channel \in participants
      BY <1>2, <1>3, <2>1 DEF ListsGoOn
    <3>2. i + 1 \in 1 .. n + m
      BY <1>1, <3>1
    <3>3. QED
      BY <1>2, <1>3, <3>1, <3>2
  <2>2. ASSUME NEW i \in n + 1 .. n + m, all[i].key = "Entry"
        PROVE  /\ i + 1 \in DOMAIN all /\ all[i + 1].key \in ListLine
               /\ all[i].value.channel \in participants
    <3>1. /\ (i - n) + 1 \in 1 .. m /\ lines[(i - n) + 1].key \in ListLine
          /\ lines[i - n].value.channel \in participants
      BY <1>3, <1>6, <2>2 DEF m
    <3>2. i + 1 \in n + 1 .. n + m /\ (i + 1) - n = (i - n) + 1 /\ i + 1 \in 1 .. n + m
      BY <1>1, <3>1
    <3>3. all[i + 1] = lines[(i - n) + 1]
      BY <1>2, <3>2
    <3>4. QED
      BY <1>3, <1>6, <3>1, <3>2, <3>3
  <2>3. QED
    BY <1>3, <1>7, <2>1, <2>2 DEF ListsGoOn
<1>11. OwnAlone(all, places)
  <2>1. ASSUME NEW i \in 1 .. n, all[i].key = "ListItems", all[i].value = 1
        PROVE  \/ i >= 3 /\ all[i - 1].key = "Entry" /\ all[i - 2].key = "Message"
               \/ i \in places /\ (i = 2 => all[1].key = "Entry")
    <3>1. \/ i >= 3 /\ t[i - 1].key = "Entry" /\ t[i - 2].key = "Message"
          \/ i \in places /\ (i = 2 => t[1].key = "Entry")
      BY <1>2, <1>3, <2>1 DEF OwnAlone
    <3>2. 1 \in 1 .. n /\ (i >= 3 => i - 1 \in 1 .. n /\ i - 2 \in 1 .. n)
      BY <1>1
    <3>3. QED
      BY <1>2, <3>1, <3>2
  <2>2. ASSUME NEW i \in n + 1 .. n + m, all[i].key = "ListItems", all[i].value = 1
        PROVE  i >= 3 /\ all[i - 1].key = "Entry" /\ all[i - 2].key = "Message"
    <3>1. /\ i - n >= 3 /\ lines[(i - n) - 1].key = "Entry"
          /\ lines[(i - n) - 2].key = "Message"
      BY <1>6, <2>2 DEF m
    <3>2. /\ i >= 3 /\ i - 1 \in n + 1 .. n + m /\ (i - 1) - n = (i - n) - 1
          /\ i - 2 \in n + 1 .. n + m /\ (i - 2) - n = (i - n) - 2
      BY <1>1, <3>1
    <3>3. QED
      BY <1>2, <3>1, <3>2
  <2>3. QED
    BY <1>3, <1>7, <2>1, <2>2 DEF OwnAlone
<1>12. QED
  BY <1>8, <1>9, <1>10, <1>11 DEF all

\* The first line is read: what it names is known from then on.
LEMMA FewerLines ==
  ASSUME NEW t \in Seq(Lines), t # << >>,
         NEW callers, NEW known, NEW safe, NEW participants, NEW places \in SUBSET {1, 2},
         NamesAll(t, callers, known, safe), NoneKnown(t, callers, known),
         ListsGoOn(t, participants), OwnAlone(t, places),
         NEW known2, NEW safe2, NEW places2,
         \A c \in callers : c \in known2 => c \in known \/ Names(t, 1, c),
         t[1].key = "Entry" =>
           \A c \in callers : c \in safe \/ Names(t, 1, c) => c \in safe2,
         t[1].key = "Message" => 2 \in places2,
         t[1].key = "Entry" /\ 2 \in places => 1 \in places2
  PROVE  LET rest == Tail(t) IN
         /\ NamesAll(rest, callers, known2, safe2)
         /\ NoneKnown(rest, callers, known2)
         /\ ListsGoOn(rest, participants)
         /\ OwnAlone(rest, places2)
<1> DEFINE rest == Tail(t)
           n == Len(t)
<1>1. /\ rest \in Seq(Lines) /\ Len(rest) = n - 1
      /\ \A i \in 1 .. n - 1 : rest[i] = t[i + 1]
  BY HeadAndTail
<1>2. n \in Nat /\ n >= 1 /\ DOMAIN t = 1 .. n /\ DOMAIN rest = 1 .. n - 1
  BY <1>1
<1> HIDE DEF rest, n
<1>3. \A i \in 1 .. n - 1 : i + 1 \in 1 .. n /\ i \in Nat
  BY <1>2
<1>4. ASSUME NEW i \in 1 .. n - 1, NEW c, c \in known \/ Names(t, 1, c) \/ Told(rest, i, c)
      PROVE  c \in known \/ Told(t, i + 1, c)
  <2>1. CASE Told(rest, i, c)
    <3>1. PICK j \in 1 .. i - 1 : Names(rest, j, c)
      BY <2>1 DEF Told
    <3>2. j \in 1 .. n - 1 /\ j + 1 \in 1 .. (i + 1) - 1
      BY <1>2
    <3>3. Names(t, j + 1, c)
      BY <1>1, <3>1, <3>2 DEF Names
    <3>4. QED
      BY <3>2, <3>3 DEF Told
  <2>2. CASE Names(t, 1, c)
    <3>1. 1 \in 1 .. (i + 1) - 1
      BY <1>3
    <3>2. QED
      BY <2>2, <3>1 DEF Told
  <2>3. QED
    BY <1>4, <2>1, <2>2
<1>5. ASSUME NEW i \in 1 .. n - 1, NEW j \in 1 .. i, Run(t, j + 1, i + 1)
      PROVE  Run(rest, j, i)
  <2>1. ASSUME NEW k \in j .. i - 1 PROVE rest[k].key = "Entry"
    <3>1. k \in 1 .. n - 1 /\ k + 1 \in j + 1 .. (i + 1) - 1
      BY <1>2
    <3>2. QED
      BY <1>1, <1>5, <3>1 DEF Run
  <2>2. QED
    BY <2>1 DEF Run
<1>6. ASSUME NEW i \in 1 .. n - 1, Run(t, 1, i + 1)
      PROVE  t[1].key = "Entry" /\ Run(rest, 1, i)
  <2>1. 1 \in 1 .. (i + 1) - 1 /\ 1 + 1 \in Nat /\ 1 \in 1 .. i
    BY <1>3
  <2>2. t[1].key = "Entry"
    BY <1>6, <2>1 DEF Run
  <2>3. Run(t, 1 + 1, i + 1)
    <3>1. \A k \in 1 + 1 .. (i + 1) - 1 : k \in 1 .. (i + 1) - 1
      OBVIOUS
    <3>2. QED
      BY <1>6, <3>1 DEF Run
  <2>4. QED
    BY <1>5, <2>1, <2>2, <2>3
<1>7. NamesAll(rest, callers, known2, safe2)
  <2>1. ASSUME NEW i \in 1 .. n - 1, NEW c \in callers, rest[i].key = "ListItems",
               c \in known2 \/ Told(rest, i, c)
        PROVE  InList(rest, i, c) \/ (Run(rest, 1, i) /\ c \in safe2)
    <3>1. t[i + 1].key = "ListItems" /\ i + 1 \in DOMAIN t
      BY <1>1, <1>2, <1>3, <2>1
    <3>2. c \in known \/ Told(t, i + 1, c)
      BY <1>4, <2>1
    <3>3. InList(t, i + 1, c) \/ (Run(t, 1, i + 1) /\ c \in safe)
      BY <3>1, <3>2 DEF NamesAll
    <3>4. CASE Run(t, 1, i + 1) /\ c \in safe
      BY <1>6, <3>4
    <3>5. CASE InList(t, i + 1, c)
      <4>1. PICK j \in 1 .. (i + 1) - 1 : Names(t, j, c) /\ Run(t, j, i + 1)
        BY <3>5 DEF InList
      <4>2. CASE j = 1
        BY <1>6, <4>1, <4>2
      <4>3. CASE j # 1
        <5>1. j - 1 \in 1 .. i - 1 /\ j - 1 \in 1 .. i /\ (j - 1) + 1 = j /\ j - 1 \in 1 .. n - 1
          BY <1>2, <4>3
        <5>2. Names(rest, j - 1, c)
          BY <1>1, <4>1, <5>1 DEF Names
        <5>3. Run(rest, j - 1, i)
          BY <1>5, <4>1, <5>1
        <5>4. QED
          BY <5>1, <5>2, <5>3 DEF InList
      <4>4. QED
        BY <4>2, <4>3
    <3>6. QED
      BY <3>3, <3>4, <3>5
  <2>2. QED
    BY <1>2, <2>1 DEF NamesAll
<1>8. NoneKnown(rest, callers, known2)
  <2>1. ASSUME NEW i \in 1 .. n - 1, NEW c \in callers, rest[i] = NoConference
        PROVE  c \notin known2 /\ ~Told(rest, i, c)
    <3>1. t[i + 1] = NoConference /\ i + 1 \in DOMAIN t
      BY <1>1, <1>2, <1>3, <2>1
    <3>2. c \notin known /\ ~Told(t, i + 1, c)
      BY <3>1 DEF NoneKnown
    <3>3. QED
      BY <1>4, <3>2
  <2>2. QED
    BY <1>2, <2>1 DEF NoneKnown
<1>9. ListsGoOn(rest, participants)
  <2>1. ASSUME NEW i \in 1 .. n - 1, rest[i].key = "Entry"
        PROVE  /\ i + 1 \in DOMAIN rest /\ rest[i + 1].key \in ListLine
               /\ rest[i].value.channel \in participants
    <3>1. t[i + 1].key = "Entry" /\ i + 1 \in DOMAIN t /\ rest[i] = t[i + 1]
      BY <1>1, <1>2, <1>3, <2>1
    <3>2. /\ (i + 1) + 1 \in 1 .. n /\ t[(i + 1) + 1].key \in ListLine
          /\ t[i + 1].value.channel \in participants
      BY <1>2, <3>1 DEF ListsGoOn
    <3>3. i + 1 \in 1 .. n - 1
      BY <1>2, <3>2
    <3>4. QED
      BY <1>1, <1>2, <3>1, <3>2, <3>3
  <2>2. QED
    BY <1>2, <2>1 DEF ListsGoOn
<1>10. OwnAlone(rest, places2)
  <2>1. ASSUME NEW i \in 1 .. n - 1, rest[i].key = "ListItems", rest[i].value = 1
        PROVE  \/ i >= 3 /\ rest[i - 1].key = "Entry" /\ rest[i - 2].key = "Message"
               \/ i \in places2 /\ (i = 2 => rest[1].key = "Entry")
    <3>1. t[i + 1].key = "ListItems" /\ t[i + 1].value = 1 /\ i + 1 \in DOMAIN t
      BY <1>1, <1>2, <1>3, <2>1
    <3>2. \/ /\ i + 1 >= 3 /\ t[(i + 1) - 1].key = "Entry"
             /\ t[(i + 1) - 2].key = "Message"
          \/ i + 1 \in places /\ (i + 1 = 2 => t[1].key = "Entry")
      BY <3>1 DEF OwnAlone
    <3>3. CASE i + 1 \in places /\ (i + 1 = 2 => t[1].key = "Entry")
      <4>1. i = 1 /\ i + 1 = 2
        BY <3>3
      <4>2. QED
        BY <3>3, <4>1
    <3>4. CASE /\ i + 1 >= 3 /\ t[(i + 1) - 1].key = "Entry"
               /\ t[(i + 1) - 2].key = "Message"
      <4>1. CASE i = 2
        <5>1. t[2].key = "Entry" /\ t[1].key = "Message" /\ 1 \in 1 .. n - 1 /\ 1 + 1 = 2
          BY <1>2, <3>4, <4>1
        <5>2. rest[1].key = "Entry"
          BY <1>1, <5>1
        <5>3. QED
          BY <4>1, <5>1, <5>2
      <4>2. CASE i # 2
        <5>1. /\ i >= 3 /\ i - 1 \in 1 .. n - 1 /\ (i - 1) + 1 = (i + 1) - 1
              /\ i - 2 \in 1 .. n - 1 /\ (i - 2) + 1 = (i + 1) - 2
          BY <1>2, <3>4, <4>2
        <5>2. QED
          BY <1>1, <3>4, <5>1
      <4>3. QED
        BY <4>1, <4>2
    <3>5. QED
      BY <3>2, <3>3, <3>4
  <2>2. QED
    BY <1>2, <2>1 DEF OwnAlone
<1>11. QED
  BY <1>7, <1>8, <1>9, <1>10 DEF rest

\* The parser takes lines for the list.
Reading == state = "CONFERENCE" /\ parse

Marked(table, c) == \E r \in DOMAIN table : table[r].channel = c /\ table[r].marked

NoMarks(table) == \A r \in DOMAIN table : ~table[r].marked

\* The callers who are participants.
Callers == ChannelsIn(conf) \cap Channels

\* A list that ends here leaves their rows.
Safe == {c \in Channels : Reading => Marked(rows, c)}

\* What was read of a list leaves room for the list of one participant: it
\* begins at place 2, and is the entry of the program's own call at most at 1.
Places ==
  {i \in {1, 2} : Reading => IF i = 2 THEN admin = 0 /\ NoMarks(rows)
                                      ELSE admin = 0 \/ NoMarks(rows)}

ListsInv ==
  Whole =>
    /\ NamesAll(toClient, Callers, ChannelsOf(rows), Safe)
    /\ NoneKnown(toClient, Callers, ChannelsOf(rows))
    /\ ListsGoOn(toClient, joined \cup {Own})
    /\ OwnAlone(toClient, Places)

\* Before the first entry of a list no row is marked.
MarksInv ==
  Whole /\ sock = "connected" /\ state = "CONFERENCE"
        /\ ~(parse /\ toClient # << >> /\ Head(toClient).key \in ListLine) =>
    NoMarks(rows) /\ (parse => admin = 0)

\* Whoever is in the table or in the conference has joined it.
JoinersInv == Whole => ChannelsOf(rows) \subseteq joined /\ Callers \subseteq joined

\* Tables with the same callers and marks.
LEMMA SameMarks ==
  ASSUME NEW C, NEW new \in Seq(Row(C)), NEW old \in Seq(Row(C)), SameCallers(new, old),
         \A r \in DOMAIN old : new[r].marked = old[r].marked
  PROVE  /\ ChannelsOf(new) = ChannelsOf(old)
         /\ \A c : Marked(new, c) <=> Marked(old, c)
         /\ NoMarks(new) <=> NoMarks(old)
<1>1. DOMAIN new = DOMAIN old
  BY DEF SameCallers
<1>2. \A r \in DOMAIN old : new[r].channel = old[r].channel
  BY DEF SameCallers
<1>3. ChannelsOf(new) = ChannelsOf(old)
  BY SameChannels
<1>4. \A c : Marked(new, c) <=> Marked(old, c)
  BY <1>1, <1>2 DEF Marked
<1>5. NoMarks(new) <=> NoMarks(old)
  BY <1>1 DEF NoMarks
<1>6. QED
  BY <1>3, <1>4, <1>5

\* A step that reads no line leaves the lists as they should be.
LEMMA ListsLeft ==
  ASSUME TypeInv, Whole, ListsInv, JoinersInv,
         NEW lines \in Seq(Lines), toClient' = toClient \o lines,
         ListsFit(lines, Callers', joined' \cup {Own}),
         ChannelsOf(rows') = ChannelsOf(rows), Safe \subseteq Safe', Places \subseteq Places',
         joined \subseteq joined', \A c \in Callers' : c \in Callers \/ c \notin joined
  PROVE  ListsInv'
<1>0. toClient \in Seq(Lines)
  BY DEF TypeInv, WireTyped
<1>1. /\ NamesAll(toClient, Callers, ChannelsOf(rows), Safe)
      /\ NoneKnown(toClient, Callers, ChannelsOf(rows))
      /\ ListsGoOn(toClient, joined \cup {Own})
      /\ OwnAlone(toClient, Places)
      /\ ChannelsOf(rows) \subseteq joined
  BY DEF ListsInv, JoinersInv
<1> DEFINE callers == Callers'
           safe == Safe'
           places == Places'
           participants == joined' \cup {Own}
<1>2. \A c \in callers : c # Own
  BY PbxMonitorAssumption DEF Callers
<1>3. \A c \in callers :
        \/ /\ c \in Callers /\ (c \in ChannelsOf(rows) => c \in ChannelsOf(rows))
           /\ c \in Safe => c \in safe
        \/ c \notin ChannelsOf(rows) /\ \A i \in DOMAIN toClient : ~Names(toClient, i, c)
  <2>1. ASSUME NEW c \in callers, c \notin joined
        PROVE  c \notin ChannelsOf(rows) /\ \A i \in DOMAIN toClient : ~Names(toClient, i, c)
    BY <1>1, <1>2, <2>1 DEF ListsGoOn, Names
  <2>2. QED
    BY <2>1
<1>4. ListsFit(lines, callers, participants)
  OBVIOUS
<1>5. ListsGoOn(toClient, participants)
  BY <1>1 DEF ListsGoOn
<1>6. OwnAlone(toClient, places)
  BY <1>1 DEF OwnAlone
<1> HIDE DEF callers, safe, places, participants
<1>7. /\ NamesAll(toClient, callers, ChannelsOf(rows), safe)
      /\ NoneKnown(toClient, callers, ChannelsOf(rows))
  BY <1>0, <1>1, <1>3, CallersChange
<1> DEFINE all == toClient \o lines
<1>8. /\ NamesAll(all, callers, ChannelsOf(rows), safe)
      /\ NoneKnown(all, callers, ChannelsOf(rows))
      /\ ListsGoOn(all, participants)
      /\ OwnAlone(all, places)
  BY <1>0, <1>4, <1>5, <1>6, <1>7, MoreLines
<1>9. all = toClient'
  OBVIOUS
<1> HIDE DEF all
<1>10. QED
  BY <1>8, <1>9 DEF ListsInv, callers, safe, places, participants

\* Lines that are no part of a list fit.
LEMMA NoLists ==
  ASSUME NEW lines \in Seq(Lines), NEW callers, NEW participants,
         \A i \in DOMAIN lines : lines[i].key \notin ListLine /\ lines[i] # NoConference
  PROVE  ListsFit(lines, callers, participants)
BY DEF ListsFit, ListLine

\* The empty sequence has no places.
LEMMA NoPlaces == DOMAIN << >> = {}
OBVIOUS

\* A range of two numbers.
LEMMA TwoPlaces == \A i \in 1 .. 2 : i = 1 \/ i = 2
OBVIOUS

\* The manager's list is as it should be.
LEMMA ListFits ==
  ASSUME TypeInv, JoinersInv, Whole
  PROVE  ListsFit(ListLines, Callers, joined \cup {Own})
<1>0. conf \in Seq(Participant) /\ DOMAIN conf = 1 .. Len(conf) /\ Len(conf) \in Nat
  BY DEF TypeInv, PbxTyped
<1>1. CASE conf = << >> \/ ~scenario.goodLogin
  <2>1. PICK w \in {"No active conferences.", "Permission denied"} :
          /\ ListLines = <<Line("Response", "Error"), Line("Message", w)>>
          /\ w = "No active conferences." => conf = << >>
    <3>1. CASE scenario.goodLogin
      BY <1>1, <3>1 DEF ListLines, NoListLines
    <3>2. CASE ~scenario.goodLogin
      BY <1>1, <3>2 DEF ListLines, NoListLines
    <3>3. QED
      BY <3>1, <3>2
  <2> DEFINE x == Line("Response", "Error")
             y == Line("Message", w)
  <2>2. x.key \notin ListLine /\ y.key \notin ListLine /\ x # NoConference
        /\ (y = NoConference => conf = << >>)
    BY <2>1 DEF Line, ListLine, NoConference
  <2>3. conf = << >> => Callers = {}
    <3>1. DOMAIN << >> = {}
      BY NoPlaces
    <3>2. ASSUME conf = << >> PROVE ChannelsIn(conf) = {}
      BY <3>1, <3>2 DEF ChannelsIn
    <3>3. QED
      BY <3>2 DEF Callers
  <2>4. ListLines = <<x, y>>
    BY <2>1
  <2> HIDE DEF x, y
  <2>5. \A i \in 1 .. Len(<<x, y>>) :
          /\ <<x, y>>[i].key \notin ListLine
          /\ <<x, y>>[i] = NoConference => Callers = {}
    <3> DEFINE two == <<x, y>>
    <3>1. Len(two) = 2 /\ two[1] = x /\ two[2] = y
      OBVIOUS
    <3> HIDE DEF two
    <3>2. \A i \in 1 .. 2 : i = 1 \/ i = 2
      BY TwoPlaces
    <3>3. y = NoConference => Callers = {}
      BY <2>2, <2>3
    <3>4. x.key \notin ListLine /\ y.key \notin ListLine /\ x # NoConference
      BY <2>2
    <3>5. \A i \in 1 .. Len(two) :
            two[i].key \notin ListLine /\ (two[i] = NoConference => Callers = {})
      BY <3>1, <3>2, <3>3, <3>4
    <3>6. QED
      BY <3>5 DEF two
  <2>6. QED
    BY <2>4, <2>5 DEF ListsFit, ListLine
<1>2. CASE ~(conf = << >> \/ ~scenario.goodLogin)
  <2> DEFINE n == Len(conf)
             list == ListLines
  <2>1. /\ Len(list) = n + 3 /\ n \in Nat /\ n >= 1
        /\ list[1] = Line("Response", "Success")
        /\ list[2] = Line("Message", "Confbridge user list will follow")
        /\ \A i \in 1 .. n : list[i + 2] = Line("Entry", Entry(conf[i]))
        /\ list[n + 3] = Line("ListItems", n)
    BY <1>2, ListLinesAre
  <2>2. list \in Seq(Lines)
    BY ListLinesTyped
  <2>3. /\ list[1].key = "Response" /\ list[2].key = "Message" /\ list[2] # NoConference
        /\ list[n + 3].key = "ListItems" /\ list[n + 3].value = n
    <3>1. /\ Line("Response", "Success").key = "Response"
          /\ Line("Message", "Confbridge user list will follow").key = "Message"
          /\ Line("Message", "Confbridge user list will follow") # NoConference
          /\ \A k : Line("ListItems", k).key = "ListItems" /\ Line("ListItems", k).value = k
      BY DEF Line, NoConference
    <3> HIDE DEF list, n
    <3>2. QED
      BY <2>1, <3>1, Zenon
  <2>4. \A i \in 1 .. n : list[i + 2].key = "Entry"
                          /\ list[i + 2].value.channel = conf[i].channel
    <3>1. \A p : /\ Line("Entry", Entry(p)).key = "Entry"
                 /\ Line("Entry", Entry(p)).value.channel = p.channel
      BY DEF Line, Entry
    <3>2. \A i \in 1 .. n : list[i + 2] = Line("Entry", Entry(conf[i]))
      BY <2>1, Zenon
    <3> HIDE DEF list, n
    <3>3. QED
      BY <3>1, <3>2, Zenon
  <2>5. \A i \in 1 .. n : conf[i].channel \in joined \cup {Own}
    <3>1. ASSUME NEW i \in 1 .. n PROVE conf[i].channel \in joined \cup {Own}
      <4>1. conf[i] \in Participant /\ conf[i].channel \in ChannelsIn(conf)
        BY <1>0 DEF ChannelsIn
      <4>2. conf[i].channel \in Channels \cup {Own}
        BY <4>1 DEF Participant
      <4>3. QED
        BY <4>1, <4>2 DEF JoinersInv, Callers
    <3>2. QED
      BY <3>1
  <2>6. \A c \in Callers : \E k \in 1 .. n : conf[k].channel = c
    BY <1>0 DEF Callers, ChannelsIn
  <2>17. n \in Nat /\ n >= 1 /\ Len(list) = n + 3
    BY <2>1
  <2> HIDE DEF n, list
  <2>18. DOMAIN list = 1 .. n + 3
    BY <2>2, <2>17
  <2>7. \A i \in 1 .. n + 3 : i = 1 \/ i = 2 \/ (i - 2 \in 1 .. n /\ (i - 2) + 2 = i)
                              \/ i = n + 3
    BY <2>17
  <2>8. \A i \in 1 .. n + 3 : list[i].key = "Entry" <=> i - 2 \in 1 .. n
    <3>1. 1 - 2 \notin 1 .. n /\ 2 - 2 \notin 1 .. n /\ (n + 3) - 2 \notin 1 .. n
      BY <2>17
    <3>2. QED
      BY <2>3, <2>4, <2>7, <3>1
  <2>9. \A i \in 1 .. n + 3 : list[i].key = "ListItems" => i = n + 3
    BY <2>3, <2>4, <2>7
  <2>10. \A i \in 1 .. n + 3 : list[i] # NoConference
    <3>1. NoConference.key = "Message"
      BY DEF NoConference, Line
    <3>2. NoConference # list[1] /\ NoConference # list[n + 3]
      BY <2>3, <3>1
    <3>3. QED
      BY <2>3, <2>4, <2>7, <3>1, <3>2
  <2>11. ASSUME NEW c \in Callers PROVE InList(list, n + 3, c)
    <3>1. PICK k \in 1 .. n : conf[k].channel = c
      BY <2>6
    <3>2. k + 2 \in 1 .. (n + 3) - 1 /\ Names(list, k + 2, c)
      BY <2>17, <2>4, <3>1 DEF Names
    <3>3. \A m \in k + 2 .. (n + 3) - 1 : m \in 1 .. n + 3 /\ m - 2 \in 1 .. n
      BY <2>17
    <3>4. Run(list, k + 2, n + 3)
      BY <2>8, <3>3 DEF Run
    <3>5. QED
      BY <3>2, <3>4 DEF InList
  <2>12. ASSUME NEW i \in 1 .. n + 3, list[i].key = "Entry"
         PROVE  /\ i + 1 \in 1 .. n + 3 /\ list[i + 1].key \in ListLine
                /\ list[i].value.channel \in joined \cup {Own}
    <3>1. i - 2 \in 1 .. n /\ (i - 2) + 2 = i
      BY <2>8, <2>12
    <3>2. list[i].value.channel = conf[i - 2].channel
      BY <2>4, <3>1
    <3>3. /\ i + 1 \in 1 .. n + 3
          /\ (i + 1) - 2 \in 1 .. n \/ i + 1 = n + 3
      BY <2>17, <3>1
    <3>4. list[i + 1].key \in ListLine
      BY <2>3, <2>8, <3>3 DEF ListLine
    <3>5. QED
      BY <2>5, <3>1, <3>2, <3>3, <3>4
  <2>13. ASSUME NEW i \in 1 .. n + 3, list[i].key = "ListItems", list[i].value = 1
         PROVE  i >= 3 /\ list[i - 1].key = "Entry" /\ list[i - 2].key = "Message"
    <3>1. i = n + 3 /\ n = 1
      BY <2>3, <2>9, <2>13
    <3>2. i - 1 = 3 /\ i - 2 = 2 /\ i >= 3 /\ 3 \in 1 .. n + 3 /\ 3 - 2 \in 1 .. n
      BY <3>1
    <3>3. QED
      BY <2>3, <2>8, <3>2
  <2>14. Len(list) = n + 3
    BY <2>17
  <2>15. ListsFit(list, Callers, joined \cup {Own})
    BY <2>18, <2>9, <2>10, <2>11, <2>12, <2>13, <2>14 DEF ListsFit
  <2>16. QED
    BY <2>15 DEF list
<1>3. QED
  BY <1>1, <1>2

\* Nobody is there who was not, when one is gone.
LEMMA WithoutChannels ==
  ASSUME NEW s \in Seq(Participant), NEW c
  PROVE  ChannelsIn(Without(s, c)) \subseteq ChannelsIn(s)
<1>0. DOMAIN s = 1 .. Len(s)
  OBVIOUS
<1>1. CASE c \in ChannelsIn(s)
  <2> DEFINE i == CHOOSE i \in DOMAIN s : s[i].channel = c
             new == RemoveAt(s, i)
  <2>1. i \in DOMAIN s
    BY <1>1 DEF ChannelsIn
  <2>2. Without(s, c) = new
    BY <1>1 DEF Without
  <2> HIDE DEF i
  <2>3. \A x : x \in ToSet(new) => x \in ToSet(s)
    BY <1>0, <2>1, RemovedAt
  <2> HIDE DEF new
  <2>4. \A k \in DOMAIN new : \E j \in DOMAIN s : s[j] = new[k]
    BY <2>3 DEF ToSet
  <2>5. QED
    BY <2>2, <2>4 DEF ChannelsIn
<1>2. CASE c \notin ChannelsIn(s)
  BY <1>2 DEF Without
<1>3. QED
  BY <1>1, <1>2

\* Serving an action adds no participant.
LEMMA ModeratedChannels ==
  ASSUME TypeInv, NEW action
  PROVE  ChannelsIn(Moderated(action)) \subseteq ChannelsIn(conf)
<1>1. conf \in Seq(Participant) /\ DOMAIN conf = 1 .. Len(conf)
  BY DEF TypeInv, PbxTyped
<1>2. CASE action.name = "ConfbridgeKick"
  BY <1>1, <1>2, WithoutChannels DEF Moderated
<1>3. CASE action.name # "ConfbridgeKick"
  <2> DEFINE new == Moderated(action)
  <2>1. /\ new \in Seq(Participant) /\ Len(new) = Len(conf)
        /\ \A i \in 1 .. Len(conf) : new[i].channel = conf[i].channel
    BY <1>3, ModeratedTyped
  <2> HIDE DEF new
  <2>2. DOMAIN new = 1 .. Len(conf)
    BY <2>1
  <2>3. ChannelsIn(new) \subseteq ChannelsIn(conf)
    BY <1>1, <2>1, <2>2 DEF ChannelsIn
  <2>4. QED
    BY <2>3 DEF new
<1>4. QED
  BY <1>2, <1>3

\* Only who was not there yet becomes a participant.
LEMMA CallersStep ==
  ASSUME TypeInv, [Next]_vars
  PROVE  /\ joined \subseteq joined'
         /\ \A c \in Callers' : c \in Callers \/ (c \notin joined /\ c \in joined')
<1>0. conf \in Seq(Participant)
  BY DEF TypeInv, PbxTyped
<1>1. ASSUME ChannelsIn(conf') \subseteq ChannelsIn(conf), joined' = joined
      PROVE  /\ joined \subseteq joined'
             /\ \A c \in Callers' : c \in Callers \/ (c \notin joined /\ c \in joined')
  BY <1>1 DEF Callers
<1>2. CASE conf' = conf /\ joined' = joined
  BY <1>1, <1>2
<1>3. CASE Tick \/ Connected \/ ConnectionLost \/ ConnectFails \/ SegmentEnds
  BY <1>2, <1>3 DEF Tick, Connected, ConnectionLost, ConnectFails, SegmentEnds, pbx
<1>4. CASE ReadLogin \/ ReadConference \/ ReadTrunk \/ ReadIdle \/ ReadKey
  BY <1>2, <1>4 DEF ReadLogin, ReadConference, ReadTrunk, ReadIdle, ReadKey, Read, pbx
<1>5. CASE ClickStep
  BY <1>2, <1>5, ClickLeaves DEF pbx
<1>6. CASE ServeStep
  <2>1. joined' = joined /\ (conf' = conf \/ conf' = Moderated(Head(toServer)))
    BY <1>6, Served
  <2>2. QED
    BY <1>1, <2>1, ModeratedChannels
<1>7. CASE Happens
  BY <1>2, <1>7, HappensLeaves DEF pbx
<1>8. CASE Apart
  <2>1. CASE TrunkChanges \/ ServerReturns \/ UNCHANGED vars
    BY <1>2, <2>1 DEF TrunkChanges, ServerReturns, vars, pbx
  <2>2. CASE \E c \in Channels \cup {Own} : Leaves(c)
    <3>1. PICK c \in Channels \cup {Own} : Leaves(c)
      BY <2>2
    <3>2. conf' = Without(conf, c) /\ joined' = joined
      BY <3>1 DEF Leaves
    <3>3. QED
      BY <1>0, <1>1, <3>2, WithoutChannels
  <2>3. CASE \E c \in Channels \cup {Own} : Joins(c)
    <3>1. PICK c \in Channels \cup {Own} : Joins(c)
      BY <2>3
    <3> DEFINE p == [channel |-> c, unmuted |-> c = Own]
               n == Len(conf)
    <3>2. conf' = Append(conf, p) /\ c \notin joined /\ joined' = joined \cup ({c} \ {Own})
      BY <3>1 DEF Joins
    <3>3. p.channel = c
      OBVIOUS
    <3> HIDE DEF p
    <3>4. /\ DOMAIN conf' = 1 .. n + 1 /\ DOMAIN conf = 1 .. n
          /\ conf'[n + 1] = p /\ \A i \in 1 .. n : conf'[i] = conf[i]
      BY <1>0, <3>2
    <3>5. n \in Nat
      BY <1>0
    <3> HIDE DEF n
    <3>6. ASSUME NEW d \in ChannelsIn(conf') PROVE d = c \/ d \in ChannelsIn(conf)
      <4>1. PICK i \in 1 .. n + 1 : d = conf'[i].channel
        BY <3>4 DEF ChannelsIn
      <4>2. i = n + 1 \/ i \in 1 .. n
        BY <3>5
      <4>3. CASE i = n + 1
        BY <3>3, <3>4, <4>1, <4>3
      <4>4. CASE i \in 1 .. n
        BY <3>4, <4>1, <4>4 DEF ChannelsIn
      <4>5. QED
        BY <4>2, <4>3, <4>4
    <3>7. Own \notin Channels
      BY PbxMonitorAssumption
    <3>8. QED
      BY <3>2, <3>6, <3>7 DEF Callers
  <2>4. QED
    BY <1>8, <2>1, <2>2, <2>3 DEF Apart
<1>9. QED
  BY <1>3, <1>4, <1>5, <1>6, <1>7, <1>8, NextIs

\* Listed adds the caller it is about at most, and marks it.
LEMMA ListedMarks ==
  ASSUME NEW C, NEW table \in Seq(Row(C)), NEW c \in C, NEW unmuted \in BOOLEAN,
         NEW new, new = Listed(table, c, unmuted)
  PROVE  /\ \A d \in ChannelsOf(new) : d = c \/ d \in ChannelsOf(table)
         /\ ChannelsOf(table) \subseteq ChannelsOf(new)
         /\ Marked(new, c)
         /\ \A d : Marked(table, d) => Marked(new, d)
<1>1. /\ new \in Seq(Row(C))
      /\ SameCallers(new, table) \/ new = Append(table, NewRow(c, unmuted))
  BY ListedNumbers
<1>2. \E r \in DOMAIN new : new[r].channel = c /\ new[r].marked
  BY ListedRows
<1>3. \A r \in DOMAIN table :
        /\ r \in DOMAIN new
        /\ table[r].marked => new[r].marked
        /\ new[r].channel = table[r].channel
  BY ListedRows
<1>4. CASE SameCallers(new, table)
  BY <1>1, <1>2, <1>3, <1>4, SameChannels DEF Marked
<1>5. CASE new = Append(table, NewRow(c, unmuted))
  <2> DEFINE row == NewRow(c, unmuted)
  <2>1. row.channel = c
    BY DEF NewRow
  <2> HIDE DEF row
  <2>2. new = Append(table, row)
    BY <1>5 DEF row
  <2>3. /\ DOMAIN new = 1 .. Len(table) + 1 /\ DOMAIN table = 1 .. Len(table)
        /\ new[Len(table) + 1] = row
        /\ \A r \in 1 .. Len(table) : new[r] = table[r]
    BY <2>2
  <2>4. \A r \in 1 .. Len(table) + 1 : r \in 1 .. Len(table) \/ r = Len(table) + 1
    OBVIOUS
  <2>5. \A d \in ChannelsOf(new) : d = c \/ d \in ChannelsOf(table)
    BY <2>1, <2>3, <2>4 DEF ChannelsOf
  <2>6. QED
    BY <1>2, <1>3, <2>5 DEF Marked, ChannelsOf
<1>6. QED
  BY <1>1, <1>4, <1>5

\* What the table names after a step.
LEMMA RowsName ==
  ASSUME TypeInv, Whole, [Next]_vars
  PROVE  \/ ChannelsOf(rows') \subseteq ChannelsOf(rows)
         \/ /\ ReadConference /\ Head(toClient).key = "Entry"
            /\ Head(toClient).value.channel \in Channels
            /\ \A d \in ChannelsOf(rows') :
                 d = Head(toClient).value.channel \/ d \in ChannelsOf(rows)
<1>1. rows \in Seq(Row(Channels)) /\ scenario.multi \in BOOLEAN
  BY RowsTyped DEF RowChannels
<1>2. ChannelsOf(<< >>) = {}
  BY NoPlaces DEF ChannelsOf
<1>3. CASE Tick /\ rows' = markAllChannels(rows, FALSE)
  BY <1>1, <1>3, MarkedRows, SameChannels
<1>4. CASE /\ ReadConference /\ parse
           /\ Head(toClient).key = "Entry" /\ ~Head(toClient).value.own
           /\ rows' = Listed(rows, Head(toClient).value.channel,
                             Head(toClient).value.unmuted)
  <2>1. toClient # << >>
    BY <1>4 DEF ReadConference, Read
  <2>2. Head(toClient).value.channel \in Channels /\ Head(toClient).value.unmuted \in BOOLEAN
    BY <1>4, <2>1, RowsTyped DEF RowChannels
  <2>3. QED
    BY <1>1, <1>4, <2>2, ListedMarks
<1>5. CASE rows' = removeUnusedChannels(rows)
  <2>1. IsKept(rows', rows) /\ rows' \in Seq(Row(Channels))
    BY <1>1, <1>5, KeptRows
  <2>2. PICK from \in [1 .. Len(rows') -> DOMAIN rows \ Removed(rows)] :
          \A i \in DOMAIN from : rows'[i] = rows[from[i]]
    BY <2>1 DEF IsKept
  <2>3. DOMAIN rows' = DOMAIN from
    BY <2>1
  <2>4. QED
    BY <2>2, <2>3 DEF ChannelsOf
<1>6. CASE /\ ReadKey /\ Head(toClient).key = "Digit"
           /\ rows' = Dialled(rows, dtmfChannel, Head(toClient).value)
  <2>1. toClient # << >>
    BY <1>6 DEF ReadKey, Read
  <2>2. Head(toClient).value \in Keys \cup {Cut}
    BY <1>6, <2>1, RowsTyped
  <2>3. rows' \in Seq(Row(Channels)) /\ SameCallers(rows', rows)
    BY <1>1, <1>6, <2>2, DialledRows
  <2>4. QED
    BY <1>1, <2>3, SameChannels
<1>7. CASE \E r \in DOMAIN rows :
             \/ ClickSpeak(r) /\ rows' = SpeakClicked(rows, r, scenario.multi)
             \/ ClickKick(r) /\ rows' = KickClicked(rows, r)
  <2>1. rows' \in Seq(Row(Channels)) /\ SameCallers(rows', rows)
    BY <1>1, <1>7, SpokenRows, KickedRows
  <2>2. QED
    BY <1>1, <2>1, SameChannels
<1>8. QED
  BY <1>2, <1>3, <1>4, <1>5, <1>6, <1>7, RowsStep

\* Every step keeps the rows those of callers who joined.
LEMMA JoinersStep ==
  TypeInv /\ ListsInv /\ JoinersInv /\ [Next]_vars => JoinersInv'
<1> SUFFICES ASSUME TypeInv, ListsInv, JoinersInv, [Next]_vars, Whole'
             PROVE  ChannelsOf(rows') \subseteq joined' /\ Callers' \subseteq joined'
  BY DEF JoinersInv
<1>0. Whole
  BY WholeStays
<1>1. /\ joined \subseteq joined' /\ ChannelsOf(rows) \subseteq joined
      /\ Callers \subseteq joined
  BY <1>0, CallersStep DEF JoinersInv
<1>2. Callers' \subseteq joined'
  BY <1>1, CallersStep
<1>3. CASE ChannelsOf(rows') \subseteq ChannelsOf(rows)
  BY <1>1, <1>2, <1>3
<1>4. CASE /\ ReadConference /\ Head(toClient).key = "Entry"
           /\ Head(toClient).value.channel \in Channels
           /\ \A d \in ChannelsOf(rows') :
                d = Head(toClient).value.channel \/ d \in ChannelsOf(rows)
  <2>1. toClient # << >> /\ toClient \in Seq(Lines)
    BY <1>4 DEF ReadConference, Read, TypeInv, WireTyped
  <2>2. Head(toClient) = toClient[1] /\ 1 \in DOMAIN toClient
    BY <2>1, HeadAndTail
  <2>3. Head(toClient).value.channel \in joined
    BY <1>0, <1>4, <2>2, PbxMonitorAssumption DEF ListsInv, ListsGoOn
  <2>4. QED
    BY <1>1, <1>2, <1>4, <2>3
<1>5. QED
  BY <1>0, <1>3, <1>4, RowsName

\* After a line is read the parser is in a list if it was before, or if the
\* list begins with this line.
LEMMA ReadingGoesOn ==
  ASSUME ReadLogin \/ ReadConference \/ ReadTrunk \/ ReadIdle \/ ReadKey, Reading'
  PROVE  /\ ReadConference /\ sock = "connected"
         /\ \/ Head(toClient).key = "Response" /\ rows' = rows /\ admin' = 0
            \/ /\ parse /\ Head(toClient).key = "Entry"
               /\ \/ Head(toClient).value.own /\ rows' = rows
                  \/ /\ ~Head(toClient).value.own /\ admin' = admin
                     /\ rows' = Listed(rows, Head(toClient).value.channel,
                                       Head(toClient).value.unmuted)
            \/ /\ parse /\ Head(toClient).key \notin ListLine
               /\ rows' = rows /\ admin' = admin
<1>1. ReadConference
  BY DEF ReadLogin, ReadTrunk, ReadIdle, ReadKey, Read, Reading
<1>2. sock = "connected"
  BY <1>1 DEF ReadConference, Read
<1>3. CASE Is("Response", "Success") /\ parse' = TRUE /\ admin' = 0 /\ rows' = rows
  BY <1>1, <1>2, <1>3 DEF Is
<1>4. CASE parse /\ Head(toClient).key = "Entry"
  BY <1>1, <1>2, <1>4 DEF ReadConference, Is
<1>5. CASE parse /\ Head(toClient).key \notin ListLine /\ rows' = rows /\ admin' = admin
  BY <1>1, <1>2, <1>5
<1>6. QED
  BY <1>1, <1>3, <1>4, <1>5 DEF ReadConference, ListEnds, Reading, ListLine

\* A step after which the parser is not in a list, or one that leaves the marks.
LEMMA NotReading ==
  ASSUME ~Reading'
  PROVE  Safe \subseteq Safe' /\ Places \subseteq Places'
BY DEF Safe, Places

\* A list being read goes on when table and parser keep their marks.
LEMMA SameReading ==
  ASSUME UNCHANGED <<state, parse, admin>>,
         \A c : Marked(rows', c) <=> Marked(rows, c),
         NoMarks(rows') <=> NoMarks(rows)
  PROVE  Safe \subseteq Safe' /\ Places \subseteq Places'
<1>1. Reading' = Reading
  BY DEF Reading
<1>2. Safe \subseteq Safe'
  BY <1>1 DEF Safe
<1>3. Places \subseteq Places'
  BY <1>1 DEF Places
<1>4. QED
  BY <1>2, <1>3

\* A step that leaves the wire and what the table names.
LEMMA ListsUntouched ==
  ASSUME TypeInv, Whole, ListsInv, JoinersInv, [Next]_vars, toClient' = toClient,
         ChannelsOf(rows') = ChannelsOf(rows), Safe \subseteq Safe', Places \subseteq Places'
  PROVE  ListsInv'
<1>1. toClient \in Seq(Lines) /\ << >> \in Seq(Lines)
  BY DEF TypeInv, WireTyped
<1>2. toClient' = toClient \o << >>
  BY <1>1
<1>3. ListsFit(<< >>, Callers', joined' \cup {Own})
  BY DEF ListsFit
<1>4. joined \subseteq joined' /\ \A c \in Callers' : c \in Callers \/ c \notin joined
  BY CallersStep
<1>5. QED
  BY <1>1, <1>2, <1>3, <1>4, ListsLeft

\* An empty wire has no lists.
LEMMA NoLines == ASSUME toClient' = << >> PROVE ListsInv'
BY NoPlaces DEF ListsInv, NamesAll, NoneKnown, ListsGoOn, OwnAlone

\* A line is read.
LEMMA ListsRead ==
  ASSUME TypeInv, Whole, ListsInv, MarksInv, [Next]_vars,
         ReadLogin \/ ReadConference \/ ReadTrunk \/ ReadIdle \/ ReadKey,
         toClient # << >>, toClient' = Tail(toClient)
  PROVE  ListsInv'
<1>1. toClient \in Seq(Lines) /\ Head(toClient) = toClient[1] /\ Head(toClient) \in Lines
  BY HeadAndTail DEF TypeInv, WireTyped
<1>2. WholeLine(Head(toClient))
  BY TailWire
<1>3. conf' = conf /\ joined' = joined
  BY DEF ReadLogin, ReadConference, ReadTrunk, ReadIdle, ReadKey, Read, pbx
<1>4. rows \in Seq(Row(Channels))
  BY RowsTyped DEF RowChannels
<1>5. /\ Head(toClient).key = "Entry" /\ ~Head(toClient).value.own =>
           /\ Head(toClient).value.channel \in Channels
           /\ Head(toClient).value.unmuted \in BOOLEAN
  BY RowsTyped DEF RowChannels
<1>6. Head(toClient).key = "Entry" /\ Head(toClient).value.own =>
        Head(toClient).value.channel = Own
  BY <1>2 DEF WholeLine
<1>7. Own \notin Channels
  BY PbxMonitorAssumption
<1> DEFINE known == ChannelsOf(rows')
           safe == Safe'
           places == Places'
<1>8. \A c \in Callers : c \in known => c \in ChannelsOf(rows) \/ Names(toClient, 1, c)
  BY <1>1, RowsName DEF Names
<1>9. ASSUME toClient[1].key = "Entry", NEW c \in Callers, c \in Safe \/ Names(toClient, 1, c)
      PROVE  c \in safe
  <2>1. c \in Channels
    BY DEF Callers
  <2>2. ASSUME Reading' PROVE Marked(rows', c)
    <3>1. /\ ReadConference /\ parse
          /\ \/ Head(toClient).value.own /\ rows' = rows
             \/ /\ ~Head(toClient).value.own
                /\ rows' = Listed(rows, Head(toClient).value.channel,
                                  Head(toClient).value.unmuted)
      BY <1>1, <1>9, <2>2, ReadingGoesOn DEF ListLine
    <3>2. Reading
      BY <3>1 DEF Reading, ReadConference, Read
    <3>3. CASE Head(toClient).value.own /\ rows' = rows
      <4>1. ~Names(toClient, 1, c)
        BY <1>1, <1>6, <1>7, <1>9, <2>1, <3>3 DEF Names
      <4>2. QED
        BY <1>9, <3>2, <3>3, <4>1 DEF Safe
    <3>4. CASE /\ ~Head(toClient).value.own
               /\ rows' = Listed(rows, Head(toClient).value.channel,
                                 Head(toClient).value.unmuted)
      <4>1. /\ Marked(rows', Head(toClient).value.channel)
            /\ \A d : Marked(rows, d) => Marked(rows', d)
        BY <1>1, <1>4, <1>5, <1>9, <3>4, ListedMarks
      <4>2. Names(toClient, 1, c) => c = Head(toClient).value.channel
        BY <1>1 DEF Names
      <4>3. QED
        BY <1>9, <3>2, <4>1, <4>2 DEF Safe
    <3>5. QED
      BY <3>1, <3>3, <3>4
  <2>3. QED
    BY <2>1, <2>2 DEF Safe
<1>10. ASSUME toClient[1].key = "Message" PROVE 2 \in places
  <2>1. ASSUME Reading' PROVE admin' = 0 /\ NoMarks(rows')
    <3>1. /\ ReadConference /\ sock = "connected" /\ parse /\ rows' = rows /\ admin' = admin
          /\ Head(toClient).key \notin ListLine
      BY <1>1, <1>10, <2>1, ReadingGoesOn
    <3>2. state = "CONFERENCE"
      BY <3>1 DEF ReadConference, Read
    <3>3. QED
      BY <3>1, <3>2 DEF MarksInv
  <2>2. QED
    BY <2>1 DEF Places
<1>11. ASSUME toClient[1].key = "Entry", 2 \in Places PROVE 1 \in places
  <2>1. ASSUME Reading' PROVE admin' = 0 \/ NoMarks(rows')
    <3>1. /\ ReadConference /\ parse
          /\ rows' = rows \/ admin' = admin
      BY <1>1, <1>11, <2>1, ReadingGoesOn DEF ListLine
    <3>2. Reading
      BY <3>1 DEF Reading, ReadConference, Read
    <3>3. admin = 0 /\ NoMarks(rows)
      BY <1>11, <3>2 DEF Places
    <3>4. QED
      BY <3>1, <3>3
  <2>2. QED
    BY <2>1 DEF Places
<1>12. Places \in SUBSET {1, 2}
  BY DEF Places
<1>13. /\ NamesAll(toClient, Callers, ChannelsOf(rows), Safe)
       /\ NoneKnown(toClient, Callers, ChannelsOf(rows))
       /\ ListsGoOn(toClient, joined \cup {Own})
       /\ OwnAlone(toClient, Places)
  BY DEF ListsInv
<1>14. Callers' = Callers
  BY <1>3 DEF Callers
<1> HIDE DEF known, safe, places
<1> DEFINE rest == Tail(toClient)
<1>15. /\ NamesAll(rest, Callers, known, safe)
       /\ NoneKnown(rest, Callers, known)
       /\ ListsGoOn(rest, joined \cup {Own})
       /\ OwnAlone(rest, places)
  BY <1>1, <1>8, <1>9, <1>10, <1>11, <1>12, <1>13, FewerLines
<1>16. rest = toClient'
  OBVIOUS
<1> HIDE DEF rest
<1>17. QED
  BY <1>3, <1>14, <1>15, <1>16 DEF ListsInv, known, safe, places

\* No event is taken for a list.
LEMMA EventsAreNoLists ==
  ASSUME NEW c \in Channels \cup {Own}, NEW key \in TestKeys,
         NEW lines, lines = EventLines(c) \/ lines = KeyLines(c, key)
  PROVE  \A i \in DOMAIN lines : lines[i].key \notin ListLine /\ lines[i] # NoConference
<1> DEFINE x == Line("Event", "Newstate")
           y == Line("Channel", c)
           z == Line("Digit", key)
           w == Line("Event", "DTMFEnd")
           Good(l) == l.key \notin ListLine /\ l # NoConference
<1>1. Good(x) /\ Good(y) /\ Good(z) /\ Good(w)
  BY DEF Line, ListLine, NoConference
<1>2. lines = <<x, y>> \/ lines = <<w, y, z>>
  BY DEF EventLines, KeyLines
<1> HIDE DEF x, y, z, w, Good
<1>3. /\ \A i \in DOMAIN <<x, y>> : Good(<<x, y>>[i])
      /\ \A i \in DOMAIN <<w, y, z>> : Good(<<w, y, z>>[i])
  BY <1>1
<1>4. \A i \in DOMAIN lines : Good(lines[i])
  BY <1>2, <1>3
<1>5. QED
  BY <1>4 DEF Good

\* What comes from the manager is as it should be.
LEMMA WireFits ==
  ASSUME TypeInv, Whole, JoinersInv, [Next]_vars, ServeStep \/ Happens
  PROVE  \E lines \in Seq(Lines) :
           toClient' = toClient \o lines /\ ListsFit(lines, Callers', joined' \cup {Own})
<1>1. CASE Happens
  <2>1. PICK lines \in Seq(Lines) :
          /\ toClient' = toClient \o lines
          /\ \/ \E c \in Channels \cup {Own} : lines = EventLines(c)
             \/ \E c \in Channels, key \in TestKeys : lines = KeyLines(c, key)
    BY <1>1, HappensLeaves
  <2>2. \A i \in DOMAIN lines : lines[i].key \notin ListLine /\ lines[i] # NoConference
    <3>1. CASE \E c \in Channels \cup {Own} : lines = EventLines(c)
      <4> DEFINE x == Line("Event", "Newstate")
      <4>1. PICK c \in Channels \cup {Own} : lines = EventLines(c)
        BY <3>1
      <4> DEFINE y == Line("Channel", c)
                 Good(l) == l.key \notin ListLine /\ l # NoConference
      <4>2. Good(x) /\ Good(y)
        BY DEF Line, ListLine, NoConference
      <4>3. lines = <<x, y>>
        BY <4>1 DEF EventLines
      <4> HIDE DEF x, y, Good
      <4>4. \A i \in DOMAIN <<x, y>> : Good(<<x, y>>[i])
        BY <4>2
      <4>5. \A i \in DOMAIN lines : Good(lines[i])
        BY <4>3, <4>4
      <4>6. QED
        BY <4>5 DEF Good
    <3>2. CASE \E c \in Channels, key \in TestKeys : lines = KeyLines(c, key)
      BY <3>2, EventsAreNoLists
    <3>3. QED
      BY <2>1, <3>1, <3>2
  <2>3. ListsFit(lines, Callers', joined' \cup {Own})
    BY <2>2, NoLists
  <2>4. QED
    BY <2>1, <2>3
<1>2. CASE ServeStep
  <2>1. CASE conf' = conf /\ joined' = joined /\ toClient' = toClient \o ListLines
    <3>1. ListsFit(ListLines, Callers, joined \cup {Own})
      BY ListFits
    <3>2. Callers' = Callers
      BY <2>1 DEF Callers
    <3>3. ListLines \in Seq(Lines)
      BY ListLinesTyped
    <3> DEFINE list == ListLines
    <3>4. toClient' = toClient \o list /\ list \in Seq(Lines)
          /\ ListsFit(list, Callers', joined' \cup {Own})
      BY <2>1, <3>1, <3>2, <3>3
    <3> HIDE DEF list
    <3>5. QED
      BY <3>4
  <2>2. CASE \E lines \in Seq(Plain) : toClient' = toClient \o lines
    <3>1. PICK lines \in Seq(Plain) : toClient' = toClient \o lines
      BY <2>2
    <3>2. lines \in Seq(Lines)
          /\ \A i \in DOMAIN lines : lines[i].key \notin ListLine /\ lines[i] # NoConference
      BY PlainSpeaks DEF ListLine
    <3>3. ListsFit(lines, Callers', joined' \cup {Own})
      BY <3>2, NoLists
    <3>4. QED
      BY <3>1, <3>2, <3>3
  <2>3. QED
    BY <1>2, <2>1, <2>2, Served, PlainAnswers
<1>3. QED
  BY <1>1, <1>2

\* A click leaves the callers and the marks.
LEMMA ClickedRows ==
  ASSUME NEW C, NEW table \in Seq(Row(C)), NEW r \in DOMAIN table, NEW multi \in BOOLEAN,
         NEW new, new = SpeakClicked(table, r, multi) \/ new = KickClicked(table, r)
  PROVE  /\ new \in Seq(Row(C)) /\ SameCallers(new, table)
         /\ \A i \in DOMAIN table : new[i].marked = table[i].marked
<1>1. CASE new = SpeakClicked(table, r, multi)
  <2>1. new \in Seq(Row(C)) /\ SameCallers(new, table)
    BY <1>1, SpokenRows
  <2>2. \A i \in DOMAIN table : new[i].marked = table[i].marked
    BY <1>1, SpokenRows
  <2>3. QED
    BY <2>1, <2>2
<1>2. CASE new = KickClicked(table, r)
  <2>1. new \in Seq(Row(C)) /\ SameCallers(new, table)
    BY <1>2, KickedRows
  <2>2. \A i \in DOMAIN table : new[i].marked = table[i].marked
    BY <1>2, KickedRows
  <2>3. QED
    BY <2>1, <2>2
<1>3. QED
  BY <1>1, <1>2

\* Every step keeps the lists on the wire complete.
LEMMA ListsStep ==
  TypeInv /\ ListsInv /\ MarksInv /\ JoinersInv /\ [Next]_vars => ListsInv'
<1> SUFFICES ASSUME TypeInv, ListsInv, MarksInv, JoinersInv, [Next]_vars, Whole'
             PROVE  ListsInv'
  BY DEF ListsInv
<1>0. Whole
  BY WholeStays
<1>1. rows \in Seq(Row(Channels)) /\ scenario.multi \in BOOLEAN
  BY <1>0, RowsTyped DEF RowChannels
<1>2. CASE Tick
  <2>1. CASE toClient' = << >>
    BY <2>1, NoLines
  <2>2. CASE toClient' = toClient /\ UNCHANGED <<state, parse, admin, rows>>
    <3>1. ChannelsOf(rows') = ChannelsOf(rows) /\ Safe \subseteq Safe' /\ Places \subseteq Places'
      BY <2>2, SameReading
    <3>2. QED
      BY <1>0, <2>2, <3>1, ListsUntouched
  <2>3. CASE toClient' = toClient /\ state' = "LOGIN" /\ rows' = rows
    <3>1. ~Reading'
      BY <2>3 DEF Reading
    <3>2. Safe \subseteq Safe' /\ Places \subseteq Places'
      BY <3>1, NotReading
    <3>3. QED
      BY <1>0, <2>3, <3>2, ListsUntouched
  <2>4. CASE toClient' = toClient /\ parse' = FALSE /\ rows' = markAllChannels(rows, FALSE)
    <3>1. ~Reading'
      BY <2>4 DEF Reading
    <3>2. Safe \subseteq Safe' /\ Places \subseteq Places'
      BY <3>1, NotReading
    <3>3. ChannelsOf(rows') = ChannelsOf(rows)
      BY <1>1, <2>4, MarkedRows, SameChannels
    <3>4. QED
      BY <1>0, <2>4, <3>2, <3>3, ListsUntouched
  <2>5. QED
    BY <1>2, <2>1, <2>2, <2>3, <2>4 DEF Tick, checkPBX, switchedOff, Connect, Disconnect
<1>3. CASE Connected
  <2>1. toClient' = toClient /\ UNCHANGED <<parse, admin, rows>>
        /\ (state' = "LOGIN" \/ state' = state)
    BY <1>3 DEF Connected
  <2>2. Safe \subseteq Safe' /\ Places \subseteq Places'
    <3>1. CASE state' = state
      BY <2>1, <3>1, SameReading
    <3>2. CASE state' = "LOGIN"
      <4>1. ~Reading'
        BY <3>2 DEF Reading
      <4>2. QED
        BY <4>1, NotReading
    <3>3. QED
      BY <2>1, <3>1, <3>2
  <2>3. QED
    BY <1>0, <2>1, <2>2, ListsUntouched
<1>4. CASE ReadLogin \/ ReadConference \/ ReadTrunk \/ ReadIdle \/ ReadKey
  <2>1. toClient # << >> /\ (toClient' = Tail(toClient) \/ toClient' = << >>)
    BY <1>4 DEF ReadLogin, ReadConference, ReadTrunk, ReadIdle, ReadKey, Read, Disconnect
  <2>2. QED
    BY <1>0, <1>4, <2>1, NoLines, ListsRead
<1>5. CASE ClickStep
  <2>1. toClient' = toClient /\ UNCHANGED <<state, parse, admin>>
    BY <1>5, ClickLeaves DEF GuiUnchanged
  <2>2. /\ rows' \in Seq(Row(Channels)) /\ SameCallers(rows', rows)
        /\ \A r \in DOMAIN rows : rows'[r].marked = rows[r].marked
    <3>1. PICK r \in DOMAIN rows : \/ rows' = SpeakClicked(rows, r, scenario.multi)
                                   \/ rows' = KickClicked(rows, r)
      BY <1>5 DEF ClickStep, ClickSpeak, ClickKick
    <3>2. QED
      BY <1>1, <3>1, ClickedRows
  <2>3. /\ ChannelsOf(rows') = ChannelsOf(rows)
        /\ \A c : Marked(rows', c) <=> Marked(rows, c)
        /\ NoMarks(rows') <=> NoMarks(rows)
    BY <1>1, <2>2, SameMarks
  <2>4. Safe \subseteq Safe' /\ Places \subseteq Places'
    BY <2>1, <2>3, SameReading
  <2>5. QED
    BY <1>0, <2>1, <2>3, <2>4, ListsUntouched
<1>6. CASE ServeStep \/ Happens
  <2>1. UNCHANGED <<state, parse, admin, rows>>
    BY <1>6, Served, HappensLeaves DEF gui
  <2>2. ChannelsOf(rows') = ChannelsOf(rows) /\ Safe \subseteq Safe' /\ Places \subseteq Places'
    BY <2>1, SameReading
  <2>3. PICK lines \in Seq(Lines) :
          toClient' = toClient \o lines /\ ListsFit(lines, Callers', joined' \cup {Own})
    BY <1>0, <1>6, WireFits
  <2>4. joined \subseteq joined' /\ \A c \in Callers' : c \in Callers \/ c \notin joined
    BY CallersStep
  <2>5. QED
    BY <1>0, <2>2, <2>3, <2>4, ListsLeft
<1>7. CASE Apart
  <2>1. UNCHANGED <<state, parse, admin, rows, toClient>>
    BY <1>7, ApartLeaves DEF gui
  <2>2. ChannelsOf(rows') = ChannelsOf(rows) /\ Safe \subseteq Safe' /\ Places \subseteq Places'
    BY <2>1, SameReading
  <2>3. QED
    BY <1>0, <2>1, <2>2, ListsUntouched
<1>8. CASE SegmentEnds
  BY <1>0, <1>8 DEF SegmentEnds, Disturb, Whole
<1>9. CASE ConnectionLost
  BY <1>9, NoLines DEF ConnectionLost
<1>10. CASE ConnectFails
  <2>1. UNCHANGED <<state, parse, admin, rows, toClient>>
    BY <1>10 DEF ConnectFails, gui
  <2>2. ChannelsOf(rows') = ChannelsOf(rows) /\ Safe \subseteq Safe' /\ Places \subseteq Places'
    BY <2>1, SameReading
  <2>3. QED
    BY <1>0, <2>1, <2>2, ListsUntouched
<1>11. QED
  BY <1>2, <1>3, <1>4, <1>5, <1>6, <1>7, <1>8, <1>9, <1>10, NextIs

\* The poll takes the marks of all rows.
LEMMA Unmarked ==
  ASSUME NEW C, NEW table \in Seq(Row(C))
  PROVE  NoMarks(markAllChannels(table, FALSE))
<1> DEFINE new == markAllChannels(table, FALSE)
<1>1. DOMAIN new = DOMAIN table
  BY DEF markAllChannels
<1>2. ASSUME NEW r \in DOMAIN table PROVE ~new[r].marked
  <2>1. table[r] \in Row(C)
    BY ElementOfSeq
  <2>2. new[r] = [table[r] EXCEPT !.marked = FALSE]
    BY DEF markAllChannels
  <2>3. QED
    BY <2>1, <2>2 DEF Row
<1>3. QED
  BY <1>1, <1>2 DEF NoMarks

\* The list goes on in what is read next.
LEMMA NextInList ==
  ASSUME TypeInv, Whole, ListsInv, toClient # << >>, Head(toClient).key = "Entry",
         toClient' = Tail(toClient)
  PROVE  toClient' # << >> /\ Head(toClient').key \in ListLine
<1>1. toClient \in Seq(Lines)
  BY DEF TypeInv, WireTyped
<1> DEFINE n == Len(toClient)
           rest == Tail(toClient)
<1>2. /\ Head(toClient) = toClient[1] /\ 1 \in DOMAIN toClient /\ n \in Nat
      /\ rest \in Seq(Lines) /\ Len(rest) = n - 1
      /\ \A i \in 1 .. n - 1 : rest[i] = toClient[i + 1]
  BY <1>1, HeadAndTail
<1>3. 1 + 1 \in 1 .. n /\ toClient[1 + 1].key \in ListLine
  BY <1>1, <1>2 DEF ListsInv, ListsGoOn
<1> HIDE DEF n, rest
<1>4. Len(rest) # 0 /\ 1 \in 1 .. n - 1
  BY <1>2, <1>3
<1>5. rest # << >> /\ rest[1] = toClient[1 + 1]
  BY <1>2, <1>4
<1>6. Head(rest) = rest[1]
  BY <1>2, <1>5, HeadAndTail
<1>7. QED
  BY <1>3, <1>5, <1>6 DEF rest

\* What is read first stays so when lines come behind it.
LEMMA FirstStays ==
  ASSUME TypeInv, NEW lines \in Seq(Lines), toClient' = toClient \o lines, toClient # << >>
  PROVE  toClient' # << >> /\ Head(toClient') = Head(toClient)
<1>1. toClient \in Seq(Lines)
  BY DEF TypeInv, WireTyped
<1> DEFINE new == toClient \o lines
<1>2. /\ new \in Seq(Lines) /\ Len(new) = Len(toClient) + Len(lines)
      /\ \A i \in 1 .. Len(toClient) : new[i] = toClient[i]
  BY <1>1, Added
<1>3. Len(toClient) >= 1 /\ Len(toClient) \in Nat /\ Len(lines) \in Nat
  BY <1>1
<1> HIDE DEF new
<1>4. new # << >> /\ new[1] = toClient[1]
  BY <1>2, <1>3
<1>5. Head(new) = new[1] /\ Head(toClient) = toClient[1]
  BY <1>1, <1>2, <1>4, HeadAndTail
<1>6. QED
  BY <1>4, <1>5 DEF new

\* Every step keeps the marks those of the list being read.
LEMMA MarksStep == TypeInv /\ ListsInv /\ MarksInv /\ [Next]_vars => MarksInv'
<1> DEFINE InProgress == toClient # << >> /\ Head(toClient).key \in ListLine
<1> SUFFICES ASSUME TypeInv, ListsInv, MarksInv, [Next]_vars,
                    Whole', sock' = "connected", state' = "CONFERENCE",
                    ~(parse' /\ InProgress')
             PROVE  NoMarks(rows') /\ (parse' => admin' = 0)
  BY DEF MarksInv
<1>0. Whole
  BY WholeStays
<1>1. ASSUME sock = "connected", state = "CONFERENCE", ~(parse /\ InProgress),
             UNCHANGED <<rows, parse, admin>>
      PROVE  NoMarks(rows') /\ (parse' => admin' = 0)
  BY <1>0, <1>1 DEF MarksInv
<1>2. CASE Tick
  <2>1. CASE rows' = markAllChannels(rows, FALSE) /\ admin' = 0
    <3>1. rows \in Seq(Row(RowChannels))
      BY RowsTyped
    <3>2. QED
      BY <2>1, <3>1, Unmarked
  <2>2. CASE UNCHANGED <<sock, state, parse, admin, rows, toClient>>
    BY <1>1, <2>2
  <2>3. QED
    BY <1>2, <2>1, <2>2 DEF Tick, checkPBX, switchedOff, Connect, Disconnect
<1>3. CASE Connected
  BY <1>3 DEF Connected
<1>4. CASE ReadLogin
  <2>1. rows' = << >> /\ admin' = 0
    BY <1>4 DEF ReadLogin, Read
  <2>2. NoMarks(<< >>)
    BY NoPlaces DEF NoMarks
  <2>3. QED
    BY <2>1, <2>2
<1>5. CASE ReadConference
  <2>0. /\ sock = "connected" /\ state = "CONFERENCE" /\ toClient # << >>
        /\ toClient' = Tail(toClient)
    BY <1>5 DEF ReadConference, Read
  <2>1. CASE Head(toClient).key \notin ListLine
    <3>1. NoMarks(rows) /\ (parse => admin = 0)
      BY <1>0, <2>0, <2>1 DEF MarksInv
    <3>2. rows' = rows /\ ((admin' = admin /\ parse' = parse) \/ admin' = 0)
      BY <1>5, <2>1 DEF ReadConference, ListEnds, ListLine
    <3>3. QED
      BY <3>1, <3>2
  <2>2. CASE Head(toClient).key = "Entry"
    <3>1. InProgress'
      BY <1>0, <2>0, <2>2, NextInList
    <3>2. ~parse'
      BY <3>1
    <3>3. ~parse
      BY <1>5, <2>2, <3>2 DEF ReadConference, Is
    <3>4. rows' = rows
      BY <1>5, <2>2, <3>3 DEF ReadConference, Is
    <3>5. QED
      BY <1>0, <2>0, <3>2, <3>3, <3>4 DEF MarksInv
  <2>3. CASE Head(toClient).key = "ListItems"
    <3>1. ~parse
      BY <1>5, <2>3 DEF ReadConference, ListEnds, Is
    <3>2. rows' = rows /\ parse' = parse
      BY <1>5, <2>3, <3>1 DEF ReadConference, Is
    <3>3. QED
      BY <1>0, <2>0, <3>1, <3>2 DEF MarksInv
  <2>4. QED
    BY <2>1, <2>2, <2>3 DEF ListLine
<1>6. CASE ReadTrunk \/ ReadIdle \/ ReadKey
  BY <1>6 DEF ReadTrunk, ReadIdle, ReadKey, Read
<1>7. CASE ClickStep
  <2>1. UNCHANGED <<sock, toClient, state, parse, admin>>
    BY <1>7, ClickLeaves DEF GuiUnchanged
  <2>2. rows \in Seq(Row(Channels)) /\ scenario.multi \in BOOLEAN
    BY <1>0, RowsTyped DEF RowChannels
  <2>3. PICK r \in DOMAIN rows : \/ rows' = SpeakClicked(rows, r, scenario.multi)
                                 \/ rows' = KickClicked(rows, r)
    BY <1>7 DEF ClickStep, ClickSpeak, ClickKick
  <2>4. /\ rows' \in Seq(Row(Channels)) /\ SameCallers(rows', rows)
        /\ \A i \in DOMAIN rows : rows'[i].marked = rows[i].marked
    BY <2>2, <2>3, ClickedRows
  <2>5. NoMarks(rows') <=> NoMarks(rows)
    BY <2>2, <2>4, SameMarks
  <2>6. QED
    BY <1>0, <2>1, <2>5 DEF MarksInv
<1>8. CASE ServeStep \/ Happens
  <2>1. UNCHANGED <<sock, state, parse, admin, rows>>
    BY <1>8, Served, HappensLeaves DEF gui
  <2>2. PICK lines \in Seq(Lines) : toClient' = toClient \o lines
    <3>1. CASE ServeStep
      BY <3>1, Served, AnswersTyped, ListLinesTyped
    <3>2. CASE Happens
      BY <3>2, HappensLeaves
    <3>3. QED
      BY <1>8, <3>1, <3>2
  <2>3. InProgress => InProgress'
    BY <2>2, FirstStays
  <2>4. QED
    BY <1>1, <2>1, <2>3
<1>9. CASE Apart
  <2>1. UNCHANGED <<sock, state, parse, admin, rows, toClient>>
    BY <1>9, ApartLeaves DEF gui
  <2>2. QED
    BY <1>1, <2>1
<1>10. CASE SegmentEnds
  BY <1>0, <1>10 DEF SegmentEnds, Disturb, Whole
<1>11. CASE ConnectionLost
  <2>1. sock' # "connected" \/ (sock' = sock /\ sock # "connected")
    BY <1>11 DEF ConnectionLost
  <2>2. QED
    <3>1. sock # "connected" /\ sock' = "connected" => FALSE
      BY <1>11 DEF ConnectionLost
    <3>2. QED
      BY <2>1, <3>1
<1>12. CASE ConnectFails
  BY <1>12 DEF ConnectFails
<1>13. QED
  BY <1>2, <1>3, <1>4, <1>5, <1>6, <1>7, <1>8, <1>9, <1>10, <1>11, <1>12, NextIs

\* Nobody who is there loses the row to a list that ends.
LEMMA NobodyDropped ==
  ASSUME TypeInv, ListsInv, Whole, [Next]_vars, state # "LOGIN",
         NEW c \in ChannelsIn(conf), c \in ChannelsOf(rows)
  PROVE  c \in ChannelsOf(rows')
<1>1. rows \in Seq(Row(Channels)) /\ scenario.multi \in BOOLEAN
  BY RowsTyped DEF RowChannels
<1>2. c \in Callers
  <2>1. PICK r \in DOMAIN rows : c = rows[r].channel
    BY DEF ChannelsOf
  <2>2. rows[r] \in Row(Channels)
    BY <1>1, <2>1, ElementOfSeq
  <2>3. QED
    BY <2>1, <2>2 DEF Row, Callers
<1>3. CASE Tick /\ rows' = markAllChannels(rows, FALSE)
  BY <1>1, <1>3, MarkedRows, SameChannels
<1>4. ASSUME toClient # << >> 
      PROVE  /\ Head(toClient) = toClient[1] /\ 1 \in DOMAIN toClient
             /\ Head(toClient) \in Lines /\ WholeLine(Head(toClient))
  BY <1>4, HeadAndTail, TailWire DEF TypeInv, WireTyped
<1>5. ASSUME ReadConference, parse, Head(toClient).key = "ListItems"
      PROVE  Marked(rows, c)
  <2>1. toClient # << >> /\ Reading
    BY <1>5 DEF ReadConference, Read, Reading
  <2>2. toClient[1].key = "ListItems" /\ 1 \in DOMAIN toClient
    BY <1>4, <1>5, <2>1
  <2>3. InList(toClient, 1, c) \/ (Run(toClient, 1, 1) /\ c \in Safe)
    BY <1>2, <2>2 DEF ListsInv, NamesAll
  <2>4. ~InList(toClient, 1, c)
    <3>1. \A j : j \notin 1 .. 1 - 1
      OBVIOUS
    <3>2. QED
      BY <3>1 DEF InList
  <2>5. QED
    BY <2>1, <2>3, <2>4 DEF Safe
<1>6. CASE /\ ReadConference /\ parse /\ Head(toClient).key = "ListItems"
           /\ rows' = IF Head(toClient).value - admin = 0 THEN << >>
                      ELSE removeUnusedChannels(rows)
  <2>1. PICK r \in DOMAIN rows : rows[r].channel = c /\ rows[r].marked
    BY <1>5, <1>6 DEF Marked
  <2>2. Head(toClient).value - admin # 0
    <3>1. toClient # << >> /\ Reading
      BY <1>6 DEF ReadConference, Read, Reading
    <3> DEFINE v == Head(toClient).value
    <3>2. v >= 1
      BY <1>4, <1>6, <3>1 DEF WholeLine
    <3>3. v \in Int
      BY <1>4, <1>6, <3>1, LineTyped
    <3>4. admin \in {0, 1}
      BY DEF TypeInv, GuiTyped
    <3>5. ASSUME v = 1 PROVE admin = 0
      <4>1. 1 \in Places
        BY <1>4, <1>6, <3>1, <3>5 DEF ListsInv, OwnAlone
      <4>2. admin = 0 \/ NoMarks(rows)
        BY <3>1, <4>1 DEF Places
      <4>3. QED
        BY <2>1, <4>2 DEF NoMarks
    <3> HIDE DEF v
    <3>6. v - admin # 0
      BY <3>2, <3>3, <3>4, <3>5
    <3>7. QED
      BY <3>6 DEF v
  <2>3. rows' = removeUnusedChannels(rows)
    BY <1>6, <2>2
  <2>4. IsKept(rows', rows) /\ rows' \in Seq(Row(Channels))
    BY <1>1, <2>3, KeptRows
  <2>5. PICK from \in [1 .. Len(rows') -> DOMAIN rows \ Removed(rows)] :
          /\ \A i \in DOMAIN from : rows'[i] = rows[from[i]]
          /\ \A q \in DOMAIN rows \ Removed(rows) : \E i \in DOMAIN from : from[i] = q
    BY <2>4 DEF IsKept
  <2>6. r \notin Removed(rows)
    BY <2>1 DEF Removed
  <2>7. PICK i \in DOMAIN from : from[i] = r
    BY <2>5, <2>6
  <2>8. DOMAIN rows' = DOMAIN from
    BY <2>4
  <2>9. QED
    BY <2>1, <2>5, <2>7, <2>8 DEF ChannelsOf
<1>7. CASE ReadConference /\ Is("Message", "No active conferences.")
  <2>1. toClient # << >>
    BY <1>7 DEF ReadConference, Read
  <2>2. toClient[1] = NoConference
    <3> DEFINE l == toClient[1]
    <3>1. l \in Lines /\ l.key = "Message" /\ l.value = "No active conferences."
      BY <1>4, <1>7, <2>1 DEF Is
    <3> HIDE DEF l
    <3>2. l = [key |-> "Message", value |-> "No active conferences."]
      BY <3>1 DEF Lines
    <3>3. QED
      BY <3>2 DEF l, NoConference, Line
  <2>3. c \notin ChannelsOf(rows)
    BY <1>2, <1>4, <2>1, <2>2 DEF ListsInv, NoneKnown
  <2>4. QED
    BY <2>3
<1>8. CASE /\ ReadConference /\ parse
           /\ Head(toClient).key = "Entry" /\ ~Head(toClient).value.own
           /\ rows' = Listed(rows, Head(toClient).value.channel,
                             Head(toClient).value.unmuted)
  <2>1. toClient # << >>
    BY <1>8 DEF ReadConference, Read
  <2>2. Head(toClient).value.channel \in Channels /\ Head(toClient).value.unmuted \in BOOLEAN
    BY <1>8, <2>1, RowsTyped DEF RowChannels
  <2>3. QED
    BY <1>1, <1>8, <2>2, ListedMarks
<1>9. CASE /\ ReadKey /\ Head(toClient).key = "Digit"
           /\ rows' = Dialled(rows, dtmfChannel, Head(toClient).value)
  <2>1. toClient # << >>
    BY <1>9 DEF ReadKey, Read
  <2>2. Head(toClient).value \in Keys \cup {Cut}
    BY <1>9, <2>1, RowsTyped
  <2>3. rows' \in Seq(Row(Channels)) /\ SameCallers(rows', rows)
    BY <1>1, <1>9, <2>2, DialledRows
  <2>4. QED
    BY <1>1, <2>3, SameChannels
<1>10. CASE \E r \in DOMAIN rows :
              \/ ClickSpeak(r) /\ rows' = SpeakClicked(rows, r, scenario.multi)
              \/ ClickKick(r) /\ rows' = KickClicked(rows, r)
  <2>1. rows' \in Seq(Row(Channels)) /\ SameCallers(rows', rows)
    BY <1>1, <1>10, SpokenRows, KickedRows
  <2>2. QED
    BY <1>1, <2>1, SameChannels
<1>11. CASE ReadLogin
  BY <1>11 DEF ReadLogin, Read
<1>12. QED
  BY <1>3, <1>6, <1>7, <1>8, <1>9, <1>10, <1>11, RowsStep

\* What is said of lists holds in every behaviour.
LEMMA ListsHold == Spec => [](ListsInv /\ MarksInv /\ JoinersInv)
<1>1. Init => ListsInv /\ MarksInv /\ JoinersInv
  <2> SUFFICES ASSUME Init PROVE ListsInv /\ MarksInv /\ JoinersInv
    OBVIOUS
  <2>1. toClient = << >> /\ rows = << >> /\ conf = << >> /\ sock = "closed"
    BY DEF Init
  <2>2. ListsInv
    BY <2>1, NoPlaces DEF ListsInv, NamesAll, NoneKnown, ListsGoOn, OwnAlone
  <2>3. MarksInv
    BY <2>1 DEF MarksInv
  <2>4. JoinersInv
    BY <2>1, NoPlaces DEF JoinersInv, ChannelsOf, Callers, ChannelsIn
  <2>5. QED
    BY <2>2, <2>3, <2>4
<1>2. TypeInv /\ ListsInv /\ MarksInv /\ JoinersInv /\ [Next]_vars =>
        ListsInv' /\ MarksInv' /\ JoinersInv'
  BY ListsStep, MarksStep, JoinersStep
<1>3. QED
  BY <1>1, <1>2, Typed, PTL DEF Spec

\* A caller who is in the conference keeps its row, and with it the number it
\* dialled, through late lists, lists cut short by the next poll, answers to clicks
\* and events, unless a line was torn: what a list deletes it did not name, and a
\* caller who joined while it was under way has no row yet
\* (mainwindow.cpp:197-214, 292-438, 1214-1240).
THEOREM NoListenerIsDropped == Spec => NoListenerDropped
<1>1. TypeInv /\ ListsInv /\ [Next]_vars =>
        [Whole => \A c \in ChannelsIn(conf) :
           c \in ChannelsOf(rows) => c \in ChannelsOf(rows') \/ state = "LOGIN"]_vars
  BY NobodyDropped
<1>2. QED
  BY <1>1, Typed, ListsHold, PTL DEF Spec, NoListenerDropped

-----------------------------------------------------------------------------
(* Who will speak *)

Mute(c) == Action("ConfbridgeMute", c)
Unmute(c) == Action("ConfbridgeUnmute", c)

\* The caller can speak when these actions are done: it can now or will be
\* unmuted, and is not muted afterwards.
WillSpeak(c, actions, participants) ==
  \E p \in participants :
    /\ p.channel = c
    /\ \/ p.unmuted /\ \A j \in DOMAIN actions : actions[j] # Mute(c)
       \/ \E i \in DOMAIN actions :
            /\ actions[i] = Unmute(c)
            /\ \A j \in i + 1 .. Len(actions) : actions[j] # Mute(c)

\* Actions that are written.
LEMMA SpeaksBefore ==
  ASSUME NEW s \in Seq(Actions), NEW new \in Seq(Actions), NEW c, NEW P,
         WillSpeak(c, s \o new, P)
  PROVE  \/ WillSpeak(c, s, P) /\ \A j \in DOMAIN new : new[j] # Mute(c)
         \/ \E j \in DOMAIN new : new[j] = Unmute(c)
<1> DEFINE all == s \o new
           n == Len(s)
           m == Len(new)
<1>1. n \in Nat /\ m \in Nat /\ DOMAIN s = 1 .. n /\ DOMAIN new = 1 .. m
  OBVIOUS
<1>2. /\ Len(all) = n + m /\ all \in Seq(Actions)
      /\ \A i \in 1 .. n : all[i] = s[i]
      /\ \A i \in n + 1 .. n + m : all[i] = new[i - n]
  BY Added
<1>3. DOMAIN all = 1 .. n + m
  BY <1>2
<1>4. WillSpeak(c, all, P)
  OBVIOUS
<1> HIDE DEF all, n, m
<1>5. \A j \in 1 .. m : n + j \in n + 1 .. n + m /\ n + j \in 1 .. n + m /\ (n + j) - n = j
  BY <1>1
<1>6. \A j \in 1 .. n : j \in 1 .. n + m
  BY <1>1
<1>7. \A j \in 1 .. m : all[n + j] = new[j]
  BY <1>2, <1>5
<1>8. PICK p \in P :
        /\ p.channel = c
        /\ \/ p.unmuted /\ \A j \in 1 .. n + m : all[j] # Mute(c)
           \/ \E i \in 1 .. n + m : /\ all[i] = Unmute(c)
                                    /\ \A j \in i + 1 .. n + m : all[j] # Mute(c)
  BY <1>2, <1>3, <1>4 DEF WillSpeak
<1>9. CASE p.unmuted /\ \A j \in 1 .. n + m : all[j] # Mute(c)
  <2>1. \A j \in 1 .. n : s[j] # Mute(c)
    BY <1>2, <1>6, <1>9
  <2>2. \A j \in 1 .. m : new[j] # Mute(c)
    BY <1>5, <1>7, <1>9
  <2>3. QED
    BY <1>1, <1>8, <1>9, <2>1, <2>2 DEF WillSpeak
<1>10. ASSUME NEW i \in 1 .. n + m, all[i] = Unmute(c),
              \A j \in i + 1 .. n + m : all[j] # Mute(c)
       PROVE  \/ WillSpeak(c, s, P) /\ \A j \in DOMAIN new : new[j] # Mute(c)
              \/ \E j \in DOMAIN new : new[j] = Unmute(c)
  <2>1. CASE i \in n + 1 .. n + m
    <3>1. i - n \in 1 .. m /\ new[i - n] = Unmute(c)
      BY <1>1, <1>2, <1>10, <2>1
    <3>2. QED
      BY <1>1, <3>1
  <2>2. CASE i \in 1 .. n
    <3>1. s[i] = Unmute(c)
      BY <1>2, <1>10, <2>2
    <3>2. \A j \in i + 1 .. n : j \in i + 1 .. n + m /\ j \in 1 .. n
      BY <1>1, <2>2
    <3>3. \A j \in i + 1 .. n : s[j] # Mute(c)
      BY <1>2, <1>10, <3>2
    <3>4. \A j \in 1 .. m : n + j \in i + 1 .. n + m
      BY <1>1, <2>2
    <3>5. \A j \in 1 .. m : new[j] # Mute(c)
      BY <1>7, <1>10, <3>4
    <3>6. Len(s) = n
      BY DEF n
    <3>7. QED
      BY <1>1, <1>8, <2>2, <3>1, <3>3, <3>5, <3>6 DEF WillSpeak
  <2>3. QED
    BY <1>1, <2>1, <2>2
<1>11. QED
  BY <1>8, <1>9, <1>10

\* An action that is done.
LEMMA SpeaksServed ==
  ASSUME NEW s \in Seq(Actions), s # << >>, NEW c, NEW P, NEW Q,
         WillSpeak(c, Tail(s), Q),
         \A q \in Q : q.channel = c =>
           \E p \in P : /\ p.channel = c
                        /\ q.unmuted => /\ Head(s) # Mute(c)
                                        /\ p.unmuted \/ Head(s) = Unmute(c)
  PROVE  WillSpeak(c, s, P)
<1> DEFINE rest == Tail(s)
           n == Len(s)
<1>1. /\ Head(s) = s[1] /\ rest \in Seq(Actions) /\ Len(rest) = n - 1
      /\ n \in Nat /\ n >= 1 /\ DOMAIN s = 1 .. n
      /\ \A i \in 1 .. n - 1 : rest[i] = s[i + 1]
  BY HeadAndTail
<1>2. WillSpeak(c, rest, Q)
  OBVIOUS
<1> HIDE DEF rest, n
<1>3. DOMAIN rest = 1 .. n - 1
  BY <1>1
<1>4. PICK q \in Q :
        /\ q.channel = c
        /\ \/ q.unmuted /\ \A j \in 1 .. n - 1 : rest[j] # Mute(c)
           \/ \E i \in 1 .. n - 1 : /\ rest[i] = Unmute(c)
                                    /\ \A j \in i + 1 .. n - 1 : rest[j] # Mute(c)
  BY <1>1, <1>2, <1>3 DEF WillSpeak
<1>5. PICK p \in P : /\ p.channel = c
                     /\ q.unmuted => /\ s[1] # Mute(c)
                                     /\ p.unmuted \/ s[1] = Unmute(c)
  BY <1>1, <1>4
<1>6. \A j \in 2 .. n : j - 1 \in 1 .. n - 1 /\ (j - 1) + 1 = j
  BY <1>1
<1>7. \A j \in 2 .. n : s[j] = rest[j - 1]
  BY <1>1, <1>6
<1>8. Len(s) = n
  BY DEF n
<1>9. CASE q.unmuted /\ \A j \in 1 .. n - 1 : rest[j] # Mute(c)
  <2>1. \A j \in 2 .. n : s[j] # Mute(c)
    BY <1>6, <1>7, <1>9
  <2>2. \A j \in 1 .. n : j = 1 \/ j \in 2 .. n
    BY <1>1
  <2>3. CASE p.unmuted
    <3>1. \A j \in 1 .. n : s[j] # Mute(c)
      BY <1>5, <1>9, <2>1, <2>2
    <3>2. QED
      BY <1>1, <1>5, <2>3, <3>1 DEF WillSpeak
  <2>4. CASE s[1] = Unmute(c)
    <3>1. 1 \in 1 .. n /\ 1 + 1 = 2
      BY <1>1
    <3>2. \A j \in 1 + 1 .. Len(s) : s[j] # Mute(c)
      BY <1>8, <2>1, <3>1
    <3>3. QED
      BY <1>1, <1>5, <2>4, <3>1, <3>2 DEF WillSpeak
  <2>5. QED
    BY <1>5, <1>9, <2>3, <2>4
<1>10. ASSUME NEW i \in 1 .. n - 1, rest[i] = Unmute(c),
              \A j \in i + 1 .. n - 1 : rest[j] # Mute(c)
       PROVE  WillSpeak(c, s, P)
  <2>1. i + 1 \in 1 .. n /\ s[i + 1] = Unmute(c)
    BY <1>1, <1>10
  <2>2. \A j \in (i + 1) + 1 .. n : j \in 2 .. n /\ j - 1 \in i + 1 .. n - 1
    BY <1>1
  <2>3. \A j \in (i + 1) + 1 .. n : s[j] # Mute(c)
    BY <1>7, <1>10, <2>2
  <2>4. QED
    BY <1>1, <1>5, <1>8, <2>1, <2>3 DEF WillSpeak
<1>11. QED
  BY <1>4, <1>9, <1>10

\* No two participants have one channel.
OneEach == \A p, q \in ToSet(conf) : p.channel = q.channel => p = q

\* What is under way is about callers who joined.
ActionsJoined ==
  Whole => \A i \in DOMAIN toServer : toServer[i].channel \in joined \cup {NoChannel}

\* A scenario in which the session holds.
Calm ==
  /\ Whole /\ scenario.goodLogin /\ scenario.prompt
  /\ "losses" \notin scenario.disturbances

\* In it, there are no rows before the session.
NoRowsYet ==
  Calm => /\ ~outage
          /\ sock # "connected" \/ state = "LOGIN" => rows = << >>

\* In it, with one speaker at a time, at most one caller will speak, and has a
\* row.
Speakers ==
  Calm /\ ~scenario.multi =>
    /\ \A c, d \in Channels :
         WillSpeak(c, toServer, ToSet(conf)) /\ WillSpeak(d, toServer, ToSet(conf)) => c = d
    /\ \A c \in Channels : WillSpeak(c, toServer, ToSet(conf)) => c \in ChannelsOf(rows)

\* The participants as a set.
LEMMA SetOfParticipants ==
  ASSUME TypeInv
  PROVE  /\ conf \in Seq(Participant) /\ DOMAIN conf = 1 .. Len(conf) /\ Len(conf) \in Nat
         /\ ToSet(conf) = {conf[i] : i \in 1 .. Len(conf)}
         /\ ChannelsIn(conf) = {p.channel : p \in ToSet(conf)}
<1>1. conf \in Seq(Participant) /\ DOMAIN conf = 1 .. Len(conf) /\ Len(conf) \in Nat
  BY DEF TypeInv, PbxTyped
<1>2. ToSet(conf) = {conf[i] : i \in 1 .. Len(conf)}
  BY <1>1 DEF ToSet
<1>3. ChannelsIn(conf) = {p.channel : p \in ToSet(conf)}
  BY <1>1, <1>2 DEF ChannelsIn
<1>4. QED
  BY <1>1, <1>2, <1>3

\* Fewer participants than before.
LEMMA WithoutSet ==
  ASSUME NEW s \in Seq(Participant), NEW c
  PROVE  ToSet(Without(s, c)) \subseteq ToSet(s)
<1>1. CASE c \notin ChannelsIn(s)
  BY <1>1 DEF Without
<1>2. CASE c \in ChannelsIn(s)
  <2> DEFINE i == CHOOSE i \in DOMAIN s : s[i].channel = c
  <2>1. i \in DOMAIN s
    BY <1>2 DEF ChannelsIn
  <2>2. i \in 1 .. Len(s)
    BY <2>1
  <2>3. Without(s, c) = RemoveAt(s, i)
    BY <1>2 DEF Without
  <2> HIDE DEF i
  <2>4. QED
    BY <2>2, <2>3, RemovedAt
<1>3. QED
  BY <1>1, <1>2

\* What an action makes of the participants.
LEMMA ModeratedSet ==
  ASSUME TypeInv, NEW action, NEW q \in ToSet(Moderated(action))
  PROVE  /\ q \in Participant
         /\ action.name = "ConfbridgeKick" => q \in ToSet(conf)
         /\ action.name # "ConfbridgeKick" =>
              \E p \in ToSet(conf) :
                /\ p.channel = q.channel
                /\ q.unmuted = IF p.channel = action.channel
                               THEN action.name = "ConfbridgeUnmute"
                               ELSE p.unmuted
<1> DEFINE m == Moderated(action)
<1>1. m \in Seq(Participant)
  BY ModeratedTyped
<1>2. PICK i \in 1 .. Len(m) : q = m[i]
  BY <1>1 DEF ToSet
<1>3. q \in Participant
  BY <1>1, <1>2
<1>4. CASE action.name = "ConfbridgeKick"
  <2>1. m = Without(conf, action.channel)
    BY <1>4 DEF Moderated
  <2>2. q \in ToSet(conf)
    BY <2>1, SetOfParticipants, WithoutSet
  <2>3. QED
    BY <1>3, <1>4, <2>2
<1>5. CASE action.name # "ConfbridgeKick"
  <2>1. Len(m) = Len(conf)
    BY <1>5, ModeratedTyped
  <2>2. i \in 1 .. Len(conf)
    BY <1>2, <2>1
  <2>3. /\ m[i].channel = conf[i].channel
        /\ m[i].unmuted = IF conf[i].channel = action.channel
                          THEN action.name = "ConfbridgeUnmute"
                          ELSE conf[i].unmuted
    BY <1>5, <2>2, ModeratedTyped
  <2>4. conf[i] \in ToSet(conf)
    BY <2>2, SetOfParticipants
  <2> HIDE DEF m
  <2>5. QED
    BY <1>2, <1>3, <1>5, <2>3, <2>4
<1>6. QED
  BY <1>4, <1>5

\* How the participants change.
LEMMA ConfChanges ==
  ASSUME TypeInv, [Next]_vars
  PROVE  \/ conf' = conf
         \/ \E c \in Channels \cup {Own} :
              /\ Joins(c) /\ c \notin ChannelsIn(conf)
              /\ ToSet(conf') = ToSet(conf) \cup {[channel |-> c, unmuted |-> c = Own]}
         \/ /\ \E c \in Channels \cup {Own} : Leaves(c)
            /\ ToSet(conf') \subseteq ToSet(conf)
         \/ ServeStep /\ conf' = Moderated(Head(toServer))
<1>0. conf \in Seq(Participant) /\ DOMAIN conf = 1 .. Len(conf) /\ Len(conf) \in Nat
  BY SetOfParticipants
<1>1. CASE Tick \/ Connected \/ ReadLogin \/ ReadConference
           \/ ReadTrunk \/ ReadIdle \/ ReadKey
  BY <1>1 DEF Tick, Connected, ReadLogin, ReadConference, ReadTrunk, ReadIdle, ReadKey,
              Read, pbx
<1>2. CASE ClickStep
  BY <1>2, ClickLeaves DEF pbx
<1>3. CASE ServeStep
  BY <1>3, Served
<1>4. CASE Happens
  BY <1>4, HappensLeaves DEF pbx
<1>5. CASE SegmentEnds \/ ConnectionLost \/ ConnectFails \/ TrunkChanges \/ ServerReturns
           \/ UNCHANGED vars
  BY <1>5 DEF SegmentEnds, ConnectionLost, ConnectFails, TrunkChanges, ServerReturns,
              vars, pbx
<1>6. ASSUME NEW c \in Channels \cup {Own}, Joins(c)
      PROVE  /\ c \notin ChannelsIn(conf)
             /\ ToSet(conf') = ToSet(conf) \cup {[channel |-> c, unmuted |-> c = Own]}
  <2> DEFINE p == [channel |-> c, unmuted |-> c = Own]
  <2>1. c \notin ChannelsIn(conf) /\ conf' = Append(conf, p)
    BY <1>6 DEF Joins
  <2> HIDE DEF p
  <2>2. /\ Len(conf') = Len(conf) + 1 /\ DOMAIN conf' = 1 .. Len(conf) + 1
        /\ conf'[Len(conf) + 1] = p
        /\ \A i \in 1 .. Len(conf) : conf'[i] = conf[i]
    BY <1>0, <2>1
  <2>3. \A i : i \in 1 .. Len(conf) + 1 <=> i \in 1 .. Len(conf) \/ i = Len(conf) + 1
    BY <1>0
  <2>4. ToSet(conf') = ToSet(conf) \cup {p}
    BY <1>0, <2>2, <2>3 DEF ToSet
  <2>5. QED
    BY <2>1, <2>4 DEF p
<1>7. ASSUME NEW c \in Channels \cup {Own}, Leaves(c)
      PROVE  ToSet(conf') \subseteq ToSet(conf)
  BY <1>0, <1>7, WithoutSet DEF Leaves
<1>8. QED
  BY <1>1, <1>2, <1>3, <1>4, <1>5, <1>6, <1>7, NextIs DEF Apart

\* Every step keeps one participant to a channel.
LEMMA OneEachStep == TypeInv /\ OneEach /\ [Next]_vars => OneEach'
<1> SUFFICES ASSUME TypeInv, OneEach, [Next]_vars,
                    NEW p \in ToSet(conf'), NEW q \in ToSet(conf'), p.channel = q.channel
             PROVE  p = q
  BY DEF OneEach
<1>1. CASE ToSet(conf') \subseteq ToSet(conf)
  BY <1>1 DEF OneEach
<1>2. ASSUME NEW c \in Channels \cup {Own}, c \notin ChannelsIn(conf),
             ToSet(conf') = ToSet(conf) \cup {[channel |-> c, unmuted |-> c = Own]}
      PROVE  p = q
  <2>1. \A r \in ToSet(conf) : r.channel # c
    BY <1>2, SetOfParticipants
  <2>2. [channel |-> c, unmuted |-> c = Own].channel = c
    OBVIOUS
  <2>3. QED
    BY <1>2, <2>1, <2>2 DEF OneEach
<1>3. CASE conf' = Moderated(Head(toServer))
  <2> DEFINE action == Head(toServer)
  <2>1. p \in ToSet(Moderated(action)) /\ q \in ToSet(Moderated(action))
    BY <1>3
  <2> HIDE DEF action
  <2>2. CASE action.name = "ConfbridgeKick"
    BY <2>1, <2>2, ModeratedSet DEF OneEach
  <2>3. CASE action.name # "ConfbridgeKick"
    <3>1. PICK x \in ToSet(conf) :
            /\ x.channel = p.channel
            /\ p.unmuted = IF x.channel = action.channel
                           THEN action.name = "ConfbridgeUnmute" ELSE x.unmuted
      BY <2>1, <2>3, ModeratedSet
    <3>2. PICK y \in ToSet(conf) :
            /\ y.channel = q.channel
            /\ q.unmuted = IF y.channel = action.channel
                           THEN action.name = "ConfbridgeUnmute" ELSE y.unmuted
      BY <2>1, <2>3, ModeratedSet
    <3>3. x = y
      BY <3>1, <3>2 DEF OneEach
    <3>4. p \in Participant /\ q \in Participant
      BY <2>1, ModeratedSet
    <3>5. p.unmuted = q.unmuted
      BY <3>1, <3>2, <3>3
    <3>6. QED
      BY <3>4, <3>5 DEF Participant
  <2>4. QED
    BY <2>2, <2>3
<1>4. QED
  BY <1>1, <1>2, <1>3, ConfChanges

\* How what is under way to the manager changes.
LEMMA WireChanges ==
  ASSUME TypeInv, [Next]_vars
  PROVE  \/ toServer' = toServer
         \/ /\ toServer' = << >>
            /\ \/ Tick /\ inetTimeout > INET_TIMEOUT /\ pbxRq /\ pbxOk
               \/ ReadLogin /\ sock' = "closed"
               \/ ConnectionLost
         \/ /\ ServeStep /\ toServer # << >> /\ toServer' = Tail(toServer)
         \/ /\ Connected /\ PbxType # "yate"
            /\ toServer' = <<Action("Login", NoChannel)>>
         \/ /\ Tick \/ ReadLogin \/ ReadConference
            /\ \E name \in {"ConfBridgeList", "Registry"} :
                 toServer' = toServer \o <<Action(name, NoChannel)>>
         \/ \E r \in DOMAIN rows :
              \/ ClickSpeak(r) /\ toServer' = toServer \o SpeakActions(r)
              \/ /\ ClickKick(r)
                 /\ toServer' = toServer \o <<Action("ConfbridgeKick", rows[r].channel)>>
<1>1. CASE Tick
  <2>1. \/ toServer' = toServer
        \/ toServer' = << >> /\ inetTimeout > INET_TIMEOUT /\ pbxRq /\ pbxOk
        \/ toServer' = toServer \o <<Action("ConfBridgeList", NoChannel)>>
    BY <1>1 DEF Tick, switchedOff, checkPBX, Disconnect, Connect, Write
  <2>2. QED
    BY <1>1, <2>1
<1>2. CASE Connected
  BY <1>2 DEF Connected
<1>3. CASE ReadLogin
  <2>1. \/ toServer' = toServer
        \/ toServer' = << >> /\ sock' = "closed"
        \/ toServer' = toServer \o <<Action("ConfBridgeList", NoChannel)>>
    BY <1>3 DEF ReadLogin, Disconnect, Write
  <2>2. QED
    BY <1>3, <2>1
<1>4. CASE ReadConference
  <2>1. \/ toServer' = toServer
        \/ toServer' = toServer \o <<Action("Registry", NoChannel)>>
    BY <1>4 DEF ReadConference, ListEnds, Write
  <2>2. QED
    BY <1>4, <2>1
<1>5. CASE ReadTrunk \/ ReadIdle \/ ReadKey
  BY <1>5 DEF ReadTrunk, ReadIdle, ReadKey
<1>6. CASE ClickStep
  <2>1. PICK r \in DOMAIN rows : ClickSpeak(r) \/ ClickKick(r)
    BY <1>6 DEF ClickStep
  <2>2. CASE ClickSpeak(r)
    <3>1. toServer' = toServer \/ toServer' = toServer \o SpeakActions(r)
      BY <2>2 DEF ClickSpeak, Write
    <3>2. QED
      BY <2>2, <3>1
  <2>3. CASE ClickKick(r)
    <3>1. \/ toServer' = toServer
          \/ toServer' = toServer \o <<Action("ConfbridgeKick", rows[r].channel)>>
      BY <2>3 DEF ClickKick, Write
    <3>2. QED
      BY <2>3, <3>1
  <2>4. QED
    BY <2>1, <2>2, <2>3
<1>7. CASE ServeStep
  BY <1>7, Served
<1>8. CASE Happens
  BY <1>8, HappensLeaves
<1>9. CASE Apart
  BY <1>9, ApartLeaves
<1>10. CASE SegmentEnds \/ ConnectionLost \/ ConnectFails
  BY <1>10 DEF SegmentEnds, ConnectionLost, ConnectFails, Environment
<1>11. QED
  BY <1>1, <1>2, <1>3, <1>4, <1>5, <1>6, <1>7, <1>8, <1>9, <1>10, NextIs

\* What a click on the second column writes.
LEMMA SpeakActionsAre ==
  ASSUME TypeInv, NEW r \in DOMAIN rows
  PROVE  /\ SpeakActions(r) \in Seq(Actions)
         /\ \A j \in DOMAIN SpeakActions(r) :
              \/ \E c \in ChannelsOf(rows) : SpeakActions(r)[j] = Mute(c)
              \/ ~rows[r].unmuted /\ SpeakActions(r)[j] = Unmute(rows[r].channel)
         /\ ~rows[r].unmuted /\ ~scenario.multi =>
              \A c \in ChannelsOf(rows) :
                \E j \in DOMAIN SpeakActions(r) : SpeakActions(r)[j] = Mute(c)
<1> DEFINE mutes == IF scenario.multi THEN << >>
                    ELSE [q \in DOMAIN rows |-> Action("ConfbridgeMute", rows[q].channel)]
           last == Unmute(rows[r].channel)
<1>1. DOMAIN rows = 1 .. Len(rows) /\ Len(rows) \in Nat
  BY RowsTyped
<1>2. SpeakActions(r) \in Seq(Actions)
  BY SpeakActionsTyped
<1>3. CASE rows[r].unmuted
  <2>1. SpeakActions(r) = <<Mute(rows[r].channel)>>
    BY <1>3 DEF SpeakActions, Mute
  <2>2. rows[r].channel \in ChannelsOf(rows)
    BY DEF ChannelsOf
  <2>3. \A j \in DOMAIN SpeakActions(r) : SpeakActions(r)[j] = Mute(rows[r].channel)
    BY <2>1
  <2>4. QED
    BY <1>2, <1>3, <2>2, <2>3
<1>4. CASE ~rows[r].unmuted
  <2>1. SpeakActions(r) = mutes \o <<last>>
    BY <1>4 DEF SpeakActions, Unmute
  <2>2. mutes \in Seq({Mute(c) : c \in ChannelsOf(rows)})
    <3>1. \A q \in 1 .. Len(rows) :
            Action("ConfbridgeMute", rows[q].channel) \in {Mute(c) : c \in ChannelsOf(rows)}
      BY <1>1 DEF Mute, ChannelsOf
    <3>2. mutes = << >> \/
          mutes = [q \in 1 .. Len(rows) |-> Action("ConfbridgeMute", rows[q].channel)]
      BY <1>1
    <3> DEFINE S == {Mute(c) : c \in ChannelsOf(rows)}
    <3> HIDE DEF mutes, S
    <3>3. << >> \in Seq(S)
      OBVIOUS
    <3>4. \A q \in 1 .. Len(rows) : Action("ConfbridgeMute", rows[q].channel) \in S
      BY <3>1 DEF S
    <3>5. [q \in 1 .. Len(rows) |-> Action("ConfbridgeMute", rows[q].channel)] \in Seq(S)
      BY <1>1, <3>4
    <3>6. QED
      BY <3>2, <3>3, <3>5 DEF S
  <2>3. ~scenario.multi => /\ Len(mutes) = Len(rows)
                           /\ \A q \in DOMAIN rows : mutes[q] = Mute(rows[q].channel)
    <3>1. SUFFICES ASSUME ~scenario.multi
                   PROVE  /\ Len(mutes) = Len(rows)
                          /\ \A q \in DOMAIN rows : mutes[q] = Mute(rows[q].channel)
      OBVIOUS
    <3>2. mutes = [q \in 1 .. Len(rows) |-> Action("ConfbridgeMute", rows[q].channel)]
      BY <1>1, <3>1
    <3> HIDE DEF mutes
    <3>3. QED
      BY <1>1, <3>2 DEF Mute
  <2> HIDE DEF mutes, last
  <2> DEFINE S == {Mute(c) : c \in ChannelsOf(rows)} \cup {last}
             n == Len(mutes)
             all == mutes \o <<last>>
  <2>4. mutes \in Seq(S) /\ <<last>> \in Seq(S) /\ Len(<<last>>) = 1 /\ <<last>>[1] = last
    BY <2>2
  <2>5. /\ all \in Seq(S) /\ Len(all) = n + 1 /\ n \in Nat /\ DOMAIN mutes = 1 .. n
        /\ \A i \in 1 .. n : all[i] = mutes[i]
    BY <2>4, Added
  <2>6. DOMAIN all = 1 .. n + 1
    BY <2>5
  <2>7. \A j \in DOMAIN all : all[j] \in S
    BY <2>5
  <2>8. \A j \in DOMAIN all : \/ \E c \in ChannelsOf(rows) : all[j] = Mute(c)
                              \/ all[j] = Unmute(rows[r].channel)
    BY <2>7 DEF last
  <2>9. ASSUME ~scenario.multi, NEW c \in ChannelsOf(rows)
        PROVE  \E j \in DOMAIN all : all[j] = Mute(c)
    <3>1. PICK q \in DOMAIN rows : rows[q].channel = c
      BY <2>9 DEF ChannelsOf
    <3>2. q \in 1 .. n /\ mutes[q] = Mute(c)
      BY <1>1, <2>3, <2>9, <3>1
    <3>3. q \in 1 .. n + 1
      BY <2>5, <3>2
    <3>4. QED
      BY <2>5, <2>6, <3>2, <3>3
  <2> HIDE DEF all
  <2>10. SpeakActions(r) = all
    BY <2>1 DEF all
  <2>11. QED
    BY <1>2, <1>4, <2>8, <2>9, <2>10
<1>5. QED
  BY <1>3, <1>4, RowsTyped

\* Every step keeps the actions under way about callers who joined.
LEMMA ActionsJoinedStep ==
  TypeInv /\ JoinersInv /\ ActionsJoined /\ [Next]_vars => ActionsJoined'
<1> SUFFICES ASSUME TypeInv, JoinersInv, ActionsJoined, [Next]_vars, Whole',
                    NEW i \in DOMAIN toServer'
             PROVE  toServer'[i].channel \in joined' \cup {NoChannel}
  BY DEF ActionsJoined
<1> DEFINE good == joined \cup {NoChannel}
<1>1. Whole /\ joined \subseteq joined'
  BY WholeStays, CallersStep
<1>2. /\ \A j \in DOMAIN toServer : toServer[j].channel \in good
      /\ ChannelsOf(rows) \subseteq good
      /\ toServer \in Seq(Actions)
  BY <1>1 DEF ActionsJoined, JoinersInv, TypeInv, WireTyped
<1> HIDE DEF good
<1>3. SUFFICES toServer'[i].channel \in good
  BY <1>1 DEF good
<1>4. ASSUME NEW new \in Seq(Actions), toServer' = toServer \o new,
             \A j \in DOMAIN new : new[j].channel \in good
      PROVE  toServer'[i].channel \in good
  <2> DEFINE n == Len(toServer)
             m == Len(new)
  <2>1. /\ n \in Nat /\ m \in Nat /\ DOMAIN toServer = 1 .. n /\ DOMAIN new = 1 .. m
        /\ DOMAIN toServer' = 1 .. n + m
        /\ \A j \in 1 .. n : toServer'[j] = toServer[j]
        /\ \A j \in n + 1 .. n + m : toServer'[j] = new[j - n]
    BY <1>2, <1>4, Added
  <2> HIDE DEF n, m
  <2>2. CASE i \in 1 .. n
    BY <1>2, <2>1, <2>2
  <2>3. CASE i \in n + 1 .. n + m
    <3>1. i - n \in 1 .. m
      BY <2>1, <2>3
    <3>2. QED
      BY <1>4, <2>1, <2>3, <3>1
  <2>4. QED
    BY <2>1, <2>2, <2>3
<1>5. CASE toServer' = toServer
  BY <1>2, <1>5
<1>6. CASE toServer' = << >>
  BY <1>6, NoPlaces
<1>7. CASE toServer # << >> /\ toServer' = Tail(toServer)
  <2>1. /\ Len(toServer') = Len(toServer) - 1 /\ toServer' \in Seq(Actions)
        /\ \A j \in 1 .. Len(toServer) - 1 : toServer'[j] = toServer[j + 1]
    BY <1>2, <1>7, HeadAndTail
  <2>2. i \in 1 .. Len(toServer) - 1 /\ i + 1 \in 1 .. Len(toServer)
    BY <1>2, <2>1
  <2>3. i + 1 \in DOMAIN toServer
    BY <1>2, <2>2
  <2>4. QED
    BY <1>2, <2>1, <2>2, <2>3
<1>8. CASE toServer' = <<Action("Login", NoChannel)>>
  <2>1. toServer'[i] = Action("Login", NoChannel)
    BY <1>8
  <2>2. QED
    BY <2>1 DEF Action, good
<1>9. ASSUME NEW name \in {"ConfBridgeList", "Registry"},
             toServer' = toServer \o <<Action(name, NoChannel)>>
      PROVE  toServer'[i].channel \in good
  <2>1. <<Action(name, NoChannel)>> \in Seq(Actions)
    BY ActionTyped DEF ActionNames
  <2>2. \A j \in DOMAIN <<Action(name, NoChannel)>> :
          <<Action(name, NoChannel)>>[j].channel \in good
    BY DEF Action, good
  <2>3. QED
    BY <1>4, <1>9, <2>1, <2>2
<1>10. ASSUME NEW r \in DOMAIN rows, toServer' = toServer \o SpeakActions(r)
       PROVE  toServer'[i].channel \in good
  <2>1. rows[r].channel \in ChannelsOf(rows)
    BY DEF ChannelsOf
  <2>2. \A j \in DOMAIN SpeakActions(r) : SpeakActions(r)[j].channel \in ChannelsOf(rows)
    BY <2>1, SpeakActionsAre DEF Mute, Unmute, Action
  <2>3. \A j \in DOMAIN SpeakActions(r) : SpeakActions(r)[j].channel \in good
    BY <1>2, <2>2
  <2>4. QED
    BY <1>4, <1>10, <2>3, SpeakActionsAre
<1>11. ASSUME NEW r \in DOMAIN rows,
              toServer' = toServer \o <<Action("ConfbridgeKick", rows[r].channel)>>
       PROVE  toServer'[i].channel \in good
  <2> DEFINE c == rows[r].channel
  <2>1. c \in good
    BY <1>2 DEF ChannelsOf
  <2>2. <<Action("ConfbridgeKick", c)>> \in Seq(Actions)
    BY SpeakActionsTyped
  <2> HIDE DEF c
  <2>3. \A j \in DOMAIN <<Action("ConfbridgeKick", c)>> :
          <<Action("ConfbridgeKick", c)>>[j].channel \in good
    BY <2>1 DEF Action
  <2>4. toServer' = toServer \o <<Action("ConfbridgeKick", c)>>
    BY <1>11 DEF c
  <2>5. QED
    BY <1>4, <2>2, <2>3, <2>4
<1>12. QED
  BY <1>5, <1>6, <1>7, <1>8, <1>9, <1>10, <1>11, WireChanges

\* While the session holds, no poll finds it unanswered.
LEMMA CalmTick ==
  ASSUME TypeInv, SessionInv, NoRowsYet, Calm, PbxType = "asterisk",
         Tick, inetTimeout > INET_TIMEOUT
  PROVE  ~(pbxRq /\ pbxOk)
<1>1. Answered
  BY DEF Tick, Calm
<1>2. ~outage /\ Whole /\ scenario.goodLogin
  BY DEF NoRowsYet, Calm
<1>3. pbxRq /\ pbxOk => toServer # << >> \/ toClient # << >>
  BY <1>2 DEF SessionInv, Waiting
<1>4. QED
  BY <1>1, <1>3 DEF Answered

\* A calm scenario stays so.
LEMMA CalmStays ==
  ASSUME TypeInv, [Next]_vars
  PROVE  Calm' = Calm /\ scenario' = scenario
BY WholeStays DEF Calm

\* While the session holds, rows are only there in it.
LEMMA NoRowsYetStep ==
  ASSUME PbxType = "asterisk", TypeInv, SessionInv, NoRowsYet, [Next]_vars
  PROVE  NoRowsYet'
<1> SUFFICES ASSUME Calm'
             PROVE  /\ ~outage'
                    /\ sock' # "connected" \/ state' = "LOGIN" => rows' = << >>
  BY DEF NoRowsYet
<1>1. Calm
  BY CalmStays
<1>2. /\ ~outage /\ Whole /\ scenario.goodLogin
      /\ sock # "connected" \/ state = "LOGIN" => rows = << >>
  BY <1>1 DEF NoRowsYet, Calm
<1>3. CASE Tick
  <2>1. outage' = outage
    BY <1>3 DEF Tick, history
  <2>2. CASE ~(inetTimeout > INET_TIMEOUT)
    <3>1. UNCHANGED <<state, rows, sock>>
      BY <1>3, <2>2 DEF Tick
    <3>2. QED
      BY <1>2, <2>1, <3>1
  <2>3. CASE inetTimeout > INET_TIMEOUT
    <3>1. checkPBX /\ ~(pbxRq /\ pbxOk)
      BY <1>1, <1>3, <2>3, CalmTick DEF Tick
    <3>2. CASE pbxOk
      <4>1. sock = "connected"
        BY <1>2, <3>2 DEF SessionInv, Waiting
      <4>2. sock' = "connected" /\ state' = "CONFERENCE"
        BY <3>1, <3>2, <4>1 DEF checkPBX
      <4>3. QED
        BY <1>2, <2>1, <4>2
    <3>3. CASE ~pbxOk
      <4>1. sock # "connected" /\ rows' = rows
        BY <3>1, <3>3 DEF checkPBX, SessionInv, Session
      <4>2. QED
        BY <1>2, <2>1, <4>1
    <3>4. QED
      BY <3>2, <3>3
  <2>4. QED
    BY <2>2, <2>3
<1>4. CASE Connected
  BY <1>2, <1>4 DEF Connected
<1>5. CASE ReadLogin
  <2>1. state = "LOGIN" /\ outage' = outage
    BY <1>5 DEF ReadLogin, Read, history
  <2>2. rows' = << >> \/ rows' = rows
    BY <1>5 DEF ReadLogin
  <2>3. QED
    BY <1>2, <2>1, <2>2
<1>6. CASE ReadConference \/ ReadTrunk \/ ReadIdle \/ ReadKey
  <2>1. sock = "connected" /\ sock' = sock /\ outage' = outage
    BY <1>6 DEF ReadConference, ReadTrunk, ReadIdle, ReadKey, Read, history
  <2>2. state' # "LOGIN"
    BY <1>6 DEF ReadConference, ReadTrunk, ReadIdle, ReadKey, Read, ListEnds
  <2>3. QED
    BY <1>2, <2>1, <2>2
<1>7. CASE ClickStep
  <2>1. sock' = sock /\ state' = state /\ outage' = outage
    BY <1>7, ClickLeaves DEF GuiUnchanged
  <2>2. DOMAIN rows # {}
    BY <1>7 DEF ClickStep
  <2>3. rows # << >>
    BY <2>2
  <2>4. QED
    BY <1>2, <2>1, <2>3
<1>8. CASE ServeStep
  BY <1>2, <1>8, Served DEF gui, history
<1>9. CASE Happens
  BY <1>2, <1>9, HappensLeaves DEF gui
<1>10. CASE Apart
  BY <1>2, <1>10, ApartLeaves DEF gui
<1>11. CASE SegmentEnds
  BY <1>2, <1>11 DEF SegmentEnds, Environment, gui
<1>12. CASE ConnectionLost
  BY <1>1, <1>12 DEF ConnectionLost, Disturb, Calm
<1>13. CASE ConnectFails
  BY <1>2, <1>13 DEF ConnectFails, gui, history
<1>14. QED
  BY <1>3, <1>4, <1>5, <1>6, <1>7, <1>8, <1>9, <1>10, <1>11, <1>12, <1>13, NextIs

\* Among fewer participants nobody else will speak.
LEMMA FewerSpeak ==
  ASSUME NEW c, NEW actions, NEW P, NEW Q, Q \subseteq P, WillSpeak(c, actions, Q)
  PROVE  WillSpeak(c, actions, P)
BY DEF WillSpeak

\* While the session holds, what is under way is served in order, or more is
\* written.
LEMMA CalmWire ==
  ASSUME PbxType = "asterisk", TypeInv, SessionInv, NoRowsYet, Calm, [Next]_vars
  PROVE  \/ toServer' = toServer
         \/ ServeStep /\ toServer # << >> /\ toServer' = Tail(toServer)
         \/ \E name \in {"Login", "ConfBridgeList", "Registry"} :
              /\ toServer' = toServer \o <<Action(name, NoChannel)>>
              /\ Connected \/ Tick \/ ReadLogin \/ ReadConference
         \/ \E r \in DOMAIN rows :
              \/ ClickSpeak(r) /\ toServer' = toServer \o SpeakActions(r)
              \/ /\ ClickKick(r)
                 /\ toServer' = toServer \o <<Action("ConfbridgeKick", rows[r].channel)>>
<1>1. Whole /\ scenario.goodLogin
  BY DEF Calm
<1>2. ~(Tick /\ inetTimeout > INET_TIMEOUT /\ pbxRq /\ pbxOk)
  BY CalmTick
<1>3. ~(ReadLogin /\ sock' = "closed")
  <2>1. SUFFICES ASSUME ReadLogin, sock' = "closed"
                 PROVE  FALSE
    OBVIOUS
  <2>2. sock = "connected"
    BY <2>1 DEF ReadLogin, Read
  <2>3. sock' = sock
    BY <1>1, <2>1, ReadLoginIsTrue DEF SessionInv
  <2>4. QED
    BY <2>1, <2>2, <2>3
<1>4. ~ConnectionLost
  BY DEF ConnectionLost, Disturb, Calm
<1>5. CASE Connected /\ toServer' = <<Action("Login", NoChannel)>>
  <2>1. toServer = << >>
    BY <1>5 DEF Connected, SessionInv, Session
  <2>2. <<Action("Login", NoChannel)>> \in Seq(Actions)
    BY ActionTyped DEF ActionNames
  <2> DEFINE new == <<Action("Login", NoChannel)>>
  <2> HIDE DEF new
  <2>3. << >> \o new = new
    BY <2>2 DEF new
  <2>4. toServer' = toServer \o new
    BY <1>5, <2>1, <2>3 DEF new
  <2>5. QED
    BY <1>5, <2>4 DEF new
<1>6. QED
  BY <1>2, <1>3, <1>4, <1>5, WireChanges

\* What the other steps write lets nobody speak.
LEMMA NobodyElseSpeaks ==
  ASSUME TypeInv, NEW name \in {"Login", "ConfBridgeList", "Registry", "ConfbridgeKick"},
         NEW d \in Channels \cup {Own, NoChannel, Cut}, NEW c, NEW P,
         WillSpeak(c, toServer \o <<Action(name, d)>>, P)
  PROVE  WillSpeak(c, toServer, P)
<1> DEFINE new == <<Action(name, d)>>
<1>1. new \in Seq(Actions) /\ toServer \in Seq(Actions)
  BY ActionTyped DEF ActionNames, TypeInv, WireTyped
<1>2. \A j \in DOMAIN new : new[j] # Unmute(c)
  BY DEF Unmute, Action
<1>3. WillSpeak(c, toServer \o new, P)
  OBVIOUS
<1> HIDE DEF new
<1>4. QED
  BY <1>1, <1>2, <1>3, SpeaksBefore

\* The manager does an action.
LEMMA ServedSpeaks ==
  ASSUME TypeInv, ServeStep, NEW c, WillSpeak(c, toServer', ToSet(conf'))
  PROVE  WillSpeak(c, toServer, ToSet(conf))
<1> DEFINE action == Head(toServer)
<1>1. /\ toServer \in Seq(Actions) /\ toServer # << >> /\ toServer' = Tail(toServer)
      /\ action \in Actions
  BY Served DEF TypeInv, WireTyped
<1>2. \/ /\ action.name \in {"Login", "ConfBridgeList", "Registry"}
         /\ conf' = conf
      \/ /\ action.name \in {"ConfbridgeMute", "ConfbridgeUnmute", "ConfbridgeKick"}
         /\ conf' = Moderated(action)
  BY Served
<1> HIDE DEF action
<1>3. SUFFICES ASSUME NEW q \in ToSet(conf'), q.channel = c
               PROVE  \E p \in ToSet(conf) :
                        /\ p.channel = c
                        /\ q.unmuted => /\ action # Mute(c)
                                        /\ p.unmuted \/ action = Unmute(c)
  <2>1. action = Head(toServer)
    BY DEF action
  <2>2. \A q \in ToSet(conf') : q.channel = c =>
          \E p \in ToSet(conf) : /\ p.channel = c
                                 /\ q.unmuted => /\ Head(toServer) # Mute(c)
                                                 /\ p.unmuted \/ Head(toServer) = Unmute(c)
    BY <1>3, <2>1
  <2>3. QED
    BY <1>1, <2>2, SpeaksServed
<1>4. action.name # "ConfbridgeMute" \/ action.channel # c => action # Mute(c)
  BY DEF Mute, Action
<1>5. CASE /\ action.name \in {"Login", "ConfBridgeList", "Registry"}
           /\ conf' = conf
  BY <1>3, <1>4, <1>5
<1>6. CASE action.name = "ConfbridgeKick" /\ conf' = Moderated(action)
  <2>1. q \in ToSet(conf)
    BY <1>3, <1>6, ModeratedSet
  <2>2. QED
    BY <1>3, <1>4, <1>6, <2>1
<1>7. CASE /\ action.name \in {"ConfbridgeMute", "ConfbridgeUnmute"}
           /\ conf' = Moderated(action)
  <2>1. q \in ToSet(Moderated(action)) /\ action.name # "ConfbridgeKick"
    BY <1>3, <1>7
  <2>2. PICK p \in ToSet(conf) :
          /\ p.channel = q.channel
          /\ q.unmuted = IF p.channel = action.channel
                         THEN action.name = "ConfbridgeUnmute"
                         ELSE p.unmuted
    BY <2>1, ModeratedSet
  <2>3. CASE action.channel = c
    <3>1. q.unmuted => action.name = "ConfbridgeUnmute"
      BY <1>3, <2>2, <2>3
    <3>2. action = [name |-> action.name, channel |-> action.channel]
      BY <1>1 DEF Actions
    <3>3. action.name = "ConfbridgeUnmute" => action = Unmute(c)
      BY <2>3, <3>2 DEF Unmute, Action
    <3>4. QED
      BY <1>3, <1>4, <2>2, <3>1, <3>3
  <2>4. CASE action.channel # c
    BY <1>3, <1>4, <2>2, <2>4
  <2>5. QED
    BY <2>3, <2>4
<1>8. QED
  BY <1>2, <1>5, <1>6, <1>7

\* A caller who joins is muted, and no action under way is about it.
LEMMA JoinedMuted ==
  ASSUME TypeInv, JoinersInv, ActionsJoined, Whole, NEW d \in Channels \cup {Own},
         Joins(d), ToSet(conf') = ToSet(conf) \cup {[channel |-> d, unmuted |-> d = Own]},
         NEW c \in Channels, WillSpeak(c, toServer', ToSet(conf'))
  PROVE  WillSpeak(c, toServer, ToSet(conf))
<1> DEFINE new == [channel |-> d, unmuted |-> d = Own]
<1>1. toServer' = toServer /\ d \notin joined
  BY DEF Joins, Environment
<1>2. new.channel = d /\ (new.unmuted <=> d = Own)
  OBVIOUS
<1>3. ToSet(conf') = ToSet(conf) \cup {new}
  OBVIOUS
<1> HIDE DEF new
<1>4. PICK p \in ToSet(conf') :
        /\ p.channel = c
        /\ \/ p.unmuted /\ \A j \in DOMAIN toServer : toServer[j] # Mute(c)
           \/ \E i \in DOMAIN toServer :
                /\ toServer[i] = Unmute(c)
                /\ \A j \in i + 1 .. Len(toServer) : toServer[j] # Mute(c)
  BY <1>1 DEF WillSpeak
<1>5. CASE p \in ToSet(conf)
  BY <1>4, <1>5 DEF WillSpeak
<1>6. CASE p = new
  <2>1. d = c /\ ~p.unmuted
    BY <1>2, <1>4, <1>6, PbxMonitorAssumption
  <2>2. PICK i \in DOMAIN toServer : toServer[i] = Unmute(c)
    BY <1>4, <2>1
  <2>3. toServer[i].channel = c
    BY <2>2 DEF Unmute, Action
  <2>4. c \in joined
    BY <2>2, <2>3, PbxMonitorAssumption DEF ActionsJoined
  <2>5. QED
    BY <1>1, <2>1, <2>4
<1>7. QED
  BY <1>3, <1>5, <1>6

\* A click that lets a caller speak takes it from the others.
LEMMA ClickedSpeaks ==
  ASSUME TypeInv, ~scenario.multi, NEW r \in DOMAIN rows, NEW c, NEW P,
         c \in ChannelsOf(rows) \/ ~WillSpeak(c, toServer, P),
         WillSpeak(c, toServer \o SpeakActions(r), P)
  PROVE  \/ rows[r].unmuted /\ WillSpeak(c, toServer, P)
         \/ ~rows[r].unmuted /\ c = rows[r].channel
<1> DEFINE new == SpeakActions(r)
<1>1. /\ new \in Seq(Actions)
      /\ \A j \in DOMAIN new :
           \/ \E d \in ChannelsOf(rows) : new[j] = Mute(d)
           \/ ~rows[r].unmuted /\ new[j] = Unmute(rows[r].channel)
      /\ ~rows[r].unmuted =>
           \A d \in ChannelsOf(rows) : \E j \in DOMAIN new : new[j] = Mute(d)
  BY SpeakActionsAre
<1>2. WillSpeak(c, toServer \o new, P)
  OBVIOUS
<1> HIDE DEF new
<1>3. \/ WillSpeak(c, toServer, P) /\ \A j \in DOMAIN new : new[j] # Mute(c)
      \/ \E j \in DOMAIN new : new[j] = Unmute(c)
  BY <1>1, <1>2, SpeaksBefore DEF TypeInv, WireTyped
<1>4. \A d : Mute(d) # Unmute(c)
  BY DEF Mute, Unmute, Action
<1>5. \A d : Unmute(d) = Unmute(c) => d = c
  BY DEF Unmute, Action
<1>6. CASE \E j \in DOMAIN new : new[j] = Unmute(c)
  BY <1>1, <1>4, <1>5, <1>6
<1>7. CASE WillSpeak(c, toServer, P) /\ \A j \in DOMAIN new : new[j] # Mute(c)
  BY <1>1, <1>7
<1>8. QED
  BY <1>3, <1>6, <1>7

\* Only a click lets a caller speak.
LEMMA NewSpeaker ==
  ASSUME PbxType = "asterisk", TypeInv, SessionInv, JoinersInv, ActionsJoined, NoRowsYet,
         Calm, [Next]_vars, NEW c \in Channels, WillSpeak(c, toServer', ToSet(conf'))
  PROVE  \/ WillSpeak(c, toServer, ToSet(conf))
         \/ \E r \in DOMAIN rows :
              /\ ClickSpeak(r) /\ toServer' = toServer \o SpeakActions(r)
<1>1. CASE toServer' = toServer
  <2>1. CASE ToSet(conf') \subseteq ToSet(conf)
    BY <1>1, <2>1, FewerSpeak
  <2>2. ASSUME NEW d \in Channels \cup {Own}, Joins(d),
               ToSet(conf') = ToSet(conf) \cup {[channel |-> d, unmuted |-> d = Own]}
        PROVE  WillSpeak(c, toServer, ToSet(conf))
    BY <2>2, JoinedMuted DEF Calm
  <2>3. CASE ServeStep
    BY <2>3, ServedSpeaks
  <2>4. QED
    BY <2>1, <2>2, <2>3, ConfChanges
<1>2. CASE ServeStep
  BY <1>2, ServedSpeaks
<1>3. ASSUME Connected \/ Tick \/ ReadLogin \/ ReadConference \/ ClickStep
      PROVE  conf' = conf
  <2>1. CASE Connected \/ Tick \/ ReadLogin \/ ReadConference
    BY <2>1 DEF Connected, Tick, ReadLogin, ReadConference, Read, pbx
  <2>2. CASE ClickStep
    BY <2>2, ClickLeaves DEF pbx
  <2>3. QED
    BY <1>3, <2>1, <2>2
<1>4. ASSUME NEW name \in {"Login", "ConfBridgeList", "Registry"},
             toServer' = toServer \o <<Action(name, NoChannel)>>,
             Connected \/ Tick \/ ReadLogin \/ ReadConference
      PROVE  WillSpeak(c, toServer, ToSet(conf))
  BY <1>3, <1>4, NobodyElseSpeaks
<1>5. ASSUME NEW r \in DOMAIN rows, ClickKick(r),
             toServer' = toServer \o <<Action("ConfbridgeKick", rows[r].channel)>>
      PROVE  WillSpeak(c, toServer, ToSet(conf))
  <2>1. conf' = conf
    BY <1>3, <1>5 DEF ClickStep
  <2>2. rows[r].channel \in Channels \cup {Own, NoChannel, Cut}
    <3>1. rows[r] \in Row(RowChannels)
      BY RowsTyped, ElementOfSeq
    <3>2. QED
      BY <3>1 DEF Row, RowChannels
  <2>3. QED
    BY <1>5, <2>1, <2>2, NobodyElseSpeaks
<1>6. QED
  BY <1>1, <1>2, <1>4, <1>5, CalmWire

\* Every step leaves at most one caller who will speak, and leaves it its row.
LEMMA SpeakersStep ==
  ASSUME PbxType = "asterisk", TypeInv, SessionInv, ListsInv, JoinersInv, ActionsJoined,
         NoRowsYet, Speakers, [Next]_vars
  PROVE  Speakers'
<1> DEFINE Before(c) == WillSpeak(c, toServer, ToSet(conf))
           After(c) == WillSpeak(c, toServer', ToSet(conf'))
           Alone == /\ \A c, d \in Channels : After(c) /\ After(d) => c = d
                    /\ \A c \in Channels : After(c) => c \in ChannelsOf(rows')
<1> SUFFICES ASSUME Calm', ~scenario'.multi
             PROVE  Alone
  BY DEF Speakers
<1>1. Calm /\ ~scenario.multi /\ Whole
  BY CalmStays DEF Calm
<1>2. /\ \A c, d \in Channels : Before(c) /\ Before(d) => c = d
      /\ \A c \in Channels : Before(c) => c \in ChannelsOf(rows)
  BY <1>1 DEF Speakers
<1>3. ASSUME NEW c \in Channels, Before(c)
      PROVE  c \in ChannelsOf(rows')
  <2>1. c \in ChannelsOf(rows)
    BY <1>2, <1>3
  <2>2. rows # << >>
    BY <2>1 DEF ChannelsOf
  <2>3. state # "LOGIN"
    BY <1>1, <2>2 DEF NoRowsYet
  <2>4. c \in ChannelsIn(conf)
    BY <1>3, SetOfParticipants DEF WillSpeak
  <2>5. QED
    BY <1>1, <2>1, <2>3, <2>4, NobodyDropped
<1>4. ASSUME NEW r \in DOMAIN rows, ClickSpeak(r), toServer' = toServer \o SpeakActions(r),
             NEW c \in Channels, After(c)
      PROVE  \/ rows[r].unmuted /\ Before(c)
             \/ ~rows[r].unmuted /\ c = rows[r].channel
  <2>1. conf' = conf
    BY <1>4 DEF ClickSpeak, pbx
  <2>2. QED
    BY <1>1, <1>2, <1>4, <2>1, ClickedSpeaks
<1>5. ASSUME NEW r \in DOMAIN rows, ClickSpeak(r)
      PROVE  ChannelsOf(rows') = ChannelsOf(rows) /\ rows[r].channel \in ChannelsOf(rows)
  <2>1. rows' = SpeakClicked(rows, r, scenario.multi)
    BY <1>5 DEF ClickSpeak
  <2>2. rows \in Seq(Row(RowChannels)) /\ scenario.multi \in BOOLEAN
    BY RowsTyped
  <2>3. rows' \in Seq(Row(RowChannels)) /\ SameCallers(rows', rows)
    BY <2>1, <2>2, ClickedRows
  <2>4. QED
    BY <2>2, <2>3, SameChannels DEF ChannelsOf
<1>6. \/ \A c \in Channels : After(c) => Before(c)
      \/ \E r \in DOMAIN rows : ClickSpeak(r) /\ toServer' = toServer \o SpeakActions(r)
  BY <1>1, NewSpeaker
<1> HIDE DEF Before, After
<1>7. CASE \A c \in Channels : After(c) => Before(c)
  BY <1>2, <1>3, <1>7
<1>8. CASE \E r \in DOMAIN rows : ClickSpeak(r) /\ toServer' = toServer \o SpeakActions(r)
  BY <1>2, <1>4, <1>5, <1>8
<1>9. QED
  BY <1>6, <1>7, <1>8

SpeakersInv == OneEach /\ ActionsJoined /\ NoRowsYet /\ Speakers

\* Nobody speaks at the start.
LEMMA SpeakersInit == Init => SpeakersInv
<1> SUFFICES ASSUME Init PROVE SpeakersInv
  OBVIOUS
<1>1. rows = << >> /\ toServer = << >> /\ conf = << >> /\ ~outage
  BY DEF Init
<1>2. ToSet(conf) = {} /\ DOMAIN toServer = {}
  BY <1>1, NoPlaces DEF ToSet
<1>3. QED
  BY <1>1, <1>2 DEF SpeakersInv, OneEach, ActionsJoined, NoRowsYet, Speakers, WillSpeak

\* When nothing is under way, who can speak is who will.
LEMMA OneSpeaks ==
  ASSUME TypeInv, OneEach, Speakers, Calm
  PROVE  SingleSpeaker
<1> SUFFICES ASSUME ~scenario.multi, toServer = << >>,
                    NEW p \in ToSet(conf), NEW q \in ToSet(conf),
                    p.unmuted, q.unmuted, Own \notin {p.channel, q.channel}
             PROVE  p = q
  BY DEF SingleSpeaker
<1>1. p \in Participant /\ q \in Participant
  BY SetOfParticipants
<1>2. p.channel \in Channels /\ q.channel \in Channels
  BY <1>1 DEF Participant
<1>3. DOMAIN toServer = {}
  BY NoPlaces
<1>4. /\ WillSpeak(p.channel, toServer, ToSet(conf))
      /\ WillSpeak(q.channel, toServer, ToSet(conf))
  BY <1>3 DEF WillSpeak
<1>5. p.channel = q.channel
  BY <1>2, <1>4 DEF Speakers
<1>6. QED
  BY <1>5 DEF OneEach

\* With one speaker at a time, no two callers can speak at once when the actions of
\* the last click are done, for any number of callers and clicks, where the session
\* holds: good credentials, prompt answers, no broken connection.  A connection that
\* breaks takes mutes with it: the run pbx_speaker_lost shows the two speakers that
\* the next login makes possible (mainwindow.cpp:1272-1298).
THEOREM OneSpeaksAtATime ==
  ASSUME PbxType = "asterisk",
         \A s \in Scenarios : /\ s.prompt /\ s.goodLogin
                              /\ "losses" \notin s.disturbances
  PROVE  Spec => []SingleSpeaker
<1>1. TypeInv /\ SessionInv /\ ListsInv /\ JoinersInv /\ SpeakersInv /\ [Next]_vars
        => SpeakersInv'
  BY OneEachStep, ActionsJoinedStep, NoRowsYetStep, SpeakersStep DEF SpeakersInv
<1>2. TypeInv /\ SpeakersInv => SingleSpeaker
  <2> SUFFICES ASSUME TypeInv, SpeakersInv, Whole PROVE SingleSpeaker
    BY DEF SingleSpeaker
  <2>1. Calm
    BY DEF Calm, TypeInv
  <2>2. QED
    BY <2>1, OneSpeaks DEF SpeakersInv
<1>3. QED
  BY <1>1, <1>2, SpeakersInit, Typed, SessionHolds, ListsHold, PTL DEF Spec

=============================================================================
