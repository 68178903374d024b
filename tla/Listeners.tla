------------------------------ MODULE Listeners ------------------------------
(***************************************************************************)
(* The table of listeners in MainWindow, as operators on a sequence of     *)
(* rows.  A row keeps, under Qt::UserRole + 0 .. 4, whether the caller may *)
(* speak, the channel, whether the caller was kicked, the number being     *)
(* dialled and the mark of the last list; its second column shows the      *)
(* number that was confirmed, 0 standing for no text.                      *)
(***************************************************************************)
EXTENDS Integers, Sequences, FiniteSets, SequencesExt

CONSTANT INT_HALF   \* an int holds -INT_HALF .. INT_HALF - 1

ASSUME ListenersAssumption == INT_HALF \in Nat \ {0}

\* The keys of a telephone; 0 .. 9 stand for themselves.
Star == 10
Hash == 11
Keys == 0 .. 11

Row(channels) ==
  [channel : channels, unmuted : BOOLEAN, kicked : BOOLEAN,
   number : -INT_HALF .. INT_HALF - 1, text : 0 .. 99, marked : BOOLEAN]

NewRow(channel, unmuted) ==
  [channel |-> channel, unmuted |-> unmuted, kicked |-> FALSE,
   number |-> 0, text |-> 0, marked |-> TRUE]

ChannelsOf(rows) == {rows[r].channel : r \in DOMAIN rows}

\* findCall: the first row of the channel, or 0
findCall(rows, channel) ==
  SelectInSeq(rows, LAMBDA row : row.channel = channel)

markAllChannels(rows, value) ==
  [r \in DOMAIN rows |-> [rows[r] EXCEPT !.marked = value]]

\* Mutant: the row that was found is not marked.
ListedUnmarked(rows, channel, unmuted) ==
  LET r == findCall(rows, channel) IN
  IF r = 0
  THEN Append(rows, NewRow(channel, unmuted))
  ELSE [rows EXCEPT ![r].unmuted = unmuted]

\* Mutant: the table is not searched.
ListedAgain(rows, channel, unmuted) == Append(rows, NewRow(channel, unmuted))

\* A participant of the list: its row is updated, or one is added at the end.
\* The number, its text and the kick stay.
Listed(rows, channel, unmuted) ==
  LET r == findCall(rows, channel) IN
  IF r = 0
  THEN Append(rows, NewRow(channel, unmuted))
  ELSE [rows EXCEPT ![r].unmuted = unmuted, ![r].marked = TRUE]

\* The rows removeUnusedChannels deletes.  Its loop goes on to the next index
\* although the rows behind a deleted one have moved up: the row after a
\* deleted one is not looked at.
Removed(rows) ==
  LET removed[r \in 0 .. Len(rows)] ==
        r > 0 /\ ~rows[r].marked /\ ~removed[r - 1]
  IN  {r \in DOMAIN rows : ~rows[r].marked /\ ~removed[r - 1]}

\* The others close up, in the order they had.
removeUnusedChannels(rows) ==
  LET kept == DOMAIN rows \ Removed(rows)
      place(r) == Cardinality({q \in kept : q <= r})
  IN  [i \in 1 .. Cardinality(kept) |-> rows[CHOOSE r \in kept : place(r) = i]]

\* A signed int wraps around, where the build lets it overflow.
Wrapped(n) == ((n + INT_HALF) % (2 * INT_HALF)) - INT_HALF

\* A caller pressed a key: `*' forgets the number, `#' shows it when it has
\* one or two digits (and keeps it, so that the next digit goes on from it).
\* What is not a digit, half a line, changes nothing.
Dialled(rows, channel, key) ==
  LET r == findCall(rows, channel)
      n == rows[r].number
  IN  CASE r # 0 /\ key = Hash /\ n \in 1 .. 99 -> [rows EXCEPT ![r].text = n]
        [] r # 0 /\ (key = Star \/ (key = Hash /\ n \notin 1 .. 99)) ->
             [rows EXCEPT ![r].number = 0, ![r].text = 0]
        [] r # 0 /\ key \in 0 .. 9 ->
             [rows EXCEPT ![r].number = Wrapped(n * 10 + key)]
        [] OTHER -> rows

\* A click on the second column of a caller who was not kicked.  Unless
\* several may speak, unmuting one mutes the other rows.
SpeakClicked(rows, r, multi) ==
  IF rows[r].unmuted
  THEN [rows EXCEPT ![r].unmuted = FALSE, ![r].text = 0]
  ELSE [q \in DOMAIN rows |->
          [rows[q] EXCEPT !.unmuted = (q = r \/ (multi /\ rows[q].unmuted))]]

\* A click on the third column.
KickClicked(rows, r) ==
  [rows EXCEPT ![r].unmuted = FALSE, ![r].kicked = TRUE, ![r].text = 0]

=============================================================================
