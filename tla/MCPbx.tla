-------------------------------- MODULE MCPbx --------------------------------
(* PbxMonitor on small instances. *)
EXTENDS PbxMonitor

\* The callers are interchangeable.
Symmetry == Permutations(Channels)

\* One scenario: the credentials are good, one caller may speak at a time.
Usual(disturbances, prompt, maxEvents, maxWire) ==
  [goodLogin |-> TRUE, multi |-> FALSE, prompt |-> prompt,
   disturbances |-> disturbances, maxEvents |-> maxEvents, maxWire |-> maxWire]

\* Answers come late, and everything else comes between them.
Late(times, maxWire) ==
  Usual({"clicks", "events", "losses"}, FALSE, times, maxWire)
Races == {Late(2, 3), Late(3, 1), [Late(2, 3) EXCEPT !.goodLogin = FALSE]}

\* Callers press keys between and during the polls.
Dialling == {Usual({"keys"}, FALSE, 3, 1), Usual({"keys"}, TRUE, 4, 1)}

\* The session holds; several may speak, or one.
Talk == Usual({"clicks"}, TRUE, 4, 5)
Talking == {Talk, [Talk EXCEPT !.multi = TRUE]}

\* The program's own call comes and goes, and its sliders are moved.
Cast(times) == {Usual({"clicks", "casting"}, TRUE, times, times)}
Casting == Cast(5)

\* Lines are torn while callers press keys and are clicked.
Torn == Usual({"torn", "clicks", "keys"}, FALSE, 2, 2)

Disturbed == Races \cup Dialling \cup Talking \cup Cast(4) \cup {Torn}

\* Every answer comes before the next poll; the trunk and the PBX change, or
\* callers press keys and are clicked, with whole lines or torn ones.
Watching == {Usual({"losses", "trunk"}, TRUE, 3, 8),
             Usual({"clicks", "events", "keys"}, TRUE, 2, 8),
             Usual({"torn", "clicks"}, TRUE, 3, 8),
             Usual({"torn", "keys", "losses"}, TRUE, 3, 8)}

Leaving == {Usual({}, TRUE, 6, 5)}
TalkingLost == {Usual({"clicks", "losses"}, TRUE, 5, 5)}
Quiet == {Usual({}, TRUE, 0, 5)}

=============================================================================
