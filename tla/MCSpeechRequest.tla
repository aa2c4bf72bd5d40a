--------------------------- MODULE MCSpeechRequest ----------------------------
(* Two presets, files of at most one row of each kind and one that repeats.   *)
EXTENDS SpeechRequest

MCNames == {"anna", "ryan", "ono", "aiden", "mine", "heart"}

Preset(i, s) == [id |-> i, kind |-> "preset", speaker |-> s, ref |-> "none",
                 speed |-> One, gain |-> One]
MCBuiltin == <<Preset("anna", "ono"), Preset("ryan", "aiden")>>

MCAliases == [n \in {"heart"} |-> "anna"]

CustomRow(i, s, v, g) == [id |-> i, speaker |-> s, speed |-> v, gain |-> g]
CloneRow(i, r, v, g) == [id |-> i, ref |-> r, speed |-> v, gain |-> g]

\* A new voice and one in a preset's place, each with odd numbers; rows that
\* are refused; a clone in a custom voice's place.
MCFiles ==
    [voices : {<<>>,
               <<CustomRow("mine", "aiden", 12, 4)>>,
               <<CustomRow("anna", "aiden", 40, Junk)>>,
               <<CustomRow("ryan", "heart", One, One), CustomRow(Absent, "ono", 1, 1)>>,
               <<CustomRow("mine", "ono", NaN, One), CustomRow("mine", "ono", 27, 48)>>},
     clones : {<<>>,
               <<CloneRow("mine", "inside", One, -8), CloneRow("ryan", "missing", 4, 4)>>,
               <<CloneRow("ryan", "outside", 4, 4), CloneRow("aiden", "inside", 1, NaN)>>}]

\* All but a key with a trust anchor or without a model, and https to this
\* machine with an anchor or pins.
MCSetups ==
    {s \in Settings : /\ s.key => s.model /\ s.ca = "none"
                      /\ s.url = "httpslocal" => s.ca = "none" /\ s.pins = "none"}
===============================================================================
