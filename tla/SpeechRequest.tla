----------------------------- MODULE SpeechRequest -----------------------------
(***************************************************************************)
(* One request for speech, from the daemon's configuration to the audio it  *)
(* answers with (relaytts_daemon.py): RemoteEngine.__init__ takes or        *)
(* refuses its settings, Config.reload_custom merges config.yaml's voices   *)
(* with the rows of voices.json, Config.resolve picks the voice,            *)
(* RelayTTSDaemon.synthesize settles speed and gain, RemoteEngine           *)
(* .synthesize sends the request, time_stretch and the gain finish the      *)
(* audio.                                                                   *)
(*                                                                          *)
(* Speed and gain are integers in eighths; One is 1.0.  What time_stretch   *)
(* computes with is in sixteenths, so that halving it is exact.             *)
(***************************************************************************)
EXTENDS EngineSetup, Integers, Sequences, FiniteSetsExt

CONSTANTS Absent, Junk, NaN,  \* no value, a value that is no number, no finite one
          Builtin,  \* config.yaml's voices, in order
          Aliases,  \* voice_aliases
          Default,  \* default_voice
          Files,    \* contents of voices.json
          Names,    \* voices a caller may ask for
          Numbers,  \* numbers a caller may ask for
          Setups    \* the settings considered

One == 8
Voices == [id : Names, kind : {"preset", "custom", "clone"},
           speaker : Names \cup {Absent}, ref : {"none", "inside", "outside"},
           speed : Int \cup {NaN}, gain : Int \cup {NaN}]

\* What a row of voices.json may say.
Values == Int \cup {Absent, Junk, NaN}
CustomRows == [id : Names \cup {Absent}, speaker : Names \cup {Absent},
               speed : Values, gain : Values]
CloneRows == [id : Names \cup {Absent}, ref : {"missing", "inside", "outside"},
              speed : Values, gain : Values]

ASSUME SpeechAssumption ==
    /\ Builtin \in Seq([id : Names, kind : {"preset"}, speaker : Names,
                        ref : {"none"}, speed : Int \cup {NaN}, gain : Int \cup {NaN}])
    /\ \A n \in DOMAIN Aliases : Aliases[n] \in Names
    /\ Default \in {Builtin[k].id : k \in DOMAIN Builtin}
    /\ Files \subseteq [voices : Seq(CustomRows), clones : Seq(CloneRows)]
    /\ Numbers \subseteq Int
    /\ Setups \subseteq Settings
    /\ Absent \notin Names \cup Int /\ Junk \notin Int /\ NaN \notin Int
    /\ Absent # NaN /\ Absent # Junk /\ Junk # NaN

VARIABLES
    pc,
    setup,   \* the engine's settings
    file,    \* voices.json: its voices and its clones
    merged,  \* reload_custom's `merged`
    order,   \* reload_custom's `order`
    next,    \* the row the merge loop looks at
    asked,   \* the voice the caller named
    spec,    \* the voice resolve() settled on
    wish,    \* the caller's speed and gain
    speed, gain,
    sent,    \* the request sent and the peer that got it
    rest,    \* time_stretch's `remaining`, in sixteenths
    twos, halves,  \* the factors 2.0 and 0.5 in its `factors`
    audio    \* tempo and loudness of the answer

voiceVars   == <<merged, order, next>>
requestVars == <<asked, spec, wish, speed, gain, sent>>
audioVars   == <<rest, twos, halves, audio>>
vars == <<pc, setup, file, voiceVars, requestVars, audioVars>>

None == [kind |-> "none"]

Init ==
    /\ pc = "setup"
    /\ setup \in Setups
    /\ file \in Files
    /\ merged = <<>> /\ order = <<>> /\ next = 1
    /\ asked = Absent /\ spec = None
    /\ wish = [speed |-> Absent, gain |-> Absent]
    /\ speed = One /\ gain = One
    /\ sent = None
    /\ rest = 2 * One /\ twos = 0 /\ halves = 0
    /\ audio = [tempo |-> One, loud |-> One]

-------------------------------------------------------------------------------
(* Configuration *)

Setup ==
    /\ pc = "setup"
    /\ pc' = IF Accepted(setup) THEN "merge" ELSE "refused"
    /\ UNCHANGED <<setup, file, voiceVars, requestVars, audioVars>>

\* _safe_float with the default 1.0; it lets NaN pass.
SafeFloat(x) == IF x \in Int \cup {NaN} THEN x ELSE One

Speakers == {Builtin[k].speaker : k \in DOMAIN Builtin}

\* _normalize_custom: a voice, or None for a row that is skipped.
UsableCustom(e) == e.id # Absent /\ e.speaker \in Speakers
Custom(e) == IF ~UsableCustom(e) THEN None ELSE
             [id |-> e.id, kind |-> "custom", speaker |-> e.speaker, ref |-> "none",
              speed |-> SafeFloat(e.speed), gain |-> SafeFloat(e.gain)]

\* Mutant: the recording may lie anywhere.
UsableCloneAnywhere(e) == e.id # Absent /\ e.ref # "missing"

\* _normalize_clone and clone_audio_path: where does ref_audio resolve to?
UsableClone(e) == e.id # Absent /\ e.ref = "inside"
Clone(e) == IF ~UsableClone(e) THEN None ELSE
            [id |-> e.id, kind |-> "clone", speaker |-> Absent, ref |-> e.ref,
             speed |-> SafeFloat(e.speed), gain |-> SafeFloat(e.gain)]

\* What reload_custom merges, in the order it does.
Rows == Builtin \o [k \in DOMAIN file.voices |-> Custom(file.voices[k])]
                \o [k \in DOMAIN file.clones |-> Clone(file.clones[k])]

\* Mutant: every row is appended to the order, also one that replaces another.
MergeRepeats ==
    /\ pc = "merge" /\ next <= Len(Rows)
    /\ LET v == Rows[next]
       IN  IF v = None THEN UNCHANGED <<merged, order>>
           ELSE /\ order' = Append(order, v.id)
                /\ merged' = [n \in DOMAIN merged \cup {v.id} |->
                                IF n = v.id THEN v ELSE merged[n]]
    /\ next' = next + 1
    /\ UNCHANGED <<pc, setup, file, requestVars, audioVars>>

\* One turn of reload_custom's loop.
Merge ==
    /\ pc = "merge" /\ next <= Len(Rows)
    /\ LET v == Rows[next]
       IN  IF v = None THEN UNCHANGED <<merged, order>>
           ELSE /\ order' = IF v.id \in DOMAIN merged THEN order ELSE Append(order, v.id)
                /\ merged' = [n \in DOMAIN merged \cup {v.id} |->
                                IF n = v.id THEN v ELSE merged[n]]
    /\ next' = next + 1
    /\ UNCHANGED <<pc, setup, file, requestVars, audioVars>>

Merged ==
    /\ pc = "merge" /\ next > Len(Rows)
    /\ pc' = "serve"
    /\ UNCHANGED <<setup, file, voiceVars, requestVars, audioVars>>

-------------------------------------------------------------------------------
(* Config.resolve, which RelayTTSDaemon.synthesize calls *)

\* A text that is no string or too long raises before that, and a voice that
\* is no name but a list or an object, which cannot be hashed, in its first line.
RefuseRequest ==
    /\ pc = "serve"
    /\ pc' = "failed"
    /\ UNCHANGED <<setup, file, voiceVars, requestVars, audioVars>>

\* by_speaker: the last preset of that speaker that no dynamic row replaced.
Presets(n) == {k \in DOMAIN order : /\ merged[order[k]].kind = "preset"
                                    /\ merged[order[k]].speaker = n}

Aliased(n) == LET m == IF n = Absent THEN Default ELSE n
              IN  IF m \in DOMAIN Aliases THEN Aliases[m] ELSE m

\* Mutant: a speaker's name finds its voice before an id does.
SpeakerFirst(n) == CASE Presets(n) # {}     -> merged[order[Max(Presets(n))]]
                     [] Presets(n) = {} /\ n \in DOMAIN merged -> merged[n]
                     [] OTHER               -> merged[Default]

Resolved(n) == CASE n \in DOMAIN merged -> merged[n]
                 [] n \notin DOMAIN merged /\ Presets(n) # {} ->
                        merged[order[Max(Presets(n))]]
                 [] OTHER               -> merged[Default]

Resolve(n) ==
    /\ pc = "serve"
    /\ asked' = n
    /\ spec' = Resolved(Aliased(n))
    /\ pc' = "settle"
    /\ UNCHANGED <<setup, file, voiceVars, wish, speed, gain, sent, audioVars>>

-------------------------------------------------------------------------------
(* Speed and gain *)

\* Mutant: what voices.json says is taken as it is.
SettleUnclamped(x, own, lo, hi) ==
    IF x = Absent THEN own ELSE Max({lo, Min({hi, x})})

\* The caller's value before the voice's own, then clamp_factor.
Settle(x, own, lo, hi) ==
    LET y == IF x = Absent THEN own ELSE x
    IN  Max({lo, Min({hi, y})})

Clampable(x, own) == (IF x = Absent THEN own ELSE x) \in Int

Ask(s, g) ==
    /\ pc = "settle"
    /\ wish' = [speed |-> s, gain |-> g]
    /\ IF Clampable(s, spec.speed) /\ Clampable(g, spec.gain)
       THEN /\ speed' = Settle(s, spec.speed, 2, 32)
            /\ gain' = Settle(g, spec.gain, 0, 32)
            /\ pc' = "send"
       ELSE pc' = "failed" /\ UNCHANGED <<speed, gain>>
    /\ UNCHANGED <<setup, file, voiceVars, asked, spec, sent, audioVars>>

-------------------------------------------------------------------------------
(* RemoteEngine.synthesize *)

\* The clone's recording is gone or no audio, or the engine says no.
FailToSend ==
    /\ pc = "send"
    /\ pc' = "failed"
    /\ UNCHANGED <<setup, file, voiceVars, requestVars, audioVars>>

\* The answer may be no audio, or of a rate that needs ffmpeg where there is none.
Send(p) ==
    /\ pc = "send" /\ Handshake(setup, p)
    /\ sent' = [kind |-> spec.kind, key |-> SendsKey(setup),
                trace |-> SendsTrace(setup), peer |-> p]
    /\ rest' = 2 * speed
    /\ pc' \in {"failed", IF speed = One THEN "gain" ELSE "stretch"}
    /\ UNCHANGED <<setup, file, voiceVars, asked, spec, wish, speed, gain,
                   twos, halves, audio>>

-------------------------------------------------------------------------------
(* time_stretch *)

\* There is no ffmpeg, or the audio is empty: it stays as it is.
NoStretch ==
    /\ pc = "stretch" /\ twos = 0 /\ halves = 0
    /\ pc' = "gain"
    /\ UNCHANGED <<setup, file, voiceVars, requestVars, audioVars>>

Halve ==
    /\ pc = "stretch" /\ rest > 4 * One
    /\ rest' = rest \div 2
    /\ twos' = twos + 1
    /\ UNCHANGED <<pc, setup, file, voiceVars, requestVars, halves, audio>>

\* Mutant: `remaining` is not brought up.
DoubleOnlyCounts ==
    /\ pc = "stretch" /\ rest < One
    /\ halves' = halves + 1
    /\ UNCHANGED <<pc, setup, file, voiceVars, requestVars, rest, twos, audio>>

Double ==
    /\ pc = "stretch" /\ rest < One
    /\ rest' = 2 * rest
    /\ halves' = halves + 1
    /\ UNCHANGED <<pc, setup, file, voiceVars, requestVars, twos, audio>>

\* ffmpeg runs the chain of atempo filters, which multiply; it may fail.
Stretch ==
    /\ pc = "stretch" /\ One <= rest /\ rest <= 4 * One
    /\ \/ /\ audio' = [audio EXCEPT !.tempo = (rest * 2^twos) \div (2 * 2^halves)]
          /\ pc' = "gain"
       \/ pc' = "failed" /\ UNCHANGED audio
    /\ UNCHANGED <<setup, file, voiceVars, requestVars, rest, twos, halves>>

-------------------------------------------------------------------------------
\* The gain: 0 is taken for "nothing to do", as 1.0 is.
Amplify ==
    /\ pc = "gain"
    /\ audio' = [audio EXCEPT !.loud = IF gain = 0 THEN One ELSE gain]
    /\ pc' = "done"
    /\ UNCHANGED <<setup, file, voiceVars, requestVars, rest, twos, halves>>

Done == pc \in {"refused", "failed", "done"} /\ UNCHANGED vars

Next == \/ Setup \/ Merge \/ Merged
        \/ RefuseRequest
        \/ \E n \in Names \cup {Absent} : Resolve(n)
        \/ \E s, g \in Numbers \cup {Absent, Junk, NaN} : Ask(s, g)
        \/ FailToSend
        \/ \E p \in Peers : Send(p)
        \/ NoStretch \/ Halve \/ Double \/ Stretch \/ Amplify \/ Done

Spec == Init /\ [][Next]_vars

-------------------------------------------------------------------------------
TypeOK ==
    /\ pc \in {"setup", "refused", "merge", "serve", "settle", "send", "stretch",
               "gain", "done", "failed"}
    /\ setup \in Settings
    /\ file \in Files
    /\ DOMAIN merged \subseteq Names /\ \A n \in DOMAIN merged : merged[n] \in Voices
    /\ order \in Seq(Names)
    /\ next \in 1..(Len(Rows) + 1)
    /\ asked \in Names \cup {Absent}
    /\ spec \in Voices \cup {None}
    /\ speed \in 2..32 /\ gain \in 0..32
    /\ rest \in 4..64 /\ twos \in 0..1 /\ halves \in 0..1
    /\ audio \in [tempo : 1..32, loud : 1..32]

\* The rows that carry this id, and those of them merged so far.
Carriers(n) == {k \in DOMAIN Rows : Rows[k] # None /\ Rows[k].id = n}
Seen(n) == {k \in Carriers(n) : k < next}

(* Of the rows merged so far, the last of an id is the voice of that id, each *)
(* id is listed once, and none is lost: what list_voices and the status       *)
(* report show is what resolve() finds.                                       *)
MergeIsFaithful ==
    /\ DOMAIN merged = {n \in Names : Seen(n) # {}}
    /\ \A n \in DOMAIN merged : merged[n] = Rows[Max(Seen(n))]
    /\ {order[i] : i \in DOMAIN order} = DOMAIN merged
    /\ Len(order) = Cardinality(DOMAIN merged)

(* The voice a request gets follows from config.yaml and voices.json alone:   *)
(* the last row of the (aliased) name; else a preset of the speaker of that   *)
(* name that no row hides; else the default.  A row that takes a preset's id  *)
(* hides it from its speaker's name too, and nothing else.                    *)
VoiceIsFaithful ==
    spec # None =>
        LET n == Aliased(asked)
            presets == {k \in DOMAIN Builtin : /\ Builtin[k].speaker = n
                                               /\ Max(Carriers(Builtin[k].id)) = k}
        IN  CASE Carriers(n) # {} -> spec = Rows[Max(Carriers(n))]
              [] Carriers(n) = {} /\ presets # {} -> \E k \in presets : spec = Rows[k]
              [] OTHER -> spec = Rows[Max(Carriers(Default))]

Distance(x, y) == IF x < y THEN y - x ELSE x - y

\* What the caller asked for, or else what the voice sets.
WantedSpeed == IF wish.speed = Absent THEN spec.speed ELSE wish.speed
WantedGain == IF wish.gain = Absent THEN spec.gain ELSE wish.gain

\* y is the number of lo..hi nearest to x.
Nearest(x, y, lo, hi) ==
    y \in lo..hi /\ \A z \in lo..hi : Distance(x, y) <= Distance(x, z)

(* The answer has the allowed speed nearest to the one wanted, except that    *)
(* without ffmpeg the tempo stays, and for a gain above 0 the allowed gain    *)
(* nearest to the one wanted.  Of a gain of 0 or less this says nothing: the  *)
(* code does not honour it (GainIsHonoured).                                  *)
DeliversWhatWasAsked ==
    pc = "done" =>
        /\ \/ Nearest(WantedSpeed, audio.tempo, 2, 32)
           \/ audio.tempo = One /\ twos = 0 /\ halves = 0
        /\ WantedGain > 0 => Nearest(WantedGain, audio.loud, 0, 32)

(* "Loudness multiplier (1.0 unchanged, 1.4 louder, 0.6 softer)", which       *)
(* relay_bridge.py says of gain: the answer has the allowed gain nearest to   *)
(* the one wanted, whatever that is.                                          *)
GainIsHonoured == pc = "done" => Nearest(WantedGain, audio.loud, 0, 32)

(* What is uploaded for a clone is a file of clone_audio_dir, and the timbre  *)
(* of any other request is one of config.yaml's speakers, whatever            *)
(* voices.json says.                                                          *)
OnlyOwnRecordings ==
    sent # None =>
        IF sent.kind = "clone" THEN spec.ref = "inside" ELSE spec.speaker \in Speakers

(* The text of a request reaches relay or a server on this machine, when no   *)
(* trust anchor and no pin was given; or a server whose certificate names the *)
(* host, chains to the one trust anchor in force, and is pinned if any pin    *)
(* was given.  Relay sees no API key, and an engine off the box no trace id.  *)
PeerIsVerified ==
    sent # None =>
        /\ \/ setup.url \in {"unix", "http"} /\ setup.ca = "none" /\ setup.pins = "none"
           \/ /\ sent.peer.host
              /\ "bundle" \in sent.peer.anchors \/ setup.ca = "none"
              /\ "system" \in sent.peer.anchors \/ setup.ca = "bundle"
              /\ sent.peer.pinned \/ setup.pins = "none"
        /\ sent.key => setup.url # "unix"
        /\ sent.trace => setup.url \in {"unix", "http", "httpslocal"}
===============================================================================
