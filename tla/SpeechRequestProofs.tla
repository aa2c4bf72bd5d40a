-------------------------- MODULE SpeechRequestProofs --------------------------
(***************************************************************************)
(* One request for speech, for any voices, rows and settings: the merge of  *)
(* the palette loses and repeats nothing, the voice is the one the files    *)
(* and the name determine, the audio has the tempo and loudness asked for,  *)
(* and the text reaches only a peer the settings allow.                     *)
(***************************************************************************)
EXTENDS SpeechRequest, FiniteSetTheorems, TLAPS

-------------------------------------------------------------------------------
(* Largest and smallest numbers *)

LEMMA MaxIs ==
    ASSUME NEW S \in SUBSET Int, NEW m \in S, \A x \in S : x <= m
    PROVE  Max(S) = m
  <1>1. \A x \in S : (\A y \in S : x >= y) <=> x = m
    OBVIOUS
  <1> QED
    BY <1>1 DEF Max

LEMMA MinIs ==
    ASSUME NEW S \in SUBSET Int, NEW m \in S, \A x \in S : m <= x
    PROVE  Min(S) = m
  <1>1. \A x \in S : (\A y \in S : x =< y) <=> x = m
    OBVIOUS
  <1> QED
    BY <1>1 DEF Min

LEMMA LeastNatural ==
    ASSUME NEW S \in SUBSET Nat, S # {}
    PROVE  \E x \in S : \A y \in S : x <= y
  <1>1. PICK x \in S : \A y \in S : ~(<<y, x>> \in OpToRel(<, Nat))
    BY NatLessThanWellFounded, WFMin, Zenon
  <1>2. \A y \in S : <<y, x>> \in OpToRel(<, Nat) <=> y < x
    BY DEF OpToRel
  <1>3. \A y \in S : ~(y < x)
    BY <1>1, <1>2, Zenon
  <1>4. \A y \in S : x <= y
    BY <1>3
  <1> QED
    BY <1>4

\* A set of positions has a last one: the least distance from its bound is it.
LEMMA LastPosition ==
    ASSUME NEW b \in Nat, NEW S \in SUBSET (1..b), S # {}
    PROVE  Max(S) \in S
  <1> DEFINE away == {b - x : x \in S}
  <1>1. \A x \in S : b - x \in Nat
    OBVIOUS
  <1>2. away \in SUBSET Nat /\ away # {}
    <2>1. away \subseteq Nat
      BY <1>1
    <2>2. away # {}
      OBVIOUS
    <2> QED
      BY <2>1, <2>2
  <1>3. PICK d \in away : \A e \in away : d <= e
    BY <1>2, LeastNatural, Zenon
  <1>4. PICK m \in S : d = b - m
    OBVIOUS
  <1>5. ASSUME NEW x \in S PROVE x <= m
    <2>1. d <= b - x
      BY <1>3
    <2> QED
      BY <1>4, <2>1
  <1>6. Max(S) = m
    BY <1>5, MaxIs
  <1> QED
    BY <1>6

\* clamp_factor.
LEMMA Clamped ==
    ASSUME NEW lo \in Int, NEW hi \in Int, lo <= hi, NEW y \in Int
    PROVE  Max({lo, Min({hi, y})}) = IF y < lo THEN lo ELSE IF y > hi THEN hi ELSE y
  <1>1. Min({hi, y}) = IF y > hi THEN hi ELSE y
    <2>1. CASE y > hi
      BY <2>1, MinIs
    <2>2. CASE ~(y > hi)
      BY <2>2, MinIs
    <2> QED
      BY <2>1, <2>2
  <1> DEFINE z == Min({hi, y})
  <1>2. z \in Int /\ (y < lo => z < lo) /\ (~(y < lo) => z >= lo)
    BY <1>1
  <1>3. Max({lo, z}) = IF z < lo THEN lo ELSE z
    <2> HIDE DEF z
    <2>1. CASE z < lo
      BY <1>2, <2>1, MaxIs
    <2>2. CASE ~(z < lo)
      BY <1>2, <2>2, MaxIs
    <2> QED
      BY <2>1, <2>2
  <1> QED
    BY <1>1, <1>2, <1>3

-------------------------------------------------------------------------------
(* The rows *)

LEMMA NoneIsNoVoice == None \notin Voices
  BY DEF None, Voices

LEMMA BuiltinTypes ==
    /\ Builtin \in Seq(Voices)
    /\ \A k \in DOMAIN Builtin : Builtin[k] \in Voices /\ Builtin[k].kind = "preset"
    /\ Default \in Names /\ Speakers \subseteq Names
  <1> DEFINE Preset == [id : Names, kind : {"preset"}, speaker : Names,
                        ref : {"none"}, speed : Int \cup {NaN}, gain : Int \cup {NaN}]
  <1>1. Builtin \in Seq(Preset)
    BY SpeechAssumption
  <1>2. ASSUME NEW v \in Preset
        PROVE  v \in Voices /\ v.kind = "preset" /\ v.id \in Names /\ v.speaker \in Names
    BY DEF Voices
  <1> HIDE DEF Preset
  <1>3. /\ Builtin \in Seq(Voices)
        /\ \A k \in DOMAIN Builtin : Builtin[k] \in Preset
    BY <1>1, <1>2
  <1>4. Default \in Names
    BY <1>2, <1>3, SpeechAssumption
  <1> QED
    BY <1>2, <1>3, <1>4 DEF Speakers

LEMMA SafeFloatType == \A x : SafeFloat(x) \in Int \cup {NaN}
  BY DEF SafeFloat, One

\* A voice that voices.json may define, or none.
Dynamic(v) == \/ v = None
              \/ /\ v \in Voices /\ v.kind \in {"custom", "clone"}
                 /\ v.kind = "clone" => v.ref = "inside"
                 /\ v.kind = "custom" => v.speaker \in Speakers

LEMMA CustomType == ASSUME NEW e \in CustomRows PROVE Dynamic(Custom(e))
  <1>1. CASE UsableCustom(e)
    <2>1. e.id \in Names /\ e.speaker \in Speakers /\ e.speaker \in Names
      BY <1>1, BuiltinTypes DEF UsableCustom, CustomRows
    <2>2. SafeFloat(e.speed) \in Int \cup {NaN} /\ SafeFloat(e.gain) \in Int \cup {NaN}
      BY SafeFloatType
    <2>3. Custom(e) = [id |-> e.id, kind |-> "custom", speaker |-> e.speaker,
                       ref |-> "none", speed |-> SafeFloat(e.speed),
                       gain |-> SafeFloat(e.gain)]
      BY <1>1 DEF Custom
    <2> QED
      BY <2>1, <2>2, <2>3 DEF Dynamic, Voices
  <1>2. CASE ~UsableCustom(e)
    BY <1>2 DEF Custom, Dynamic
  <1> QED
    BY <1>1, <1>2

LEMMA CloneType == ASSUME NEW e \in CloneRows PROVE Dynamic(Clone(e))
  <1>1. CASE UsableClone(e)
    <2>1. e.id \in Names /\ e.ref = "inside"
      BY <1>1 DEF UsableClone, CloneRows
    <2>2. SafeFloat(e.speed) \in Int \cup {NaN} /\ SafeFloat(e.gain) \in Int \cup {NaN}
      BY SafeFloatType
    <2>3. Clone(e) = [id |-> e.id, kind |-> "clone", speaker |-> Absent,
                      ref |-> e.ref, speed |-> SafeFloat(e.speed),
                      gain |-> SafeFloat(e.gain)]
      BY <1>1 DEF Clone
    <2> QED
      BY <2>1, <2>2, <2>3 DEF Dynamic, Voices
  <1>2. CASE ~UsableClone(e)
    BY <1>2 DEF Clone, Dynamic
  <1> QED
    BY <1>1, <1>2

\* The rows begin with config.yaml's voices, and go on with voices.json's.
LEMMA RowTypes ==
    ASSUME file \in Files
    PROVE  /\ Len(Rows) \in Nat /\ DOMAIN Rows = 1..Len(Rows)
           /\ DOMAIN Builtin \subseteq DOMAIN Rows
           /\ \A k \in DOMAIN Builtin : Rows[k] = Builtin[k]
           /\ \A k \in DOMAIN Rows \ DOMAIN Builtin : Dynamic(Rows[k])
  <1> DEFINE customs == [k \in DOMAIN file.voices |-> Custom(file.voices[k])]
             clones == [k \in DOMAIN file.clones |-> Clone(file.clones[k])]
             Row == {v \in Voices \cup {None} : Dynamic(v)}
  <1>1. file.voices \in Seq(CustomRows) /\ file.clones \in Seq(CloneRows)
    BY SpeechAssumption
  <1>2. customs \in Seq(Row)
    <2>1. \A k \in DOMAIN file.voices : Custom(file.voices[k]) \in Row
      BY <1>1, CustomType DEF Dynamic
    <2> HIDE DEF Row
    <2> QED
      BY <1>1, <2>1
  <1>3. clones \in Seq(Row)
    <2>1. \A k \in DOMAIN file.clones : Clone(file.clones[k]) \in Row
      BY <1>1, CloneType DEF Dynamic
    <2> HIDE DEF Row
    <2> QED
      BY <1>1, <2>1
  <1>4. Builtin \in Seq(Voices)
    BY BuiltinTypes
  <1>5. Rows = Builtin \o customs \o clones
    BY DEF Rows
  <1>6. ASSUME NEW k \in DOMAIN Rows \ DOMAIN Builtin PROVE Rows[k] \in Row
    <2> HIDE DEF Row, customs, clones
    <2> QED
      BY <1>2, <1>3, <1>4, <1>5
  <1>7. /\ Len(Rows) \in Nat /\ DOMAIN Rows = 1..Len(Rows)
        /\ DOMAIN Builtin \subseteq DOMAIN Rows
        /\ \A k \in DOMAIN Builtin : Rows[k] = Builtin[k]
    <2> HIDE DEF Row, customs, clones
    <2> QED
      BY <1>2, <1>3, <1>4, <1>5
  <1> QED
    BY <1>6, <1>7

-------------------------------------------------------------------------------
(* The merge *)

Listed == {order[i] : i \in DOMAIN order}

\* Row k is the last so far that carries the id n.
LastFor(n, k) == k \in Seen(n) /\ \A j \in Seen(n) : j <= k

MergeInv ==
    /\ file \in Files
    /\ next \in 1..(Len(Rows) + 1)
    /\ IsFiniteSet(DOMAIN merged)
    /\ order \in Seq(DOMAIN merged)
    /\ Listed = DOMAIN merged
    /\ Len(order) = Cardinality(DOMAIN merged)
    /\ \A n : Seen(n) # {} => n \in DOMAIN merged
    /\ \A n \in DOMAIN merged : \E k : LastFor(n, k) /\ merged[n] = Rows[k]

LEMMA MergeInit == Init => MergeInv
  <1> SUFFICES ASSUME Init PROVE MergeInv
    OBVIOUS
  <1>1. DOMAIN merged = {} /\ order = <<>> /\ next = 1 /\ file \in Files
    BY DEF Init
  <1>2. IsFiniteSet({}) /\ Cardinality({}) = 0
    BY FS_EmptySet
  <1>3. order \in Seq(DOMAIN merged) /\ Len(order) = 0 /\ Listed = {}
    BY <1>1 DEF Listed
  <1>4. Len(Rows) \in Nat /\ \A n : Seen(n) = {}
    BY <1>1, RowTypes DEF Seen, Carriers
  <1> QED
    BY <1>1, <1>2, <1>3, <1>4 DEF MergeInv

\* A row that is no voice is passed over.
LEMMA SkipStep ==
    ASSUME MergeInv, Merge, Rows[next] = None
    PROVE  MergeInv'
  <1>1. /\ next \in 1..Len(Rows) /\ next' = next + 1
        /\ UNCHANGED <<file, merged, order>>
    BY DEF Merge, MergeInv
  <1>2. Rows' = Rows /\ Listed' = Listed
    BY <1>1 DEF Rows, Listed
  <1>3. \A n : Seen(n)' = Seen(n)
    BY <1>1, <1>2 DEF Seen, Carriers
  <1>4. \A n, k : LastFor(n, k)' <=> LastFor(n, k)
    BY <1>3 DEF LastFor
  <1>5. next' \in 1..(Len(Rows) + 1)
    BY <1>1, RowTypes DEF MergeInv
  <1> QED
    BY <1>1, <1>2, <1>3, <1>4, <1>5 DEF MergeInv

LEMMA MergeStep ==
    ASSUME MergeInv, Merge, Rows[next] # None
    PROVE  MergeInv'
  <1> DEFINE v == Rows[next]
             old == DOMAIN merged
  <1>1. /\ next \in 1..Len(Rows) /\ next' = next + 1 /\ file' = file
        /\ merged' = [n \in old \cup {v.id} |-> IF n = v.id THEN v ELSE merged[n]]
        /\ order' = IF v.id \in old THEN order ELSE Append(order, v.id)
    BY DEF Merge, MergeInv
  <1>2. Rows' = Rows /\ Len(Rows) \in Nat /\ DOMAIN Rows = 1..Len(Rows)
    BY <1>1, RowTypes DEF Rows, MergeInv
  <1>3. /\ IsFiniteSet(old) /\ order \in Seq(old) /\ Listed = old
        /\ Len(order) = Cardinality(old)
    BY DEF MergeInv
  <1>4. DOMAIN merged' = old \cup {v.id}
    BY <1>1
  <1>5. /\ IsFiniteSet(old \cup {v.id})
        /\ Cardinality(old \cup {v.id}) =
              IF v.id \in old THEN Cardinality(old) ELSE Cardinality(old) + 1
    BY <1>3, FS_AddElement
  <1>6. /\ order' \in Seq(old \cup {v.id}) /\ Listed' = old \cup {v.id}
        /\ Len(order') = Cardinality(old \cup {v.id})
    <2>1. CASE v.id \in old
      <3>1. old \cup {v.id} = old
        BY <2>1
      <3> QED
        BY <1>1, <1>3, <1>5, <2>1, <3>1 DEF Listed
    <2>2. CASE v.id \notin old
      <3>1. order \in Seq(old \cup {v.id})
        BY <1>3
      <3>2. /\ order' \in Seq(old \cup {v.id}) /\ Len(order') = Len(order) + 1
            /\ order'[Len(order) + 1] = v.id
            /\ \A i \in 1..Len(order) : order'[i] = order[i]
            /\ DOMAIN order = 1..Len(order) /\ DOMAIN order' = 1..Len(order) + 1
            /\ Len(order) \in Nat
        BY <1>1, <2>2, <3>1
      <3>3. Listed' = Listed \cup {v.id}
        BY <3>2 DEF Listed
      <3> QED
        BY <1>3, <1>5, <2>2, <3>2, <3>3
    <2> QED
      BY <2>1, <2>2
  <1>7. \A n, k : k \in Seen(n)' <=> k \in Seen(n) \/ (k = next /\ n = v.id)
    <2> SUFFICES ASSUME NEW n, NEW k
                 PROVE  k \in Seen(n)' <=> k \in Seen(n) \/ (k = next /\ n = v.id)
      OBVIOUS
    <2>1. k \in Seen(n) <=> /\ k \in 1..Len(Rows) /\ Rows[k] # None
                            /\ Rows[k].id = n /\ k < next
      BY <1>2 DEF Seen, Carriers
    <2>2. k \in Seen(n)' <=> /\ k \in 1..Len(Rows) /\ Rows[k] # None
                             /\ Rows[k].id = n /\ k < next + 1
      BY <1>1, <1>2 DEF Seen, Carriers
    <2>3. k \in 1..Len(Rows) => (k < next + 1 <=> k < next \/ k = next)
      BY <1>1, <1>2
    <2> QED
      BY <1>1, <2>1, <2>2, <2>3
  <1>8. ASSUME NEW n \in DOMAIN merged'
        PROVE  \E k : LastFor(n, k)' /\ merged'[n] = Rows[k]
    <2>1. CASE n = v.id
      <3>1. \A j \in Seen(n) : j <= next
        BY <1>1, <1>2 DEF Seen, Carriers
      <3>2. ASSUME NEW k, k = next PROVE LastFor(n, k)'
        BY <1>1, <1>7, <2>1, <3>1, <3>2 DEF LastFor
      <3> QED
        BY <1>1, <2>1, <3>2
    <2>2. CASE n # v.id
      <3>1. n \in old
        BY <1>4, <2>2
      <3>2. PICK k : LastFor(n, k) /\ merged[n] = Rows[k]
        BY <3>1 DEF MergeInv
      <3>3. LastFor(n, k)'
        BY <1>7, <2>2, <3>2 DEF LastFor
      <3> QED
        BY <1>1, <2>2, <3>1, <3>2, <3>3
    <2> QED
      BY <2>1, <2>2
  <1>9. \A n : Seen(n)' # {} => n \in DOMAIN merged'
    <2> SUFFICES ASSUME NEW n, Seen(n)' # {} PROVE n \in DOMAIN merged'
      OBVIOUS
    <2>1. Seen(n) # {} \/ n = v.id
      BY <1>7
    <2> QED
      BY <1>4, <2>1 DEF MergeInv
  <1>10. next' \in 1..(Len(Rows) + 1)
    BY <1>1, <1>2
  <1>11. \A n \in DOMAIN merged' : \E k : LastFor(n, k)' /\ merged'[n] = Rows'[k]
    BY <1>2, <1>8
  <1>12. file' \in Files /\ next' \in 1..(Len(Rows') + 1)
    BY <1>1, <1>2, <1>10 DEF MergeInv
  <1>13. /\ IsFiniteSet(DOMAIN merged') /\ order' \in Seq(DOMAIN merged')
         /\ Listed' = DOMAIN merged' /\ Len(order') = Cardinality(DOMAIN merged')
    BY <1>4, <1>5, <1>6
  <1> QED
    BY <1>9, <1>11, <1>12, <1>13 DEF MergeInv

LEMMA MergeNext == MergeInv /\ [Next]_vars => MergeInv'
  <1> SUFFICES ASSUME MergeInv, [Next]_vars PROVE MergeInv'
    OBVIOUS
  <1>1. CASE Merge
    BY <1>1, SkipStep, MergeStep
  <1>2. CASE UNCHANGED <<file, voiceVars>>
    <2>1. UNCHANGED <<file, merged, order, next>>
      BY <1>2 DEF voiceVars
    <2>2. Rows' = Rows /\ Listed' = Listed
      BY <2>1 DEF Rows, Listed
    <2>3. \A n : Seen(n)' = Seen(n)
      BY <2>1, <2>2 DEF Seen, Carriers
    <2>4. \A n, k : LastFor(n, k)' <=> LastFor(n, k)
      BY <2>3 DEF LastFor
    <2> QED
      BY <2>1, <2>2, <2>3, <2>4 DEF MergeInv
  <1>3. Next => Merge \/ UNCHANGED <<file, voiceVars>>
    BY DEF Next, Setup, Merged, RefuseRequest, Resolve, Ask, FailToSend, Send,
           NoStretch, Halve, Double, Stretch, Amplify, Done, vars
  <1> QED
    BY <1>1, <1>2, <1>3 DEF vars

\* What the loop invariant says of one id.
LEMMA MergedVoice ==
    ASSUME MergeInv
    PROVE  /\ \A n : n \in DOMAIN merged <=> Seen(n) # {}
           /\ \A n \in DOMAIN merged :
                /\ n \in Names /\ Max(Seen(n)) \in Seen(n)
                /\ merged[n] = Rows[Max(Seen(n))] /\ merged[n] \in Voices
                /\ merged[n].id = n
  <1>1. /\ DOMAIN Rows = 1..Len(Rows) /\ Len(Rows) \in Nat
        /\ \A k \in DOMAIN Rows : Rows[k] # None => Rows[k] \in Voices
    BY RowTypes, BuiltinTypes DEF MergeInv, Dynamic
  <1>2. ASSUME NEW n \in DOMAIN merged
        PROVE  /\ n \in Names /\ Seen(n) # {} /\ Max(Seen(n)) \in Seen(n)
               /\ merged[n] = Rows[Max(Seen(n))] /\ merged[n] \in Voices
               /\ merged[n].id = n
    <2>1. PICK k : LastFor(n, k) /\ merged[n] = Rows[k]
      BY DEF MergeInv
    <2>2. k \in Seen(n) /\ Seen(n) \in SUBSET Int /\ \A j \in Seen(n) : j <= k
      BY <1>1, <2>1 DEF LastFor, Seen, Carriers
    <2>3. Max(Seen(n)) = k
      BY <2>2, MaxIs
    <2>4. Rows[k] \in Voices /\ Rows[k].id = n
      BY <1>1, <2>2 DEF Seen, Carriers
    <2> QED
      BY <2>1, <2>2, <2>3, <2>4 DEF Voices
  <1> QED
    BY <1>2 DEF MergeInv

(* The palette is what the files say: the last row of an id is its voice,     *)
(* each id is listed once, and none is lost, for any rows in any order.       *)
THEOREM NothingIsLost == Spec => []MergeIsFaithful
  <1>1. MergeInv => MergeIsFaithful
    BY MergedVoice DEF MergeInv, Listed, MergeIsFaithful
  <1> QED
    BY <1>1, MergeInit, MergeNext, PTL DEF Spec

-------------------------------------------------------------------------------
(* The voice *)

VoiceInv ==
    /\ pc \notin {"setup", "refused", "merge"} => next = Len(Rows) + 1
    /\ pc \in {"setup", "refused", "merge", "serve"} => spec = None
    /\ pc \in {"settle", "send", "stretch", "gain", "done"} => spec # None
    /\ asked \in Names \cup {Absent}
    /\ spec # None => spec \in {Rows[k] : k \in DOMAIN Rows}
    /\ VoiceIsFaithful
    /\ sent # None => spec # None /\ sent.kind = spec.kind

LEMMA AliasedName == ASSUME NEW n \in Names \cup {Absent} PROVE Aliased(n) \in Names
  BY BuiltinTypes, SpeechAssumption DEF Aliased

\* Once all rows are merged, the merge has seen every row of an id.
LEMMA AllSeen ==
    ASSUME MergeInv, next = Len(Rows) + 1
    PROVE  /\ \A n : Seen(n) = Carriers(n)
           /\ Default \in DOMAIN merged
           /\ \A k \in DOMAIN Builtin : Builtin[k].id \in DOMAIN merged
  <1>1. /\ DOMAIN Rows = 1..Len(Rows) /\ Len(Rows) \in Nat
        /\ DOMAIN Builtin \subseteq DOMAIN Rows
        /\ \A k \in DOMAIN Builtin : Rows[k] = Builtin[k]
    BY RowTypes DEF MergeInv
  <1>2. \A n : Seen(n) = Carriers(n)
    BY <1>1 DEF Seen, Carriers
  <1>3. \A k \in DOMAIN Builtin : k \in Carriers(Builtin[k].id)
    BY <1>1, BuiltinTypes, NoneIsNoVoice DEF Carriers
  <1>4. \A k \in DOMAIN Builtin : Builtin[k].id \in DOMAIN merged
    BY <1>2, <1>3 DEF MergeInv
  <1> QED
    BY <1>2, <1>4, SpeechAssumption

\* A speaker's name stands for a preset of config.yaml that no row hides, if
\* there is one.
LEMMA PresetOf ==
    ASSUME MergeInv, next = Len(Rows) + 1, NEW n,
           NEW shown, shown = {k \in DOMAIN Builtin : /\ Builtin[k].speaker = n
                                   /\ Max(Carriers(Builtin[k].id)) = k}
    PROVE  /\ Presets(n) = {} => shown = {}
           /\ Presets(n) # {} => \E k \in shown : merged[order[Max(Presets(n))]] = Rows[k]
  <1>1. /\ DOMAIN Rows = 1..Len(Rows) /\ Len(Rows) \in Nat
        /\ DOMAIN Builtin \subseteq DOMAIN Rows
        /\ \A k \in DOMAIN Builtin : Rows[k] = Builtin[k]
        /\ \A k \in DOMAIN Rows \ DOMAIN Builtin : Dynamic(Rows[k])
    BY RowTypes DEF MergeInv
  <1>2. ASSUME NEW i \in DOMAIN merged
        PROVE  /\ Max(Carriers(i)) \in Carriers(i) /\ merged[i] = Rows[Max(Carriers(i))]
               /\ merged[i].id = i /\ merged[i] \in Voices
    BY AllSeen, MergedVoice
  <1>3. order \in Seq(DOMAIN merged) /\ Listed = DOMAIN merged
    BY DEF MergeInv
  <1>4. ASSUME NEW k \in shown PROVE Presets(n) # {}
    <2>1. /\ k \in DOMAIN Builtin /\ Builtin[k].speaker = n
          /\ Max(Carriers(Builtin[k].id)) = k
      BY <1>4
    <2>2. Builtin[k].id \in DOMAIN merged
      BY <2>1, AllSeen
    <2>3. merged[Builtin[k].id] = Builtin[k]
      BY <1>1, <1>2, <2>1, <2>2
    <2>4. PICK p \in DOMAIN order : order[p] = Builtin[k].id
      BY <1>3, <2>2 DEF Listed
    <2> QED
      BY <2>1, <2>3, <2>4, BuiltinTypes DEF Presets
  <1>5. ASSUME Presets(n) # {}
        PROVE  \E k \in shown : merged[order[Max(Presets(n))]] = Rows[k]
    <2> DEFINE p == Max(Presets(n))
               i == order[p]
               k == Max(Carriers(i))
    <2>1. p \in Presets(n)
      <3>1. Len(order) \in Nat /\ Presets(n) \in SUBSET (1..Len(order))
        BY <1>3 DEF Presets
      <3> QED
        BY <1>5, <3>1, LastPosition
    <2>2. /\ p \in DOMAIN order /\ i \in DOMAIN merged
          /\ merged[i].kind = "preset" /\ merged[i].speaker = n
      BY <1>3, <2>1 DEF Presets
    <2>3. /\ k \in Carriers(i) /\ merged[i] = Rows[k] /\ merged[i].id = i
          /\ merged[i] \in Voices
      BY <1>2, <2>2
    <2> HIDE DEF p, k, i
    <2>4. k \in DOMAIN Builtin
      BY <1>1, <2>2, <2>3, NoneIsNoVoice DEF Carriers, Dynamic
    <2>5. Builtin[k].speaker = n /\ Builtin[k].id = i
      BY <1>1, <2>2, <2>3, <2>4
    <2>6. Max(Carriers(Builtin[k].id)) = k
      BY <2>5 DEF k
    <2>7. k \in shown /\ merged[i] = Rows[k]
      BY <2>3, <2>4, <2>5, <2>6
    <2> QED
      BY <2>7 DEF p, i
  <1> QED
    BY <1>4, <1>5

\* What resolve() finds.
LEMMA ResolvedVoice ==
    ASSUME MergeInv, next = Len(Rows) + 1, NEW n \in Names
    PROVE  /\ Carriers(n) # {} => Resolved(n) = Rows[Max(Carriers(n))]
           /\ \A shown :
                 /\ Carriers(n) = {}
                 /\ shown = {k \in DOMAIN Builtin : /\ Builtin[k].speaker = n
                                   /\ Max(Carriers(Builtin[k].id)) = k}
                 => IF shown # {} THEN \E k \in shown : Resolved(n) = Rows[k]
                                  ELSE Resolved(n) = Rows[Max(Carriers(Default))]
           /\ Resolved(n) # None
           /\ Resolved(n) \in {Rows[k] : k \in DOMAIN Rows}
  <1>1. /\ n \in DOMAIN merged <=> Carriers(n) # {}
        /\ \A i \in DOMAIN merged :
              /\ merged[i] = Rows[Max(Carriers(i))] /\ merged[i] \in Voices
              /\ Max(Carriers(i)) \in DOMAIN Rows
    BY AllSeen, MergedVoice DEF Carriers
  <1>2. Default \in DOMAIN merged
    BY AllSeen
  <1> DEFINE all == {k \in DOMAIN Builtin : /\ Builtin[k].speaker = n
                                   /\ Max(Carriers(Builtin[k].id)) = k}
  <1>3. /\ Presets(n) = {} => all = {}
        /\ Presets(n) # {} => \E k \in all : merged[order[Max(Presets(n))]] = Rows[k]
    BY PresetOf, Zenon
  <1>4. \A k \in all : k \in DOMAIN Rows /\ Rows[k] # None
    BY RowTypes, BuiltinTypes, NoneIsNoVoice DEF MergeInv
  <1> HIDE DEF all
  <1>5. CASE n \in DOMAIN merged
    <2>1. Resolved(n) = merged[n]
      BY <1>5 DEF Resolved
    <2> QED
      BY <1>1, <1>5, <2>1, NoneIsNoVoice
  <1>6. CASE n \notin DOMAIN merged /\ Presets(n) # {}
    <2>1. Resolved(n) = merged[order[Max(Presets(n))]]
      BY <1>6 DEF Resolved
    <2>2. PICK k \in all : Resolved(n) = Rows[k]
      BY <1>3, <1>6, <2>1
    <2> QED
      BY <1>1, <1>4, <1>6, <2>2 DEF all
  <1>7. CASE n \notin DOMAIN merged /\ Presets(n) = {}
    <2>1. Resolved(n) = merged[Default]
      BY <1>7 DEF Resolved
    <2>2. all = {}
      BY <1>3, <1>7
    <2> QED
      BY <1>1, <1>2, <1>7, <2>1, <2>2, NoneIsNoVoice DEF all
  <1> QED
    BY <1>5, <1>6, <1>7

LEMMA ResolveStep ==
    ASSUME MergeInv, VoiceInv, NEW n \in Names \cup {Absent}, Resolve(n)
    PROVE  VoiceInv'
  <1>1. /\ pc = "serve" /\ pc' = "settle" /\ asked' = n
        /\ spec' = Resolved(Aliased(n))
        /\ UNCHANGED <<file, next, merged, order, sent>>
    BY DEF Resolve, voiceVars
  <1>2. Rows' = Rows
    BY <1>1 DEF Rows
  <1>3. \A i : Carriers(i)' = Carriers(i)
    BY <1>2 DEF Carriers
  <1>4. next = Len(Rows) + 1 /\ spec = None /\ sent = None
    BY <1>1 DEF VoiceInv
  <1>5. Aliased(n) \in Names
    BY AliasedName
  <1> DEFINE m == Aliased(n)
             shown == {k \in DOMAIN Builtin : /\ Builtin[k].speaker = m
                                   /\ Max(Carriers(Builtin[k].id)) = k}
  <1>6. /\ Carriers(m) # {} => spec' = Rows[Max(Carriers(m))]
        /\ Carriers(m) = {} /\ shown # {} => \E k \in shown : spec' = Rows[k]
        /\ Carriers(m) = {} /\ shown = {} => spec' = Rows[Max(Carriers(Default))]
        /\ spec' # None /\ spec' \in {Rows[k] : k \in DOMAIN Rows}
    <2> HIDE DEF m
    <2> QED
      BY <1>1, <1>4, <1>5, ResolvedVoice DEF m
  <1>7. Aliased(asked)' = m
    BY <1>1 DEF Aliased
  <1>8. VoiceIsFaithful'
    <2> HIDE DEF m
    <2> QED
      BY <1>2, <1>3, <1>6, <1>7 DEF VoiceIsFaithful
  <1> QED
    BY <1>1, <1>2, <1>4, <1>6, <1>8 DEF VoiceInv

LEMMA VoiceNext == MergeInv /\ VoiceInv /\ [Next]_vars => VoiceInv'
  <1> SUFFICES ASSUME MergeInv, VoiceInv, [Next]_vars PROVE VoiceInv'
    OBVIOUS
  <1>1. ASSUME NEW n \in Names \cup {Absent}, Resolve(n) PROVE VoiceInv'
    BY <1>1, ResolveStep
  <1>2. ASSUME UNCHANGED <<file, asked, spec>>
        PROVE  /\ Rows' = Rows /\ (VoiceIsFaithful' <=> VoiceIsFaithful)
    <2>1. Rows' = Rows /\ Aliased(asked)' = Aliased(asked)
      BY <1>2 DEF Rows, Aliased
    <2>2. \A i : Carriers(i)' = Carriers(i)
      BY <2>1 DEF Carriers
    <2> QED
      BY <1>2, <2>1, <2>2 DEF VoiceIsFaithful
  <1>3. CASE Merge \/ Merged
    <2>1. /\ UNCHANGED <<file, asked, spec, sent>> /\ pc = "merge"
          /\ pc' = "merge" \/ (pc' = "serve" /\ next' = next /\ next > Len(Rows))
      BY <1>3 DEF Merge, Merged, requestVars, voiceVars
    <2>2. pc' = "serve" => next' = Len(Rows) + 1
      BY <2>1, RowTypes DEF MergeInv
    <2> QED
      BY <1>2, <2>1, <2>2 DEF VoiceInv
  <1>4. ASSUME NEW p \in Peers, Send(p) PROVE VoiceInv'
    <2>1. /\ UNCHANGED <<file, next, asked, spec>> /\ pc = "send"
          /\ sent'.kind = spec.kind /\ pc' \in {"failed", "gain", "stretch"}
      BY <1>4 DEF Send, voiceVars
    <2> QED
      BY <1>2, <2>1 DEF VoiceInv
  <1>5. ASSUME UNCHANGED <<file, next, asked, spec, sent>>,
               \/ pc' = pc
               \/ pc' = "failed" /\ pc \notin {"setup", "refused", "merge"}
               \/ pc = "setup" /\ pc' \in {"merge", "refused"}
               \/ /\ pc \in {"settle", "send", "stretch", "gain"}
                  /\ pc' \in {"send", "gain", "stretch", "done"}
        PROVE  VoiceInv'
    BY <1>2, <1>5 DEF VoiceInv
  <1> USE DEF requestVars, voiceVars
  <1>6. CASE Setup \/ RefuseRequest \/ FailToSend \/ NoStretch
    BY <1>5, <1>6 DEF Setup, RefuseRequest, FailToSend, NoStretch
  <1>7. ASSUME NEW s, NEW g, Ask(s, g) PROVE VoiceInv'
    BY <1>5, <1>7 DEF Ask
  <1>8. CASE Halve \/ Double \/ Stretch \/ Amplify
    BY <1>5, <1>8 DEF Halve, Double, Stretch, Amplify
  <1>9. CASE Done \/ UNCHANGED vars
    BY <1>5, <1>9 DEF Done, vars
  <1> QED
    BY <1>1, <1>3, <1>4, <1>6, <1>7, <1>8, <1>9 DEF Next

LEMMA VoiceInvariant == Spec => [](MergeInv /\ VoiceInv)
  <1>1. Init => VoiceInv
    BY DEF Init, VoiceInv, VoiceIsFaithful, None
  <1> QED
    BY <1>1, MergeInit, MergeNext, VoiceNext, PTL DEF Spec

(* Which voice a request gets follows from config.yaml, voices.json and the   *)
(* name alone, for any rows: override by id, fallback to a speaker's preset   *)
(* that no row hides, fallback to the default.                                *)
THEOREM RightVoice == Spec => []VoiceIsFaithful
  <1>1. VoiceInv => VoiceIsFaithful
    BY DEF VoiceInv
  <1> QED
    BY <1>1, VoiceInvariant, PTL

(* Nothing voices.json says makes the daemon upload a file from outside       *)
(* clone_audio_dir, or ask for a timbre that config.yaml does not have.       *)
THEOREM OwnRecordingsOnly == Spec => []OnlyOwnRecordings
  <1>1. MergeInv /\ VoiceInv => OnlyOwnRecordings
    <2> SUFFICES ASSUME MergeInv, VoiceInv, sent # None
                 PROVE  IF sent.kind = "clone" THEN spec.ref = "inside"
                                               ELSE spec.speaker \in Speakers
      BY DEF OnlyOwnRecordings
    <2>1. PICK k \in DOMAIN Rows : spec = Rows[k]
      BY DEF VoiceInv
    <2>2. spec # None /\ sent.kind = spec.kind
      BY DEF VoiceInv
    <2>3. CASE k \in DOMAIN Builtin
      <3>1. spec = Builtin[k]
        BY <2>1, <2>3, RowTypes DEF MergeInv
      <3> QED
        BY <2>2, <2>3, <3>1, BuiltinTypes DEF Speakers
    <2>4. CASE k \notin DOMAIN Builtin
      <3>1. Dynamic(spec)
        BY <2>1, <2>4, RowTypes DEF MergeInv
      <3> QED
        BY <2>2, <3>1 DEF Dynamic
    <2> QED
      BY <2>3, <2>4
  <1> QED
    BY <1>1, VoiceInvariant, PTL

-------------------------------------------------------------------------------
(* Speed, gain and the audio *)

\* The chain of atempo factors so far, in the unit of `remaining`.
ChainInv ==
    \/ twos = 0 /\ halves = 0 /\ rest = 2 * speed
    \/ twos = 1 /\ halves = 0 /\ rest = speed /\ speed > 16
    \/ twos = 0 /\ halves = 1 /\ rest = 4 * speed /\ speed < 4

DeliveryInv ==
    /\ speed \in 2..32 /\ gain \in 0..32
    /\ pc \in {"send", "stretch", "gain", "done"} =>
          /\ Clampable(wish.speed, spec.speed) /\ Clampable(wish.gain, spec.gain)
          /\ speed = Settle(wish.speed, spec.speed, 2, 32)
          /\ gain = Settle(wish.gain, spec.gain, 0, 32)
    /\ rest \in 4..64 /\ twos \in 0..1 /\ halves \in 0..1
    /\ pc \in {"setup", "refused", "merge", "serve", "settle", "send"} =>
          rest = 2 * One /\ twos = 0 /\ halves = 0
    /\ pc = "stretch" => ChainInv
    /\ pc \in {"setup", "refused", "merge", "serve", "settle", "send", "stretch"} =>
          audio.tempo = One /\ audio.loud = One
    /\ pc \in {"gain", "done"} =>
          audio.tempo = speed \/ (audio.tempo = One /\ twos = 0 /\ halves = 0)
    /\ pc = "gain" => audio.loud = One
    /\ pc = "done" => audio.loud = IF gain = 0 THEN One ELSE gain
    /\ audio \in [tempo : 1..32, loud : 1..32]

LEMMA SettleRange ==
    ASSUME NEW x, NEW own, Clampable(x, own)
    PROVE  /\ Settle(x, own, 2, 32) \in 2..32 /\ Settle(x, own, 0, 32) \in 0..32
           /\ LET y == IF x = Absent THEN own ELSE x
              IN  /\ Settle(x, own, 2, 32) = IF y < 2 THEN 2 ELSE IF y > 32 THEN 32 ELSE y
                  /\ Settle(x, own, 0, 32) = IF y < 0 THEN 0 ELSE IF y > 32 THEN 32 ELSE y
  <1> DEFINE y == IF x = Absent THEN own ELSE x
  <1>1. y \in Int
    BY DEF Clampable
  <1>2. /\ Settle(x, own, 2, 32) = Max({2, Min({32, y})})
        /\ Settle(x, own, 0, 32) = Max({0, Min({32, y})})
    BY DEF Settle
  <1> HIDE DEF y
  <1>3. /\ Max({2, Min({32, y})}) = IF y < 2 THEN 2 ELSE IF y > 32 THEN 32 ELSE y
        /\ Max({0, Min({32, y})}) = IF y < 0 THEN 0 ELSE IF y > 32 THEN 32 ELSE y
    BY <1>1, Clamped
  <1>4. /\ Settle(x, own, 2, 32) = IF y < 2 THEN 2 ELSE IF y > 32 THEN 32 ELSE y
        /\ Settle(x, own, 0, 32) = IF y < 0 THEN 0 ELSE IF y > 32 THEN 32 ELSE y
    BY <1>2, <1>3
  <1>5. Settle(x, own, 2, 32) \in 2..32 /\ Settle(x, own, 0, 32) \in 0..32
    BY <1>1, <1>4
  <1> QED
    BY <1>4, <1>5 DEF y

LEMMA AskStep ==
    ASSUME DeliveryInv, NEW s, NEW g, Ask(s, g)
    PROVE  DeliveryInv'
  <1>1. /\ pc = "settle" /\ wish' = [speed |-> s, gain |-> g]
        /\ UNCHANGED <<spec, rest, twos, halves, audio>>
    BY DEF Ask, audioVars
  <1>2. CASE Clampable(s, spec.speed) /\ Clampable(g, spec.gain)
    <2>1. /\ speed' = Settle(s, spec.speed, 2, 32) /\ gain' = Settle(g, spec.gain, 0, 32)
          /\ pc' = "send"
      BY <1>2 DEF Ask
    <2>2. speed' \in 2..32 /\ gain' \in 0..32
      BY <1>2, <2>1, SettleRange
    <2>3. wish'.speed = s /\ wish'.gain = g /\ spec' = spec
      BY <1>1
    <2>4. /\ Clampable(wish.speed, spec.speed)' /\ Clampable(wish.gain, spec.gain)'
          /\ speed' = Settle(wish.speed, spec.speed, 2, 32)'
          /\ gain' = Settle(wish.gain, spec.gain, 0, 32)'
      BY <1>2, <2>1, <2>3 DEF Clampable, Settle
    <2> QED
      BY <1>1, <2>1, <2>2, <2>4 DEF DeliveryInv
  <1>3. CASE ~(Clampable(s, spec.speed) /\ Clampable(g, spec.gain))
    <2>1. pc' = "failed" /\ UNCHANGED <<speed, gain>>
      BY <1>3 DEF Ask
    <2> QED
      BY <1>1, <2>1 DEF DeliveryInv
  <1> QED
    BY <1>2, <1>3

\* What the audio's actions leave alone.
LEMMA SettledStays ==
    ASSUME UNCHANGED <<spec, wish, speed, gain>>
    PROVE  /\ Clampable(wish.speed, spec.speed)' <=> Clampable(wish.speed, spec.speed)
           /\ Clampable(wish.gain, spec.gain)' <=> Clampable(wish.gain, spec.gain)
           /\ Settle(wish.speed, spec.speed, 2, 32)' = Settle(wish.speed, spec.speed, 2, 32)
           /\ Settle(wish.gain, spec.gain, 0, 32)' = Settle(wish.gain, spec.gain, 0, 32)
  BY DEF Clampable, Settle

LEMMA StretchStep ==
    ASSUME DeliveryInv, Halve \/ Double \/ Stretch
    PROVE  DeliveryInv'
  <1>1. /\ UNCHANGED <<spec, wish, speed, gain>> /\ pc = "stretch" /\ speed \in 2..32
        /\ ChainInv /\ audio.tempo = One /\ audio.loud = One
        /\ audio \in [tempo : 1..32, loud : 1..32]
    BY DEF DeliveryInv, Halve, Double, Stretch, requestVars
  <1>2. CASE Halve
    <2>1. /\ pc' = pc /\ UNCHANGED <<halves, audio>> /\ twos' = twos + 1
          /\ rest > 32 /\ rest' = rest \div 2
      BY <1>2 DEF Halve, One
    <2>2. twos = 0 /\ halves = 0 /\ rest = 2 * speed /\ speed > 16
      BY <1>1, <2>1 DEF ChainInv
    <2>3. rest' = speed
      BY <1>1, <2>1, <2>2
    <2>4. ChainInv' /\ rest' \in 4..64 /\ twos' \in 0..1 /\ halves' \in 0..1
      BY <1>1, <2>1, <2>2, <2>3 DEF ChainInv
    <2> QED
      BY <1>1, <2>1, <2>4, SettledStays DEF DeliveryInv
  <1>3. CASE Double
    <2>1. /\ pc' = pc /\ UNCHANGED <<twos, audio>> /\ halves' = halves + 1
          /\ rest < 8 /\ rest' = 2 * rest
      BY <1>3 DEF Double, One
    <2>2. twos = 0 /\ halves = 0 /\ rest = 2 * speed /\ speed < 4
      BY <1>1, <2>1 DEF ChainInv
    <2>3. ChainInv' /\ rest' \in 4..64 /\ twos' \in 0..1 /\ halves' \in 0..1
      BY <1>1, <2>1, <2>2 DEF ChainInv
    <2> QED
      BY <1>1, <2>1, <2>3, SettledStays DEF DeliveryInv
  <1>4. CASE Stretch
    <2>1. /\ UNCHANGED <<rest, twos, halves>>
          /\ \/ /\ audio' = [audio EXCEPT !.tempo = (rest * 2^twos) \div (2 * 2^halves)]
                /\ pc' = "gain"
             \/ pc' = "failed" /\ audio' = audio
      BY <1>4 DEF Stretch
    <2>2. 2^0 = 1 /\ 2^1 = 2
      OBVIOUS
    <2>3. (rest * 2^twos) \div (2 * 2^halves) = speed
      <3>1. CASE twos = 0 /\ halves = 0 /\ rest = 2 * speed
        BY <1>1, <2>2, <3>1
      <3>2. CASE twos = 1 /\ halves = 0 /\ rest = speed
        BY <1>1, <2>2, <3>2
      <3>3. CASE twos = 0 /\ halves = 1 /\ rest = 4 * speed
        BY <1>1, <2>2, <3>3
      <3> QED
        BY <1>1, <3>1, <3>2, <3>3 DEF ChainInv
    <2>4. pc' = "gain" => audio'.tempo = speed' /\ audio'.loud = audio.loud
      BY <1>1, <2>1, <2>3
    <2>5. audio' \in [tempo : 1..32, loud : 1..32]
      BY <1>1, <2>1, <2>3
    <2> QED
      BY <1>1, <2>1, <2>4, <2>5, SettledStays DEF DeliveryInv
  <1> QED
    BY <1>2, <1>3, <1>4

LEMMA DeliveryNext == DeliveryInv /\ [Next]_vars => DeliveryInv'
  <1> SUFFICES ASSUME DeliveryInv, [Next]_vars PROVE DeliveryInv'
    OBVIOUS
  <1> USE DEF requestVars, audioVars
  <1>1. ASSUME UNCHANGED <<requestVars, audioVars>>, pc' = pc \/ pc' = "failed"
        PROVE  DeliveryInv'
    BY <1>1, SettledStays DEF DeliveryInv, ChainInv
  <1>2. CASE Merge \/ RefuseRequest \/ FailToSend
    <2>1. UNCHANGED <<requestVars, audioVars>> /\ (pc' = pc \/ pc' = "failed")
      BY <1>2 DEF Merge, RefuseRequest, FailToSend
    <2> QED
      BY <1>1, <2>1
  <1>3. CASE Setup \/ Merged
    <2>1. /\ UNCHANGED <<requestVars, audioVars>> /\ pc \in {"setup", "merge"}
          /\ pc' \in {"merge", "refused", "serve"}
      BY <1>3 DEF Setup, Merged
    <2> QED
      BY <2>1, SettledStays DEF DeliveryInv
  <1>4. ASSUME NEW n, Resolve(n) PROVE DeliveryInv'
    <2>1. /\ UNCHANGED <<speed, gain, audioVars>> /\ pc = "serve" /\ pc' = "settle"
      BY <1>4 DEF Resolve
    <2> QED
      BY <2>1 DEF DeliveryInv
  <1>5. ASSUME NEW s, NEW g, Ask(s, g) PROVE DeliveryInv'
    BY <1>5, AskStep
  <1>6. ASSUME NEW p \in Peers, Send(p) PROVE DeliveryInv'
    <2>1. /\ UNCHANGED <<spec, wish, speed, gain, twos, halves, audio>>
          /\ pc = "send" /\ rest' = 2 * speed
          /\ pc' = "failed" \/ (pc' = "gain" /\ speed = One) \/ pc' = "stretch"
      BY <1>6 DEF Send
    <2>2. speed \in 2..32 /\ twos = 0 /\ halves = 0
      BY <2>1 DEF DeliveryInv
    <2>3. ChainInv' /\ rest' \in 4..64
      BY <2>1, <2>2 DEF ChainInv
    <2> QED
      BY <2>1, <2>2, <2>3, SettledStays DEF DeliveryInv
  <1>7. CASE NoStretch
    <2>1. /\ UNCHANGED <<requestVars, audioVars>> /\ pc = "stretch" /\ pc' = "gain"
          /\ twos = 0 /\ halves = 0
      BY <1>7 DEF NoStretch
    <2> QED
      BY <2>1, SettledStays DEF DeliveryInv
  <1>8. CASE Halve \/ Double \/ Stretch
    BY <1>8, StretchStep
  <1>9. CASE Amplify
    <2>1. /\ UNCHANGED <<spec, wish, speed, gain, rest, twos, halves>>
          /\ pc = "gain" /\ pc' = "done"
          /\ audio' = [audio EXCEPT !.loud = IF gain = 0 THEN One ELSE gain]
      BY <1>9 DEF Amplify
    <2>2. audio \in [tempo : 1..32, loud : 1..32] /\ gain \in 0..32
      BY DEF DeliveryInv
    <2>3. /\ audio' \in [tempo : 1..32, loud : 1..32] /\ audio'.tempo = audio.tempo
          /\ audio'.loud = IF gain = 0 THEN One ELSE gain
      BY <2>1, <2>2 DEF One
    <2> QED
      BY <2>1, <2>3, SettledStays DEF DeliveryInv
  <1>10. CASE Done \/ UNCHANGED vars
    <2>1. UNCHANGED <<requestVars, audioVars>> /\ pc' = pc
      BY <1>10 DEF Done, vars
    <2> QED
      BY <1>1, <2>1
  <1> QED
    BY <1>2, <1>3, <1>4, <1>5, <1>6, <1>7, <1>8, <1>9, <1>10 DEF Next

LEMMA DeliveryInvariant == Spec => []DeliveryInv
  <1>1. Init => DeliveryInv
    BY DEF Init, DeliveryInv, One
  <1> QED
    BY <1>1, DeliveryNext, PTL DEF Spec

(* The caller's wish before the voice's own value, brought into the allowed   *)
(* range and no further, and no factor of the chain lost: for any speed and   *)
(* any gain above 0 in the request and in voices.json.                        *)
THEOREM AsAsked == Spec => []DeliversWhatWasAsked
  <1>1. DeliveryInv => DeliversWhatWasAsked
    <2> SUFFICES ASSUME DeliveryInv, pc = "done" PROVE DeliversWhatWasAsked
      BY DEF DeliversWhatWasAsked
    <2> DEFINE s == WantedSpeed
               g == WantedGain
    <2>1. /\ Clampable(wish.speed, spec.speed) /\ Clampable(wish.gain, spec.gain)
          /\ speed = Settle(wish.speed, spec.speed, 2, 32)
          /\ gain = Settle(wish.gain, spec.gain, 0, 32)
          /\ audio.tempo = speed \/ (audio.tempo = One /\ twos = 0 /\ halves = 0)
          /\ audio.loud = IF gain = 0 THEN One ELSE gain
      BY DEF DeliveryInv
    <2>2. s \in Int /\ g \in Int
      BY <2>1 DEF Clampable, WantedSpeed, WantedGain
    <2>3. /\ speed = IF s < 2 THEN 2 ELSE IF s > 32 THEN 32 ELSE s
          /\ gain = IF g < 0 THEN 0 ELSE IF g > 32 THEN 32 ELSE g
      BY <2>1, SettleRange DEF WantedSpeed, WantedGain
    <2> HIDE DEF s, g
    <2>4. Nearest(s, speed, 2, 32)
      BY <2>2, <2>3 DEF Nearest, Distance
    <2>5. Nearest(g, gain, 0, 32)
      BY <2>2, <2>3 DEF Nearest, Distance
    <2>6. g > 0 => gain # 0
      BY <2>2, <2>3
    <2>7. /\ \/ Nearest(s, audio.tempo, 2, 32)
             \/ audio.tempo = One /\ twos = 0 /\ halves = 0
          /\ g > 0 => Nearest(g, audio.loud, 0, 32)
      BY <2>1, <2>4, <2>5, <2>6
    <2> QED
      BY <2>7 DEF DeliversWhatWasAsked, s, g
  <1> QED
    BY <1>1, DeliveryInvariant, PTL

(* Every variable keeps its type, and `remaining` and the chain of factors    *)
(* their bounds, whatever voices.json and the callers say.                    *)
THEOREM TypeCorrect == Spec => []TypeOK
  <1> DEFINE Places == {"setup", "refused", "merge", "serve", "settle", "send",
                        "stretch", "gain", "done", "failed"}
             PlaceOK == pc \in Places /\ setup \in Settings
  <1>1. Init => PlaceOK
    BY SpeechAssumption DEF Init
  <1>2. PlaceOK /\ [Next]_vars => PlaceOK'
    BY DEF Next, Setup, Merge, Merged, RefuseRequest, Resolve, Ask, FailToSend, Send,
           NoStretch, Halve, Double, Stretch, Amplify, Done, vars
  <1>3. MergeInv /\ VoiceInv /\ DeliveryInv /\ PlaceOK => TypeOK
    <2> SUFFICES ASSUME MergeInv, VoiceInv, DeliveryInv, PlaceOK PROVE TypeOK
      OBVIOUS
    <2>1. /\ DOMAIN merged \subseteq Names
          /\ \A n \in DOMAIN merged : merged[n] \in Voices
      BY MergedVoice
    <2>2. order \in Seq(Names)
      BY <2>1 DEF MergeInv
    <2>3. spec \in Voices \cup {None}
      BY RowTypes, BuiltinTypes DEF MergeInv, VoiceInv, Dynamic
    <2> QED
      BY <2>1, <2>2, <2>3 DEF TypeOK, MergeInv, VoiceInv, DeliveryInv
  <1>4. Spec => []PlaceOK
    BY <1>1, <1>2, PTL DEF Spec
  <1> QED
    BY <1>3, <1>4, VoiceInvariant, DeliveryInvariant, PTL

-------------------------------------------------------------------------------
(* The peer *)

PeerInv ==
    /\ setup \in Settings
    /\ pc \notin {"setup", "refused"} => Accepted(setup)
    /\ sent # None => /\ Accepted(setup)
                      /\ Handshake(setup, sent.peer)
                      /\ sent.key = SendsKey(setup) /\ sent.trace = SendsTrace(setup)

LEMMA PeerNext == PeerInv /\ [Next]_vars => PeerInv'
  <1> SUFFICES ASSUME PeerInv, [Next]_vars PROVE PeerInv'
    OBVIOUS
  <1>1. CASE Setup
    BY <1>1 DEF Setup, PeerInv, requestVars
  <1>2. ASSUME NEW p \in Peers, Send(p) PROVE PeerInv'
    <2>1. /\ setup' = setup /\ pc = "send" /\ Handshake(setup, p)
          /\ sent' = [kind |-> spec.kind, key |-> SendsKey(setup),
                      trace |-> SendsTrace(setup), peer |-> p]
      BY <1>2 DEF Send
    <2> QED
      BY <2>1 DEF PeerInv
  <1>3. CASE UNCHANGED <<setup, sent>> /\ (pc' = pc \/ pc \notin {"setup", "refused"})
    BY <1>3 DEF PeerInv
  <1>4. Next => \/ Setup \/ \E p \in Peers : Send(p)
                \/ UNCHANGED <<setup, sent>> /\ (pc' = pc \/ pc \notin {"setup", "refused"})
    BY DEF Next, Merge, Merged, RefuseRequest, Resolve, Ask, FailToSend,
           NoStretch, Halve, Double, Stretch, Amplify, Done, vars, requestVars
  <1> QED
    BY <1>1, <1>2, <1>3, <1>4 DEF vars, requestVars

(* Under every combination of settings the text is sent to relay or to a      *)
(* server of this machine with no trust configured, or to a server that       *)
(* passed all of what was configured; and the headers stay where they belong. *)
THEOREM OnlyTheRightPeer == Spec => []PeerIsVerified
  <1>1. Init => PeerInv
    BY SpeechAssumption DEF Init, PeerInv
  <1>2. PeerInv => PeerIsVerified
    BY DEF PeerInv, PeerIsVerified, Accepted, NoUnused, Handshake, Tls, SendsKey,
           SendsTrace, OnBox, Settings
  <1> QED
    BY <1>1, <1>2, PeerNext, PTL DEF Spec

-------------------------------------------------------------------------------
(* The end of every request *)

\* How many steps are left at most: one for a row of the palette, and in
\* time_stretch one for a factor and one for ffmpeg.
StepsLeft ==
    CASE pc = "setup"   -> Len(Rows) + 9
      [] pc = "merge"   -> (Len(Rows) + 1 - next) + 8
      [] pc = "serve"   -> 7
      [] pc = "settle"  -> 6
      [] pc = "send"    -> 5
      [] pc = "stretch" -> IF One <= rest /\ rest <= 4 * One THEN 2 ELSE 3
      [] pc = "gain"    -> 1
      [] OTHER          -> 0

Over == pc \in {"refused", "failed", "done"}

LEMMA StepCounts ==
    ASSUME MergeInv, DeliveryInv, Next
    PROVE  StepsLeft' < StepsLeft \/ UNCHANGED vars
  <1>1. Len(Rows) \in Nat /\ next \in 1..(Len(Rows) + 1)
    BY RowTypes DEF MergeInv
  <1>2. CASE Setup
    <2>1. /\ pc = "setup" /\ pc' \in {"merge", "refused"}
          /\ next' = next /\ Rows' = Rows
      BY <1>2 DEF Setup, voiceVars, Rows
    <2> QED
      BY <1>1, <2>1 DEF StepsLeft
  <1>3. CASE Merge \/ Merged
    <2>1. /\ pc = "merge" /\ Rows' = Rows
          /\ \/ pc' = "merge" /\ next <= Len(Rows) /\ next' = next + 1
             \/ pc' = "serve"
      BY <1>3 DEF Merge, Merged, voiceVars, Rows
    <2> QED
      BY <1>1, <2>1 DEF StepsLeft
  <1>4. CASE RefuseRequest \/ FailToSend \/ Amplify
    BY <1>4 DEF RefuseRequest, FailToSend, Amplify, StepsLeft
  <1>5. ASSUME NEW n, Resolve(n) PROVE StepsLeft' < StepsLeft
    BY <1>5 DEF Resolve, StepsLeft
  <1>6. ASSUME NEW s, NEW g, Ask(s, g) PROVE StepsLeft' < StepsLeft
    <2>1. pc = "settle" /\ pc' \in {"send", "failed"}
      BY <1>6 DEF Ask
    <2> QED
      BY <2>1 DEF StepsLeft
  <1>7. ASSUME NEW p, Send(p) PROVE StepsLeft' < StepsLeft
    <2>1. pc = "send" /\ pc' \in {"failed", "gain", "stretch"}
      BY <1>7 DEF Send
    <2> QED
      BY <2>1 DEF StepsLeft
  <1>8. CASE NoStretch \/ Stretch
    <2>1. pc = "stretch" /\ pc' \in {"gain", "failed"}
      BY <1>8 DEF NoStretch, Stretch
    <2> QED
      BY <2>1 DEF StepsLeft
  <1>9. CASE Halve \/ Double
    <2>1. /\ pc = "stretch" /\ pc' = "stretch"
          /\ \/ rest > 32 /\ rest' = rest \div 2
             \/ rest < 8 /\ rest' = 2 * rest
      BY <1>9 DEF Halve, Double, One
    <2>2. rest \in 4..64
      BY DEF DeliveryInv
    <2>3. 8 <= rest' /\ rest' <= 32
      BY <2>1, <2>2
    <2> QED
      BY <2>1, <2>2, <2>3 DEF StepsLeft, One
  <1> QED
    BY <1>2, <1>3, <1>4, <1>5, <1>6, <1>7, <1>8, <1>9 DEF Next, Done

(* A request is over after at most Len(Rows) + 9 steps, the merge of the      *)
(* palette included: the loop of reload_custom passes over every row once,    *)
(* and each loop of time_stretch turns at most once, for every speed.         *)
THEOREM RequestsAreBounded ==
    Spec => /\ [](StepsLeft \in 0..(Len(Rows) + 9) /\ (StepsLeft = 0 <=> Over))
            /\ [][StepsLeft' < StepsLeft]_vars
  <1>1. ASSUME MergeInv, TypeOK
        PROVE  StepsLeft \in 0..(Len(Rows) + 9) /\ (StepsLeft = 0 <=> Over)
    <2>1. Len(Rows) \in Nat /\ next \in 1..(Len(Rows) + 1)
      BY <1>1, RowTypes DEF MergeInv
    <2>2. pc \in {"setup", "refused", "merge", "serve", "settle", "send", "stretch",
                  "gain", "done", "failed"}
      BY <1>1 DEF TypeOK
    <2> QED
      BY <2>1, <2>2 DEF StepsLeft, Over
  <1>2. MergeInv /\ TypeOK => StepsLeft \in 0..(Len(Rows) + 9) /\ (StepsLeft = 0 <=> Over)
    BY <1>1
  <1>3. MergeInv /\ DeliveryInv /\ [Next]_vars => [StepsLeft' < StepsLeft]_vars
    BY StepCounts
  <1> QED
    BY <1>2, <1>3, TypeCorrect, VoiceInvariant, DeliveryInvariant, PTL DEF Spec
===============================================================================
