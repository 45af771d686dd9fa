------------------------------- MODULE Readings -------------------------------
(***************************************************************************)
(* Reading a wire value (types/value.ts, lib/json-bytes.ts): layers that   *)
(* are decoded once, readings that are kept until the value grows, scalar  *)
(* metrics by name and the sample of the Hawkes trace that is made of them *)
(* (terminal/xray-hawkes.tsx).  An index entry is the list of the names    *)
(* below the prefix; a payload is an array, a scalar or bytes that are not *)
(* JSON, its items numbers (in hundredths) or Words.                       *)
(***************************************************************************)
EXTENDS Integers, Sequences, SequencesExt, FiniteSets, FiniteSetsExt, Orders

CONSTANTS
  LayerForms,    \* layers a value may be given: [under, names, kind, items]
  MaxLayers,
  Words,         \* strings
  BuyWord, SellWord,
  Missing        \* undefined, null

\* A layer has a name, a scalar just one; what is fitted to arrivals are rates,
\* and a rate is not negative.
ASSUME ReadingAssumption ==
  /\ MaxLayers \in Nat /\ {BuyWord, SellWord} \subseteq Words
  /\ Missing \notin Words \cup Nat \cup LayerForms
  /\ \A l \in LayerForms :
       /\ l.names \in Seq(STRING) /\ l.names # <<>>
       /\ l.items \in Seq(Words \cup Nat)
       /\ l.kind = "scalar" => Len(l.names) = 1

VARIABLES
  layers,     \* index and layers of the value: they grow together
  kept,       \* readingsCache: [size, found] or Missing
  readBack    \* what readings() returned, Missing until it is called again

readingVars == <<layers, kept, readBack>>

-----------------------------------------------------------------------------
(* Layers. *)

\* The payload, or undefined when the bytes are not JSON.
tryDecodeJsonBytes(layer) == IF layer.kind = "gob" THEN Missing ELSE layer

First(payload) == IF payload.items = <<>> THEN Missing ELSE payload.items[1]

\* The first layer at exactly this key.
reading(names) ==
  LET there == {i \in DOMAIN layers : layers[i].under /\ layers[i].names = names}
  IN  IF there = {} THEN Missing ELSE tryDecodeJsonBytes(layers[Min(there)])

metricAt(name) == LET found == reading(<<name>>)
                IN  IF found = Missing THEN Missing ELSE First(found)

\* The places of the layers that are below the prefix and JSON.
Live(ls) == {i \in DOMAIN ls : ls[i].under /\ tryDecodeJsonBytes(ls[i]) # Missing}
Decoded(ls) == Only(ls, Live(ls))

fits(cache, size) == cache # Missing /\ cache.size = size

\* readings: what is kept, if the value has not grown since.
readAll ==
  /\ readBack' = IF fits(kept, Len(layers)) THEN kept.found ELSE Decoded(layers)
  /\ kept' = IF fits(kept, Len(layers)) THEN kept
             ELSE [size |-> Len(layers), found |-> Decoded(layers)]
  /\ UNCHANGED layers

Number(x) == x # Missing /\ x \notin Words

\* The metrics of one layer: a name for each item when it has several names
\* (a scalar has one).
Named(l) ==
  IF l.kind = "array" /\ Len(l.names) > 1
  THEN {<<l.names[n], l.items[n]>> : n \in 1..Min({Len(l.names), Len(l.items)})}
  ELSE {<<l.names[1], First(l)>>}

Said(l) == {m \in Named(l) : Number(m[2])}
SaidNames(l) == {m[1] : m \in Said(l)}

\* A later layer replaces what an earlier one said of a name.
metrics ==
  [n \in UNION {SaidNames(layers[i]) : i \in Live(layers)} |->
     LET last == Max({i \in Live(layers) : n \in SaidNames(layers[i])})
     IN  (CHOOSE m \in Said(layers[last]) : m[1] = n)[2]]

\* The string readings by their suffix.
provenance(names) ==
  LET said == {i \in Live(layers) : layers[i].names = names /\ First(layers[i]) \in Words}
  IN  IF said = {} THEN Missing ELSE First(layers[Max(said)])

\* An index entry and its layer are pushed together.
AppendLayer(l) ==
  /\ Len(layers) < MaxLayers
  /\ \A i \in DOMAIN layers : <<layers[i].under, layers[i].names>> # <<l.under, l.names>>
  /\ layers' = Append(layers, l)
  /\ readBack' = Missing
  /\ UNCHANGED kept

ReadingInit == layers = <<>> /\ kept = Missing /\ readBack = Missing
ReadingNext == (\E l \in LayerForms : AppendLayer(l)) \/ readAll

-----------------------------------------------------------------------------
(* The Hawkes sample. *)

MetricOr(m, name, other) == IF name \in DOMAIN m THEN m[name] ELSE other

DecayOf(m) ==
  IF MetricOr(m, "decay", 0) > 0 THEN m["decay"]
  ELSE IF MetricOr(m, "radius", 0) > 0 THEN 100 ELSE 50

\* A marked arrival with fitted parameters: its jump is that of its side.
FittedSample(m, side) ==
  LET jumps == IF side = BuyWord THEN <<"buy_from_buy", "sell_from_buy">>
               ELSE <<"buy_from_sell", "sell_from_sell">>
      needed == {"intensity", "background"} \cup Range(jumps)
  IN  IF m["decay"] = 0 THEN [kind |-> "none"]
      ELSE IF side \notin {BuyWord, SellWord} \/ ~(needed \subseteq DOMAIN m) THEN [kind |-> "thrown"]
      ELSE [kind |-> "sample", intensity |-> m["intensity"], baseline |-> m["background"],
            decay |-> m["decay"], post |-> m["intensity"] + m[jumps[1]] + m[jumps[2]]]

\* Any other frame: levels from what rates there are.
LevelSample(m) ==
  LET arrivals == MetricOr(m, "arrival:buy", 0) + MetricOr(m, "arrival:sell", 0)
      level == IF MetricOr(m, "intensity", 0) > 0 THEN m["intensity"] ELSE arrivals
      rest == MetricOr(m, "background",
                       MetricOr(m, "background:buy", 0) + MetricOr(m, "background:sell", 0))
  IN  [kind |-> "sample", intensity |-> level, decay |-> DecayOf(m), post |-> level,
       baseline |-> IF rest > 0 /\ rest < level THEN rest
                    ELSE IF arrivals > 0 /\ arrivals < level THEN arrivals
                    ELSE (level * 85) \div 100]

hawkesSample ==
  LET m == metrics
      side == provenance(<<"side">>)
  IN  IF side # Missing /\ {"buy_from_buy", "decay"} \subseteq DOMAIN m
      THEN FittedSample(m, side) ELSE LevelSample(m)

-----------------------------------------------------------------------------
(* Properties. *)

(* What readings() hands out is what the layers say now, whether it was    *)
(* kept from an earlier call or not: a value that grew in between is read  *)
(* again (readingsCache).                                                  *)
ReadIsCurrent == readBack # Missing => readBack = Decoded(layers)

(* The two ways to one number agree: a name that one layer alone is about  *)
(* has the same reading through metric(), which the sparkline samples, and *)
(* through metrics(), which the inspector shows; every metric is a number  *)
(* that some layer carries at that name's place.                           *)
MetricsAgree ==
  LET out == metrics
      about(n) == {i \in DOMAIN layers : layers[i].under /\ n \in Range(layers[i].names)}
  IN  /\ \A n \in UNION {Range(layers[i].names) : i \in DOMAIN layers} :
           (Cardinality(about(n)) = 1 /\ Number(metricAt(n)))
           => n \in DOMAIN out /\ out[n] = metricAt(n)
      /\ \A n \in DOMAIN out : \E i \in about(n) :
           \E j \in DOMAIN layers[i].items :
             layers[i].items[j] = out[n] /\ (layers[i].names[j] = n \/ j = 1)

(* A sample can always be traced: its decay is positive, so that the time  *)
(* it takes to fade is finite, and one that was not fitted rests at or     *)
(* below the level it decays from (hawkesSample, hawkesTrace).             *)
SampleCanBeTraced ==
  LET s == hawkesSample
  IN  s.kind = "sample" =>
        /\ s.decay > 0
        /\ provenance(<<"side">>) = Missing => s.baseline <= s.intensity
=============================================================================
