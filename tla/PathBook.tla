------------------------------- MODULE PathBook -------------------------------
(***************************************************************************)
(* The learned paths as the page holds them: the keys and their            *)
(* thresholds (collections/cognition.ts, hub/s3-prefix-compact.ts), and    *)
(* the sentence and the region brightness of each symbol (cognition.ts).   *)
(* A key is [home, path, action]; a list of keys is sorted by the code and *)
(* is the set of its members here.  Thresholds are tenths.                 *)
(***************************************************************************)
EXTENDS Integers, Sequences, SequencesExt, FiniteSets, FiniteSetsExt, Functions

CONSTANTS
  BookKeys,     \* the keys, sorted: [home, path, action]
  Resistances,  \* thresholds a listing may carry
  MaxChunk,     \* bound on the keys of one listing frame
  Epochs,       \* epochs of a listing
  NoneYet,      \* null, undefined
  KnownSymbols, \* SYMBOLS, as sequences of segments
  IndexTails,   \* what follows train/regions/ in an index, as segments
  Sectors,      \* region tokens
  Brightness,   \* brightness a layer may report
  MaxRing,      \* rows of the ring (24)
  MaxStep,      \* bound on the training tick
  MaxRefused,   \* bound on the refused tokens of a sentence
  Sentences     \* the token sequences a symbol may have reached

ASSUME PathAssumption ==
  /\ \A i \in DOMAIN BookKeys : BookKeys[i].home \in {"model/paths", "policy/current"}
  /\ MaxRing \in Nat /\ MaxRing > 1 /\ MaxStep \in Nat
  /\ NoneYet \notin Epochs /\ NoneYet \notin Brightness /\ Resistances \subseteq Int

VARIABLES
  book,      \* cognitionStore: [epoch, keys, thresholds]
  asked,     \* whether the last step sent {type: "s3", prefix}
  matches,   \* cognitionStore.matches: symbol -> match or NoneYet
  rings      \* regionRings: symbol -> rows

bookVars == <<book, asked>>
regionVars == <<matches, rings>>

AllKeys == Range(BookKeys)
Prune == 8

-----------------------------------------------------------------------------
(* Keys and thresholds. *)

explorePathKept(key, thr) ==
  key.home = "model/paths" /\ key \in DOMAIN thr => thr[key] <= Prune

filterExploreKeys(keys, thr) == {k \in keys : explorePathKept(k, thr)}

Over(f, g) == [k \in DOMAIN f \cup DOMAIN g |-> IF k \in DOMAIN g THEN g[k] ELSE f[k]]

\* A listing as the hub writes it: some keys, a threshold for some of them.
Listings ==
  {[epoch |-> e, keys |-> ks, thresholds |-> t] :
     e \in Epochs \cup {NoneYet}, ks \in {s \in SUBSET AllKeys : Cardinality(s) <= MaxChunk},
     t \in UNION {[d -> Resistances] : d \in {s \in SUBSET AllKeys : Cardinality(s) <= MaxChunk}}}

pathsListingFromEnvelope(l) ==
  LET kept == filterExploreKeys(l.keys, l.thresholds)
  IN  [l EXCEPT !.keys = kept,
                !.thresholds = Restrict(@, kept \cap DOMAIN @)]

\* Mutant of ingestExploreListPrefix: a frame replaces the keys before it.
ingestExploreReplacing(b, c) ==
  LET thr == Over(b.thresholds, c.thresholds)
  IN  [epoch |-> IF c.epoch = NoneYet THEN b.epoch ELSE c.epoch,
       keys |-> filterExploreKeys(c.keys, thr), thresholds |-> thr]

ingestExploreListPrefix(b, c) ==
  LET thr == Over(b.thresholds, c.thresholds)
  IN  [epoch |-> IF c.epoch = NoneYet THEN b.epoch ELSE c.epoch,
       keys |-> filterExploreKeys(b.keys \cup c.keys, thr), thresholds |-> thr]

PathsArrive == \E l \in Listings :
  /\ book' = ingestExploreListPrefix(book, pathsListingFromEnvelope(l))
  /\ asked' = FALSE

OnTrie(keys) == {k \in keys : k.home = "model/paths"}

\* The tree opens: its keys are dropped and asked for again.
TreeMounts ==
  /\ book' = [book EXCEPT !.keys = @ \ OnTrie(@)]
  /\ asked' = TRUE

ingestPolicyKeys == \E ks \in SUBSET AllKeys, e \in Epochs \cup {NoneYet} :
  /\ OnTrie(ks) # {}
  /\ book' = [book EXCEPT !.epoch = IF e = NoneYet THEN @ ELSE e,
                          !.keys = filterExploreKeys(OnTrie(ks), book.thresholds)]
  /\ asked' = FALSE

\* A tree frame: its keys replace the book's, the sentences are dropped.
TreeFrame == \E ks \in SUBSET AllKeys, e \in Epochs :
  LET kept == filterExploreKeys(ks, book.thresholds)
  IN  /\ book' = [book EXCEPT !.epoch = e, !.keys = kept]
      /\ asked' = (kept # book.keys)

ingestPolicyLayers == \E l \in Listings :
  LET keys == OnTrie(l.keys)
      thr == Restrict(l.thresholds, keys \cap DOMAIN l.thresholds)
      kept == filterExploreKeys(keys, thr)
      outside == {k \in DOMAIN book.thresholds : k.home # "model/paths"}
  IN  /\ l.epoch # NoneYet
      /\ kept # {}
      /\ book' = [epoch |-> l.epoch, keys |-> kept,
                  thresholds |-> Over(Restrict(book.thresholds, outside),
                                      Restrict(thr, kept \cap DOMAIN thr))]
      /\ asked' = FALSE

BookInit == book = [epoch |-> 0, keys |-> {}, thresholds |-> <<>>] /\ asked = FALSE
BookNext ==
  PathsArrive \/ TreeMounts \/ ingestPolicyKeys \/ TreeFrame \/ ingestPolicyLayers

(* No path the strategy would delete is held: every threshold in the book  *)
(* is at most the prune level, and every path key held passes the filter   *)
(* (explore-path.ts), whichever of the five ingests ran and in what order. *)
ShownIsKept ==
  /\ \A k \in book.keys : explorePathKept(k, book.thresholds)
  /\ \A k \in DOMAIN book.thresholds : book.thresholds[k] <= Prune \/ k.home # "model/paths"

\* Frames of one settled key each, as a listing may be cut.
Frames == {l \in Listings : l.epoch = NoneYet /\ Cardinality(l.keys) = 1
                            /\ DOMAIN l.thresholds = l.keys}

(* The frames of one listing may be applied in any order: two frames that  *)
(* do not disagree on a threshold leave the same keys and thresholds in a  *)
(* book that holds some (cognition.ts, "each frame unions into the book"). *)
FramesCommute ==
  book.keys # {} => \A l1, l2 \in Frames :
    LET c1 == pathsListingFromEnvelope(l1)
        c2 == pathsListingFromEnvelope(l2)
        agree == \A k \in DOMAIN c1.thresholds \cap DOMAIN c2.thresholds :
                   c1.thresholds[k] = c2.thresholds[k]
    IN  agree => ingestExploreListPrefix(ingestExploreListPrefix(book, c1), c2)
                 = ingestExploreListPrefix(ingestExploreListPrefix(book, c2), c1)

-----------------------------------------------------------------------------
(* Sentences and region brightness. *)

\* The longest known symbol at the head of a tail, and what follows it.
splitSymbol(tail) ==
  LET known == {s \in KnownSymbols : IsPrefix(s, tail)}
      best == CHOOSE s \in known : \A t \in known : Len(t) <= Len(s)
  IN  IF known = {} THEN NoneYet
      ELSE [symbol |-> best, rest |-> SubSeq(tail, Len(best) + 1, Len(tail))]

\* NoneYet, or the symbol and its tokens; no tokens for the leaf "tokens".
parseTrainRegionsIndex(tail) ==
  LET split == splitSymbol(tail)
  IN  IF split = NoneYet \/ split.rest = <<>> THEN NoneYet
      ELSE IF Last(split.rest) = "tokens" THEN [symbol |-> split.symbol, tokens |-> <<>>]
      ELSE IF Last(split.rest) \notin Sectors THEN NoneYet
      ELSE [symbol |-> split.symbol, tokens |-> split.rest]

Sentence(tick, tokens, rejected) ==
  [tick |-> tick, tokens |-> tokens, rejected |-> rejected]

\* The refused tokens of a sentence that is still about this tick.
RefusedAt(m, tick) == IF m # NoneYet /\ m.tick = tick THEN m.rejected ELSE <<>>

\* The row of this tick: the row before it, with the tokens' brightness.
noteRegions(ring, tick, tokens, values) ==
  LET same == ring # <<>> /\ Last(ring).tick = tick
      before == IF ring = <<>> THEN [s \in Sectors |-> NoneYet] ELSE Last(ring).row
      row == [s \in Sectors |->
                LET at == {i \in DOMAIN tokens \cap DOMAIN values : tokens[i] = s}
                IN  IF at = {} THEN before[s] ELSE values[Max(at)]]
      kept == IF same THEN Front(ring)
              ELSE SubSeq(ring, Max({1, Len(ring) - MaxRing + 2}), Len(ring))
  IN  Append(kept, [tick |-> tick, row |-> row])

\* A layer of a training frame: the live tokens, or brightness along a path.
ingestTrainRegions == \E tail \in IndexTails, tick \in 1..MaxStep :
  LET parsed == parseTrainRegionsIndex(tail)
      Say(tokens) == matches' = [matches EXCEPT ![parsed.symbol] =
                                   Sentence(tick, tokens, RefusedAt(@, tick))]
  IN  /\ parsed # NoneYet
      /\ IF parsed.tokens = <<>>
         THEN \E tokens \in Sentences :
                /\ IF tokens = <<>> THEN UNCHANGED matches ELSE Say(tokens)
                /\ UNCHANGED rings
         ELSE \E values \in UNION {[1..n -> Brightness] : n \in 0..Len(parsed.tokens)} :
                /\ rings' = IF values = <<>> THEN rings
                            ELSE [rings EXCEPT ![parsed.symbol] =
                                    noteRegions(@, tick, parsed.tokens, values)]
                /\ Say(parsed.tokens)

\* The energy gate refused a token: kept with the others of the same tick.
ingestTrainReject == \E symbol \in KnownSymbols, tick \in 1..MaxStep, token \in Sectors :
  LET prior == matches[symbol]
      base == IF prior = NoneYet THEN Sentence(tick, <<>>, <<>>) ELSE prior
      refused == RefusedAt(prior, tick)
  IN  /\ Len(refused) < MaxRefused
      /\ matches' = [matches EXCEPT ![symbol] =
                       [base EXCEPT !.tick = tick, !.rejected = Append(refused, token)]]
      /\ UNCHANGED rings

\* A walked sentence keeps what was refused, of whatever tick.
ingestPathWalks ==
  \E symbol \in KnownSymbols, tick \in 1..MaxStep, tokens \in Sentences :
    /\ matches' = [matches EXCEPT ![symbol] =
                     Sentence(tick, tokens, IF @ = NoneYet THEN <<>> ELSE @.rejected)]
    /\ UNCHANGED rings

\* A tree frame drops every sentence.
MatchesDropped ==
  /\ matches' = [s \in KnownSymbols |-> NoneYet]
  /\ UNCHANGED rings

RegionInit ==
  /\ matches = [s \in KnownSymbols |-> NoneYet]
  /\ rings = [s \in KnownSymbols |-> <<>>]
RegionNext == ingestTrainRegions \/ ingestTrainReject \/ ingestPathWalks \/ MatchesDropped

Lit(row) == {s \in Sectors : row[s] # NoneYet}

(* A region that was lit stays lit in every later row of the ring ("keeps  *)
(* its last brightness instead of going dark", cognition.ts), one row per  *)
(* tick in a row, never more rows than the ring holds.                     *)
RingCarries ==
  \A s \in KnownSymbols :
    /\ Len(rings[s]) <= MaxRing
    /\ \A i \in 2..Len(rings[s]) :
         /\ Lit(rings[s][i - 1].row) \subseteq Lit(rings[s][i].row)
         /\ rings[s][i].tick # rings[s][i - 1].tick

(* The tokens refused at a tick are never lost while the sentence is of    *)
(* that tick, in whichever order its layers, refusals and walks arrive.    *)
RefusedKept ==
  \A s \in KnownSymbols :
    matches[s] # NoneYet /\ matches[s]' # NoneYet /\ matches[s]'.tick = matches[s].tick
      => IsPrefix(matches[s].rejected, matches[s]'.rejected)

\* The path book and the regions do not depend on how a listing or a tick was
\* cut into frames: nothing that is pruned is held, frames commute and a
\* region that was lit stays lit.
BookIsOrderFree == ShownIsKept /\ FramesCommute /\ RingCarries
=============================================================================
