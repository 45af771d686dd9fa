------------------------------ MODULE FrameStore ------------------------------
(***************************************************************************)
(* Where frames rest in the dashboard: the circular buffer                 *)
(* (collections/circular.ts), the keyed store of buffers built on it       *)
(* (collections/store.ts) and the merging of partial wire values           *)
(* (types/value.ts).  Rows and payloads are opaque.                        *)
(***************************************************************************)
EXTENDS Integers, Sequences, SequencesExt, FiniteSets, FiniteSetsExt

CONSTANTS
  Limit,      \* the positions of a buffer
  Keys,       \* what the two key extractors yield; NoKey is ""
  NoKey,
  NoRow,      \* a position never written
  MaxRows,    \* bound on the frames of rows between two resets
  Paths,      \* layer paths below the prefix; LitKeys are among them
  LitKeys,    \* LIT_LAYER_KEYS
  Foreign,    \* a layer whose index is not under the prefix
  Payloads,   \* non-empty arrays
  Blank,      \* [] and bytes that do not decode
  NoValue,    \* no prior value
  Origins, Ticks

ASSUME StoreAssumption ==
  /\ Limit \in Nat /\ MaxRows \in Nat
  /\ NoKey \notin Keys /\ LitKeys \subseteq Paths /\ Foreign \notin Paths
  /\ Blank \notin Payloads

VARIABLES
  tree,      \* the leaf buffer of each pair of keys
  version,   \* KeyedState.version
  accepted,  \* history: the rows each leaf was given since the last reset
  held,      \* what mergeWorkspaceAggregate keeps
  lit        \* what preserveLitLayers keeps

storeVars == <<tree, version, accepted, held, lit>>

-----------------------------------------------------------------------------
(* Circular. *)

Circular == [buffer |-> [i \in 0..(Limit - 1) |-> NoRow], start |-> 0, count |-> 0]

push(ring, row) ==
  IF Limit = 0 THEN ring
  ELSE IF ring.count < Limit
  THEN [ring EXCEPT !.buffer[(ring.start + ring.count) % Limit] = row, !.count = @ + 1]
  ELSE [ring EXCEPT !.buffer[ring.start] = row, !.start = (@ + 1) % Limit]

replaceTail(ring, row) ==
  IF Limit = 0 \/ ring.count = 0 THEN push(ring, row)
  ELSE [ring EXCEPT !.buffer[(ring.start + ring.count - 1) % Limit] = row]

values(ring) == [i \in 1..ring.count |-> ring.buffer[(ring.start + i - 1) % Limit]]

latest(ring) == ring.buffer[(ring.start + ring.count - 1) % Limit]

-----------------------------------------------------------------------------
(* createKeyedStore with two extractors: row.a selects the node, row.b the *)
(* leaf, and a row with an empty key goes nowhere.                         *)

Placed(row) == row.a # NoKey /\ row.b # NoKey

Leaves == Keys \X Keys

pushRow(t, row) ==
  IF Placed(row) THEN [t EXCEPT ![<<row.a, row.b>>] = push(@, row)] ELSE t

\* The same of the history.
note(given, row) ==
  IF Placed(row) THEN [given EXCEPT ![<<row.a, row.b>>] = Append(@, row)] ELSE given

empty == [path \in Leaves |-> Circular]
nothing == [path \in Leaves |-> <<>>]

updateFrame(rows) ==
  /\ version < MaxRows
  /\ tree' = FoldLeft(pushRow, tree, rows)
  /\ version' = IF rows = <<>> THEN version ELSE version + 1
  /\ accepted' = FoldLeft(note, accepted, rows)
  /\ UNCHANGED <<held, lit>>

\* replaceTail of a caller that holds a leaf.
Amend(path, row) ==
  /\ tree[path].count > 0
  /\ <<row.a, row.b>> = path
  /\ tree' = [tree EXCEPT ![path] = replaceTail(@, row)]
  /\ accepted' = [accepted EXCEPT ![path][Len(accepted[path])] = row]
  /\ UNCHANGED <<version, held, lit>>

reset ==
  /\ version > 0
  /\ tree' = empty /\ version' = 0 /\ accepted' = nothing
  /\ UNCHANGED <<held, lit>>

-----------------------------------------------------------------------------
(* Values: [tick, origin, layers], layers a partial function from paths.   *)

layerRelativeToPrefix(v) == [p \in DOMAIN v.layers \cap Paths |-> v.layers[p]]

nonEmptyArrayLayer(ls, p) == p \in DOMAIN ls /\ ls[p] \in Payloads

Overlay(ls, ms) ==
  [p \in DOMAIN ls \cup DOMAIN ms |-> IF p \in DOMAIN ms THEN ms[p] ELSE ls[p]]

preserveLitLayers(prior, incoming) ==
  IF prior = NoValue \/ prior.origin # incoming.origin THEN incoming
  ELSE LET now == layerRelativeToPrefix(incoming)
           was == layerRelativeToPrefix(prior)
           kept == {p \in LitKeys : ~nonEmptyArrayLayer(now, p)
                                    /\ nonEmptyArrayLayer(was, p)}
       IN  IF kept = {} THEN incoming
           ELSE [incoming EXCEPT !.layers = Overlay(now, [p \in kept |-> was[p]])]

\* Mutant of mergeWorkspaceAggregate: frames are told apart by their origin.
mergeByOrigin(prior, incoming) ==
  IF prior = NoValue \/ prior.origin # incoming.origin THEN incoming
  ELSE LET all == Overlay(layerRelativeToPrefix(prior), layerRelativeToPrefix(incoming))
       IN  IF DOMAIN all = {} THEN incoming ELSE [incoming EXCEPT !.layers = all]

mergeWorkspaceAggregate(prior, incoming) ==
  IF prior = NoValue \/ prior.tick # incoming.tick THEN incoming
  ELSE LET all == Overlay(layerRelativeToPrefix(prior), layerRelativeToPrefix(incoming))
       IN  IF DOMAIN all = {} THEN incoming ELSE [incoming EXCEPT !.layers = all]

Layers == UNION {[ps -> Payloads \cup {Blank}] : ps \in SUBSET Paths \cup {{Foreign}}}
Values == [tick : Ticks, origin : Origins, layers : Layers]

ASSUME ValueAssumption == NoValue \notin Values

\* A partial frame of the hub: a client folds it into what it holds.
ValueArrives(v) ==
  /\ held' = mergeWorkspaceAggregate(held, v)
  /\ lit' = preserveLitLayers(lit, v)
  /\ UNCHANGED <<tree, version, accepted>>

-----------------------------------------------------------------------------
StoreInit ==
  /\ tree = empty /\ version = 0 /\ accepted = nothing
  /\ held = NoValue /\ lit = NoValue

Rows == [a : Keys \cup {NoKey}, b : Keys \cup {NoKey}, v : {1, 2}]

RowsArrive ==
  \/ \E rows \in UNION {[1..n -> Rows] : n \in 0..1} : updateFrame(rows)
  \/ \E path \in Leaves, row \in Rows : Amend(path, row)
  \/ reset
ValuesArrive == \E v \in Values : ValueArrives(v)

-----------------------------------------------------------------------------
(* Properties. *)

\* Every leaf shows the newest Limit rows of its keys in the order they came,
\* however often its buffer wrapped and its tail was replaced (Circular,
\* createKeyedStore).
NewestKept ==
  \A path \in Leaves :
    LET given == accepted[path]
        last == SubSeq(given, Len(given) - Min({Limit, Len(given)}) + 1, Len(given))
    IN  /\ values(tree[path]) = last
        /\ last # <<>> => latest(tree[path]) = given[Len(given)]

\* "Cold training/grid ticks must not wipe the Impulse Map's last brightness":
\* a lit layer with content keeps content while frames come from one origin.
LitNeverDark ==
  \A p \in LitKeys :
    (/\ lit # NoValue /\ lit' # NoValue /\ lit.origin = lit'.origin
     /\ nonEmptyArrayLayer(lit.layers, p))
    => nonEmptyArrayLayer(lit'.layers, p)

\* "unions workspace aggregate layers ... when the hub fans out multiple
\* partial frames for one tick": two partial frames of a tick that agree where
\* they overlap give the same layers in either order, and a repeated frame
\* changes nothing.
Folded(v) == mergeWorkspaceAggregate(held, v)
PartialFramesCommute ==
  held # NoValue => \A f, g \in Values :
    (/\ f.tick = g.tick
     /\ \A p \in DOMAIN f.layers \cap DOMAIN g.layers : f.layers[p] = g.layers[p])
    => /\ layerRelativeToPrefix(mergeWorkspaceAggregate(Folded(f), g))
          = layerRelativeToPrefix(mergeWorkspaceAggregate(Folded(g), f))
       /\ layerRelativeToPrefix(mergeWorkspaceAggregate(Folded(f), f))
          = layerRelativeToPrefix(Folded(f))
=============================================================================
