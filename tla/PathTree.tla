------------------------------- MODULE PathTree -------------------------------
(***************************************************************************)
(* The tree of learned paths (learning/radix-tree-viz.tsx) and how it is   *)
(* painted (radix-tree-paint.ts).  A key is [path, action], the sentence   *)
(* of a symbol is [tokens, path, depth, matched, refused].  Positions,     *)
(* colours and zoom are left out; a threshold is in hundredths.            *)
(***************************************************************************)
EXTENDS Orders, SequencesExt, FiniteSetsExt

CONSTANTS
  TrieKeys,    \* the keys a book may hold, in sorted order
  TrieLevels,  \* thresholds the book may hold: key -> hundredths, for some keys
  MaxTrie,     \* MAX_TRIE_KEYS
  Walkers,     \* symbols
  Walks,       \* the sentences a symbol may have
  MaxClicks,   \* bound on the nodes collapsed at a time
  Nowhere      \* null, undefined

ASSUME TreeAssumption ==
  TrieKeys \in Seq([path : Seq(STRING), action : STRING]) /\ MaxTrie \in Nat

VARIABLES
  treeKeys,  \* keys
  levels,    \* thresholds: key -> level, for some keys
  progress,  \* symbols: symbol -> walk or Nowhere
  picked,    \* selectedSymbol
  branches,  \* branchFilter
  showAll,   \* showAllBranches
  folded,    \* collapsedIds
  hovered    \* hoveredNodeId

treeVars == <<treeKeys, levels, progress, picked, branches, showAll, folded, hovered>>

Level(key) == IF key \in DOMAIN levels THEN levels[key] ELSE Nowhere

-----------------------------------------------------------------------------
(* Which keys are shown. *)

activeSymbolList == {w \in Walkers : progress[w] # Nowhere /\ progress[w].path # Nowhere
                                     /\ progress[w].depth > 0}
targetSymbols == IF picked # Nowhere THEN activeSymbolList \cap {picked} ELSE activeSymbolList

allKeys ==
  LET kept == Only(treeKeys, {i \in DOMAIN treeKeys : Level(treeKeys[i]) # Nowhere => Level(treeKeys[i]) <= 80})
  IN  SubSeq(kept, 1, Min({MaxTrie, Len(kept)}))

keyMatchesPrefix(key, tokens) == tokens # <<>> /\ IsPrefix(tokens, key.path)

\* The stored keys a symbol matches win over its tokens.
FullKey(key) == IF key.action = "" THEN key.path ELSE Append(key.path, key.action)
keyMatchesSymbol(key, walk) ==
  /\ walk.tokens # <<>>
  /\ \/ \E m \in walk.matched : IsPrefix(FullKey(m), FullKey(key)) \/ IsPrefix(FullKey(key), FullKey(m))
     \/ keyMatchesPrefix(key, walk.tokens)

matchingKeys == Only(allKeys, {i \in DOMAIN allKeys :
                  \E w \in targetSymbols : keyMatchesSymbol(allKeys[i], progress[w])})

filteredKeys ==
  IF showAll \/ branches = "all" THEN allKeys
  ELSE IF branches = "matching" THEN IF matchingKeys # <<>> THEN matchingKeys ELSE allKeys
  ELSE Only(allKeys, {i \in DOMAIN allKeys : allKeys[i].action = branches})

-----------------------------------------------------------------------------
(* The tree: the nodes in the order they are made, the id is the position. *)

Node(prefix, action, level) == [prefix |-> prefix, action |-> action, level |-> level]

childOf(nodes, prefix) == \E i \in DOMAIN nodes :
  nodes[i].action = "" /\ nodes[i].prefix = prefix

\* One key: the missing nodes of its path, then its leaf.
Planted(nodes, key) ==
  LET Grow(acc, n) == LET prefix == SubSeq(key.path, 1, n)
                      IN  IF childOf(acc, prefix) THEN acc
                          ELSE Append(acc, Node(prefix, "", Nowhere))
      grown == FoldLeft(Grow, nodes, [n \in 1..Len(key.path) |-> n])
      leaves == {i \in DOMAIN grown : grown[i].prefix = key.path /\ grown[i].action = key.action}
  IN  IF key.path = <<>> THEN nodes
      ELSE IF key.action = "" THEN grown
      ELSE IF leaves = {} THEN Append(grown, Node(key.path, key.action, Level(key)))
      ELSE IF Level(key) = Nowhere THEN grown
      ELSE [grown EXCEPT ![CHOOSE i \in leaves : TRUE].level = Level(key)]

buildTreeFromPrefixes(keys) == FoldLeft(Planted, <<>>, keys)

treeData == buildTreeFromPrefixes(filteredKeys)

\* The children of a node: one token further, or a leaf of its own path.
Children(tree, n) ==
  {i \in DOMAIN tree : tree[n].action = ""
     /\ IF tree[i].action = "" THEN tree[i].prefix # <<>> /\ Front(tree[i].prefix) = tree[n].prefix
        ELSE tree[i].prefix = tree[n].prefix}

\* A leaf has its own threshold, a node the mean (rounded) of its children's.
shadeThresholds(tree) ==
  LET shade[n \in DOMAIN tree] ==
        LET known == {i \in Children(tree, n) : shade[i] # Nowhere}
        IN  IF tree[n].action # "" THEN tree[n].level
            ELSE IF known = {} THEN Nowhere
            ELSE MapThenSumSet(LAMBDA i : shade[i], known) \div Cardinality(known)
  IN  shade

\* A node is laid out unless a node over it is collapsed.
Ancestors(tree, n) == {i \in DOMAIN tree : tree[i].action = "" /\ i # n
                                       /\ IsPrefix(tree[i].prefix, tree[n].prefix)}
displayTree(tree) == {n \in DOMAIN tree : Ancestors(tree, n) \cap folded = {}}

\* The hovered node and those over it; nothing when its id is not laid out.
activePathIds(tree) ==
  IF hovered = Nowhere THEN Nowhere
  ELSE IF hovered \in displayTree(tree) THEN {hovered} \cup Ancestors(tree, hovered) ELSE {}

traversedPrefixes == UNION {{SubSeq(progress[w].tokens, 1, n) : n \in 1..Len(progress[w].tokens)} :
                              w \in targetSymbols}
rejectedPrefixes == UNION {{Append(progress[w].tokens, r) : r \in progress[w].refused} :
                             w \in targetSymbols}

-----------------------------------------------------------------------------
(* Painting. *)

nodeActivityOpacity(tree, n) ==
  IF hovered # Nowhere THEN n \in activePathIds(tree)
  ELSE picked # Nowhere => tree[n].prefix \in traversedPrefixes

\* The link to a node: as the node, or refused.
linkActivityOpacity(tree, n) ==
  \/ nodeActivityOpacity(tree, n)
  \/ hovered = Nowhere /\ tree[n].prefix \in rejectedPrefixes

linkStroke(tree, n) == LET level == shadeThresholds(tree)[n] IN
  IF tree[n].prefix \in traversedPrefixes THEN "symbol"
  ELSE IF tree[n].prefix \in rejectedPrefixes THEN "refused"
  ELSE IF level # Nowhere /\ level < 35 THEN "up"
  ELSE IF level # Nowhere /\ level > 65 THEN "down" ELSE "plain"

isNodeTerminal(tree, n) == Children(tree, n) = {}

\* A leaf is drawn solid when a symbol's path ends at it.
NodeContents(tree, n) ==
  [terminal |-> isNodeTerminal(tree, n), shaded |-> shadeThresholds(tree)[n] # Nowhere,
   solid |-> isNodeTerminal(tree, n)
             /\ \E w \in targetSymbols : progress[w].path = <<tree[n].prefix, tree[n].action>>,
   folded |-> n \in folded /\ ~isNodeTerminal(tree, n)]

\* What is on the screen: each laid-out node, its contents and its light.
Scene ==
  [n \in displayTree(treeData) |->
     [node |-> NodeContents(treeData, n), stroke |-> linkStroke(treeData, n),
      lit |-> nodeActivityOpacity(treeData, n), link |-> linkActivityOpacity(treeData, n)]]

-----------------------------------------------------------------------------
(* The book changes, the symbols move, the user picks. *)

KeysChange == \E ks \in SUBSET Range(TrieKeys), settled \in TrieLevels :
  /\ treeKeys' = Only(TrieKeys, {i \in DOMAIN TrieKeys : TrieKeys[i] \in ks})
  /\ levels' = settled
  /\ UNCHANGED <<progress, picked, branches, showAll, folded, hovered>>

SymbolMoves == \E w \in Walkers, to \in Walks \cup {Nowhere} :
  /\ progress' = [progress EXCEPT ![w] = to]
  /\ UNCHANGED <<treeKeys, levels, picked, branches, showAll, folded, hovered>>

\* The strip of symbols: the same symbol again clears the choice.
PickSymbol == \E w \in activeSymbolList :
  /\ picked' = IF picked = w THEN Nowhere ELSE w
  /\ UNCHANGED <<treeKeys, levels, progress, branches, showAll, folded, hovered>>

ClearFocus ==
  /\ activeSymbolList # {} /\ picked # Nowhere
  /\ picked' = Nowhere
  /\ UNCHANGED <<treeKeys, levels, progress, branches, showAll, folded, hovered>>

PickBranches == \E b \in {"matching", "enter", "hold", "exit", "all"} :
  /\ branches' = b /\ showAll' = (b = "all")
  /\ UNCHANGED <<treeKeys, levels, progress, picked, folded, hovered>>

handleNodeClick == \E n \in DOMAIN Scene :
  /\ folded' = IF n \in folded THEN folded \ {n} ELSE folded \cup {n}
  /\ Cardinality(folded') <= MaxClicks
  /\ UNCHANGED <<treeKeys, levels, progress, picked, branches, showAll, hovered>>

Hover == \E n \in DOMAIN Scene \cup {Nowhere} :
  /\ hovered' = n
  /\ UNCHANGED <<treeKeys, levels, progress, picked, branches, showAll, folded>>

TreeInit ==
  /\ treeKeys = <<>> /\ levels = <<>>
  /\ progress = [w \in Walkers |-> Nowhere]
  /\ picked = Nowhere /\ branches = "matching" /\ showAll = FALSE
  /\ folded = {} /\ hovered = Nowhere
TreeNext == KeysChange \/ SymbolMoves \/ PickSymbol \/ ClearFocus \/ PickBranches
            \/ handleNodeClick \/ Hover

(* The tree holds the shown keys and nothing else: one leaf for each key,  *)
(* with the key's own threshold, and one node for each prefix of a path,   *)
(* whatever prefixes the keys share; a key with no path has no leaf        *)
(* (buildTreeFromPrefixes).                                                *)
TreeHoldsKeys ==
  LET tree == treeData
      keys == {k \in Range(filteredKeys) : k.path # <<>>}
      inner == UNION {{SubSeq(k.path, 1, n) : n \in 1..Len(k.path)} : k \in keys}
      expected == {Node(p, "", Nowhere) : p \in inner}
                  \cup {Node(k.path, k.action, Level(k)) : k \in {q \in keys : q.action # ""}}
  IN  Range(tree) = expected /\ Len(tree) = Cardinality(expected)

(* While the book holds a path that may be shown, the tree is empty only   *)
(* under a filter on an action no path ends in: choosing a symbol or       *)
(* letting every symbol leave its path never empties it.                   *)
EmptyOnlyByAction ==
  filteredKeys = <<>> /\ allKeys # <<>> =>
    ~showAll /\ branches \in {"enter", "hold", "exit"}

(* A node drawn bright while a node is hovered is joined to the root by    *)
(* bright nodes that are all laid out: collapsing, filtering or a new book *)
(* never leaves a bright piece hanging (activePathIds).                    *)
LitReachesRoot ==
  hovered # Nowhere =>
    \A n \in DOMAIN Scene : Scene[n].lit =>
      \A o \in Ancestors(treeData, n) : o \in DOMAIN Scene /\ Scene[o].lit

\* The tree drawn is the book's: its leaves are the shown keys, it is empty
\* only where it must be, and what is bright hangs on the root.
TreeIsWhole == TreeHoldsKeys /\ EmptyOnlyByAction /\ LitReachesRoot
=============================================================================
