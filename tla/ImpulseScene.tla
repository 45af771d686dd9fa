----------------------------- MODULE ImpulseScene -----------------------------
(***************************************************************************)
(* How the Impulse Map is drawn (learning/impulse-map-viz.tsx): nodes that *)
(* are kept and mutated outside React, an svg drawn by d3, three effects   *)
(* that run in their order in a commit, a force simulation that ticks by   *)
(* itself and a timer that stops it.  A commit with its effects is one     *)
(* step.  All nodes move together: a place is the container size whose     *)
(* grid they stand on, or 0 where the forces took them.  Colours, radii    *)
(* and the distance below which two nodes are linked are left out.         *)
(***************************************************************************)
EXTENDS Integers, Sequences, FiniteSets

CONSTANTS
  PinRegion,  \* pin -> region: getCanonicalPinDefs
  Glows,      \* activations, in hundredths
  Sizes,      \* container sizes, numbers above 0; 1 is the first, 800 by 600
  MaxTimers   \* bound on the pending timeouts

ASSUME SceneAssumption ==
  Glows \subseteq 0..100 /\ 0 \in Glows /\ Sizes \subseteq Nat \ {0} /\ 1 \in Sizes

Pins == DOMAIN PinRegion

VARIABLE
  viz,     \* [feed, act, place, grid, prev, tab, size, running, scene]
  timeouts \* the sizes the pending timeouts were started with, oldest first

sceneVars == <<viz, timeouts>>

-----------------------------------------------------------------------------
(* renderScene: five layers. *)

Halos(act) == {p \in Pins : act[p] >= 15}
Links(act) == {e \in SUBSET Halos(act) : Cardinality(e) = 2 /\ \E r \in {PinRegion[p] : p \in e} :
                                           \A p \in e : PinRegion[p] = r}
Contours(mode, act) == mode = "regions" /\ \E p \in Pins : act[p] > 2
Badges(mode) == IF mode = "regions" THEN {PinRegion[p] : p \in Pins} ELSE {}

Drawn(mode, act, place) ==
  [nodes |-> act, place |-> place, halos |-> Halos(act), links |-> Links(act),
   contours |-> Contours(mode, act), badges |-> Badges(mode)]
renderScene(v, mode) == [v EXCEPT !.scene = Drawn(mode, v.act, v.place)]

Wiped == [nodes |-> <<>>, place |-> 0, halos |-> {}, links |-> {}, contours |-> FALSE,
          badges |-> {}]
layoutMode(v) == IF v.tab = "map" THEN "grid" ELSE "regions"

-----------------------------------------------------------------------------
(* The effects, in their order. *)

\* A size: the svg is emptied and a simulation made that does not run.
SetupEffect(v) == [v EXCEPT !.scene = Wiped, !.running = FALSE]

\* Data: the nodes take the readings; in the grid, or when the bounds changed,
\* they go to their places of this size.
DataEffect(v) ==
  LET w == [v EXCEPT !.act = v.feed, !.grid = v.size, !.prev = v.size,
                     !.place = IF layoutMode(v) = "grid" \/ v.prev # v.size
                               THEN v.size ELSE v.place,
                     !.running = v.running /\ layoutMode(v) # "grid"]
  IN  renderScene(w, layoutMode(w))

\* A layout, or a size: back to the grid, or let the forces run.
ModeEffect(v) ==
  IF layoutMode(v) = "grid"
  THEN renderScene([v EXCEPT !.place = v.grid, !.running = FALSE], "grid")
  ELSE [v EXCEPT !.running = TRUE]

\* What ModeEffect adds to the pending timeouts: one that stops the forces.
Started(v, pending) ==
  IF layoutMode(v) = "grid" THEN pending ELSE Append(pending, v.size)

-----------------------------------------------------------------------------
(* What happens to it. *)

DataArrives(act) ==
  /\ viz' = DataEffect([viz EXCEPT !.feed = act])
  /\ UNCHANGED timeouts

\* The ResizeObserver reports a container that is not empty.
Resize(s) ==
  /\ s # viz.size /\ Len(timeouts) < MaxTimers
  /\ LET v == [viz EXCEPT !.size = s]
     IN  viz' = ModeEffect(DataEffect(SetupEffect(v))) /\ timeouts' = Started(v, timeouts)

\* A tab or one of the two layout buttons; the effect runs if the layout changed.
ChooseTab(t) ==
  /\ t # viz.tab /\ Len(timeouts) < MaxTimers
  /\ LET v == [viz EXCEPT !.tab = t]
     IN  IF layoutMode(v) = layoutMode(viz) THEN viz' = v /\ UNCHANGED timeouts
         ELSE viz' = ModeEffect(v) /\ timeouts' = Started(v, timeouts)

SimulationTick ==
  /\ viz.running
  /\ LET v == [viz EXCEPT !.place = 0] IN viz' = renderScene(v, layoutMode(v))
  /\ UNCHANGED timeouts

\* The timeout was started for the regions and draws them, whatever is chosen now.
TimeoutFires ==
  /\ timeouts # <<>>
  /\ viz' = renderScene([viz EXCEPT !.running = FALSE], "regions")
  /\ timeouts' = Tail(timeouts)

handleReset ==
  /\ LET v == [viz EXCEPT !.place = viz.grid, !.act = [p \in Pins |-> 0], !.running = FALSE]
     IN  viz' = renderScene(v, layoutMode(v))
  /\ UNCHANGED timeouts

SceneInit ==
  /\ timeouts = <<>>
  /\ viz = ModeEffect(DataEffect(SetupEffect(
             [feed |-> [p \in Pins |-> 0], act |-> [p \in Pins |-> 0], place |-> 0, grid |-> 1,
              prev |-> 0, tab |-> "map", size |-> 1, running |-> FALSE, scene |-> Wiped])))
SceneNext ==
  \/ \E act \in [Pins -> Glows] : DataArrives(act)
  \/ \E s \in Sizes : Resize(s)
  \/ \E t \in {"map", "topography", "sympathy"} : ChooseTab(t)
  \/ SimulationTick \/ TimeoutFires \/ handleReset

-----------------------------------------------------------------------------
(* Properties. *)

(* What is on the screen is what the nodes are now, their places and their *)
(* brightness, although they are mutated in place and the svg is emptied   *)
(* whenever the container is resized (renderScene and the effects).        *)
SceneIsCurrent ==
  \E mode \in {"grid", "regions"} : viz.scene = Drawn(mode, viz.act, viz.place)

(* In the grid the nodes stand on the grid of the present size and nothing *)
(* moves them: no simulation started for the regions is still running, nor *)
(* is one started again by data, a resize or a late timeout.               *)
GridIsPlaced == layoutMode(viz) = "grid" => viz.place = viz.size /\ ~viz.running

(* Forces never run without a timeout that will stop them: leaving the     *)
(* regions and coming back, or resizing, loses none.                       *)
ForcesAreStopped == viz.running => timeouts # <<>>
=============================================================================
