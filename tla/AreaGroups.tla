----------------------------- MODULE AreaGroups -----------------------------
(***************************************************************************)
(* The floorplanner in the second pass of the build: elaborate the area    *)
(* groups, place them with an ILP solver a few at a time, reusing the last *)
(* build's solution when there is one, and sort them along a short tour    *)
(* found by simulated annealing (tsp.py).                                  *)
(*                                                                         *)
(* The solver, external, answers with any solution of the constraints it   *)
(* is given or gives up; its clustering objective is left out, as it is    *)
(* told to stop within 95% of the optimum.  Between builds the modules'    *)
(* areas change.                                                           *)
(***************************************************************************)
EXTENDS Floorplan

CONSTANTS
  Files,          \* the constraint files a user may write
  Reports,        \* the resources the first pass may report
  EmitPlatform,   \* AREA_GROUPS_GROUP_PLATFORM_CODE
  Grid,           \* bound: the coordinates the solver's corners are taken from
  Alphabet,       \* all names a group may have, in alphabetical order
  DictOrders,     \* the orders a dictionary may have the names in
  FirstTours,     \* bound: the random tour to begin with, over all names
  MaxEvals,       \* tours the annealing evaluates
  MaxBuilds       \* bound: builds, of which later ones may reuse a solution

ASSUME GridAssumption == Grid \subseteq Int

ASSUME AlphabetAssumption == Alphabet \in Seq(STRING)

ASSUME FilesAssumption ==
  \A f \in Files : Len(f) \in Nat /\ \A i \in 1..Len(f) : f[i].kind \in Kinds

(* What elaboration promises of the groups it returns: every one has one   *)
(* shape, the user's, or four to choose from.                              *)
Pair == Int \X Int
Size == (Nat \ {0}) \X (Nat \ {0})
Dims == {d \in Seq(Size) : Len(d) \in {1, 4}}
Group == [area : Nat, dims : Dims, loc : Pair \cup {NoLoc}, attrs : SUBSET STRING,
          parent : STRING \cup {NoGroup}, children : SUBSET STRING]
GroupTable(groups) ==
  DOMAIN groups \subseteq Range(Alphabet) /\ \A n \in DOMAIN groups : groups[n] \in Group
ASSUME GroupsAssumption ==
  \A f \in Files, r \in Reports :
    Legal(Elaborated(f, r)) => GroupTable(AreaGroups(Elaborated(f, r), EmitPlatform))

VARIABLES
  file,      \* the constraint file
  phase,     \* "start", "place", "tour", "done" or "failed"
  builds,    \* builds so far
  stored,    \* areagroups.pickle: the last build's areas and shapes, or <<>>
  wanted,    \* the groups to place: areaGroups or areaGroupsModified
  original,  \* areaGroups
  reuse,     \* this is the try with the last build's shapes
  batch,     \* modulesAtATime
  placed,    \* areaGroupsPartial
  unplaced,  \* unplacedGroups, by area, the largest last
  tour,      \* annealing: the current tour, a sequence of groups
  best,      \* the best evaluated
  evals,     \* num_evaluations
  sortIdx    \* per group, its place in the order
vars == <<file, phase, builds, stored, wanted, original, reuse, batch, placed, unplaced, tour,
          best, evals, sortIdx>>
placeVars == <<wanted, reuse, batch, placed, unplaced>>
tourVars  == <<tour, best, evals, sortIdx>>

Init ==
  /\ file \in Files
  /\ phase = "start" /\ builds = 0 /\ stored = <<>>
  /\ wanted = <<>> /\ original = <<>> /\ reuse = FALSE /\ batch = 0
  /\ placed = <<>> /\ unplaced = <<>>
  /\ tour = <<>> /\ best = <<>> /\ evals = 0 /\ sortIdx = <<>>

(***************************************************************************)
(* setSpecialPosition: the central cache goes to the left of the memory    *)
(* controller, as high as that, if there is room.  It gets whole slices.   *)
(* "if (x)" takes a location of 0 for none.                                *)
(***************************************************************************)
Odd(n) == n % 2 = 1
CeilDiv(a, b) == (a + b - 1) \div b
CacheWidth(groups) ==
  LET w == CeilDiv(2 * WithExtraArea(groups[Cache].area), groups[Memory].dims[1][2])
  IN  2 * (IF Odd(w) THEN w + 1 ELSE w)
CacheX(groups) ==
  LET x == (groups[Memory].loc[1] - CacheWidth(groups)) \div 2 - 6
  IN  2 * (IF Odd(x) THEN x ELSE x - 1)
HasX(group) == group.loc # NoLoc /\ group.loc[1] # 0
SpecialPosition(groups) ==
  IF /\ {Cache, Memory} \subseteq DOMAIN groups
     /\ ~HasX(groups[Cache]) /\ HasX(groups[Memory])
     /\ CacheX(groups) >= 0
  THEN [groups EXCEPT ![Cache].loc = <<CacheX(groups), groups[Memory].loc[2]>>,
                      ![Cache].dims = <<<<CacheWidth(groups), groups[Memory].dims[1][2]>>>>]
  ELSE groups

(***************************************************************************)
(* solveILPPartial, up to the first problem: groups with a location are    *)
(* placed already, the others are taken a batch at a time from the largest *)
(* on (equal areas in any order).                                          *)
(***************************************************************************)
Located(groups) == {n \in DOMAIN groups : groups[n].loc # NoLoc}
ByArea(groups, names) ==
  {s \in [1..Cardinality(names) -> names] :
     /\ Range(s) = names
     /\ \A i, j \in DOMAIN s : i < j => groups[s[i]].area <= groups[s[j]].area}
StartBatches(groups, first, k) ==
  LET special == SpecialPosition(groups)
  IN  /\ wanted' = special /\ reuse' = first /\ batch' = k
      /\ placed' = [n \in Located(special) |-> special[n]]
      /\ unplaced' \in ByArea(special, DOMAIN special \ Located(special))

(* A group whose area changed by less than a hundredth keeps its shape.    *)
Unchanged_Grown(new, old) == 101 * new > 100 * old
Unchanged(new, old) == 101 * new > 100 * old /\ 100 * new < 101 * old
Reused(groups) ==
  [n \in DOMAIN groups |->
     IF n \in DOMAIN stored /\ Unchanged(groups[n].area, stored[n].area)
     THEN [groups[n] EXCEPT !.dims = stored[n].dims] ELSE groups[n]]

StartBuild ==
  /\ phase = "start" /\ builds < MaxBuilds
  /\ builds' = builds + 1
  /\ \E report \in Reports : \E e \in {Elaborated(file, report)} :
       IF ~Legal(e)
       THEN phase' = "failed" /\ UNCHANGED <<original, placeVars>>
       ELSE /\ original' = AreaGroups(e, EmitPlatform)
            /\ IF stored = <<>> THEN StartBatches(original', FALSE, 1)
               ELSE StartBatches(Reused(original'), TRUE, 1)
            /\ phase' = "place"
  /\ UNCHANGED <<file, stored, tourVars>>

(***************************************************************************)
(* dumpILPRosen: the constraints between two groups, with the binary       *)
(* variables i and j that say on which side a is of b.                     *)
(***************************************************************************)
IndexIn(seq, x) == CHOOSE i \in DOMAIN seq : seq[i] = x
W(g) == g.dims[1][1]
H(g) == g.dims[1][2]
Rosen_OneSided(a, b, i, j) ==
  /\ a.loc[1] + W(a) <= b.loc[1] + ChipX * i + ChipX * j
  /\ a.loc[2] + H(a) <= b.loc[2] + ChipY + ChipY * i - ChipY * j
Rosen(a, b, i, j) ==
  /\ a.loc[1] + W(a) <= b.loc[1] + ChipX * i + ChipX * j
  /\ a.loc[1] - W(b) >= b.loc[1] - ChipX + ChipX * i - ChipX * j
  /\ a.loc[2] + H(a) <= b.loc[2] + ChipY + ChipY * i - ChipY * j
  /\ a.loc[2] - H(b) >= b.loc[2] - 2 * ChipY + ChipY * i + ChipY * j
Related(given, a, b, m, n) ==
  \/ {m, n} \subseteq given
  \/ "EMPTYBOX" \in a.attrs /\ "EMPTYBOX" \in b.attrs
  \/ \E i, j \in {0, 1} : Rosen(a, b, i, j)
OnChip(g) == /\ g.loc[1] >= 0 /\ g.loc[1] + W(g) <= ChipX
             /\ g.loc[2] >= 0 /\ g.loc[2] + H(g) <= ChipY
Solves(solution, given) ==
  /\ \A n \in DOMAIN solution \ given : OnChip(solution[n])
  /\ \A m, n \in DOMAIN solution :
       IndexIn(Alphabet, m) < IndexIn(Alphabet, n) => Related(given, solution[m], solution[n], m, n)

(* The next batch, and what the solver may choose for it: corners, and the *)
(* shape of every group of the problem that has a choice.  No solution has *)
(* a group that is by itself larger than the chip.                         *)
Batch == {unplaced[i] : i \in {j \in DOMAIN unplaced : j > Len(unplaced) - batch}}
Given ==
  [n \in DOMAIN placed \cup Batch |-> IF n \in DOMAIN placed THEN placed[n] ELSE wanted[n]]
Corner == {f \in [Batch -> Grid \X Grid] : \A n \in Batch : f[n][1] < ChipX /\ f[n][2] < ChipY}
Shape ==
  LET open == {n \in DOMAIN Given : Len(Given[n].dims) > 1}
  IN  {f \in [open -> 1..4] :
         \A n \in open : Given[n].dims[f[n]][1] <= ChipX /\ Given[n].dims[f[n]][2] <= ChipY}
Solution(at, shape) ==
  [n \in DOMAIN Given |->
     [Given[n] EXCEPT !.loc = IF n \in Batch THEN at[n] ELSE @,
                      !.dims = IF n \in DOMAIN shape THEN <<@[shape[n]]>> ELSE @]]

SolveBatch ==
  /\ phase = "place" /\ unplaced # <<>>
  /\ \E at \in Corner, shape \in Shape : \E s \in {Solution(at, shape)} :
       Solves(s, DOMAIN placed) /\ placed' = s
  /\ unplaced' = SubSeq(unplaced, 1, Len(unplaced) - batch)
  /\ UNCHANGED <<file, phase, builds, stored, wanted, original, reuse, batch, tourVars>>

(* No solution found: larger batches, then without reuse, then no build.   *)
SolveFails ==
  /\ phase = "place" /\ unplaced # <<>>
  /\ IF batch < 3 THEN StartBatches(wanted, reuse, batch + 1) /\ UNCHANGED phase
     ELSE IF reuse THEN StartBatches(original, FALSE, 1) /\ UNCHANGED phase
     ELSE phase' = "failed" /\ UNCHANGED placeVars
  /\ UNCHANGED <<file, builds, stored, original, tourVars>>

(***************************************************************************)
(* sort_area_groups and tsp.py.  Lengths are between the midpoints, in     *)
(* whole quarter slices.                                                   *)
(***************************************************************************)
Dist(a, b) ==
  LET dx == 2 * a.loc[1] + W(a) - 2 * b.loc[1] - W(b)
      dy == 2 * a.loc[2] + H(a) - 2 * b.loc[2] - H(b)
  IN  Root(dx * dx + dy * dy)
Leg(t, i) == Dist(placed[t[i]], placed[t[(i % Len(t)) + 1]])
TourLength(t) ==
  LET total[i \in 0..Len(t)] == IF i = 0 THEN 0 ELSE total[i - 1] + Leg(t, i)
  IN  total[Len(t)]

(* reversed_sections: the section from i to j, or the one round the end.   *)
Section_NotWrapped(t, i, j) ==
  SubSeq(t, 1, i) \o Reverse(SubSeq(t, j, Len(t)))
Section(t, i, j) ==
  IF i <= j THEN SubSeq(t, 1, i - 1) \o Reverse(SubSeq(t, i, j)) \o SubSeq(t, j + 1, Len(t))
  ELSE Reverse(SubSeq(t, i + 1, Len(t))) \o SubSeq(t, j, i) \o Reverse(SubSeq(t, 1, j - 1))
Moves(t) == {Section(t, i, j) : i, j \in DOMAIN t} \ {t}

(* The names in the order of one that has more.                            *)
InOrder(order, names) ==
  {s \in [1..Cardinality(names) -> names] :
     /\ Range(s) = names
     /\ \A i, j \in DOMAIN s : i < j => IndexIn(order, s[i]) < IndexIn(order, s[j])}

StartTour ==
  /\ phase = "place" /\ unplaced = <<>>
  /\ tour' \in UNION {InOrder(t, DOMAIN placed) : t \in FirstTours}
  /\ best' = tour' /\ evals' = 1
  /\ phase' = "tour"
  /\ UNCHANGED <<file, builds, stored, original, placeVars, sortIdx>>

(* A tour that is no longer is always taken, a longer one by chance.       *)
Better(s, t) == TourLength(s) < TourLength(t)
Evaluate ==
  /\ phase = "tour" /\ evals < MaxEvals
  /\ \E next \in Moves(tour) :
       /\ best' = IF Better(next, best) THEN next ELSE best
       /\ tour' = next \/ (TourLength(next) > TourLength(tour) /\ tour' = tour)
  /\ evals' = evals + 1
  /\ UNCHANGED <<file, phase, builds, stored, original, placeVars, sortIdx>>

(* The path is stored in the order of the dictionary: its i-th group to    *)
(* visit, a number, with the i-th group.                                   *)
FinishTour ==
  /\ phase = "tour" /\ evals = MaxEvals
  /\ \E order \in DictOrders : \E keys \in InOrder(order, DOMAIN placed) :
       sortIdx' = [n \in DOMAIN placed |-> IndexIn(keys, best[IndexIn(keys, n)])]
  /\ phase' = "done"
  /\ UNCHANGED <<file, builds, stored, original, placeVars, tour, best, evals>>

(* cutTreeBuild stores what was placed; later, another build.              *)
StoreAreaConstraints ==
  /\ phase = "done" /\ builds < MaxBuilds
  /\ stored' = [n \in DOMAIN placed |-> [area |-> placed[n].area, dims |-> placed[n].dims]]
  /\ phase' = "start"
  /\ wanted' = <<>> /\ original' = <<>> /\ reuse' = FALSE /\ batch' = 0
  /\ placed' = <<>> /\ unplaced' = <<>>
  /\ tour' = <<>> /\ best' = <<>> /\ evals' = 0 /\ sortIdx' = <<>>
  /\ UNCHANGED <<file, builds>>

Next == \/ StartBuild \/ SolveBatch \/ SolveFails
        \/ StartTour \/ Evaluate \/ FinishTour \/ StoreAreaConstraints

Spec == Init /\ [][Next]_vars

-----------------------------------------------------------------------------
(* What the user placed: a pair of these is the user's responsibility, and *)
(* so is the central cache, when it was put beside the memory controller,  *)
(* to the others of these.                                                 *)
UserPlaced == Located(original)
Excused(m, n) ==
  \/ {m, n} \subseteq UserPlaced
  \/ {m, n} \subseteq UserPlaced \cup (Located(wanted) \cap {Cache}) /\ {m, n} # {Cache, Memory}
  \/ "EMPTYBOX" \in placed[m].attrs \cap placed[n].attrs

(* No two area groups overlap, whatever batches they were placed in: the   *)
(* two binary variables of every pair leave no way but beside or above     *)
(* each other (area_group_tool.py:486).                                    *)
Apart(a, b) == \/ a.loc[1] + W(a) <= b.loc[1] \/ b.loc[1] + W(b) <= a.loc[1]
               \/ a.loc[2] + H(a) <= b.loc[2] \/ b.loc[2] + H(b) <= a.loc[2]
NoOverlap ==
  \A m, n \in DOMAIN placed : m = n \/ Excused(m, n) \/ Apart(placed[m], placed[n])

(* The pblocks written for Vivado, slices numbered from 0: rounded to      *)
(* whole slices and these to tiles of two, after a halo of three, "so that *)
(* they do not overlap on rounding" (area_group_tool.py:193).  No slice is *)
(* in two of them.                                                         *)
Halo_None == 0
Halo == 3
Truncated(x) == IF x >= 0 THEN x \div 2 ELSE -((-x) \div 2)
Pblock(g) ==
  LET low(x) == ((Truncated(x) + Halo) \div 2) * 2
      high(x) == ((Truncated(x) - Halo) \div 2) * 2 + 1
  IN  [x |-> low(g.loc[1])..high(g.loc[1] + W(g)), y |-> low(g.loc[2])..high(g.loc[2] + H(g))]
PblocksDisjoint ==
  phase \in {"tour", "done"} =>
    \A m, n \in DOMAIN placed :
      \/ m = n \/ Excused(m, n)
      \/ Pblock(placed[m]).x \cap Pblock(placed[n]).x = {}
      \/ Pblock(placed[m]).y \cap Pblock(placed[n]).y = {}

(* What elaboration may make of a constraint file: tables of groups, one   *)
(* for every report.                                                       *)
Elaborations ==
  [f \in Files |-> {AreaGroups(Elaborated(f, r), EmitPlatform) :
                      r \in {x \in Reports : Legal(Elaborated(f, x))}}]

(* Two areas that can be k changes of less than a hundredth apart.         *)
Power(b, k) == LET power[i \in 0..k] == IF i = 0 THEN 1 ELSE b * power[i - 1] IN power[k]
Near(a, b, k) == /\ Power(100, k) * a <= Power(101, k) * b
                 /\ Power(100, k) * b <= Power(101, k) * a

(* A shape outlives the report it was made for, but not by much ("within   *)
(* say a few percent", area_group_tool.py:333): it is one that elaboration *)
(* gives the group for an area less than a hundredth off per build since,  *)
(* of which the errors add up.  The central cache may have the height of   *)
(* the memory controller instead.                                          *)
ShapesFollowAreas ==
  phase \in {"tour", "done"} =>
    \A n \in DOMAIN placed \ {Cache} : \E t \in Elaborations[file] :
      /\ n \in DOMAIN t /\ placed[n].dims[1] \in Range(t[n].dims)
      /\ Near(placed[n].area, t[n].area, builds - 1)

(* The annealing moves on to longer tours, yet what it returns is a tour   *)
(* of all the groups no longer than the one it is at, and the sort order   *)
(* numbers the groups from 1 without gaps, as placement_cut needs.         *)
TourIsBest ==
  /\ phase \in {"tour", "done"} =>
       /\ Range(best) = DOMAIN placed /\ Len(best) = Cardinality(DOMAIN placed)
       /\ TourLength(best) <= TourLength(tour)
  /\ phase = "done" => Range(sortIdx) = 1..Cardinality(DOMAIN placed)
=============================================================================
