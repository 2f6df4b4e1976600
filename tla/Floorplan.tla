----------------------------- MODULE Floorplan -----------------------------
(***************************************************************************)
(* The operators of the floorplanner, area_group_tool.py of                *)
(* src/modules/leap/build-support/build-pipelines/stages/area_group: from  *)
(* the user's constraint file and the resources the first pass reported to *)
(* area groups, the constraints of the placement problem, the pblocks.     *)
(*                                                                         *)
(* A group is [area, dims, loc, attrs, parent, children].  "dims" is the   *)
(* sequence of shapes <<width, height>> to choose from and "loc" the lower *)
(* left corner, or NoLoc.  Lengths are in half slices and areas in whole   *)
(* slices: the code's are floats until the pblocks are written, so that    *)
(* corners and sizes need not be whole.                                    *)
(***************************************************************************)
EXTENDS Integers, Sequences, FiniteSets, SequencesExt, FiniteSetsExt, TLC

CONSTANTS
  ChipX, ChipY,     \* the size of the FPGA: the DIMENSION FPGA statement
  NoLoc, NoGroup,   \* a group without location, without parent
  NoSlices,         \* a module whose report names LUTs but no slices
  Platform          \* the PLATFORM_MODULEs of the first pass's graph

ASSUME ChipAssumption == ChipX \in Nat \ {0} /\ ChipY \in Nat \ {0}

Cache == "central_cache_service"
Memory == "ddr3"

(* The whole part of a square root.                                        *)
Root(n) == CHOOSE r \in 0..n : r * r <= n /\ n < (r + 1) * (r + 1)

(* withExtraArea: a third more and 250.                                    *)
WithExtraArea(area) == (133 * area) \div 100 + 250

(***************************************************************************)
(* elaborateAreaConstraints.  A statement of the constraint file is a      *)
(* record with a "kind"; "e" is the elaboration so far, and ok is FALSE    *)
(* once it has ended in exit(1) or an exception.                           *)
(***************************************************************************)
NewGroup == [area |-> 0, dims |-> <<>>, loc |-> NoLoc, attrs |-> {},
             parent |-> NoGroup, children |-> {}]

(* The statements about groups and modules.                                *)
Kinds == {"group", "resource", "size", "location", "attribute", "in"}

(* First, a group for every module of the report, and the declared ones.   *)
Declared(file) == {c.name : c \in {d \in Range(file) : d.kind = "group"}}
Groups(file, report) == [n \in DOMAIN report \cup Declared(file) |-> NewGroup]

Known(e, name) == name \in DOMAIN e.groups
Failed(e) == [e EXCEPT !.ok = FALSE]

(* A child has one parent, and no children at the time.  A parent nobody   *)
(* knows leaves it without one.                                            *)
Relate(e, child, parent) ==
  IF ~Known(e, parent) THEN [e EXCEPT !.groups[child].parent = NoGroup]
  ELSE IF e.groups[child].parent # NoGroup \/ (e.groups[child].children # {} \/ child = parent)
       THEN Failed(e)
       ELSE [e EXCEPT !.groups[parent].children = @ \cup {child}, !.groups[child].parent = parent]

Apply(e, c) ==
  IF ~e.ok THEN e
  ELSE IF c.kind = "group" THEN e
  ELSE IF c.kind = "resource" THEN [e EXCEPT !.slices = (c.name :> c.value) @@ @]
  ELSE IF ~Known(e, c.name) THEN Failed(e)
  ELSE CASE c.kind = "size"      -> [e EXCEPT !.groups[c.name].dims = <<c.value>>]
         [] c.kind = "location"  -> [e EXCEPT !.groups[c.name].loc = c.value]
         [] c.kind = "attribute" -> [e EXCEPT !.groups[c.name].attrs = @ \cup {c.value}]
         [] c.kind = "in"        -> Relate(e, c.name, c.value)

(* The reported slices, else the declared size.                            *)
Slices(e, n) == IF n \in DOMAIN e.slices THEN e.slices[n] ELSE NoSlices
HasArea(e, n) == Slices(e, n) # NoSlices \/ e.groups[n].dims # <<>>
BaseArea(e, n) ==
  IF Slices(e, n) # NoSlices THEN Slices(e, n)
  ELSE (e.groups[n].dims[1][1] * e.groups[n].dims[1][2]) \div 4

(* A child is taken out of its parent, unless it was synthesized apart.    *)
Inside(e, n) == {k \in e.groups[n].children : "SYNTH_BOUNDARY" \notin e.groups[k].attrs}
ChildArea(e, k) == IF Slices(e, k) # NoSlices THEN Slices(e, k) ELSE BaseArea(e, k) \div 2
NetArea(e, n) == BaseArea(e, n) - MapThenSumSet(LAMBDA k : ChildArea(e, k), Inside(e, n))

(* Shapes of one, four, sixteen and sixty-four to one.                     *)
Shapes(area) ==
  LET affineCoefs == <<1, 2, 4, 8>>
      moduleRoot == Root(4 * WithExtraArea(area))
  IN  [i \in 1..4 |-> <<affineCoefs[i] * moduleRoot, moduleRoot \div affineCoefs[i]>>]

Finish(e) ==
  [n \in DOMAIN e.groups |->
     [e.groups[n] EXCEPT !.area = NetArea(e, n),
                         !.dims = IF @ = <<>> THEN Shapes(NetArea(e, n)) ELSE @]]

(* The platform is not placed, but for what was synthesized apart.         *)
Purged(groups, emitPlatform) ==
  {n \in DOMAIN groups :
     ~emitPlatform /\ n \in Platform /\ "SYNTH_BOUNDARY" \notin groups[n].attrs}

Elaborated(file, report) ==
  LET upTo[i \in 0..Len(file)] ==
        IF i = 0 THEN [groups |-> Groups(file, report), slices |-> report, ok |-> TRUE]
        ELSE Apply(upTo[i - 1], file[i])
  IN  upTo[Len(file)]
Legal(e) ==
  /\ e.ok
  /\ \A n \in DOMAIN e.groups : /\ HasArea(e, n)
                                /\ Inside(e, n) \subseteq DOMAIN e.slices
AreaGroups(e, emitPlatform) ==
  LET groups == Finish(e)
  IN  [n \in DOMAIN groups \ Purged(groups, emitPlatform) |-> groups[n]]
=============================================================================
