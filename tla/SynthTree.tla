----------------------------- MODULE SynthTree -----------------------------
(***************************************************************************)
(* cutTreeBuild of BSVSynthTreeBuilder.py: cut the LI graph into a binary  *)
(* tree of modules and write the Bluespec wrappers that join the children  *)
(* of every node, so that the compiler never sees all the soft connections *)
(* of the program at once.                                                 *)
(*                                                                         *)
(* Three phases.  "cut": cutRecurse, whose calls are frames of a stack,    *)
(* one action per call.  "emit": emitWrappersRecurse, likewise.  "top":    *)
(* the files' end and the top-level wrapper, that hands what is left to    *)
(* the platform.                                                           *)
(*                                                                         *)
(* A node of the tree is <<"leaf", m>>, <<"node", i>> or <<"empty", i>>;   *)
(* <<"node", 0>> stands for build_tree.                                    *)
(***************************************************************************)
EXTENDS LIGraph

CONSTANTS
  Programs,     \* the programs to build
  NoArea,       \* no area groups: cut by connections
  Orders,       \* the sort orders area groups may come with, and NoArea
  MaxRules      \* rules a scheduler takes before a node becomes a boundary

ASSUME TreeAssumption == /\ Programs \subseteq Program
                         /\ \A o \in Orders : o = NoArea \/ (o \in [Modules -> Int] /\ IsInjective(o))
                         /\ MaxRules \in Nat

VARIABLES
  prog,     \* the program being built
  sortIdx,  \* the order of the area groups, or NoArea
  lim,      \* TRUE in the second pass: the graph comes from the first one
  phase,    \* "cut", "emit", "top" or "done"
  names,    \* module_names: the names not used yet, the last one goes next
  calls,    \* calls of cutRecurse to make: [nodes, of, side]
  tree,     \* children of each node of the tree
  empties,  \* empty_count
  emits,    \* calls of emitWrappersRecurse: [node, enter]
  conns,    \* the LI connections of every module of the tree
  wires,    \* connectOutToIn statements written
  rules,    \* numExportedRules
  files,    \* Verilog files the compiled wrappers will produce, in order
  top       \* connections registered with the platform
vars == <<prog, sortIdx, lim, phase, names, calls, tree, empties, emits, conns, wires, rules,
          files, top>>

cutVars  == <<calls, names, empties>>
emitVars == <<emits, conns, wires, rules>>

TreeNode(i) == <<"node", i>>
Empty(i)  == <<"empty", i>>
Root      == TreeNode(0)
Unset     == <<"unset", 0>>

(* One name per node a tree of the expected modules has, less the last     *)
(* level; in the second pass the graph counts a platform module as well.   *)
WrapperCount(p, second) ==
  IF second THEN Cardinality(Nodes(p)) + 1 - 2 ELSE N - 2
TreeNames_OneShort(p, second) ==
  [i \in 1..(WrapperCount(p, second) - 1) |-> TreeNode(i)] \o <<Root>>
TreeNames(p, second) == [i \in 1..WrapperCount(p, second) |-> TreeNode(i)] \o <<Root>>

(* The one module that gets `empty' for a sibling.                         *)
Vestigial == 0
StartNodes(p) == IF Cardinality(Nodes(p)) = 1 THEN Nodes(p) \cup {Vestigial} ELSE Nodes(p)

(* The connections of the leaves, from the logs or, in the second pass,    *)
(* merged from the first pass's graph: matched only in the wrappers.       *)
LeafConns(p) == [l \in {Leaf(m) : m \in Nodes(p)} |-> ParseLog(p, l[2])]

(***************************************************************************)
(* The second pass cuts by area only: the first has no placement to load.  *)
(* A program of one module is left out there, as `empty' has no area       *)
(* group (KeyError in placement_cut).                                      *)
(***************************************************************************)
Init ==
  /\ prog \in Programs
  /\ sortIdx \in Orders
  /\ lim \in IF sortIdx = NoArea THEN BOOLEAN ELSE {TRUE}
  /\ sortIdx # NoArea => Cardinality(Nodes(prog)) # 1
  /\ phase = "cut"
  /\ names = TreeNames(prog, lim)
  /\ calls = <<[nodes |-> StartNodes(prog), of |-> Unset, side |-> 0]>>
  /\ tree = <<>> /\ empties = 0
  /\ emits = <<>>
  /\ conns = LeafConns(prog)
  /\ wires = {} /\ files = <<>> /\ top = {}
  /\ rules = [l \in {Leaf(m) : m \in Nodes(prog)} |-> 0]

Frame == Last(calls)
Cut(nodes, edges) ==
  IF sortIdx = NoArea THEN MinCut(nodes, edges) ELSE PlacementCut(nodes, sortIdx)

(* A graph of one module is that module; one of none or several is cut     *)
(* again.  Only connections are copied: a module without any is lost.      *)
Halves(nodes, side) == <<side \ {Vestigial}, (nodes \ side) \ {Vestigial}>>
Child(part) == IF Cardinality(part) = 1 THEN Leaf(CHOOSE m \in part : TRUE) ELSE Unset

(* A table with one more entry. *)
With(f, x, v) == [y \in DOMAIN f \cup {x} |-> IF y = x THEN v ELSE f[y]]

SetChild(t, f, n) == IF f.of = Unset THEN t ELSE [t EXCEPT ![f.of][f.side] = n]
Subcall(n, part, s) ==
  IF Cardinality(part) = 1 THEN <<>> ELSE <<[nodes |-> part, of |-> n, side |-> s]>>
Subcalls(n, halves) == Subcall(n, halves[2], 2) \o Subcall(n, halves[1], 1)
EndCut == phase' = IF calls' = <<>> THEN "emit" ELSE "cut"
StartEmit == emits' = IF calls' = <<>> THEN <<[node |-> Root, enter |-> TRUE]>> ELSE emits

(* cutRecurse on nothing, below the top: an empty module of its own name.  *)
CutEmpty ==
  /\ phase = "cut" /\ Frame.nodes = {} /\ Frame.of # Unset
  /\ calls' = Front(calls)
  /\ tree' = SetChild(tree, Frame, Empty(empties))
  /\ empties' = empties + 1
  /\ conns' = With(conns, Empty(empties), {})
  /\ rules' = With(rules, Empty(empties), 0)
  /\ EndCut /\ StartEmit
  /\ UNCHANGED <<prog, sortIdx, lim, names, wires, files, top>>

(* cutRecurse on a graph: cut it, name the node, call for both halves. The *)
(* name is popped off the list: an empty list raises IndexError.           *)
CutNode ==
  /\ phase = "cut" /\ (Frame.nodes # {} \/ Frame.of = Unset)
  /\ names # <<>>
  /\ \E edges \in {Edges(prog, Frame.nodes)} : \E side \in {Cut(Frame.nodes, edges)} :
       LET halves == Halves(Frame.nodes, side)
           n == Last(names)
       IN  /\ names' = Front(names)
           /\ tree' = With(SetChild(tree, Frame, n), n, <<Child(halves[1]), Child(halves[2])>>)
           /\ calls' = Front(calls) \o Subcalls(n, halves)
  /\ EndCut /\ StartEmit
  /\ UNCHANGED <<prog, sortIdx, lim, empties, conns, wires, rules, files, top>>

(***************************************************************************)
(* emitWrappersRecurse.  Leaves and empty modules have no children and     *)
(* return at once, so only nodes are entered.                              *)
(***************************************************************************)
Emitting == Last(emits)
Visit(n) == IF n \in DOMAIN tree THEN <<[node |-> n, enter |-> TRUE]>> ELSE <<>>
EnterNode ==
  /\ phase = "emit" /\ emits # <<>> /\ Emitting.enter
  /\ emits' = Front(emits) \o <<[Emitting EXCEPT !.enter = FALSE]>>
                \o Visit(tree[Emitting.node][2]) \o Visit(tree[Emitting.node][1])
  /\ UNCHANGED <<prog, sortIdx, lim, phase, tree, cutVars, conns, wires, rules, files, top>>

Of(conn) == <<conn.at, conn.idx>>
IsOut(conn) == conn.kind = "Send"

(* connectOutToIn for a matched pair, child 0's chain always upstream.     *)
Wire(x, y) ==
  LET o == IF x.kind = "Chain" \/ IsOut(x) THEN x ELSE y
      i == IF o = x THEN y ELSE x
  IN  [kind |-> x.kind = "Chain", name |-> x.name, out |-> Of(o), in |-> Of(i),
       buf |-> <<o.rout, i.rin>>]

(***************************************************************************)
(* The connections a and b of the two children.  A matched channel goes no *)
(* further up.  A chain always does: whole when only one child is on it,   *)
(* else child 0's input with child 1's output.  Services always go up.     *)
(***************************************************************************)
MatchedPairs(a, b) == {q \in a \X b : ChannelMatches(q[1], q[2]) \/ ChainMatches(q[1], q[2])}
Matched(a, b) == {q[1].name : q \in MatchedPairs(a, b)}
Joins(c, a, b) == c.kind = "Chain" /\ c.name \in Matched(a, b)
Raised(a, b) ==
  {c \in a \cup b : IF Joins(c, a, b) THEN c \in b
                    ELSE IsChannel(c) => c.name \notin Matched(a, b)}
Upstream(c, a, b) ==
  IF Joins(c, a, b) THEN CHOOSE x \in a : x.kind = "Chain" /\ x.name = c.name ELSE c

(* Numbered from 0 per kind, child 0's before child 1's.                   *)
Number_ChildOnes(c, a, b) == c.idx
Number(c, a, b) ==
  Cardinality({d \in Raised(a, b) : /\ d.kind = c.kind
                                    /\ IF d.at = c.at THEN d.idx < c.idx ELSE d \in a})
Merged_KeepsRoot(c, chain0) == [c EXCEPT !.in = Of(chain0), !.out = Of(c)]
Merged_ChildOnes(c, chain0) == [c EXCEPT !.rin = chain0.rin, !.in = Of(c), !.out = Of(c)]
Merged(c, chain0) == [c EXCEPT !.rin = chain0.rin, !.in = Of(chain0), !.out = Of(c)]
Exposed(n, a, b) ==
  {[Merged(c, Upstream(c, a, b)) EXCEPT !.at = n, !.idx = Number(c, a, b)] : c \in Raised(a, b)}

(* Write the wrapper of a node whose children have theirs.  One that is    *)
(* no synthesis boundary writes a dummy Verilog file under the same name.  *)
EmitNode ==
  /\ phase = "emit" /\ emits # <<>> /\ ~Emitting.enter
  /\ LET n == Emitting.node
         a == conns[tree[n][1]]
         b == conns[tree[n][2]]
         mine == Exposed(n, a, b)
         total == Cardinality({c \in mine : IsChannel(c)}) + rules[tree[n][1]] + rules[tree[n][2]]
     IN  /\ wires' = wires \cup {Wire(q[1], q[2]) : q \in MatchedPairs(a, b)}
         /\ conns' = With(conns, n, mine)
         /\ rules' = With(rules, n, IF total > MaxRules THEN 0 ELSE total)
         /\ files' = Append(files, n)
         /\ emits' = Front(emits)
         /\ phase' = IF emits' = <<>> THEN "top" ELSE "emit"
  /\ UNCHANGED <<prog, sortIdx, lim, tree, cutVars, top>>

(***************************************************************************)
(* The names left over get dummy modules, in the order of the list;        *)
(* generateTopSynthWrapper registers what is exposed.  It drops a module   *)
(* without channels and chains, services notwithstanding.                  *)
(***************************************************************************)
Registered(mine) ==
  IF \E c \in mine : IsChannel(c) \/ c.kind = "Chain" THEN mine ELSE {}
FinishFiles ==
  /\ phase = "top"
  /\ files' = files \o names
  /\ top' = Registered(conns[Root])
  /\ phase' = "done"
  /\ UNCHANGED <<prog, sortIdx, lim, tree, cutVars, emitVars>>

Next == CutEmpty \/ CutNode \/ EnterNode \/ EmitNode \/ FinishFiles

Spec == Init /\ [][Next]_vars

-----------------------------------------------------------------------------
(***************************************************************************)
(* What a reference to a module's connection leads to in the leaves: down  *)
(* through the vectors of the wrappers, of which there are no more levels  *)
(* than files.                                                             *)
(***************************************************************************)
Behind(kind, end, ref) ==
  (CHOOSE c \in conns[ref[1]] : c.kind = kind /\ c.idx = ref[2])[end]
Behold(kind, end, ref) ==
  LET down[k \in 0..Len(files)] == IF k = 0 THEN ref ELSE Behind(kind, end, down[k - 1])
  IN  down[Len(files)]

WireEnds(w) == IF w.kind THEN <<Behold("Chain", "out", w.out), Behold("Chain", "in", w.in)>>
               ELSE <<Behold("Send", "out", w.out), Behold("Recv", "in", w.in)>>
TopEnd(c, end) == Behold(c.kind, end, Of(c))
At(ref) == ref[1][2]   \* the module of a reference to a leaf

LeafEnd(kind, name, m) ==
  Of(CHOOSE c \in conns[Leaf(m)] : c.kind = kind /\ c.name = name)

(* Every channel with both ends in the program is joined by one wire, from *)
(* its sender's port to its receiver's, and no other wire is a channel's;  *)
(* every other end of a channel or a service is registered with the        *)
(* platform once and stands for that end.  The indices pass through every  *)
(* level of wrappers, renumbered at each.                                  *)
EveryEndConnected ==
  phase = "done" =>
    LET joined == {c \in Range(ChanSeq) : 0 \notin Range(prog.chan[c])}
        wired == {w \in wires : ~w.kind}
        left == {c \in top : c.kind # "Chain"}
        ends == {e \in {"Send", "Recv"} \X (Range(ChanSeq) \ joined) :
                   prog.chan[e[2]][IF e[1] = "Send" THEN 1 ELSE 2] # 0}
        Registers(kind, name, m) ==
          \E c \in left : /\ c.kind = kind /\ c.name = name
                          /\ TopEnd(c, "out") = LeafEnd(kind, name, m) /\ c.rout = m
    IN  /\ Cardinality(wired) = Cardinality(joined)
        /\ \A c \in joined : \E w \in wired :
              WireEnds(w) = <<LeafEnd("Send", c, prog.chan[c][1]), LeafEnd("Recv", c, prog.chan[c][2])>>
        /\ top # {} =>
             /\ \A e \in ends : Registers(e[1], e[2], prog.chan[e[2]][IF e[1] = "Send" THEN 1 ELSE 2])
             /\ \A m \in prog.client : Registers("Client", ServiceName, m)
             /\ prog.server # 0 => Registers("Server", ServiceName, prog.server)
             /\ Cardinality(left) = Cardinality(ends) + Cardinality(prog.client)
                                      + (IF prog.server = 0 THEN 0 ELSE 1)

(* A chain is one ring: from the input the platform drives, module after   *)
(* module, to the output it reads, through every module on the chain.      *)
ChainHops(k) == {w \in wires : w.kind /\ w.name = k}
ChainTop(k) == {c \in top : c.kind = "Chain" /\ c.name = k}
ChainPath(k) ==
  LET hops == {<<At(WireEnds(w)[1]), At(WireEnds(w)[2])>> : w \in ChainHops(k)}
      start == At(TopEnd(CHOOSE c \in ChainTop(k) : TRUE, "in"))
      path[i \in 1..Cardinality(prog.chain[k])] ==
        IF i = 1 THEN start
        ELSE IF \E h \in hops : h[1] = path[i - 1]
             THEN (CHOOSE h \in hops : h[1] = path[i - 1])[2] ELSE 0
  IN  path
ChainsThreaded ==
  phase = "done" =>
    \A k \in Range(ChainSeq) : prog.chain[k] # {} =>
      LET path == ChainPath(k)
      IN  /\ Cardinality(ChainTop(k)) = 1
          /\ Range(path) = prog.chain[k]
          /\ Cardinality(ChainHops(k)) = Len(path) - 1
          /\ \A c \in ChainTop(k) : At(TopEnd(c, "out")) = Last(path)

(* With area groups, a chain goes through its modules in the sort order:   *)
(* the tree follows the physical topology (BSVSynthTreeBuilder.py:671).    *)
ChainsFollowOrder ==
  phase = "done" /\ sortIdx # NoArea =>
    \A k \in Range(ChainSeq) : prog.chain[k] # {} =>
      LET path == ChainPath(k)
      IN  \A i \in 1..(Len(path) - 1) : sortIdx[path[i]] < sortIdx[path[i + 1]]

(* The buffers on a wire are counted between the area groups of the root   *)
(* modules it joins, however far up the tree it is written; and the ones   *)
(* the platform's ends get, from the roots of those ends.                  *)
BuffersFollowRoots ==
  phase = "done" =>
    /\ \A w \in wires : w.buf = <<At(WireEnds(w)[1]), At(WireEnds(w)[2])>>
    /\ \A c \in top : c.rin = At(TopEnd(c, "in")) /\ c.rout = At(TopEnd(c, "out"))

(* There is a name for every node, and the compiled wrappers produce every *)
(* Verilog file that SCons was promised before the tree was known, once.   *)
PromisedFilesMade ==
  /\ phase = "cut" /\ (Frame.nodes # {} \/ Frame.of = Unset) => names # <<>>
  /\ phase = "done" => /\ Range(files) = Range(TreeNames(prog, lim))
                       /\ Len(files) = Len(TreeNames(prog, lim))

=============================================================================
