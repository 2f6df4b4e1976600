------------------------------ MODULE LIGraph ------------------------------
(***************************************************************************)
(* The latency-insensitive (LI) graph of the build pipeline:               *)
(* src/modules/leap/build-support/build-pipelines/stages/li_module.        *)
(*                                                                         *)
(* A module of the user's program is compiled on its own.  Its compiler    *)
(* log lists the soft connections it leaves dangling: Send and Recv ends   *)
(* of channels, Chain segments, service Clients and Servers.  The graph    *)
(* has one node for each module with a dangling connection and an edge     *)
(* from the sender to the receiver of each matched channel.                *)
(*                                                                         *)
(* A module is a number: module i is the i-th in alphabetical order, the   *)
(* order min_cut goes through them.  A program gives the two ends of every *)
(* channel name (0: that end is in no module of the graph), the modules on *)
(* every chain, the clients and the server of one service.                 *)
(***************************************************************************)
EXTENDS Integers, Sequences, FiniteSets, SequencesExt, FiniteSetsExt

CONSTANTS
  N,            \* modules 1..N have a synthesis boundary and a log
  ChanSeq,      \* the names of the channels, in the order of the logs
  ChainSeq,     \* the names of the chains
  ServiceName   \* the name of the service

ASSUME GraphAssumption == N \in Nat

(* The tree keeps the names it matched in one table, those of channels and *)
(* those of chains: no name may be both.                                   *)
ASSUME NamesAssumption ==
  /\ ChanSeq \in Seq(Range(ChanSeq)) /\ IsInjective(ChanSeq)
  /\ ChainSeq \in Seq(Range(ChainSeq)) /\ IsInjective(ChainSeq)
  /\ Range(ChanSeq) \cap Range(ChainSeq) = {}

Modules == 1..N

(* A name has one sender and one receiver at most: the connection rules of *)
(* the logs' compiler reject a second one.                                 *)
Program ==
  [chan : [Range(ChanSeq) -> {e \in (0..N) \X (0..N) : e[1] # e[2] \/ e[1] = 0}],
   chain : [Range(ChainSeq) -> SUBSET Modules],
   client : SUBSET Modules, server : 0..N]

(***************************************************************************)
(* parseLogfiles.  A connection as the log line gives it: its kind, name,  *)
(* index among the connections of its kind, the module of the tree it is   *)
(* `at', the root modules of its input and its output, and what is behind  *)
(* them.  In a log all of these are the module itself.                     *)
(***************************************************************************)
Leaf(m) == <<"leaf", m>>
Dangling(kind, name, m, i) ==
  [kind |-> kind, name |-> name, idx |-> i, at |-> Leaf(m), rin |-> m, rout |-> m,
   in |-> <<Leaf(m), i>>, out |-> <<Leaf(m), i>>]

(* The lines of one kind in module m's log, one for each of its names,     *)
(* numbered from 0.                                                        *)
Lines(names, kind, m, its) ==
  {Dangling(kind, names[i], m, Cardinality({j \in 1..(i - 1) : names[j] \in its})) :
     i \in {j \in DOMAIN names : names[j] \in its}}

ParseLog(p, m) ==
  LET Chans(end) == {c \in Range(ChanSeq) : p.chan[c][end] = m}
      Service(is) == IF is THEN {ServiceName} ELSE {}
  IN  Lines(ChanSeq, "Send", m, Chans(1))
        \cup Lines(ChanSeq, "Recv", m, Chans(2))
        \cup Lines(ChainSeq, "Chain", m, {c \in Range(ChainSeq) : m \in p.chain[c]})
        \cup Lines(<<ServiceName>>, "Client", m, Service(m \in p.client))
        \cup Lines(<<ServiceName>>, "Server", m, Service(m = p.server))

(* LIGraph.__init__: a module whose log has no line never appears.         *)
Nodes(p) == {m \in Modules : ParseLog(p, m) # {}}

(* Channels match by name, a sender with a receiver; segments of a chain   *)
(* by name.  Services are left to the platform.                            *)
IsChannel(c) == c.kind \in {"Send", "Recv"}
ChannelMatches(a, b) == IsChannel(a) /\ IsChannel(b) /\ a.name = b.name /\ a.kind # b.kind
ChainMatches(a, b) == a.kind = "Chain" /\ b.kind = "Chain" /\ a.name = b.name

(* matchGraphChannels, and the edge of every matched sender.               *)
Edges(p, nodes) ==
  {e \in nodes \X nodes :
     /\ e[1] # e[2]
     /\ \E a \in ParseLog(p, e[1]), b \in ParseLog(p, e[2]) :
          a.kind = "Send" /\ ChannelMatches(a, b)}

(***************************************************************************)
(* min_cut asks maximum_flow, of the graph library, for every pair of a    *)
(* source and a sink, in alphabetical order, and keeps the first cut no    *)
(* other is cheaper than.  With the flow the library returns the side of   *)
(* the source: what the source still reaches, the least of the sets that   *)
(* cut off the sink at that cost.  Its edges have capacity 1, whatever the *)
(* number of channels they stand for.                                      *)
(***************************************************************************)
CutValue(edges, side) == Cardinality({e \in edges : e[1] \in side /\ e[2] \notin side})

(* The first pair of a source and a sink that X is a cut for.              *)
FirstPair(nodes, X) == <<Min(X), Min(nodes \ X)>>
Earlier(p, q) == p[1] < q[1] \/ (p[1] = q[1] /\ p[2] < q[2])
Prefer(nodes, edges, X, Y) ==
  \/ CutValue(edges, X) < CutValue(edges, Y)
  \/ /\ CutValue(edges, X) = CutValue(edges, Y)
     /\ \/ Earlier(FirstPair(nodes, X), FirstPair(nodes, Y))
        \/ FirstPair(nodes, X) = FirstPair(nodes, Y) /\ X \subseteq Y
MinCut(nodes, edges) ==
  LET sides == (SUBSET nodes) \ {{}, nodes}
  IN  IF sides = {} THEN {} ELSE CHOOSE X \in sides : \A Y \in sides : Prefer(nodes, edges, X, Y)

(* placement_cut: the first half in the order of the area groups.          *)
PlacementCut_Unsorted(nodes, sortIdx) ==
  {m \in nodes : Cardinality({n \in nodes : n < m}) < (1 + Cardinality(nodes)) \div 2}
PlacementCut(nodes, sortIdx) ==
  LET position(m) == Cardinality({n \in nodes : sortIdx[n] < sortIdx[m]})
      cutPoint == (1 + Cardinality(nodes)) \div 2
  IN  {m \in nodes : position(m) < cutPoint}
=============================================================================
