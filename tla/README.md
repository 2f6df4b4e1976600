# A TLA+ verification of LEAP

LEAP (Latency-insensitive Environment for Application Programming) is an
operating environment for FPGA applications. An application is a set of
Bluespec modules that talk over *latency-insensitive named channels* ("soft
connections"); LEAP matches the names, builds the point-to-point links and the
rings behind them, places them on one or several FPGAs, and offers services on
top: memories of unlimited size (scratchpads), coherent shared memory, locks
and barriers, statistics, parameters, stdio, and remote procedure calls to
software on the host.

Here are TLA+ models of two sides of LEAP: the distributed hardware services
and the rings they stand on, and the build system, the Python program that turns
a tree of modules into wrappers, a floorplan and a graph of commands for SCons.
TLC configurations check them on small instances, and TLAPS checks proofs about
them. Paths below are relative to `src/`; `SS/` is
`src/modules/leap/libraries/soft-services/services/`, `BS/` is
`src/modules/leap/build-support/` and `ST/` its `build-pipelines/stages/`.

* [1 The system](#1-the-system)
* [2 Modules](#2-modules)
* [3 How the code is modelled](#3-how-the-code-is-modelled)
* [4 Runs](#4-runs)
* [5 Fairness](#5-fairness)
* [6 Proofs](#6-proofs)
* [7 Disagreements and observations](#7-disagreements-and-observations)
* [8 Not modelled](#8-not-modelled)
* [9 Plan](#9-plan)

## 1 The system

### 1.1 Inventory

Modelled:

| Component | Source | State | Operations | What is hard | What makes it correct |
|---|---|---|---|---|---|
| Lock service | `SS/lock-sync-service/lock.bsv` | per node: `lockMem` (state and `fwdId` of each lock), `lockReqQ`, `lockRespQ`, `respToNetworkQ`, `reqArb`; a request ring all nodes snoop; a response ring | `acquireLockReq`, `lockResp`, `releaseLock`; rules `acquireLock`, `recvLockResp`, `returnLock`, `snoopLockReq`, `sendRespToNetwork` | ownership migrates between nodes in several steps; requests chase a lock that may be in transit; two arbiters; two rings of limited capacity | one owner; one user; no request lost or answered twice; a wanted lock keeps being used |
| Synchronization service | `SS/lock-sync-service/synchronization.bsv` | master: bit vectors `barriers`, `barrierInitValues`; per node `doneSignalQ`, `syncRespQs`; a report ring and a broadcast chain | `setSyncBarrier`, `signalSyncReached`, `waitForSync`, `othersSyncAllReached`, one rule for every message | rounds overlap: the barrier is restored while slaves still wait for the end of the last round; two signals merged in one cycle; one-slot completion queues on a shared chain | nobody passes early; every signal counts once, in its round; nobody waits for ever |
| Addressable rings | `SS/soft-connections/addressable-ring.bsv` | per stop: `sendQ`, `recvQ`, arbiter bits, token counters; the links of one or two chains | `enq`, `first`/`deq`; rules that receive, send, forward; the three-phase initializer | concurrent rules on shared links; wires between rules of a cycle; counters counted up and down in a cycle; deadlock of a full ring; starvation; initialization sharing the chain with data | exactly-once delivery in order for each pair; one token; no deadlock for the traffic the ring is meant for; nobody starves; unique IDs |
| LI graph and synthesis tree | `ST/li_module`, `ST/bluespec/BSVSynthTreeBuilder.py` | the connections of every module, the list of unused names, the tree, the state of two recursions, the wires written | `parseLogfiles`, `cutRecurse` (`min_cut` or `placement_cut`), `emitWrappersRecurse`, `generateTopSynthWrapper` | names promised to SCons before the tree is known; connections renumbered at every level; chains merged from parts | every end connected once; every chain one path; buffers from the right modules; exactly the promised files |
| Area groups, floorplanner | `ST/area_group` | groups with shapes and corners, the last build's shapes, the batch in hand, the annealing's tours | `elaborateAreaConstraints`, `solveILPPartial`, reuse, `sort_area_groups` | placement in parts with retries; shapes still open; stale shapes; rounding | no overlap, before and after rounding; shapes that follow the areas; a tour of all groups |
| Build system | `BS/project`, `ST/{bluespec,wrapper_gen,iface,software}` | `moduleDependency`, the commands declared, files and SCons' signatures, `.depends` files, dummies, override files | each stage's constructor; a start of SCons with its nested `depends-init` build | dependences known only after a part was built; files written on the side; parallel jobs; failures half way | a finished build is what a build from nothing would be; nothing is read early; nothing is redone |
| Back ends (partly) | `ST/{bluesim,verilog,synthesis,synplify,mcd,altera,xilinx}` | | the stages of six pipelines | commands that read what a script of another stage lists | as above |

Not modelled (the reasons are in section 8):

| Component | Source | State and operations | What is hard |
|---|---|---|---|
| Soft-connection chains, matching | `SS/soft-connections/connection-*.bsv` | the FIFO behind each connection (it *is* part of every ring model); the matching is elaboration-time | unmatched or doubly matched names |
| Routers, bridges | `SS/soft-connections/{tree-router,crossbar-router,latency-fifo,service-connections}.bsv` | credits, per-client arbiters, a FIFO that admits more than one cycle of delay | credit conservation, starvation |
| Shared-tree interconnect | `SS/soft-connections/physical-interconnects` | tree of merges and broadcasts | ordering |
| librl storage | `libraries/librl/storage` | commit/rewind/scoreboard FIFOs, counting filters, memory heap, reversal buffer | pointers that wrap; two updates of a filter in one cycle |
| librl base | `libraries/librl/base` | counters (`mkLCounter` is in `TokenRing`), arbiters, marshallers, memory adapters | boundary values; unequal widths |
| librl caches | `libraries/librl/cache` | direct-mapped and set-associative caches, MSHR, prefetcher | hits under misses, write-backs racing fills, filters that must order requests to one set |
| Coherent scratchpads | `.../shared-scratchpad-memory-service/coherent-scratchpad` | snooping caches with transient states, an MSHR, a controller with ownership bits, request and response rings | transient-state races, write-back against forwarded request |
| Other scratchpads, central cache, shared memory | `libraries/platform-services/mem-services` | request tables, reorder buffers, IDs of clients | responses out of order, fences, flush |
| Assertions, debug scan, parameters, statistics, stdio | `libraries/platform-services/common-services` | each a chain from the host through all clients | dumps in progress, messages in pieces |
| Starter, front panel | `libraries/platform-services/{starter,front-panel}-service` | start/end handshake | little state of their own |
| Soft clocks, soft strings | `SS/soft-clocks` and related | elaboration time only | |
| RRR, channel I/O, libli | `virtual-platform/{rrr,channelio}`, `lib/libli` | marshalling, multiplexing, flow control, C++ threads | interleaved messages, credits |
| Physical channels, platform, devices | `virtual-platform/{physical-channel,low-level-platform-interface,virtual-devices}` | drivers and vendor IP | I/O |
| Parsers and text writers of the build; variants of back ends | `ST/{wrapper_gen,parameter_substitution,area_group/parser,synplify,mcd,fpgaprog}` | grammars; Tcl and constraint text | |
| PythonTidy, scripts, RRR stub compiler | `BS/project/PythonTidy.py`, `scripts`, `tools`, `libperl` | a vendored formatter; one-shot tools; a code generator | |
| Switches, configuration, docs, examples | | option tables, demonstrations | |

### 1.2 How the modelled parts interact

```
      engines                          engines
        |  acquire / release             |  signal / wait
   +----v-----+                     +----v------+
   | lock     |                     | barrier   |
   | node     |                     | node      |
   +--+----+--+                     +--+-----+--+
      |    |                           |     |
 request  response               broadcast  report
  ring     ring                    chain     ring
 (chain)  (token ring)           (chain)   (token ring)
      |    |                           |     |
   ===v====v===========================v=====v====   connection chains
```

A *chain* connects all modules that name it, each to the next; the chains used
here are closed into rings. The link from one module to the next is the sender's
`mkUGFIFOF` of two slots. The request ring of the lock service and the
broadcast chain of the barrier are used directly as chains. The response ring
and the report ring are *addressable rings*: a layer that delivers a message to
the stop it names. There are three kinds, one for a single source or sink
(`mkConnectionAddrRingNode`), one for arbitrary traffic on two chains with a
dateline (`mkConnectionAddrRingNodeNtoN`), and one with a token for fairness
(`mkConnectionTokenRingNode`), and an initializer that gives every stop its ID.

The build system works in the opposite direction of time. Its scripts run to
their end first and only *declare* commands; SCons runs them afterwards:

```
   constraint file   resources of the first pass          sources, command line
          |                 |                                      |
   +------v-----------------v--+                      +------------v-----------+
   | area groups: place, tour  |                      | ModuleList, Module:    |
   +------------+--------------+                      | boundaries, overrides  |
                | sort order, pblocks                 +------------+-----------+
   +------------v--------------+   Verilog promised   +------------v-----------+
   | LI graph -> tree -> files <----------------------> stages: wrapper_gen,   |
   | (run by SCons, when the   |   before it is made  | iface, BSV, software,  |
   |  logs of the boundaries   |                      | synthesis, place, ...  |
   |  have been compiled)      |                      +------------+-----------+
   +---------------------------+                                   | commands
                                              depends-init build, then main build
```

`SynthTree` therefore stands for the inside of one command of `Build`, and
`AreaGroups` for what comes before both in the second pass. Their meeting points
are modelled on both sides: the names of the tree's files (`TreeNames` in
`SynthTree`; `TreeModule` in `FrontRules`), and the sort order (`sortIdx` in
`AreaGroups` and `SynthTree`).

## 2 Modules

| Module | Models | Built on |
|---|---|---|
| `Queues` | operators: the messages of one kind in a line of queues, as one queue | |
| `AddrNet` | abstract: one queue for each pair of stops | |
| `RingNet` | abstract: transit and delivery to a receive queue; implements `AddrNet` | `AddrNet`, `Queues` |
| `Ring` | the stops of a ring, the links between them and their sizes | |
| `TokenRing` | `mkConnectionTokenRingNode_Impl` | `Ring`; implements `RingNet` |
| `AddrRing` | `mkConnectionAddrRingNode_Impl` | `Ring`; implements `RingNet`, `AddrNet` |
| `NtoNRing` | `mkConnectionAddrRingNodeNtoN_Impl` | `Ring`; implements `RingNet` |
| `RingInit` | `mkConnectionAddrRingInitializer` with the data rules that share its chain | `Ring` |
| `LockSpec` | abstract: a lock as its users see it | |
| `LockService` | `mkLockNodeDebug` and the engines behind it | uses `AddrNet`, implements `LockSpec` |
| `BarrierSpec` | abstract: a barrier as its users see it | |
| `SyncService` | `mkMultiSyncNodeMaster`, `mkMultiSyncNode` and the engines | uses `AddrNet`, implements `BarrierSpec` |
| `LIGraph` | the graph of dangling connections, its matching and its cuts | |
| `SynthTree` | `cutTreeBuild`: the tree of wrappers | `LIGraph` |
| `Floorplan` | operators: elaboration of the constraint file, areas, shapes | |
| `AreaGroups` | placement over several builds, the tour, pblocks | `Floorplan` |
| `BuildRules` | what a build description is; the module list | |
| `FrontRules` | the stages every pipeline starts with, the simulators | `BuildRules` |
| `BackRules` | synthesis, place and route, loaders; the pipelines | `FrontRules` |
| `Build` | builds in one tree of files, with edits and failures | `BackRules` |
| `AreaGroupsProofs` | theorems about `AreaGroups` | `AreaGroups` |
| `QueueLemmas` | facts about queues kept in functions and about lines of queues | `Queues` |
| `LockServiceProofs` | theorems about `LockService` | `LockService`, `QueueLemmas` |
| `SyncServiceProofs` | theorems about `SyncService` | `SyncService`, `QueueLemmas` |
| `TokenRingProofs` | theorems about `TokenRing` | `TokenRing`, `QueueLemmas` |
| `AddrRingProofs` | theorems about `AddrRing` and `RingInit` | `AddrRing`, `RingInit`, `QueueLemmas` |
| `NtoNRingProofs` | theorems about `NtoNRing` | `NtoNRing`, `QueueLemmas` |
| `SynthTreeProofs` | theorems about `SynthTree` | `SynthTree`, `QueueLemmas` |
| `MC...` | instances for TLC | the module of that name |

The services are composed with the *specification* of a ring, `AddrNet`, not
with its implementation: `LockService` and `SyncService` contain
`INSTANCE AddrNet`; `TokenRing`, the ring both services use, implements `RingNet`
(`ImplementsRingNet`), and a `RingNet` whose messages are counted as under way until
their client takes them is an `AddrNet` (`ImplementsAddrNet`). A product of a
service and a ring with all their queues would be beyond TLC for every
interesting size. `AddrNet` is unbounded while a real ring has room for a few
messages. This loses blocking only, not behaviours of the service; that the
response ring may fill up is told in section 7.

Names in the models are the names in the code where TLA+ allows it: a rule
`snoopLockReq` is the action `SnoopLockReq`, a register `reqArb` the variable
`reqArb`. `PROJECT.json` maps every definition to the lines it stands for.

`RingInit` shares its proof module with `AddrRing`; so its initial states are
`PowerUp`, its specifications `InitSpec` and `FairInitSpec`, and its data rules, which
are those of `AddrRing`, `SendData`, `RecvData` and `ForwardData`.

Definitions whose name has an underscore in the middle
(`ForwardRequest_Lost` beside `ForwardRequest`) are faulty variants. They are
part of no specification: each property is known to fail when the definition is
replaced by such a variant, so that none of them holds vacuously.

## 3 How the code is modelled

**Rules and cycles.** A Bluespec design is a set of guarded atomic rules; a
clock cycle has the effect of some sequence of them. One action per rule, with
interleaving, therefore contains every cycle of the generated hardware, as long
as rules of one cycle are *sequentially composable*. Three things are not, and
are modelled as they work:

* Wires. `fwdMsgPrior`, `localMsgSentW`, `chain0RecvPriorW` and
  `msgReceived1W` carry, within a cycle, whether another rule fires or is
  ready. They become the negated guard of that rule: `ForwardOnRing` requires
  `~CanSend`, and so on. `returnLock` is triggered by a wire that
  `releaseLock` writes; the two are one action.
* Primitives that read old values. `mkLCounter` returns the value at the start
  of the cycle, and applies set, up and down at the end, in one bit. When
  `recvFromRing` and `sendToRing` of a stop of the token ring fire in one
  cycle, the result is not that of either order, and `RecvAndSend` computes it
  (`Count`).
* An empty ring. A stop may send because its incoming link is empty, a decision
  that is only right before its predecessor has sent. In the order of
  execution a stop that does so comes before its predecessor; this fails only
  when *all* stops do it in one cycle. `SendAll` is that cycle. On the N-to-N
  ring it cannot happen, because the primary never looks at what it forwards
  when it sends.

**Queues.** A link has `LinkCap` or `ChainCap` slots (2 in the code), `recvQ`
and `sendQ` `QCap` (2, `mkFIFOF`); `lockRespQ` and each of `syncRespQs` have
exactly one, as in the code; `respToNetworkQ` has one slot per lock.

**Data.** Messages are model values. A message on a ring carries in the model
its source, and in `RingInit` its kind; the code sends neither and no guard
looks at them. They let the properties tell whose a message is.
Bit vectors over nodes are sets.

**Initialization.** Lock and barrier nodes start with an unknown port number
and learn it at a moment of the model's choice (`DoInit`, `PortInit`). The
three ring modules start initialized; `RingInit` checks the initialization,
including stops that are done and already send while others are not, from
*every* legal assignment of static IDs. When the ID type is too small a
simulation stops (`$finish`) while hardware goes on with IDs that wrap; the
model goes on, with `ranOut` set, and the properties about IDs exclude that
case, that of termination does not.

**Engines.** The engine behind a lock node asks for a lock it neither holds nor
waits for, takes grants and releases locks. The engine behind a barrier node
signals a barrier and does not signal it again before it has passed it. Code
that breaks this protocol is outside the model: the interface comments require
it (`lock.bsv`, LOCK_IFC; `synchronization.bsv`, SYNC_IFC).

**The synthesis tree** (`SynthTree`). The two recursions of `cutTreeBuild` are
frames of a stack, one action per call: `CutNode` and `CutEmpty` for
`cutRecurse`, `EnterNode` and `EmitNode` for `emitWrappersRecurse`;
`FinishFiles` is the end of `cutTreeBuild` with `generateTopSynthWrapper`. Lists
of names, children and connections are variables, as the code mutates them. A
connection carries, as in the code, its index at the module it is exposed by and
the root modules of its two ends; the type strings are left out. The connections of a
module are a set, since a kind and an index tell one from all others; the list's
order, which only decides the numbers one level up, is that of the kinds' indices
(`Number`). What two children connect is `MatchedPairs`, what they hand up `Raised`,
and `Exposed` gives it the numbers of the wrapper. Wires are
collected as references to ports, and the properties follow them down the
wrappers to the leaves. `min_cut` returns the cut the graph library finds for
the first cheapest pair in the order the code asks; which one the library
returns among equals is the least side, that of a maximum flow's residual graph.

**The floorplanner** (`Floorplan`, `AreaGroups`). `Floorplan` has the elaboration
of the constraint file as operators, a recursion over its statements. In
`AreaGroups`, `StartBuild` elaborates and starts the placement; `SolveBatch` and
`SolveFails` are one problem for the ILP solver each, `StartTour`, `Evaluate`
and `FinishTour` the annealing, `StoreAreaConstraints` the pickle of
areas and shapes for the next build. The solver answers with *any* corners and
shapes that satisfy the constraints written for it (`Rosen`, `OnChip`), or gives
up at any time. Lengths are half slices and areas whole ones: the code's lengths are
floats, so corners and sizes need not be whole. They are truncated to slices, and
these rounded to pairs, when the pblocks are written (`Truncated`, `Pblock`).

**The build** (`BuildRules`, `FrontRules`, `BackRules`, `Build`). A stage's
constructor is an operator from a description of the build to the next one, and
a pipeline their composition in the order of the pipeline's script. A rule
keeps apart what the script *declares* (`outs`, `deps`) and what the command
*does* (`reads`, `makes`), because every hazard of such a program is a
difference between the two. A synthesizer also parses files of which nothing goes
into its netlist (`opens`): the project of a boundary names the Verilog of the tree's
inner nodes, which only the tree instantiates (`PrjFiles`, `Elsewhere`). They have to
exist and be complete, but a change of one leaves the boundary's netlist as it is. The
inner nodes, as many as there are boundaries less two, are one owner (`Inner`), since one
command makes them all. A file's content is the set of versions of the
sources that went into it. `Build` is the life of one tree of files: `Edit`
(which also reverts), `ChangeArguments`, `StartScons` (the scripts: override
files, dummies, deletion of empty `.depends` files), `DependsInit` and `Main`
(SCons running what is out of date, to the end or to the failure of one
command). SCons decides by content, stops at the first failure and deletes the
targets of the failed command, except those it was told are precious.
A run of SCons is one action; that its commands run in parallel in any order the
declarations allow is in `TooEarly`, which asks of each command run whether
something it reads or opens could be missing or still to be made.

**Left out.** Debug scan nodes and debug logs of the services; the alternative
constructors that only differ in the type of their IDs or in passing a debug
file.

## 4 Runs

| Run | Question | Instance | Distinct states |
|---|---|---|---|
| `lock_safety` | Is a lock always in one place, used by one engine, and no request lost? | 3 nodes, 2 locks, links of 2 | 1.4 M |
| `lock_live` | Does a wanted lock keep being used, and does the service implement `LockSpec`? | 3 nodes, 1 lock | 3.2 k |
| `lock_ring_full` (violation) | Do two rings avoid deadlock? | 4 nodes, 4 locks, links of 2, scripted engines | 0.2 M to the error |
| `sync_safety` | Does every signal count once, in its round; does the service implement `BarrierSpec`? | 3 nodes, 2 barriers, every mask, links of 1 | 0.3 M |
| `sync_live` | Does every engine that waits pass the barrier? | 2 nodes, 2 barriers, links of 2 | 10 k |
| `token_ring` | Is there one token, is delivery reliable and fair? | 3 stops, links of 2 | 31 k |
| `addr_ring` | Is delivery reliable, in order, fair to client and ring? | 3 stops, links of 2, arbiter mode 2 | 35 k |
| `ntn_ring` | Does the dateline keep both chains moving, and the order of each pair? | 4 stops, links of 1, mode 2 | 25 k |
| `ring_init` | Are IDs unique and the largest one known; are token and data kept apart? | 4 stops, IDs 0..4, links of 2 | 8.5 k |
| `synth_tree` | Does the tree connect every end and thread every chain, and make the files promised? | 4 modules, 2 channels, a chain, a service; 3 orders, both passes | 71 k |
| `area_groups` | Do groups or pblocks overlap, do kept shapes follow the areas, is the tour one of all groups? | 4 files, 4 reports, 3 builds, 5 groups | 17 k |
| `build_graph` | Is what a build leaves right, whatever came before, in any order of its commands? | 6 pipelines, 3 user boundaries, 3 builds, 2 edits, 1 failure | 72 k |

What the properties mean is said in the comment above each of them; the
following explains what the runs show and why the bounds are enough.

**lock_safety.** `OneToken`: each lock is owned by exactly one node, or in one
`respToNetworkQ`, or on the ring. `InUseIffGranted`: the state at the node and
what the engine has agree at all times, and a `fwdId` never survives a
hand-over. `NothingDropped` joins three: the case `acquireLock` has no branch
for never happens (`AcquireStateKnown`); the request of a waiting engine is in
exactly one of the six places it can be in (`RequestConserved`); the size of
`respToNetworkQ` suffices (`ReleaseNeverBlocked`). `LockMutex`: mutual exclusion. Three nodes are the
fewest in which a request can meet an owner whose `fwdId` is taken and has to
circulate, and a request can overtake a lock in transit; two locks make queues
hold different locks and compete for links, and fill `respToNetworkQ`. Locks
are interchangeable, so symmetry over them is sound (no liveness in this run).
Links keep their two slots.

**lock_live.** `LockProgress`: a lock somebody waits for is held again and
again, in spite of circulating requests and arbiters. It does not promise
that *each* waiting node gets it; nothing in the code does, since the first
request snooped after a hand-over wins. One lock suffices for three nodes to
compete, and keeps the request ring below its capacity, beyond which progress
fails (section 7). `ImplementsLockSpec` is checked here too, on every step of
the run.

**sync_safety.** Any engine may be left out of a barrier, also the master's,
and rounds repeat without bound. `SyncInv` joins the types with
`SignalConserved`, which relates `barriers` at the master, the queues and the
ring, and the broadcasts under way: a signal is seen exactly once and never
counted for the next round; and with `RespQNeverStalls`: no engine of a barrier
is ever owed two completions, hence one slot is enough.
`OthersReachedOnceStarted` gives the weakest condition under which
`othersSyncAllReached` is right. With links of one slot a broadcast is held
up more often than with two and all overlaps of rounds occur; the two-slot
links are in `sync_live`, where what matters is that nothing gets stuck.

**token_ring.** All stops send to the primary, which answers stop 1: each of
the rules, alone and together, and every position of the token occurs. All
messages have one value, because with several, TLC cannot finish the fairness
check; that a stop's messages cannot overtake each other is then covered by
`ImplementsRingNet` for each *destination*, by `NothingPassesItsStop` (a part of
`RingInv`), and for two values in `addr_ring`, whose forwarding is the same. `EveryStopSends` is
what the token is for: it fails when a stop without the token has no other way
to send.

**addr_ring.** Sources take two message values in turn, which is enough to see
whether a pair keeps its order: if it did not, some two adjacent messages of a
pair would change places. Arbiter mode 2 (turns) is the default of the code
and the one that promises fairness to both sides; modes 0 and 1 starve the
ring or the client by design, and `EveryMessageMoves` and `EveryStopSends`
tell them apart.

**ntn_ring.** Four stops, with traffic chosen so that messages cross the
dateline, a stop receives from both chains and a stop forwards on both.
Links of one slot make blocking most likely: progress with one slot is
the hard case of `Chain0Moves` and `Chain1Moves`. `Dateline` (in `RingInv`) also shows that
the rule `recvRing1Primary` ("This should not fire") never does, which is why
it has no action.

**ring_init.** Up to four stops of which any number have static IDs, with an ID
space that suffices or, when the static IDs are large, turns out too small.

**synth_tree.** Every way to connect four modules by two named channels (up to
swapping the two) with a chain on none, one half, three or all of them, and every
way to spread a service over three; cut by connections, or along two tours of
the area groups, in the first and the second pass. Four modules give trees of
depth two and three, with cuts that leave one part empty; a chain is merged at
every level, and a channel passes through up to two wrappers before it
matches. `EveryEndConnected` follows the indices through all levels,
`ChainsThreaded` the hops of a chain; `ChainsFollowOrder` is why the tree is cut
by area at all. `MaxRules` is 2, so that a wrapper becomes a boundary of its own or
does not.

**area_groups.** A memory controller with the cache placed beside it, one with
no room for that and a child group placed apart from its parent, an empty box,
and a file that is rejected; corners and sizes of odd numbers of half slices, two
of which meet in the middle of a slice; the solver's corners are taken from a grid of
three by three; batches of one, two and three, with and without reuse. In the reports
a module has 400, 403, 407 or 900 slices: 403 is within a hundredth of both its
neighbours, 407 is not of 400, so that three builds are enough for a shape to be kept
twice and be off by more than one build allows. `ShapesFollowAreas` then fails if a shape
is compared with the wrong area or in one direction only, or a retry mixes up the shapes of
the last build with the module's own. It does not say that a kept shape still has room for
the logic, which the code does not promise (section 7). `TourIsBest` needs three
evaluations, so that an accepted longer tour can follow the best one. The instance is
small, but all four properties are proved for all (section 6).

**build_graph.** Up to three builds with two edits and one failure among
them: edit, fail, revert, build is the shortest history in which a stale file
survives. Three user boundaries, besides the platform, the tree and the top module, are
the fewest for which the tree has an inner node, whose Verilog appears in every project
file; one of them imports a package whose imports an edit changes and has the parameter.
`UpToDate` compares what a successful build left with what a build from nothing would make,
goal by goal; `NoEarlyRead`
is about parallel jobs; `DependsCurrent` about the `.depends` files of a failed
or older build; `NothingRedone` about dummies, override links and remembered
lists that change by themselves. What the properties leave out by name (`Untracked` and `DummyKept` in
`UpToDate`, `Racing` in `NoEarlyRead`) are the disagreements described in section 7, and no more:
a goal may differ only where a kept dummy went into it, and only the inner nodes' Verilog,
only with XST and Vivado, may be opened early.

TLC's deadlock check is on in the runs of the services and rings, and none finds
one. The runs of the build side end: a tree is written once, builds are bounded.

## 5 Fairness

*Weak fairness of a rule.* The compiler's scheduler fires a rule in every cycle
in which its guard holds and no conflicting, more urgent rule fires; a rule that
stays ready and unopposed fires.

*Strong fairness* is assumed in two places, with the reason in the code:

* `AcquireLock` and `RecvLockResp` compete for the one slot of `lockRespQ`, and
  `AcquireLock` with `SnoopLockReq` for the node's turn. `reqArb` is handed back
  and forth by the rules themselves, and `descending_urgency` puts both
  before the rule that could keep them out, so one that is ready again and again
  is served.
* `SetRemoteSyncSignal` is less urgent than `SetLocalSyncSignal`. While every
  barrier waits for some slave (the masks of `sync_live`), the local rule cannot
  run twice for one barrier without a report of that barrier, and reports come
  in a FIFO; so the report at its head is served.

*The environment.* A client that holds a lock releases it; clients take
grants, completions and messages they are offered. On the barrier this includes
the clients of nodes no barrier waits for: they too get a completion in their
one-slot queue, and the next one stalls the chain behind it until they take it.
No client is assumed to ask for anything, except that the client of the barrier
master configures the barriers and clients go on signalling.

*The build side* has safety properties only, and no fairness: its programs are
sequential, end by themselves, and when SCons runs again is up to the developer.

## 6 Proofs

What is proved, for every value of the constants:

| Theorem | States | Module |
|---|---|---|
| `LockTypeOK` | `Spec => []TypeOK` | `LockServiceProofs` |
| `LockInvariant` | `Spec => []IInv` | |
| `LockInUseIffGranted` | `Spec => []InUseIffGranted` | |
| `LockMutualExclusion` | `Spec => []LockMutex` | |
| `LockRequestInvariant` | `Spec => []RInv` | |
| `LockNothingDropped` | `Spec => []NothingDropped` | |
| `LockRefinement` | `Spec => ImplementsLockSpec` | |
| `LockTokenInvariant` | `Spec => []TInv` | |
| `LockOneToken` | `Spec => []OneToken` | |
| `SyncInvariant` | `Spec => []IInv` | `SyncServiceProofs` |
| `SyncSafe` | `Spec => []SyncInv` | |
| `SyncOthersReached` | `Spec => []OthersReachedOnceStarted` | |
| `BarrierRefinement` | `Spec => ImplementsBarrierSpec` | |
| `TokenRingInvariant` | `Spec => []IInv` | `TokenRingProofs` |
| `TokenRingSafe` | `Spec => []RingInv` | |
| `TokenRingImplements` | `Spec => ImplementsRingNet` | |
| `AddrRingInvariant` | `Spec => []IInv` | `AddrRingProofs` |
| `AddrRingSafe` | `Spec => []RingInv`, if nothing has to pass one of the stops | |
| `SingleEndSafe` | `Spec => []RingInv`, for one source or one destination | |
| `AddrRingIsNet` | `Spec => Net!Spec`, the reliable network `RingNet` | |
| `AddrRingImplements` | `Spec => ImplementsRingNet`, `RingNet` and `AddrNet` | |
| `RingInitInvariant` | `InitSpec => []StartInv` | |
| `RingInitSafe` | `InitSpec => []InitInv` | |
| `RingInitNoMixUp` | `InitSpec => []NoMixUp` | |
| `NtoNRingInvariant` | `Spec => []IInv` | `NtoNRingProofs` |
| `NtoNRingSafe` | `Spec => []RingInv` | |
| `NtoNRingImplements` | `Spec => ImplementsRingNet` | |
| `TreeInvariant` | `Spec => []TreeInv` | `SynthTreeProofs` |
| `NamesSuffice` | `Spec => []PromisedFilesMade` | |
| `WrapperInvariant` | `Spec => []WrapperInv` | |
| `EndsSafe` | `Spec => []EveryEndConnected` | |
| `ChainsSafe` | `Spec => []ChainsThreaded` | |
| `OrdersSafe` | `Spec => []ChainsFollowOrder` | |
| `BuffersSafe` | `Spec => []BuffersFollowRoots` | |
| `RosenApart` | the constraints of a pair set it apart, whatever the binary variables | `AreaGroupsProofs` |
| `PblockApart` | groups that are apart have disjoint pblocks | |
| `PlacementInvariant` | `Spec => []IInv` | |
| `GroupsDoNotOverlap` | `Spec => []NoOverlap` | |
| `PblocksDoNotOverlap` | `Spec => []PblocksDisjoint` | |
| `TheTourIsBest` | `Spec => []TourIsBest` | |
| `ShapesStayNear` | `Spec => []ShapesFollowAreas` | |

### Lock service

The theorems hold for every number of nodes and locks and every size of the
queues (assumptions: `NAssumption`, `LocksAssumption`, `CapAssumption`).

Mutual exclusion is not inductive: that two engines do not hold one lock
follows from two nodes not owning it, which in turn is kept by `RecvLockResp`
only if a lock on the ring has no owner, and by `SendRespToNetwork` and
`ReturnLock` only if it is not in a queue as well. And an engine that holds a
lock must be known to sit behind a node that owns it. The inductive invariant is

    IInv == TypeOK /\ UniqueToken /\ OneGrant /\ InUseIffGranted

* `UniqueToken`: no two places (entry of `lockMem`, slot of a `respToNetworkQ`,
  slot of the ring) hold one lock. It is the half of `OneToken` that mutual
  exclusion needs, written without cardinalities.
* `OneGrant`: `lockRespQ` never has more than one grant, and not one for a lock
  its client already holds; otherwise `ClientTakeResp` would leave a second
  grant behind.
* `InUseIffGranted`, as in the run.

The proof has one lemma for each group of rules that disturbs a part
(`UniqueReturn`, `UniqueSnoop`, `GrantOffered`, ...), and `IInvStep` has one
step for each action. Three lemmas about moving a lock between an owner, a
queue and the ring (`LockHandOver`, `Departure`, `Arrival`) carry the argument for
`UniqueToken`. `QueueLemmas` collects the facts about `Append`, `Tail` and
`EXCEPT` that these rest on.

`NothingDropped` says where a request is, and the proof goes through

    RInv == IInv /\ RequestInv

`RequestInv` says that while a client waits its request is in exactly one slot of
one of six kinds of queue (`lockReqQ`, a link of the request chain, a `fwdId`, a
`respToNetworkQ`, the response ring, `lockRespQ`), and in none otherwise. Every
rule takes one request from the head of one of those and puts it, or the lock that answers
it, at the end of another; lemma `Moved` says once that such a step keeps
`RequestInv`, `Removed` does so for the grant a client takes, and the lemmas of
the rules only say which queues they use. `AcquireLock` would take
a request for a lock that is in use and do nothing for it; that it never meets one
(`RequestNotInUse`: whoever waits has no grant, and by `InUseIffGranted` only a grant
makes the entry OWN_IN_USE) is why `RequestInv` needs `IInv`. `RequestConserved` counts the slots (`OnePlace`).
`ReleaseNeverBlocked` follows by an injection: the locks in a `respToNetworkQ` are
different ones, and the lock that is released is none of them (`RoomToReturn`).
For `LockRefinement` the step that matters is a client taking a grant, which has to be
free: the client owns the lock, so by `UniqueToken` and `InUseIffGranted` no other
client holds it (`GrantIsFree`); all other steps are `Ask`, `Release` or stutter
(`StepRefines`).

`UniqueToken` excludes two places; that there is one (`SomeToken`) is proved
again with one lemma per rule that moves a lock, and `LockOneToken`
counts the three kinds of places from both.

### Barrier service

`SyncServiceProofs` (assumption: `SyncAssumption`; any number of nodes, barriers and
slots of the chain, any masks that are not empty). A signal is conserved because what an
engine waits for is always at exactly one of six stages (`At`): it runs, its signal
is in `doneSignalQ`, on the report ring, or seen by the master, or the completion
is on the chain, or offered in `syncRespQ`. The invariant is

    IInv == TypeOK /\ LinkType(link) /\ Started /\ Sources /\ Stages

* `Stages`: every engine of every barrier is at a stage. Each stage says what all
  five places hold, so a rule that moves a signal has to show it was the only one.
* `Sources`: no signal comes from a node the barrier does not wait for; the
  master's `ClearBits` removes bits without looking whether they were set.
* `Started`: SYNC_INIT_DONE is the first message on every link, so a slave that
  is not initialized never sees a completion, which `recvInit` would swallow.

Every rule moves some engines by one stage and leaves the others (`Kept`);
`StagesStep` turns that into the invariant, and the two rules that count signals
share one lemma (`CountsInv`), with the local and the remote signal of one barrier
taken in one step as a case of it. `CountStage` reads the two counts of
`SignalConserved` and `RespQNeverStalls` off the stage.

For `BarrierRefinement` the completions on the way have to be counted for the nodes
outside a barrier too, which have no stage: `ToldEnters` and `ToldDrops` say how
the count changes when a message enters or leaves a link, the second by a
bijection between the slots before and after. The steps that matter are the last
signal (`Complete`: all engines have signalled, `CountsRefines`), `checkBarrierInit`
(`Configure`), and the two methods (`Signal`, `Pass`); the other rules change nothing
an engine can see (`Unnoticed`).

### Rings

`TokenRingProofs` (assumption: `TokenRingAssumption`; any number of stops, any
traffic, any sizes) has the invariant

    IInv == types /\ LinksOK(link) /\ QueuesOK(sendQ) /\ OnePlace

`OnePlace`: the token is at exactly one place, the `haveToken` of a stop or a slot
of its link. `LinksOK`: nothing on a link has passed the stop it is for; this
needs `QueuesOK`, that clients send in their own name. The argument has two
halves, what it means for a stop to take a message from its link with or without the
token (`Taken`), and to send one with the token it holds (`Sent`); a rule is one
of them or both. `RecvAndSend`, two rules in one cycle, and the ring of one
stop, whose two links are the same, need `BothEnds`: reading and writing
commute. `CountPlace` turns the one place into the sum in `OneToken`.

`AddrRingProofs` and `NtoNRingProofs` (`AddrRingAssumption`, `NtoNRingAssumption`; any
number of stops, any sizes, every arbitration mode) say of each queue and link which
messages may be in it (`Own`, `On`, `On0`, `On1`), by where it is, and of each rule that
it puts a message only where it may be:

    IInv == types /\ Table(sendQ, Stop, Own) /\ Table(link, Stop, On) /\ Fits(...)

* *Dateline.* A message on chain 0 is past its source and has its destination ahead or will
  cross (`ForwardedOn0`); at the last link only the second is left, so what the primary puts on
  chain 1 has crossed (`PassedDateline`). On the last link of chain 1 no message may be
  (`LastLinkOf1`), which is why `recvRing1Primary` never fires. This holds for any traffic.
* *Plain ring.* A message on a link still has to take it: its source is fewer hops away than
  its destination is (`MayForward`). The invariant holds for any traffic too; that the
  ring does not fill up needs a stop c no message has to pass (`Clear(c)`): what waits in front of c
  is for c (`RoomBeforeTheEnd`). One source, or one destination, is such a
  stop (`NothingPassesTheEnd`), and so is the primary in the run.

*The rings as a network.* `RingNet` has one queue in transit for each source and destination.
In a ring the messages of such a pair are spread over links and queues, between those of
others; the refinement mapping collects them (`Queues`): the queues a message passes, the one nearest to the
destination first, and of each the messages of the pair, joined (`InLine`). `QueueLemmas` says
what becomes of this one queue when a message of one of the queues

* goes on to another (`Hop`): nothing, if no message of the pair is in a queue between the two;
* leaves (`Leave`): it was the first and is taken off, if none is nearer to the destination;
* enters (`Enter`): it is added at the end, if this is the last queue of the line.

A rule is one of these for the pair of the message it moves, and changes nothing for the others. That
nothing of the pair is in between is not seen from the two links a rule touches: it takes the
invariant that bounds where messages may be. On the plain and the token ring no message is on a link
behind its source (`NoneBehind`), so that what a client sends is behind all its earlier messages. With
the dateline a rule may jump: `forwardOnRingPrimary` from the last link of chain 0 to the first of
chain 1, over the links of chain 1 that a message on its way to the same stop would have left
(`DatelineAhead`), and `recvFromRing0` from behind the whole of chain 1 (`Recv0Last`).
For the token ring the mapping leaves the token out (`Flow`), and the cycle in which every
stop of an empty ring sends at once (`SendAll`) is taken as one `Hop` and a change nobody sees
(`RingSendAll`). For the plain ring it is proved as well that such a network, seen by source, is
the `AddrNet` of the services (`AddrRingImplements`): delivery becomes a step nobody sees
(`HandOver`).

The line of queues is defined by recursion over its segments. The lemmas about it
(`JoinedMove`, `JoinedTake`, `JoinedAdd`) are proved by induction over sets of
numbers (`SetInduction`, from the well-foundedness of `<`), for the set of numbers up to
which the claim holds; induction theorems that take an operator are of no use to these provers.

*The initialization*, with the assumptions of `RingInit`, for any number of stops, static
IDs, ID space and sizes: `InitInv` and `NoMixUp` say nothing about the middle of the
initialization. The invariant has three cases, `NotStarted`, `Finished` and `Running(k)`: stop k was the
last to send the token. Then the phases of all stops follow from k and the
primary's phase (`Frontier`); the token is first on link k, data is only behind it or on
links of stops that are done, whose readers are done or will see the token first
(`OnLinks`); and the number on the token is the largest static ID of the stops up
to k in the first round, and the largest ID handed out in the later ones, unless
IDs ran out (`Numbers`). `TokenPasses` moves the frontier by one stop; the
lemmas of the four phases only add what becomes of the number.

### Synthesis tree

`SynthTreeProofs` is about every number of modules, every program of the kind
`LIGraph` describes, both passes, any injective order of the area groups and any
`MaxRules`. The assumptions are `GraphAssumption`, `NamesAssumption` (names are
listed once, and no chain has the name of a channel; see section 7) and
`TreeAssumption`. The five properties of `synth_tree` are about the finished tree. The
invariant behind them, `WrapperInv`, has five parts, one for each thing the two
recursions keep.

*Cutting* (`CutInv`). A list of names is fixed before the graph is cut, so what matters
is that no cut is idle. `placement_cut` has the first module in the order on one
side and the last on the other (`PlacementCutProper`). For `min_cut` it has to be shown
that a best cut exists at all: of the cheapest cuts for one source and sink, the
modules that two of them have in common are a third (`CheapestMeet`, which counts
edges), so one is the least (`MinCutProper`). A call on k modules then takes one name
and leaves calls for k - 1 altogether: the modules that are not the first of their
call are no more than the names left (`Budget`). The calls to make and the slots of the
tree partition the modules (`LeafPlaced`, `OneParent`, `Framed`); names are taken from the end of the list, so
that a child comes earlier in it than its parent (`SlotsFilled`) and the tree has no cycle.
The first call is different, for it has no parent and may be on one module
(`Started`).

*Writing* (`EmitInv`). The calls of `emitWrappersRecurse` stand for one path and what
hangs beside it: a node is reached through its parent only (`Above`), and below a node whose
children were visited, every node has its wrapper or is further up the stack (`Inside`).
So a wrapper is written after those of its children, and in the end every node has one: of those
without, the last in the list would have a parent that has one (`AllEmitted`).
`PromisedFilesMade` follows from these two parts.

*Ends* (`JoinInv`). A module is open when its parent has no wrapper yet. Each end of a
channel or service is held by one open module, or, if it is a channel's, is wired; no
open module holds an end of a wired channel (`Kept`, `Apart`, `WiredOnce`). In one
module a kind and an index, or a chain's name, tell a connection from the others (`Sound`): that the new
numbers do is `NumberIs`, which counts those before. A wrapper's connection leads to
one of a child with the same root (`Referred`). At the end the root
alone is open. A reference goes down one level of the tree each step and there are no more levels than
files, so `Behold` reaches the leaf of that root (`Beheld`, by induction over ranks):
`EveryEndConnected` and `BuffersFollowRoots`.

*Chains* (`ThreadInv`). Below each open module with a part of a chain, the hops written so far are one line
through those of the chain's modules that are there, from the root of the part's
input to that of its output (`Thread`: `place` and `pos` give each module its part and its position).
Joining two parts sets the second behind the first (`ThreadsJoin`). `ChainsThreaded` walks the one line that
is left; that it is counted right takes that no hop is written twice
(`HopsOnce`).

*Order* (`OrderInv`). There is a pair of halves for every node such that each module of
the first comes before each of the second (`Ordered`, from `PlacementOrders`), and whatever is below a
child, connections and their roots included, is in its half (`Spans`, `Covers`). A hop
goes from the first child to the second, so every hop goes up.

### Floorplanner

`AreaGroupsProofs` is about every chip, every set of constraint files and
reports, and any number of groups and builds.

The assumptions are `ChipAssumption`, `GridAssumption` (corners are integers),
`AlphabetAssumption` (names in a sequence), `FilesAssumption` (a file is a list of
statements of the six kinds) and `GroupsAssumption`: elaboration
returns groups with an area and one or four shapes of positive size. The last
is an assumption about operators, since it depends on the reported areas: a parent
whose report is smaller than its children's would have a negative one. TLC evaluates it
for the files and reports of `area_groups`.

`NoOverlap` is not inductive. A group of the next batch that was placed already
would be moved without being compared to the placed ones, so the waiting
groups have to be others, each once (`Queue`). A placed group whose shape is still
open could grow into another when a later problem chooses its shape: after the
first batch none is open, and before it only the user's groups are placed
(`Settled`), of which no two have to be apart. The cache is the one group that is placed by the
program and not by the solver; its position beside the memory controller
(`Beside`) has to survive retries with larger batches, which start from it. The
proof has one lemma per action (`StartBuildInv`, `SolveBatchInv`, `SolveFailsInv`)
on `RestartInv`, what is common to every new start, and `SolutionKeeps`, what a
solution may change.

`TourIsBest` rests on `Toured`: the tour and the best one visit every placed
group once. A section that is reversed, also one round the end of the
tour, is the tour after a permutation of its places (`Turned`, with `Now` its
inverse), so it visits the same groups (`SectionVisits`). That the best tour is
no longer than the current one needs lengths that can be compared: every number has
a root (`RootType`), and the sum over the legs, a recursion, is a number
(`LengthType`). `SortIsOnto` is the rest: the order is a composition of
two bijections, whatever order the dictionary has the names in.

`ShapesFollowAreas` rests on `Drift`: between two builds, what is stored is near an
elaboration within as many changes as builds have passed since the first (`AllTrack`),
and during a build so are the groups that wait and those that are placed, while
`original` is an elaboration of this build. A shape that is kept is one change
further away (`ReusedTracks`, from `NearStep`), any other is at distance nothing
(`FreshTracks`); a solution picks one of a group's shapes (`SolutionTracks`), and a new
start, with larger batches or without reuse, goes back to tables for which the same holds
(`StartBatchesTrack`). The powers that measure the distance are a recursion, so that their
two facts are proved by induction (`PowerNext`, `PowersGrow`). There is no bound on the
number of builds, and none on how far a shape may drift.

### Only model-checked

The build; and all liveness properties, which the installed provers cannot treat.
What is checked of `Build` is a comparison of two closures of a relation, over rules
that recursive operators put together from a description of the program: these are
out of reach of the proofs.

## 7 Disagreements and observations

### Hardware services

* **The request ring can stop** (`lock_ring_full`, `lock.bsv:308`). The comment
  at `lock.bsv:167-168` says that two rings are required to avoid deadlocks. A
  request for a lock whose owner has a requester on record already, or that is
  owned elsewhere, is forwarded and circulates; nothing limits how many do. Four
  nodes that hold one lock each and ask for two others fill the eight slots of
  the ring with requests that each node can only forward. Only the engines'
  choices are scripted in this run (`MCLockService`), so that TLC reaches the
  state soon.
* **The response ring** (`lock.bsv:177`) is a token ring on which every node sends
  to every other. The comments on the constructors of token rings
  (`addressable-ring.bsv:153-158`, `194-196`) restrict them to one source or one
  destination: with three stops and six messages the links fill up with messages
  for other stops, which takes six locks in transit at once. `token_ring` checks
  the traffic the comments allow.
* **`othersSyncAllReached` at reset** (`synchronization.bsv:299`). The comment at
  lines 98-99 says that it is true if all slave nodes have reached the
  synchronization point. It is also true before `checkBarrierInit`, when no bit
  has been loaded. Once the service has started it is right
  (`OthersReachedOnceStarted`).

### Build

* **A dummy can outlive a build.** When the command that makes a `_con_size.bsh`,
  a `_synth.bsv` stub or the tree's wrapper fails after an edit, SCons has deleted its
  target; the next start writes a dummy there (`wrapper_gen.py:788-792`,
  `891-896`). If the edit is then reverted, SCons finds a target that exists and
  dependences as remembered, and the dummy stays and is compiled. The
  comment at 778-782 expects the file to "change only when some other file changes",
  which is not so here. `UpToDate` excuses what a kept dummy went into (`DummyKept`).
* **Undeclared sources.** Vivado's and XST's netlists are not remade when a VHDL
  file changes; Vivado's also read SystemVerilog, Verilog headers and EDF/NGC
  files that only the Synplify flow declares. `params.xdc` is written by a command
  without sources (`ModuleList.py:241-245`) and keeps an old parameter.
  `UpToDate` excludes these as `Untracked`.
* **Timing failures are forgotten.** `leap_physical_summary` writes its file when
  timing fails as well (`synthesis_functions.py:713-716`), so the same
  build repeated reports success.
* **Inner nodes of the tree are opened before they are made.** With more than two user
  boundaries the tree has inner nodes, whose Verilog is `GEN_VERILOGS` of the tree
  (`BSVSynthTreeBuilder.py:263-268`). `globalRTLs` puts it into every project
  file (`synthesis_functions.py:17-18`, 102, 200), and the commands that run XST and Vivado
  on a boundary do not declare it (444-452, 509-516); Synplify's do. With several jobs a
  boundary may be synthesized while the tree is still being compiled, and its project names
  files that do not exist yet. `NoEarlyRead` allows exactly these (`Racing`), and TLC finds
  them opened early in both configurations.
* **Names nothing sets**: the Verilog simulators ask for the dependence `VHDL`,
  `ModuleList` sets `VHD`; `buildXSTTopLevel` uses undefined names; NGD uses
  `xilinx_ucf` undefined when there is no UCF file; `Synplify.py` uses
  `self.firstPassLIGraph` and `linkEDF`, which it does not have.

### Synthesis tree and floorplanner

* `wrapper_gen.py:145` tests `service.isClient` without calling it.
* A tree whose root exposes only services loses them
  (`BSVSynthTreeBuilder.py:394-401`): `Registered` does the same, and
  `EveryEndConnected` speaks of what is registered when something is.
* The names matched at a node are kept in one dictionary for channels and chains
  (`BSVSynthTreeBuilder.py:796-833`). A channel with the name of a chain that
  both children are on would not be handed up (877). The program's names are
  assumed to differ (`NamesAssumption`).
* One user module together with area groups ends in a `KeyError` for the name
  `empty`; the initial states leave it out.
* `sort_area_groups` stores `path[i]` with the `i`-th group
  (`area_group_tool.py:414`), the inverse of the tour's order. `TourIsBest` asks
  for a numbering without gaps, which both are.
* `setSpecialPosition` compares the cache with the memory controller only and may
  put it over another group the user placed; it takes an x location of 0 for none
  (`area_group_tool.py:797`). `Excused` leaves these pairs to the user.
* The pblocks of flat small groups can be empty or inverted after the halo
  (193-213).
* Whether a child of a child is rejected depends on the order of the file's
  statements (922-937).
* **A kept shape may become too small.** The area of a group is compared with the last
  build's (`area_group_tool.py:336-343`), not with the one its shape was made for, although
  the comment (333-335) speaks of a change "within say a few percent": a module that grows by nine
  thousandths in every build keeps its first shape for ever. `ShapesFollowAreas` states how far
  it can drift, and no property says that a pblock has room for the logic: besides the drift, the
  halo takes up to three slices from each side of it (193-213).
* With at most one area group the annealing finds no move and goes on forever.

## 8 Not modelled

* *The memory system* (caches, scratchpads, coherent scratchpads, librl storage): the
  coherent cache alone is several thousand lines of rules with transient states;
  a model of it is a project of the size of this one, and a partial one would
  leave out the races that matter.
* *Common services, starter, routers, shared tree*: chains and rings as modelled here, with one register
  or counter per client on top.
* *RRR, channel I/O, physical channels, devices, libli*: marshalling and I/O of vendor IP and
  host drivers; generated code.
* *The second pass and variants of back ends*: the LIM build's second set of
  logs and its checkpoints per area group, SynplifySub, SynplifyFunctional, MCDTcl, UCF and BMM
  stages, FPGAProg. The modelled back ends have the same kinds of commands.
* *Text*: Bluespec wrappers, Tcl and constraint files, the interface parser,
  parameter substitution. No property is about their wording.
* *PythonTidy, RRR stub compiler, scripts, switches, examples, packaging*: third-party or without
  state.

## 9 Plan

In the order of importance: coherent scratchpads (`CohProtocol`, with an abstract
`CohMemory` it implements, on `RingNet`); librl storage and the direct-mapped
cache against an abstract memory; credits of the routers; reorder buffers of the
scratchpad service; the chains of statistics, parameters and stdio.

## Running

    tlc -config MCLockService.cfg MCLockService     # any MC*.cfg with its module
    tlapm LockServiceProofs.tla                     # any *Proofs.tla

Every run ends in a few minutes on a laptop; the proofs of a module take
one to fifteen minutes.
