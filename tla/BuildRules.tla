----------------------------- MODULE BuildRules -----------------------------
(***************************************************************************)
(* What the Python build scripts of src/modules/leap/build-support hand to *)
(* SCons.  A build description is a record                                 *)
(*   dep    moduleDependency: a set of <<key, module, file>>               *)
(*   rules  the commands declared so far                                   *)
(*   extra  env.Depends: pairs <<target, dependence>>                      *)
(*   top    topDependency, the files `scons' is asked for                  *)
(*   mods   the synthesis boundaries inserted into the module list         *)
(* and every stage of a pipeline is an operator from a description to the  *)
(* next one.  A file is a pair <<kind, owner>>.  A rule lists what it      *)
(* declares (outs and deps) apart from what its command opens and writes   *)
(* (reads and makes): SCons orders and reruns commands by the former, the  *)
(* compilers go by the latter.                                             *)
(***************************************************************************)
EXTENDS Naturals, Sequences, FiniteSets, SequencesExt

CONSTANTS
  Users,        \* the synthesis boundaries of the model
  Importers,    \* the boundaries whose code imports the package "lib"
  ParamModules, \* the modules with an AWB parameter that can be overridden
  Configs       \* the configurations checked, among AllConfigs

ASSUME UsersAssumption == Users # {} /\ IsFiniteSet(Users)

Platform == "platform"
Tree == "tree"
Top == "model"
All == "all"          \* owner of the files that exist once

\* The tree is cut into modules of its own once it joins more than two boundaries:
\* one owner stands for all of these inner modules, which one command makes.
Inner == IF Cardinality(Users) > 2 THEN {"inner"} ELSE {}

ASSUME NamesAssumption == Users \cap {Platform, Tree, Top, All, "inner", "lib", "lib2"} = {}

\* Bluesim; Verilog simulation; Xilinx XST; Vivado; Synplify with Quartus.
AllConfigs == {"bluesim", "verilog", "xst", "vivado", "altera", "software"}
ASSUME ConfigsAssumption == Configs \subseteq AllConfigs

Files(kind, owners) == {<<kind, o>> : o \in owners}
File(kind) == <<kind, All>>

(***************************************************************************)
(* Sources.                                                                *)
(***************************************************************************)
Boundaries == Users \cup {Platform, Tree, Top}
Packages == {"lib", "lib2"}

\* Files the build does not make.  The wrappers WrapperGen writes at every
\* start depend on the module list alone and count as sources that never change.
Sources == Files("src", Users \cup {Platform, Top} \cup Packages)
             \cup Files("wrap", Users \cup {Platform, Top})
             \cup Files("wlog", Users \cup {Platform, Tree})
             \cup Files("override", ParamModules)
             \cup {File(k) : k \in {"dic", "rrrfile", "cpp", "ver", "vhd", "vlib", "ucffile",
                                    "xcffile", "tclfile", "args"}}

(***************************************************************************)
(* Reading and extending a description.                                    *)
(***************************************************************************)
Dependencies(b, key, m) == {d[3] : d \in {e \in b.dep : e[1] = key /\ e[2] = m}}
AllDependencies(b, key) == {d[3] : d \in {e \in b.dep : e[1] = key}}

\* A boundary's subtree in the source tree ends at the boundaries below it: the
\* platform and the tree take nothing from the models they are inserted in.
SynthBoundaryDependencies(b, key, m) == Dependencies(b, key, m)

Put(b, key, m, files) == [b EXCEPT !.dep = @ \cup {<<key, m, f>> : f \in files}]
Replace(b, key, m, files) ==
  [b EXCEPT !.dep = {e \in @ : ~(e[1] = key /\ e[2] = m)} \cup {<<key, m, f>> : f \in files}]
AddTop(b, files) == [b EXCEPT !.top = @ \cup files]
Depends(b, targets, files) == [b EXCEPT !.extra = @ \cup (targets \X files)]
InsertModule(b, m) == [b EXCEPT !.mods = @ \cup {m}]

\* unit: the Bluespec package compiled, whose imports the command follows and
\* whose lines in the .depends files SCons loads; scan: the boundary whose
\* imports leap-bsc-mkdepend lists.  "" when the command is neither.  opens: files
\* the command opens and parses besides, of which nothing goes into what it makes.
Rule(outs, deps, reads) ==
  [outs |-> outs, deps |-> deps, reads |-> reads, opens |-> {}, makes |-> outs,
   unit |-> "", scan |-> "", always |-> FALSE]
Bsc(outs, deps, reads, unit) == [Rule(outs, deps, reads) EXCEPT !.unit = unit]

\* A command with nothing to run tells SCons that a file which some other
\* command writes on the side follows from that command's target.  The files
\* are Precious: SCons does not delete them before the command.
Null(outs, deps) == [Rule(outs, deps, {}) EXCEPT !.makes = {}]

Command(b, r) == [b EXCEPT !.rules = @ \cup {r}]
Commands(b, rs) == [b EXCEPT !.rules = @ \cup rs]

SynthBoundaries(b) == b.mods \ {Top}
TopoUsers(b) == b.mods \ {Top, Tree}   \* topo once the top module is popped

(***************************************************************************)
(* The module list before any stage has run.  Packages the boundaries      *)
(* share belong to the top module; the Verilog given by the project is     *)
(* repeated in every boundary that came with the model.                    *)
(***************************************************************************)
GivenBsvs == {<<"GIVEN_BSVS", Top, p>> : p \in Packages}

ModuleList ==
  [mods  |-> Users \cup {Top},
   dep   |-> {<<"VERILOG", m, f>> : m \in Users \cup {Top}, f \in {File("ver")}}
               \cup {<<"VERILOG", m, <<"v", m>> >> : m \in Users \cup {Top}}
               \cup {<<"VHD", m, File("vhd")>> : m \in Users \cup {Top}}
               \cup {<<"UCF", Top, File("ucffile")>>, <<"XCF", Top, File("xcffile")>>,
                     <<"PARAM_TCL", Top, File("params")>>}
               \cup {<<"GIVEN_DICTS", Top, File("dic")>>, <<"GIVEN_RRRS", Top, File("rrrfile")>>}
               \cup {<<"GIVEN_VERILOGS", Top, File("ver")>>}
               \cup GivenBsvs,
   rules |-> {Rule({File("params")}, {}, {File("args")})},
   extra |-> {},
   top   |-> {}]
=============================================================================
