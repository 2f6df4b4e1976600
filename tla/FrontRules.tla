----------------------------- MODULE FrontRules -----------------------------
(***************************************************************************)
(* The stages every pipeline starts with, and the ones that end a          *)
(* simulation: WrapperGen (wrapper_gen.py), Iface (iface.py), BSV (BSV.py, *)
(* BSVSynthTreeBuilder.py), Software (software.py), Bluesim (bluesim.py)   *)
(* and Verilog (verilog.py).  First pass: no latency-insensitive graph has *)
(* been made by an earlier build.  Iface and BSV declare different rules   *)
(* in the `depends-init' build, which SCons runs to its end before it      *)
(* reads the scripts again for the build proper.                           *)
(***************************************************************************)
EXTENDS BuildRules

(***************************************************************************)
(* Imports.  The boundaries in Importers import the package lib; an edited *)
(* lib imports lib2 (linked).  Imports follow packages, includes are read  *)
(* with the file that has them.                                            *)
(***************************************************************************)
Imported(unit, linked) ==
  IF unit \in Importers THEN {"lib"} \cup (IF linked THEN {"lib2"} ELSE {})
  ELSE IF unit = "lib" /\ linked THEN {"lib2"} ELSE {}

Own(unit) ==
  Files("src", {unit} \cap (Users \cup {Platform, Top} \cup Packages))
    \cup Files("override", {unit} \cap ParamModules)

\* The dictionaries' headers, and the package compiled from them.
DictFiles == {File("dict"), File("dictbo")}

\* The top wrapper includes the synthesis stub of every boundary, which imports
\* the boundary's wrapper, and imports the platform's stub.
TopReads(linked) ==
  Own(Top) \cup DictFiles \cup Files("lbo", Imported(Top, linked))
    \cup Files("syn", Users \cup {Platform}) \cup Files("bo", Users \cup {Platform})
    \cup {<<"sbo", Platform>>}

\* What compiling a package or a wrapper opens besides its own file.
UnitReads(unit, linked) ==
  CASE unit \in Packages -> Own(unit) \cup Files("lbo", Imported(unit, linked))
    [] unit = Tree -> Files("bo", Users)
    [] unit = Top -> TopReads(linked)
    [] OTHER -> Own(unit) \cup DictFiles \cup Files("lbo", Imported(unit, linked))

\* The units with lines in the .depends file of a boundary, and the source files
\* named there: the only lines compute_dependence takes from an old file.
UnitsIn(m, linked) == {m} \cup Imported(m, linked)
Named(m, linked) ==
  {f \in UNION {UnitReads(u, linked) : u \in UnitsIn(m, linked)} :
     f[1] \in {"src", "override", "syn", "dict"}}

(***************************************************************************)
(* WrapperGen inserts the platform as one more boundary.                   *)
(***************************************************************************)
WrapperGen(b) ==
  InsertModule(Put(b, "VERILOG", Platform, {<<"v", Platform>>}), Platform)

\* The files the scripts leave alone when they exist: dummy connection sizes and
\* synthesis stubs, and the tree's wrapper, that a first dependence scan opens.
DummyConSizes == Files("con", Users \cup {Platform, Top})
DummyStubs == Files("syn", Users \cup {Platform})
DummyWrappers == {<<"wrap", Tree>>}
Dummies == DummyConSizes \cup DummyStubs \cup DummyWrappers

(***************************************************************************)
(* Iface.                                                                  *)
(***************************************************************************)
IfaceDepends(b) ==
  LET dicts == AllDependencies(b, "GIVEN_DICTS")
      rrrs  == AllDependencies(b, "GIVEN_RRRS")
      tgts  == {File("dict"), File("dictnames"), File("rrr")}
  IN  AddTop(Put(Commands(b, {Rule({File("dict")}, dicts, dicts),
                              Rule({File("dictnames")}, {File("dict")}, {File("dict")}),
                              Rule({File("rrr")}, rrrs, rrrs)}),
                 "IFACE_HEADERS", Top, {File("dict"), File("rrr")}),
             tgts)

IfaceMain(b) == Command(b, Rule({File("dictbo")}, {File("dict")}, {File("dict")}))

(***************************************************************************)
(* BSV in the depends-init build: leap-bsc-mkdepend over the wrapper and   *)
(* the log wrapper of every boundary, the tree's among them.  The .depends *)
(* file of the boundary names the sources it follows.                      *)
(***************************************************************************)
TargetFiles(m) == {<<"wrap", m>>} \cup (IF m = Top THEN {} ELSE {<<"wlog", m>>})

ComputeDependence(b, m) ==
  LET t == TargetFiles(m) \cup Dependencies(b, "IFACE_HEADERS", Top)
  IN  AddTop(Command(b, [Rule({<<"depends", m>>}, t, TargetFiles(m)) EXCEPT !.scan = m]),
             {<<"depends", m>>})

BsvDepends(b) ==
  LET withTree == InsertModule(b, Tree)
  IN  FoldSet(LAMBDA m, d : ComputeDependence(d, m), withTree, withTree.mods)

(***************************************************************************)
(* BSV in the build proper.                                                *)
(***************************************************************************)
\* Every package is compiled with the boundary that owns it.
CompilePackages(b, m) ==
  Commands(b, {Bsc({<<"lbo", p>>}, {<<"src", p>>}, {<<"src", p>>}, p) :
                 p \in SynthBoundaryDependencies(b, "GIVEN_BSVS", m)})

\* One compiler run writes the object, the Verilog, the simulation object and the
\* string table; SCons is told of the object alone.
OnTheSide(m) == {<<"v", m>>, <<"ba", m>>, <<"str", m>>}
Compile(m, deps, reads, side) ==
  {[Bsc({<<"bo", m>>}, deps, reads, m) EXCEPT !.makes = @ \cup side]}
    \cup {Null({f}, {<<"bo", m>>}) : f \in side}

\* The real compilation waits for the connection sizes found in the log.
WrapperBo(b, m) ==
  Depends(Commands(b, Compile(m, {<<"wrap", m>>}, {<<"wrap", m>>, <<"con", m>>}, OnTheSide(m))),
          {<<"bo", m>>}, {<<"con", m>>})

\* What leap-connect makes of the log: sizes, and the stub the top module includes.
ConSize(m) == Rule({<<"con", m>>}, {<<"log", m>>}, {<<"log", m>>})
SynthStub(m) == Rule({<<"syn", m>>}, {<<"log", m>>}, {<<"log", m>>})

\* A black box for the synthesizers, made from the Verilog.
StubGen(m) == Rule({<<"stub", m>>}, {<<"v", m>>}, {<<"v", m>>})

\* Products every boundary records.
Record(b, m) ==
  Put(Put(Put(Put(b, "BSV_LOG", m, {<<"log", m>>}), "STR", m, {<<"str", m>>}),
          "VERILOG", m, {<<"v", m>>}), "BA", m, {<<"ba", m>>})

BuildSynthBoundary(b, m) ==
  LET log  == Command(CompilePackages(b, m), Bsc({<<"log", m>>}, {<<"wlog", m>>}, {<<"wlog", m>>}, m))
      made == Commands(WrapperBo(log, m), {ConSize(m), SynthStub(m), StubGen(m)})
  IN  Put(Put(Put(Record(made, m), "BO", m, {<<"bo", m>>}),
              "VERILOG_STUB", Top, {<<"stub", m>>}),
          "GEN_VERILOG_STUB", m, {<<"stub", m>>})

BuildTopBoundary(b) ==
  LET made == Commands(CompilePackages(b, Top),
                       Compile(Top, {<<"wrap", Top>>}, {<<"wrap", Top>>, <<"sbo", Tree>>},
                               OnTheSide(Top) \cup {<<"log", Top>>})
                         \cup {StubGen(Top)})
  IN  AddTop(Put(Record(made, Top), "BSV_BO", Top, {<<"bo", Top>>}), {<<"log", Top>>})

\* The tree is one more boundary, with the files of its inner modules; its black
\* boxes are those of the users'.
TreeModule(b) ==
  LET oldStubs == UNION {Dependencies(b, "GEN_VERILOG_STUB", m) : m \in Users}
  IN  Put(Put(Put(Put(Put(InsertModule(b, Tree), "VERILOG", Tree, {<<"v", Tree>>}),
                      "GEN_VERILOGS", Tree, Files("v", Inner)),
                  "GEN_BAS", Tree, Files("ba", Inner)),
              "VERILOG_STUB", Tree, oldStubs),
          "GEN_VERILOG_STUB", Tree, {<<"stub", Tree>>})

\* cutTreeBuild makes the tree's wrapper and stub from the users' logs; what is
\* compiled of it waits until every boundary is.  The simulation object of its
\* outermost module is written on the side and declared nowhere.
TreeParts == {<<"wrap", Tree>>, <<"syn", Tree>>}
CutTreeBuild(b) ==
  LET logs == UNION {Dependencies(b, "BSV_LOG", m) : m \in TopoUsers(b) \ {Platform}}
  IN  Command(b, Rule(TreeParts, logs, logs))
CompileTree(b) ==
  LET outs == {<<"bo", Tree>>, <<"v", Tree>>}
                \cup Dependencies(b, "GEN_BAS", Tree) \cup Dependencies(b, "GEN_VERILOGS", Tree)
  IN  Depends(Commands(b, {[Bsc(outs, TreeParts, {<<"wrap", Tree>>}, Tree)
                              EXCEPT !.makes = @ \cup {<<"ba", Tree>>}],
                           StubGen(Tree)}),
              {<<"bo", Tree>>}, AllDependencies(b, "BO"))

\* The stubs of the tree and of the platform, as packages the top module imports.
StubBo(m) ==
  Rule({<<"sbo", m>>}, {<<"syn", m>>, <<"bo", m>>}, {<<"syn", m>>, <<"bo", m>>})

\* The top module waits for the stubs, and is shown two black boxes alone.
TopWaits(b) ==
  Depends(Depends(b, Dependencies(b, "BSV_BO", Top), {<<"sbo", Tree>>}),
          Dependencies(b, "BSV_LOG", Top), {<<"sbo", Tree>>, <<"sbo", Platform>>})
TopStubs(b) ==
  Replace(b, "VERILOG_STUB", Top,
          UNION {Dependencies(b, "GEN_VERILOG_STUB", m) : m \in {Platform, Tree}})

SetupTreeBuild(b) ==
  TopStubs(TopWaits(Commands(CompileTree(CutTreeBuild(TreeModule(b))),
                             {StubBo(Tree), StubBo(Platform)})))

GlobalStrings(b) ==
  AddTop(Commands(b, {Rule({File("str")}, AllDependencies(b, "STR"), AllDependencies(b, "STR")),
                      Rule({File("strlink")}, {File("str")}, {File("str")})}),
         {File("strlink")})

\* Every boundary may use the Verilog of the Bluespec library.
DecorateBluespecLibraryCode(b) ==
  FoldSet(LAMBDA m, d : Put(d, "VERILOG_LIB", m, {File("vlib")}), b, b.mods)

BsvMain(b) ==
  GlobalStrings(SetupTreeBuild(BuildTopBoundary(
    FoldSet(LAMBDA m, d : BuildSynthBoundary(d, m), DecorateBluespecLibraryCode(b), TopoUsers(b)))))

(***************************************************************************)
(* Software: SCons scans the C++ sources for headers itself; the program   *)
(* is linked by name against the shared library.                           *)
(***************************************************************************)
SoftwareObjects(b) ==
  LET cpp == {File("cpp"), File("dict"), File("rrr")}
  IN  Commands(b, {Rule({File("obj")}, cpp, cpp), Rule({File("so")}, {File("obj")}, {File("obj")})})

Software(b) ==
  AddTop(Depends(Commands(SoftwareObjects(b),
           {Rule({File("swwrapper")}, {}, {}),
            Rule({File("swexe")}, {File("swwrapper")}, {File("swwrapper"), File("so")})}),
           {File("swexe")}, {File("so")}),
         {File("swexe")})

(***************************************************************************)
(* Simulators.  They are linked from the objects of all modules, the tree's *)
(* outermost one found on the search path.                                 *)
(***************************************************************************)
Bluesim(b) ==
  LET bas == AllDependencies(b, "BA") \cup AllDependencies(b, "GEN_BAS")
  IN  AddTop(Commands(b, {Rule({File("hwexe")}, bas, bas \cup {<<"ba", Tree>>}),
                          Rule({File("simexe")}, {File("hwexe")}, {File("hwexe")})}),
             {File("simexe")})

VerilogFiles(b) == UNION {AllDependencies(b, k) : k \in {"VERILOG", "BA", "GEN_BAS"}}
VerilogReads(b) ==
  VerilogFiles(b) \cup AllDependencies(b, "VERILOG_LIB") \cup AllDependencies(b, "GEN_VERILOGS")

\* Only the build that was asked for a Verilog simulator has it among its goals,
\* declares the library and links the simulator every time.
Verilog(b, isPrimaryBuildTarget) ==
  LET deps == VerilogFiles(b)
                \cup IF isPrimaryBuildTarget THEN AllDependencies(b, "VERILOG_LIB") ELSE {}
      made == Commands(b, {[Rule({File("vbin")}, deps, VerilogReads(b))
                              EXCEPT !.always = isPrimaryBuildTarget],
                           Rule({File("vexe")}, {File("vbin")}, {File("vbin")})})
  IN  IF isPrimaryBuildTarget THEN AddTop(made, {File("vexe")}) ELSE made
=============================================================================
