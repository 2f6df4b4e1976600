----------------------------- MODULE BackRules ------------------------------
(***************************************************************************)
(* The stages that turn Verilog into an FPGA image: MCD, synthesis with    *)
(* XST (XILINX_XST.py), Vivado (XILINX_VIVADO_SYNTHESIS.py) or Synplify    *)
(* (Synplify.py), place and route with ISE, Vivado or Quartus, and the     *)
(* loader, whose summary file is what the build is asked for; and the      *)
(* pipelines that string the stages together.  First pass, no area groups. *)
(***************************************************************************)
EXTENDS FrontRules

(***************************************************************************)
(* MCD writes timing constraints when a log tells of a clock crossing: it  *)
(* waits for the Verilog of the top module, which comes with its log.      *)
(***************************************************************************)
MCD(b) ==
  LET logs == Files("log", Users \cup {Top})
  IN  Put(Command(b, Rule({File("mcducf")}, Dependencies(b, "VERILOG", Top) \cup logs, logs)),
          "UCF", Top, {File("mcducf")})

(***************************************************************************)
(* What a synthesizer is shown of a boundary: its Verilog, black boxes for *)
(* the boundaries below it, and whatever "can appear anywhere in the       *)
(* code": the Bluespec library, the Verilog and VHDL the project gives and  *)
(* the Verilog of the tree's inner modules.                                *)
(***************************************************************************)
GivenVerilogs(b) == AllDependencies(b, "VERILOG_LIB") \cup AllDependencies(b, "GIVEN_VERILOGS")
GlobalVerilogs(b) == GivenVerilogs(b) \cup AllDependencies(b, "GEN_VERILOGS")
GlobalVHDs(b) == AllDependencies(b, "VHD")

\* The files named in the project file XST is given, and in the scripts Vivado
\* and Synplify run.
PrjFiles(b, m) ==
  Dependencies(b, "VERILOG", m) \cup GlobalVerilogs(b)
    \cup Dependencies(b, "VERILOG_STUB", m) \cup GlobalVHDs(b)

\* The named files that have something of a boundary: the inner modules have names
\* the scripts made up, and nothing but the tree instantiates them.
Elsewhere(b, m) == UNION {Dependencies(b, "GEN_VERILOGS", n) : n \in b.mods \ {m}}
Netlist(outs, deps, b, m, scripts) ==
  [Rule(outs, deps, (PrjFiles(b, m) \ Elsewhere(b, m)) \cup scripts)
     EXCEPT !.opens = PrjFiles(b, m)]

\* Declared by all synthesis commands: no VHDL, no Verilog of inner modules.
RtlDeps_NoGlobals(b, m) == Dependencies(b, "VERILOG", m) \cup Dependencies(b, "VERILOG_STUB", m)
RtlDeps(b, m) ==
  Dependencies(b, "VERILOG", m) \cup GivenVerilogs(b) \cup Dependencies(b, "VERILOG_STUB", m)

\* The area of a boundary, read in the synthesizer's report.
SrpResources(m) == Rule({<<"resources", m>>}, {<<"srp", m>>}, {<<"srp", m>>})
UtilResources(m) == Rule({<<"resources", m>>}, {<<"util", m>>}, {<<"util", m>>})
SrrResources(m) == Rule({<<"resources", m>>}, {<<"srr", m>>}, {<<"srr", m>>})

(***************************************************************************)
(* XST.                                                                    *)
(***************************************************************************)
BuildNGC(b, m) ==
  Put(Commands(b, {Netlist({<<"ngc", m>>, <<"srp", m>>}, RtlDeps(b, m) \cup {File("xcf")},
                           b, m, {File("xcf")}),
                   SrpResources(m)}),
      "SYNTHESIS", m, {<<"ngc", m>>})

BuildXSTTopLevel(b) ==
  LET deps == Dependencies(b, "VERILOG", Top) \cup AllDependencies(b, "VERILOG_STUB")
                \cup AllDependencies(b, "VERILOG_LIB") \cup {File("xcf")}
  IN  Put(Command(b, Netlist({<<"ngc", Top>>}, deps, b, Top, {File("xcf")})),
          "SYNTHESIS", Top, Files("ngc", b.mods))

XST(b) ==
  LET xcf == AllDependencies(b, "XCF")
  IN  BuildXSTTopLevel(FoldSet(LAMBDA m, d : BuildNGC(d, m),
        Command(b, Rule({File("xcf")}, xcf, xcf)), SynthBoundaries(b)))

(***************************************************************************)
(* ISE: netlists linked, mapped, placed and routed.                        *)
(***************************************************************************)
NGD(b) ==
  LET ucf  == Dependencies(b, "UCF", Top)
      ngcs == Dependencies(b, "SYNTHESIS", Top)
  IN  Depends(Commands(b, {Rule({File("ucf")}, ucf, ucf),
                           Rule({File("ngd")}, ngcs, ngcs \cup {File("ucf")})}),
              {File("ngd")}, AllDependencies(b, "SYNTHESIS") \cup {File("ucf")})

\* Both write a report on the side.
MAP(b) ==
  Command(b, [Rule({File("mapncd"), File("pcf")}, {File("ngd")}, {File("ngd")})
                EXCEPT !.makes = @ \cup {File("mapmap")}])

PAR(b) ==
  LET mapped == {File("mapncd"), File("pcf")}
  IN  Command(b, [Rule({File("parncd")}, mapped, mapped) EXCEPT !.makes = @ \cup {File("parpar")}])

BITGEN(b) ==
  AddTop(Put(Command(b, Rule({File("bit")}, {File("parncd")}, {File("parncd"), File("pcf")})),
             "BIT", Top, {File("bit")}),
         {File("bit")})

Signature(b) ==
  LET bit == AllDependencies(b, "BIT") IN Command(b, Rule({File("signature")}, bit, bit))

Download == Rule({File("download")}, {}, {})

\* The summary is made of the reports, which it does not declare.
PhysicalSummary(declared, reports) ==
  Rule({File("errinfo")}, declared, {File("signature"), File("swexe")} \cup reports)

XilinxLoader(b) ==
  LET twr == {File("parncd"), File("pcf")}
  IN  AddTop(Depends(Commands(Signature(b), {Rule({File("twr")}, twr, twr), Download,
               PhysicalSummary({File("signature"), File("swexe"), File("twr")},
                               {File("mapmap"), File("parpar")})}),
               {File("errinfo")}, {File("download")}),
             {File("errinfo")})

XilinxPostSynth(b) == XilinxLoader(BITGEN(PAR(MAP(NGD(b)))))

(***************************************************************************)
(* Vivado.                                                                 *)
(***************************************************************************)
\* Scripts sourced by the constraints: the project's, and the parameters.
TclDeps(b) == {File("tclfile")} \cup AllDependencies(b, "PARAM_TCL")

BuildVivadoEDF(b, m) ==
  Put(Put(Commands(b, {Netlist({<<"edf", m>>, <<"util", m>>, <<"dcp", m>>},
                               {<<"stub", m>>} \cup RtlDeps(b, m) \cup TclDeps(b), b, m, TclDeps(b)),
                       UtilResources(m)}),
          "GEN_VIVADO_DCPS", m, {<<"dcp", m>>}),
      "SYNTHESIS", m, {<<"edf", m>>})

VivadoSynthesis(b) ==
  LET all == FoldSet(LAMBDA m, d : BuildVivadoEDF(d, m), b, SynthBoundaries(b) \cup {Top})
  IN  Put(all, "SYNTHESIS", Top, AllDependencies(all, "SYNTHESIS"))

\* One script links the checkpoints, sources the constraints, places and routes;
\* it writes the timing report on the side.
Checkpoints(b) == AllDependencies(b, "GEN_VIVADO_DCPS")

VivadoPostSynth(b) ==
  LET used == Checkpoints(b) \cup TclDeps(b)
  IN  Put(Command(b, [Rule({File("bit")}, used, used) EXCEPT !.makes = @ \cup {File("twr")}]),
          "BIT", Top, {File("bit")})

VivadoLoader(b) ==
  AddTop(Depends(Commands(Signature(b), {Download,
                             PhysicalSummary({File("signature"), File("swexe")}, {File("twr")})}),
                 {File("errinfo")}, {File("download")}),
         {File("errinfo")})

(***************************************************************************)
(* Synplify and Quartus.  Synplify declares every file of its project.     *)
(***************************************************************************)
BuildSynplifyEDF(b, m) ==
  LET files == GlobalVerilogs(b) \cup GlobalVHDs(b) \cup Dependencies(b, "VERILOG_STUB", m)
  IN  AddTop(Put(Depends(Commands(b,
               {Netlist({<<"edf", m>>, <<"srr", m>>}, {<<"stub", m>>} \cup RtlDeps(b, m) \cup TclDeps(b),
                        b, m, TclDeps(b)),
                SrrResources(m)}),
               {<<"edf", m>>, <<"srr", m>>}, files),
               "SYNTHESIS", m, {<<"edf", m>>}),
             {<<"resources", m>>})

Synplify(b) ==
  LET ucf == Dependencies(b, "UCF", Top)
      all == FoldSet(LAMBDA m, d : BuildSynplifyEDF(d, m),
                     Command(b, Rule({File("synucf")}, ucf, ucf)), SynthBoundaries(b) \cup {Top})
  IN  Replace(Put(all, "SYNTHESIS", Top, AllDependencies(all, "SYNTHESIS")),
              "UCF", Top, {File("synplicityucf")})

AlteraPostSynth(b) ==
  LET copy(edf) == Rule({<<"vqm", edf[2]>>}, {edf}, {edf})
      edfs == Dependencies(b, "SYNTHESIS", Top)
      vqms == {<<"vqm", edf[2]>> : edf \in edfs}
      used == vqms \cup {File("qsf")}
      last == {File("swexe"), File("sof"), File("download")}
  IN  AddTop(Commands(b, {copy(edf) : edf \in edfs}
               \cup {Rule({File("qsf")}, {}, {}), Rule({File("sof")}, used, used), Download,
                     Rule({File("errinfo")}, last, last)}),
             {File("errinfo")})

(***************************************************************************)
(* Pipelines.  SCons reads the scripts twice, for the depends-init build   *)
(* and for the build itself.  A software-only build has one reading.       *)
(***************************************************************************)
DependsBuild(c) ==
  IF c = "software" THEN IfaceDepends(ModuleList)
  ELSE BsvDepends(IfaceDepends(WrapperGen(ModuleList)))

Hardware == BsvMain(IfaceMain(WrapperGen(ModuleList)))
Fpga == MCD(Software(Hardware))

MainBuild(c) ==
  CASE c = "software" -> Software(ModuleList)
    [] c = "bluesim"  -> Software(Verilog(Bluesim(Hardware), FALSE))
    [] c = "verilog"  -> Verilog(Software(Hardware), TRUE)
    [] c = "xst"      -> XilinxPostSynth(XST(Fpga))
    [] c = "vivado"   -> VivadoLoader(VivadoPostSynth(VivadoSynthesis(Fpga)))
    [] c = "altera"   -> AlteraPostSynth(Synplify(Fpga))
=============================================================================
