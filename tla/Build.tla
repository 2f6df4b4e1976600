------------------------------- MODULE Build --------------------------------
(***************************************************************************)
(* Builds of one model, one after the other, in one tree of files: a       *)
(* developer edits sources, reverts them, overrides parameters on the      *)
(* command line and starts SCons again, and a command may fail.  Each      *)
(* start describes the build (BackRules), runs the nested depends-init     *)
(* build to its end, reads the .depends files it left and runs the         *)
(* commands that are out of date.                                          *)
(*                                                                         *)
(* SCons and the compilers are external.  A file's content is the set of   *)
(* pairs <<source, version>> that went into it; one that is absent is {}.  *)
(* SCons runs a command when a target is absent or when what it declares   *)
(* is not what it was after the command's last success, in any order the   *)
(* declarations allow, several at a time, and stops at the first failure.  *)
(***************************************************************************)
EXTENDS BackRules

CONSTANTS
  Edits,     \* the sources the developer edits, among Sources
  Values,    \* values a parameter can be overridden with
  MaxBuilds, MaxEdits, MaxFailures

ASSUME EditsAssumption == Edits \subseteq Sources
ASSUME ValuesAssumption == Values \subseteq Nat \ {0}

VARIABLES
  config,    \* the configuration of the model
  args,      \* the overrides on the command line, 0 for none
  version,   \* 1 for an edited source
  content,   \* files that SCons or its scripts made
  sig,       \* what SCons remembers of each command's last success
  phase,     \* "idle", "depends", "main"
  settled,   \* nothing has changed since a build that succeeded
  early,     \* files some command may have opened before their makers were done
  redone,    \* a build of what was up to date ran a command
  builds, edits, failures   \* bounded by the constants

vars == <<config, args, version, content, sig, phase, settled, early, redone,
          builds, edits, failures>>

(***************************************************************************)
(* Contents.                                                               *)
(***************************************************************************)
Absent == {}
Made == <<File("made"), 0>>
Dummy == {<<File("dummy"), 0>>}
Empty == {<<File("empty"), 0>>}

Overrides == Files("override", ParamModules)
LibSource == <<"src", "lib">>
Linked == LibSource \in Edits /\ version[LibSource] = 1

\* linked |-> the imports the old or the new lib has
Fixed(f) ==
  IF f = File("args") THEN {<<<<"arg", m>>, args[m]>> : m \in ParamModules}
  ELSE {<<f, IF f \in Edits THEN version[f] ELSE 0>>}

Stored == [c \in Configs |-> Overrides \cup Dummies \cup
            UNION {r.makes : r \in DependsBuild(c).rules \cup MainBuild(c).rules}]
Content(cs, f) == IF f \in DOMAIN cs THEN cs[f] ELSE Fixed(f)

(***************************************************************************)
(* The commands of a build: what they declare once env.Depends and the     *)
(* .depends files are added, which are needed for the goals, and in what   *)
(* order.  lists is the set of boundaries whose .depends file has lib2.    *)
(***************************************************************************)
\* ParseDepends: the lines of every boundary that mentions the unit.
Loaded_OwnFile(b, unit, lists) ==
  IF unit \notin b.mods \cup {Tree} THEN {} ELSE UnitReads(unit, unit \in lists)
Loaded(b, unit, lists) ==
  IF unit = "" THEN {}
  ELSE UNION {UnitReads(unit, m \in lists) :
                m \in {n \in b.mods \cup {Tree} : unit \in UnitsIn(n, n \in lists)}}

Declared(b, r, lists) ==
  r.deps \cup {d[2] : d \in {e \in b.extra : e[1] \in r.outs}} \cup Loaded(b, r.unit, lists)

Reads(r, linked) ==
  r.reads \cup (IF r.unit = "" THEN {} ELSE UnitReads(r.unit, linked))
          \cup (IF r.scan = "" THEN {} ELSE Named(r.scan, linked))

\* The same function with its values worked out once.
Table(f) == f @@ <<>>

Closure(step) ==
  LET twice(a) == Table([i \in DOMAIN a |-> a[i] \cup UNION {a[j] : j \in a[i]}])
      power[n \in 0..6] == IF n = 0 THEN Table(step)
                          ELSE CHOOSE t \in {twice(s) : s \in {power[n - 1]}} : TRUE
  IN  power[6]

Listed(set) == FoldSet(LAMBDA x, s : Append(s, x), <<>>, set)

Rules(b) == Listed(b.rules)
Declares(b, rules, lists) == Table([i \in DOMAIN rules |-> Declared(b, rules[i], lists)])
Waits(rules, declares) ==
  Table([i \in DOMAIN rules |-> {j \in DOMAIN rules : rules[j].outs \cap declares[i] # {}}])
Goals(b, rules) == {i \in DOMAIN rules : rules[i].outs \cap b.top # {}}
Needed(before, goals) == goals \cup UNION {before[i] : i \in goals}
Order(before, needed) == SortSeq(Listed(needed), LAMBDA i, j :
  \/ Cardinality(before[i]) < Cardinality(before[j])
  \/ (Cardinality(before[i]) = Cardinality(before[j]) /\ i < j))

\* A run of SCons is told by the configuration, the build and the lists it loads.
Planned(b, lists) ==
  LET Ordered(rules, declares, before) ==
        [rules |-> rules, declares |-> declares, before |-> before,
         order |-> Order(before, Needed(before, Goals(b, rules)))]
      Closed(rules, declares) == Ordered(rules, declares, Closure(Waits(rules, declares)))
      Declaring(rules) == Closed(rules, Declares(b, rules, lists))
  IN  Declaring(Rules(b))
Plan == Table([p \in Configs \X {"depends", "main"} \X SUBSET Importers |->
  Planned(IF p[2] = "depends" THEN DependsBuild(p[1]) ELSE MainBuild(p[1]), p[3])])

\* The sources of each goal, by what the commands read.
Inputs(rules, reads) ==
  Closure([i \in DOMAIN rules |-> {j \in DOMAIN rules : rules[j].makes \cap reads[i] # {}}])
SourcesFrom(rules, reads, inputs, goals) == Table([g \in goals |->
  Sources \cap UNION {UNION {reads[j] : j \in {i} \cup inputs[i]} :
                        i \in {n \in DOMAIN rules : g \in rules[n].makes}}])
Traced(rules, goals, linked) ==
  LET From(reads) == SourcesFrom(rules, reads, Inputs(rules, reads), goals)
  IN  From(Table([i \in DOMAIN rules |-> Reads(rules[i], linked)]))
SourcesOf == Table([k \in Configs \X BOOLEAN |->
  Traced(Listed(DependsBuild(k[1]).rules \cup MainBuild(k[1]).rules), MainBuild(k[1]).top, k[2])])

(***************************************************************************)
(* One run of SCons.                                                       *)
(***************************************************************************)
\* The sources an existing .depends file names, as SCons is told of them again
\* before it is remade.
OldList(cs, r) ==
  IF r.scan = "" \/ cs[<<"depends", r.scan>>] \in {Absent, Empty} THEN {}
  ELSE {f \in Named(r.scan, <<LibSource, 1>> \in cs[<<"depends", r.scan>>]) :
          Content(cs, f) # Absent}

Remembered(cs, files) == {<<f, Content(cs, f)>> : f \in files}

OutOfDate(cs, sg, r, declared) ==
  \/ r.always
  \/ \E f \in r.outs : cs[f] = Absent
  \/ r.outs \notin DOMAIN sg
  \/ sg[r.outs] # Remembered(cs, declared)

Compiled(cs, r) == {Made} \cup UNION {Content(cs, f) : f \in Reads(r, Linked)}

\* What run p without failures comes to: ran lists the commands executed.
Run(p) ==
  LET Do(run, i) ==
        LET r == p.rules[i]
            d == p.declares[i] \cup OldList(run.content, r)
        IN  IF ~OutOfDate(run.content, run.sig, r, d) THEN run
            ELSE [content |-> [f \in r.makes |-> Compiled(run.content, r)] @@ run.content,
                  sig     |-> (r.outs :> Remembered(run.content, d)) @@ run.sig,
                  ran     |-> run.ran \cup {i}]
      after[n \in 0..Len(p.order)] ==
        IF n = 0 THEN [content |-> content, sig |-> sig, ran |-> {}]
        ELSE CHOOSE run \in {Do(last, p.order[n]) : last \in {after[n - 1]}} : TRUE
  IN  after[Len(p.order)]

\* The same run cut short by the failure of command v, when it had done no more
\* than v waits for.
Failed(p, run, v) ==
  LET done   == run.ran \cap p.before[v]
      r      == p.rules[v]
      copies == UNION {p.rules[i].makes : i \in done}
      outs   == {p.rules[i].outs : i \in done}
  IN  [content |-> [f \in DOMAIN content |->
                      IF f \in r.outs THEN IF r.scan = "" THEN Absent ELSE Empty
                      ELSE IF f \in copies THEN run.content[f] ELSE content[f]],
       sig     |-> [o \in DOMAIN sig \cup outs |-> IF o \in outs THEN run.sig[o] ELSE sig[o]]]

\* With several commands at a time, one can start as soon as what it waits for is
\* done: it must find all it opens, and find it as it will stay.
TooEarly(p, run) ==
  LET Opened(v) == Reads(p.rules[v], Linked) \cup p.rules[v].opens
      Later(v) == UNION {p.rules[w].makes : w \in run.ran \ (p.before[v] \cup {v})}
  IN  UNION {{f \in Opened(v) : f \in Later(v) \/ Content(run.content, f) = Absent} :
               v \in run.ran}

Succeed(p, run, next) ==
  /\ content' = run.content
  /\ sig' = run.sig
  /\ phase' = next
  /\ redone' = (redone \/ (settled /\ phase = "main" /\ \E i \in run.ran : ~p.rules[i].always))
  /\ settled' = (next = "idle" \/ settled)
  /\ UNCHANGED failures

Fail(p, run) ==
  /\ failures < MaxFailures
  /\ \E v \in {i \in run.ran : p.rules[i].makes # {}} :
       \E f \in {Failed(p, run, v)} : content' = f.content /\ sig' = f.sig
  /\ failures' = failures + 1
  /\ phase' = "idle"
  /\ settled' = FALSE
  /\ UNCHANGED redone

Invocation(build, lists, next) ==
  /\ \E p \in {Plan[<<config, build, lists>>]} : \E run \in {Run(p)} :
       /\ early' = early \cup TooEarly(p, run)
       /\ Succeed(p, run, next) \/ Fail(p, run)
  /\ UNCHANGED <<config, args, version, builds, edits>>

(***************************************************************************)
(* Steps.                                                                  *)
(***************************************************************************)
Init ==
  /\ config \in Configs
  /\ args = [m \in ParamModules |-> 0]
  /\ version = [s \in Edits |-> 0]
  /\ content = [f \in Stored[config] |-> Absent]
  /\ sig = <<>>
  /\ phase = "idle"
  /\ settled = FALSE /\ early = {} /\ redone = FALSE
  /\ builds = 0 /\ edits = 0 /\ failures = 0

Change ==
  /\ phase = "idle" /\ edits < MaxEdits
  /\ edits' = edits + 1
  /\ settled' = FALSE
  /\ UNCHANGED <<config, content, sig, phase, early, redone, builds, failures>>

Edit(s) == Change /\ version' = [version EXCEPT ![s] = 1 - @] /\ UNCHANGED args

ChangeArguments(m, v) ==
  v # args[m] /\ Change /\ args' = [args EXCEPT ![m] = v] /\ UNCHANGED version

\* linkToEmptyOverrideFile leaves an empty file alone; initOverrideFiles starts
\* the text anew.
OverrideFile(m, old) ==
  IF args[m] # 0 THEN {<<<<"override", m>>, args[m]>>}
  ELSE IF old # Absent /\ old = {<<<<"override", m>>, 0>>} THEN old
  ELSE {<<<<"override", m>>, 0>>}

\* The scripts run: ModuleList writes the override files, WrapperGen the dummies
\* that are missing, and the dependence stage deletes empty .depends files.
Prepared_KeepsEmpty(f) ==
  CASE f \in Overrides -> OverrideFile(f[2], content[f])
    [] f \in Dummies /\ config # "software" /\ content[f] = Absent -> Dummy
    [] OTHER -> content[f]
Prepared_Overwrites(f) ==
  CASE f \in Overrides -> OverrideFile(f[2], content[f])
    [] f \in Dummies /\ config # "software" -> Dummy
    [] f[1] = "depends" /\ content[f] = Empty -> Absent
    [] OTHER -> content[f]
Prepared(f) ==
  CASE f \in Overrides -> OverrideFile(f[2], content[f])
    [] f \in Dummies /\ config # "software" /\ content[f] = Absent -> Dummy
    [] f[1] = "depends" /\ content[f] = Empty -> Absent
    [] OTHER -> content[f]

StartScons ==
  /\ phase = "idle" /\ builds < MaxBuilds
  /\ content' = [f \in DOMAIN content |-> Prepared(f)]
  /\ phase' = "depends"
  /\ builds' = builds + 1
  /\ UNCHANGED <<config, args, version, sig, settled, early, redone, edits, failures>>

DependsInit == phase = "depends" /\ Invocation("depends", {}, "main")

\* The boundaries whose .depends file has the imports of an edited lib.
Lists == {m \in Importers : <<"depends", m>> \in DOMAIN content
                               /\ <<LibSource, 1>> \in content[<<"depends", m>>]}

Main == phase = "main" /\ Invocation("main", Lists, "idle")

Next ==
  \/ \E s \in Edits : Edit(s)
  \/ \E m \in ParamModules, v \in Values \cup {0} : ChangeArguments(m, v)
  \/ StartScons
  \/ DependsInit
  \/ Main

Spec == Init /\ [][Next]_vars

(***************************************************************************)
(* Properties.                                                             *)
(***************************************************************************)
\* What no command declares: the VHDL XST and Vivado open through their project
\* files, and the parameters params.xdc is written from.
Untracked(p) == p[1][1] = "arg" \/ (config \in {"xst", "vivado"} /\ p[1] = File("vhd"))

Wanted(s) == IF s \in Overrides THEN {<<s, args[s[2]]>>} ELSE Fixed(s)

\* A dummy that outlived a build: the command that should have replaced it failed,
\* its product was deleted and a dummy put there at the next start, and an edit
\* was reverted, so that SCons finds nothing the command declares changed.
DummyKept == \E f \in Dummies : content[f] = Dummy /\ \E outs \in DOMAIN sig : f \in outs

\* After a build that succeeded every file that was asked for is what a build from
\* nothing would make of the sources and the command line, whatever was edited,
\* reverted or overridden before and wherever a build stopped; but where a dummy
\* was kept, the files that were made from it are not.
UpToDate ==
  phase = "idle" /\ settled =>
    \A sources \in {SourcesOf[<<config, Linked>>]} : \A g \in DOMAIN sources :
      \/ {p \in content[g] : ~Untracked(p)} =
           {Made} \cup {p \in UNION {Wanted(s) : s \in sources[g]} : ~Untracked(p)}
      \/ DummyKept /\ Dummy \subseteq content[g]

\* XST and Vivado may open the Verilog of the tree's inner modules, which the
\* projects of all boundaries name and no netlist command declares.
Racing == IF config \in {"xst", "vivado"} THEN Files("v", Inner) ELSE {}

\* In any order the declarations allow, no command opens a file that is missing or
\* that the same run of SCons makes later, but for the race just named.
NoEarlyRead == early \subseteq Racing

\* When the commands are planned, the .depends files tell of the imports the
\* sources have now, an empty or stale file of a failed build notwithstanding.
DependsCurrent ==
  phase = "main" => \A m \in Importers : config # "software" =>
    /\ content[<<"depends", m>>] \notin {Absent, Empty}
    /\ (m \in Lists) = Linked

\* Building once more what is up to date runs nothing but the commands that always run.
NothingRedone == ~redone
=============================================================================
