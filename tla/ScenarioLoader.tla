--------------------------- MODULE ScenarioLoader ---------------------------
(***************************************************************************)
(* What mosdat functional does with --test, --var and the phase options    *)
(* before its first VM: resolve_test_path and load_test_yaml               *)
(* (runners/scenario_loader.py) with expand_call (routines/runner.py) and  *)
(* render_steps (runners/var_subst.py), and _resolve_phases (main.py).     *)
(*                                                                         *)
(* An item of a file is a step, an import, a call of a routine, or an      *)
(* if_visible step with the items of its then block.  Of the texts of a    *)
(* step there is one, and at most one variable in it; no variable has a    *)
(* value that is a template itself.                                        *)
(***************************************************************************)
EXTENDS Process, SequencesExt

CONSTANTS
  Scenarios,    \* [items, yaml (its vars), dir, phases (from_step of each)]
  Fragments,    \* name -> items
  Routines,     \* <<platform or "any", name>> -> [pre, main, post, failure, input, required, default]
  Platform,     \* of the first VM
  Overrides     \* the --var options tried: functions from variables to values

\* the items that are written in a file
AllItems == UNION ({ToSet(s.items) : s \in Scenarios} \cup {ToSet(Fragments[f]) : f \in DOMAIN Fragments}
                   \cup {ToSet(Routines[r].pre \o Routines[r].main \o Routines[r].post \o Routines[r].failure) : r \in DOMAIN Routines})

None == "none"
Fields == [step |-> {"kind", "name", "uses", "shows"}, if |-> {"kind", "name", "uses", "shows", "then"},
           import |-> {"kind", "name"}, call |-> {"kind", "name", "with"}]
Shaped(item) == item.kind \in DOMAIN Fields /\ DOMAIN item = Fields[item.kind]

\* _check_phases of the schema (scenario.py)
ASSUME ScenarioAssumption ==
  \A s \in Scenarios : /\ s.phases \in Seq(Nat \ {0})
                       /\ \A p, q \in DOMAIN s.phases : p < q => s.phases[p] < s.phases[q]

\* the files are lists of items, and a variable that is set has a value
ASSUME FilesAssumption ==
  /\ \A s \in Scenarios : s.items \in Seq(AllItems) /\ \A v \in DOMAIN s.yaml : s.yaml[v] # None
  /\ \A o \in Overrides : \A v \in DOMAIN o : o[v] # None
  /\ \A f \in DOMAIN Fragments : Fragments[f] \in Seq(AllItems)
  /\ \A r \in DOMAIN Routines :
       {Routines[r].pre, Routines[r].main, Routines[r].post, Routines[r].failure} \subseteq Seq(AllItems)
  /\ \A x \in AllItems : Shaped(x) /\ (x.kind = "if" => \A i \in DOMAIN x.then : Shaped(x.then[i]))

VARIABLES
  scenario,     \* the scenario file
  cli,          \* cli_vars
  phase,        \* --from-phase and --until-phase, as positions; 0: not given
  work,         \* [item, within]: items to expand, and the names they are within
  aside,        \* the same, of the on_failure steps of routines
  done,         \* items expanded
  replaced,     \* imports and calls replaced so far (ghost)
  slice         \* <<from_step, until_step>>

cVars == <<scenario, cli, phase, work, aside, done, replaced, slice>>

NoVar   == "no variable"
NoInput == "no input"
NoScenario == [items |-> <<>>, yaml |-> <<>>, dir |-> None, phases |-> <<>>]

CInit == /\ scenario = NoScenario /\ cli = <<>> /\ phase = <<0, 0>>
         /\ work = <<>> /\ aside = <<>> /\ done = <<>> /\ replaced = 0 /\ slice = <<0, 0>>

-----------------------------------------------------------------------------
(* variables and files *)

\* {**low, **high}
Merge(low, high) == [v \in DOMAIN low \cup DOMAIN high |-> IF v \in DOMAIN high THEN high[v] ELSE low[v]]
Merged == Merge(scenario.yaml, cli)

\* render_steps: a text is rendered once, what it shows then has no variable left;
\* a nested item is rendered with its if_visible step, a call is left alone
Template(item) == item.kind \in {"step", "if"} /\ item.uses # NoVar /\ item.shows = None
Shown(item, env) == IF Template(item) THEN [item EXCEPT !.shows = env[item.uses]] ELSE item
Rendered(item, env) ==
  LET outer == Shown(item, env)
  IN  IF item.kind = "if" THEN [outer EXCEPT !.then = [i \in DOMAIN item.then |-> Shown(item.then[i], env)]] ELSE outer
Texts(item) == {item} \cup IF item.kind = "if" THEN ToSet(item.then) ELSE {}
Undefined(items, env) == \E item \in ToSet(items) : \E t \in Texts(item) : Template(t) /\ t.uses \notin DOMAIN env
\* without variables nothing is rendered, and nothing is found to be undefined
Render(items, env)  == IF DOMAIN env = {} THEN items ELSE [i \in DOMAIN items |-> Rendered(items[i], env)]
Renders(items, env) == DOMAIN env # {} => ~Undefined(items, env)

\* resolve_routine_path
RoutineFile(name) == IF <<Platform, name>> \in DOMAIN Routines THEN <<Platform, name>> ELSE <<"any", name>>

\* _resolve_inputs: a routine declares at most one input; it is what the call gives, a
\* variable of the scenario, or, unless it is required, its default (which may be null).
\* What else the call gives is passed through.
InputOf(r, call) ==
  Merge(CASE r.input \in DOMAIN scenario.yaml        -> r.input :> scenario.yaml[r.input]
          [] r.input \notin DOMAIN scenario.yaml \cup {NoInput} /\ ~r.required -> r.input :> r.default
          [] OTHER                                   -> <<>>,
        call.with)
HasInput(r, call) == r.input # NoInput => r.input \in DOMAIN InputOf(r, call)
\* the variables of --var are not there yet
RoutineEnv(r, call) == Merge(scenario.yaml, InputOf(r, call))
\* the synthetic step that stands for the call in the log
EventStep(name) == [kind |-> "step", name |-> name, uses |-> NoVar, shows |-> None]
Body(call) == LET r == Routines[RoutineFile(call.name)]
              IN  <<EventStep(call.name)>> \o Render(r.pre \o r.main \o r.post, RoutineEnv(r, call))
OnFailure(call) == LET r == Routines[RoutineFile(call.name)] IN Render(r.failure, RoutineEnv(r, call))

-----------------------------------------------------------------------------
(* the command *)

Bare(items, within) == [i \in DOMAIN items |-> [item |-> items[i], within |-> within]]

\* the file is looked for in the directory of the VM's OS, its fallbacks and the root
StartLoad ==
  /\ At("main") /\ Goto("c.find")
  /\ scenario' \in Scenarios /\ cli' \in Overrides
  /\ phase' \in (0..Len(scenario'.phases)) \X (0..Len(scenario'.phases))
  /\ UNCHANGED <<faults, work, aside, done, replaced, slice>>

Find == /\ At("c.find") /\ UNCHANGED <<faults, scenario, cli, phase, aside, done, replaced, slice>>
        /\ IF scenario.dir \in {Platform, "root"} THEN Goto("c.import") /\ work' = Bare(scenario.items, {})
                                                  ELSE Exit(1) /\ UNCHANGED work

Next1 == Head(work).item
In1   == Head(work).within
Take  == work # <<>> /\ UNCHANGED <<faults, scenario, cli, phase, slice>>
Keep  == work' = Tail(work) /\ done' = Append(done, Next1) /\ UNCHANGED <<pc, code, aside, replaced>>
Stop  == Raise /\ work' = <<>> /\ aside' = <<>> /\ done' = <<>> /\ UNCHANGED replaced
Open(items, name) == /\ work' = Bare(items, In1 \cup {name}) \o Tail(work) /\ replaced' = replaced + 1
                     /\ UNCHANGED <<pc, code, done>>

\* mutant: the steps of a fragment come after those of the file
Import_last ==
  /\ At("c.import") /\ Take
  /\ IF Next1.kind # "import" THEN Keep
     ELSE IF Next1.name \in In1 \/ Next1.name \notin DOMAIN Fragments THEN Stop
     ELSE /\ work' = Tail(work) \o Bare(Fragments[Next1.name], In1 \cup {Next1.name}) /\ replaced' = replaced + 1
          /\ UNCHANGED <<pc, code, done, aside>>

\* _expand_imports and _load_fragment_steps; the items of then are not walked
Import ==
  /\ At("c.import") /\ Take
  /\ IF Next1.kind # "import" THEN Keep
     ELSE IF Next1.name \in In1 \/ Next1.name \notin DOMAIN Fragments THEN Stop
     ELSE Open(Fragments[Next1.name], Next1.name) /\ UNCHANGED aside
Imported == /\ At("c.import") /\ work = <<>> /\ Goto("c.call")
            /\ work' = Bare(done, {}) /\ done' = <<>>
            /\ UNCHANGED <<faults, scenario, cli, phase, aside, replaced, slice>>

\* expand_call ends the process for a routine within itself, one that is not there, or
\* one that cannot be rendered
Callable(call, within) ==
  /\ call.name \notin within /\ RoutineFile(call.name) \in DOMAIN Routines
  /\ LET r == Routines[RoutineFile(call.name)]
     IN  HasInput(r, call) /\ Renders(r.pre \o r.main \o r.post \o r.failure, RoutineEnv(r, call))
\* _expand_routines and expand_call
Expand ==
  /\ At("c.call") /\ Take
  /\ IF Next1.kind # "call" THEN Keep
     ELSE IF ~Callable(Next1, In1) THEN Stop
     ELSE Open(Body(Next1), Next1.name) /\ aside' = aside \o Bare(OnFailure(Next1), In1 \cup {Next1.name})
\* what is on_failure is expanded too, hung on the event step under a key that begins
\* with "_", and stripped with it: nothing is left of it, but the process may end.  (The
\* code does it call by call; how the process ends is the same.)
ExpandAside ==
  /\ At("c.call") /\ work = <<>> /\ aside # <<>> /\ UNCHANGED <<faults, scenario, cli, phase, slice>>
  /\ LET item == Head(aside).item
         names == Head(aside).within \cup {item.name}
     IN  IF item.kind # "call" THEN aside' = Tail(aside) /\ UNCHANGED <<pc, code, work, done, replaced>>
         ELSE IF ~Callable(item, Head(aside).within) THEN Stop
         ELSE /\ aside' = Bare(Body(item) \o OnFailure(item), names) \o Tail(aside)
              /\ UNCHANGED <<pc, code, work, done, replaced>>
Expanded == /\ At("c.call") /\ work = <<>> /\ aside = <<>> /\ Goto("c.render") /\ UNCHANGED <<faults, cVars>>

\* MissingVarsError and a validation error end the process with 4.  ImportStep is
\* a step like any other for the schema; a call is not
Accepted(item) == item.kind # "call" /\ (item.kind = "if" => \A i \in DOMAIN item.then : item.then[i].kind # "call")
RenderAll ==
  /\ At("c.render") /\ UNCHANGED <<faults, scenario, cli, phase, work, aside, replaced, slice>>
  /\ IF Renders(done, Merged) /\ \A i \in DOMAIN done : Accepted(done[i])
     THEN done' = Render(done, Merged) /\ Goto("c.phases")
     ELSE Exit(4) /\ done' = <<>>

\* _resolve_phases and the check of the bounds
FirstStep(p) == scenario.phases[p]
\* mutant: up to the first step of the next phase
LastStep_over(p) == IF p < Len(scenario.phases) THEN scenario.phases[p + 1] ELSE Len(done)

LastStep(p)  == IF p < Len(scenario.phases) THEN scenario.phases[p + 1] - 1 ELSE Len(done)
Bounds == <<IF phase[1] = 0 THEN 1 ELSE FirstStep(phase[1]), IF phase[2] = 0 THEN Len(done) ELSE LastStep(phase[2])>>
ResolvePhases ==
  /\ At("c.phases") /\ UNCHANGED <<faults, scenario, cli, phase, work, aside, done, replaced>>
  /\ IF 1 <= Bounds[1] /\ Bounds[1] <= Bounds[2] /\ Bounds[2] <= Len(done)
     THEN slice' = Bounds /\ Exit(0)
     ELSE UNCHANGED slice /\ Exit(1)

CNext == Find \/ Import \/ Imported \/ Expand \/ ExpandAside \/ Expanded \/ RenderAll \/ ResolvePhases

-----------------------------------------------------------------------------
(* Properties *)

Loaded == At("exited") /\ code = 0 /\ scenario # NoScenario

\* What the files mean: an import stands for the items of its fragment, a call for the
\* steps of its routine with its inputs, wherever they are written and in whatever order
\* they are replaced - at each level all at once, as often as something was replaced.
Stands == [x \in {y \in AllItems : \/ y.kind = "import" /\ y.name \in DOMAIN Fragments
                                   \/ y.kind = "call" /\ Callable(y, {})} |->
             IF x.kind = "import" THEN Fragments[x.name] ELSE Body(x)]
InPlace(item, stands) == IF item \in DOMAIN stands THEN stands[item] ELSE <<item>>
Pass(items, stands)   == FlattenSeq([i \in DOMAIN items |-> InPlace(items[i], stands)])
Levels(items, stands, depth) == LET level[k \in 0..depth] == IF k = 0 THEN items ELSE Pass(level[k - 1], stands)
                                IN  level[depth]
Meaning == Render(Levels(scenario.items, Stands, replaced), Merged)
\* the loader expands the imports of the scenario and of fragments first, then the calls
\* (and those of routines): an import in a routine or in a then block is left as it is
ImportLeft == \E i \in DOMAIN done : \E t \in Texts(done[i]) : t.kind = "import"

\* A scenario that loads is what its files say, in their order, each import and call
\* replaced by what it stands for, though the loader does it in two passes, imports
\* first: unless an import is left in the result.  (The comment of _expand_routines says
\* that imports in a routine are expanded later, and no code does it.)  No text shows a
\* template, and --var decides wherever no routine does.
LoadedIsExpansion ==
  Loaded => /\ ~ImportLeft => done = Meaning
            /\ \A i \in DOMAIN done : DOMAIN Merged # {} => \A t \in Texts(done[i]) : ~Template(t)

\* With phases, the steps that run are those of the phases asked for: from the
\* first step of the one up to the step before the phase that follows the other.
PhaseOf(n) == Cardinality({p \in DOMAIN scenario.phases : scenario.phases[p] <= n})
PhaseSlice ==
  Loaded => \A n \in DOMAIN done :
              n \in slice[1]..slice[2] <=> /\ PhaseOf(n) >= phase[1]
                                           /\ phase[2] # 0 => PhaseOf(n) <= phase[2]
=============================================================================
