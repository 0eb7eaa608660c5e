----------------------------- MODULE SystemRun -----------------------------
(***************************************************************************)
(* System: the list of analyzers and updaters, each with its own period,   *)
(* and System::run(), the loop that executes the ones that are due, looks  *)
(* ahead for the quantities the next step has to provide, and lets the     *)
(* integrator move the particles one time step.                            *)
(*                                                                         *)
(* A PDataFlag is identified with the item that requests it: a flag shared *)
(* by two items could only hide that one of them went without.  The        *)
(* integrator is an IntegratorTwoStep, its forces one ForceCompute, without*)
(* rigid bodies.  "callback" is a phase of its own, as the Python callback *)
(* may call any method of the System; so is "imd", in which the analyzer of *)
(* IMDInterface keeps the loop as long as the viewer has it paused.        *)
(***************************************************************************)
EXTENDS Integers, Sequences, FiniteSets, SequencesExt, IMDInterface

CONSTANTS
    Analyzers, Updaters,    \* names of the items a script may add
    Imd,                    \* name of the analyzer that is an IMDInterface
    Periods,                \* the fixed periods it may choose
    FrameResults,           \* what a variable period function may return
    MaxStep,                \* bound: no run goes past this time step
    CallbackPeriod,         \* cb_frequency, 0: no callback during the run
    LimitMultiple,          \* limit_multiple
    MaxInterruptions        \* bound: SIGINTs, exceptions and acts of the viewer

ASSUME SystemAssumption ==
    /\ Analyzers \cap Updaters = {}
    /\ Periods \subseteq Nat \ {0}
    /\ FrameResults \subseteq Int
    /\ MaxStep \in Nat /\ CallbackPeriod \in Nat
    /\ LimitMultiple \in Nat \ {0} /\ MaxInterruptions \in Nat

VARIABLES
    phase,          \* where run() is; "script": it is not running
    m_cur_tstep, m_end_tstep,
    m_analyzers, m_updaters,
    pos,            \* the iterator of the loop over one of the two
    m_flags,        \* ParticleData::m_flags
    m_first_step,   \* the integrator's prepRun() has not been called
    m_last_computed,\* the ForceCompute's, -1: m_first_compute
    m_particles_sorted,
    g_sigint_recvd,
    integrated,     \* history: the last time step the integrator executed
    late,           \* history: the items this step's callback has scheduled
    budget          \* interruptions that may still happen

control == <<phase, m_cur_tstep, m_end_tstep, pos>>
lists == <<m_analyzers, m_updaters>>
forces == <<m_last_computed, m_particles_sorted>>
runVars == <<control, lists, m_flags, m_first_step, forces, g_sigint_recvd,
          integrated, late, budget, imdVars>>

-----------------------------------------------------------------------------
(* analyzer_item and updater_item, which have the same code. m_n, which only *)
(* the period function sees, is left out with what that function computes.   *)

NewItem(name, period, tstep) ==
    [m_name |-> name, m_period |-> period, m_created_tstep |-> tstep,
     m_next_execute_tstep |-> tstep, m_is_variable_period |-> FALSE]

SetPeriod(item, period, tstep) ==
    [item EXCEPT !.m_period = period, !.m_next_execute_tstep = tstep,
                 !.m_is_variable_period = FALSE]

SetVariablePeriod(item, tstep) ==
    [item EXCEPT !.m_next_execute_tstep = tstep,
                 !.m_is_variable_period = TRUE]

PeekExecute(item, tstep) == tstep = item.m_next_execute_tstep

\* The frames of a period function, without a look at the current step.
FaultyVariableStep(item, result, tstep) ==
    LET next == result + item.m_created_tstep IN IF next < 0 THEN 1 ELSE next

\* A negative step becomes 1, a step that is not in the future the next one.
VariableStep(item, result, tstep) ==
    LET next == result + item.m_created_tstep
        positive == IF next < 0 THEN 1 ELSE next
    IN  IF positive <= tstep THEN tstep + 1 ELSE positive

\* What shouldExecute() may leave of an item that is due at tstep.
Advanced(item, tstep) ==
    IF item.m_is_variable_period
    THEN { [item EXCEPT
                !.m_next_execute_tstep = VariableStep(item, result, tstep)]
           : result \in FrameResults }
    ELSE { [item EXCEPT !.m_next_execute_tstep = @ + item.m_period] }

-----------------------------------------------------------------------------
Names(list) == { list[i].m_name : i \in DOMAIN list }

Due(list, tstep) ==
    { list[i].m_name : i \in { j \in DOMAIN list : PeekExecute(list[j], tstep) } }

\* determineFlags() without looking at the updaters.
FaultyDetermineFlags(tstep) == Due(m_analyzers, tstep)

DetermineFlags(tstep) == Due(m_analyzers, tstep) \cup Due(m_updaters, tstep)

\* The lists when an item is added without looking for its name first.
FaultyEdited(list, names) ==
    { Append(list, NewItem(name, period, m_cur_tstep)) :
          name \in names, period \in Periods }

\* The lists addAnalyzer, removeAnalyzer, setAnalyzerPeriod(Variable), and
\* their updater counterparts, can produce from a list; the ones that throw
\* (a name that exists, a name that does not) change nothing.
Edited(list, names) ==
    { Append(list, NewItem(name, period, m_cur_tstep)) :
          name \in names \ Names(list), period \in Periods }
    \cup { RemoveAt(list, i) : i \in DOMAIN list }
    \cup { [list EXCEPT ![i] = SetPeriod(list[i], period, m_cur_tstep)] :
               i \in DOMAIN list, period \in Periods }
    \cup { [list EXCEPT ![i] = SetVariablePeriod(list[i], m_cur_tstep)] :
               i \in DOMAIN list }

Scheduled(list, edited) ==
    { edited[i].m_name : i \in { j \in DOMAIN edited : edited[j] \notin Range(list) } }

EditItems ==
    /\ phase \in {"script", "callback"}
    /\ \/ m_analyzers' \in Edited(m_analyzers, Analyzers) /\ UNCHANGED m_updaters
       \/ m_updaters' \in Edited(m_updaters, Updaters) /\ UNCHANGED m_analyzers
    /\ late' = IF phase = "script" THEN {}
               ELSE late \cup Scheduled(m_analyzers, m_analyzers')
                         \cup Scheduled(m_updaters, m_updaters')
    /\ UNCHANGED <<control, m_flags, m_first_step, forces, g_sigint_recvd,
                   integrated, budget, imdVars>>

\* A script sets a new integrator, with the same forces.
SetIntegrator ==
    /\ phase = "script" /\ ~m_first_step
    /\ m_first_step' = TRUE
    /\ UNCHANGED <<control, lists, m_flags, forces, g_sigint_recvd, integrated,
                   late, budget, imdVars>>

-----------------------------------------------------------------------------
(* ForceCompute::compute(), through Compute::shouldCompute().               *)

WouldCompute(tstep) == m_particles_sorted \/ m_last_computed # tstep

ComputeNetForce(tstep) ==
    /\ m_last_computed' =
           IF m_particles_sorted THEN m_last_computed ELSE tstep
    /\ m_particles_sorted' = FALSE

\* run(): the flags of the current step, then prepRun(), which computes the
\* forces on the integrator's first run only.
StartRun(nsteps) ==
    /\ phase = "script"
    /\ m_cur_tstep + nsteps <= MaxStep
    /\ m_end_tstep' = m_cur_tstep + nsteps
    /\ m_flags' = DetermineFlags(m_cur_tstep)
    /\ IF m_first_step THEN ComputeNetForce(m_cur_tstep)
                       ELSE UNCHANGED forces
    /\ m_first_step' = FALSE
    /\ phase' = "step"
    /\ UNCHANGED <<m_cur_tstep, lists, pos, g_sigint_recvd, integrated, late,
                   budget, imdVars>>

\* The next phase; what the callback has scheduled matters until the step ends.
GoTo(p) ==
    /\ phase' = p
    /\ late' = IF p \in {"script", "step"} THEN {} ELSE late
    /\ pos' = IF p \in {"analyzers", "updaters"} THEN 1 ELSE 0

Untouched == <<m_flags, m_first_step, integrated, budget, g_sigint_recvd, imdVars>>

CallbackDue == CallbackPeriod > 0 /\ m_cur_tstep % CallbackPeriod = 0

\* The for loop ends, or the clock ends it.
EndOfRun ==
    /\ phase = "step"
    /\ m_cur_tstep >= m_end_tstep \/ m_cur_tstep % LimitMultiple = 0
    /\ GoTo("script")
    /\ UNCHANGED <<m_cur_tstep, m_end_tstep, lists, forces, Untouched>>

BeginStep ==
    /\ phase = "step" /\ m_cur_tstep < m_end_tstep
    /\ GoTo(IF CallbackDue THEN "callback" ELSE "analyzers")
    /\ UNCHANGED <<m_cur_tstep, m_end_tstep, lists, forces, Untouched>>

\* The loop's increment also happens on the way out of an interrupted step.
FaultyCallbackReturns ==
    /\ phase = "callback"
    /\ \/ GoTo("analyzers") /\ UNCHANGED m_cur_tstep
       \/ GoTo("script") /\ m_cur_tstep' = m_cur_tstep + 1
    /\ UNCHANGED <<m_end_tstep, lists, forces, Untouched>>

\* A negative return value ends the run before the step.
CallbackReturns ==
    /\ phase = "callback"
    /\ GoTo("analyzers") \/ GoTo("script")
    /\ UNCHANGED <<m_cur_tstep, m_end_tstep, lists, forces, Untouched>>

\* One iteration of the loop over the analyzers; analyze() of the IMDInterface
\* has steps of its own.
NextAnalyzer ==
    /\ phase = "analyzers" /\ pos \in DOMAIN m_analyzers
    /\ IF PeekExecute(m_analyzers[pos], m_cur_tstep)
       THEN \E item \in Advanced(m_analyzers[pos], m_cur_tstep) :
                m_analyzers' = [m_analyzers EXCEPT ![pos] = item]
       ELSE UNCHANGED m_analyzers
    /\ IF PeekExecute(m_analyzers[pos], m_cur_tstep) /\ m_analyzers[pos].m_name = Imd
       THEN phase' = "imd" /\ UNCHANGED pos
       ELSE pos' = pos + 1 /\ UNCHANGED phase
    /\ UNCHANGED <<m_cur_tstep, m_end_tstep, m_updaters, forces, late, Untouched>>

\* A connection, and the commands that do not end analyze().
AnalyzeImd ==
    /\ phase = "imd"
    /\ Accept \/ ProcessCommand
    /\ UNCHANGED <<control, lists, forces, m_flags, m_first_step, integrated,
                   budget, g_sigint_recvd, late>>

\* The loop without a look at the signal.
FaultyLeaveImd ==
    /\ ~ m_paused'
    /\ phase' = "analyzers" /\ pos' = pos + 1
    /\ UNCHANGED <<late, g_sigint_recvd>>

\* The end of the loop of analyze(): SIGINT throws out of run() and is forgotten,
\* a pause goes on, otherwise the next analyzer follows.
LeaveImd ==
    \/ /\ g_sigint_recvd
       /\ GoTo("script") /\ g_sigint_recvd' = FALSE
    \/ /\ ~ g_sigint_recvd /\ ~ m_paused'
       /\ phase' = "analyzers" /\ pos' = pos + 1
       /\ UNCHANGED <<late, g_sigint_recvd>>

\* Nothing, or no more, to answer; or the viewer disconnects, with KILL to stop
\* the simulation by an exception.
EndAnalyzeImd ==
    /\ phase = "imd"
    /\ \/ ~ Available /\ UNCHANGED imdVars /\ LeaveImd
       \/ inbox = "DISCONNECT" /\ ProcessDeadConnection /\ LeaveImd
       \/ /\ inbox = "KILL" /\ ProcessDeadConnection
          /\ GoTo("script") /\ UNCHANGED g_sigint_recvd
    /\ UNCHANGED <<m_cur_tstep, m_end_tstep, lists, forces, m_flags, m_first_step,
                   integrated, budget>>

\* The loop turns while paused, until something comes.
KeepPaused ==
    /\ phase = "imd" /\ m_paused /\ ~ Available /\ ~ g_sigint_recvd
    /\ UNCHANGED runVars

AnalyzersDone ==
    /\ phase = "analyzers" /\ pos > Len(m_analyzers)
    /\ GoTo("updaters")
    /\ UNCHANGED <<m_cur_tstep, m_end_tstep, lists, forces, Untouched>>

\* An iterator that only moves past the updaters that are due.
FaultyNextUpdater ==
    /\ phase = "updaters" /\ pos \in DOMAIN m_updaters
    /\ PeekExecute(m_updaters[pos], m_cur_tstep)
    /\ \E item \in Advanced(m_updaters[pos], m_cur_tstep) :
           m_updaters' = [m_updaters EXCEPT ![pos] = item]
    /\ m_particles_sorted' \in {m_particles_sorted, TRUE}
    /\ pos' = pos + 1
    /\ UNCHANGED <<phase, m_cur_tstep, m_end_tstep, m_analyzers,
                   m_last_computed, late, Untouched>>

\* One iteration of the loop over the updaters; one that runs may reorder the
\* particles (SFCPackUpdater), which the forces are notified of.
NextUpdater ==
    /\ phase = "updaters" /\ pos \in DOMAIN m_updaters
    /\ IF PeekExecute(m_updaters[pos], m_cur_tstep)
       THEN /\ \E item \in Advanced(m_updaters[pos], m_cur_tstep) :
                   m_updaters' = [m_updaters EXCEPT ![pos] = item]
            /\ m_particles_sorted' \in {m_particles_sorted, TRUE}
       ELSE UNCHANGED <<m_updaters, m_particles_sorted>>
    /\ pos' = pos + 1
    /\ UNCHANGED <<phase, m_cur_tstep, m_end_tstep, m_analyzers,
                   m_last_computed, late, Untouched>>

UpdatersDone ==
    /\ phase = "updaters" /\ pos > Len(m_updaters)
    /\ GoTo("integrate")
    /\ UNCHANGED <<m_cur_tstep, m_end_tstep, lists, forces, Untouched>>

\* The look-ahead, the integrator's update(), and the check of the signal,
\* which leaves run() without having counted the step.
Integrate ==
    /\ phase = "integrate"
    /\ m_flags' = DetermineFlags(m_cur_tstep + 1)
    /\ ComputeNetForce(m_cur_tstep + 1)
    /\ integrated' = m_cur_tstep
    /\ g_sigint_recvd' = FALSE
    /\ IF g_sigint_recvd
       THEN GoTo("script") /\ UNCHANGED m_cur_tstep
       ELSE GoTo("step") /\ m_cur_tstep' = m_cur_tstep + 1
    /\ UNCHANGED <<m_end_tstep, lists, m_first_step, budget, imdVars>>

-----------------------------------------------------------------------------
\* The signal handler, at any moment.
SigintHandler ==
    /\ budget > 0 /\ ~g_sigint_recvd
    /\ g_sigint_recvd' = TRUE
    /\ budget' = budget - 1
    /\ UNCHANGED <<control, lists, m_flags, m_first_step, forces, integrated,
                   late, imdVars>>

\* The viewer, at any moment.
Viewer ==
    /\ budget > 0 /\ budget' = budget - 1
    /\ Connect \/ Send
    /\ UNCHANGED <<control, lists, m_flags, m_first_step, forces, integrated,
                   late, g_sigint_recvd>>

\* An analyzer or updater that is due, the callback, or a period function
\* throws out of run(), and the script catches it.  shouldExecute() has
\* advanced the item, except when its period function is what threw.
Throw(list) ==
    /\ pos \in DOMAIN list
    /\ PeekExecute(list[pos], m_cur_tstep)

Fail ==
    /\ budget > 0
    /\ budget' = budget - 1
    /\ \/ phase = "callback" /\ UNCHANGED lists
       \/ /\ phase = "analyzers" /\ Throw(m_analyzers)
          /\ \/ \E item \in Advanced(m_analyzers[pos], m_cur_tstep) :
                    m_analyzers' = [m_analyzers EXCEPT ![pos] = item]
             \/ m_analyzers[pos].m_is_variable_period /\ UNCHANGED m_analyzers
          /\ UNCHANGED m_updaters
       \/ /\ phase = "updaters" /\ Throw(m_updaters)
          /\ \/ \E item \in Advanced(m_updaters[pos], m_cur_tstep) :
                    m_updaters' = [m_updaters EXCEPT ![pos] = item]
             \/ m_updaters[pos].m_is_variable_period /\ UNCHANGED m_updaters
          /\ UNCHANGED m_analyzers
    /\ GoTo("script")
    /\ UNCHANGED <<m_cur_tstep, m_end_tstep, m_flags, m_first_step, forces,
                   g_sigint_recvd, integrated, imdVars>>

-----------------------------------------------------------------------------
RunInit ==
    /\ phase = "script" /\ pos = 0
    /\ m_cur_tstep = 0 /\ m_end_tstep = 0
    /\ m_analyzers = <<>> /\ m_updaters = <<>>
    /\ m_flags = {}
    /\ m_first_step = TRUE
    /\ m_last_computed = -1 /\ m_particles_sorted = FALSE
    /\ g_sigint_recvd = FALSE
    /\ integrated = -1 /\ late = {}
    /\ budget = MaxInterruptions
    /\ ImdInit

RunStep ==
    \/ EndOfRun \/ BeginStep \/ CallbackReturns
    \/ NextAnalyzer \/ AnalyzeImd \/ EndAnalyzeImd \/ KeepPaused
    \/ AnalyzersDone \/ NextUpdater \/ UpdatersDone
    \/ Integrate

RunNext ==
    \/ RunStep
    \/ \E nsteps \in 0..MaxStep : StartRun(nsteps)
    \/ EditItems \/ SetIntegrator \/ SigintHandler \/ Viewer \/ Fail

\* The thread that called run() keeps executing; nothing makes the script act.
RunSpec == RunInit /\ [][RunNext]_runVars /\ WF_runVars(RunStep)

-----------------------------------------------------------------------------
Items == { m_analyzers[i] : i \in DOMAIN m_analyzers }
             \cup { m_updaters[i] : i \in DOMAIN m_updaters }

\* The item the loop is about to test with shouldExecute(), if it is due.
AboutToExecute ==
    CASE phase = "analyzers" /\ pos \in DOMAIN m_analyzers ->
             { item \in {m_analyzers[pos]} : PeekExecute(item, m_cur_tstep) }
      [] phase = "updaters" /\ pos \in DOMAIN m_updaters ->
             { item \in {m_updaters[pos]} : PeekExecute(item, m_cur_tstep) }
      [] OTHER -> {}

ItemType(names) ==
    [m_name : names, m_period : Periods, m_created_tstep : 0..MaxStep,
     m_next_execute_tstep : Nat, m_is_variable_period : BOOLEAN]

RunTypeOK ==
    /\ phase \in {"script", "step", "callback", "analyzers", "imd", "updaters",
                 "integrate"}
    /\ m_cur_tstep \in 0..MaxStep /\ m_end_tstep \in 0..MaxStep
    /\ m_analyzers \in Seq(ItemType(Analyzers))
    /\ m_updaters \in Seq(ItemType(Updaters))
    /\ IsInjective([i \in DOMAIN m_analyzers |-> m_analyzers[i].m_name])
    /\ IsInjective([i \in DOMAIN m_updaters |-> m_updaters[i].m_name])
    /\ m_flags \subseteq Analyzers \cup Updaters
    /\ m_last_computed \in Int /\ integrated \in Int
    /\ {m_first_step, m_particles_sorted, g_sigint_recvd} \subseteq BOOLEAN
    /\ late \subseteq Analyzers \cup Updaters
    /\ budget \in 0..MaxInterruptions /\ pos \in Nat
    /\ link \in {"none", "pending", "open"} /\ inbox \in Commands \cup {NoCommand}
    /\ m_paused \in BOOLEAN /\ (inbox # NoCommand => link = "open")

\* No analyzer or updater is ever left behind: shouldExecute() compares for
\* equality, so an item whose next step is in the past would never run again.
\* At the head of the loop and in the script none is, and when the integrator
\* runs every item has had its turn, whatever the period functions returned,
\* whatever was added, removed, changed or interrupted.
NoItemLeftBehind ==
    /\ phase \in {"script", "step", "callback"} =>
           \A item \in Items : item.m_next_execute_tstep >= m_cur_tstep
    /\ phase = "integrate" =>
           \A item \in Items : item.m_next_execute_tstep > m_cur_tstep

\* The look-ahead of the previous step, or the preset of run(), asked for what
\* the item that is about to execute needs, through every edit of the lists
\* between runs; an item that this step's callback has scheduled is too late.
FlagsRequested ==
    \A item \in AboutToExecute : item.m_name \in m_flags \cup late

\* The integrator executes the time steps in order, none is skipped by a run
\* that was stopped by the clock, by the callback, by an exception or by SIGINT.
NoStepSkipped ==
    phase \in {"step", "integrate"} => m_cur_tstep \in {integrated, integrated + 1}

\* Every run() returns to the script, unless the viewer leaves it paused.
RunEnds ==
    [](phase # "script" => <>(phase = "script" \/ (phase = "imd" /\ m_paused)))

\* A SIGINT during a run ends it: the test after the integrator's step, or that
\* of the IMD interface when the viewer has paused the run and the other test is
\* not reached (System.cc 541, IMDInterface.cc 224).
SigintEnds == [](phase # "script" /\ g_sigint_recvd => <>(phase = "script"))

-----------------------------------------------------------------------------
(* What comments say of the loop, and the code does not do.                 *)

\* IntegratorTwoStep.cc 138, update(): "Internally, all forces ... are
\* evaluated at timestep+1".
ForcesEvaluated == phase = "integrate" => WouldCompute(m_cur_tstep + 1)
=============================================================================
