---------------------------- MODULE SystemProofs ----------------------------
(***************************************************************************)
(* System and SystemDefinition.                                            *)
(*                                                                         *)
(* The run loop, for any items, periods, period functions and              *)
(* interruptions.  The inductive invariant says at every place of the loop *)
(* what the runs check at some: which items have had their turn, that a    *)
(* time step is within the run, and that the flags name all that is due,   *)
(* whether or not the loop is about to execute it.                         *)
(*                                                                         *)
(* The system that a script sees, for any number of ranks, particles and   *)
(* angles: whatever rearranges the arrays leaves every particle on one     *)
(* rank, where the reverse lookup finds it; the table of angles is marked  *)
(* for a rebuild whenever it has become wrong; and all that a script       *)
(* observes is a behaviour of SystemState.  Groups follow the arrays if    *)
(* they have all particles or not particle 0; a restore on one rank        *)
(* overruns the list of every other group.                                 *)
(***************************************************************************)
EXTENDS SystemRun, SystemDefinition, PickedListsProofs

-----------------------------------------------------------------------------
(* The run loop.                                                            *)

InStep == {"callback", "analyzers", "imd", "updaters", "integrate"}

\* The loop has gone past the i-th analyzer, the i-th updater.
AnalyzerHadTurn(i) ==
    \/ phase \in {"updaters", "integrate"}
    \/ phase = "analyzers" /\ i < pos
    \/ phase = "imd" /\ i <= pos
UpdaterHadTurn(i) ==
    \/ phase = "integrate"
    \/ phase = "updaters" /\ i < pos

StepWithinRun == phase \in InStep => m_cur_tstep < m_end_tstep

TurnsTaken ==
    /\ \A i \in DOMAIN m_analyzers :
           /\ m_analyzers[i].m_next_execute_tstep >= m_cur_tstep
           /\ AnalyzerHadTurn(i) => m_analyzers[i].m_next_execute_tstep > m_cur_tstep
    /\ \A i \in DOMAIN m_updaters :
           /\ m_updaters[i].m_next_execute_tstep >= m_cur_tstep
           /\ UpdaterHadTurn(i) => m_updaters[i].m_next_execute_tstep > m_cur_tstep

DueIsRequested ==
    phase # "script" =>
        Due(m_analyzers, m_cur_tstep) \cup Due(m_updaters, m_cur_tstep) \subseteq m_flags \cup late

StepsInOrder == m_cur_tstep \in {integrated, integrated + 1}

RunInv == RunTypeOK /\ StepWithinRun /\ TurnsTaken /\ DueIsRequested /\ StepsInOrder

-----------------------------------------------------------------------------
(* Items and lists of items.                                                *)

NamesDiffer(list) == IsInjective([i \in DOMAIN list |-> list[i].m_name])

LEMMA ListShape ==
  ASSUME NEW names, NEW list \in Seq(ItemType(names))
  PROVE  /\ Len(list) \in Nat /\ DOMAIN list = 1 .. Len(list)
         /\ \A i \in DOMAIN list : /\ list[i] \in ItemType(names)
                                   /\ list[i].m_name \in names
                                   /\ list[i].m_next_execute_tstep \in Nat
<1>1. /\ Len(list) \in Nat /\ DOMAIN list = 1 .. Len(list)
      /\ list \in [1 .. Len(list) -> ItemType(names)]
  BY LenProperties
<1>2. \A item \in ItemType(names) : item.m_name \in names /\ item.m_next_execute_tstep \in Nat
  BY DEF ItemType
<1> QED
  BY <1>1, <1>2

LEMMA NamesDifferMeans ==
  ASSUME NEW list
  PROVE  NamesDiffer(list) <=>
            \A i, j \in DOMAIN list : list[i].m_name = list[j].m_name => i = j
  BY DEF NamesDiffer, IsInjective

\* shouldExecute() puts an item that is due behind the current step.
LEMMA AdvancedIsLater ==
  ASSUME NEW names, NEW item \in ItemType(names), NEW tstep \in Nat,
         PeekExecute(item, tstep), NEW next \in Advanced(item, tstep)
  PROVE  /\ next \in ItemType(names) /\ next.m_name = item.m_name
         /\ next.m_next_execute_tstep > tstep
<1>1. CASE item.m_is_variable_period
  <2>1. PICK result \in FrameResults :
            next = [item EXCEPT !.m_next_execute_tstep = VariableStep(item, result, tstep)]
    BY <1>1 DEF Advanced
  <2>2. VariableStep(item, result, tstep) \in Nat /\ VariableStep(item, result, tstep) > tstep
    BY SystemAssumption DEF VariableStep, ItemType
  <2> QED
    BY <2>1, <2>2 DEF ItemType
<1>2. CASE ~ item.m_is_variable_period
  <2>1. next = [item EXCEPT !.m_next_execute_tstep = @ + item.m_period]
    BY <1>2 DEF Advanced
  <2>2. item.m_period \in Nat \ {0} /\ item.m_next_execute_tstep = tstep
    BY SystemAssumption DEF ItemType, PeekExecute
  <2> QED
    BY <2>1, <2>2 DEF ItemType
<1> QED
  BY <1>1, <1>2

\* What the loop does to a list when it comes to position k.
LEMMA AdvanceOne ==
  ASSUME NEW names, NEW list \in Seq(ItemType(names)), NamesDiffer(list),
         NEW tstep \in Nat, NEW k \in DOMAIN list, PeekExecute(list[k], tstep),
         NEW item \in Advanced(list[k], tstep), NEW new, new = [list EXCEPT ![k] = item]
  PROVE  /\ new \in Seq(ItemType(names)) /\ NamesDiffer(new)
         /\ DOMAIN new = DOMAIN list
         /\ new[k].m_next_execute_tstep > tstep
         /\ \A i \in DOMAIN list : i # k => new[i] = list[i]
         /\ Due(new, tstep) \subseteq Due(list, tstep)
<1>1. list[k] \in ItemType(names) /\ DOMAIN list = 1 .. Len(list)
  BY ListShape
<1>2. /\ item \in ItemType(names) /\ item.m_name = list[k].m_name
      /\ item.m_next_execute_tstep > tstep
  BY <1>1, AdvancedIsLater
<1>3. /\ new \in Seq(ItemType(names)) /\ DOMAIN new = DOMAIN list
      /\ \A i \in DOMAIN list : new[i] = IF i = k THEN item ELSE list[i]
  BY <1>1, <1>2, ExceptSeq
<1>4. NamesDiffer(new)
  <2>1. \A i \in DOMAIN new : new[i].m_name = list[i].m_name
    BY <1>2, <1>3
  <2> QED
    BY <1>3, <2>1 DEF NamesDiffer, IsInjective
<1>5. Due(new, tstep) \subseteq Due(list, tstep)
  <2>1. ~ PeekExecute(item, tstep)
    BY <1>2 DEF PeekExecute, ItemType
  <2> QED
    BY <1>3, <2>1 DEF Due
<1> QED
  BY <1>2, <1>3, <1>4, <1>5

\* Of an edited list, each element was there or is due now.
LEMMA EditedList ==
  ASSUME NEW names, NEW list \in Seq(ItemType(names)), NamesDiffer(list),
         m_cur_tstep \in 0 .. MaxStep, NEW new \in Edited(list, names)
  PROVE  /\ new \in Seq(ItemType(names)) /\ NamesDiffer(new)
         /\ \A i \in DOMAIN new : \/ \E j \in DOMAIN list : new[i] = list[j]
                                  \/ new[i].m_next_execute_tstep = m_cur_tstep
<1> USE SystemAssumption
<1>0. m_cur_tstep \in Nat
  OBVIOUS
<1>1. /\ Len(list) \in Nat /\ DOMAIN list = 1 .. Len(list)
      /\ list \in [1 .. Len(list) -> ItemType(names)]
  BY ListShape, LenProperties
<1>2. ASSUME NEW name \in names \ Names(list), NEW period \in Periods,
             new = Append(list, NewItem(name, period, m_cur_tstep))
      PROVE  /\ new \in Seq(ItemType(names)) /\ NamesDiffer(new)
             /\ \A i \in DOMAIN new : \/ \E j \in DOMAIN list : new[i] = list[j]
                                      \/ new[i].m_next_execute_tstep = m_cur_tstep
  <2> DEFINE item == NewItem(name, period, m_cur_tstep)
  <2>1. item \in ItemType(names) /\ item.m_name = name /\ item.m_next_execute_tstep = m_cur_tstep
    BY DEF NewItem, ItemType
  <2> HIDE DEF item
  <2>2. /\ new \in Seq(ItemType(names)) /\ Len(new) = Len(list) + 1
        /\ \A i \in DOMAIN list : new[i] = list[i]
        /\ new[Len(list) + 1] = item
    BY <1>1, <1>2, <2>1, AppendProperties DEF item
  <2>3. DOMAIN new = 1 .. Len(list) + 1
    BY <2>2, ListShape
  <2>4. \A i \in DOMAIN new : i \in DOMAIN list \/ i = Len(list) + 1
    BY <1>1, <2>3
  <2>5. \A i \in DOMAIN list : new[i].m_name # name
    BY <2>2, <1>2 DEF Names
  <2>6. NamesDiffer(new)
    BY <1>1, <2>1, <2>2, <2>4, <2>5 DEF NamesDiffer, IsInjective
  <2> QED
    BY <2>1, <2>2, <2>4, <2>6
<1>3. ASSUME NEW k \in DOMAIN list, new = RemoveAt(list, k)
      PROVE  /\ new \in Seq(ItemType(names)) /\ NamesDiffer(new)
             /\ \A i \in DOMAIN new : \/ \E j \in DOMAIN list : new[i] = list[j]
                                      \/ new[i].m_next_execute_tstep = m_cur_tstep
  <2> DEFINE n == Len(list)
             front == SubSeq(list, 1, k - 1)
             back == SubSeq(list, k + 1, n)
  <2>1. /\ front \in Seq(ItemType(names)) /\ Len(front) = k - 1
        /\ \A i \in 1 .. k - 1 : front[i] = list[i]
    BY <1>1, <1>3, SubSeqProperties
  <2>2. /\ back \in Seq(ItemType(names)) /\ Len(back) = n - k
        /\ \A i \in 1 .. n - k : back[i] = list[k + i]
    BY <1>1, <1>3, SubSeqProperties
  <2>3. new = front \o back
    BY <1>3 DEF RemoveAt
  <2> HIDE DEF front, back
  <2>4. /\ new \in Seq(ItemType(names)) /\ Len(new) = n - 1
        /\ \A i \in 1 .. n - 1 : new[i] = IF i <= k - 1 THEN front[i] ELSE back[i - (k - 1)]
    <3>1. Len(front) + Len(back) = n - 1
      BY <1>1, <1>3, <2>1, <2>2
    <3>2. /\ front \o back \in Seq(ItemType(names))
          /\ Len(front \o back) = Len(front) + Len(back)
          /\ \A i \in 1 .. Len(front) + Len(back) :
                 (front \o back)[i] = IF i <= Len(front) THEN front[i] ELSE back[i - Len(front)]
      BY <2>1, <2>2, ConcatProperties
    <3> QED
      BY <2>1, <2>3, <3>1, <3>2
  <2>5. \A i \in 1 .. n - 1 : new[i] = IF i < k THEN list[i] ELSE list[i + 1]
    <3>1. TAKE i \in 1 .. n - 1
    <3>2. CASE i < k
      <4>1. i \in 1 .. k - 1 /\ i <= k - 1
        BY <1>1, <1>3, <3>2
      <4>2. new[i] = front[i] /\ front[i] = list[i]
        BY <2>1, <2>4, <3>1, <4>1
      <4> QED
        BY <3>2, <4>2
    <3>3. CASE ~ (i < k)
      <4>1. i - (k - 1) \in 1 .. n - k /\ k + (i - (k - 1)) = i + 1
        BY <1>1, <1>3, <3>3
      <4> QED
        BY <1>1, <1>3, <2>2, <2>4, <3>3, <4>1
    <3> QED
      BY <3>2, <3>3
  <2>6. DOMAIN new = 1 .. n - 1
    BY <2>4, ListShape
  <2>7. \A i \in DOMAIN new : /\ (IF i < k THEN i ELSE i + 1) \in DOMAIN list
                               /\ new[i] = list[IF i < k THEN i ELSE i + 1]
    BY <1>1, <1>3, <2>5, <2>6
  <2>8. NamesDiffer(new)
    <3>1. ASSUME NEW i \in DOMAIN new, NEW j \in DOMAIN new, new[i].m_name = new[j].m_name
          PROVE  i = j
      <4>1. (IF i < k THEN i ELSE i + 1) = (IF j < k THEN j ELSE j + 1)
        BY <2>7, <3>1 DEF NamesDiffer, IsInjective
      <4> QED
        BY <1>1, <1>3, <2>6, <4>1
    <3> QED
      BY <3>1 DEF NamesDiffer, IsInjective
  <2> QED
    BY <2>4, <2>7, <2>8
<1>4. ASSUME NEW k \in DOMAIN list, NEW item \in ItemType(names), item.m_name = list[k].m_name,
             item.m_next_execute_tstep = m_cur_tstep, new = [list EXCEPT ![k] = item]
      PROVE  /\ new \in Seq(ItemType(names)) /\ NamesDiffer(new)
             /\ \A i \in DOMAIN new : \/ \E j \in DOMAIN list : new[i] = list[j]
                                      \/ new[i].m_next_execute_tstep = m_cur_tstep
  <2>1. /\ new \in Seq(ItemType(names)) /\ DOMAIN new = DOMAIN list
        /\ \A i \in DOMAIN list : new[i] = IF i = k THEN item ELSE list[i]
    BY <1>1, <1>4, ExceptSeq
  <2>2. \A i \in DOMAIN new : new[i].m_name = list[i].m_name
    BY <1>4, <2>1
  <2> QED
    BY <1>4, <2>1, <2>2 DEF NamesDiffer, IsInjective
<1>5. ASSUME NEW item \in ItemType(names), NEW period \in Periods
      PROVE  /\ SetPeriod(item, period, m_cur_tstep) \in ItemType(names)
             /\ SetPeriod(item, period, m_cur_tstep).m_name = item.m_name
             /\ SetPeriod(item, period, m_cur_tstep).m_next_execute_tstep = m_cur_tstep
  BY <1>0 DEF SetPeriod, ItemType
<1>6. ASSUME NEW item \in ItemType(names)
      PROVE  /\ SetVariablePeriod(item, m_cur_tstep) \in ItemType(names)
             /\ SetVariablePeriod(item, m_cur_tstep).m_name = item.m_name
             /\ SetVariablePeriod(item, m_cur_tstep).m_next_execute_tstep = m_cur_tstep
  BY <1>0 DEF SetVariablePeriod, ItemType
<1>7. \/ \E name \in names \ Names(list), period \in Periods :
             new = Append(list, NewItem(name, period, m_cur_tstep))
      \/ \E k \in DOMAIN list : new = RemoveAt(list, k)
      \/ \E k \in DOMAIN list, period \in Periods :
             new = [list EXCEPT ![k] = SetPeriod(list[k], period, m_cur_tstep)]
      \/ \E k \in DOMAIN list : new = [list EXCEPT ![k] = SetVariablePeriod(list[k], m_cur_tstep)]
  BY DEF Edited
<1>8. CASE \E k \in DOMAIN list, period \in Periods :
               new = [list EXCEPT ![k] = SetPeriod(list[k], period, m_cur_tstep)]
  <2>1. PICK k \in DOMAIN list, period \in Periods :
            new = [list EXCEPT ![k] = SetPeriod(list[k], period, m_cur_tstep)]
    BY <1>8
  <2>2. list[k] \in ItemType(names)
    BY <1>1
  <2> QED
    BY <1>4, <1>5, <2>1, <2>2
<1>9. CASE \E k \in DOMAIN list :
               new = [list EXCEPT ![k] = SetVariablePeriod(list[k], m_cur_tstep)]
  <2>1. PICK k \in DOMAIN list :
            new = [list EXCEPT ![k] = SetVariablePeriod(list[k], m_cur_tstep)]
    BY <1>9
  <2>2. list[k] \in ItemType(names)
    BY <1>1
  <2> QED
    BY <1>4, <1>6, <2>1, <2>2
<1> QED
  BY <1>2, <1>3, <1>7, <1>8, <1>9

\* What an edit adds to the items that are due is in Scheduled.
LEMMA EditedDue ==
  ASSUME NEW list, NEW new, NEW tstep
  PROVE  Due(new, tstep) \subseteq Due(list, tstep) \cup Scheduled(list, new)
  BY DEF Due, Scheduled, Range

LEMMA NothingScheduled ==
  ASSUME NEW list
  PROVE  Scheduled(list, list) = {}
  BY DEF Scheduled, Range

-----------------------------------------------------------------------------
(* Every action preserves the invariant.                                    *)

Shape ==
    /\ Len(m_analyzers) \in Nat /\ DOMAIN m_analyzers = 1 .. Len(m_analyzers)
    /\ Len(m_updaters) \in Nat /\ DOMAIN m_updaters = 1 .. Len(m_updaters)
    /\ \A i \in DOMAIN m_analyzers : /\ m_analyzers[i].m_name \in Analyzers
                                     /\ m_analyzers[i].m_next_execute_tstep \in Nat
    /\ \A i \in DOMAIN m_updaters : /\ m_updaters[i].m_name \in Updaters
                                    /\ m_updaters[i].m_next_execute_tstep \in Nat

LEMMA TheShape == RunTypeOK => Shape
<1> SUFFICES ASSUME RunTypeOK PROVE Shape
  OBVIOUS
<1>1. m_analyzers \in Seq(ItemType(Analyzers)) /\ m_updaters \in Seq(ItemType(Updaters))
  BY DEF RunTypeOK
<1> QED
  BY <1>1, ListShape DEF Shape

LEMMA DueAreNames ==
  ASSUME RunTypeOK, NEW tstep
  PROVE  Due(m_analyzers, tstep) \cup Due(m_updaters, tstep) \subseteq Analyzers \cup Updaters
  BY TheShape DEF Shape, Due

LEMMA ForcesType ==
  ASSUME RunTypeOK, NEW tstep \in Int, ComputeNetForce(tstep)
  PROVE  m_last_computed' \in Int /\ m_particles_sorted' \in BOOLEAN
<1>1. m_last_computed \in Int
  BY DEF RunTypeOK
<1> QED
  BY <1>1, Zenon DEF ComputeNetForce

LEMMA InvInit == RunInit => RunInv
<1> SUFFICES ASSUME RunInit PROVE RunInv
  OBVIOUS
<1>1. RunTypeOK
  <2>1. m_analyzers \in Seq(ItemType(Analyzers)) /\ m_updaters \in Seq(ItemType(Updaters))
    BY DEF RunInit
  <2>2. DOMAIN m_analyzers = {} /\ DOMAIN m_updaters = {}
    BY DEF RunInit
  <2>3. /\ IsInjective([i \in DOMAIN m_analyzers |-> m_analyzers[i].m_name])
        /\ IsInjective([i \in DOMAIN m_updaters |-> m_updaters[i].m_name])
    BY <2>2 DEF IsInjective
  <2>4. /\ m_cur_tstep \in 0 .. MaxStep /\ m_end_tstep \in 0 .. MaxStep
        /\ budget \in 0 .. MaxInterruptions /\ pos \in Nat
        /\ m_last_computed \in Int /\ integrated \in Int
    BY SystemAssumption DEF RunInit
  <2>5. /\ {m_first_step, m_particles_sorted, g_sigint_recvd} \subseteq BOOLEAN
        /\ phase \in {"script", "step", "callback", "analyzers", "imd", "updaters",
                     "integrate"}
        /\ m_flags \subseteq Analyzers \cup Updaters /\ late \subseteq Analyzers \cup Updaters
    BY Zenon DEF RunInit
  <2>6. /\ link \in {"none", "pending", "open"} /\ inbox \in Commands \cup {NoCommand}
        /\ m_paused \in BOOLEAN /\ (inbox # NoCommand => link = "open")
    BY Zenon DEF RunInit, ImdInit
  <2> QED
    BY <2>1, <2>3, <2>4, <2>5, <2>6 DEF RunTypeOK
<1>2. TurnsTaken
  BY DEF RunInit, TurnsTaken
<1> QED
  BY <1>1, <1>2 DEF RunInit, RunInv, StepWithinRun, DueIsRequested, StepsInOrder, InStep

\* The actions that change neither list nor the time step: the type, the
\* order of the time steps.
LEMMA GoToType ==
  ASSUME RunTypeOK, NEW p \in {"script", "step", "callback", "analyzers", "updaters", "integrate"},
         GoTo(p)
  PROVE  /\ phase' \in {"script", "step", "callback", "analyzers", "updaters", "integrate"}
         /\ pos' \in {0, 1} /\ late' \subseteq Analyzers \cup Updaters
  BY DEF GoTo, RunTypeOK

LEMMA EndOfRunInv == RunInv /\ EndOfRun => RunInv'
<1> SUFFICES ASSUME RunInv, EndOfRun PROVE RunInv'
  OBVIOUS
<1> USE DEF EndOfRun, GoTo, Untouched, lists, forces, imdVars
<1>1. RunTypeOK'
  BY DEF RunInv, RunTypeOK
<1>2. TurnsTaken'
  BY DEF RunInv, TurnsTaken, AnalyzerHadTurn, UpdaterHadTurn
<1> QED
  BY <1>1, <1>2 DEF RunInv, StepWithinRun, DueIsRequested, StepsInOrder, InStep

LEMMA BeginStepInv == RunInv /\ BeginStep => RunInv'
<1> SUFFICES ASSUME RunInv, BeginStep PROVE RunInv'
  OBVIOUS
<1> USE DEF BeginStep, GoTo, Untouched, lists, forces, imdVars
<1>1. RunTypeOK'
  BY DEF RunInv, RunTypeOK
<1>2. TurnsTaken'
  BY TheShape DEF RunInv, Shape, TurnsTaken, AnalyzerHadTurn, UpdaterHadTurn
<1> QED
  BY <1>1, <1>2 DEF RunInv, StepWithinRun, DueIsRequested, StepsInOrder, InStep, Due

LEMMA CallbackReturnsInv == RunInv /\ CallbackReturns => RunInv'
<1> SUFFICES ASSUME RunInv, CallbackReturns PROVE RunInv'
  OBVIOUS
<1> USE DEF CallbackReturns, GoTo, Untouched, lists, forces, imdVars
<1>1. RunTypeOK'
  BY DEF RunInv, RunTypeOK
<1>2. TurnsTaken'
  BY TheShape DEF RunInv, Shape, TurnsTaken, AnalyzerHadTurn, UpdaterHadTurn
<1> QED
  BY <1>1, <1>2 DEF RunInv, StepWithinRun, DueIsRequested, StepsInOrder, InStep, Due

LEMMA AnalyzersDoneInv == RunInv /\ AnalyzersDone => RunInv'
<1> SUFFICES ASSUME RunInv, AnalyzersDone PROVE RunInv'
  OBVIOUS
<1> USE DEF AnalyzersDone, GoTo, Untouched, lists, forces, imdVars
<1>1. RunTypeOK'
  BY DEF RunInv, RunTypeOK
<1>2. TurnsTaken'
  <2>1. pos \in Nat
    BY DEF RunInv, RunTypeOK
  <2> QED
    BY <2>1, TheShape DEF RunInv, Shape, TurnsTaken, AnalyzerHadTurn, UpdaterHadTurn
<1> QED
  BY <1>1, <1>2 DEF RunInv, StepWithinRun, DueIsRequested, StepsInOrder, InStep, Due

LEMMA UpdatersDoneInv == RunInv /\ UpdatersDone => RunInv'
<1> SUFFICES ASSUME RunInv, UpdatersDone PROVE RunInv'
  OBVIOUS
<1> USE DEF UpdatersDone, GoTo, Untouched, lists, forces, imdVars
<1>1. RunTypeOK'
  BY DEF RunInv, RunTypeOK
<1>2. TurnsTaken'
  <2>1. pos \in Nat
    BY DEF RunInv, RunTypeOK
  <2> QED
    BY <2>1, TheShape DEF RunInv, Shape, TurnsTaken, AnalyzerHadTurn, UpdaterHadTurn
<1> QED
  BY <1>1, <1>2 DEF RunInv, StepWithinRun, DueIsRequested, StepsInOrder, InStep, Due

LEMMA AnalyzeImdInv == RunInv /\ AnalyzeImd => RunInv'
<1> SUFFICES ASSUME RunInv, AnalyzeImd PROVE RunInv'
  OBVIOUS
<1> USE DEF AnalyzeImd, control, lists, forces
<1>1. RunTypeOK'
  BY DEF RunInv, RunTypeOK, Accept, ProcessCommand, Commands, NoCommand
<1>2. TurnsTaken'
  BY DEF RunInv, TurnsTaken, AnalyzerHadTurn, UpdaterHadTurn
<1> QED
  BY <1>1, <1>2 DEF RunInv, StepWithinRun, DueIsRequested, StepsInOrder, InStep, Due

LEMMA EndAnalyzeImdInv == RunInv /\ EndAnalyzeImd => RunInv'
<1> SUFFICES ASSUME RunInv, EndAnalyzeImd PROVE RunInv'
  OBVIOUS
<1>1. /\ phase = "imd"
      /\ UNCHANGED <<m_cur_tstep, m_end_tstep, lists, forces, m_flags, m_first_step,
                     integrated, budget>>
      /\ \/ phase' = "script"
         \/ phase' = "analyzers" /\ pos' = pos + 1 /\ late' = late
  BY DEF EndAnalyzeImd, LeaveImd, GoTo
<1>2. pos \in Nat
  BY DEF RunInv, RunTypeOK
<1>3. RunTypeOK'
  <2>1. /\ phase' \in {"script", "analyzers"} /\ pos' \in Nat
        /\ late' \subseteq Analyzers \cup Updaters
    BY <1>2 DEF EndAnalyzeImd, LeaveImd, GoTo, RunInv, RunTypeOK
  <2>3. g_sigint_recvd' \in BOOLEAN
    BY Zenon DEF EndAnalyzeImd, LeaveImd, RunInv, RunTypeOK
  <2>2. /\ link' \in {"none", "pending", "open"} /\ inbox' \in Commands \cup {NoCommand}
        /\ m_paused' \in BOOLEAN /\ (inbox' # NoCommand => link' = "open")
    BY DEF EndAnalyzeImd, ProcessDeadConnection, imdVars, RunInv, RunTypeOK
  <2> QED
    BY <1>1, <2>1, <2>2, <2>3 DEF RunInv, RunTypeOK, lists, forces
<1>4. TurnsTaken'
  BY <1>1, <1>2, TheShape DEF RunInv, Shape, TurnsTaken, AnalyzerHadTurn, UpdaterHadTurn, lists
<1> QED
  BY <1>1, <1>3, <1>4 DEF RunInv, StepWithinRun, DueIsRequested, StepsInOrder, InStep, Due, lists

LEMMA StartRunInv == \A nsteps \in 0 .. MaxStep : RunInv /\ StartRun(nsteps) => RunInv'
<1> SUFFICES ASSUME NEW nsteps \in 0 .. MaxStep, RunInv, StartRun(nsteps) PROVE RunInv'
  OBVIOUS
<1> USE DEF StartRun, lists, imdVars
<1>1. RunTypeOK'
  <2>1. m_flags' \subseteq Analyzers \cup Updaters
    BY DueAreNames DEF RunInv, DetermineFlags
  <2>2. m_cur_tstep + nsteps \in 0 .. MaxStep
    BY SystemAssumption DEF RunInv, RunTypeOK
  <2>3. m_last_computed' \in Int /\ m_particles_sorted' \in BOOLEAN
    <3>1. CASE m_first_step
      <4>1. m_cur_tstep \in Int /\ RunTypeOK
        BY DEF RunInv, RunTypeOK
      <4> QED
        BY <3>1, <4>1, ForcesType
    <3>2. CASE ~ m_first_step
      BY <3>2 DEF RunInv, RunTypeOK, forces
    <3> QED
      BY <3>1, <3>2
  <2> QED
    BY <2>1, <2>2, <2>3 DEF RunInv, RunTypeOK
<1>2. TurnsTaken'
  BY DEF RunInv, TurnsTaken, AnalyzerHadTurn, UpdaterHadTurn
<1> QED
  BY <1>1, <1>2 DEF RunInv, StepWithinRun, DueIsRequested, DetermineFlags, StepsInOrder, InStep, Due

LEMMA IntegrateInv == RunInv /\ Integrate => RunInv'
<1> SUFFICES ASSUME RunInv, Integrate PROVE RunInv'
  OBVIOUS
<1> USE DEF Integrate, GoTo, lists, imdVars
<1>1. m_cur_tstep \in Nat /\ m_cur_tstep + 1 \in 0 .. MaxStep
  BY SystemAssumption DEF RunInv, RunTypeOK, StepWithinRun, InStep
<1>2. RunTypeOK'
  <2>1. m_flags' \subseteq Analyzers \cup Updaters
    BY DueAreNames DEF RunInv, DetermineFlags
  <2>2. m_last_computed' \in Int /\ m_particles_sorted' \in BOOLEAN
    BY <1>1, ForcesType DEF RunInv
  <2>3. m_cur_tstep' \in 0 .. MaxStep
    BY <1>1 DEF RunInv, RunTypeOK
  <2>4. /\ phase' \in {"script", "step"} /\ pos' = 0 /\ late' = {}
        /\ g_sigint_recvd' = FALSE /\ integrated' = m_cur_tstep
    BY Zenon
  <2>5. {m_first_step', m_particles_sorted', g_sigint_recvd'} \subseteq BOOLEAN
    BY <2>2, <2>4, Zenon DEF RunInv, RunTypeOK
  <2> QED
    BY <1>1, <2>1, <2>2, <2>3, <2>4, <2>5 DEF RunInv, RunTypeOK
<1>3. TurnsTaken'
  BY <1>1, TheShape DEF RunInv, Shape, TurnsTaken, AnalyzerHadTurn, UpdaterHadTurn
<1>4. DueIsRequested'
  BY DEF DueIsRequested, DetermineFlags, Due
<1> QED
  BY <1>1, <1>2, <1>3, <1>4 DEF RunInv, StepWithinRun, StepsInOrder, InStep

LEMMA EditItemsInv == RunInv /\ EditItems => RunInv'
<1> SUFFICES ASSUME RunInv, EditItems PROVE RunInv'
  OBVIOUS
<1> USE DEF EditItems, control, forces, imdVars
<1>1. /\ m_cur_tstep \in 0 .. MaxStep
      /\ m_analyzers \in Seq(ItemType(Analyzers)) /\ NamesDiffer(m_analyzers)
      /\ m_updaters \in Seq(ItemType(Updaters)) /\ NamesDiffer(m_updaters)
  BY DEF RunInv, RunTypeOK, NamesDiffer
<1>2. /\ m_analyzers' \in Seq(ItemType(Analyzers)) /\ NamesDiffer(m_analyzers')
      /\ \A i \in DOMAIN m_analyzers' :
             \/ \E j \in DOMAIN m_analyzers : m_analyzers'[i] = m_analyzers[j]
             \/ m_analyzers'[i].m_next_execute_tstep = m_cur_tstep
  <2>1. CASE m_analyzers' \in Edited(m_analyzers, Analyzers)
    BY <1>1, <2>1, EditedList
  <2>2. CASE m_analyzers' = m_analyzers
    BY <1>1, <2>2
  <2> QED
    BY <2>1, <2>2
<1>3. /\ m_updaters' \in Seq(ItemType(Updaters)) /\ NamesDiffer(m_updaters')
      /\ \A i \in DOMAIN m_updaters' :
             \/ \E j \in DOMAIN m_updaters : m_updaters'[i] = m_updaters[j]
             \/ m_updaters'[i].m_next_execute_tstep = m_cur_tstep
  <2>1. CASE m_updaters' \in Edited(m_updaters, Updaters)
    BY <1>1, <2>1, EditedList
  <2>2. CASE m_updaters' = m_updaters
    BY <1>1, <2>2
  <2> QED
    BY <2>1, <2>2
<1>4. late' \subseteq Analyzers \cup Updaters
  <2>1. /\ \A i \in DOMAIN m_analyzers' : m_analyzers'[i].m_name \in Analyzers
        /\ \A i \in DOMAIN m_updaters' : m_updaters'[i].m_name \in Updaters
    BY <1>2, <1>3, ListShape
  <2> QED
    BY <2>1 DEF Scheduled, RunInv, RunTypeOK
<1>5. RunTypeOK'
  BY <1>2, <1>3, <1>4 DEF RunInv, RunTypeOK, NamesDiffer
<1>6. TurnsTaken'
  <2>1. phase \in {"script", "callback"} /\ phase' = phase /\ m_cur_tstep' = m_cur_tstep
    OBVIOUS
  <2>2. \A i : ~ AnalyzerHadTurn(i)' /\ ~ UpdaterHadTurn(i)'
    BY <2>1 DEF AnalyzerHadTurn, UpdaterHadTurn
  <2>3. /\ \A i \in DOMAIN m_analyzers : m_analyzers[i].m_next_execute_tstep >= m_cur_tstep
        /\ \A i \in DOMAIN m_updaters : m_updaters[i].m_next_execute_tstep >= m_cur_tstep
    BY DEF RunInv, TurnsTaken
  <2>4. \A i \in DOMAIN m_analyzers' : m_analyzers'[i].m_next_execute_tstep >= m_cur_tstep
    <3>1. TAKE i \in DOMAIN m_analyzers'
    <3>2. CASE \E j \in DOMAIN m_analyzers : m_analyzers'[i] = m_analyzers[j]
      BY <2>3, <3>2, Zenon
    <3>3. CASE m_analyzers'[i].m_next_execute_tstep = m_cur_tstep
      BY <1>1, <3>3
    <3> QED
      BY <1>2, <3>2, <3>3, Zenon
  <2>5. \A i \in DOMAIN m_updaters' : m_updaters'[i].m_next_execute_tstep >= m_cur_tstep
    <3>1. TAKE i \in DOMAIN m_updaters'
    <3>2. CASE \E j \in DOMAIN m_updaters : m_updaters'[i] = m_updaters[j]
      BY <2>3, <3>2, Zenon
    <3>3. CASE m_updaters'[i].m_next_execute_tstep = m_cur_tstep
      BY <1>1, <3>3
    <3> QED
      BY <1>3, <3>2, <3>3, Zenon
  <2> QED
    BY <2>1, <2>2, <2>4, <2>5 DEF TurnsTaken
<1>7. DueIsRequested'
  <2>1. /\ Due(m_analyzers', m_cur_tstep) \subseteq
               Due(m_analyzers, m_cur_tstep) \cup Scheduled(m_analyzers, m_analyzers')
        /\ Due(m_updaters', m_cur_tstep) \subseteq
               Due(m_updaters, m_cur_tstep) \cup Scheduled(m_updaters, m_updaters')
    BY EditedDue
  <2> QED
    BY <2>1 DEF RunInv, DueIsRequested, Due
<1> QED
  BY <1>5, <1>6, <1>7 DEF RunInv, StepWithinRun, StepsInOrder, InStep

\* The loops, and what an exception leaves: the list afterwards is the one
\* before, or has the item at pos advanced.
LEMMA TurnOf ==
  ASSUME NEW names, NEW list \in Seq(ItemType(names)), NamesDiffer(list),
         NEW tstep \in Nat, NEW k \in DOMAIN list, NEW new,
         \/ new = list
         \/ /\ PeekExecute(list[k], tstep)
            /\ \E item \in Advanced(list[k], tstep) : new = [list EXCEPT ![k] = item],
         \A i \in DOMAIN list : list[i].m_next_execute_tstep >= tstep
  PROVE  /\ new \in Seq(ItemType(names)) /\ NamesDiffer(new)
         /\ DOMAIN new = DOMAIN list
         /\ \A i \in DOMAIN list : i # k => new[i] = list[i]
         /\ \A i \in DOMAIN list : new[i].m_next_execute_tstep >= tstep
         /\ PeekExecute(list[k], tstep) /\ new # list => new[k].m_next_execute_tstep > tstep
         /\ Due(new, tstep) \subseteq Due(list, tstep)
<1>1. CASE new = list
  BY <1>1
<1>2. CASE /\ PeekExecute(list[k], tstep)
           /\ \E item \in Advanced(list[k], tstep) : new = [list EXCEPT ![k] = item]
  <2>1. PICK item \in Advanced(list[k], tstep) : new = [list EXCEPT ![k] = item]
    BY <1>2
  <2>2. /\ new \in Seq(ItemType(names)) /\ NamesDiffer(new)
        /\ DOMAIN new = DOMAIN list
        /\ new[k].m_next_execute_tstep > tstep
        /\ \A i \in DOMAIN list : i # k => new[i] = list[i]
        /\ Due(new, tstep) \subseteq Due(list, tstep)
    BY <1>2, <2>1, AdvanceOne
  <2>3. new[k].m_next_execute_tstep \in Nat
    BY <2>2, ListShape
  <2> QED
    BY <2>2, <2>3
<1> QED
  BY <1>1, <1>2

\* An item that was not due at its turn is later too.
LEMMA AfterTurn ==
  ASSUME NEW names, NEW list \in Seq(ItemType(names)), NamesDiffer(list),
         NEW tstep \in Nat, NEW k \in DOMAIN list, NEW new,
         IF PeekExecute(list[k], tstep)
         THEN \E item \in Advanced(list[k], tstep) : new = [list EXCEPT ![k] = item]
         ELSE new = list,
         \A i \in DOMAIN list : list[i].m_next_execute_tstep >= tstep
  PROVE  new[k].m_next_execute_tstep > tstep
<1>1. CASE PeekExecute(list[k], tstep)
  BY <1>1, AdvanceOne
<1>2. CASE ~ PeekExecute(list[k], tstep)
  <2>1. list[k].m_next_execute_tstep \in Nat
    BY ListShape
  <2> QED
    BY <1>2, <2>1 DEF PeekExecute
<1> QED
  BY <1>1, <1>2

LEMMA Lists ==
  ASSUME RunInv
  PROVE  /\ m_analyzers \in Seq(ItemType(Analyzers)) /\ NamesDiffer(m_analyzers)
         /\ m_updaters \in Seq(ItemType(Updaters)) /\ NamesDiffer(m_updaters)
         /\ m_cur_tstep \in Nat /\ pos \in Nat
         /\ \A i \in DOMAIN m_analyzers : m_analyzers[i].m_next_execute_tstep >= m_cur_tstep
         /\ \A i \in DOMAIN m_updaters : m_updaters[i].m_next_execute_tstep >= m_cur_tstep
BY SystemAssumption DEF RunInv, RunTypeOK, NamesDiffer, TurnsTaken

LEMMA NextAnalyzerInv == RunInv /\ NextAnalyzer => RunInv'
<1> SUFFICES ASSUME RunInv, NextAnalyzer PROVE RunInv'
  OBVIOUS
<1>1. /\ phase = "analyzers" /\ pos \in DOMAIN m_analyzers
      /\ IF PeekExecute(m_analyzers[pos], m_cur_tstep)
         THEN \E item \in Advanced(m_analyzers[pos], m_cur_tstep) :
                  m_analyzers' = [m_analyzers EXCEPT ![pos] = item]
         ELSE m_analyzers' = m_analyzers
      /\ \/ phase' = "imd" /\ pos' = pos
         \/ phase' = "analyzers" /\ pos' = pos + 1
      /\ UNCHANGED <<m_cur_tstep, m_end_tstep, m_updaters, forces, late, Untouched>>
  BY DEF NextAnalyzer
<1>2. /\ m_analyzers' \in Seq(ItemType(Analyzers)) /\ NamesDiffer(m_analyzers')
      /\ DOMAIN m_analyzers' = DOMAIN m_analyzers
      /\ \A i \in DOMAIN m_analyzers : i # pos => m_analyzers'[i] = m_analyzers[i]
      /\ \A i \in DOMAIN m_analyzers : m_analyzers'[i].m_next_execute_tstep >= m_cur_tstep
      /\ Due(m_analyzers', m_cur_tstep) \subseteq Due(m_analyzers, m_cur_tstep)
  BY <1>1, Lists, TurnOf
<1>3. m_analyzers'[pos].m_next_execute_tstep > m_cur_tstep
  BY <1>1, Lists, AfterTurn
<1>4. RunTypeOK'
  BY <1>1, <1>2, Lists DEF RunInv, RunTypeOK, NamesDiffer, forces, Untouched, imdVars
<1>5. TurnsTaken'
  <2>1. \A i \in DOMAIN m_analyzers' :
            AnalyzerHadTurn(i)' => m_analyzers'[i].m_next_execute_tstep > m_cur_tstep
    <3>1. SUFFICES ASSUME NEW i \in DOMAIN m_analyzers, i <= pos
                   PROVE  m_analyzers'[i].m_next_execute_tstep > m_cur_tstep
      BY <1>1, <1>2, Lists, TheShape DEF AnalyzerHadTurn, RunInv, Shape
    <3>2. CASE i < pos
      BY <1>1, <1>2, <3>1, <3>2, Lists, TheShape DEF RunInv, TurnsTaken, AnalyzerHadTurn, Shape
    <3>3. CASE i = pos
      BY <1>3, <3>3
    <3> QED
      BY <3>1, <3>2, <3>3, Lists, TheShape DEF RunInv, Shape
  <2>2. \A i \in DOMAIN m_updaters' :
            /\ m_updaters'[i].m_next_execute_tstep >= m_cur_tstep
            /\ ~ UpdaterHadTurn(i)'
    BY <1>1, Lists DEF UpdaterHadTurn
  <2> QED
    BY <1>1, <1>2, <2>1, <2>2 DEF TurnsTaken
<1>6. DueIsRequested'
  BY <1>1, <1>2 DEF RunInv, DueIsRequested, Due, Untouched
<1> QED
  BY <1>1, <1>4, <1>5, <1>6 DEF RunInv, StepWithinRun, StepsInOrder, InStep, Untouched

LEMMA NextUpdaterInv == RunInv /\ NextUpdater => RunInv'
<1> SUFFICES ASSUME RunInv, NextUpdater PROVE RunInv'
  OBVIOUS
<1>1. /\ phase = "updaters" /\ pos \in DOMAIN m_updaters
      /\ IF PeekExecute(m_updaters[pos], m_cur_tstep)
         THEN \E item \in Advanced(m_updaters[pos], m_cur_tstep) :
                  m_updaters' = [m_updaters EXCEPT ![pos] = item]
         ELSE m_updaters' = m_updaters
      /\ phase' = "updaters" /\ pos' = pos + 1
      /\ UNCHANGED <<m_cur_tstep, m_end_tstep, m_analyzers, m_last_computed, late, Untouched>>
  BY DEF NextUpdater
<1>2. /\ m_updaters' \in Seq(ItemType(Updaters)) /\ NamesDiffer(m_updaters')
      /\ DOMAIN m_updaters' = DOMAIN m_updaters
      /\ \A i \in DOMAIN m_updaters : i # pos => m_updaters'[i] = m_updaters[i]
      /\ \A i \in DOMAIN m_updaters : m_updaters'[i].m_next_execute_tstep >= m_cur_tstep
      /\ Due(m_updaters', m_cur_tstep) \subseteq Due(m_updaters, m_cur_tstep)
  BY <1>1, Lists, TurnOf
<1>3. m_updaters'[pos].m_next_execute_tstep > m_cur_tstep
  BY <1>1, Lists, AfterTurn
<1>4. RunTypeOK'
  <2>1. m_particles_sorted' \in BOOLEAN
    BY Zenon DEF NextUpdater, RunInv, RunTypeOK
  <2> QED
    BY <1>1, <1>2, <2>1, Lists DEF RunInv, RunTypeOK, NamesDiffer, Untouched, imdVars
<1>5. TurnsTaken'
  <2>1. \A i \in DOMAIN m_updaters' :
            UpdaterHadTurn(i)' => m_updaters'[i].m_next_execute_tstep > m_cur_tstep
    <3>1. SUFFICES ASSUME NEW i \in DOMAIN m_updaters, i <= pos
                   PROVE  m_updaters'[i].m_next_execute_tstep > m_cur_tstep
      BY <1>1, <1>2, Lists, TheShape DEF UpdaterHadTurn, RunInv, Shape
    <3>2. CASE i < pos
      BY <1>1, <1>2, <3>1, <3>2, Lists, TheShape DEF RunInv, TurnsTaken, UpdaterHadTurn, Shape
    <3>3. CASE i = pos
      BY <1>3, <3>3
    <3> QED
      BY <3>1, <3>2, <3>3, Lists, TheShape DEF RunInv, Shape
  <2>2. \A i \in DOMAIN m_analyzers' :
            /\ m_analyzers'[i].m_next_execute_tstep >= m_cur_tstep
            /\ m_analyzers'[i].m_next_execute_tstep > m_cur_tstep
    BY <1>1, Lists DEF RunInv, TurnsTaken, AnalyzerHadTurn
  <2> QED
    BY <1>1, <1>2, <2>1, <2>2 DEF TurnsTaken
<1>6. DueIsRequested'
  BY <1>1, <1>2 DEF RunInv, DueIsRequested, Due, Untouched
<1> QED
  BY <1>1, <1>4, <1>5, <1>6 DEF RunInv, StepWithinRun, StepsInOrder, InStep, Untouched

LEMMA FailInv == RunInv /\ Fail => RunInv'
<1> SUFFICES ASSUME RunInv, Fail PROVE RunInv'
  OBVIOUS
<1>1. /\ budget > 0 /\ budget' = budget - 1
      /\ phase' = "script" /\ late' = {} /\ pos' = 0
      /\ UNCHANGED <<m_cur_tstep, m_end_tstep, m_flags, m_first_step, forces,
                     g_sigint_recvd, integrated, imdVars>>
  BY DEF Fail, GoTo
<1>2. /\ m_analyzers' \in Seq(ItemType(Analyzers)) /\ NamesDiffer(m_analyzers')
      /\ \A i \in DOMAIN m_analyzers' : m_analyzers'[i].m_next_execute_tstep >= m_cur_tstep
  <2>1. CASE m_analyzers' = m_analyzers
    BY <2>1, Lists
  <2>2. CASE /\ pos \in DOMAIN m_analyzers /\ PeekExecute(m_analyzers[pos], m_cur_tstep)
             /\ \E item \in Advanced(m_analyzers[pos], m_cur_tstep) :
                    m_analyzers' = [m_analyzers EXCEPT ![pos] = item]
    <3>1. /\ m_analyzers' \in Seq(ItemType(Analyzers)) /\ NamesDiffer(m_analyzers')
          /\ DOMAIN m_analyzers' = DOMAIN m_analyzers
          /\ \A i \in DOMAIN m_analyzers : m_analyzers'[i].m_next_execute_tstep >= m_cur_tstep
      <4>1. /\ m_analyzers \in Seq(ItemType(Analyzers)) /\ NamesDiffer(m_analyzers)
            /\ m_cur_tstep \in Nat
            /\ \A i \in DOMAIN m_analyzers : m_analyzers[i].m_next_execute_tstep >= m_cur_tstep
        BY Lists
      <4>2. \/ m_analyzers' = m_analyzers
            \/ /\ PeekExecute(m_analyzers[pos], m_cur_tstep)
               /\ \E item \in Advanced(m_analyzers[pos], m_cur_tstep) :
                      m_analyzers' = [m_analyzers EXCEPT ![pos] = item]
        BY <2>2
      <4>3. pos \in DOMAIN m_analyzers
        BY <2>2
      <4> QED
        BY <4>1, <4>2, <4>3, TurnOf
    <3> QED
      BY <3>1
  <2> QED
    BY <2>1, <2>2 DEF Fail, Throw, lists
<1>3. /\ m_updaters' \in Seq(ItemType(Updaters)) /\ NamesDiffer(m_updaters')
      /\ \A i \in DOMAIN m_updaters' : m_updaters'[i].m_next_execute_tstep >= m_cur_tstep
  <2>1. CASE m_updaters' = m_updaters
    BY <2>1, Lists
  <2>2. CASE /\ pos \in DOMAIN m_updaters /\ PeekExecute(m_updaters[pos], m_cur_tstep)
             /\ \E item \in Advanced(m_updaters[pos], m_cur_tstep) :
                    m_updaters' = [m_updaters EXCEPT ![pos] = item]
    <3>1. /\ m_updaters' \in Seq(ItemType(Updaters)) /\ NamesDiffer(m_updaters')
          /\ DOMAIN m_updaters' = DOMAIN m_updaters
          /\ \A i \in DOMAIN m_updaters : m_updaters'[i].m_next_execute_tstep >= m_cur_tstep
      <4>1. /\ m_updaters \in Seq(ItemType(Updaters)) /\ NamesDiffer(m_updaters)
            /\ m_cur_tstep \in Nat
            /\ \A i \in DOMAIN m_updaters : m_updaters[i].m_next_execute_tstep >= m_cur_tstep
        BY Lists
      <4>2. \/ m_updaters' = m_updaters
            \/ /\ PeekExecute(m_updaters[pos], m_cur_tstep)
               /\ \E item \in Advanced(m_updaters[pos], m_cur_tstep) :
                      m_updaters' = [m_updaters EXCEPT ![pos] = item]
        BY <2>2
      <4>3. pos \in DOMAIN m_updaters
        BY <2>2
      <4> QED
        BY <4>1, <4>2, <4>3, TurnOf
    <3> QED
      BY <3>1
  <2> QED
    BY <2>1, <2>2 DEF Fail, Throw, lists
<1>4. RunTypeOK'
  <2>1. budget' \in 0 .. MaxInterruptions
    BY <1>1, SystemAssumption DEF RunInv, RunTypeOK
  <2> QED
    BY <1>1, <1>2, <1>3, <2>1 DEF RunInv, RunTypeOK, NamesDiffer, forces, imdVars
<1>5. TurnsTaken'
  BY <1>1, <1>2, <1>3 DEF TurnsTaken, AnalyzerHadTurn, UpdaterHadTurn
<1> QED
  BY <1>1, <1>4, <1>5 DEF RunInv, DueIsRequested, StepWithinRun, StepsInOrder, InStep

\* The script and the signal handler change no list, no time step, no phase.
LEMMA Elsewhere ==
  ASSUME RunInv, RunTypeOK', UNCHANGED <<control, lists, m_flags, late, integrated>>
  PROVE  RunInv'
<1> USE DEF control, lists
<1>1. TurnsTaken'
  BY DEF RunInv, TurnsTaken, AnalyzerHadTurn, UpdaterHadTurn
<1> QED
  BY <1>1 DEF RunInv, StepWithinRun, DueIsRequested, Due, StepsInOrder, InStep

LEMMA OthersInv ==
  RunInv /\ (SetIntegrator \/ SigintHandler \/ Viewer \/ UNCHANGED runVars) => RunInv'
<1> SUFFICES ASSUME RunInv, SetIntegrator \/ SigintHandler \/ Viewer \/ UNCHANGED runVars PROVE RunInv'
  OBVIOUS
<1>1. UNCHANGED <<control, lists, m_flags, late, integrated>>
  BY Zenon DEF SetIntegrator, SigintHandler, Viewer, runVars
<1>2. RunTypeOK'
  <2> USE DEF control, lists, forces, imdVars
  <2>1. {m_first_step', m_particles_sorted', g_sigint_recvd'} \subseteq BOOLEAN
    BY Zenon DEF SetIntegrator, SigintHandler, Viewer, runVars, RunInv, RunTypeOK
  <2>2. budget' \in 0 .. MaxInterruptions
    BY SystemAssumption DEF SetIntegrator, SigintHandler, Viewer, runVars, RunInv, RunTypeOK
  <2>3. /\ link' \in {"none", "pending", "open"} /\ inbox' \in Commands \cup {NoCommand}
        /\ m_paused' \in BOOLEAN /\ (inbox' # NoCommand => link' = "open")
    BY DEF SetIntegrator, SigintHandler, Viewer, runVars, RunInv, RunTypeOK, Connect, Send,
           Commands, NoCommand
  <2>4. m_last_computed' = m_last_computed
    BY Zenon DEF SetIntegrator, SigintHandler, Viewer, runVars
  <2> QED
    BY <1>1, <2>1, <2>2, <2>3, <2>4 DEF RunInv, RunTypeOK
<1> QED
  BY <1>1, <1>2, Elsewhere

LEMMA InvNext == RunInv /\ [RunNext]_runVars => RunInv'
BY EndOfRunInv, BeginStepInv, CallbackReturnsInv, NextAnalyzerInv, AnalyzeImdInv,
   EndAnalyzeImdInv, AnalyzersDoneInv, NextUpdaterInv, UpdatersDoneInv, IntegrateInv,
   StartRunInv, EditItemsInv, FailInv, OthersInv DEF RunNext, RunStep, KeepPaused

-----------------------------------------------------------------------------
\* The inductive invariant of System::run().
THEOREM RunInvariance == RunSpec => []RunInv
BY InvInit, InvNext, PTL DEF RunSpec

\* The types, and that no two analyzers and no two updaters have one name.
THEOREM RunTypeCorrect == RunSpec => []RunTypeOK
<1>1. RunInv => RunTypeOK
  BY DEF RunInv
<1> QED
  BY <1>1, RunInvariance, PTL

\* No item is left behind: shouldExecute() finds every item that is due, for any
\* periods, any results of the period functions, any edits and interruptions.
THEOREM NeverLeftBehind == RunSpec => []NoItemLeftBehind
<1>1. RunInv => NoItemLeftBehind
  BY DEF RunInv, TurnsTaken, AnalyzerHadTurn, UpdaterHadTurn, NoItemLeftBehind, Items
<1> QED
  BY <1>1, RunInvariance, PTL

\* What executes had its flag requested, or was scheduled by this step's callback.
THEOREM AlwaysRequested == RunSpec => []FlagsRequested
<1>1. RunInv => FlagsRequested
  <2>1. \A item \in AboutToExecute :
            /\ phase # "script"
            /\ item.m_name \in Due(m_analyzers, m_cur_tstep) \cup Due(m_updaters, m_cur_tstep)
    BY DEF AboutToExecute, Due
  <2> QED
    BY <2>1 DEF RunInv, DueIsRequested, FlagsRequested
<1> QED
  BY <1>1, RunInvariance, PTL

\* Every run goes on at the step after the last one that was integrated, or at
\* that step again: SIGINT leaves run() before the step is counted.
THEOREM NeverSkipped == RunSpec => []NoStepSkipped
<1>1. RunInv => NoStepSkipped
  BY DEF RunInv, StepsInOrder, NoStepSkipped
<1> QED
  BY <1>1, RunInvariance, PTL

-----------------------------------------------------------------------------
(* The system that a script sees.                                           *)

Entries == [tag : Tags, place : Places]

TagsOf(list) == { list[i].tag : i \in DOMAIN list }

Distinct(list) == \A i, j \in DOMAIN list : list[i].tag = list[j].tag => i = j

\* The reverse lookup of a list of particles with ghosts behind it.
IsLookup(index, list, copies) ==
    /\ index = [tag \in Tags |-> index[tag]]
    /\ \A i \in DOMAIN list : index[list[i].tag] = i - 1
    /\ \A k \in DOMAIN copies : index[copies[k]] = Len(list) + k - 1
    /\ \A tag \in Tags : tag \notin TagsOf(list) /\ (\A k \in DOMAIN copies : copies[k] # tag)
           => index[tag] = NOT_LOCAL

ArraysAre(list, copies, index, members) ==
    /\ list \in Seq(Entries) /\ Distinct(list)
    /\ copies \in Seq(Tags)
    /\ \A k \in DOMAIN copies : copies[k] \notin TagsOf(list)
    /\ IsLookup(index, list, copies)
    /\ members = IndexList(list)

\* Every particle is on exactly one rank.
Whole(local) ==
    /\ \A tag \in Tags : \E r \in Ranks : tag \in TagsOf(local[r])
    /\ \A r, s \in Ranks : r # s => TagsOf(local[r]) \cap TagsOf(local[s]) = {}

Stored ==
    /\ size \in Sizes
    /\ ptls = [r \in Ranks |-> ptls[r]] /\ ghosts = [r \in Ranks |-> ghosts[r]]
    /\ rtag = [r \in Ranks |-> rtag[r]] /\ memberIdx = [r \in Ranks |-> memberIdx[r]]
    /\ \A r \in Ranks : ArraysAre(ptls[r], ghosts[r], rtag[r], memberIdx[r])
    /\ Whole(ptls)

-----------------------------------------------------------------------------
(* Lists of particles.                                                      *)

LEMMA ConstantsAre ==
  /\ NGlobal \in Nat \ {0} /\ NPlaces \in Nat \ {0} /\ NOT_LOCAL \notin Int
  /\ \A n \in Sizes : n \in Nat \ {0} /\ Movable(n) \subseteq Tags
  /\ Tags \subseteq Nat /\ Places \subseteq Nat /\ IsFiniteSet(Tags) /\ IsFiniteSet(Places)
<1>1. /\ NGlobal \in Nat \ {0} /\ NPlaces \in Nat \ {0} /\ NOT_LOCAL \notin Int
      /\ \A n \in Sizes : n \in Nat \ {0} /\ Movable(n) \subseteq Tags
  BY ParticleDataAssumption
<1>2. IsFiniteSet(0 .. NGlobal - 1) /\ IsFiniteSet(0 .. NPlaces - 1)
  BY <1>1, FS_Interval
<1> QED
  BY <1>1, <1>2 DEF Tags, Places

LEMMA EntryIs ==
  ASSUME NEW p \in Entries
  PROVE  p.tag \in Tags /\ p.place \in Places /\ p = Particle(p.tag, p.place)
BY DEF Entries, Particle

LEMMA EntriesFinite == IsFiniteSet(Entries)
<1> DEFINE f == [pair \in Tags \X Places |-> Particle(pair[1], pair[2])]
<1>1. IsFiniteSet(Tags \X Places)
  BY ConstantsAre, FS_Product
<1>2. IsFiniteSet({ f[pair] : pair \in Tags \X Places })
  <2>1. f \in Surjection(Tags \X Places, { f[pair] : pair \in Tags \X Places })
    BY DEF Surjection
  <2> QED
    BY <1>1, <2>1, FS_Surjection
<1>3. Entries \in SUBSET { f[pair] : pair \in Tags \X Places }
  <2>1. SUFFICES ASSUME NEW p \in Entries PROVE \E pair \in Tags \X Places : f[pair] = p
    OBVIOUS
  <2>2. <<p.tag, p.place>> \in Tags \X Places /\ f[<<p.tag, p.place>>] = p
    BY EntryIs
  <2> QED
    BY <2>2
<1> QED
  BY <1>2, <1>3, FS_Subset

LEMMA ListIs ==
  ASSUME NEW E, NEW list \in Seq(E)
  PROVE  /\ Len(list) \in Nat /\ DOMAIN list = 1 .. Len(list)
         /\ \A i \in DOMAIN list : list[i] \in E /\ i \in Nat
BY LenProperties, ElementOfSeq

LEMMA JoinedIs ==
  ASSUME NEW E, NEW list \in Seq(E), NEW new \in Seq(E), NEW all, all = list \o new
  PROVE  /\ all \in Seq(E) /\ Len(all) = Len(list) + Len(new)
         /\ \A i \in DOMAIN all :
                \/ i \in DOMAIN list /\ i <= Len(list) /\ all[i] = list[i]
                \/ i - Len(list) \in DOMAIN new /\ i > Len(list) /\ all[i] = new[i - Len(list)]
         /\ \A i \in DOMAIN list : i \in DOMAIN all /\ all[i] = list[i]
         /\ \A k \in DOMAIN new : Len(list) + k \in DOMAIN all /\ all[Len(list) + k] = new[k]
<1> DEFINE m == Len(list)
           n == Len(new)
<1>1. /\ m \in Nat /\ n \in Nat /\ DOMAIN list = 1 .. m /\ DOMAIN new = 1 .. n
      /\ all \in Seq(E) /\ Len(all) = m + n
      /\ \A i \in 1 .. m + n : all[i] = IF i <= m THEN list[i] ELSE new[i - m]
  BY LenProperties, ConcatProperties
<1>2. DOMAIN all = 1 .. m + n
  BY <1>1, LenProperties
<1> HIDE DEF m, n
<1>3. ASSUME NEW i \in DOMAIN all
      PROVE  \/ i \in DOMAIN list /\ i <= m /\ all[i] = list[i]
             \/ i - m \in DOMAIN new /\ i > m /\ all[i] = new[i - m]
  BY <1>1, <1>2
<1>4. ASSUME NEW i \in DOMAIN list PROVE i \in DOMAIN all /\ all[i] = list[i]
  <2>1. i \in Nat /\ 1 <= i /\ i <= m
    BY <1>1
  <2> QED
    BY <1>1, <1>2, <2>1
<1>5. ASSUME NEW k \in DOMAIN new PROVE m + k \in DOMAIN all /\ all[m + k] = new[k]
  <2>1. k \in Nat /\ 1 <= k /\ k <= n
    BY <1>1
  <2>2. m + k \in 1 .. m + n /\ ~ (m + k <= m) /\ (m + k) - m = k
    BY <1>1, <2>1
  <2> QED
    BY <1>1, <1>2, <2>2
<1> QED
  BY <1>1, <1>3, <1>4, <1>5 DEF m, n

LEMMA TagListIs ==
  ASSUME NEW list \in Seq(Entries)
  PROVE  /\ TagList(list) \in Seq(Tags) /\ Len(TagList(list)) = Len(list)
         /\ DOMAIN TagList(list) = DOMAIN list
         /\ \A i \in DOMAIN list : TagList(list)[i] = list[i].tag /\ list[i].tag \in Tags
<1>1. /\ DOMAIN list = 1 .. Len(list) /\ Len(list) \in Nat
      /\ \A i \in DOMAIN list : list[i].tag \in Tags
  BY ListIs, EntryIs
<1>2. TagList(list) = [i \in 1 .. Len(list) |-> list[i].tag]
  BY <1>1 DEF TagList
<1>3. TagList(list) \in Seq(Tags)
  BY <1>1, <1>2, SeqDef
<1>4. Len(TagList(list)) = Len(list)
  BY <1>1, <1>2, <1>3, LenProperties
<1> QED
  BY <1>1, <1>2, <1>3, <1>4

-----------------------------------------------------------------------------
(* The reverse lookup.                                                      *)

\* Of a list: no element twice, and the elements.
NoneTwice(tags) == \A i, j \in DOMAIN tags : tags[i] = tags[j] => i = j
Has(tags, tag) == \E i \in DOMAIN tags : tags[i] = tag

LEMMA NumberedIs ==
  ASSUME NEW tags \in Seq(Tags), NoneTwice(tags), NEW index,
         NEW after, after = Numbered(index, tags)
  PROVE  /\ after = [tag \in Tags |-> after[tag]]
         /\ \A i \in DOMAIN tags : after[tags[i]] = i - 1
         /\ \A tag \in Tags : ~ Has(tags, tag) => after[tag] = index[tag]
<1>1. DOMAIN tags = 1 .. Len(tags) /\ \A i \in DOMAIN tags : tags[i] \in Tags
  BY ListIs
<1>2. ASSUME NEW i \in DOMAIN tags PROVE after[tags[i]] = i - 1
  <2>1. (CHOOSE j \in DOMAIN tags : tags[j] = tags[i]) = i
    BY DEF NoneTwice
  <2>2. Contains(tags, tags[i])
    BY <1>1 DEF Contains
  <2> QED
    BY <1>1, <2>1, <2>2 DEF Numbered
<1>3. ASSUME NEW tag \in Tags, ~ Has(tags, tag) PROVE after[tag] = index[tag]
  <2>1. ~ Contains(tags, tag)
    BY <1>1, <1>3 DEF Contains, Has
  <2> QED
    BY <2>1 DEF Numbered
<1>4. after = [tag \in Tags |-> after[tag]]
  BY DEF Numbered
<1> QED
  BY <1>2, <1>3, <1>4

\* A table without any index, after a list and the ghosts behind it are entered.
LEMMA NumberedLookup ==
  ASSUME NEW list \in Seq(Entries), Distinct(list), NEW copies \in Seq(Tags), NoneTwice(copies),
         \A k \in DOMAIN copies : copies[k] \notin TagsOf(list),
         NEW index, index = Numbered(NoIndex, TagList(list) \o copies)
  PROVE  IsLookup(index, list, copies)
<1> DEFINE tags == TagList(list)
           all == tags \o copies
           n == Len(list)
<1>1. /\ tags \in Seq(Tags) /\ Len(tags) = n /\ DOMAIN tags = DOMAIN list
      /\ \A i \in DOMAIN list : tags[i] = list[i].tag /\ list[i].tag \in Tags
  BY TagListIs
<1>2. /\ n \in Nat /\ DOMAIN list = 1 .. n
      /\ \A i \in DOMAIN list : i \in Nat
      /\ \A k \in DOMAIN copies : copies[k] \in Tags /\ k \in Nat
  BY ListIs
<1> HIDE DEF tags, n
<1>3. /\ all \in Seq(Tags)
      /\ \A i \in DOMAIN all :
             \/ i \in DOMAIN tags /\ i <= n /\ all[i] = tags[i]
             \/ i - n \in DOMAIN copies /\ i > n /\ all[i] = copies[i - n]
      /\ \A i \in DOMAIN tags : i \in DOMAIN all /\ all[i] = tags[i]
      /\ \A k \in DOMAIN copies : n + k \in DOMAIN all /\ all[n + k] = copies[k]
      /\ \A i \in DOMAIN all : i \in Nat
  BY <1>1, JoinedIs, ListIs
<1> HIDE DEF all
<1>4. ASSUME NEW i \in DOMAIN all, NEW j \in DOMAIN all, all[i] = all[j] PROVE i = j
  <2>1. CASE i \in DOMAIN tags /\ all[i] = tags[i] /\ j \in DOMAIN tags /\ all[j] = tags[j]
    BY <1>1, <1>4, <2>1 DEF Distinct
  <2>2. ASSUME NEW k \in DOMAIN list, NEW l \in DOMAIN copies PROVE tags[k] # copies[l]
    BY <1>1, <2>2 DEF TagsOf
  <2>3. CASE /\ i - n \in DOMAIN copies /\ all[i] = copies[i - n]
             /\ j - n \in DOMAIN copies /\ all[j] = copies[j - n]
    <3>1. i - n = j - n
      BY <1>4, <2>3 DEF NoneTwice
    <3> QED
      BY <1>2, <1>3, <3>1
  <2> QED
    BY <1>1, <1>3, <1>4, <2>1, <2>2, <2>3
<1>5. NoneTwice(all)
  BY <1>4 DEF NoneTwice
<1>6. index = Numbered(NoIndex, all)
  BY DEF all, tags
<1>7. /\ index = [tag \in Tags |-> index[tag]]
      /\ \A i \in DOMAIN all : index[all[i]] = i - 1
      /\ \A tag \in Tags : ~ Has(all, tag) => index[tag] = NoIndex[tag]
  BY <1>3, <1>5, <1>6, NumberedIs
<1>8. ASSUME NEW i \in DOMAIN list PROVE index[list[i].tag] = i - 1
  <2>1. tags[i] = list[i].tag /\ i \in DOMAIN all /\ all[i] = tags[i]
    BY <1>1, <1>3
  <2>2. index[all[i]] = i - 1
    BY <1>7, <2>1
  <2> QED
    BY <2>1, <2>2
<1>9. ASSUME NEW k \in DOMAIN copies PROVE index[copies[k]] = n + k - 1
  <2> DEFINE i == n + k
  <2>1. i \in DOMAIN all /\ all[i] = copies[k]
    BY <1>3
  <2> HIDE DEF i
  <2>2. index[all[i]] = i - 1
    BY <1>7, <2>1
  <2>3. index[copies[k]] = i - 1
    BY <2>1, <2>2
  <2> QED
    BY <1>2, <2>3 DEF i
<1>10. ASSUME NEW tag \in Tags, tag \notin TagsOf(list), \A k \in DOMAIN copies : copies[k] # tag
       PROVE  index[tag] = NOT_LOCAL
  <2>1. \A i \in DOMAIN list : tags[i] # tag
    BY <1>1, <1>10 DEF TagsOf
  <2>2. ~ Has(all, tag)
    BY <1>1, <1>3, <1>10, <2>1 DEF Has
  <2> QED
    BY <1>7, <2>2 DEF NoIndex
<1> QED
  BY <1>7, <1>8, <1>9, <1>10 DEF IsLookup, n

\* Without ghosts.
LEMMA NumberedAlone ==
  ASSUME NEW list \in Seq(Entries), Distinct(list),
         NEW index, index = Numbered(NoIndex, TagList(list))
  PROVE  IsLookup(index, list, <<>>)
<1> DEFINE tags == TagList(list)
<1>1. /\ tags \in Seq(Tags) /\ DOMAIN tags = DOMAIN list
      /\ \A i \in DOMAIN list : tags[i] = list[i].tag /\ list[i].tag \in Tags
  BY TagListIs
<1> HIDE DEF tags
<1>2. NoneTwice(tags)
  BY <1>1 DEF NoneTwice, Distinct
<1>3. index = Numbered(NoIndex, tags)
  BY DEF tags
<1>4. /\ index = [tag \in Tags |-> index[tag]]
      /\ \A i \in DOMAIN tags : index[tags[i]] = i - 1
      /\ \A tag \in Tags : ~ Has(tags, tag) => index[tag] = NoIndex[tag]
  BY <1>1, <1>2, <1>3, NumberedIs
<1>5. \A tag \in Tags : tag \notin TagsOf(list) => index[tag] = NOT_LOCAL
  BY <1>1, <1>4 DEF Has, TagsOf, NoIndex
<1>6. \A i \in DOMAIN list : index[list[i].tag] = i - 1
  BY <1>1, <1>4
<1> QED
  BY <1>4, <1>5, <1>6 DEF IsLookup

\* The same particles in another order, with the ghosts where they were.
LEMMA SortedLookup ==
  ASSUME NEW list \in Seq(Entries), NEW new \in Seq(Entries), Distinct(new),
         TagsOf(new) = TagsOf(list), Len(new) = Len(list), NEW copies \in Seq(Tags),
         \A k \in DOMAIN copies : copies[k] \notin TagsOf(list),
         NEW index, IsLookup(index, list, copies),
         NEW after, after = Numbered(index, TagList(new))
  PROVE  IsLookup(after, new, copies)
<1> DEFINE tags == TagList(new)
<1>1. /\ tags \in Seq(Tags) /\ DOMAIN tags = DOMAIN new
      /\ \A i \in DOMAIN new : tags[i] = new[i].tag /\ new[i].tag \in Tags
  BY TagListIs
<1> HIDE DEF tags
<1>2. NoneTwice(tags)
  BY <1>1 DEF NoneTwice, Distinct
<1>3. after = Numbered(index, tags)
  BY DEF tags
<1>4. /\ after = [tag \in Tags |-> after[tag]]
      /\ \A i \in DOMAIN tags : after[tags[i]] = i - 1
      /\ \A tag \in Tags : ~ Has(tags, tag) => after[tag] = index[tag]
  BY <1>1, <1>2, <1>3, NumberedIs
<1>5. ASSUME NEW tag \in Tags, tag \notin TagsOf(list) PROVE after[tag] = index[tag]
  <2>1. \A i \in DOMAIN new : new[i].tag # tag
    BY <1>5 DEF TagsOf
  <2>2. ~ Has(tags, tag)
    BY <1>1, <2>1 DEF Has
  <2> QED
    BY <1>4, <2>2
<1>6. \A i \in DOMAIN new : after[new[i].tag] = i - 1
  BY <1>1, <1>4
<1>7. \A k \in DOMAIN copies : copies[k] \in Tags
  BY ListIs
<1>8. \A k \in DOMAIN copies : after[copies[k]] = Len(new) + k - 1
  BY <1>5, <1>7 DEF IsLookup
<1>9. \A tag \in Tags : tag \notin TagsOf(new) /\ (\A k \in DOMAIN copies : copies[k] # tag)
          => after[tag] = NOT_LOCAL
  BY <1>5 DEF IsLookup
<1> QED
  BY <1>4, <1>6, <1>8, <1>9 DEF IsLookup

-----------------------------------------------------------------------------
(* The particles of the ranks.                                              *)

In(list, p) == \E i \in DOMAIN list : list[i] = p
Held(local, p) == \E r \in Ranks : In(local[r], p)

\* Particles of which every tag has one.
OnePerTag(particles) ==
    /\ particles \subseteq Entries
    /\ \A tag \in Tags : \E p \in particles : p.tag = tag
    /\ \A p, q \in particles : p.tag = q.tag => p = q

\* Every rank has a list of those in its domain, none of them twice.
ByDomain(local, particles) ==
    \A r \in Ranks :
        /\ local[r] \in Seq(Entries) /\ Distinct(local[r])
        /\ \A p \in Entries : In(local[r], p) <=> p \in particles /\ DomainOf(p.place) = r

LEMMA DomainIs ==
  ASSUME size \in Sizes, NEW place \in Places
  PROVE  DomainOf(place) \in Ranks
BY ConstantsAre DEF DomainOf, Ranks

LEMMA InList ==
  ASSUME NEW list \in Seq(Entries)
  PROVE  /\ \A p : In(list, p) => p \in Entries /\ p.tag \in TagsOf(list)
         /\ \A tag : tag \in TagsOf(list) => \E p \in Entries : In(list, p) /\ p.tag = tag
BY ListIs DEF In, TagsOf

LEMMA DistributedIs ==
  ASSUME size \in Sizes, NEW local, NEW particles, OnePerTag(particles), ByDomain(local, particles)
  PROVE  /\ Whole(local)
         /\ \A p : Held(local, p) <=> p \in particles
<1>1. ASSUME NEW p \in particles
      PROVE  DomainOf(p.place) \in Ranks /\ In(local[DomainOf(p.place)], p)
  BY DomainIs, EntryIs DEF OnePerTag, ByDomain
<1>2. ASSUME NEW r \in Ranks, NEW p, In(local[r], p)
      PROVE  p \in particles /\ DomainOf(p.place) = r /\ p.tag \in TagsOf(local[r])
  BY <1>2, InList DEF ByDomain
<1>3. ASSUME NEW r \in Ranks, NEW tag \in TagsOf(local[r])
      PROVE  \E p \in particles : p.tag = tag /\ DomainOf(p.place) = r
  BY <1>2, InList DEF ByDomain
<1>4. \A tag \in Tags : \E r \in Ranks : tag \in TagsOf(local[r])
  BY <1>1, <1>2 DEF OnePerTag
<1>5. ASSUME NEW r \in Ranks, NEW s \in Ranks, r # s
      PROVE  TagsOf(local[r]) \cap TagsOf(local[s]) = {}
  BY <1>3, <1>5 DEF OnePerTag
<1> QED
  BY <1>1, <1>2, <1>4, <1>5 DEF Whole, Held

\* What the ranks hold.
Particles == { p \in Entries : Held(ptls, p) }

LEMMA ParticlesAre ==
  ASSUME Stored
  PROVE  OnePerTag(Particles)
<1>1. ASSUME NEW r \in Ranks
      PROVE  ptls[r] \in Seq(Entries) /\ Distinct(ptls[r])
  BY DEF Stored, ArraysAre
<1>2. ASSUME NEW tag \in Tags PROVE \E p \in Particles : p.tag = tag
  <2>1. PICK r \in Ranks : tag \in TagsOf(ptls[r])
    BY DEF Stored, Whole
  <2> QED
    BY <1>1, <2>1, InList DEF Particles, Held
<1>3. ASSUME NEW p \in Particles, NEW q \in Particles, p.tag = q.tag PROVE p = q
  <2>1. PICK r \in Ranks : In(ptls[r], p)
    BY DEF Particles, Held
  <2>2. PICK s \in Ranks : In(ptls[s], q)
    BY DEF Particles, Held
  <2>3. p.tag \in TagsOf(ptls[r]) /\ q.tag \in TagsOf(ptls[s])
    BY <1>1, <2>1, <2>2, InList
  <2>4. r = s
    BY <1>3, <2>3 DEF Stored, Whole
  <2> QED
    BY <1>1, <1>3, <2>1, <2>2, <2>4 DEF In, Distinct
<1> QED
  BY <1>2, <1>3 DEF OnePerTag, Particles

\* A rank that keeps its particles, in another order or with other fields.
LEMMA OneRank ==
  ASSUME Stored, NEW r \in Ranks, NEW new, NEW index, NEW members,
         ArraysAre(new, ghosts[r], index, members), TagsOf(new) = TagsOf(ptls[r]),
         UNCHANGED <<size, ghosts>>,
         ptls' = [ptls EXCEPT ![r] = new],
         rtag' = [rtag EXCEPT ![r] = index], memberIdx' = [memberIdx EXCEPT ![r] = members]
  PROVE  Stored'
<1>1. Ranks' = Ranks
  BY DEF Ranks
<1>2. /\ ptls' = [s \in Ranks |-> IF s = r THEN new ELSE ptls[s]]
      /\ rtag' = [s \in Ranks |-> IF s = r THEN index ELSE rtag[s]]
      /\ memberIdx' = [s \in Ranks |-> IF s = r THEN members ELSE memberIdx[s]]
  BY DEF Stored
<1>3. \A s \in Ranks : ArraysAre(ptls'[s], ghosts'[s], rtag'[s], memberIdx'[s])
  BY <1>2 DEF Stored
<1>4. \A s \in Ranks : TagsOf(ptls'[s]) = TagsOf(ptls[s])
  BY <1>2
<1>5. Whole(ptls')
  BY <1>4 DEF Whole, Stored
<1>6. /\ ptls' = [s \in Ranks |-> ptls'[s]] /\ ghosts' = [s \in Ranks |-> ghosts'[s]]
      /\ rtag' = [s \in Ranks |-> rtag'[s]] /\ memberIdx' = [s \in Ranks |-> memberIdx'[s]]
  BY <1>2 DEF Stored
<1>7. size' \in Sizes
  BY DEF Stored
<1> QED
  BY <1>1, <1>3, <1>5, <1>6, <1>7 DEF Stored, Whole

\* Particles that go to their domains, in arrays that are entered afresh.
LEMMA Distributed ==
  ASSUME Stored, UNCHANGED size, NEW particles, OnePerTag(particles), ByDomain(ptls', particles),
         ptls' = [r \in Ranks |-> ptls'[r]], ghosts' = [r \in Ranks |-> ghosts'[r]],
         rtag' = [r \in Ranks |-> Numbered(NoIndex, TagList(ptls'[r]) \o ghosts'[r])],
         memberIdx' = [r \in Ranks |-> IndexList(ptls'[r])],
         \A r \in Ranks : /\ ghosts'[r] \in Seq(Tags) /\ NoneTwice(ghosts'[r])
                          /\ \A k \in DOMAIN ghosts'[r] : ghosts'[r][k] \notin TagsOf(ptls'[r])
  PROVE  Stored' /\ \A p : Held(ptls', p) <=> p \in particles
<1>1. Ranks' = Ranks /\ size \in Sizes
  BY DEF Ranks, Stored
<1>2. Whole(ptls') /\ \A p : Held(ptls', p) <=> p \in particles
  BY <1>1, DistributedIs
<1>3. ASSUME NEW r \in Ranks
      PROVE  ArraysAre(ptls'[r], ghosts'[r], rtag'[r], memberIdx'[r])
  <2>1. ptls'[r] \in Seq(Entries) /\ Distinct(ptls'[r])
    BY DEF ByDomain
  <2>2. rtag'[r] = Numbered(NoIndex, TagList(ptls'[r]) \o ghosts'[r])
    OBVIOUS
  <2>3. IsLookup(rtag'[r], ptls'[r], ghosts'[r])
    BY <2>1, <2>2, NumberedLookup
  <2> QED
    BY <2>1, <2>3 DEF ArraysAre
<1>4. rtag' = [r \in Ranks |-> rtag'[r]] /\ memberIdx' = [r \in Ranks |-> memberIdx'[r]]
  OBVIOUS
<1> QED
  BY <1>1, <1>2, <1>3, <1>4 DEF Stored, Whole

LEMMA SortedList ==
  ASSUME NEW list \in Seq(Entries), Distinct(list), NEW order \in Orders(Len(list)),
         NEW new, new = [i \in 1 .. Len(list) |-> list[order[i]]]
  PROVE  /\ new \in Seq(Entries) /\ Len(new) = Len(list) /\ Distinct(new)
         /\ \A p : In(new, p) <=> In(list, p)
         /\ TagsOf(new) = TagsOf(list)
<1> DEFINE n == Len(list)
<1>1. n \in Nat /\ DOMAIN list = 1 .. n /\ \A i \in DOMAIN list : list[i] \in Entries
  BY ListIs
<1>2. new = [i \in 1 .. n |-> list[order[i]]] /\ order \in [1 .. n -> 1 .. n] /\ IsInjective(order)
  BY DEF Orders
<1> HIDE DEF n
<1>3. new \in [1 .. n -> Entries] /\ new \in Seq(Entries)
  BY <1>1, <1>2, SeqDef
<1>4. Len(new) = n /\ DOMAIN new = 1 .. n
  BY <1>1, <1>3, LenProperties
<1>5. Distinct(new)
  BY <1>1, <1>2, <1>4 DEF Distinct, IsInjective
<1>6. \A j \in 1 .. n : \E i \in 1 .. n : order[i] = j
  <2>1. IsFiniteSet(1 .. n)
    BY <1>1, FS_Interval
  <2>2. order \in Injection(1 .. n, 1 .. n)
    BY <1>2 DEF Injection
  <2>3. order \in Surjection(1 .. n, 1 .. n)
    BY <2>1, <2>2, FS_Injection
  <2> QED
    BY <2>3 DEF Surjection
<1>7. ASSUME NEW p PROVE In(new, p) <=> In(list, p)
  <2>1. ASSUME In(new, p) PROVE In(list, p)
    BY <1>1, <1>2, <1>4, <2>1 DEF In
  <2>2. ASSUME NEW j \in DOMAIN list, list[j] = p PROVE In(new, p)
    <3>1. PICK i \in 1 .. n : order[i] = j
      BY <1>1, <1>6
    <3> QED
      BY <1>2, <1>4, <2>2, <3>1 DEF In
  <2> QED
    BY <2>1, <2>2 DEF In
<1>8. TagsOf(new) = TagsOf(list)
  <2>1. \A tag : tag \in TagsOf(new) <=> tag \in TagsOf(list)
    BY <1>3, <1>7, InList
  <2> QED
    BY <2>1
<1> QED
  BY <1>3, <1>4, <1>5, <1>7, <1>8 DEF n

\* SFCPackUpdater::update().
LEMMA SortStored ==
  ASSUME Stored, NEW r \in Ranks, NEW order \in Orders(N(r)), Sort(r, order)
  PROVE  /\ Stored' /\ \A p : Held(ptls', p) <=> Held(ptls, p)
         /\ \A s \in Ranks : Len(ptls'[s]) = Len(ptls[s])
<1> DEFINE new == [i \in 1 .. N(r) |-> ptls[r][order[i]]]
           index == Numbered(rtag[r], TagList(new))
<1>1. ArraysAre(ptls[r], ghosts[r], rtag[r], memberIdx[r])
  BY DEF Stored
<1>2. /\ ptls[r] \in Seq(Entries) /\ Distinct(ptls[r]) /\ ghosts[r] \in Seq(Tags)
      /\ \A k \in DOMAIN ghosts[r] : ghosts[r][k] \notin TagsOf(ptls[r])
      /\ IsLookup(rtag[r], ptls[r], ghosts[r])
  BY <1>1 DEF ArraysAre
<1>3. /\ new \in Seq(Entries) /\ Len(new) = Len(ptls[r]) /\ Distinct(new)
      /\ \A p : In(new, p) <=> In(ptls[r], p)
      /\ TagsOf(new) = TagsOf(ptls[r])
  <2>1. new = [i \in 1 .. Len(ptls[r]) |-> ptls[r][order[i]]] /\ order \in Orders(Len(ptls[r]))
    BY DEF N
  <2> HIDE DEF new
  <2> QED
    BY <1>2, <2>1, SortedList
<1>4. /\ ptls' = [ptls EXCEPT ![r] = new] /\ rtag' = [rtag EXCEPT ![r] = index]
      /\ memberIdx' = [memberIdx EXCEPT ![r] = IndexList(new)] /\ UNCHANGED <<size, ghosts>>
  BY DEF Sort
<1> HIDE DEF new
<1>5. IsLookup(index, new, ghosts[r])
  <2>1. index = Numbered(rtag[r], TagList(new))
    OBVIOUS
  <2> HIDE DEF index
  <2> QED
    BY <1>2, <1>3, <2>1, SortedLookup
<1> HIDE DEF index
<1>6. ArraysAre(new, ghosts[r], index, IndexList(new))
  BY <1>2, <1>3, <1>5 DEF ArraysAre
<1>7. Stored'
  BY <1>3, <1>4, <1>6, OneRank
<1>8. ptls' = [s \in Ranks |-> IF s = r THEN new ELSE ptls[s]] /\ Ranks' = Ranks
  BY <1>4 DEF Stored, Ranks
<1>9. \A p : Held(ptls', p) <=> Held(ptls, p)
  BY <1>3, <1>8 DEF Held
<1>10. \A s \in Ranks : Len(ptls'[s]) = Len(ptls[s])
  BY <1>3, <1>8
<1> QED
  BY <1>7, <1>9, <1>10

\* A list whose tags stay as they are.
LEMMA SameTags ==
  ASSUME NEW list, NEW copies, NEW index, NEW members, ArraysAre(list, copies, index, members),
         NEW new \in Seq(Entries), Len(new) = Len(list),
         \A i \in DOMAIN list : new[i].tag = list[i].tag
  PROVE  ArraysAre(new, copies, index, members) /\ TagsOf(new) = TagsOf(list)
<1>1. list \in Seq(Entries)
  BY DEF ArraysAre
<1>2. DOMAIN new = DOMAIN list
  BY <1>1, LenProperties
<1>3. TagsOf(new) = TagsOf(list)
  BY <1>2 DEF TagsOf
<1>5. Distinct(new)
  BY <1>2 DEF ArraysAre, Distinct
<1>6. IsLookup(index, new, copies)
  <2>1. IsLookup(index, list, copies)
    BY DEF ArraysAre
  <2>2. \A i \in DOMAIN new : index[new[i].tag] = i - 1
    BY <1>2, <2>1 DEF IsLookup
  <2> QED
    BY <1>3, <2>1, <2>2 DEF IsLookup
<1>4. IndexList(new) = IndexList(list)
  <2>1. { i \in DOMAIN new : new[i].tag \in Group } = { i \in DOMAIN list : list[i].tag \in Group }
    BY <1>2
  <2> QED
    BY <2>1 DEF IndexList
<1> QED
  BY <1>3, <1>4, <1>5, <1>6 DEF ArraysAre

\* A particle is found on the rank that has it, and on no other.
LEMMA FoundIs ==
  ASSUME Stored, NEW r \in Ranks, NEW tag \in Tags
  PROVE  /\ Found(r, tag) <=> tag \in TagsOf(ptls[r])
         /\ Found(r, tag) => /\ rtag[r][tag] + 1 \in DOMAIN ptls[r]
                             /\ ptls[r][rtag[r][tag] + 1].tag = tag
<1> DEFINE list == ptls[r]
           copies == ghosts[r]
           index == rtag[r]
           n == Len(list)
<1>1. /\ list \in Seq(Entries) /\ copies \in Seq(Tags) /\ IsLookup(index, list, copies)
  BY DEF Stored, ArraysAre
<1>2. Found(r, tag) <=> index[tag] \in 0 .. n - 1
  BY DEF Found, N
<1> HIDE DEF list, copies, index
<1>3. n \in Nat /\ DOMAIN list = 1 .. n /\ \A k \in DOMAIN copies : k \in Nat /\ k >= 1
  BY <1>1, LenProperties
<1>4. CASE tag \in TagsOf(list)
  <2>1. PICK i \in DOMAIN list : list[i].tag = tag
    BY <1>4 DEF TagsOf
  <2>2. index[tag] = i - 1
    BY <1>1, <2>1 DEF IsLookup
  <2>3. index[tag] \in 0 .. n - 1 /\ index[tag] + 1 = i
    BY <1>3, <2>1, <2>2
  <2> QED
    BY <1>2, <1>4, <2>1, <2>3 DEF list, index
<1>5. CASE tag \notin TagsOf(list)
  <2>1. CASE \E k \in DOMAIN copies : copies[k] = tag
    <3>1. PICK k \in DOMAIN copies : copies[k] = tag
      BY <2>1
    <3>2. index[tag] = n + k - 1
      BY <1>1, <3>1 DEF IsLookup
    <3> QED
      BY <1>2, <1>3, <1>5, <3>2 DEF list
  <2>2. CASE \A k \in DOMAIN copies : copies[k] # tag
    <3>1. index[tag] = NOT_LOCAL
      BY <1>1, <1>5, <2>2 DEF IsLookup
    <3> QED
      BY <1>2, <1>5, <3>1, ConstantsAre DEF list
  <2> QED
    BY <2>1, <2>2
<1> QED
  BY <1>4, <1>5

LEMMA OwnerIs ==
  ASSUME Stored, NEW tag \in Tags
  PROVE  /\ Cardinality(Owners(tag)) = 1
         /\ Owner(tag) \in Ranks
         /\ rtag[Owner(tag)][tag] + 1 \in DOMAIN ptls[Owner(tag)]
         /\ ptls[Owner(tag)][rtag[Owner(tag)][tag] + 1].tag = tag
<1>1. PICK r \in Ranks : tag \in TagsOf(ptls[r])
  BY DEF Stored, Whole
<1>2. \A s \in Ranks : tag \in TagsOf(ptls[s]) => s = r
  BY <1>1 DEF Stored, Whole
<1>3. \A s \in Ranks : Found(s, tag) <=> s = r
  BY <1>1, <1>2, FoundIs
<1>4. Owners(tag) = {r}
  BY <1>3 DEF Owners
<1>5. Owner(tag) = r
  BY <1>3 DEF Owner
<1> QED
  BY <1>3, <1>4, <1>5, FoundIs, FS_Singleton

\* The getters return the particle of the tag.
LEMMA GetIs ==
  ASSUME Stored, NEW tag \in Tags
  PROVE  /\ Get(tag) \in Particles /\ Get(tag).tag = tag
         /\ \A p \in Particles : p.tag = tag => Get(tag) = p
<1> DEFINE r == Owner(tag)
           i == rtag[r][tag] + 1
<1>1. Get(tag) = ptls[r][i] /\ r \in Ranks /\ i \in DOMAIN ptls[r] /\ ptls[r][i].tag = tag
  BY OwnerIs DEF Get
<1>2. ptls[r] \in Seq(Entries)
  BY <1>1 DEF Stored, ArraysAre
<1> HIDE DEF r, i
<1>3. Get(tag) \in Particles
  BY <1>1, <1>2, ListIs DEF Particles, Held, In
<1> QED
  BY <1>1, <1>3, ParticlesAre DEF OnePerTag

\* setPosition() and the other setters.
LEMMA SetStored ==
  ASSUME Stored, NEW tag \in Tags, NEW place \in Places, Set(tag, place)
  PROVE  /\ Stored' /\ Particles' = { p \in Particles : p.tag # tag } \cup { Particle(tag, place) }
         /\ \A s \in Ranks : Len(ptls'[s]) = Len(ptls[s])
<1> DEFINE r == Owner(tag)
           i == rtag[r][tag] + 1
           list == ptls[r]
           new == [list EXCEPT ![i].place = place]
<1>1. r \in Ranks /\ i \in DOMAIN list /\ list[i].tag = tag
  BY OwnerIs
<1>2. /\ ArraysAre(list, ghosts[r], rtag[r], memberIdx[r]) /\ list \in Seq(Entries)
      /\ Distinct(list)
  BY <1>1 DEF Stored, ArraysAre
<1>3. /\ ptls' = [ptls EXCEPT ![r] = new] /\ UNCHANGED <<size, ghosts>>
      /\ rtag' = rtag /\ memberIdx' = memberIdx
  BY DEF Set
<1> HIDE DEF r, i, list
<1>4. list[i] \in Entries /\ DOMAIN list = 1 .. Len(list) /\ Len(list) \in Nat
  BY <1>1, <1>2, ListIs
<1>5. /\ new = [j \in 1 .. Len(list) |-> IF j = i THEN Particle(tag, place) ELSE list[j]]
      /\ Particle(tag, place) \in Entries
  <2>1. new = [list EXCEPT ![i] = [list[i] EXCEPT !.place = place]]
    OBVIOUS
  <2>2. [list[i] EXCEPT !.place = place] = Particle(tag, place)
    BY <1>1, <1>4 DEF Entries, Particle
  <2>3. Particle(tag, place) \in Entries
    BY DEF Entries, Particle
  <2> HIDE DEF new
  <2> QED
    BY <1>4, <2>1, <2>2, <2>3
<1> HIDE DEF new
<1>6. new \in Seq(Entries) /\ Len(new) = Len(list) /\ DOMAIN new = DOMAIN list
  <2>1. \A j \in 1 .. Len(list) : list[j] \in Entries
    BY <1>2, <1>4, ListIs
  <2>2. new \in [1 .. Len(list) -> Entries]
    BY <1>5, <2>1
  <2> QED
    BY <1>4, <2>2, SeqDef, LenProperties
<1>7. \A j \in DOMAIN list : new[j].tag = list[j].tag
  BY <1>1, <1>4, <1>5 DEF Particle
<1>8. ArraysAre(new, ghosts[r], rtag[r], memberIdx[r]) /\ TagsOf(new) = TagsOf(list)
  BY <1>2, <1>6, <1>7, SameTags
<1>9. /\ rtag' = [rtag EXCEPT ![r] = rtag[r]] /\ memberIdx' = [memberIdx EXCEPT ![r] = memberIdx[r]]
  BY <1>1, <1>3 DEF Stored
<1>10. Stored'
  <2>1. TagsOf(new) = TagsOf(ptls[r])
    BY <1>8 DEF list
  <2> DEFINE index == rtag[r]
             members == memberIdx[r]
  <2>2. rtag' = [rtag EXCEPT ![r] = index] /\ memberIdx' = [memberIdx EXCEPT ![r] = members]
    BY <1>9
  <2>3. ArraysAre(new, ghosts[r], index, members)
    BY <1>8
  <2> HIDE DEF index, members
  <2> QED
    BY <1>1, <1>3, <2>1, <2>2, <2>3, OneRank
<1>11. ptls' = [s \in Ranks |-> IF s = r THEN new ELSE ptls[s]] /\ Ranks' = Ranks
  BY <1>3 DEF Stored, Ranks
<1>12. ASSUME NEW p \in Entries
       PROVE  In(new, p) <=> p = Particle(tag, place) \/ (p.tag # tag /\ In(list, p))
  <2>1. Particle(tag, place).tag = tag
    BY DEF Particle
  <2>2. \A j \in DOMAIN list : list[j].tag = tag <=> j = i
    BY <1>1, <1>2 DEF Distinct
  <2> QED
    BY <1>1, <1>4, <1>5, <1>6, <2>1, <2>2 DEF In
<1>13. ASSUME NEW p \in Entries
       PROVE  p \in Particles' <=> p = Particle(tag, place) \/ (p.tag # tag /\ p \in Particles)
  <2>1. p \in Particles' <=> \E s \in Ranks : In(ptls'[s], p)
    BY <1>11 DEF Particles, Held
  <2>2. p \in Particles <=> \E s \in Ranks : In(ptls[s], p)
    BY DEF Particles, Held
  <2>3. \A s \in Ranks : In(ptls'[s], p) <=> IF s = r THEN In(new, p) ELSE In(ptls[s], p)
    BY <1>11
  <2>4. p.tag = tag => \A s \in Ranks : s # r => ~ In(ptls[s], p)
    <3>1. ASSUME p.tag = tag, NEW s \in Ranks, s # r, In(ptls[s], p) PROVE FALSE
      <4>1. p.tag \in TagsOf(ptls[s]) /\ tag \in TagsOf(ptls[r])
        BY <1>1, <3>1 DEF TagsOf, In, list
      <4> QED
        BY <1>1, <3>1, <4>1 DEF Stored, Whole
    <3> QED
      BY <3>1
  <2>5. Particle(tag, place).tag = tag
    BY DEF Particle
  <2> QED
    BY <1>1, <1>12, <2>1, <2>2, <2>3, <2>4, <2>5 DEF list
<1>14. Particles' \subseteq Entries /\ Particles \subseteq Entries
  BY DEF Particles
<1>15. \A s \in Ranks : Len(ptls'[s]) = Len(ptls[s])
  BY <1>6, <1>11 DEF list
<1> QED
  BY <1>5, <1>10, <1>13, <1>14, <1>15

\* The particles of a list that are in the domain of a rank.
LEMMA WithinIs ==
  ASSUME NEW r, NEW list \in Seq(Entries), Distinct(list),
         NEW new, new = Picked(list, Within(r, list))
  PROVE  /\ new \in Seq(Entries) /\ Distinct(new)
         /\ \A p : In(new, p) <=> In(list, p) /\ DomainOf(p.place) = r
<1> DEFINE S == Within(r, list)
<1>1. S \in SUBSET (DOMAIN list) /\ \A i : i \in S <=> i \in DOMAIN list /\ DomainOf(list[i].place) = r
  BY DEF Within
<1>2. new = Picked(list, S)
  OBVIOUS
<1> HIDE DEF S
<1>3. /\ new \in Seq(Entries) /\ DOMAIN new = 1 .. Cardinality(S) /\ Cardinality(S) \in 0 .. Len(list)
      /\ \A k \in DOMAIN new : Nth(S, k) \in S /\ new[k] = list[Nth(S, k)]
      /\ \A i \in S : \E k \in DOMAIN new : new[k] = list[i]
  BY <1>1, <1>2, PickedProperties
<1>4. ASSUME NEW k \in DOMAIN new, NEW l \in DOMAIN new, new[k].tag = new[l].tag PROVE k = l
  <2>1. Nth(S, k) = Nth(S, l)
    <3>1. /\ Nth(S, k) \in DOMAIN list /\ list[Nth(S, k)] = new[k]
          /\ Nth(S, l) \in DOMAIN list /\ list[Nth(S, l)] = new[l]
      BY <1>1, <1>3, <1>4
    <3>2. list[Nth(S, k)].tag = list[Nth(S, l)].tag
      BY <1>4, <3>1
    <3> QED
      BY <3>1, <3>2 DEF Distinct
  <2>2. k < l => Nth(S, k) < Nth(S, l)
    BY <1>1, <1>2, PickedInOrder
  <2>3. l < k => Nth(S, l) < Nth(S, k)
    BY <1>1, <1>2, PickedInOrder
  <2>4. Nth(S, k) \in Nat /\ Nth(S, l) \in Nat /\ k \in Nat /\ l \in Nat
    BY <1>1, <1>3, ListIs
  <2> QED
    BY <2>1, <2>2, <2>3, <2>4
<1>5. Distinct(new)
  BY <1>4 DEF Distinct
<1>6. ASSUME NEW p PROVE In(new, p) <=> In(list, p) /\ DomainOf(p.place) = r
  <2>1. ASSUME NEW k \in DOMAIN new, new[k] = p PROVE In(list, p) /\ DomainOf(p.place) = r
    BY <1>1, <1>3, <2>1 DEF In
  <2>2. ASSUME NEW i \in DOMAIN list, list[i] = p, DomainOf(p.place) = r PROVE In(new, p)
    BY <1>1, <1>3, <2>2 DEF In
  <2> QED
    BY <2>1, <2>2 DEF In
<1> QED
  BY <1>3, <1>5, <1>6

\* The particles that a rank is sent.
LEMMA ArriveIs ==
  ASSUME Stored, NEW r \in Ranks
  PROVE  /\ Arrive(r) \in Seq(Entries) /\ Distinct(Arrive(r))
         /\ \A p : In(Arrive(r), p) <=> \E s \in Ranks : s # r /\ In(ptls[s], p) /\ DomainOf(p.place) = r
<1> DEFINE A == UNION { { ptls[s][i] : i \in Within(r, ptls[s]) } : s \in Ranks \ {r} }
           new == SetToSeq(A)
<1>1. ASSUME NEW p
      PROVE  p \in A <=> \E s \in Ranks : s # r /\ In(ptls[s], p) /\ DomainOf(p.place) = r
  BY DEF In, Within
<1>2. \A s \in Ranks : ptls[s] \in Seq(Entries)
  BY DEF Stored, ArraysAre
<1>3. A \subseteq Particles /\ A \subseteq Entries
  BY <1>1, <1>2, InList DEF Particles, Held
<1>4. Arrive(r) = new
  BY DEF Arrive
<1> HIDE DEF A
<1>5. IsFiniteSet(A)
  BY <1>3, EntriesFinite, FS_Subset
<1>6. /\ new \in Seq(A) /\ DOMAIN new = 1 .. Cardinality(A)
      /\ \A i, j \in DOMAIN new : new[i] = new[j] => i = j
      /\ \A e \in A : \E i \in DOMAIN new : new[i] = e
  BY <1>5, ListOfSet
<1> HIDE DEF new
<1>7. \A i \in DOMAIN new : new[i] \in A
  BY <1>6, ListIs
<1>8. \A p : In(new, p) <=> p \in A
  <2>1. \A p : p \in A => In(new, p)
    BY <1>6 DEF In
  <2>2. \A p : In(new, p) => p \in A
    BY <1>7 DEF In
  <2> QED
    BY <2>1, <2>2
<1>9. Distinct(new)
  BY <1>3, <1>6, <1>7, ParticlesAre DEF Distinct, OnePerTag
<1>10. new \in Seq(Entries)
  <2>1. Cardinality(A) \in Nat /\ new \in [1 .. Cardinality(A) -> Entries]
    <3>1. new = [i \in 1 .. Len(new) |-> new[i]] /\ Len(new) \in Nat /\ DOMAIN new = 1 .. Len(new)
      BY <1>6, LenProperties
    <3> QED
      BY <1>3, <1>5, <1>6, <1>7, <3>1, FS_CardinalityType
  <2> QED
    BY <2>1, SeqDef
<1> QED
  BY <1>1, <1>4, <1>8, <1>9, <1>10

\* Communicator::communicate().
LEMMA CommunicateStored ==
  ASSUME Stored, NEW near \in SUBSET Tags, Communicate(near)
  PROVE  Stored' /\ Particles' = Particles
<1> DEFINE list(r) == Stay(r) \o Arrive(r)
           others(r) == { tag \in near : ~ Contains(TagList(list(r)), tag) }
           copies(r) == SetToSeq(others(r))
<1>1. /\ ptls' = [r \in Ranks |-> list(r)]
      /\ ghosts' = [r \in Ranks |-> copies(r)]
      /\ rtag' = [r \in Ranks |-> Numbered(NoIndex, TagList(list(r)) \o copies(r))]
      /\ memberIdx' = [r \in Ranks |-> IndexList(list(r))]
      /\ UNCHANGED size
  BY DEF Communicate
<1>2. ASSUME NEW r \in Ranks
      PROVE  /\ list(r) \in Seq(Entries) /\ Distinct(list(r))
             /\ \A p \in Entries : In(list(r), p) <=> p \in Particles /\ DomainOf(p.place) = r
  <2> DEFINE stay == Stay(r)
             arrive == Arrive(r)
             all == list(r)
  <2>1. ptls[r] \in Seq(Entries) /\ Distinct(ptls[r])
    BY DEF Stored, ArraysAre
  <2>2. /\ stay \in Seq(Entries) /\ Distinct(stay)
        /\ \A p : In(stay, p) <=> In(ptls[r], p) /\ DomainOf(p.place) = r
    <3>1. stay = Picked(ptls[r], Within(r, ptls[r]))
      BY DEF Stay
    <3> HIDE DEF stay
    <3> QED
      BY <2>1, <3>1, WithinIs
  <2>3. /\ arrive \in Seq(Entries) /\ Distinct(arrive)
        /\ \A p : In(arrive, p) <=> \E s \in Ranks : s # r /\ In(ptls[s], p) /\ DomainOf(p.place) = r
    BY ArriveIs
  <2>4. all = stay \o arrive
    OBVIOUS
  <2> HIDE DEF stay, arrive, all
  <2>5. /\ all \in Seq(Entries)
        /\ \A i \in DOMAIN all :
               \/ i \in DOMAIN stay /\ i <= Len(stay) /\ all[i] = stay[i]
               \/ i - Len(stay) \in DOMAIN arrive /\ i > Len(stay) /\ all[i] = arrive[i - Len(stay)]
        /\ \A i \in DOMAIN stay : i \in DOMAIN all /\ all[i] = stay[i]
        /\ \A k \in DOMAIN arrive : Len(stay) + k \in DOMAIN all /\ all[Len(stay) + k] = arrive[k]
    BY <2>2, <2>3, <2>4, JoinedIs
  <2>6. \A p : In(all, p) <=> In(stay, p) \/ In(arrive, p)
    <3>1. ASSUME NEW p, In(all, p) PROVE In(stay, p) \/ In(arrive, p)
      BY <2>5, <3>1 DEF In
    <3>2. ASSUME NEW p, In(stay, p) \/ In(arrive, p) PROVE In(all, p)
      BY <2>5, <3>2 DEF In
    <3> QED
      BY <3>1, <3>2
  <2>7. ASSUME NEW p \in Entries
        PROVE  In(all, p) <=> p \in Particles /\ DomainOf(p.place) = r
    <3>1. p \in Particles <=> \E s \in Ranks : In(ptls[s], p)
      BY DEF Particles, Held
    <3> QED
      BY <2>2, <2>3, <2>6, <3>1
  <2>8. ASSUME NEW p \in Entries, NEW q \in Entries, In(stay, p), In(arrive, q) PROVE p.tag # q.tag
    <3>1. PICK s \in Ranks : s # r /\ In(ptls[s], q)
      BY <2>3, <2>8
    <3>2. In(ptls[r], p)
      BY <2>2, <2>8
    <3>3. p.tag \in TagsOf(ptls[r]) /\ q.tag \in TagsOf(ptls[s])
      BY <3>1, <3>2 DEF TagsOf, In
    <3> QED
      BY <3>1, <3>3 DEF Stored, Whole
  <2>9. ASSUME NEW i \in DOMAIN all, NEW j \in DOMAIN all, all[i].tag = all[j].tag PROVE i = j
    <3>1. \A k \in DOMAIN all : k \in Nat /\ all[k] \in Entries
      BY <2>5, ListIs
    <3>2. CASE i \in DOMAIN stay /\ all[i] = stay[i] /\ j \in DOMAIN stay /\ all[j] = stay[j]
      BY <2>2, <2>9, <3>2 DEF Distinct
    <3>3. CASE i - Len(stay) \in DOMAIN arrive /\ j - Len(stay) \in DOMAIN arrive
               /\ all[i] = arrive[i - Len(stay)] /\ all[j] = arrive[j - Len(stay)]
      <4>1. i - Len(stay) = j - Len(stay)
        BY <2>3, <2>9, <3>3 DEF Distinct
      <4> QED
        BY <2>2, <3>1, <4>1, ListIs
    <3>4. \A k, l \in DOMAIN all :
              k \in DOMAIN stay /\ all[k] = stay[k]
              /\ l - Len(stay) \in DOMAIN arrive /\ all[l] = arrive[l - Len(stay)]
                  => all[k].tag # all[l].tag
      BY <2>8, <3>1 DEF In
    <3> QED
      BY <2>5, <2>9, <3>2, <3>3, <3>4
  <2>10. Distinct(all)
    BY <2>9 DEF Distinct
  <2> QED
    BY <2>5, <2>7, <2>10 DEF all
<1>3. ASSUME NEW r \in Ranks
      PROVE  /\ copies(r) \in Seq(Tags) /\ NoneTwice(copies(r))
             /\ \A k \in DOMAIN copies(r) : copies(r)[k] \notin TagsOf(list(r))
  <2> DEFINE S == others(r)
             new == copies(r)
             all == list(r)
  <2>1. all \in Seq(Entries)
    BY <1>2
  <2>2. S = { tag \in near : ~ Contains(TagList(all), tag) } /\ new = SetToSeq(S)
    OBVIOUS
  <2> HIDE DEF all, S, new
  <2>3. S \subseteq Tags /\ IsFiniteSet(S)
    BY <2>2, ConstantsAre, FS_Subset
  <2>4. /\ new \in Seq(S) /\ \A i, j \in DOMAIN new : new[i] = new[j] => i = j
    BY <2>2, <2>3, ListOfSet
  <2>5. DOMAIN new = 1 .. Len(new) /\ Len(new) \in Nat /\ \A k \in DOMAIN new : new[k] \in S
    BY <2>4, ListIs
  <2>6. new \in Seq(Tags)
    <3>1. new \in [1 .. Len(new) -> Tags]
      BY <2>3, <2>4, <2>5
    <3> QED
      BY <2>5, <3>1, SeqDef
  <2>7. ASSUME NEW tag \in S PROVE tag \notin TagsOf(all)
    <3> DEFINE tags == TagList(all)
    <3>1. DOMAIN tags = DOMAIN all /\ \A i \in DOMAIN all : tags[i] = all[i].tag
      BY <2>1, TagListIs
    <3>2. tags \in Seq(Tags) /\ ~ Contains(tags, tag)
      BY <2>1, <2>2, TagListIs
    <3> HIDE DEF tags
    <3> QED
      BY <3>1, <3>2 DEF Contains, TagsOf
  <2> QED
    BY <2>4, <2>5, <2>6, <2>7 DEF new, all, NoneTwice
<1> HIDE DEF list, copies
<1>4. OnePerTag(Particles)
  BY ParticlesAre
<1>5. \A r \in Ranks : ptls'[r] = list(r) /\ ghosts'[r] = copies(r)
  BY <1>1
<1>6. ByDomain(ptls', Particles)
  BY <1>2, <1>5 DEF ByDomain
<1>7. /\ rtag' = [r \in Ranks |-> Numbered(NoIndex, TagList(ptls'[r]) \o ghosts'[r])]
      /\ memberIdx' = [r \in Ranks |-> IndexList(ptls'[r])]
      /\ ptls' = [r \in Ranks |-> ptls'[r]] /\ ghosts' = [r \in Ranks |-> ghosts'[r]]
  BY <1>1, <1>5
<1>8. \A r \in Ranks : /\ ghosts'[r] \in Seq(Tags) /\ NoneTwice(ghosts'[r])
                       /\ \A k \in DOMAIN ghosts'[r] : ghosts'[r][k] \notin TagsOf(ptls'[r])
  BY <1>3, <1>5
<1>9. Stored' /\ \A p : Held(ptls', p) <=> p \in Particles
  BY <1>1, <1>4, <1>6, <1>7, <1>8, Distributed
<1>10. Ranks' = Ranks
  BY <1>1 DEF Ranks
<1>11. ASSUME NEW p \in Entries PROVE p \in Particles' <=> p \in Particles
  BY <1>9, <1>10 DEF Particles, Held
<1> QED
  BY <1>9, <1>11 DEF Particles

-----------------------------------------------------------------------------
(* Particles from a snapshot.                                               *)

Placed(places) == { Particle(tag, places[tag]) : tag \in Tags }

LEMMA PlacedIs ==
  ASSUME NEW places \in [Tags -> Places]
  PROVE  OnePerTag(Placed(places))
<1>1. ASSUME NEW tag \in Tags
      PROVE  Particle(tag, places[tag]) \in Entries /\ Particle(tag, places[tag]).tag = tag
  BY DEF Entries, Particle
<1> QED
  BY <1>1 DEF OnePerTag, Placed

LEMMA ScatteredIs ==
  ASSUME size \in Sizes, NEW places \in [Tags -> Places], NEW r \in Ranks,
         NEW list, list = Scattered(r, places),
         NEW index, index = Numbered(NoIndex, TagList(list))
  PROVE  /\ ArraysAre(list, <<>>, index, IndexList(list))
         /\ \A p \in Entries : In(list, p) <=> p \in Placed(places) /\ DomainOf(p.place) = r
<1> DEFINE all == [i \in 1..NGlobal |-> Particle(i - 1, places[i - 1])]
<1>1. list = Picked(all, Within(r, all))
  BY DEF Scattered
<1>2. \A i \in 1..NGlobal : all[i] = Particle(i - 1, places[i - 1]) /\ all[i].tag = i - 1
  BY DEF Particle
<1>3. DOMAIN all = 1..NGlobal
  OBVIOUS
<1>4. all \in [1..NGlobal -> Entries]
  <2>1. ASSUME NEW i \in 1..NGlobal PROVE Particle(i - 1, places[i - 1]) \in Entries
    <3>1. i - 1 \in Tags
      BY ConstantsAre DEF Tags
    <3>2. places[i - 1] \in Places
      BY <3>1
    <3> QED
      BY <3>1, <3>2 DEF Entries, Particle
  <2> QED
    BY <2>1
<1> HIDE DEF all
<1>5. all \in Seq(Entries)
  BY <1>4, ConstantsAre, SeqDef
<1>6. Distinct(all)
  BY <1>2, <1>3, ConstantsAre DEF Distinct
<1>7. /\ list \in Seq(Entries) /\ Distinct(list)
      /\ \A p : In(list, p) <=> In(all, p) /\ DomainOf(p.place) = r
  BY <1>1, <1>5, <1>6, WithinIs
<1>8. ASSUME NEW p PROVE In(all, p) <=> p \in Placed(places)
  <2>1. ASSUME NEW i \in DOMAIN all, all[i] = p PROVE p \in Placed(places)
    <3>1. i - 1 \in Tags
      BY <1>3, ConstantsAre DEF Tags
    <3> QED
      BY <1>2, <1>3, <2>1, <3>1 DEF Placed
  <2>2. ASSUME NEW tag \in Tags, p = Particle(tag, places[tag]) PROVE In(all, p)
    <3>1. tag + 1 \in 1..NGlobal /\ (tag + 1) - 1 = tag
      BY ConstantsAre DEF Tags
    <3>2. all[tag + 1] = Particle(tag, places[tag])
      BY <1>2, <3>1
    <3> QED
      BY <1>3, <2>2, <3>1, <3>2 DEF In
  <2> QED
    BY <2>1, <2>2 DEF In, Placed
<1>9. IsLookup(index, list, <<>>)
  BY <1>7, NumberedAlone
<1>10. ArraysAre(list, <<>>, index, IndexList(list))
  <2>1. <<>> \in Seq(Tags) /\ DOMAIN <<>> = {}
    OBVIOUS
  <2> QED
    BY <1>7, <1>9, <2>1 DEF ArraysAre
<1> QED
  BY <1>7, <1>8, <1>10

\* initializeFromSnapshot().
LEMMA ScatterStored ==
  ASSUME Stored, NEW places \in [Tags -> Places], Scatter(places)
  PROVE  Stored' /\ Particles' = Placed(places)
<1>1. Ranks' = Ranks /\ size \in Sizes /\ size' = size
  BY DEF Stored, Ranks, Scatter
<1>2. ASSUME NEW r \in Ranks
      PROVE  /\ ArraysAre(ptls'[r], ghosts'[r], rtag'[r], memberIdx'[r])
             /\ \A p \in Entries : In(ptls'[r], p) <=> p \in Placed(places) /\ DomainOf(p.place) = r
  <2> DEFINE list == Scattered(r, places)
             index == Numbered(NoIndex, TagList(list))
  <2>1. ptls'[r] = list /\ ghosts'[r] = <<>> /\ rtag'[r] = index /\ memberIdx'[r] = IndexList(list)
    BY DEF Scatter, Lookup
  <2>2. list = Scattered(r, places)
    OBVIOUS
  <2> HIDE DEF list
  <2>3. index = Numbered(NoIndex, TagList(list))
    OBVIOUS
  <2> HIDE DEF index
  <2>4. /\ ArraysAre(list, <<>>, index, IndexList(list))
        /\ \A p \in Entries : In(list, p) <=> p \in Placed(places) /\ DomainOf(p.place) = r
    BY <1>1, <2>2, <2>3, ScatteredIs
  <2> QED
    BY <2>1, <2>4
<1>3. ByDomain(ptls', Placed(places))
  BY <1>2 DEF ByDomain, ArraysAre
<1>4. Whole(ptls') /\ \A p : Held(ptls', p) <=> p \in Placed(places)
  BY <1>1, <1>3, PlacedIs, DistributedIs
<1>5. /\ ptls' = [r \in Ranks |-> ptls'[r]] /\ ghosts' = [r \in Ranks |-> ghosts'[r]]
      /\ rtag' = [r \in Ranks |-> rtag'[r]] /\ memberIdx' = [r \in Ranks |-> memberIdx'[r]]
  BY DEF Scatter
<1>6. Stored'
  BY <1>1, <1>2, <1>4, <1>5 DEF Stored, Whole
<1>7. Placed(places) \subseteq Entries
  BY PlacedIs DEF OnePerTag
<1> QED
  BY <1>1, <1>4, <1>6, <1>7 DEF Particles, Held

LEMMA InitStored ==
  ASSUME ParticleInit
  PROVE  Stored
<1>1. size \in Sizes
  BY DEF ParticleInit
<1>2. PICK places \in [Tags -> Places] : ptls = [r \in Ranks |-> Scattered(r, places)]
  BY DEF ParticleInit
<1>3. ASSUME NEW r \in Ranks
      PROVE  /\ ArraysAre(ptls[r], ghosts[r], rtag[r], memberIdx[r])
             /\ \A p \in Entries : In(ptls[r], p) <=> p \in Placed(places) /\ DomainOf(p.place) = r
  <2> DEFINE list == ptls[r]
             index == rtag[r]
  <2>1. list = Scattered(r, places) /\ index = Numbered(NoIndex, TagList(list))
    BY <1>2 DEF ParticleInit
  <2>2. ghosts[r] = <<>> /\ memberIdx[r] = IndexList(list)
    BY DEF ParticleInit
  <2> HIDE DEF list, index
  <2>3. /\ ArraysAre(list, <<>>, index, IndexList(list))
        /\ \A p \in Entries : In(list, p) <=> p \in Placed(places) /\ DomainOf(p.place) = r
    BY <1>1, <2>1, ScatteredIs
  <2> QED
    BY <2>2, <2>3 DEF list, index
<1>4. ByDomain(ptls, Placed(places))
  BY <1>3 DEF ByDomain, ArraysAre
<1>5. Whole(ptls)
  BY <1>1, <1>4, PlacedIs, DistributedIs
<1>6. /\ ptls = [r \in Ranks |-> ptls[r]] /\ ghosts = [r \in Ranks |-> ghosts[r]]
      /\ rtag = [r \in Ranks |-> rtag[r]] /\ memberIdx = [r \in Ranks |-> memberIdx[r]]
  BY <1>2 DEF ParticleInit
<1> QED
  BY <1>1, <1>3, <1>5, <1>6 DEF Stored

\* takeSnapshot() gathers what the getters return.
LEMMA GatheredIs ==
  ASSUME Stored
  PROVE  /\ Gathered = [tag \in Tags |-> Get(tag).place]
         /\ Gathered \in [Tags -> Places]
<1>1. ASSUME NEW tag \in Tags
      PROVE  LET list == ptls[FirstWith(tag)]
             IN  list[CHOOSE i \in DOMAIN list : list[i].tag = tag] = Get(tag)
  <2>1. PICK r \in Ranks : tag \in TagsOf(ptls[r])
    BY DEF Stored, Whole
  <2>2. \A s \in Ranks : HasTag(s, tag) <=> s = r
    <3>1. \A s \in Ranks : HasTag(s, tag) <=> tag \in TagsOf(ptls[s])
      BY DEF HasTag, TagsOf
    <3> QED
      BY <2>1, <3>1 DEF Stored, Whole
  <2>3. r <= r
    BY ConstantsAre DEF Stored, Ranks
  <2>4. FirstWith(tag) = r
    BY <2>2, <2>3 DEF FirstWith
  <2> DEFINE list == ptls[r]
             k == CHOOSE i \in DOMAIN list : list[i].tag = tag
  <2>5. k \in DOMAIN list /\ list[k].tag = tag
    BY <2>1 DEF TagsOf
  <2>6. list \in Seq(Entries)
    BY DEF Stored, ArraysAre
  <2>7. list[k] \in Entries
    BY <2>5, <2>6, ListIs
  <2> HIDE DEF k
  <2>8. list[k] \in Particles
    BY <2>5, <2>7 DEF Particles, Held, In
  <2>9. Get(tag) = list[k]
    BY <2>5, <2>8, GetIs
  <2> QED
    BY <2>4, <2>9 DEF k
<1>2. Gathered = [tag \in Tags |-> Get(tag).place]
  BY <1>1 DEF Gathered
<1>3. \A tag \in Tags : Get(tag).place \in Places
  BY GetIs, EntryIs DEF Particles
<1> QED
  BY <1>2, <1>3

\* A single rank has all particles.
LEMMA OnlyRank ==
  ASSUME Stored, size = 1
  PROVE  /\ 0 \in Ranks /\ N(0) = NGlobal
         /\ \A tag \in Tags : rtag[0][tag] \in 0 .. NGlobal - 1
<1> DEFINE list == ptls[0]
           tags == TagList(list)
<1>1. Ranks = {0}
  BY DEF Ranks
<1>2. list \in Seq(Entries) /\ Distinct(list)
  BY <1>1 DEF Stored, ArraysAre
<1>3. /\ tags \in Seq(Tags) /\ DOMAIN tags = DOMAIN list
      /\ \A i \in DOMAIN list : tags[i] = list[i].tag /\ list[i].tag \in Tags
  BY <1>2, TagListIs
<1>4. \A tag \in Tags : tag \in TagsOf(list)
  BY <1>1 DEF Stored, Whole
<1>5. DOMAIN list = 1 .. N(0) /\ N(0) \in Nat
  BY <1>2, ListIs DEF N
<1> HIDE DEF tags
<1>6. tags \in Bijection(1 .. N(0), Tags)
  <2>1. tags \in [1 .. N(0) -> Tags]
    BY <1>3, <1>5, ListIs, LenProperties
  <2>2. \A i, j \in 1 .. N(0) : tags[i] = tags[j] => i = j
    BY <1>2, <1>3, <1>5 DEF Distinct
  <2>3. \A tag \in Tags : \E i \in 1 .. N(0) : tags[i] = tag
    BY <1>3, <1>4, <1>5 DEF TagsOf
  <2> QED
    BY <2>1, <2>2, <2>3 DEF Bijection, Injection, Surjection, IsInjective
<1>7. N(0) = NGlobal
  <2>1. IsFiniteSet(1 .. N(0)) /\ Cardinality(1 .. N(0)) = N(0)
    BY <1>5, FS_Interval
  <2>2. Cardinality(Tags) = NGlobal
    <3>1. 0 \in Int /\ NGlobal - 1 \in Int /\ 0 <= NGlobal - 1 + 1 /\ (NGlobal - 1) - 0 + 1 = NGlobal
      BY ConstantsAre
    <3> QED
      BY <3>1, FS_Interval DEF Tags
  <2> QED
    BY <1>6, <2>1, <2>2, FS_Bijection DEF ExistsBijection
<1>8. \A tag \in Tags : rtag[0][tag] \in 0 .. N(0) - 1
  BY <1>1, <1>4, FoundIs DEF Found
<1> QED
  BY <1>1, <1>7, <1>8

-----------------------------------------------------------------------------
(* The tags of the angles, as those of the bonds in BondData.               *)

AngleTypes ==
    /\ angles \in Seq(ValidAngles)
    /\ angleTags \in Seq(Nat) /\ Len(angleTags) = Len(angles)
    /\ angleRtag \in Seq(Nat \cup {NO_ANGLE}) /\ Len(angleRtag) <= MaxAngles
    /\ deleted \in Seq(Nat)

LookupConsistent ==
    /\ \A i \in 1 .. Len(angleTags) :
           angleTags[i] \in KnownAngles /\ angleRtag[angleTags[i] + 1] = i - 1
    /\ \A tag \in LiveAngles :
           /\ angleRtag[tag + 1] \in 0 .. Len(angleTags) - 1
           /\ angleTags[angleRtag[tag + 1] + 1] = tag

DeletedTagsAreFree ==
    /\ \A i \in 1 .. Len(deleted) : deleted[i] \in KnownAngles \ LiveAngles
    /\ \A tag \in KnownAngles \ LiveAngles : \E i \in 1 .. Len(deleted) : deleted[i] = tag
    /\ \A i, j \in 1 .. Len(deleted) : deleted[i] = deleted[j] => i = j
    /\ Len(angleRtag) = Len(angles) + Len(deleted)

AnglesInv == AngleTypes /\ LookupConsistent /\ DeletedTagsAreFree

LEMMA AngleConstants == MaxAngles \in Nat /\ NO_ANGLE \notin Int
BY AngleDataAssumption

LEMMA SequenceIsFunction ==
  ASSUME NEW S, NEW n \in Nat, NEW f \in [1..n -> S]
  PROVE  f \in Seq(S) /\ Len(f) = n /\ DOMAIN f = 1..n
<1>1. f \in Seq(S)
  BY SeqDef
<1> QED
  BY <1>1, LenProperties


LEMMA Shapes ==
  ASSUME AngleTypes
  PROVE  /\ Len(angles) \in Nat /\ Len(angleRtag) \in Nat /\ Len(deleted) \in Nat
         /\ Len(angleTags) = Len(angles)
         /\ angles \in [1 .. Len(angles) -> ValidAngles]
         /\ angleTags \in [1 .. Len(angles) -> Nat]
         /\ angleRtag \in [1 .. Len(angleRtag) -> Nat \cup {NO_ANGLE}]
         /\ deleted \in [1 .. Len(deleted) -> Nat]
  BY LenProperties, AngleConstants DEF AngleTypes

LEMMA NewTagFree ==
  ASSUME AnglesInv, NEW angle \in Triples, AddAngle(angle, NGlobal)
  PROVE  /\ NewTag \in 0 .. MaxAngles - 1 /\ NewTag \notin LiveAngles
         /\ angleRtag' \in Seq(Nat \cup {NO_ANGLE})
         /\ Len(angleRtag') <= MaxAngles
         /\ KnownAngles' = KnownAngles \cup {NewTag}
         /\ \A tag \in KnownAngles' :
                angleRtag'[tag + 1] = IF tag = NewTag THEN Len(angles) ELSE angleRtag[tag + 1]
         /\ deleted' \in Seq(Nat)
         /\ \A tag \in KnownAngles' :
                (\E i \in 1 .. Len(deleted') : deleted'[i] = tag)
                    <=> tag # NewTag /\ \E i \in 1 .. Len(deleted) : deleted[i] = tag
         /\ \A i \in 1 .. Len(deleted') : deleted'[i] \in KnownAngles
         /\ \A i, j \in 1 .. Len(deleted') : deleted'[i] = deleted'[j] => i = j
         /\ Len(angleRtag') = Len(angles) + 1 + Len(deleted')
<1> USE AngleConstants
<1>1. AngleTypes /\ LookupConsistent /\ DeletedTagsAreFree
  BY DEF AnglesInv
<1>2. /\ Len(angles) \in Nat /\ Len(angles) < MaxAngles
      /\ angleRtag \in Seq(Nat \cup {NO_ANGLE}) /\ Len(angleRtag) \in Nat
      /\ deleted \in Seq(Nat) /\ Len(deleted) \in Nat /\ Len(angleRtag) <= MaxAngles
      /\ DOMAIN deleted = 1 .. Len(deleted)
      /\ Len(angleRtag) = Len(angles) + Len(deleted)
  BY <1>1, Shapes DEF AddAngle, AngleTypes, DeletedTagsAreFree
<1>3. CASE deleted # <<>>
  <2>1. /\ NewTag = Head(deleted) /\ deleted' = Tail(deleted)
        /\ angleRtag' = [angleRtag EXCEPT ![NewTag + 1] = Len(angles)]
    BY <1>3 DEF AddAngle, NewTag
  <2>2. /\ Len(deleted) > 0 /\ Head(deleted) = deleted[1]
        /\ Len(deleted') = Len(deleted) - 1 /\ deleted' \in Seq(Nat)
        /\ 1 .. Len(deleted') = 1 .. Len(deleted) - 1
        /\ \A i \in 1 .. Len(deleted) - 1 : deleted'[i] = deleted[i + 1]
    BY <1>2, <1>3, <2>1, HeadTailProperties, EmptySeq, LenProperties
  <2>3. NewTag \in KnownAngles \ LiveAngles
    BY <1>1, <1>2, <2>1, <2>2 DEF DeletedTagsAreFree
  <2>4. NewTag \in 0 .. MaxAngles - 1 /\ NewTag \notin LiveAngles
    BY <1>2, <2>3 DEF KnownAngles
  <2>5. /\ Len(angleRtag') = Len(angleRtag) /\ angleRtag' \in Seq(Nat \cup {NO_ANGLE})
        /\ \A i \in 1 .. Len(angleRtag) : angleRtag'[i] = IF i = NewTag + 1 THEN Len(angles) ELSE angleRtag[i]
    BY <1>2, <2>1, <2>3, ExceptSeq DEF KnownAngles
  <2>6. KnownAngles' = KnownAngles /\ KnownAngles = KnownAngles \cup {NewTag}
    BY <2>5, <2>3 DEF KnownAngles
  <2>7. \A tag \in KnownAngles' :
            angleRtag'[tag + 1] = IF tag = NewTag THEN Len(angles) ELSE angleRtag[tag + 1]
    BY <1>2, <2>5, <2>6, <2>3 DEF KnownAngles
  <2>8. \A i \in 1 .. Len(deleted) : deleted[i] \in KnownAngles \ LiveAngles
    BY <1>1, <1>2 DEF DeletedTagsAreFree
  <2>9. \A i, j \in 1 .. Len(deleted) : deleted[i] = deleted[j] => i = j
    BY <1>1, <1>2 DEF DeletedTagsAreFree
  <2>10. /\ \A i \in 1 .. Len(deleted') : deleted'[i] \in KnownAngles /\ deleted'[i] # NewTag
         /\ \A i, j \in 1 .. Len(deleted') : deleted'[i] = deleted'[j] => i = j
    BY <1>2, <2>1, <2>2, <2>8, <2>9
  <2>11. \A tag \in KnownAngles' :
            (\E i \in 1 .. Len(deleted') : deleted'[i] = tag)
                <=> tag # NewTag /\ \E i \in 1 .. Len(deleted) : deleted[i] = tag
    <3>1. TAKE tag \in KnownAngles'
    <3>2. ASSUME NEW i \in 1 .. Len(deleted'), deleted'[i] = tag
          PROVE  tag # NewTag /\ \E k \in 1 .. Len(deleted) : deleted[k] = tag
      <4>1. i + 1 \in 1 .. Len(deleted) /\ deleted[i + 1] = tag
        <5>1. i \in 1 .. Len(deleted) - 1
          BY <2>2
        <5>2. i + 1 \in 1 .. Len(deleted)
          BY <1>2, <5>1
        <5> QED
          BY <2>2, <3>2, <5>1, <5>2
      <4> QED
        BY <4>1, <3>2, <2>10
    <3>3. ASSUME tag # NewTag, NEW i \in 1 .. Len(deleted), deleted[i] = tag
          PROVE  \E k \in 1 .. Len(deleted') : deleted'[k] = tag
      <4>1. i # 1
        BY <3>3, <2>1, <2>2
      <4>2. i - 1 \in 1 .. Len(deleted') /\ deleted'[i - 1] = tag
        BY <1>2, <2>2, <3>3, <4>1
      <4> QED
        BY <4>2
    <3> QED
      BY <3>2, <3>3
  <2>12. Len(angleRtag') <= MaxAngles /\ Len(angleRtag') = Len(angles) + 1 + Len(deleted')
    BY <1>2, <2>2, <2>5
  <2>13. KnownAngles' = KnownAngles \cup {NewTag} /\ \A i \in 1 .. Len(deleted') : deleted'[i] \in KnownAngles
    BY <2>6, <2>10
  <2> QED
    BY <2>2, <2>4, <2>5, <2>7, <2>10, <2>11, <2>12, <2>13
<1>4. CASE deleted = <<>>
  <2>1. /\ NewTag = Len(angles) /\ deleted' = deleted
        /\ angleRtag' = Append(angleRtag, Len(angles))
    BY <1>4 DEF AddAngle, NewTag
  <2>2. Len(deleted) = 0 /\ DOMAIN deleted = {} /\ Len(angleRtag) = Len(angles)
    BY <1>2, <1>4, EmptySeq
  <2>3. /\ Len(angleRtag') = Len(angleRtag) + 1 /\ angleRtag' \in Seq(Nat \cup {NO_ANGLE})
        /\ \A i \in 1 .. Len(angleRtag) : angleRtag'[i] = angleRtag[i]
        /\ angleRtag'[Len(angleRtag) + 1] = Len(angles)
    BY <1>2, <2>1, AppendProperties
  <2>4. NewTag \in 0 .. MaxAngles - 1 /\ NewTag \notin LiveAngles
    BY <1>2, <2>1, <2>2 DEF LiveAngles, KnownAngles
  <2>5. KnownAngles' = KnownAngles \cup {NewTag}
    BY <1>2, <2>1, <2>2, <2>3 DEF KnownAngles
  <2>6. \A tag \in KnownAngles' :
            angleRtag'[tag + 1] = IF tag = NewTag THEN Len(angles) ELSE angleRtag[tag + 1]
    BY <1>2, <2>1, <2>2, <2>3, <2>5 DEF KnownAngles
  <2>7. /\ deleted' \in Seq(Nat) /\ Len(deleted') = 0
        /\ 1 .. Len(deleted) = {} /\ 1 .. Len(deleted') = {}
    BY <1>2, <2>1, <2>2
  <2>8. Len(angleRtag') <= MaxAngles /\ Len(angleRtag') = Len(angles) + 1 + Len(deleted')
    BY <1>2, <2>2, <2>3, <2>7
  <2> QED
    BY <2>3, <2>4, <2>5, <2>6, <2>7, <2>8
<1> QED
  BY <1>3, <1>4

LEMMA AddAngleKeeps ==
  ASSUME AnglesInv, NEW angle \in Triples, AddAngle(angle, NGlobal)
  PROVE  AnglesInv' /\ LiveAngles' = LiveAngles \cup {NewTag}
         /\ \A tag \in LiveAngles' :
                AngleOf'[tag] = IF tag = NewTag THEN angle ELSE AngleOf[tag]
<1> USE AngleConstants
<1>1. AngleTypes /\ LookupConsistent /\ DeletedTagsAreFree
  BY DEF AnglesInv
<1>2. /\ Len(angles) \in Nat /\ Len(angleRtag) \in Nat /\ Len(angleTags) = Len(angles)
      /\ angles \in Seq(ValidAngles) /\ angleTags \in Seq(Nat)
  BY <1>1, Shapes DEF AngleTypes
<1> DEFINE n == Len(angles)
<1>3. /\ NewTag \in 0 .. MaxAngles - 1 /\ NewTag \notin LiveAngles
      /\ KnownAngles' = KnownAngles \cup {NewTag}
      /\ \A tag \in KnownAngles' : angleRtag'[tag + 1] = IF tag = NewTag THEN n ELSE angleRtag[tag + 1]
  BY NewTagFree
<1>4. NewTag \in Nat /\ angle \in ValidAngles
  BY <1>3 DEF AddAngle, ValidAngles
<1>5. /\ angles' \in Seq(ValidAngles) /\ Len(angles') = n + 1
      /\ \A i \in 1..n : angles'[i] = angles[i]
      /\ angles'[n + 1] = angle
  BY <1>2, <1>4, AppendProperties DEF AddAngle
<1>6. /\ angleTags' \in Seq(Nat) /\ Len(angleTags') = n + 1
      /\ \A i \in 1..n : angleTags'[i] = angleTags[i]
      /\ angleTags'[n + 1] = NewTag
  BY <1>2, <1>4, AppendProperties DEF AddAngle
<1>7. LiveAngles' = LiveAngles \cup {NewTag}
  BY <1>2, <1>3 DEF LiveAngles
<1>8. \A tag \in LiveAngles : angleRtag[tag + 1] \in 0 .. n - 1 /\ angleTags[angleRtag[tag + 1] + 1] = tag
  BY <1>1, <1>2 DEF LookupConsistent
<1>9. AngleTypes'
  <2>2. angleRtag' \in Seq(Nat \cup {NO_ANGLE}) /\ deleted' \in Seq(Nat) /\ Len(angleRtag') <= MaxAngles
    BY NewTagFree
  <2> QED
    BY <1>1, <1>5, <1>6, <2>2 DEF AngleTypes
<1>10. LookupConsistent'
  <2>1. \A i \in 1 .. Len(angleTags') : angleTags'[i] \in KnownAngles' /\ angleRtag'[angleTags'[i] + 1] = i - 1
    <3>1. TAKE i \in 1 .. Len(angleTags')
    <3>2. CASE i = n + 1
      <4>1. angleTags'[i] = NewTag
        BY <3>2, <1>6
      <4>2. NewTag \in KnownAngles' /\ angleRtag'[NewTag + 1] = n
        BY <1>3
      <4> QED
        BY <3>2, <4>1, <4>2, <1>2
    <3>3. CASE i \in 1..n
      <4>1. angleTags'[i] = angleTags[i] /\ angleTags[i] \in KnownAngles /\ angleRtag[angleTags[i] + 1] = i - 1
        BY <3>3, <1>1, <1>2, <1>6 DEF LookupConsistent
      <4>2. angleTags[i] \in LiveAngles
        BY <4>1, <3>3 DEF LiveAngles
      <4> QED
        BY <4>1, <4>2, <1>3
    <3> QED
      BY <3>2, <3>3, <1>2, <1>6
  <2>2. \A tag \in LiveAngles' : /\ angleRtag'[tag + 1] \in 0 .. Len(angleTags') - 1
                                 /\ angleTags'[angleRtag'[tag + 1] + 1] = tag
    <3>1. TAKE tag \in LiveAngles'
    <3>2. CASE tag = NewTag
      <4>1. angleRtag'[tag + 1] = n
        BY <3>2, <1>3
      <4> QED
        BY <4>1, <3>2, <1>2, <1>6
    <3>3. CASE tag \in LiveAngles /\ tag # NewTag
      <4>1. angleRtag'[tag + 1] = angleRtag[tag + 1]
        BY <3>3, <1>3 DEF LiveAngles
      <4>2. angleRtag[tag + 1] \in 0 .. n - 1 /\ angleTags[angleRtag[tag + 1] + 1] = tag
        BY <3>3, <1>8
      <4>3. PICK k \in 0 .. n - 1 : k = angleRtag[tag + 1]
        BY <4>2
      <4>4. k + 1 \in 1..n /\ k \in 0 .. (n + 1) - 1
        BY <1>2
      <4>5. angleTags'[k + 1] = angleTags[k + 1]
        BY <4>4, <1>6
      <4> QED
        BY <4>1, <4>2, <4>3, <4>4, <4>5, <1>6
    <3> QED
      BY <3>2, <3>3, <1>7
  <2> QED
    BY <2>1, <2>2 DEF LookupConsistent
<1>11. DeletedTagsAreFree'
  <2>1. \A tag \in KnownAngles' : tag \in LiveAngles' <=> tag = NewTag \/ tag \in LiveAngles
    BY <1>7
  <2>2. \A tag \in KnownAngles' :
            (\E i \in 1 .. Len(deleted') : deleted'[i] = tag)
                <=> tag # NewTag /\ \E i \in 1 .. Len(deleted) : deleted[i] = tag
    BY NewTagFree
  <2>3. \A i \in 1 .. Len(deleted) : deleted[i] \in KnownAngles \ LiveAngles
    BY <1>1 DEF DeletedTagsAreFree
  <2>4. \A tag \in KnownAngles \ LiveAngles : \E i \in 1 .. Len(deleted) : deleted[i] = tag
    BY <1>1 DEF DeletedTagsAreFree
  <2>5. \A i \in 1 .. Len(deleted') : deleted'[i] \in KnownAngles
    BY NewTagFree
  <2>6. \A i \in 1 .. Len(deleted') : deleted'[i] \in KnownAngles' \ LiveAngles'
    BY <2>1, <2>2, <2>3, <2>5, <1>3
  <2>7. \A tag \in KnownAngles' \ LiveAngles' : \E i \in 1 .. Len(deleted') : deleted'[i] = tag
    BY <2>1, <2>2, <2>4, <1>3, <1>7
  <2>8. /\ \A i, j \in 1 .. Len(deleted') : deleted'[i] = deleted'[j] => i = j
        /\ Len(angleRtag') = Len(angles') + Len(deleted')
    BY NewTagFree, <1>5
  <2> QED
    BY <2>6, <2>7, <2>8 DEF DeletedTagsAreFree
<1>13. \A tag \in LiveAngles' : AngleOf'[tag] = IF tag = NewTag THEN angle ELSE AngleOf[tag]
  <2>1. TAKE tag \in LiveAngles'
  <2>2. AngleOf'[tag] = angles'[angleRtag'[tag + 1] + 1]
    BY DEF AngleOf
  <2>3. CASE tag = NewTag
    BY <2>2, <2>3, <1>2, <1>3, <1>5
  <2>4. CASE tag # NewTag /\ tag \in LiveAngles
    <3>1. angleRtag'[tag + 1] = angleRtag[tag + 1] /\ angleRtag[tag + 1] \in 0 .. n - 1
      BY <2>4, <1>3, <1>8 DEF LiveAngles
    <3>2. AngleOf[tag] = angles[angleRtag[tag + 1] + 1]
      BY <2>4 DEF AngleOf
    <3>3. PICK k \in 0 .. n - 1 : k = angleRtag[tag + 1]
      BY <3>1
    <3>4. k + 1 \in 1..n
      BY <1>2
    <3>5. angles'[k + 1] = angles[k + 1]
      BY <3>4, <1>5
    <3> QED
      BY <2>2, <2>4, <3>1, <3>2, <3>3, <3>5
  <2> QED
    BY <2>3, <2>4, <1>7
<1> QED
  BY <1>7, <1>9, <1>10, <1>11, <1>13 DEF AnglesInv

LEMMA HoleFilled ==
  ASSUME NEW S, NEW list \in Seq(S), NEW position \in 1 .. Len(list)
  PROVE  /\ Without(list, position) \in Seq(S)
         /\ Len(Without(list, position)) = Len(list) - 1
         /\ \A i \in 1 .. Len(list) - 1 :
                Without(list, position)[i] = IF i = position THEN list[Len(list)] ELSE list[i]
<1>1. Len(list) \in Nat /\ Len(list) > 0 /\ list \in [1 .. Len(list) -> S]
  BY LenProperties
<1>2. Len(list) - 1 \in Nat /\ Len(list) \in 1 .. Len(list)
  BY <1>1
<1>3. Without(list, position) \in [1 .. Len(list) - 1 -> S]
  BY <1>1, <1>2 DEF Without
<1>4. \A i \in 1 .. Len(list) - 1 :
          Without(list, position)[i] = IF i = position THEN list[Len(list)] ELSE list[i]
  BY DEF Without
<1> QED
  BY <1>2, <1>3, <1>4, SequenceIsFunction

LEMMA RemovedLookup ==
  ASSUME AnglesInv, NEW tag \in KnownAngles, RemoveAngle(tag)
  PROVE  LET n == Len(angles)
             id == angleRtag[tag + 1]
             last == angleTags[n]
         IN  /\ id \in 0 .. n - 1 /\ n \in Nat /\ tag \in LiveAngles
             /\ last \in LiveAngles /\ angleRtag[last + 1] = n - 1
             /\ id < n - 1 => last # tag
             /\ id = n - 1 => last = tag
             /\ angleRtag' \in Seq(Nat \cup {NO_ANGLE}) /\ Len(angleRtag') = Len(angleRtag)
             /\ KnownAngles' = KnownAngles
             /\ \A t \in KnownAngles :
                    angleRtag'[t + 1] = IF t = tag THEN NO_ANGLE
                                   ELSE IF t = last THEN id ELSE angleRtag[t + 1]
<1> DEFINE n == Len(angles)
           id == angleRtag[tag + 1]
           last == angleTags[n]
           reset == [angleRtag EXCEPT ![tag + 1] = NO_ANGLE]
<1> USE AngleConstants
<1>1. AngleTypes /\ LookupConsistent
  BY DEF AnglesInv
<1>2. /\ n \in Nat /\ Len(angleTags) = n /\ Len(angleRtag) \in Nat
      /\ angleRtag \in Seq(Nat \cup {NO_ANGLE}) /\ angleTags \in Seq(Nat)
  BY <1>1, Shapes DEF AngleTypes
<1>3. tag \in LiveAngles /\ tag \in Nat
  BY <1>2 DEF RemoveAngle, LiveAngles, KnownAngles
<1>4. id \in 0 .. n - 1 /\ angleTags[id + 1] = tag
  BY <1>1, <1>2, <1>3 DEF LookupConsistent
<1>5. n \in 1 .. n
  BY <1>2, <1>4
<1>6. last \in KnownAngles /\ angleRtag[last + 1] = n - 1
  BY <1>1, <1>2, <1>5 DEF LookupConsistent
<1>7. last \in LiveAngles
  BY <1>2, <1>6 DEF LiveAngles
<1>8. id < n - 1 => last # tag
  BY <1>2, <1>4, <1>6
<1>9. id = n - 1 => last = tag
  BY <1>2, <1>4
<1>10. tag + 1 \in 1 .. Len(angleRtag) /\ last + 1 \in 1 .. Len(angleRtag)
  <2>1. \A t \in KnownAngles : t + 1 \in 1 .. Len(angleRtag)
    BY <1>2 DEF KnownAngles
  <2>2. tag \in KnownAngles
    BY <1>3 DEF LiveAngles
  <2> HIDE DEF last
  <2> QED
    BY <1>6, <2>1, <2>2
<1>11. /\ reset \in Seq(Nat \cup {NO_ANGLE}) /\ Len(reset) = Len(angleRtag)
       /\ \A i \in 1 .. Len(angleRtag) : reset[i] = IF i = tag + 1 THEN NO_ANGLE ELSE angleRtag[i]
  BY <1>2, <1>10, ExceptSeq
<1> HIDE DEF reset
<1>12. angleRtag' = IF id < n - 1 THEN [reset EXCEPT ![last + 1] = id] ELSE reset
  BY <1>2 DEF RemoveAngle, Removed, reset
<1>13. /\ angleRtag' \in Seq(Nat \cup {NO_ANGLE}) /\ Len(angleRtag') = Len(angleRtag)
       /\ \A i \in 1 .. Len(angleRtag) :
              angleRtag'[i] = IF i = tag + 1 THEN NO_ANGLE
                         ELSE IF i = last + 1 THEN id ELSE angleRtag[i]
  <2>1. CASE id < n - 1
    <3>1. angleRtag' = [reset EXCEPT ![last + 1] = id]
      BY <2>1, <1>12
    <3>2. last + 1 \in 1 .. Len(reset) /\ id \in Nat \cup {NO_ANGLE}
      BY <1>2, <1>4, <1>10, <1>11
    <3>3. /\ [reset EXCEPT ![last + 1] = id] \in Seq(Nat \cup {NO_ANGLE})
          /\ Len([reset EXCEPT ![last + 1] = id]) = Len(reset)
          /\ \A i \in 1 .. Len(reset) :
                 [reset EXCEPT ![last + 1] = id][i] = IF i = last + 1 THEN id ELSE reset[i]
      BY <1>11, <3>2, ExceptSeq
    <3>4. last + 1 # tag + 1
      BY <1>8, <2>1, <1>3, <1>6, <1>2 DEF KnownAngles
    <3> QED
      BY <3>1, <3>3, <3>4, <1>11
  <2>2. CASE id = n - 1
    <3>1. angleRtag' = reset
      BY <2>2, <1>2, <1>12
    <3> QED
      BY <3>1, <2>2, <1>9, <1>11
  <2> QED
    BY <2>1, <2>2, <1>2, <1>4
<1>14. KnownAngles' = KnownAngles
  BY <1>13 DEF KnownAngles
<1>15. \A t \in KnownAngles : t + 1 \in 1 .. Len(angleRtag) /\ (t + 1 = tag + 1 <=> t = tag)
                            /\ (t + 1 = last + 1 <=> t = last)
  <2>1. \A t \in KnownAngles : t + 1 \in 1 .. Len(angleRtag) /\ t \in Nat
    BY <1>2 DEF KnownAngles
  <2>2. tag \in Nat /\ last \in Nat
    BY <1>3, <1>6, <2>1
  <2> HIDE DEF last
  <2> QED
    BY <2>1, <2>2
<1>16. \A t \in KnownAngles :
          angleRtag'[t + 1] = IF t = tag THEN NO_ANGLE
                         ELSE IF t = last THEN id ELSE angleRtag[t + 1]
  BY <1>13, <1>15
<1> QED
  BY <1>2, <1>3, <1>4, <1>6, <1>7, <1>8, <1>9, <1>13, <1>14, <1>16

LEMMA RemoveAngleKeeps ==
  ASSUME AnglesInv, NEW tag \in KnownAngles, RemoveAngle(tag)
  PROVE  AnglesInv' /\ tag \in LiveAngles /\ LiveAngles' = LiveAngles \ {tag}
         /\ \A t \in LiveAngles' : AngleOf'[t] = AngleOf[t]
<1> DEFINE n == Len(angles)
           id == angleRtag[tag + 1]
           last == angleTags[n]
<1> USE AngleConstants
<1>1. AngleTypes /\ LookupConsistent /\ DeletedTagsAreFree
  BY DEF AnglesInv
<1>2. /\ id \in 0 .. n - 1 /\ n \in Nat /\ tag \in LiveAngles
      /\ last \in LiveAngles /\ angleRtag[last + 1] = n - 1
      /\ id < n - 1 => last # tag
      /\ id = n - 1 => last = tag
      /\ angleRtag' \in Seq(Nat \cup {NO_ANGLE}) /\ Len(angleRtag') = Len(angleRtag)
      /\ KnownAngles' = KnownAngles
      /\ \A t \in KnownAngles :
             angleRtag'[t + 1] = IF t = tag THEN NO_ANGLE
                            ELSE IF t = last THEN id ELSE angleRtag[t + 1]
  BY RemovedLookup
<1>3. /\ angles \in Seq(ValidAngles) /\ angleTags \in Seq(Nat) /\ Len(angleTags) = n
      /\ Len(angleRtag) \in Nat /\ id + 1 \in 1..n
      /\ deleted \in Seq(Nat) /\ Len(deleted) \in Nat
  BY <1>1, <1>2, Shapes DEF AngleTypes
<1>4. /\ angles' \in Seq(ValidAngles) /\ Len(angles') = n - 1
      /\ \A i \in 1 .. n - 1 : angles'[i] = IF i = id + 1 THEN angles[n] ELSE angles[i]
  BY <1>3, HoleFilled DEF RemoveAngle
<1>5. /\ angleTags' \in Seq(Nat) /\ Len(angleTags') = n - 1
      /\ \A i \in 1 .. n - 1 : angleTags'[i] = IF i = id + 1 THEN last ELSE angleTags[i]
  <2>1. angleTags' = Without(angleTags, id + 1)
    BY DEF RemoveAngle
  <2>2. id + 1 \in 1 .. Len(angleTags)
    BY <1>3
  <2>3. /\ Without(angleTags, id + 1) \in Seq(Nat)
        /\ Len(Without(angleTags, id + 1)) = Len(angleTags) - 1
        /\ \A i \in 1 .. Len(angleTags) - 1 :
               Without(angleTags, id + 1)[i] = IF i = id + 1 THEN angleTags[Len(angleTags)] ELSE angleTags[i]
    BY <1>3, <2>2, HoleFilled
  <2> QED
    BY <1>3, <2>1, <2>3
<1>6. /\ deleted' \in Seq(Nat) /\ Len(deleted') = Len(deleted) + 1
      /\ deleted'[1] = tag
      /\ \A i \in 2 .. Len(deleted) + 1 : deleted'[i] = deleted[i - 1]
  <2>1. <<tag>> \in Seq(Nat) /\ Len(<<tag>>) = 1 /\ <<tag>>[1] = tag
    BY DEF KnownAngles
  <2>2. /\ deleted' \in Seq(Nat) /\ Len(deleted') = 1 + Len(deleted)
        /\ \A i \in 1 .. 1 + Len(deleted) :
               deleted'[i] = IF i <= 1 THEN <<tag>>[i] ELSE deleted[i - 1]
    BY <1>3, <2>1, ConcatProperties DEF RemoveAngle
  <2>3. 1 \in 1 .. 1 + Len(deleted)
    BY <1>3
  <2>4. deleted'[1] = tag
    BY <2>1, <2>2, <2>3
  <2>5. \A i \in 2 .. Len(deleted) + 1 : i \in 1 .. 1 + Len(deleted) /\ ~ (i <= 1)
    BY <1>3
  <2>6. \A i \in 2 .. Len(deleted) + 1 : deleted'[i] = deleted[i - 1]
    BY <2>2, <2>5
  <2>7. Len(deleted') = Len(deleted) + 1
    BY <1>3, <2>2
  <2> QED
    BY <2>2, <2>4, <2>6, <2>7
<1>7. LiveAngles' = LiveAngles \ {tag}
  <2>1. \A t \in KnownAngles : t # tag => (angleRtag'[t + 1] # NO_ANGLE <=> angleRtag[t + 1] # NO_ANGLE)
    BY <1>2 DEF LiveAngles
  <2> QED
    BY <2>1, <1>2 DEF LiveAngles
<1>8. \A t \in LiveAngles : angleRtag[t + 1] \in 0 .. n - 1 /\ angleTags[angleRtag[t + 1] + 1] = t
  BY <1>1, <1>3 DEF LookupConsistent
<1>9. \A i \in 1..n : angleTags[i] \in KnownAngles /\ angleRtag[angleTags[i] + 1] = i - 1
  BY <1>1, <1>3 DEF LookupConsistent
\* Where the angles that stay are found.
<1>10. \A t \in LiveAngles' : /\ t \in LiveAngles /\ t \in KnownAngles /\ t # tag
                              /\ angleRtag'[t + 1] = IF t = last THEN id ELSE angleRtag[t + 1]
                              /\ angleRtag'[t + 1] \in 0 .. n - 2
                              /\ t = last => id < n - 1
                              /\ t # last => angleRtag[t + 1] # id /\ angleRtag[t + 1] # n - 1
  <2>1. TAKE t \in LiveAngles'
  <2>2. t \in LiveAngles /\ t \in KnownAngles /\ t # tag
    BY <1>7 DEF LiveAngles
  <2>3. angleRtag'[t + 1] = IF t = last THEN id ELSE angleRtag[t + 1]
    BY <2>2, <1>2
  <2>4. angleRtag[t + 1] # id
    BY <2>2, <1>2, <1>8
  <2>5. t # last => angleRtag[t + 1] # n - 1
    BY <2>2, <1>2, <1>8
  <2>6. t = last => id < n - 1
    BY <2>2, <1>2
  <2>7. angleRtag[t + 1] \in 0 .. n - 1
    BY <2>2, <1>8
  <2> QED
    BY <2>2, <2>3, <2>4, <2>5, <2>6, <2>7, <1>2
<1>11. AngleTypes'
  <2> QED
    BY <1>1, <1>2, <1>4, <1>5, <1>6 DEF AngleTypes
<1>12. LookupConsistent'
  <2>1. \A i \in 1 .. Len(angleTags') : angleTags'[i] \in KnownAngles' /\ angleRtag'[angleTags'[i] + 1] = i - 1
    <3>1. TAKE i \in 1 .. Len(angleTags')
    <3>2. i \in 1 .. n - 1 /\ i \in 1..n
      BY <1>2, <1>5
    <3>3. CASE i = id + 1
      <4>1. id < n - 1
        BY <3>2, <3>3, <1>2
      <4>2. last # tag /\ last \in KnownAngles
        BY <4>1, <1>2 DEF LiveAngles
      <4>3. angleTags'[i] = last
        BY <3>2, <3>3, <1>5
      <4>4. angleRtag'[last + 1] = id /\ id = i - 1
        BY <4>2, <3>3, <1>2
      <4> QED
        BY <4>2, <4>3, <4>4, <1>2
    <3>4. CASE i # id + 1
      <4>1. angleTags'[i] = angleTags[i] /\ angleTags[i] \in KnownAngles /\ angleRtag[angleTags[i] + 1] = i - 1
        BY <3>2, <3>4, <1>5, <1>9
      <4>2. angleTags[i] # tag /\ angleTags[i] # last
        BY <3>2, <3>4, <4>1, <1>2
      <4> QED
        BY <4>1, <4>2, <1>2
    <3> QED
      BY <3>3, <3>4
  <2>2. \A t \in LiveAngles' : /\ angleRtag'[t + 1] \in 0 .. Len(angleTags') - 1
                               /\ angleTags'[angleRtag'[t + 1] + 1] = t
    <3>1. TAKE t \in LiveAngles'
    <3>2. PICK k \in 0 .. n - 2 : k = angleRtag'[t + 1]
      BY <1>10
    <3>3. k \in 0 .. Len(angleTags') - 1 /\ k + 1 \in 1 .. n - 1
      BY <1>2, <1>5
    <3>4. angleTags'[k + 1] = t
      <4>1. CASE t = last
        BY <4>1, <3>2, <3>3, <1>5, <1>10
      <4>2. CASE t # last
        <5>1. k = angleRtag[t + 1] /\ k # id
          BY <4>2, <3>2, <1>10
        <5>2. angleTags[k + 1] = t
          BY <5>1, <1>8, <1>10
        <5>3. k + 1 # id + 1
          BY <5>1, <1>2
        <5> QED
          BY <5>2, <5>3, <3>3, <1>5
      <4> QED
        BY <4>1, <4>2
    <3> QED
      BY <3>2, <3>3, <3>4
  <2> QED
    BY <2>1, <2>2 DEF LookupConsistent
<1>13. DeletedTagsAreFree'
  <2>1. \A i \in 1 .. Len(deleted) : deleted[i] \in KnownAngles \ LiveAngles
    BY <1>1 DEF DeletedTagsAreFree
  <2>2. \A i \in 1 .. Len(deleted') : i = 1 \/ (i \in 2 .. Len(deleted) + 1
                                               /\ i - 1 \in 1 .. Len(deleted))
    BY <1>3, <1>6
  <2>3. \A i \in 1 .. Len(deleted') : deleted'[i] \in KnownAngles' \ LiveAngles'
    <3>1. TAKE i \in 1 .. Len(deleted')
    <3>2. CASE i = 1
      BY <3>2, <1>2, <1>6, <1>7
    <3>3. CASE i \in 2 .. Len(deleted) + 1
      <4>1. deleted'[i] = deleted[i - 1]
        BY <3>3, <1>6
      <4>2. i - 1 \in 1 .. Len(deleted)
        BY <3>3, <1>3
      <4>3. deleted[i - 1] \in KnownAngles \ LiveAngles
        BY <4>2, <2>1
      <4> QED
        BY <4>1, <4>3, <1>2, <1>7
    <3> QED
      BY <3>2, <3>3, <2>2
  <2>4. \A t \in KnownAngles' \ LiveAngles' : \E i \in 1 .. Len(deleted') : deleted'[i] = t
    <3>1. TAKE t \in KnownAngles' \ LiveAngles'
    <3>2. CASE t = tag
      <4>1. 1 \in 1 .. Len(deleted')
        BY <1>3, <1>6
      <4> QED
        BY <4>1, <3>2, <1>6
    <3>3. CASE t \in KnownAngles \ LiveAngles
      <4>1. PICK i \in 1 .. Len(deleted) : deleted[i] = t
        BY <3>3, <1>1 DEF DeletedTagsAreFree
      <4>2. i + 1 \in 2 .. Len(deleted) + 1 /\ i + 1 \in 1 .. Len(deleted') /\ (i + 1) - 1 = i
        BY <1>3, <1>6
      <4> QED
        BY <4>1, <4>2, <1>6
    <3> QED
      BY <3>2, <3>3, <1>2, <1>7
  <2>5. \A i, j \in 1 .. Len(deleted') : deleted'[i] = deleted'[j] => i = j
    <3>1. TAKE i, j \in 1 .. Len(deleted')
    <3>2. \A k \in 2 .. Len(deleted) + 1 : k - 1 \in 1 .. Len(deleted) /\ deleted'[k] # tag
      <4>1. TAKE k \in 2 .. Len(deleted) + 1
      <4>2. k - 1 \in 1 .. Len(deleted) /\ deleted'[k] = deleted[k - 1]
        BY <1>3, <1>6
      <4>3. deleted[k - 1] \notin LiveAngles
        BY <4>2, <2>1
      <4> QED
        BY <4>2, <4>3, <1>2
    <3>3. CASE i = 1 \/ j = 1
      BY <3>2, <3>3, <2>2, <1>6
    <3>4. CASE i \in 2 .. Len(deleted) + 1 /\ j \in 2 .. Len(deleted) + 1
      <4>1. deleted'[i] = deleted[i - 1] /\ deleted'[j] = deleted[j - 1]
        BY <3>4, <1>6
      <4>2. deleted[i - 1] = deleted[j - 1] => i - 1 = j - 1
        BY <3>2, <3>4, <1>1 DEF DeletedTagsAreFree
      <4> QED
        BY <4>1, <4>2, <3>4, <1>3
    <3> QED
      BY <3>3, <3>4, <2>2
  <2>6. Len(angleRtag') = Len(angles') + Len(deleted')
    BY <1>1, <1>2, <1>3, <1>4, <1>6 DEF DeletedTagsAreFree
  <2> QED
    BY <2>3, <2>4, <2>5, <2>6 DEF DeletedTagsAreFree
<1>15. \A t \in LiveAngles' : AngleOf'[t] = AngleOf[t]
  <2>1. TAKE t \in LiveAngles'
  <2>2. AngleOf'[t] = angles'[angleRtag'[t + 1] + 1] /\ AngleOf[t] = angles[angleRtag[t + 1] + 1]
    BY <1>10 DEF AngleOf
  <2>3. PICK k \in 0 .. n - 2 : k = angleRtag'[t + 1]
    BY <1>10
  <2>4. k + 1 \in 1 .. n - 1
    BY <1>2
  <2>5. CASE t = last
    <3>1. k = id /\ angleRtag[t + 1] + 1 = n
      BY <2>3, <2>5, <1>2, <1>10
    <3> QED
      BY <2>2, <2>3, <2>4, <3>1, <1>4
  <2>6. CASE t # last
    <3>1. k = angleRtag[t + 1] /\ k # id
      BY <2>3, <2>6, <1>10
    <3>2. k + 1 # id + 1
      BY <3>1, <1>2
    <3>3. angles'[k + 1] = angles[k + 1]
      BY <2>4, <3>2, <1>4
    <3> QED
      BY <2>2, <2>3, <3>1, <3>3
  <2> QED
    BY <2>5, <2>6
<1> QED
  BY <1>2, <1>7, <1>11, <1>12, <1>13, <1>15 DEF AnglesInv

LEMMA FromSnapshotKeeps ==
  ASSUME NEW list \in Seq(ValidAngles), Len(list) <= MaxAngles, NEW wasDirty,
         FromSnapshot(list, wasDirty)
  PROVE  AnglesInv' /\ LiveAngles' = 0 .. Len(list) - 1
         /\ \A tag \in LiveAngles' : AngleOf'[tag] = list[tag + 1]
<1> DEFINE n == Len(list)
           numbers == [i \in 1..n |-> i - 1]
<1> USE AngleConstants
<1>1. n \in Nat /\ DOMAIN list = 1..n
  BY LenProperties
<1>2. /\ angles' = list /\ angleTags' = numbers /\ angleRtag' = numbers /\ deleted' = <<>>
      /\ n <= MaxAngles /\ Len(angles') = n
  BY <1>1 DEF FromSnapshot
<1> HIDE DEF n
<1>3. /\ numbers \in [1..n -> Nat] /\ \A i \in 1..n : numbers[i] = i - 1
  BY <1>1
<1>4. numbers \in Seq(Nat) /\ Len(numbers) = n
  BY <1>1, <1>3, SequenceIsFunction
<1>5. numbers \in Seq(Nat \cup {NO_ANGLE})
  <2>1. numbers \in [1..n -> Nat \cup {NO_ANGLE}]
    BY <1>3
  <2> QED
    BY <1>1, <2>1, SequenceIsFunction
<1> HIDE DEF numbers
<1>6. KnownAngles' = 0 .. n - 1
  BY <1>2, <1>4 DEF KnownAngles
<1>7. \A tag \in 0 .. n - 1 : tag + 1 \in 1..n /\ angleRtag'[tag + 1] = tag /\ angleTags'[tag + 1] = tag
  BY <1>1, <1>2, <1>3
<1>8. LiveAngles' = 0 .. n - 1
  BY <1>6, <1>7 DEF LiveAngles
<1>9. AngleTypes'
  <2>1. deleted' \in Seq(Nat)
    BY <1>2, EmptySeq
  <2> QED
    BY <1>1, <1>2, <1>4, <1>5, <2>1 DEF AngleTypes, ValidAngles, Accepted
<1>10. LookupConsistent'
  <2>1. ASSUME NEW i \in 1 .. Len(angleTags')
        PROVE  angleTags'[i] \in KnownAngles' /\ angleRtag'[angleTags'[i] + 1] = i - 1
    <3>1. i \in 1..n /\ i - 1 \in 0 .. n - 1
      BY <1>1, <1>2, <1>4
    <3>2. angleTags'[i] = i - 1
      BY <3>1, <1>2, <1>3
    <3> QED
      BY <3>1, <3>2, <1>6, <1>7
  <2>2. \A tag \in LiveAngles' : /\ angleRtag'[tag + 1] \in 0 .. Len(angleTags') - 1
                                 /\ angleTags'[angleRtag'[tag + 1] + 1] = tag
    BY <1>2, <1>4, <1>7, <1>8
  <2> QED
    BY <2>1, <2>2 DEF LookupConsistent
<1>11. DeletedTagsAreFree'
  <2>1. Len(deleted') = 0 /\ 1 .. Len(deleted') = {}
    BY <1>2
  <2>2. KnownAngles' \ LiveAngles' = {}
    BY <1>6, <1>8
  <2>3. Len(angleRtag') = Len(angles') + Len(deleted')
    BY <1>1, <1>2, <1>4, <2>1
  <2> QED
    BY <2>1, <2>2, <2>3 DEF DeletedTagsAreFree
<1>12. \A tag \in LiveAngles' : AngleOf'[tag] = list[tag + 1]
  BY <1>2, <1>7, <1>8 DEF AngleOf
<1> QED
  BY <1>8, <1>9, <1>10, <1>11, <1>12 DEF AnglesInv, n

LEMMA AngleInitKeeps ==
  ASSUME AngleInit(NGlobal)
  PROVE  AnglesInv /\ LiveAngles = {}
<1> USE AngleConstants DEF AngleInit
<1>1. Len(<<>>) = 0 /\ 1..0 = {}
  OBVIOUS
<1>2. AngleTypes
  BY <1>1, EmptySeq DEF AngleTypes
<1>3. KnownAngles = {} /\ LiveAngles = {}
  BY <1>1 DEF KnownAngles, LiveAngles
<1>4. LookupConsistent /\ DeletedTagsAreFree
  BY <1>1, <1>3 DEF LookupConsistent, DeletedTagsAreFree
<1> QED
  BY <1>2, <1>3, <1>4 DEF AnglesInv

LEMMA AnglesStay ==
  ASSUME AnglesInv, UNCHANGED <<angles, angleTags, angleRtag, deleted>>
  PROVE  AnglesInv' /\ AngleOf' = AngleOf
<1>1. KnownAngles' = KnownAngles /\ LiveAngles' = LiveAngles /\ ValidAngles' = ValidAngles
  BY DEF KnownAngles, LiveAngles, ValidAngles, Accepted
<1>2. AngleTypes'
  BY <1>1 DEF AnglesInv, AngleTypes
<1>3. LookupConsistent'
  BY <1>1 DEF AnglesInv, LookupConsistent
<1>4. DeletedTagsAreFree'
  BY <1>1 DEF AnglesInv, DeletedTagsAreFree
<1>5. AngleOf' = AngleOf
  BY <1>1 DEF AngleOf
<1> QED
  BY <1>2, <1>3, <1>4, <1>5 DEF AnglesInv

LEMMA AnglesFit ==
  ASSUME AnglesInv
  PROVE  Len(angles) \in Nat /\ Len(angles) <= MaxAngles
BY LenProperties, AngleConstants DEF AnglesInv, AngleTypes, DeletedTagsAreFree

\* A table of angles by index.
Tables == [Tags -> Seq([1..3 -> 0 .. NGlobal - 1])]

LEMMA TableOfIs ==
  ASSUME NEW list \in Seq(ValidAngles), NEW index, \A tag \in Tags : index[tag] \in 0 .. NGlobal - 1
  PROVE  TableOf(list, NGlobal, index) \in Tables
<1> DEFINE resolved == [i \in DOMAIN list |-> [k \in DOMAIN list[i] |-> index[list[i][k]]]]
           members(idx) == { i \in DOMAIN list : \E k \in DOMAIN list[i] : resolved[i][k] = idx }
           E == [1..3 -> 0 .. NGlobal - 1]
<1>1. DOMAIN list = 1 .. Len(list) /\ Len(list) \in Nat
  BY ListIs
<1>2. ASSUME NEW i \in DOMAIN list PROVE resolved[i] \in E
  <2>1. list[i] \in ValidAngles
    BY <1>1, ElementOfSeq
  <2>2. /\ DOMAIN list[i] = 1..3
        /\ \A k \in 1..3 : list[i][k] \in Nat /\ list[i][k] < NGlobal
    BY <2>1, AngleDataAssumption DEF ValidAngles, Accepted
  <2>3. \A k \in 1..3 : list[i][k] \in Tags
    BY <2>2, ConstantsAre DEF Tags
  <2> QED
    BY <2>2, <2>3
<1>3. resolved \in Seq(E) /\ DOMAIN resolved = DOMAIN list
  <2>1. resolved \in [1 .. Len(list) -> E]
    BY <1>1, <1>2
  <2> QED
    BY <1>1, <2>1, SequenceIsFunction
<1>4. TableOf(list, NGlobal, index) = [idx \in 0 .. NGlobal - 1 |-> Picked(resolved, members(idx))]
  BY DEF TableOf
<1> HIDE DEF E, resolved
<1>5. ASSUME NEW idx \in Tags PROVE Picked(resolved, members(idx)) \in Seq(E)
  <2> DEFINE S == members(idx)
  <2>1. S \in SUBSET (DOMAIN resolved)
    BY <1>3
  <2> HIDE DEF S
  <2>2. Picked(resolved, S) \in Seq(E)
    BY <1>3, <2>1, PickedProperties
  <2> QED
    BY <2>2 DEF S
<1> HIDE DEF members
<1> QED
  BY <1>4, <1>5 DEF Tables, Tags, E

-----------------------------------------------------------------------------
(* The members of a group.                                                  *)

LEMMA IndexListIs ==
  ASSUME NEW list \in Seq(Entries), Distinct(list), NEW members, members = IndexList(list)
  PROVE  /\ members \in Seq(0 .. Len(list) - 1)
         /\ \A k \in DOMAIN members :
                members[k] + 1 \in DOMAIN list /\ list[members[k] + 1].tag \in Group
         /\ \A i \in DOMAIN list : list[i].tag \in Group =>
                \E k \in DOMAIN members : members[k] = i - 1
         /\ \A k, l \in DOMAIN members : k < l => members[k] < members[l]
<1> DEFINE n == Len(list)
           all == Indices(n)
           S == { i \in DOMAIN list : list[i].tag \in Group }
<1>1. DOMAIN list = 1 .. n /\ n \in Nat
  BY ListIs
<1>2. members = Picked(all, S)
  BY DEF IndexList
<1> HIDE DEF n
<1>3. all = [i \in 1..n |-> i - 1] /\ all \in [1..n -> 0 .. n - 1]
  BY <1>1 DEF Indices
<1>4. all \in Seq(0 .. n - 1) /\ DOMAIN all = 1..n
  BY <1>1, <1>3, SequenceIsFunction
<1>5. S \in SUBSET (DOMAIN all) /\ \A i \in S : i \in DOMAIN list /\ list[i].tag \in Group /\ i \in Nat
  BY <1>1, <1>4
<1>6. \A i \in DOMAIN list : list[i].tag \in Group => i \in S
  OBVIOUS
<1>7. \A i \in 1..n : all[i] = i - 1
  BY <1>3
<1> HIDE DEF all, S
<1>8. /\ members \in Seq(0 .. n - 1)
      /\ \A k \in DOMAIN members : Nth(S, k) \in S /\ members[k] = all[Nth(S, k)]
      /\ \A i \in S : \E k \in DOMAIN members : members[k] = all[i]
  <2> DEFINE E == 0 .. n - 1
  <2>1. all \in Seq(E) /\ S \in SUBSET (DOMAIN all)
    BY <1>4, <1>5
  <2> HIDE DEF E
  <2>2. /\ members \in Seq(E)
        /\ \A k \in DOMAIN members : Nth(S, k) \in S /\ members[k] = all[Nth(S, k)]
        /\ \A i \in S : \E k \in DOMAIN members : members[k] = all[i]
    BY <1>2, <2>1, PickedProperties
  <2> QED
    BY <2>2 DEF E
<1>9. \A i \in S : all[i] = i - 1 /\ all[i] + 1 = i
  BY <1>1, <1>5, <1>7
<1>10. \A k \in DOMAIN members :
           members[k] + 1 \in DOMAIN list /\ list[members[k] + 1].tag \in Group
  BY <1>5, <1>8, <1>9
<1>11. ASSUME NEW i \in DOMAIN list, list[i].tag \in Group
       PROVE  \E k \in DOMAIN members : members[k] = i - 1
  <2>1. i \in S
    BY <1>6, <1>11
  <2>2. PICK k \in DOMAIN members : members[k] = all[i]
    BY <1>8, <2>1
  <2> QED
    BY <1>9, <2>1, <2>2
<1>12. ASSUME NEW k \in DOMAIN members, NEW l \in DOMAIN members, k < l
       PROVE  members[k] < members[l]
  <2>1. Nth(S, k) < Nth(S, l)
    BY <1>2, <1>4, <1>5, <1>12, PickedInOrder
  <2>2. Nth(S, k) \in S /\ Nth(S, l) \in S
    BY <1>8
  <2>3. members[k] = Nth(S, k) - 1 /\ members[l] = Nth(S, l) - 1
    BY <1>8, <1>9, <2>2
  <2> QED
    BY <1>5, <2>1, <2>2, <2>3
<1> QED
  BY <1>8, <1>10, <1>11, <1>12 DEF n

\* The indices of a group are those of its local members, in order.
LEMMA GroupsAre ==
  ASSUME Stored, ~ overrun
  PROVE  GroupsFollow
<1>1. SUFFICES ASSUME NEW r \in Ranks
               PROVE  /\ { ptls[r][memberIdx[r][i] + 1].tag : i \in DOMAIN memberIdx[r] }
                           = Group \cap { ptls[r][i].tag : i \in DOMAIN ptls[r] }
                      /\ \A i \in 2 .. Len(memberIdx[r]) : memberIdx[r][i - 1] < memberIdx[r][i]
  BY DEF GroupsFollow
<1> DEFINE list == ptls[r]
           members == memberIdx[r]
<1>2. list \in Seq(Entries) /\ Distinct(list) /\ members = IndexList(list)
  BY DEF Stored, ArraysAre
<1> HIDE DEF list, members
<1>3. /\ members \in Seq(0 .. Len(list) - 1)
      /\ \A k \in DOMAIN members :
             members[k] + 1 \in DOMAIN list /\ list[members[k] + 1].tag \in Group
      /\ \A i \in DOMAIN list : list[i].tag \in Group =>
             \E k \in DOMAIN members : members[k] = i - 1
      /\ \A k, l \in DOMAIN members : k < l => members[k] < members[l]
  BY <1>2, IndexListIs
<1>4. DOMAIN members = 1 .. Len(members) /\ Len(members) \in Nat
  BY <1>3, ListIs
<1>5. \A i \in DOMAIN list : i \in Nat
  BY <1>2, ListIs
<1>6. ASSUME NEW tag
      PROVE  tag \in { list[members[i] + 1].tag : i \in DOMAIN members }
                 <=> tag \in Group \cap { list[i].tag : i \in DOMAIN list }
  <2>1. ASSUME NEW i \in DOMAIN list, list[i].tag \in Group
        PROVE  \E k \in DOMAIN members : list[members[k] + 1].tag = list[i].tag
    <3>1. PICK k \in DOMAIN members : members[k] = i - 1
      BY <1>3, <2>1
    <3>2. members[k] + 1 = i
      BY <1>5, <3>1
    <3> QED
      BY <3>2
  <2> QED
    BY <1>3, <2>1
<1>7. ASSUME NEW i \in 2 .. Len(members) PROVE members[i - 1] < members[i]
  <2>1. i - 1 \in DOMAIN members /\ i \in DOMAIN members /\ i - 1 < i
    BY <1>4
  <2> QED
    BY <1>3, <2>1
<1> QED
  BY <1>6, <1>7 DEF list, members

-----------------------------------------------------------------------------
(* What a script sees of the particles.                                     *)

PlaceOf == [tag \in Tags |-> Get(tag).place]

PlacesOf(particles) == [tag \in Tags |-> (CHOOSE p \in particles : p.tag = tag).place]

LEMMA PlaceIs ==
  ASSUME NEW particles, OnePerTag(particles), NEW p \in particles
  PROVE  p.tag \in Tags /\ PlacesOf(particles)[p.tag] = p.place
<1>1. (CHOOSE q \in particles : q.tag = p.tag) = p
  BY DEF OnePerTag
<1>2. p.tag \in Tags
  BY EntryIs DEF OnePerTag
<1> QED
  BY <1>1, <1>2 DEF PlacesOf

LEMMA PlaceOfIs == Stored => PlaceOf = PlacesOf(Particles)
<1> SUFFICES ASSUME Stored PROVE PlaceOf = PlacesOf(Particles)
  OBVIOUS
<1>1. ASSUME NEW tag \in Tags PROVE PlacesOf(Particles)[tag] = Get(tag).place
  <2>1. Get(tag) \in Particles /\ Get(tag).tag = tag
    BY GetIs
  <2> QED
    BY <2>1, ParticlesAre, PlaceIs
<1> QED
  BY <1>1 DEF PlaceOf, PlacesOf

LEMMA PlaceOfNext == Stored' => PlaceOf' = PlacesOf(Particles')
<1>1. (Stored => PlaceOf = PlacesOf(Particles))'
  BY PlaceOfIs, PTL
<1> QED
  BY <1>1 DEF PlacesOf

LEMMA PlaceOfType ==
  ASSUME Stored
  PROVE  PlaceOf \in [Tags -> Places]
BY GatheredIs DEF PlaceOf

LEMMA SetPlaceOf ==
  ASSUME Stored, NEW tag \in Tags, NEW place \in Places, Set(tag, place)
  PROVE  PlaceOf' = [PlaceOf EXCEPT ![tag] = place]
<1> DEFINE after == { p \in Particles : p.tag # tag } \cup { Particle(tag, place) }
<1>1. Stored' /\ Particles' = after
  BY SetStored
<1>2. OnePerTag(Particles)
  BY ParticlesAre
<1>3. /\ Particle(tag, place) \in Entries
      /\ Particle(tag, place).tag = tag /\ Particle(tag, place).place = place
  BY DEF Particle, Entries
<1>4. OnePerTag(after)
  <2>1. \A t \in Tags : \E p \in after : p.tag = t
    BY <1>2, <1>3 DEF OnePerTag
  <2> QED
    BY <1>2, <1>3, <2>1 DEF OnePerTag
<1>5. ASSUME NEW t \in Tags
      PROVE  PlacesOf(after)[t] = IF t = tag THEN place ELSE PlacesOf(Particles)[t]
  <2>1. CASE t = tag
    <3>1. Particle(tag, place) \in after
      OBVIOUS
    <3> HIDE DEF after
    <3> QED
      BY <1>3, <1>4, <2>1, <3>1, PlaceIs
  <2>2. CASE t # tag
    <3>1. PICK p \in Particles : p.tag = t
      BY <1>2 DEF OnePerTag
    <3>2. p \in after
      BY <2>2, <3>1
    <3> HIDE DEF after
    <3>3. PlacesOf(after)[t] = p.place
      BY <1>4, <3>1, <3>2, PlaceIs
    <3>4. PlacesOf(Particles)[t] = p.place
      BY <1>2, <3>1, PlaceIs
    <3> QED
      BY <2>2, <3>3, <3>4
  <2> QED
    BY <2>1, <2>2
<1>6. PlaceOf' = PlacesOf(after) /\ PlaceOf = PlacesOf(Particles)
  BY <1>1, PlaceOfNext, PlaceOfIs
<1> HIDE DEF after
<1> DEFINE f == PlacesOf(after)
           g == PlacesOf(Particles)
<1>7. f = [t \in Tags |-> f[t]] /\ g = [t \in Tags |-> g[t]]
  BY DEF PlacesOf
<1>8. PlaceOf' = f /\ PlaceOf = g /\ \A t \in Tags : f[t] = IF t = tag THEN place ELSE g[t]
  BY <1>5, <1>6
<1> HIDE DEF f, g
<1>9. f = [g EXCEPT ![tag] = place]
  BY <1>7, <1>8
<1> QED
  BY <1>8, <1>9

LEMMA ScatterPlaceOf ==
  ASSUME Stored, NEW places \in [Tags -> Places], Scatter(places)
  PROVE  PlaceOf' = places
<1>1. PlaceOf' = PlacesOf(Placed(places))
  BY ScatterStored, PlaceOfNext
<1>2. ASSUME NEW tag \in Tags PROVE PlacesOf(Placed(places))[tag] = places[tag]
  <2>1. /\ Particle(tag, places[tag]) \in Placed(places)
        /\ Particle(tag, places[tag]).tag = tag /\ Particle(tag, places[tag]).place = places[tag]
    BY DEF Placed, Particle
  <2> DEFINE p == Particle(tag, places[tag])
  <2> HIDE DEF p
  <2>2. p \in Placed(places) /\ p.tag = tag /\ p.place = places[tag]
    BY <2>1 DEF p
  <2> QED
    BY <2>2, PlacedIs, PlaceIs
<1>3. PlacesOf(Placed(places)) = [tag \in Tags |-> places[tag]]
  BY <1>2 DEF PlacesOf
<1> QED
  BY <1>1, <1>3

-----------------------------------------------------------------------------
(* The invariant.                                                           *)

SnapshotStored ==
    /\ snapshot.parts \subseteq Parts
    /\ snapshot.places \in {<<>>} \cup [Tags -> Places]
    /\ "particles" \in snapshot.parts => snapshot.places \in [Tags -> Places]
    /\ snapshot.angles \in Seq(ValidAngles) /\ Len(snapshot.angles) <= MaxAngles

TableStored == dirty \in BOOLEAN /\ table \in Tables

Inv == Stored /\ AnglesInv /\ SnapshotStored /\ TableStored /\ TableCurrent

LEMMA ValidAnglesStay == ValidAngles' = ValidAngles
BY DEF ValidAngles, Accepted

LEMMA SnapshotStays ==
  ASSUME SnapshotStored, UNCHANGED snapshot
  PROVE  SnapshotStored'
BY ValidAnglesStay DEF SnapshotStored

\* The table remains right as long as nothing it depends on changes.
LEMMA OnlyRankNext ==
  Stored' => (size' = 1 => N(0)' = NGlobal /\ \A tag \in Tags : rtag'[0][tag] \in 0 .. NGlobal - 1)
<1>1. Stored => (size = 1 => N(0) = NGlobal /\ \A tag \in Tags : rtag[0][tag] \in 0 .. NGlobal - 1)
  BY OnlyRank
<1>2. (Stored => (size = 1 => N(0) = NGlobal
                              /\ \A tag \in Tags : rtag[0][tag] \in 0 .. NGlobal - 1))'
  BY <1>1, PTL
<1> QED
  BY <1>2

LEMMA TableStays ==
  ASSUME Stored, Stored', TableStored, TableCurrent,
         UNCHANGED <<size, rtag, angles, dirty, table>>
  PROVE  TableStored' /\ TableCurrent'
<1>1. size = 1 => N(0)' = NGlobal /\ N(0) = NGlobal
  BY OnlyRank, OnlyRankNext
<1>2. TableStored'
  BY DEF TableStored, Tables
<1>3. ASSUME size' = 1, angles' # <<>>, ~ dirty' PROVE table' = TableOf(angles', N(0)', rtag'[0])
  <2>1. N(0)' = N(0) /\ table = TableOf(angles, N(0), rtag[0])
    BY <1>1, <1>3 DEF TableCurrent
  <2> QED
    BY <2>1
<1> QED
  BY <1>2, <1>3 DEF TableCurrent

LEMMA TableMarked ==
  ASSUME TableStored, dirty' = TRUE, UNCHANGED table
  PROVE  TableStored' /\ TableCurrent'
BY DEF TableStored, TableCurrent, Tables

LEMMA InitStores == Init => Inv
<1> SUFFICES ASSUME Init PROVE Inv
  OBVIOUS
<1>1. Stored /\ AnglesInv
  BY InitStored, AngleInitKeeps DEF Init
<1>2. SnapshotStored
  <2>1. <<>> \in Seq(ValidAngles) /\ Len(<<>>) = 0
    OBVIOUS
  <2> QED
    BY <2>1, AngleConstants DEF Init, SnapshotStored
<1>3. TableStored /\ TableCurrent
  <2>1. <<>> \in Seq([1..3 -> 0 .. NGlobal - 1])
    OBVIOUS
  <2>2. table \in Tables
    BY <2>1 DEF Init, AngleInit, Tables, Tags
  <2> QED
    BY <2>2 DEF Init, AngleInit, TableStored, TableCurrent
<1> QED
  BY <1>1, <1>2, <1>3 DEF Inv

LEMMA SetParticleKeeps ==
  ASSUME Inv, SetParticle
  PROVE  Inv' /\ AngleOf' = AngleOf /\ State!SetPlace
<1>1. PICK tag \in Movable(size), place \in Places : Set(tag, place)
  BY DEF SetParticle
<1>2. tag \in Tags /\ Stored
  BY ConstantsAre DEF Inv, Stored
<1>3. UNCHANGED <<angleVars, snapshot>> /\ UNCHANGED <<size, rtag>>
  BY <1>1 DEF SetParticle, Set
<1>4. Stored' /\ PlaceOf' = [PlaceOf EXCEPT ![tag] = place]
  BY <1>1, <1>2, SetStored, SetPlaceOf
<1>5. AnglesInv' /\ AngleOf' = AngleOf
  BY <1>3, AnglesStay DEF Inv, angleVars
<1>6. SnapshotStored' /\ TableStored' /\ TableCurrent'
  BY <1>2, <1>3, <1>4, SnapshotStays, TableStays DEF Inv, angleVars
<1>7. State!SetPlace
  BY <1>2, <1>3, <1>4, <1>5 DEF State!SetPlace, PlaceOf
<1> QED
  BY <1>4, <1>5, <1>6, <1>7 DEF Inv

\* Sorting and migration are not seen.
LEMMA SortKeeps ==
  ASSUME Inv, SortParticles
  PROVE  Inv' /\ UNCHANGED State!vars
<1>1. PICK r \in Ranks : \E order \in Orders(N(r)) : Sort(r, order)
  BY DEF SortParticles
<1>2. Stored
  BY DEF Inv
<1>3. dirty' = TRUE /\ UNCHANGED <<angles, angleTags, angleRtag, deleted, table, snapshot>>
  BY DEF SortParticles, NotifyParticleSort, SetDirty
<1>4. Stored' /\ Particles' = Particles
  <2>1. PICK order \in Orders(N(r)) : Sort(r, order)
    BY <1>1
  <2>2. Stored' /\ \A p : Held(ptls', p) <=> Held(ptls, p)
    BY <1>2, <2>1, SortStored
  <2>3. Ranks' = Ranks
    BY <2>1 DEF Sort, Ranks
  <2> QED
    BY <2>2, <2>3 DEF Particles, Held
<1>5. PlaceOf' = PlaceOf
  BY <1>2, <1>4, PlaceOfIs, PlaceOfNext
<1>6. AnglesInv' /\ AngleOf' = AngleOf
  BY <1>3, AnglesStay DEF Inv
<1>7. SnapshotStored' /\ TableStored' /\ TableCurrent'
  BY <1>3, SnapshotStays, TableMarked DEF Inv
<1> QED
  BY <1>3, <1>4, <1>5, <1>6, <1>7 DEF Inv, State!vars, PlaceOf

LEMMA MigrateKeeps ==
  ASSUME Inv, MigrateParticles
  PROVE  Inv' /\ UNCHANGED State!vars
<1>1. PICK near \in {{}, Movable(size)} : Communicate(near)
  BY DEF MigrateParticles
<1>2. Stored /\ near \in SUBSET Tags
  BY ConstantsAre DEF Inv, Stored
<1>3. dirty' = TRUE /\ UNCHANGED <<angles, angleTags, angleRtag, deleted, table, snapshot>>
  BY DEF MigrateParticles, NotifyParticleSort, SetDirty
<1>4. Stored' /\ Particles' = Particles
  BY <1>1, <1>2, CommunicateStored
<1>5. PlaceOf' = PlaceOf
  BY <1>2, <1>4, PlaceOfIs, PlaceOfNext
<1>6. AnglesInv' /\ AngleOf' = AngleOf
  BY <1>3, AnglesStay DEF Inv
<1>7. SnapshotStored' /\ TableStored' /\ TableCurrent'
  BY <1>3, SnapshotStays, TableMarked DEF Inv
<1> QED
  BY <1>3, <1>4, <1>5, <1>6, <1>7 DEF Inv, State!vars, PlaceOf

LEMMA NewAngleKeeps ==
  ASSUME Inv, NewAngle
  PROVE  Inv' /\ PlaceOf' = PlaceOf /\ State!AddAngle
<1>1. size = 1 /\ Stored /\ AnglesInv
  BY DEF NewAngle, Inv
<1>2. PICK angle \in Triples : AddAngle(angle, NGlobal)
  BY <1>1, OnlyRank DEF NewAngle
<1>3. UNCHANGED <<size, ptls, ghosts, rtag, memberIdx, snapshot>>
  BY DEF NewAngle, particleVars
<1>4. /\ AnglesInv' /\ LiveAngles' = LiveAngles \cup {NewTag}
      /\ \A tag \in LiveAngles' : AngleOf'[tag] = IF tag = NewTag THEN angle ELSE AngleOf[tag]
  BY <1>1, <1>2, AddAngleKeeps
<1>5. NewTag \in (0 .. MaxAngles - 1) \ LiveAngles /\ angle \in ValidAngles
  BY <1>1, <1>2, NewTagFree DEF AddAngle, ValidAngles
<1>6. Stored' /\ Particles' = Particles
  BY <1>1, <1>3 DEF Stored, Particles, Held, Whole, Ranks
<1>7. PlaceOf' = PlaceOf
  BY <1>1, <1>6, PlaceOfIs, PlaceOfNext
<1>8. dirty' = TRUE /\ UNCHANGED table
  BY <1>2 DEF AddAngle
<1>9. SnapshotStored' /\ TableStored' /\ TableCurrent'
  BY <1>3, <1>8, SnapshotStays, TableMarked DEF Inv
<1>10. State!AddAngle
  <2>1. DOMAIN AngleOf = LiveAngles /\ AngleOf' = [t \in LiveAngles' |-> AngleOf'[t]]
    BY DEF AngleOf
  <2>2. AngleOf' = [t \in LiveAngles \cup {NewTag} |-> IF t = NewTag THEN angle ELSE AngleOf[t]]
    BY <1>4, <2>1
  <2> QED
    BY <1>3, <1>5, <1>7, <2>1, <2>2 DEF State!AddAngle, State!InUse, PlaceOf
<1> QED
  BY <1>4, <1>6, <1>7, <1>9, <1>10 DEF Inv

LEMMA DeleteAngleKeeps ==
  ASSUME Inv, DeleteAngle
  PROVE  Inv' /\ PlaceOf' = PlaceOf /\ State!RemoveAngle
<1>1. Stored /\ AnglesInv
  BY DEF Inv
<1>2. PICK tag \in KnownAngles : RemoveAngle(tag)
  BY DEF DeleteAngle, KnownAngles
<1>3. UNCHANGED <<size, ptls, ghosts, rtag, memberIdx, snapshot>>
  BY DEF DeleteAngle, particleVars
<1>4. /\ AnglesInv' /\ tag \in LiveAngles /\ LiveAngles' = LiveAngles \ {tag}
      /\ \A t \in LiveAngles' : AngleOf'[t] = AngleOf[t]
  BY <1>1, <1>2, RemoveAngleKeeps
<1>5. Stored' /\ Particles' = Particles
  BY <1>1, <1>3 DEF Stored, Particles, Held, Whole, Ranks
<1>6. PlaceOf' = PlaceOf
  BY <1>1, <1>5, PlaceOfIs, PlaceOfNext
<1>7. dirty' = TRUE /\ UNCHANGED table
  BY <1>2 DEF RemoveAngle
<1>8. SnapshotStored' /\ TableStored' /\ TableCurrent'
  BY <1>3, <1>7, SnapshotStays, TableMarked DEF Inv
<1>9. State!RemoveAngle
  <2>1. DOMAIN AngleOf = LiveAngles /\ AngleOf' = [t \in LiveAngles' |-> AngleOf'[t]]
    BY DEF AngleOf
  <2>2. AngleOf' = [t \in LiveAngles \ {tag} |-> AngleOf[t]]
    BY <1>4, <2>1
  <2> QED
    BY <1>3, <1>4, <1>6, <2>1, <2>2 DEF State!RemoveAngle, State!InUse, PlaceOf
<1> QED
  BY <1>4, <1>5, <1>6, <1>8, <1>9 DEF Inv

LEMMA ComputeKeeps ==
  ASSUME Inv, ComputeAngles
  PROVE  Inv' /\ UNCHANGED State!vars
<1>1. size = 1 /\ Stored /\ AnglesInv /\ TableStored /\ TableCurrent
  BY DEF ComputeAngles, Inv
<1>2. /\ table' = IF dirty THEN TableOf(angles, N(0), rtag[0]) ELSE table
      /\ dirty' = FALSE
      /\ UNCHANGED <<angles, angleTags, angleRtag, deleted>>
      /\ UNCHANGED <<size, ptls, ghosts, rtag, memberIdx, snapshot>>
  BY DEF ComputeAngles, GetAngleList, particleVars
<1>3. Stored' /\ Particles' = Particles
  BY <1>1, <1>2 DEF Stored, Particles, Held, Whole, Ranks
<1>4. PlaceOf' = PlaceOf
  BY <1>1, <1>3, PlaceOfIs, PlaceOfNext
<1>5. AnglesInv' /\ AngleOf' = AngleOf
  BY <1>1, <1>2, AnglesStay
<1>6. N(0) = NGlobal /\ \A tag \in Tags : rtag[0][tag] \in 0 .. NGlobal - 1
  BY <1>1, OnlyRank
<1>7. TableStored'
  <2>1. TableOf(angles, N(0), rtag[0]) \in Tables
    BY <1>1, <1>6, TableOfIs DEF AnglesInv, AngleTypes
  <2> QED
    BY <1>1, <1>2, <2>1 DEF TableStored, Tables
<1>8. TableCurrent'
  <2>1. N(0)' = N(0) /\ rtag'[0] = rtag[0] /\ angles' = angles
    BY <1>2 DEF N
  <2>2. angles # <<>> => table' = TableOf(angles, N(0), rtag[0])
    BY <1>1, <1>2 DEF TableCurrent
  <2> QED
    BY <2>1, <2>2 DEF TableCurrent
<1>9. SnapshotStored'
  BY <1>2, SnapshotStays DEF Inv
<1> QED
  BY <1>2, <1>3, <1>4, <1>5, <1>7, <1>8, <1>9 DEF Inv, State!vars, PlaceOf

\* takeSnapshot(), which lists the angles in the order of the arrays.
LEMMA ListingIs ==
  ASSUME AnglesInv
  PROVE  /\ angleTags \in State!Listings(LiveAngles)
         /\ angles = [i \in DOMAIN angleTags |-> AngleOf[angleTags[i]]]
<1> DEFINE n == Len(angles)
<1>1. AngleTypes /\ LookupConsistent
  BY DEF AnglesInv
<1>2. /\ n \in 0..MaxAngles /\ n \in Nat /\ Len(angleTags) = n
      /\ angleTags \in [1..n -> Nat] /\ DOMAIN angleTags = 1..n
      /\ angles = [i \in 1..n |-> angles[i]]
  <2>1. angles \in Seq(ValidAngles) /\ angleTags \in Seq(Nat) /\ Len(angleTags) = n
    BY <1>1 DEF AngleTypes
  <2>2. n \in Nat /\ n <= MaxAngles
    BY AnglesFit
  <2>3. angles \in [1..n -> ValidAngles] /\ angleTags \in [1 .. Len(angleTags) -> Nat]
    BY <2>1, LenProperties
  <2> QED
    BY <2>1, <2>2, <2>3, AngleConstants
<1> HIDE DEF n
<1>3. \A i \in 1..n : angleTags[i] \in LiveAngles /\ angleRtag[angleTags[i] + 1] = i - 1
  BY <1>1, <1>2, AngleConstants DEF LookupConsistent, LiveAngles
<1>4. angleTags \in [1..n -> LiveAngles]
  BY <1>2, <1>3
<1>5. ASSUME NEW tag \in LiveAngles PROVE \E i \in 1..n : angleTags[i] = tag
  <2>1. angleRtag[tag + 1] \in 0 .. n - 1 /\ angleTags[angleRtag[tag + 1] + 1] = tag
    BY <1>1, <1>2 DEF LookupConsistent
  <2>2. angleRtag[tag + 1] + 1 \in 1..n
    BY <1>2, <2>1
  <2> QED
    BY <2>1, <2>2
<1>6. \A i, j \in 1..n : angleTags[i] = angleTags[j] => i = j
  BY <1>3
<1>7. angleTags \in State!Listings(LiveAngles)
  BY <1>2, <1>4, <1>5, <1>6 DEF State!Listings
<1>8. \A i \in 1..n : AngleOf[angleTags[i]] = angles[i]
  <2>1. ASSUME NEW i \in 1..n PROVE AngleOf[angleTags[i]] = angles[i]
    <3>1. AngleOf[angleTags[i]] = angles[angleRtag[angleTags[i] + 1] + 1]
      BY <1>3 DEF AngleOf
    <3>2. angleRtag[angleTags[i] + 1] + 1 = i
      BY <1>2, <1>3
    <3> QED
      BY <3>1, <3>2
  <2> QED
    BY <2>1
<1> QED
  BY <1>2, <1>7, <1>8

LEMMA TakeSnapshotKeeps ==
  ASSUME Inv, NEW parts \in SUBSET Parts, TakeSnapshot(parts)
  PROVE  Inv' /\ State!Save
<1>1. Stored /\ AnglesInv /\ TableStored /\ TableCurrent
  BY DEF Inv
<1>2. /\ snapshot' = [ parts |-> parts,
                       places |-> IF "particles" \in parts THEN Gathered ELSE <<>>,
                       angles |-> IF "angles" \in parts THEN angles ELSE <<>> ]
      /\ UNCHANGED <<size, ptls, ghosts, rtag, memberIdx>>
      /\ UNCHANGED <<angles, angleTags, angleRtag, deleted, dirty, table>>
  BY DEF TakeSnapshot, particleVars, angleVars
<1>3. Stored' /\ Particles' = Particles
  BY <1>1, <1>2 DEF Stored, Particles, Held, Whole, Ranks
<1>4. PlaceOf' = PlaceOf
  BY <1>1, <1>3, PlaceOfIs, PlaceOfNext
<1>5. AnglesInv' /\ AngleOf' = AngleOf
  BY <1>1, <1>2, AnglesStay
<1>6. TableStored' /\ TableCurrent'
  BY <1>1, <1>2, <1>3, TableStays
<1>7. Gathered = PlaceOf /\ PlaceOf \in [Tags -> Places]
  BY <1>1, GatheredIs DEF PlaceOf
<1>8. SnapshotStored'
  <2>1. angles \in Seq(ValidAngles) /\ Len(angles) <= MaxAngles
    BY <1>1, AnglesFit DEF AnglesInv, AngleTypes
  <2>2. <<>> \in Seq(ValidAngles) /\ Len(<<>>) <= MaxAngles
    BY AngleConstants
  <2> QED
    BY <1>2, <1>7, <2>1, <2>2, ValidAnglesStay DEF SnapshotStored
<1>9. State!Save
  <2>1. DOMAIN AngleOf = LiveAngles
    BY DEF AngleOf
  <2>2. /\ angleTags \in State!Listings(LiveAngles)
        /\ angles = [i \in DOMAIN angleTags |-> AngleOf[angleTags[i]]]
    BY <1>1, ListingIs
  <2>3. snapshot' = [ parts |-> parts,
                      places |-> IF "particles" \in parts THEN PlaceOf ELSE <<>>,
                      angles |-> IF "angles" \in parts
                                 THEN [i \in DOMAIN angleTags |-> AngleOf[angleTags[i]]] ELSE <<>> ]
    BY <1>2, <1>7, <2>2
  <2> QED
    BY <1>4, <1>5, <2>1, <2>2, <2>3 DEF State!Save, State!InUse, PlaceOf, Parts
<1> QED
  BY <1>3, <1>5, <1>6, <1>8, <1>9 DEF Inv

\* What restoring the particles does to them, and what not restoring them leaves.
LEMMA RestoredParticles ==
  ASSUME Stored, SnapshotStored, InitializeFromSnapshot
  PROVE  /\ Stored'
         /\ PlaceOf' = IF "particles" \in snapshot.parts THEN snapshot.places ELSE PlaceOf
         /\ "particles" \notin snapshot.parts => UNCHANGED <<size, rtag>>
<1>1. CASE "particles" \in snapshot.parts
  <2>1. snapshot.places \in [Tags -> Places] /\ Scatter(snapshot.places)
    BY <1>1 DEF SnapshotStored, InitializeFromSnapshot
  <2>2. Stored' /\ PlaceOf' = snapshot.places
    BY <2>1, ScatterStored, ScatterPlaceOf
  <2> QED
    BY <1>1, <2>2
<1>2. CASE "particles" \notin snapshot.parts
  <2>1. UNCHANGED <<size, ptls, ghosts, rtag, memberIdx>>
    BY <1>2 DEF InitializeFromSnapshot, particleVars
  <2>2. Stored' /\ Particles' = Particles
    BY <2>1 DEF Stored, Particles, Held, Whole, Ranks
  <2>3. PlaceOf' = PlaceOf
    BY <2>2, PlaceOfIs, PlaceOfNext
  <2> QED
    BY <1>2, <2>1, <2>2, <2>3
<1> QED
  BY <1>1, <1>2

\* The same of the angles, and of the flag of their table.
LEMMA RestoredAngles ==
  ASSUME AnglesInv, SnapshotStored, dirty \in BOOLEAN, InitializeFromSnapshot
  PROVE  /\ AnglesInv'
         /\ AngleOf' = IF "angles" \in snapshot.parts
                       THEN [tag \in 0 .. Len(snapshot.angles) - 1 |-> snapshot.angles[tag + 1]]
                       ELSE AngleOf
         /\ UNCHANGED table /\ dirty' \in BOOLEAN
         /\ \/ dirty' = TRUE
            \/ angles' = <<>>
            \/ "particles" \notin snapshot.parts /\ UNCHANGED <<angles, dirty>>
<1> DEFINE particles == "particles" \in snapshot.parts
           list == snapshot.angles
<1>1. CASE "angles" \in snapshot.parts
  <2>1. list \in Seq(ValidAngles) /\ Len(list) <= MaxAngles /\ FromSnapshot(list, dirty \/ particles)
    BY <1>1 DEF SnapshotStored, InitializeFromSnapshot
  <2> DEFINE wasDirty == dirty \/ particles
  <2>2. /\ angles' = list /\ UNCHANGED table
        /\ dirty' = (wasDirty \/ list # <<>>)
    BY <2>1 DEF FromSnapshot
  <2> HIDE DEF list, wasDirty
  <2>3. /\ AnglesInv' /\ LiveAngles' = 0 .. Len(list) - 1
        /\ \A tag \in LiveAngles' : AngleOf'[tag] = list[tag + 1]
    BY <2>1, FromSnapshotKeeps DEF wasDirty
  <2>4. AngleOf' = [tag \in LiveAngles' |-> AngleOf'[tag]]
    BY DEF AngleOf
  <2>5. AngleOf' = [tag \in 0 .. Len(list) - 1 |-> list[tag + 1]]
    BY <2>3, <2>4
  <2>6. dirty' \in BOOLEAN
    BY <2>2
  <2>7. dirty' = TRUE \/ angles' = <<>>
    BY <2>2
  <2> QED
    BY <1>1, <2>2, <2>3, <2>5, <2>6, <2>7 DEF list
<1>2. CASE "angles" \notin snapshot.parts
  <2>1. /\ UNCHANGED <<angles, angleTags, angleRtag, deleted, table>>
        /\ dirty' = TRUE \/ (~ particles /\ UNCHANGED dirty)
    BY <1>2 DEF InitializeFromSnapshot, NotifyParticleSort, SetDirty, angleVars
  <2>2. AnglesInv' /\ AngleOf' = AngleOf
    BY <2>1, AnglesStay
  <2> QED
    BY <1>2, <2>1, <2>2
<1> QED
  BY <1>1, <1>2

LEMMA InitializeKeeps ==
  ASSUME Inv, InitializeFromSnapshot
  PROVE  Inv' /\ State!Restore
<1>1. Stored /\ AnglesInv /\ SnapshotStored /\ TableStored /\ TableCurrent /\ dirty \in BOOLEAN
  BY DEF Inv, TableStored
<1>2. UNCHANGED snapshot
  BY DEF InitializeFromSnapshot
<1>3. /\ Stored'
      /\ PlaceOf' = IF "particles" \in snapshot.parts THEN snapshot.places ELSE PlaceOf
      /\ "particles" \notin snapshot.parts => UNCHANGED <<size, rtag>>
  BY <1>1, RestoredParticles
<1>4. /\ AnglesInv'
      /\ AngleOf' = IF "angles" \in snapshot.parts
                    THEN [tag \in 0 .. Len(snapshot.angles) - 1 |-> snapshot.angles[tag + 1]]
                    ELSE AngleOf
      /\ UNCHANGED table /\ dirty' \in BOOLEAN
      /\ \/ dirty' = TRUE
         \/ angles' = <<>>
         \/ "particles" \notin snapshot.parts /\ UNCHANGED <<angles, dirty>>
  BY <1>1, RestoredAngles
<1>5. SnapshotStored'
  BY <1>1, <1>2, SnapshotStays
<1>6. TableStored' /\ TableCurrent'
  <2>1. CASE dirty' = TRUE
    BY <1>1, <1>4, <2>1, TableMarked
  <2>2. CASE angles' = <<>>
    BY <1>1, <1>4, <2>2 DEF TableStored, Tables, TableCurrent
  <2>3. CASE "particles" \notin snapshot.parts /\ UNCHANGED <<angles, dirty>>
    BY <1>1, <1>3, <1>4, <2>3, TableStays
  <2> QED
    BY <1>4, <2>1, <2>2, <2>3
<1>7. State!Restore
  BY <1>2, <1>3, <1>4 DEF State!Restore, PlaceOf
<1> QED
  BY <1>3, <1>4, <1>5, <1>6, <1>7 DEF Inv

LEMMA StutterKeeps ==
  ASSUME Inv, UNCHANGED vars
  PROVE  Inv' /\ UNCHANGED State!vars
<1>1. Stored /\ AnglesInv /\ SnapshotStored /\ TableStored /\ TableCurrent
  BY DEF Inv
<1>2. /\ UNCHANGED <<size, ptls, ghosts, rtag, memberIdx, snapshot>>
      /\ UNCHANGED <<angles, angleTags, angleRtag, deleted, dirty, table>>
  BY DEF vars, particleVars, angleVars
<1>3. Stored' /\ Particles' = Particles
  BY <1>1, <1>2 DEF Stored, Particles, Held, Whole, Ranks
<1>4. PlaceOf' = PlaceOf
  BY <1>1, <1>3, PlaceOfIs, PlaceOfNext
<1>5. AnglesInv' /\ AngleOf' = AngleOf
  BY <1>1, <1>2, AnglesStay
<1>6. SnapshotStored' /\ TableStored' /\ TableCurrent'
  BY <1>1, <1>2, <1>3, SnapshotStays, TableStays
<1> QED
  BY <1>2, <1>3, <1>4, <1>5, <1>6 DEF Inv, State!vars, PlaceOf

\* Every step keeps the invariant, and is a step of what a script sees or none.
LEMMA StepKeeps ==
  ASSUME Inv, [Next]_vars
  PROVE  Inv' /\ [State!Next]_(State!vars)
<1>1. CASE SetParticle
  BY <1>1, SetParticleKeeps DEF State!Next
<1>2. CASE SortParticles
  BY <1>2, SortKeeps
<1>3. CASE MigrateParticles
  BY <1>3, MigrateKeeps
<1>4. CASE NewAngle
  BY <1>4, NewAngleKeeps DEF State!Next
<1>5. CASE DeleteAngle
  BY <1>5, DeleteAngleKeeps DEF State!Next
<1>6. CASE ComputeAngles
  BY <1>6, ComputeKeeps
<1>7. CASE \E parts \in SUBSET Parts : TakeSnapshot(parts)
  BY <1>7, TakeSnapshotKeeps DEF State!Next
<1>8. CASE InitializeFromSnapshot
  BY <1>8, InitializeKeeps DEF State!Next
<1>9. CASE UNCHANGED vars
  BY <1>9, StutterKeeps
<1> QED
  BY <1>1, <1>2, <1>3, <1>4, <1>5, <1>6, <1>7, <1>8, <1>9 DEF Next

-----------------------------------------------------------------------------
(* The room of the arrays, and the lists that allocate() has rebuilt.       *)

RoomHeld ==
    /\ \A r \in Ranks : maxN[r] \in Nat /\ maxN[r] >= N(r) + Len(ghosts[r])
    /\ overrun \in BOOLEAN

LEMMA LengthsAre ==
  Stored => \A r \in Ranks : N(r) \in Nat /\ Len(ghosts[r]) \in Nat
BY LenProperties DEF Stored, ArraysAre, N

LEMMA LengthsNext ==
  Stored' => \A r \in Ranks' : Len(ptls'[r]) \in Nat /\ Len(ghosts'[r]) \in Nat
BY LenProperties DEF Stored, ArraysAre

LEMMA RoomEnough ==
  ASSUME NEW max \in Nat, NEW n \in Nat
  PROVE  Room(max, n) \in Nat /\ Room(max, n) >= n
BY DEF Room, Allocates

LEMMA GrownEnough ==
  ASSUME NEW max \in Nat, NEW n \in Nat, NEW room \in Grown(max, n)
  PROVE  room \in Nat /\ room >= n
<1>1. room \in max .. MostRoom /\ room >= n
  BY DEF Grown
<1>2. MostRoom \in Int
  BY ConstantsAre DEF MostRoom
<1> QED
  BY <1>1, <1>2

LEMMA RoomInit == Init => RoomHeld
<1> SUFFICES ASSUME Init PROVE RoomHeld
  OBVIOUS
<1>1. ParticleInit /\ Stored
  BY InitStored DEF Init
<1>2. ASSUME NEW r \in Ranks
      PROVE  maxN[r] \in Nat /\ maxN[r] >= N(r) + Len(ghosts[r])
  <2>1. maxN[r] = Room(0, N(r)) /\ ghosts[r] = <<>> /\ Len(<<>>) = 0
    BY <1>1 DEF ParticleInit
  <2>2. N(r) \in Nat
    BY <1>1, LengthsAre
  <2>3. Room(0, N(r)) \in Nat /\ Room(0, N(r)) >= N(r)
    BY <2>2, RoomEnough
  <2> QED
    BY <2>1, <2>2, <2>3
<1> QED
  BY <1>1, <1>2 DEF RoomHeld, ParticleInit

LEMMA RoomStays ==
  ASSUME RoomHeld, UNCHANGED <<size, ghosts, memory>>,
         \A r \in Ranks : Len(ptls'[r]) = Len(ptls[r])
  PROVE  RoomHeld' /\ overrun' = overrun
<1>1. Ranks' = Ranks /\ maxN' = maxN /\ overrun' = overrun /\ ghosts' = ghosts
  BY DEF Ranks, memory
<1> QED
  BY <1>1 DEF RoomHeld, N

\* Whatever brings particles or ghosts to a rank makes room for them first.
LEMMA RoomNext ==
  ASSUME Inv, RoomHeld, [Next]_vars
  PROVE  RoomHeld'
<1>1. Stored /\ Stored' /\ SnapshotStored
  BY StepKeeps DEF Inv
<1>2. CASE SetParticle
  <2>1. PICK tag \in Movable(size), place \in Places : Set(tag, place)
    BY <1>2 DEF SetParticle
  <2>2. tag \in Tags
    BY <1>1, ConstantsAre DEF Stored
  <2>3. UNCHANGED <<size, ghosts, memory>>
    BY <2>1 DEF Set
  <2> QED
    BY <1>1, <2>1, <2>2, <2>3, SetStored, RoomStays
<1>3. CASE SortParticles
  <2>1. PICK r \in Ranks : \E order \in Orders(N(r)) : Sort(r, order)
    BY <1>3 DEF SortParticles
  <2>2. PICK order \in Orders(N(r)) : Sort(r, order)
    BY <2>1
  <2>3. UNCHANGED <<size, ghosts, memory>>
    BY <2>2 DEF Sort
  <2> QED
    BY <1>1, <2>2, <2>3, SortStored, RoomStays
<1>4. CASE MigrateParticles
  <2>1. PICK near \in {{}, Movable(size)} : Communicate(near)
    BY <1>4 DEF MigrateParticles
  <2>2. Ranks' = Ranks /\ overrun' = overrun
    BY <2>1 DEF Communicate, Ranks
  <2>3. ASSUME NEW r \in Ranks
        PROVE  maxN'[r] \in Grown(maxN[r], Len(ptls'[r]) + Len(ghosts'[r]))
    BY <2>1 DEF Communicate
  <2>4. ASSUME NEW r \in Ranks
        PROVE  maxN'[r] \in Nat /\ maxN'[r] >= Len(ptls'[r]) + Len(ghosts'[r])
    <3>1. maxN[r] \in Nat /\ Len(ptls'[r]) \in Nat /\ Len(ghosts'[r]) \in Nat
      BY <1>1, <2>2, LengthsNext DEF RoomHeld
    <3> DEFINE n == Len(ptls'[r])
               copies == Len(ghosts'[r])
               room == maxN'[r]
    <3>2. room \in Grown(maxN[r], n + copies) /\ n \in Nat /\ copies \in Nat
      BY <2>3, <3>1
    <3> HIDE DEF n, copies, room
    <3>3. n + copies \in Nat
      BY <3>2
    <3>4. room \in Nat /\ room >= n + copies
      BY <3>1, <3>2, <3>3, GrownEnough
    <3> QED
      BY <3>4 DEF n, copies, room
  <2> QED
    BY <2>2, <2>4 DEF RoomHeld, N
<1>5. CASE InitializeFromSnapshot /\ "particles" \in snapshot.parts
  <2>1. Scatter(snapshot.places)
    BY <1>5 DEF InitializeFromSnapshot
  <2>2. Ranks' = Ranks /\ overrun' \in BOOLEAN
    BY <2>1 DEF Scatter, Ranks
  <2>3. ASSUME NEW r \in Ranks
        PROVE  maxN'[r] \in Nat /\ maxN'[r] >= Len(ptls'[r]) + Len(ghosts'[r])
    <3>1. /\ maxN'[r] = Room(maxN[r], Len(ptls'[r]))
          /\ ghosts'[r] = <<>> /\ Len(<<>>) = 0
      BY <2>1 DEF Scatter
    <3>2. maxN[r] \in Nat /\ Len(ptls'[r]) \in Nat
      BY <1>1, <2>2, LengthsNext DEF RoomHeld
    <3> DEFINE n == Len(ptls'[r])
    <3>3. Room(maxN[r], n) \in Nat /\ Room(maxN[r], n) >= n
      BY <3>2, RoomEnough
    <3>4. Len(ghosts'[r]) = 0 /\ n + 0 = n
      BY <3>1, <3>2
    <3> QED
      BY <3>1, <3>3, <3>4
  <2> QED
    BY <2>2, <2>3 DEF RoomHeld, N
<1>6. CASE UNCHANGED particleVars
  BY <1>6, RoomStays DEF particleVars
<1>7. /\ NewAngle \/ DeleteAngle \/ ComputeAngles
           \/ (\E parts \in SUBSET Parts : TakeSnapshot(parts)) => UNCHANGED particleVars
      /\ InitializeFromSnapshot /\ "particles" \notin snapshot.parts => UNCHANGED particleVars
      /\ UNCHANGED vars => UNCHANGED particleVars
  BY DEF NewAngle, DeleteAngle, ComputeAngles, TakeSnapshot, InitializeFromSnapshot, vars
<1> QED
  BY <1>2, <1>3, <1>4, <1>5, <1>6, <1>7 DEF Next

\* A rebuild finds particle 0 under every index of cleared tags.
LEMMA ClearedList ==
  ASSUME NEW n \in Nat
  PROVE  Len(IndexList(Cleared(n))) = IF 0 \in Group THEN n ELSE 0
<1> DEFINE list == Cleared(n)
           S == { i \in DOMAIN list : list[i].tag \in Group }
<1>1. /\ DOMAIN list = 1 .. n /\ Len(list) = n
      /\ \A i \in 1 .. n : list[i].tag = 0
  BY DEF Cleared, Particle
<1>2. Indices(n) \in Seq(0 .. n - 1) /\ DOMAIN Indices(n) = 1 .. n
  <2>1. Indices(n) = [i \in 1..n |-> i - 1] /\ Indices(n) \in [1..n -> 0 .. n - 1]
    BY DEF Indices
  <2> QED
    BY <2>1, SequenceIsFunction
<1>3. IndexList(list) = Picked(Indices(n), S)
  BY <1>1 DEF IndexList
<1>4. S = IF 0 \in Group THEN 1 .. n ELSE {}
  BY <1>1
<1> HIDE DEF list, S
<1>5. Len(IndexList(list)) = Cardinality(S)
  <2> DEFINE E == 0 .. n - 1
  <2>1. Indices(n) \in Seq(E) /\ S \in SUBSET (DOMAIN Indices(n))
    BY <1>2, <1>4
  <2> HIDE DEF E
  <2> QED
    BY <1>3, <2>1, PickedProperties
<1>6. Cardinality(1 .. n) = n /\ Cardinality({}) = 0
  BY FS_Interval, FS_EmptySet
<1> QED
  BY <1>4, <1>5, <1>6 DEF list

LEMMA GroupSize ==
  /\ Cardinality(Tags) = NGlobal /\ Cardinality(Group) \in 0 .. NGlobal
  /\ Group # Tags => Cardinality(Group) < NGlobal
<1>1. IsFiniteSet(Tags) /\ Group \in SUBSET Tags
  BY ConstantsAre, ParticleDataAssumption
<1>2. Cardinality(Tags) = NGlobal
  <2>1. 0 \in Int /\ NGlobal - 1 \in Int /\ 0 <= NGlobal - 1 + 1 /\ (NGlobal - 1) - 0 + 1 = NGlobal
    BY ConstantsAre
  <2> QED
    BY <2>1, FS_Interval DEF Tags
<1>3. /\ IsFiniteSet(Group) /\ Cardinality(Group) <= Cardinality(Tags)
      /\ Cardinality(Group) = Cardinality(Tags) => Group = Tags
  BY <1>1, FS_Subset
<1>4. Cardinality(Group) \in Nat
  BY <1>3, FS_CardinalityType
<1> QED
  BY <1>2, <1>3, <1>4, ConstantsAre

\* Groups whose lists do not exceed their members while all tags are 0.
Spared == 0 \notin Group \/ Group = Tags

LEMMA SparedFits ==
  ASSUME Spared, NEW n \in 0 .. NGlobal
  PROVE  Fits(Cleared(n))
<1>1. Len(IndexList(Cleared(n))) = IF 0 \in Group THEN n ELSE 0
  BY ClearedList
<1> QED
  BY <1>1, GroupSize, ConstantsAre DEF Fits, Spared

LEMMA ScatteredLength ==
  ASSUME NEW places \in [Tags -> Places], NEW r
  PROVE  Len(Scattered(r, places)) \in 0 .. NGlobal
<1> DEFINE all == [i \in 1..NGlobal |-> Particle(i - 1, places[i - 1])]
           S == Within(r, all)
<1>1. Scattered(r, places) = Picked(all, S)
  BY DEF Scattered
<1>2. all \in Seq({ all[i] : i \in 1..NGlobal }) /\ Len(all) = NGlobal
  <2> DEFINE E == { all[i] : i \in 1..NGlobal }
  <2>1. all \in [1..NGlobal -> E] /\ NGlobal \in Nat
    BY ConstantsAre
  <2> HIDE DEF all, E
  <2>2. all \in Seq(E) /\ Len(all) = NGlobal
    BY <2>1, SequenceIsFunction
  <2> QED
    BY <2>2 DEF E
<1>3. S \in SUBSET (DOMAIN all)
  BY DEF Within
<1> HIDE DEF all, S
<1> QED
  BY <1>1, <1>2, <1>3, PickedProperties

LEMMA NoOverrun ==
  ASSUME Spared, Inv, ~ overrun, [Next]_vars
  PROVE  ~ overrun'
<1>1. CASE InitializeFromSnapshot /\ "particles" \in snapshot.parts
  <2>1. snapshot.places \in [Tags -> Places] /\ Scatter(snapshot.places)
    BY <1>1 DEF Inv, SnapshotStored, InitializeFromSnapshot
  <2>2. \A r \in Ranks : Fits(Cleared(Len(Scattered(r, snapshot.places))))
    BY <2>1, ScatteredLength, SparedFits
  <2> QED
    BY <2>1, <2>2 DEF Scatter, Reallocated
<1>2. CASE ~ (InitializeFromSnapshot /\ "particles" \in snapshot.parts)
  <2>1. UNCHANGED overrun
    BY <1>2 DEF Next, vars, particleVars, memory, SetParticle, Set, SortParticles, Sort,
                MigrateParticles, Communicate, NewAngle, DeleteAngle, ComputeAngles,
                TakeSnapshot, InitializeFromSnapshot
  <2> QED
    BY <2>1
<1> QED
  BY <1>1, <1>2

-----------------------------------------------------------------------------
(* The theorems.                                                            *)

LEMMA LookupRange ==
  ASSUME Stored, NEW r \in Ranks
  PROVE  rtag[r] \in [Tags -> (0 .. N(r) + Len(ghosts[r]) - 1) \cup {NOT_LOCAL}]
<1> DEFINE list == ptls[r]
           copies == ghosts[r]
           index == rtag[r]
           n == Len(list)
           m == Len(copies)
<1>1. list \in Seq(Entries) /\ copies \in Seq(Tags) /\ IsLookup(index, list, copies)
  BY DEF Stored, ArraysAre
<1> HIDE DEF list, copies, index
<1>2. DOMAIN list = 1..n /\ n \in Nat /\ DOMAIN copies = 1..m /\ m \in Nat
  BY <1>1, ListIs, LenProperties
<1> HIDE DEF n, m
<1>3. ASSUME NEW tag \in Tags PROVE index[tag] \in (0 .. n + m - 1) \cup {NOT_LOCAL}
  <2>1. CASE tag \in TagsOf(list)
    <3>1. PICK i \in 1..n : list[i].tag = tag
      BY <1>2, <2>1 DEF TagsOf
    <3>2. index[tag] = i - 1
      BY <1>1, <1>2, <3>1 DEF IsLookup
    <3> QED
      BY <1>2, <3>2
  <2>2. CASE \E k \in DOMAIN copies : copies[k] = tag
    <3>1. PICK k \in 1..m : copies[k] = tag
      BY <1>2, <2>2
    <3>2. index[tag] = Len(list) + k - 1
      BY <1>1, <1>2, <3>1 DEF IsLookup
    <3>3. index[tag] = n + k - 1
      BY <3>2 DEF n
    <3> QED
      BY <1>2, <3>3
  <2>3. CASE tag \notin TagsOf(list) /\ \A k \in DOMAIN copies : copies[k] # tag
    BY <1>1, <2>3 DEF IsLookup
  <2> QED
    BY <2>1, <2>2, <2>3
<1>4. index \in [Tags -> (0 .. n + m - 1) \cup {NOT_LOCAL}]
  BY <1>1, <1>3 DEF IsLookup
<1> QED
  BY <1>4 DEF n, m, N, list, copies, index

LEMMA AngleRanges ==
  ASSUME AnglesInv
  PROVE  /\ angles \in Seq(ValidAngles) /\ Len(angles) <= MaxAngles
         /\ angleTags \in Seq(0 .. MaxAngles - 1) /\ Len(angleTags) = Len(angles)
         /\ angleRtag \in Seq(0 .. Len(angles) - 1 \cup {NO_ANGLE})
         /\ deleted \in Seq(0 .. MaxAngles - 1)
<1> DEFINE n == Len(angles)
           known == Len(angleRtag)
           d == Len(deleted)
<1> USE AngleConstants
<1>1. AngleTypes /\ LookupConsistent /\ DeletedTagsAreFree
  BY DEF AnglesInv
<1>2. /\ n \in Nat /\ known \in Nat /\ d \in Nat /\ Len(angleTags) = n /\ n <= MaxAngles
      /\ angleTags \in [1..n -> Nat] /\ angleRtag \in [1..known -> Nat \cup {NO_ANGLE}]
      /\ deleted \in [1..d -> Nat] /\ known <= MaxAngles
  BY <1>1, Shapes, AnglesFit DEF AngleTypes
<1>3. KnownAngles = 0 .. known - 1
  BY DEF KnownAngles
<1> HIDE DEF n, known, d
<1>4. angleTags \in Seq(0 .. MaxAngles - 1)
  <2>1. \A i \in 1..n : angleTags[i] \in 0 .. MaxAngles - 1
    BY <1>1, <1>2, <1>3 DEF LookupConsistent
  <2>2. angleTags \in [1..n -> 0 .. MaxAngles - 1]
    BY <1>2, <2>1
  <2> QED
    BY <1>2, <2>2, SequenceIsFunction
<1>5. angleRtag \in Seq(0 .. n - 1 \cup {NO_ANGLE})
  <2>1. ASSUME NEW i \in 1..known PROVE angleRtag[i] \in 0 .. n - 1 \cup {NO_ANGLE}
    <3>1. i - 1 \in KnownAngles /\ (i - 1) + 1 = i
      BY <1>2, <1>3
    <3>2. angleRtag[i] # NO_ANGLE => i - 1 \in LiveAngles
      BY <3>1 DEF LiveAngles
    <3> QED
      BY <1>1, <1>2, <3>1, <3>2 DEF LookupConsistent
  <2>2. angleRtag \in [1..known -> 0 .. n - 1 \cup {NO_ANGLE}]
    BY <1>2, <2>1
  <2> DEFINE S == 0 .. n - 1 \cup {NO_ANGLE}
  <2> HIDE DEF S
  <2>3. angleRtag \in [1..known -> S]
    BY <2>2 DEF S
  <2>4. angleRtag \in Seq(S)
    BY <1>2, <2>3, SequenceIsFunction
  <2> QED
    BY <2>4 DEF S
<1>6. deleted \in Seq(0 .. MaxAngles - 1)
  <2>1. \A i \in 1..d : deleted[i] \in KnownAngles
    BY <1>1 DEF DeletedTagsAreFree, d
  <2>2. \A i \in 1..d : deleted[i] \in 0 .. MaxAngles - 1
    BY <1>2, <1>3, <2>1
  <2>3. deleted \in [1..d -> 0 .. MaxAngles - 1]
    BY <1>2, <2>2
  <2> QED
    BY <1>2, <2>3, SequenceIsFunction
<1> QED
  BY <1>1, <1>2, <1>4, <1>5, <1>6 DEF AngleTypes, n

LEMMA TypesAre == Inv /\ RoomHeld => TypeOK
<1> SUFFICES ASSUME Inv, RoomHeld PROVE TypeOK
  OBVIOUS
<1>1. Stored /\ AnglesInv /\ SnapshotStored /\ TableStored
  BY DEF Inv
<1>2. ASSUME NEW r \in Ranks
      PROVE  /\ ptls[r] \in Seq([tag : Tags, place : Places])
             /\ ghosts[r] \in Seq(Tags)
             /\ rtag[r] \in [Tags -> (0 .. N(r) + Len(ghosts[r]) - 1) \cup {NOT_LOCAL}]
             /\ memberIdx[r] \in Seq(0 .. N(r) - 1)
  <2>1. /\ ptls[r] \in Seq(Entries) /\ Distinct(ptls[r]) /\ ghosts[r] \in Seq(Tags)
        /\ memberIdx[r] = IndexList(ptls[r])
    BY <1>1 DEF Stored, ArraysAre
  <2>2. memberIdx[r] \in Seq(0 .. Len(ptls[r]) - 1)
    BY <2>1, IndexListIs
  <2> QED
    BY <1>1, <2>1, <2>2, LookupRange DEF Entries, N
<1>3. /\ angles \in Seq(ValidAngles) /\ Len(angles) <= MaxAngles
      /\ angleTags \in Seq(0 .. MaxAngles - 1) /\ Len(angleTags) = Len(angles)
      /\ angleRtag \in Seq(0 .. Len(angles) - 1 \cup {NO_ANGLE})
      /\ deleted \in Seq(0 .. MaxAngles - 1)
  BY <1>1, AngleRanges
<1>4. size \in Sizes
  BY <1>1 DEF Stored
<1> QED
  BY <1>1, <1>2, <1>3, <1>4 DEF TypeOK, RoomHeld, SnapshotStored, TableStored, Tables

\* The particles, the angles and their table, and the snapshot are what the other
\* theorems say of them in every state, for any number of ranks.
THEOREM Invariance == Spec => []Inv
<1>1. Init => Inv
  BY InitStores
<1>2. Inv /\ [Next]_vars => Inv'
  BY StepKeeps
<1> QED
  BY <1>1, <1>2, PTL DEF Spec

\* The reverse lookups point into the arrays, which have room for particles and
\* ghosts, the angles have tags in use, and a snapshot has what its parts say.
THEOREM TypeCorrect == Spec => []TypeOK
<1>1. Init => Inv /\ RoomHeld
  BY InitStores, RoomInit
<1>2. Inv /\ RoomHeld /\ [Next]_vars => Inv' /\ RoomHeld'
  BY StepKeeps, RoomNext
<1>3. Inv /\ RoomHeld => TypeOK
  BY TypesAre
<1> QED
  BY <1>1, <1>2, <1>3, PTL DEF Spec

\* After any sequence of sorts, migrations and restores, on every rank, a group
\* has the indices of its local members, each once, and no rebuild has written
\* beyond its list (ParticleGroup.cc 322, 586), if it is one of all particles or
\* does not have particle 0.
THEOREM GroupsAlwaysFollow ==
  ASSUME Spared
  PROVE  Spec => []GroupsFollow
<1>1. Init => Inv /\ ~ overrun
  BY InitStores DEF Init, ParticleInit
<1>2. Inv /\ ~ overrun /\ [Next]_vars => Inv' /\ ~ overrun'
  BY StepKeeps, NoOverrun
<1>3. Inv /\ ~ overrun => GroupsFollow
  BY GroupsAre DEF Inv
<1> QED
  BY <1>1, <1>2, <1>3, PTL DEF Spec

\* The condition is needed: whatever happened before, restoring the particles of
\* a snapshot in a single process makes a group with particle 0 and not all others
\* write beyond its list, while allocate() has cleared the tags (ParticleData.cc
\* 425, 750), and the assertion of rebuildIndexList() fails (ParticleGroup.cc 586).
THEOREM RestoreOverruns ==
  ASSUME Inv, size = 1, "particles" \in snapshot.parts, InitializeFromSnapshot,
         0 \in Group, Group # Tags
  PROVE  overrun'
<1> DEFINE places == snapshot.places
           n == Len(Scattered(0, places))
<1>1. Stored /\ places \in [Tags -> Places] /\ Scatter(places)
  BY DEF Inv, SnapshotStored, InitializeFromSnapshot
<1>2. Stored' /\ size' = 1 /\ Ranks = {0}
  BY <1>1, ScatterStored DEF Scatter, Ranks
<1>3. n = NGlobal
  BY <1>1, <1>2, OnlyRankNext DEF Scatter, N
<1> HIDE DEF n
<1>4. Len(IndexList(Cleared(n))) = NGlobal /\ Cardinality(Group) < NGlobal
  BY <1>3, ClearedList, GroupSize, ConstantsAre
<1>5. ~ Fits(Cleared(n)) /\ Allocates(maxN[0], n)
  BY <1>4, GroupSize, ConstantsAre DEF Fits, Allocates
<1> QED
  BY <1>1, <1>2, <1>5 DEF Scatter, Reallocated, n

\* Whatever changes the angles or the order of the particles marks the table, and
\* a table without the mark is that of the angles (AngleData.cc).
THEOREM TableAlwaysCurrent == Spec => []TableCurrent
<1>1. Inv => TableCurrent
  BY DEF Inv
<1> QED
  BY <1>1, Invariance, PTL

\* What a script reads under the tags of particles and angles, and gets back from
\* a snapshot, is what one system without ranks, arrays and lookups would give.
THEOREM StateRefinement == Spec => ImplementsState
<1>1. Init => State!Init
  <2> SUFFICES ASSUME Init PROVE State!Init
    OBVIOUS
  <2>1. PlaceOf \in [Tags -> Places]
    BY InitStored, PlaceOfType DEF Init
  <2>2. LiveAngles = {}
    BY AngleInitKeeps DEF Init
  <2>3. AngleOf = [tag \in {} |-> 0]
    BY <2>2 DEF AngleOf
  <2> QED
    BY <2>1, <2>3 DEF State!Init, Init, PlaceOf
<1>2. Inv /\ [Next]_vars => [State!Next]_(State!vars)
  BY StepKeeps
<1> QED
  BY <1>1, <1>2, Invariance, PTL DEF Spec, ImplementsState, State!Spec
=============================================================================
