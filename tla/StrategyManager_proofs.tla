----------------------- MODULE StrategyManager_proofs ------------------------
(***************************************************************************)
(* Safety of StrategyManager for every number of strategies, overlapping   *)
(* saves and inodes.  The inductive invariant follows a state from         *)
(* this.state through the serialised data of a save to an inode: each of   *)
(* them is a state the manager has been in, and those are all consistent.  *)
(* The last part is about one save at a time: what it carries is current,  *)
(* and the manager implements a durable lifecycle.                         *)
(***************************************************************************)
EXTENDS StrategyManager, TLAPS

USE ConstantsAssumption, ContentAssumption

(* Everything a save carries was serialised from this.state. *)
SaveData ==
  \A s \in Saves :
    /\ save[s].pc \in {"open", "write", "rename"} => save[s].data \in held
    /\ save[s].pc = "write" => save[s].fd \in Inodes

HeldEverywhere ==
  /\ state \in held
  /\ \A st \in held : Consistent(st)
  /\ \A i \in Inodes : content[i] \in held \cup {Empty, Corrupt}
  /\ SaveData

IInv == TypeOK /\ HeldEverywhere

LEMMA InitialConsistent ==
  \A t \in Nat : InitialState(t) \in StrategyState /\ Consistent(InitialState(t))
  BY DEF InitialState, StrategyState, LifecycleState, Consistent

LEMMA InitIInv == Init => IInv
<1> SUFFICES ASSUME Init PROVE IInv
  OBVIOUS
<1>1. InitialState(0) \in StrategyState /\ Consistent(InitialState(0))
  BY InitialConsistent
<1>2. EarlierState \subseteq StrategyState /\ \A st \in EarlierState : Consistent(st)
  BY DEF EarlierState, StrategyState
<1>3. save \in [Saves -> SaveRec] /\ \A s \in Saves : save[s].pc = "none"
  BY DEF Init, NoSave, SaveRec, SavePc
<1>4. /\ content \in [Inodes -> Content]
      /\ held \subseteq StrategyState
      /\ \A st \in held : Consistent(st)
      /\ \A i \in Inodes : content[i] \in held \cup {Empty, Corrupt}
      /\ final \in Inodes \cup {None}
  <2>1. CASE final = None /\ content = [i \in Inodes |-> Empty] /\ held = {state}
    BY <1>1, <2>1 DEF Init, Content
  <2>2. CASE \E st \in EarlierState :
               /\ final \in Inodes
               /\ content = [i \in Inodes |-> IF i = final THEN st ELSE Empty]
               /\ held = {state, st}
    BY <1>1, <1>2, <2>2 DEF Init, Content
  <2> QED
    BY <2>1, <2>2 DEF Init
<1>5. TypeOK
  BY <1>1, <1>3, <1>4 DEF Init, TypeOK
<1> QED
  BY <1>1, <1>3, <1>4, <1>5 DEF IInv, HeldEverywhere, SaveData, Init

(* The conjuncts a transition leaves to prove once the new state is known  *)
(* to be a consistent member of StrategyState.                             *)
LEMMA SetStateStep ==
  ASSUME IInv, NEW st, st \in StrategyState, Consistent(st), SetState(st),
         now' \in Nat, phase' \in {"down", "loading", "up"}, UNCHANGED fileVars,
         faults' \in Nat, lost' \in BOOLEAN, StartSave \/ UNCHANGED save
  PROVE  IInv'
<1>1. held' \subseteq StrategyState /\ state' \in held' /\ held \subseteq held'
  BY DEF IInv, TypeOK, SetState
<1>2. \A x \in held' : Consistent(x)
  BY DEF IInv, HeldEverywhere, SetState
<1>3. save' \in [Saves -> SaveRec] /\ SaveData'
  <2>1. CASE StartSave
    <3> PICK s \in Saves :
          save' = [save EXCEPT ![s] = [pc |-> "mkdir", data |-> None, fd |-> None]]
      BY <2>1 DEF StartSave
    <3> [pc |-> "mkdir", data |-> None, fd |-> None] \in SaveRec
      BY DEF SaveRec, SavePc
    <3> QED
      BY <1>1 DEF IInv, TypeOK, HeldEverywhere, SaveData
  <2>2. CASE UNCHANGED save
    BY <1>1, <2>2 DEF IInv, TypeOK, HeldEverywhere, SaveData
  <2> QED
    BY <2>1, <2>2
<1>4. TypeOK'
  BY <1>1, <1>3 DEF IInv, TypeOK, fileVars, SetState
<1>5. \A i \in Inodes : content'[i] \in held' \cup {Empty, Corrupt}
  BY <1>1 DEF IInv, HeldEverywhere, fileVars
<1> QED
  BY <1>1, <1>2, <1>3, <1>4, <1>5 DEF IInv, HeldEverywhere

LEMMA TransitionToStep ==
  ASSUME IInv, NEW l \in LifecycleState, NEW n \in Strategies \cup {None},
         NEW side \in Sides \cup {None},
         l = "IDLE" <=> n = None,
         l \in {"POSITION_OPEN", "CLOSING"} <=> side # None,
         TransitionTo(l, n, side)
  PROVE  IInv'
<1> DEFINE st == [state |-> l, strategyName |-> n, side |-> side,
                  lastTransition |-> now + 1]
<1>1. now \in Nat /\ now + 1 \in Nat
  BY DEF IInv, TypeOK
<1>2. st \in StrategyState
  BY <1>1 DEF StrategyState
<1>3. Consistent(st)
  BY DEF Consistent
<1> QED
  BY <1>1, <1>2, <1>3, SetStateStep DEF TransitionTo, fileVars, IInv, TypeOK

LEMMA OperationStep == IInv /\ Operation => IInv'
<1> SUFFICES ASSUME IInv, Operation PROVE IInv'
  OBVIOUS
<1>0. /\ state \in StrategyState /\ Consistent(state) /\ now \in Nat
      /\ state.state \in LifecycleState
      /\ state.strategyName \in Strategies \cup {None}
      /\ state.side \in Sides \cup {None}
  BY DEF IInv, TypeOK, HeldEverywhere, StrategyState
<1>1. ASSUME NEW n \in Strategies, StartStrategy(n) PROVE IInv'
  <2>1. n # None /\ state.side = None /\ "ANALYZING" \in LifecycleState
    BY <1>0, <1>1 DEF StartStrategy, Consistent, LifecycleState
  <2> QED
    BY <1>0, <1>1, <2>1, TransitionToStep DEF StartStrategy
<1>2. CASE StopStrategy
  BY <1>2, TransitionToStep DEF StopStrategy, LifecycleState
<1>3. CASE OnSignalDetected
  BY <1>0, <1>3, TransitionToStep DEF OnSignalDetected, LifecycleState, Consistent
<1>4. CASE OnEnteringPosition
  BY <1>0, <1>4, TransitionToStep DEF OnEnteringPosition, LifecycleState, Consistent
<1>5. ASSUME NEW side \in Sides, OnPositionOpened(side) PROVE IInv'
  BY <1>0, <1>5, TransitionToStep DEF OnPositionOpened, LifecycleState, Consistent
<1>6. CASE OnPositionClosing
  BY <1>0, <1>6, TransitionToStep DEF OnPositionClosing, LifecycleState, Consistent
<1>7. CASE OnPositionClosed
  BY <1>0, <1>7, TransitionToStep DEF OnPositionClosed, LifecycleState, Consistent
<1>8. CASE Cleanup
  <2>1. SetState(state)
    BY <1>8 DEF Cleanup, SetState, memVars, IInv, HeldEverywhere
  <2> QED
    BY <1>0, <1>8, <2>1, SetStateStep DEF Cleanup, memVars, IInv, TypeOK
<1>9. CASE Reset
  <2>1. now + 1 \in Nat
    BY <1>0
  <2> QED
    BY <1>9, <2>1, InitialConsistent, SetStateStep DEF Reset, fileVars, IInv, TypeOK
<1> QED
  BY <1>1, <1>2, <1>3, <1>4, <1>5, <1>6, <1>7, <1>8, <1>9 DEF Operation

LEMMA SaveStepStep == ASSUME IInv, NEW s \in Saves, SaveStep(s) \/ SaveFail(s) PROVE IInv'
<1>0. /\ save[s] \in SaveRec
      /\ save[s].pc \in SavePc
      /\ save[s].data \in StrategyState \cup {None}
      /\ save[s].fd \in Inodes \cup {None}
      /\ save \in [Saves -> SaveRec]
  BY DEF IInv, TypeOK, SaveRec
<1>1. CASE SaveSerialize(s)
  <2>1. save' \in [Saves -> SaveRec]
    BY <1>0, <1>1 DEF SaveSerialize, IInv, TypeOK, SaveRec, SavePc
  <2>2. SaveData'
    BY <1>0, <1>1 DEF SaveSerialize, memVars, IInv, TypeOK, HeldEverywhere, SaveData
  <2> QED
    BY <1>1, <2>1, <2>2 DEF SaveSerialize, memVars, fileVars, IInv, TypeOK, HeldEverywhere
<1>2. CASE SaveOpen(s)
  <2> PICK i \in IF tmp = None THEN Inodes \ Referenced ELSE {tmp} :
        /\ tmp' = i
        /\ content' = [content EXCEPT ![i] = Empty]
        /\ save' = [save EXCEPT ![s].pc = "write", ![s].fd = i]
    BY <1>2 DEF SaveOpen
  <2>1. i \in Inodes
    BY DEF IInv, TypeOK
  <2>2. save' \in [Saves -> SaveRec]
    BY <1>0, <2>1 DEF SaveRec, SavePc
  <2>3. SaveData'
    BY <1>0, <1>2, <2>1 DEF SaveOpen, memVars, IInv, HeldEverywhere, SaveData
  <2>4. /\ content' \in [Inodes -> Content]
        /\ \A j \in Inodes : content'[j] \in held \cup {Empty, Corrupt}
    BY <2>1 DEF IInv, TypeOK, HeldEverywhere, Content
  <2> QED
    BY <1>2, <2>1, <2>2, <2>3, <2>4
    DEF SaveOpen, memVars, IInv, TypeOK, HeldEverywhere
<1>3. CASE SaveWrite(s)
  <2> DEFINE f == save[s].fd
             d == save[s].data
  <2>1. f \in Inodes /\ d \in held /\ d \in StrategyState
    BY <1>3 DEF SaveWrite, IInv, TypeOK, HeldEverywhere, SaveData
  <2>2. PICK c \in Overwrite(content[f], d) : content' = [content EXCEPT ![f] = c]
    BY <1>3 DEF SaveWrite
  <2>3. c \in {d, Corrupt}
    BY <2>2 DEF Overwrite
  <2>4. /\ content' \in [Inodes -> Content]
        /\ \A j \in Inodes : content'[j] \in held \cup {Empty, Corrupt}
    BY <2>1, <2>2, <2>3 DEF IInv, TypeOK, HeldEverywhere, Content
  <2>5. save' \in [Saves -> SaveRec]
    BY <1>0, <1>3 DEF SaveWrite, SaveRec, SavePc
  <2>6. SaveData'
    BY <1>0, <1>3, <2>1 DEF SaveWrite, memVars, IInv, HeldEverywhere, SaveData
  <2> QED
    BY <1>3, <2>4, <2>5, <2>6 DEF SaveWrite, memVars, IInv, TypeOK, HeldEverywhere
<1>4. NoSave \in SaveRec /\ NoSave.pc = "none"
  BY DEF NoSave, SaveRec, SavePc
<1>5. CASE SaveRename(s)
  <2>1. save' \in [Saves -> SaveRec] /\ SaveData'
    BY <1>0, <1>4, <1>5 DEF SaveRename, memVars, IInv, HeldEverywhere, SaveData
  <2>2. /\ content' \in [Inodes -> Content]
        /\ \A j \in Inodes : content'[j] \in held \cup {Empty, Corrupt}
    BY <1>5 DEF SaveRename, IInv, TypeOK, HeldEverywhere, Content
  <2> QED
    BY <1>5, <2>1, <2>2 DEF SaveRename, memVars, IInv, TypeOK, HeldEverywhere
<1>6. CASE SaveFail(s)
  <2>1. save' \in [Saves -> SaveRec] /\ SaveData'
    BY <1>0, <1>4, <1>6 DEF SaveFail, memVars, IInv, HeldEverywhere, SaveData
  <2>2. /\ content' \in [Inodes -> Content]
        /\ \A j \in Inodes : content'[j] \in held \cup {Empty, Corrupt}
    BY <1>6 DEF SaveFail, IInv, TypeOK, HeldEverywhere, Content
  <2>3. faults' \in Nat
    BY <1>6 DEF SaveFail, IInv, TypeOK
  <2> QED
    BY <1>6, <2>1, <2>2, <2>3 DEF SaveFail, memVars, IInv, TypeOK, HeldEverywhere
<1> QED
  BY <1>1, <1>2, <1>3, <1>5, <1>6 DEF SaveStep

LEMMA ProcessStep == IInv /\ (Crash \/ Boot \/ LoadState \/ LoadFail) => IInv'
<1> SUFFICES ASSUME IInv, Crash \/ Boot \/ LoadState \/ LoadFail PROVE IInv'
  OBVIOUS
<1>1. CASE Crash
  <2>1. save' \in [Saves -> SaveRec] /\ \A s \in Saves : save'[s].pc = "none"
    BY <1>1 DEF Crash, NoSave, SaveRec, SavePc
  <2>2. faults' \in Nat
    BY <1>1 DEF Crash, IInv, TypeOK
  <2> QED
    BY <1>1, <2>1, <2>2 DEF Crash, fileVars, IInv, TypeOK, HeldEverywhere, SaveData
<1>2. CASE Boot
  BY <1>2, InitialConsistent, SetStateStep DEF Boot, IInv, TypeOK
<1>3. CASE LoadState
  <2>1. CASE Loadable = None
    <3>1. SetState(state) /\ Consistent(state) /\ state \in StrategyState
      BY <1>3, <2>1 DEF LoadState, SetState, IInv, TypeOK, HeldEverywhere
    <3> QED
      BY <1>3, <3>1, SetStateStep DEF LoadState, IInv, TypeOK
  <2>2. CASE Loadable # None
    <3>1. Loadable \in held
      BY <2>2 DEF Loadable, IInv, TypeOK, HeldEverywhere
    <3>2. Consistent(Loadable) /\ Loadable \in StrategyState /\ SetState(Loadable)
      BY <1>3, <2>2, <3>1 DEF LoadState, IInv, TypeOK, HeldEverywhere
    <3> QED
      BY <1>3, <3>2, SetStateStep DEF LoadState, IInv, TypeOK
  <2> QED
    BY <2>1, <2>2
<1>4. CASE LoadFail
  <2>1. SetState(state) /\ Consistent(state) /\ state \in StrategyState
    BY <1>4 DEF LoadFail, SetState, IInv, TypeOK, HeldEverywhere
  <2>2. faults' \in Nat
    BY <1>4 DEF LoadFail, IInv, TypeOK
  <2> QED
    BY <1>4, <2>1, <2>2, SetStateStep DEF LoadFail, IInv, TypeOK
<1> QED
  BY <1>1, <1>2, <1>3, <1>4

LEMMA IInvStep == IInv /\ [Next]_vars => IInv'
<1> SUFFICES ASSUME IInv, [Next]_vars PROVE IInv'
  OBVIOUS
<1>1. CASE UNCHANGED vars
  BY <1>1 DEF vars, IInv, TypeOK, HeldEverywhere, SaveData
<1>2. CASE Next
  BY <1>2, OperationStep, SaveStepStep, ProcessStep DEF Next
<1> QED
  BY <1>1, <1>2

LEMMA Invariance == Spec => []IInv
  BY InitIInv, IInvStep, PTL DEF Spec

(* The variables keep their types under every interleaving of operations,  *)
(* overlapping saves, faults and restarts (StrategyManager.ts 57-497).     *)
THEOREM TypeCorrect == Spec => []TypeOK
<1>1. IInv => TypeOK
  BY DEF IInv
<1> QED
  BY <1>1, Invariance, PTL

(* this.state and any state a restart would load are consistent: position  *)
(* data exactly in POSITION_OPEN and CLOSING, a strategy exactly outside   *)
(* IDLE (transitionTo 299-322, saveState 339-358, loadState 360-387).      *)
THEOREM AlwaysConsistent == Spec => []StatesConsistent
<1>1. IInv => StatesConsistent
  BY DEF IInv, TypeOK, HeldEverywhere, StatesConsistent, Loadable
<1> QED
  BY <1>1, Invariance, PTL

(* However many saves overlap on the shared temporary file, a restart      *)
(* loads a state the manager was in, or none (saveState 339-358).          *)
THEOREM NeverLoadsFabricatedState == Spec => []LoadsOnlyHeldStates
<1>1. IInv => LoadsOnlyHeldStates
  BY DEF IInv, TypeOK, HeldEverywhere, LoadsOnlyHeldStates, Loadable
<1> QED
  BY <1>1, Invariance, PTL

-----------------------------------------------------------------------------
(* The manager under callers that await: one outstanding save, and no call *)
(* before loadState ends.  Then the state file is replaced atomically, it  *)
(* describes the state in memory whenever no save is in flight, and the    *)
(* manager implements DurableLifecycle.                                    *)
Serial == ~CallsWhileLoading /\ \E s : Saves = {s}

(* Where the one save stands: what it carries is the current state, and    *)
(* the temporary file is its own, distinct from the state file.            *)
OneSave ==
  /\ \A s \in Saves :
       /\ save[s].pc # "none" => phase = "up"
       /\ save[s].pc \in {"open", "write", "rename"} => save[s].data = state
       /\ save[s].pc = "write" => tmp = save[s].fd /\ content[tmp] = Empty
       /\ save[s].pc \in {"write", "rename"} => tmp \in Inodes
       /\ save[s].pc = "rename" => content[tmp] = state
  /\ tmp # None => tmp # final
  /\ phase = "loading" => View(state) = View(InitialState(0))

SInv == OneSave /\ FileNeverTorn /\ QuiescentDurable

LEMMA InitSInv == Init => SInv
<1> SUFFICES ASSUME Init PROVE SInv
  OBVIOUS
<1>1. OneSave
  BY DEF Init, OneSave, NoSave, View, InitialState
<1>2. FileNeverTorn
  BY ConstantsAssumption, ContentAssumption DEF Init, FileNeverTorn, EarlierState, StrategyState
<1> QED
  BY <1>1, <1>2 DEF SInv, QuiescentDurable, Init

(* An operation leaves the files alone and starts the one save. *)
LEMMA SerialOperation ==
  ASSUME Serial, IInv, SInv, Operation
  PROVE  /\ SInv'
         /\ UNCHANGED <<fileVars, phase>>
         /\ phase = "up"
<1>1. /\ UNCHANGED <<fileVars, phase>>
      /\ phase = "up"
      /\ StartSave
  BY DEF Serial, Operation, Callable, StartStrategy, StopStrategy, OnSignalDetected,
         OnEnteringPosition, OnPositionOpened, OnPositionClosing, OnPositionClosed,
         Cleanup, Reset, TransitionTo, fileVars, memVars
<1>2. PICK s \in Saves :
        /\ save[s].pc = "none"
        /\ save' = [save EXCEPT ![s] = [pc |-> "mkdir", data |-> None, fd |-> None]]
  BY <1>1 DEF StartSave
<1>3. Saves = {s} /\ save'[s].pc = "mkdir"
  BY <1>2 DEF Serial, IInv, TypeOK
<1>4. OneSave'
  BY <1>1, <1>3 DEF SInv, OneSave, fileVars
<1>5. FileNeverTorn'
  BY <1>1 DEF SInv, FileNeverTorn, fileVars
<1>6. QuiescentDurable'
  BY <1>3 DEF QuiescentDurable, Quiescent
<1> QED
  BY <1>1, <1>4, <1>5, <1>6 DEF SInv

(* A step of the save touches the state file only at the rename, which     *)
(* installs the current state.                                             *)
LEMMA SerialSave ==
  ASSUME Serial, IInv, SInv, NEW s \in Saves, SaveStep(s) \/ SaveFail(s)
  PROVE  /\ SInv'
         /\ UNCHANGED <<state, phase>>
         /\ phase = "up"
         /\ UNCHANGED Loadable \/ Loadable' = state
<1>0. /\ Saves = {s}
      /\ save \in [Saves -> SaveRec]
      /\ save[s] \in SaveRec
      /\ content \in [Inodes -> Content]
      /\ final \in Inodes \cup {None}
      /\ tmp \in Inodes \cup {None}
      /\ None \notin Inodes
      /\ state \in StrategyState
  BY ConstantsAssumption DEF Serial, IInv, TypeOK
<1>1. save[s].pc # "none" /\ phase = "up" /\ UNCHANGED <<state, phase>>
  BY DEF SaveStep, SaveSerialize, SaveOpen, SaveWrite, SaveRename, SaveFail,
         SInv, OneSave, memVars
<1>2. CASE SaveSerialize(s)
  <2>1. save'[s].pc = "open" /\ save'[s].data = state /\ UNCHANGED fileVars
    BY <1>0, <1>2 DEF SaveSerialize
  <2> QED
    BY <1>0, <1>1, <2>1
    DEF SInv, OneSave, FileNeverTorn, QuiescentDurable, Quiescent, Loadable, fileVars
<1>3. CASE SaveOpen(s)
  <2>1. PICK i \in IF tmp = None THEN Inodes \ Referenced ELSE {tmp} :
          /\ tmp' = i
          /\ content' = [content EXCEPT ![i] = Empty]
          /\ save' = [save EXCEPT ![s].pc = "write", ![s].fd = i]
    BY <1>3 DEF SaveOpen
  <2>2. i \in Inodes /\ i # final /\ final' = final
    BY <1>0, <1>3 DEF SaveOpen, Referenced, SInv, OneSave
  <2>3. /\ save'[s].pc = "write"
        /\ save'[s].fd = i
        /\ save'[s].data = save[s].data
        /\ save[s].data = state
        /\ content'[i] = Empty
        /\ final # None => content'[final] = content[final]
    BY <1>0, <1>3, <2>1, <2>2 DEF SaveOpen, SInv, OneSave
  <2> QED
    BY <1>0, <1>1, <2>1, <2>2, <2>3
    DEF SInv, OneSave, FileNeverTorn, QuiescentDurable, Quiescent, Loadable
<1>4. CASE SaveWrite(s)
  <2>1. /\ tmp = save[s].fd /\ tmp \in Inodes /\ tmp # final
        /\ content[tmp] = Empty /\ save[s].data = state
    BY <1>0, <1>4 DEF SaveWrite, SInv, OneSave
  <2>2. content' = [content EXCEPT ![tmp] = state] /\ tmp' = tmp /\ final' = final
    BY <1>4, <2>1 DEF SaveWrite, Overwrite
  <2>3. save'[s].pc = "rename" /\ save'[s].data = state
    BY <1>0, <1>4, <2>1 DEF SaveWrite
  <2>4. content'[tmp] = state /\ (final # None => content'[final] = content[final])
    BY <1>0, <2>1, <2>2
  <2> QED
    BY <1>0, <1>1, <2>1, <2>2, <2>3, <2>4
    DEF SInv, OneSave, FileNeverTorn, QuiescentDurable, Quiescent, Loadable
<1>5. CASE SaveRename(s)
  <2>1. tmp \in Inodes /\ tmp # final /\ content[tmp] = state
    BY <1>0, <1>5 DEF SaveRename, SInv, OneSave
  <2>2. final' = tmp /\ tmp' = None /\ content'[tmp] = state /\ save'[s].pc = "none"
    BY <1>0, <1>5, <2>1 DEF SaveRename, NoSave
  <2>3. Loadable' = state /\ FileNeverTorn'
    BY <1>0, <2>1, <2>2, ContentAssumption DEF Loadable, FileNeverTorn
  <2>4. QuiescentDurable'
    BY <1>0, <1>1, <2>3, ContentAssumption DEF QuiescentDurable, OnDisk, SameLifecycle
  <2>5. OneSave'
    BY <1>0, <1>1, <2>1, <2>2 DEF OneSave, SInv
  <2> QED
    BY <1>1, <2>3, <2>4, <2>5 DEF SInv
<1>6. CASE SaveFail(s)
  <2>1. save'[s].pc = "none" /\ lost' /\ tmp' = tmp /\ final' = final
    BY <1>0, <1>6 DEF SaveFail, NoSave
  <2>2. final # None => content'[final] = content[final]
    BY <1>0, <1>6 DEF SaveFail, SInv, OneSave
  <2> QED
    BY <1>0, <1>1, <2>1, <2>2
    DEF SInv, OneSave, FileNeverTorn, QuiescentDurable, Loadable
<1> QED
  BY <1>1, <1>2, <1>3, <1>4, <1>5, <1>6 DEF SaveStep

(* A crash, a new process and the load leave the files alone; outside "up" *)
(* the refinement shows what is on disk.                                   *)
LEMMA SerialProcess ==
  ASSUME Serial, IInv, SInv, Crash \/ Boot \/ LoadState \/ LoadFail
  PROVE  /\ SInv'
         /\ UNCHANGED Loadable
         /\ phase' = "up" => View(state') \in {View(OnDisk), Durable!Idle}
<1>0. /\ None \notin Inodes
      /\ final \in Inodes \cup {None}
      /\ None \notin StrategyState
      /\ phase \in {"down", "loading", "up"}
  BY ConstantsAssumption, ContentAssumption DEF IInv, TypeOK
<1>1. UNCHANGED fileVars /\ UNCHANGED Loadable /\ FileNeverTorn'
  BY DEF Crash, Boot, LoadState, LoadFail, fileVars, Loadable, SInv, FileNeverTorn
<1>2. CASE Crash
  <2>1. phase' = "down" /\ \A s \in Saves : save'[s].pc = "none"
    BY <1>2 DEF Crash, NoSave
  <2> QED
    BY <1>1, <2>1 DEF SInv, OneSave, QuiescentDurable, fileVars
<1>3. CASE Boot
  <2>1. /\ phase = "down" /\ phase' = "loading" /\ save' = save
        /\ View(state') = View(InitialState(0))
        /\ \A s \in Saves : save[s].pc = "none"
    BY <1>3 DEF Boot, SetState, View, InitialState, SInv, OneSave
  <2>2. View(InitialState(0))' = View(InitialState(0))
    BY DEF View, InitialState
  <2> QED
    BY <1>1, <2>1, <2>2 DEF SInv, OneSave, QuiescentDurable, fileVars
<1>4. CASE LoadState
  <2>1. /\ phase = "loading" /\ phase' = "up" /\ save' = save
        /\ \A s \in Saves : save[s].pc = "none"
        /\ View(state) = View(InitialState(0))
    BY <1>4 DEF LoadState, SInv, OneSave
  <2>2. View(state') = View(OnDisk)
    BY <1>4, <2>1 DEF LoadState, SetState, OnDisk
  <2>3. View(OnDisk) = View(OnDisk)' /\ SameLifecycle(OnDisk', state')
    BY <1>1, <2>2 DEF OnDisk, View, SameLifecycle
  <2>4. QuiescentDurable'
    BY <2>3 DEF QuiescentDurable
  <2> QED
    BY <1>1, <2>1, <2>2, <2>4 DEF SInv, OneSave, fileVars
<1>5. CASE LoadFail
  <2>1. /\ phase = "loading" /\ phase' = "up" /\ save' = save /\ lost' = TRUE
        /\ \A s \in Saves : save[s].pc = "none"
        /\ state' = state /\ View(state) = View(InitialState(0))
    BY <1>5 DEF LoadFail, SInv, OneSave
  <2>2. View(state') = Durable!Idle
    BY <2>1 DEF View, InitialState, Durable!Idle, Durable!At
  <2>3. QuiescentDurable'
    BY <2>1 DEF QuiescentDurable
  <2> QED
    BY <1>1, <2>1, <2>2, <2>3 DEF SInv, OneSave, fileVars
<1> QED
  BY <1>2, <1>3, <1>4, <1>5

LEMMA SInvStep == ASSUME Serial PROVE IInv /\ SInv /\ [Next]_vars => SInv'
<1> SUFFICES ASSUME IInv, SInv, [Next]_vars PROVE SInv'
  OBVIOUS
<1>1. CASE UNCHANGED vars
  BY <1>1 DEF vars, SInv, OneSave, FileNeverTorn, QuiescentDurable, Quiescent,
              OnDisk, Loadable, SameLifecycle, View, InitialState
<1>2. CASE Next
  BY <1>2, SerialOperation, SerialSave, SerialProcess DEF Next
<1> QED
  BY <1>1, <1>2

LEMMA SerialInvariance == ASSUME Serial PROVE Spec => [](IInv /\ SInv)
  BY InitIInv, IInvStep, InitSInv, SInvStep, PTL DEF Spec

(* Callers that await never expose a half-written state file: the          *)
(* "atomic write" of saveState (339-358), faults and crashes included.     *)
THEOREM SerialFileNeverTorn == ASSUME Serial PROVE Spec => []FileNeverTorn
<1>1. SInv => FileNeverTorn
  BY DEF SInv
<1> QED
  BY <1>1, SerialInvariance, PTL

(* Callers that await find on disk what is in memory once a save has ended *)
(* without an error, also when the load or an earlier save had failed      *)
(* (transitionTo 299-322, saveState 339-358, loadState 360-387).           *)
THEOREM SerialDurable == ASSUME Serial PROVE Spec => []QuiescentDurable
<1>1. SInv => QuiescentDurable
  BY DEF SInv
<1> QED
  BY <1>1, SerialInvariance, PTL

-----------------------------------------------------------------------------
(* Refinement. *)

LEMMA InitRefines == Init => Durable!Init
<1> SUFFICES ASSUME Init PROVE Durable!Init
  OBVIOUS
<1>1. phase = "loading"
  BY DEF Init
<1>2. View(OnDisk) \in Durable!Recoverable
  <2>1. CASE final = None
    BY <2>1 DEF OnDisk, Loadable, View, InitialState, Durable!Recoverable, Durable!Idle, Durable!At
  <2>2. ASSUME NEW st \in EarlierState,
               final \in Inodes /\ content = [i \in Inodes |-> IF i = final THEN st ELSE Empty]
        PROVE  View(OnDisk) \in Durable!Recoverable
    <3>1. OnDisk = st
      BY <2>2, ConstantsAssumption, ContentAssumption
      DEF OnDisk, Loadable, EarlierState, StrategyState
    <3>2. View(st) \in Durable!Recoverable
      BY DEF EarlierState, LifecycleState, Consistent, View,
             Durable!Recoverable, Durable!Idle, Durable!At
    <3> QED
      BY <3>1, <3>2
  <2> QED
    BY <2>1, <2>2 DEF Init
<1> QED
  BY <1>1, <1>2 DEF Durable!Init

(* Every operation is a legal lifecycle step or leaves the view alone. *)
LEMMA OperationRefines ==
  ASSUME IInv, Operation
  PROVE  Durable!Step(View(state), View(state)') \/ View(state)' = View(state)
<1>0. state \in StrategyState /\ Consistent(state)
  BY DEF IInv, TypeOK, HeldEverywhere
<1>1. ASSUME NEW l, NEW n, NEW side, TransitionTo(l, n, side)
      PROVE  View(state)' = [state |-> l, strategyName |-> n, side |-> side]
  BY <1>1 DEF TransitionTo, SetState, View
<1>2. ASSUME NEW n \in Strategies, StartStrategy(n)
      PROVE  Durable!Step(View(state), View(state)')
  BY <1>0, <1>1, <1>2 DEF StartStrategy, View, Consistent, Durable!Step, Durable!At
<1>3. CASE StopStrategy
  BY <1>1, <1>3 DEF StopStrategy, View, Durable!Step, Durable!Idle, Durable!At
<1>4. CASE OnSignalDetected
  BY <1>1, <1>4 DEF OnSignalDetected, View, Durable!Step, Durable!At
<1>5. CASE OnEnteringPosition
  BY <1>1, <1>5 DEF OnEnteringPosition, View, Durable!Step, Durable!At
<1>6. ASSUME NEW side \in Sides, OnPositionOpened(side)
      PROVE  Durable!Step(View(state), View(state)')
  BY <1>1, <1>6 DEF OnPositionOpened, View, Durable!Step, Durable!At
<1>7. CASE OnPositionClosing
  BY <1>1, <1>7 DEF OnPositionClosing, View, Durable!Step, Durable!At
<1>8. CASE OnPositionClosed
  BY <1>1, <1>8 DEF OnPositionClosed, View, Durable!Step, Durable!At
<1>9. CASE Cleanup
  BY <1>9 DEF Cleanup, memVars, View
<1>10. CASE Reset
  <2>1. View(state)' = Durable!Idle
    BY <1>10 DEF Reset, SetState, InitialState, View, Durable!Idle, Durable!At
  <2>2. CASE state.state = "IDLE"
    BY <1>0, <2>1, <2>2 DEF Consistent, View, Durable!Idle, Durable!At
  <2>3. CASE state.state # "IDLE"
    BY <2>1, <2>3 DEF View, Durable!Step, Durable!At
  <2> QED
    BY <2>2, <2>3
<1> QED
  BY <1>2, <1>3, <1>4, <1>5, <1>6, <1>7, <1>8, <1>9, <1>10 DEF Operation

LEMMA StepRefines ==
  ASSUME Serial
  PROVE  IInv /\ SInv /\ [Next]_vars =>
           [Durable!Next]_<<IF phase = "up" THEN View(state) ELSE View(OnDisk), View(OnDisk)>>
<1> DEFINE cur == IF phase = "up" THEN View(state) ELSE View(OnDisk)
           disk == View(OnDisk)
<1> SUFFICES ASSUME IInv, SInv, [Next]_vars
             PROVE  Durable!Next \/ (cur' = cur /\ disk' = disk)
  OBVIOUS
<1>0. Loadable' = Loadable => disk' = disk
  BY DEF OnDisk, View, InitialState
<1>1. CASE UNCHANGED vars
  BY <1>1 DEF vars, OnDisk, Loadable, View, InitialState
<1>2. CASE Operation
  <2>1. UNCHANGED <<fileVars, phase>> /\ phase = "up"
    BY <1>2, SerialOperation
  <2>2. disk' = disk /\ cur = View(state) /\ cur' = View(state)'
    BY <1>0, <2>1 DEF Loadable, fileVars
  <2>3. Durable!Step(cur, cur') \/ cur' = cur
    BY <1>2, <2>2, OperationRefines
  <2> QED
    BY <2>2, <2>3 DEF Durable!Next, Durable!Transition
<1>3. ASSUME NEW s \in Saves, SaveStep(s) \/ SaveFail(s)
      PROVE  Durable!Next \/ (cur' = cur /\ disk' = disk)
  <2>1. /\ UNCHANGED <<state, phase>> /\ phase = "up"
        /\ UNCHANGED Loadable \/ Loadable' = state
    BY <1>3, SerialSave
  <2>2. cur = View(state) /\ cur' = cur
    BY <2>1 DEF View
  <2>3. Loadable' = state => disk' = cur
    BY <2>1, <2>2, ContentAssumption DEF OnDisk, View, IInv, TypeOK
  <2> QED
    BY <1>0, <2>1, <2>2, <2>3 DEF Durable!Next, Durable!Publish
<1>4. CASE Crash \/ Boot \/ LoadState \/ LoadFail
  <2>1. disk' = disk /\ (phase' = "up" => View(state') \in {View(OnDisk), Durable!Idle})
    BY <1>0, <1>4, SerialProcess
  <2>2. cur' \in {disk, Durable!Idle}
    BY <2>1 DEF View
  <2> QED
    BY <2>1, <2>2 DEF Durable!Next, Durable!Recover
<1> QED
  BY <1>1, <1>2, <1>3, <1>4 DEF Next

(* Callers that await see the atomic durable lifecycle: every transition   *)
(* legal, published by the rename in one step, and a restart that takes up *)
(* the published state, or starts idle when it cannot be read              *)
(* (StrategyManager.ts 88-259, 299-387).                                   *)
THEOREM SerialImplementsDurable == ASSUME Serial PROVE Spec => DurableSpec
<1>1. Spec => Durable!Init /\ [][Durable!Next]_<<IF phase = "up" THEN View(state) ELSE View(OnDisk), View(OnDisk)>>
  BY InitRefines, StepRefines, SerialInvariance, PTL DEF Spec
<1> QED
  BY <1>1 DEF DurableSpec, Durable!Spec

=============================================================================
