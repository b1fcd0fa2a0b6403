--------------------------- MODULE StrategyManager ---------------------------
(***************************************************************************)
(* The strategy lifecycle singleton of                                     *)
(* apps/backend/src/lifecycle/StrategyManager.ts: one strategy at a time,  *)
(* the states IDLE .. CLOSING, and the state file that every transition    *)
(* rewrites asynchronously through ONE shared temporary file.              *)
(*                                                                         *)
(* The in-memory update of a transition is synchronous; the save that      *)
(* follows has four awaits (mkdir, open with O_TRUNC, write, rename), and  *)
(* nothing serialises the saves of overlapping callers.  The file system   *)
(* is modelled with names (tmp, final) that point to inodes, because a     *)
(* save keeps writing to the inode it opened after another save renamed it.*)
(***************************************************************************)
EXTENDS Naturals, FiniteSets

CONSTANTS
  Strategies,        (* strategy names a caller may start                  *)
  Sides,             (* position sides: "long", "short"                    *)
  Saves,             (* ids of saves that may be outstanding at once       *)
  Inodes,            (* inodes of the data directory                       *)
  None,              (* null                                               *)
  Empty,             (* content of a file opened with O_TRUNC              *)
  Corrupt,           (* content JSON.parse rejects                         *)
  CallsWhileLoading, (* may callers use the manager before loadState ends  *)
  MaxTransitions,    (* bound on the transitions of a behaviour            *)
  MaxFaults          (* bound on file system errors and crashes            *)

ASSUME ConstantsAssumption ==
  /\ None \notin Strategies \cup Sides \cup Inodes
  /\ MaxTransitions \in Nat
  /\ MaxFaults \in Nat
  /\ CallsWhileLoading \in BOOLEAN

LifecycleState == {"IDLE", "ANALYZING", "SIGNAL_DETECTED",
                   "ENTERING_POSITION", "POSITION_OPEN", "CLOSING"}

(* instrument and startedAt are set and cleared with strategyName, entry   *)
(* price and size with side; metadata and version are left out.            *)
StrategyState == [state: LifecycleState, strategyName: Strategies \cup {None},
                  side: Sides \cup {None}, lastTransition: Nat]

(* null and the two markers of unusable content are no states. *)
ASSUME ContentAssumption ==
  /\ None \notin StrategyState
  /\ Empty \notin StrategyState
  /\ Corrupt \notin StrategyState

SavePc == {"none", "mkdir", "open", "write", "rename"}

VARIABLES
  phase,    (* "down", "loading" (initialize awaits), "up"                 *)
  state,    (* this.state                                                  *)
  now,      (* Date.now() as the number of transitions so far              *)
  save,     (* Saves -> progress, serialised data and open inode of a save *)
  tmp,      (* inode of strategy-state.json.tmp, or None                   *)
  final,    (* inode of strategy-state.json, or None                       *)
  content,  (* Inodes -> Empty, Corrupt or a serialised state              *)
  faults,   (* crashes and file system errors so far                       *)
  held,     (* history: every state the manager has been in                *)
  lost      (* history: the last save to end, or the load, failed          *)

memVars  == <<phase, state, now, held>>
fileVars == <<tmp, final, content>>
vars == <<phase, state, now, save, tmp, final, content, faults, held, lost>>

InitialState(t) == [state |-> "IDLE", strategyName |-> None, side |-> None,
                    lastTransition |-> t]

NoSave == [pc |-> "none", data |-> None, fd |-> None]

(* No strategy without a lifecycle, no position without POSITION_OPEN or   *)
(* CLOSING, and the other way round.                                       *)
Consistent(st) ==
  /\ st.state = "IDLE" <=> st.strategyName = None
  /\ st.state \in {"POSITION_OPEN", "CLOSING"} <=> st.side # None

(* States an earlier process may have left in the state file. *)
EarlierState == {st \in [state: LifecycleState, strategyName: Strategies \cup {None},
                         side: Sides \cup {None}, lastTransition: {0}] : Consistent(st)}

(* A new process constructs the manager and awaits initialize(). *)
Init ==
  /\ phase = "loading"
  /\ now = 0
  /\ state = InitialState(0)
  /\ save = [s \in Saves |-> NoSave]
  /\ tmp = None
  /\ \/ /\ final = None
        /\ content = [i \in Inodes |-> Empty]
        /\ held = {state}
     \/ \E st \in EarlierState :
          /\ final \in Inodes
          /\ content = [i \in Inodes |-> IF i = final THEN st ELSE Empty]
          /\ held = {state, st}
  /\ faults = 0
  /\ lost = FALSE

Callable == phase = "up" \/ (phase = "loading" /\ CallsWhileLoading)

StartSave ==
  \E s \in Saves :
    /\ save[s].pc = "none"
    /\ save' = [save EXCEPT ![s] = [pc |-> "mkdir", data |-> None, fd |-> None]]

SetState(st) ==
  /\ state' = st
  /\ held' = held \cup {st}

(* transitionTo: the synchronous update, then the start of saveState. *)
TransitionTo(newState, name, side) ==
  /\ now < MaxTransitions
  /\ now' = now + 1
  /\ SetState([state |-> newState, strategyName |-> name, side |-> side,
               lastTransition |-> now + 1])
  /\ StartSave
  /\ UNCHANGED <<phase, tmp, final, content, faults, lost>>

StartStrategy(n) ==
  /\ Callable
  /\ state.state = "IDLE"
  /\ TransitionTo("ANALYZING", n, state.side)

StopStrategy ==
  /\ Callable
  /\ state.state # "IDLE"
  /\ TransitionTo("IDLE", None, None)

OnSignalDetected ==
  /\ Callable
  /\ state.state = "ANALYZING"
  /\ TransitionTo("SIGNAL_DETECTED", state.strategyName, state.side)

OnEnteringPosition ==
  /\ Callable
  /\ state.state = "SIGNAL_DETECTED"
  /\ TransitionTo("ENTERING_POSITION", state.strategyName, state.side)

OnPositionOpened(side) ==
  /\ Callable
  /\ state.state = "ENTERING_POSITION"
  /\ TransitionTo("POSITION_OPEN", state.strategyName, side)

OnPositionClosing ==
  /\ Callable
  /\ state.state = "POSITION_OPEN"
  /\ TransitionTo("CLOSING", state.strategyName, state.side)

OnPositionClosed ==
  /\ Callable
  /\ state.state = "CLOSING"
  /\ TransitionTo("ANALYZING", state.strategyName, None)

(* cleanup saves the state as it is; the process keeps running. *)
Cleanup ==
  /\ Callable
  /\ StartSave
  /\ UNCHANGED <<memVars, fileVars, faults, lost>>

Reset ==
  /\ Callable
  /\ now < MaxTransitions
  /\ now' = now + 1
  /\ SetState(InitialState(now + 1))
  /\ StartSave
  /\ UNCHANGED <<phase, tmp, final, content, faults, lost>>

-----------------------------------------------------------------------------
(* saveState *)

(* Mutant: the position fields are not serialised. *)
SaveSerializePart(s) ==
  /\ save[s].pc = "mkdir"
  /\ save' = [save EXCEPT ![s].pc = "open", ![s].data = [state EXCEPT !.side = None]]
  /\ UNCHANGED <<memVars, fileVars, faults, lost>>

(* mkdir resolved: JSON.stringify(this.state) runs now, not when the       *)
(* transition happened, and writeFile is called.                           *)
SaveSerialize(s) ==
  /\ save[s].pc = "mkdir"
  /\ save' = [save EXCEPT ![s].pc = "open", ![s].data = state]
  /\ UNCHANGED <<memVars, fileVars, faults, lost>>

Referenced == {tmp, final} \cup {save[s].fd : s \in Saves}

(* open(tmp, O_WRONLY|O_CREAT|O_TRUNC): a fresh inode, or the one tmp names. *)
SaveOpen(s) ==
  /\ save[s].pc = "open"
  /\ \E i \in IF tmp = None THEN Inodes \ Referenced ELSE {tmp} :
       /\ tmp' = i
       /\ content' = [content EXCEPT ![i] = Empty]
       /\ save' = [save EXCEPT ![s].pc = "write", ![s].fd = i]
  /\ UNCHANGED <<memVars, final, faults, lost>>

(* A write at offset 0: over an empty file, or one no longer than the data,*)
(* the file becomes the data; a longer text keeps its tail.                *)
Overwrite(old, new) == IF old = Empty \/ old = new THEN {new} ELSE {new, Corrupt}

SaveWrite(s) ==
  /\ save[s].pc = "write"
  /\ \E c \in Overwrite(content[save[s].fd], save[s].data) :
       content' = [content EXCEPT ![save[s].fd] = c]
  /\ save' = [save EXCEPT ![s].pc = "rename", ![s].fd = None]
  /\ UNCHANGED <<memVars, tmp, final, faults, lost>>

(* Mutant: the temporary file is written and forgotten. *)
SaveRenameForgotten(s) ==
  /\ save[s].pc = "rename"
  /\ save' = [save EXCEPT ![s] = NoSave]
  /\ tmp' = None
  /\ content' = [i \in Inodes |-> IF i = tmp THEN Empty ELSE content[i]]
  /\ lost' = FALSE
  /\ UNCHANGED <<memVars, final, faults>>

(* rename(tmp, final); ENOENT when another save renamed the file first.    *)
(* The inode final named is unlinked, and Empty again when it is reused.   *)
SaveRename(s) ==
  /\ save[s].pc = "rename"
  /\ save' = [save EXCEPT ![s] = NoSave]
  /\ final' = IF tmp = None THEN final ELSE tmp
  /\ tmp' = None
  /\ content' = [i \in Inodes |->
                   IF tmp # None /\ i = final THEN Empty ELSE content[i]]
  /\ lost' = (tmp = None)
  /\ UNCHANGED <<memVars, faults>>

(* Any call of the save rejects; the error is swallowed.  A failing write  *)
(* may leave a part of the data behind.                                    *)
SaveFail(s) ==
  /\ save[s].pc # "none"
  /\ faults < MaxFaults
  /\ faults' = faults + 1
  /\ \/ UNCHANGED content
     \/ /\ save[s].pc = "write"
        /\ content' = [content EXCEPT ![save[s].fd] = Corrupt]
  /\ save' = [save EXCEPT ![s] = NoSave]
  /\ lost' = TRUE
  /\ UNCHANGED <<memVars, tmp, final>>

-----------------------------------------------------------------------------
(* The process dies: outstanding saves stop where they are. *)
Crash ==
  /\ phase # "down"
  /\ faults < MaxFaults
  /\ faults' = faults + 1
  /\ phase' = "down"
  /\ save' = [s \in Saves |-> NoSave]
  /\ UNCHANGED <<state, now, held, fileVars, lost>>

(* A new process: the constructor, then initialize() awaits loadState. *)
Boot ==
  /\ phase = "down"
  /\ phase' = "loading"
  /\ SetState(InitialState(now))
  /\ UNCHANGED <<now, save, fileVars, faults, lost>>

(* What loadState makes of the file: the parsed state, or None when the    *)
(* file is missing, does not parse, or fails isValidState.                 *)
Loadable == IF final = None \/ content[final] \in {Empty, Corrupt}
              THEN None ELSE content[final]

(* Mutant: a strategy that held a position resumes its analysis. *)
LoadStateAnalyzing ==
  /\ phase = "loading"
  /\ phase' = "up"
  /\ IF Loadable = None THEN UNCHANGED <<state, held>>
     ELSE IF Loadable.side = None THEN SetState(Loadable)
     ELSE SetState([Loadable EXCEPT !.state = "ANALYZING", !.side = None])
  /\ lost' = FALSE
  /\ UNCHANGED <<now, save, fileVars, faults>>

(* loadState replaces this.state, or keeps whatever it is by now. *)
LoadState ==
  /\ phase = "loading"
  /\ phase' = "up"
  /\ IF Loadable = None THEN UNCHANGED <<state, held>> ELSE SetState(Loadable)
  /\ lost' = FALSE
  /\ UNCHANGED <<now, save, fileVars, faults>>

(* readFile rejects, and not because the file is missing: the error is     *)
(* logged, the default state stays, and the file keeps what it holds until *)
(* the next save replaces it.                                              *)
LoadFail ==
  /\ phase = "loading"
  /\ faults < MaxFaults
  /\ faults' = faults + 1
  /\ phase' = "up"
  /\ lost' = TRUE
  /\ UNCHANGED <<state, now, held, save, fileVars>>

Operation ==
  \/ \E n \in Strategies : StartStrategy(n)
  \/ StopStrategy
  \/ OnSignalDetected
  \/ OnEnteringPosition
  \/ \E side \in Sides : OnPositionOpened(side)
  \/ OnPositionClosing
  \/ OnPositionClosed
  \/ Cleanup
  \/ Reset

SaveStep(s) == SaveSerialize(s) \/ SaveOpen(s) \/ SaveWrite(s) \/ SaveRename(s)

Next ==
  \/ Operation
  \/ \E s \in Saves : SaveStep(s) \/ SaveFail(s)
  \/ Crash
  \/ Boot
  \/ LoadState
  \/ LoadFail

Spec == Init /\ [][Next]_vars

-----------------------------------------------------------------------------
Content == StrategyState \cup {Empty, Corrupt}

SaveRec == [pc: SavePc, data: StrategyState \cup {None}, fd: Inodes \cup {None}]

TypeOK ==
  /\ phase \in {"down", "loading", "up"}
  /\ state \in StrategyState
  /\ now \in Nat
  /\ save \in [Saves -> SaveRec]
  /\ tmp \in Inodes \cup {None}
  /\ final \in Inodes \cup {None}
  /\ content \in [Inodes -> Content]
  /\ faults \in Nat
  /\ held \subseteq StrategyState
  /\ lost \in BOOLEAN

(* The manager and whatever loadState would load are consistent states,    *)
(* however saves overlap, fail or are cut short by a crash                 *)
(* (transitionTo's merged updates, saveState, loadState).                  *)
StatesConsistent ==
  /\ Consistent(state)
  /\ Loadable # None => Consistent(Loadable)

(* A restart never loads a state the manager was never in: what loadState  *)
(* accepts was serialised whole from this.state (saveState 339-358).       *)
LoadsOnlyHeldStates == Loadable # None => Loadable \in held

Quiescent == \A s \in Saves : save[s].pc = "none"

OnDisk == IF Loadable = None THEN InitialState(0) ELSE Loadable

SameLifecycle(a, b) ==
  a.state = b.state /\ a.strategyName = b.strategyName /\ a.side = b.side

(* "Write to temp file first (atomic write)": the state file always holds  *)
(* one complete serialised state.                                          *)
FileNeverTorn == final # None => content[final] \notin {Empty, Corrupt}

(* At rest the state file describes the state in memory ("Persist to       *)
(* disk"), unless the last save or the load of this process failed: one    *)
(* save that succeeds, the first after a failed load too, heals both.      *)
QuiescentDurable ==
  phase = "up" /\ Quiescent /\ ~lost => SameLifecycle(OnDisk, state)

(* With one outstanding save (every caller awaits) and no call before      *)
(* loadState ends, the manager implements the atomic durable lifecycle.    *)
View(st) == [state |-> st.state, strategyName |-> st.strategyName, side |-> st.side]

Durable == INSTANCE DurableLifecycle WITH
  cur  <- IF phase = "up" THEN View(state) ELSE View(OnDisk),
  disk <- View(OnDisk)

DurableSpec == Durable!Spec

=============================================================================
