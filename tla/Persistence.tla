---------------------------- MODULE Persistence ----------------------------
(***************************************************************************)
(* Saving and restoring the last-known robot state (persistence.py) by the *)
(* two threads that save it (runtime.py): the persistence loop, and the    *)
(* main thread when it shuts the service down.  Nothing keeps the two      *)
(* apart: they use the same temporary file names.                          *)
(*                                                                         *)
(* Abstractions.  The content of a file, and of the value it is made from, *)
(* is the set of versions it consists of: {v} is whole, {} is truncated,   *)
(* {v, w} is one text written over a longer one; None is no file, or no    *)
(* value.  Handler threads store the values key by key: version v of the   *)
(* state is what the values were after the vth store, be it in the middle  *)
(* of a robot message; dict(values) copies them in one step.  An open      *)
(* handle points to the temporary file, to the final file (after a rename) *)
(* or to a file that no longer has a name.  Bytes reach a file when it is  *)
(* closed; rename is atomic.                                               *)
(***************************************************************************)
EXTENDS Naturals, FiniteSets

CONSTANTS
  None,         \* no file; Python's None
  Texts,        \* which of "map" and "track" exist besides "state"
  MaxStores,    \* bound on the stores of values and texts of a behaviour
  MaxFaults,    \* bound on the failing reads and writes of a behaviour
  MaxRestarts   \* bound on the restarts of the process

ASSUME TextFiles == Texts \subseteq {"map", "track"}
ASSUME Bounds == /\ MaxStores \in Nat
                 /\ MaxFaults \in Nat
                 /\ MaxRestarts \in Nat

Files == {"state"} \union Texts
Writers == {"loop", "main"}
Content == SUBSET (0..MaxStores)
ASSUME NoneIsNoContent == \A c \in Content : c # None
ASSUME NoneIsNoName == None \notin {"state", "map", "track", "tmp", "final", "gone"}
Value == {None} \union Content

\* Where a thread is: idle before and between saves, ended for good.
InFile == {"open", "write", "replace"}
Saving == {"values", "raw"} \union InFile
Place == {"idle", "ended"} \union Saving

VARIABLES
  up,          \* the process is running
  stopping,    \* stop_event is set
  memory,      \* RobotState.values, map_data and track_data
  foreign,     \* file and version of each text ASCII cannot encode
  stores,      \* number of stores of a value or a text so far
  pc,          \* where each writer is in save
  at,          \* the file a writer is working on
  local,       \* the content a writer is about to write
  handle,      \* what a writer's open file is: "tmp", "final", "gone", None
  grown,       \* writers whose iteration of raw_value met a new key
  tmp,         \* the temporary files
  final,       \* the files a restart reads
  faults,      \* failed reads and writes so far
  restarts,    \* restarts so far
  \* The rest records the past; the code does not keep it.  Nothing is said of
  \* saves once two have overlapped.
  overlapped,  \* both writers have been saving at the same time
  clashed,     \* both writers have had the same temporary file in use
  saw,         \* the memory each writer is saving, as it was at the start
  saved,       \* what the last save without an error had to save
  unread       \* a start could not read the state file, and no save has
               \* been completed since

robot == <<memory, foreign, stores>>
writer == <<pc, at, local, handle>>
disk == <<tmp, final>>
bounds == <<faults, restarts>>
saves == <<saw, saved, unread>>
history == <<overlapped, clashed, saves>>
vars == <<up, stopping, robot, writer, grown, disk, bounds, history>>

Fresh == [f \in Files |-> IF f = "state" THEN {0} ELSE None]
Nothing == [f \in Files |-> None]
Both(x) == [w \in Writers |-> x]

Init ==
  /\ up = TRUE /\ stopping = FALSE
  /\ memory = Fresh /\ foreign = {} /\ stores = 0
  /\ pc = Both("idle") /\ at = Both("state")
  /\ local = Both(None) /\ handle = Both(None) /\ grown = {}
  /\ tmp = Nothing /\ final = Nothing
  /\ faults = 0 /\ restarts = 0
  /\ overlapped = FALSE /\ clashed = FALSE
  /\ saw = Both(Nothing) /\ saved = Nothing /\ unread = FALSE

-----------------------------------------------------------------------------
(* RobotState.update_from_message in the TCP handler threads.  Several may  *)
(* be in it, so that their stores come in any order.                        *)

\* raw_value grows under a running iteration.
StoreRaw ==
  LET running == {w \in Writers : pc[w] = "raw"}
  IN  /\ up
      /\ running # {}
      /\ grown' = grown \union running
      /\ UNCHANGED <<up, stopping, robot, writer, disk, bounds, history>>

\* One key of the values.
StoreValue ==
  /\ up
  /\ stores < MaxStores
  /\ stores' = stores + 1
  /\ memory' = [memory EXCEPT !["state"] = {stores + 1}]
  /\ UNCHANGED <<up, stopping, foreign, writer, grown, disk, bounds, history>>

\* The map, or the track, of a cleaning message.
StoreText(f) ==
  /\ up
  /\ stores < MaxStores
  /\ stores' = stores + 1
  /\ memory' = [memory EXCEPT ![f] = {stores + 1}]
  /\ foreign' \in {foreign, foreign \union {<<f, stores + 1>>}}
  /\ UNCHANGED <<up, stopping, writer, grown, disk, bounds, history>>

-----------------------------------------------------------------------------
(* StatePersistence.save, step by step, in writer w.                        *)

Goto(w, place) == pc' = [pc EXCEPT ![w] = place]

\* Where w is after a save, whatever became of it, and after an exception
\* that is not an OSError.
Rest(w) == IF w = "loop" THEN "idle" ELSE "ended"

\* What w was to write is written, or lost.
Forgets(w) == local' = [local EXCEPT ![w] = None]

Failed(w) == saw' = [saw EXCEPT ![w] = Nothing] /\ UNCHANGED <<saved, unread>>

\* Mutant: nothing is saved before there is a text.
DueWithText(w) == (stopping <=> w = "main") /\ \E f \in Texts : memory[f] # None

\* The loop's wait timed out; main was woken by stop_event.
Due(w) == stopping <=> w = "main"

Begin(w) ==
  /\ up
  /\ pc[w] = "idle" /\ Due(w)
  /\ Goto(w, "values")
  /\ overlapped' = (overlapped \/ \E o \in Writers \ {w} : pc[o] \in Saving)
  /\ IF overlapped'
       THEN saw' = Both(Nothing) /\ saved' = Nothing
       ELSE saw' = [saw EXCEPT ![w] = memory] /\ UNCHANGED saved
  /\ UNCHANGED <<up, stopping, robot, at, local, handle, grown, disk, bounds,
                 clashed, unread>>

\* public_snapshot copies the values, then iterates over raw_value.
CopyValues(w) ==
  /\ up
  /\ pc[w] = "values"
  /\ local' = [local EXCEPT ![w] = memory["state"]]
  /\ at' = [at EXCEPT ![w] = "state"]
  /\ Goto(w, "raw")
  /\ UNCHANGED <<up, stopping, robot, handle, grown, disk, bounds, history>>

\* The dictionary changed size during iteration: a RuntimeError, which
\* neither the loop nor shutdown catches.
CopyRaw(w) ==
  /\ up
  /\ pc[w] = "raw"
  /\ \/ w \in grown /\ Goto(w, "ended") /\ Failed(w) /\ Forgets(w)
     \/ w \notin grown /\ Goto(w, "open") /\ UNCHANGED <<saves, local>>
  /\ grown' = grown \ {w}
  /\ UNCHANGED <<up, stopping, robot, at, handle, disk, bounds, overlapped,
                 clashed>>

\* Mutant: the texts are forgotten.
AfterStateNothing(f) == None

\* The file after f, None after the last.
After(f) ==
  IF f = "state" /\ "map" \in Texts THEN "map"
  ELSE IF f # "track" /\ "track" \in Texts THEN "track" ELSE None

\* Mutant: the last file is not recognised.
AdvanceTooFar(w) ==
  /\ Goto(w, "open") /\ at' = [at EXCEPT ![w] = After(at[w])]
  /\ UNCHANGED saves

\* On to the next file, or the save is complete.  What an earlier save promised
\* of a text is still promised when there was none to save.
Advance(w) ==
  LET next == After(at[w])
  IN  IF next = None
        THEN /\ Goto(w, Rest(w)) /\ at' = [at EXCEPT ![w] = "state"]
             /\ saved' = [f \in Files |->
                            IF saw[w][f] = None THEN saved[f] ELSE saw[w][f]]
             /\ unread' = FALSE
             /\ saw' = [saw EXCEPT ![w] = Nothing]
        ELSE /\ Goto(w, "open") /\ at' = [at EXCEPT ![w] = next]
             /\ UNCHANGED saves

\* There is no map, or no track, to save.
SkipText(w) ==
  /\ up
  /\ pc[w] = "open"
  /\ memory[at[w]] = None
  /\ Advance(w)
  /\ UNCHANGED <<up, stopping, robot, local, handle, grown, disk, bounds,
                 overlapped, clashed>>

\* Mutant: the final file is written in place.
InPlace(w) == "final"

\* _atomic_write writes to a temporary file.
Target(w) == "tmp"

\* _atomic_write takes its content, creates or truncates its file.
Open(w) ==
  /\ up
  /\ pc[w] = "open"
  /\ memory[at[w]] # None
  /\ local' = IF at[w] = "state" THEN local
                                 ELSE [local EXCEPT ![w] = memory[at[w]]]
  /\ handle' = [handle EXCEPT ![w] = Target(w)]
  /\ IF Target(w) = "tmp"
       THEN tmp' = [tmp EXCEPT ![at[w]] = {}] /\ UNCHANGED final
       ELSE final' = [final EXCEPT ![at[w]] = {}] /\ UNCHANGED tmp
  /\ Goto(w, "write")
  /\ clashed' = (clashed \/ \E o \in Writers \ {w} :
                   pc[o] \in {"write", "replace"} /\ at[o] = at[w])
  /\ UNCHANGED <<up, stopping, robot, at, grown, bounds, overlapped, saves>>

\* What the file that w has open contains, and a change of it.
Held(w) ==
  CASE handle[w] = "tmp" -> tmp[at[w]]
    [] handle[w] = "final" -> final[at[w]]
    [] OTHER -> {}

Put(w, content) ==
  /\ tmp' = IF handle[w] = "tmp" THEN [tmp EXCEPT ![at[w]] = content] ELSE tmp
  /\ final' = IF handle[w] = "final"
                THEN [final EXCEPT ![at[w]] = content] ELSE final

Encodable(w) == \A v \in local[w] : <<at[w], v>> \notin foreign

\* The text is written from the start of the file and the file closed; the
\* end of a longer text that was there remains.
Write(w) ==
  /\ up
  /\ pc[w] = "write"
  /\ Encodable(w)
  /\ \E content \in {local[w], Held(w) \union local[w]} : Put(w, content)
  /\ handle' = [handle EXCEPT ![w] = None]
  /\ Goto(w, "replace") /\ Forgets(w)
  /\ UNCHANGED <<up, stopping, robot, at, grown, bounds, history>>

\* A UnicodeEncodeError is not an OSError: it ends the thread.
WriteRaises(w) ==
  /\ up
  /\ pc[w] = "write"
  /\ ~Encodable(w)
  /\ handle' = [handle EXCEPT ![w] = None]
  /\ Goto(w, "ended")
  /\ Failed(w) /\ Forgets(w)
  /\ UNCHANGED <<up, stopping, robot, at, grown, disk, bounds, overlapped,
                 clashed>>

\* The temporary file, whoever made it, becomes the final one; the other
\* writer may still have either of them open.
Replace(w) ==
  /\ up
  /\ pc[w] = "replace"
  /\ tmp[at[w]] # None
  /\ final' = [final EXCEPT ![at[w]] = tmp[at[w]]]
  /\ tmp' = [tmp EXCEPT ![at[w]] = None]
  /\ handle' = [o \in Writers |->
       CASE handle[o] = "tmp" /\ at[o] = at[w] -> "final"
         [] handle[o] = "final" /\ at[o] = at[w] -> "gone"
         [] OTHER -> handle[o]]
  /\ Advance(w)
  /\ UNCHANGED <<up, stopping, robot, local, grown, bounds, overlapped, clashed>>

\* The other writer has renamed the temporary file: FileNotFoundError.
ReplaceFails(w) ==
  /\ up
  /\ pc[w] = "replace"
  /\ tmp[at[w]] = None
  /\ Goto(w, Rest(w)) /\ at' = [at EXCEPT ![w] = "state"]
  /\ Failed(w)
  /\ UNCHANGED <<up, stopping, robot, local, handle, grown, disk, bounds,
                 overlapped, clashed>>

\* An OSError (disk full, permissions, ...): both callers of save log it.  A
\* write may have stored a part of its text.
Fault(w) ==
  /\ up
  /\ pc[w] \in {"values"} \union InFile
  /\ faults < MaxFaults
  /\ faults' = faults + 1
  /\ \/ UNCHANGED disk
     \/ pc[w] = "write" /\ Held(w) # {} /\ Put(w, Held(w) \union local[w])
  /\ handle' = [handle EXCEPT ![w] = None]
  /\ Goto(w, Rest(w)) /\ at' = [at EXCEPT ![w] = "state"]
  /\ Failed(w) /\ Forgets(w)
  /\ UNCHANGED <<up, stopping, robot, grown, restarts, overlapped, clashed>>

-----------------------------------------------------------------------------
(* The process: RobotRuntime.                                               *)

\* SIGTERM or SIGINT.
Stop ==
  /\ up
  /\ ~stopping
  /\ stopping' = TRUE
  /\ UNCHANGED <<up, robot, writer, grown, disk, bounds, history>>

\* The loop leaves when it finds stop_event set.
LoopEnds ==
  /\ up
  /\ stopping
  /\ pc["loop"] = "idle"
  /\ Goto("loop", "ended")
  /\ UNCHANGED <<up, stopping, robot, at, local, handle, grown, disk, bounds,
                 history>>

\* The process is gone, and what it had in memory: killed at any time, or main
\* returned from shutdown, which ends the daemon threads wherever they are.
Exit ==
  /\ up
  /\ up' = FALSE
  /\ memory' = Fresh
  /\ at' = Both("state") /\ local' = Both(None) /\ handle' = Both(None)
  /\ grown' = {} /\ saw' = Both(Nothing)
  /\ UNCHANGED <<stopping, foreign, stores, pc, disk, bounds, overlapped,
                 clashed, saved, unread>>

\* Mutant: a new process starts from nothing.
NothingLoaded(f) == Fresh[f]

\* What load_into takes from a file it can read: a whole state, and any text.
Loaded(f) ==
  IF f = "state" /\ ~\E v \in 0..stores : final[f] = {v}
    THEN Fresh[f] ELSE final[f]

\* A new process.  The error of a read is swallowed and its file left as it
\* is: the service goes on without what the file holds.
Restart ==
  /\ ~up
  /\ restarts < MaxRestarts
  /\ restarts' = restarts + 1
  /\ up' = TRUE /\ stopping' = FALSE
  /\ \E failed \in SUBSET Files :
       /\ failed # {} => faults < MaxFaults
       /\ faults' = IF failed = {} THEN faults ELSE faults + 1
       /\ memory' = [f \in Files |-> IF f \in failed THEN Fresh[f] ELSE Loaded(f)]
       /\ unread' = (unread \/ ("state" \in failed /\ final["state"] # None))
  /\ pc' = Both("idle")
  /\ UNCHANGED <<foreign, stores, at, local, handle, grown, disk, overlapped,
                 clashed, saw, saved>>

Save(w) ==
  \/ Begin(w) \/ CopyValues(w) \/ CopyRaw(w) \/ SkipText(w) \/ Open(w)
  \/ Write(w) \/ WriteRaises(w) \/ Replace(w) \/ ReplaceFails(w)

\* The process is stopped and not started again.
Done == ~up /\ restarts = MaxRestarts /\ UNCHANGED vars

Next ==
  \/ StoreRaw \/ StoreValue \/ \E f \in Texts : StoreText(f)
  \/ \E w \in Writers : Save(w) \/ Fault(w)
  \/ Stop \/ LoopEnds \/ Exit \/ Restart \/ Done

Spec == Init /\ [][Next]_vars

\* A running thread goes on.  Robots, signals, faults and restarts are not bound
\* to happen.
FairSpec ==
  /\ Spec
  /\ \A w \in Writers : WF_vars(Save(w))

-----------------------------------------------------------------------------
(* Properties.                                                              *)

\* Every variable holds a value of its kind.
TypeOK ==
  /\ up \in BOOLEAN /\ stopping \in BOOLEAN
  /\ memory \in [Files -> Value]
  /\ foreign \subseteq Texts \X (0..MaxStores)
  /\ stores \in 0..MaxStores
  /\ pc \in [Writers -> Place]
  /\ at \in [Writers -> Files]
  /\ local \in [Writers -> Value]
  /\ handle \in [Writers -> {"tmp", "final", "gone", None}]
  /\ grown \subseteq Writers
  /\ tmp \in [Files -> Value] /\ final \in [Files -> Value]
  /\ faults \in 0..MaxFaults /\ restarts \in 0..MaxRestarts
  /\ overlapped \in BOOLEAN /\ clashed \in BOOLEAN
  /\ saw \in [Writers -> [Files -> Value]] /\ saved \in [Files -> Value]
  /\ unread \in BOOLEAN

Whole(value) == value = None \/ \E v \in 0..MaxStores : value = {v}

\* As long as the final save of a shutdown and the loop did not use the same
\* temporary file at the same time, what a restart finds is a complete text
\* of one store, not cut and not mixed with another's, whatever crashed or
\* failed half way (_atomic_write, persistence.py:64-68).  A state may still be
\* that of a moment between the stores of one robot message (state.py:58-62).
WholeUnlessClash == ~clashed => \A f \in Files : Whole(final[f])

\* At least as recent as.
Covers(new, old) ==
  old # None => new # None /\ \A v \in old : \E u \in new : u >= v

\* The state that f holds may be given up: a start could not read it, and
\* load_into goes on as if there were none (persistence.py:23-29).
GivenUp(f) == f = "state" /\ unread

\* The files never go back to older content, over faults of writes and reads,
\* crashes and restarts, but for one case: the error of reading the state file
\* at a start is swallowed, and until a save is completed the state file may
\* be replaced by an older, even an empty, one.  The texts do not go back even
\* then: a text that was not read is not saved.  Nothing is said once a
\* shutdown overlapped a save of the loop.
FilesMoveForward ==
  [][~overlapped' =>
       \A f \in Files : GivenUp(f) \/ Covers(final'[f], final[f])]_vars

\* What was in memory when a save began that then reported no error, in the loop
\* or in a shutdown (runtime.py:159-162, 171), is in the files ever after, over
\* faults, kills between any two of the three files, and restarts: what a
\* restart mixes is at most one save that was cut off.  The state is excepted
\* after a start that could not read it, up to the next completed save.
\* Unless two saves overlapped.
CompletedSavesLast ==
  ~overlapped => \A f \in Files : GivenUp(f) \/ Covers(final[f], saved[f])

\* While the loop lives, the files catch up with the memory, after OSErrors
\* as well: it retries in its next round (runtime.py:169-173).
LoopCatchesUp ==
  <>[](up /\ ~stopping /\ pc["loop"] # "ended")
    => <>[](\A f \in Files : Covers(final[f], memory[f]))

\* Not true of the code: the loop saves until the service stops.  An
\* exception other than OSError ends it for good (runtime.py:170-173).
LoopSurvives == up /\ ~stopping => pc["loop"] # "ended"

\* Not true of the code: after an orderly shutdown, every file a restart finds
\* is a complete text.  The loop is not stopped before the final save, and
\* the two writers share the names of the temporary files (persistence.py:66).
ShutdownLeavesWholeFiles ==
  ~up /\ pc["main"] = "ended" => \A f \in Files : Whole(final[f])
=============================================================================
