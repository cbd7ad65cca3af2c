------------------------- MODULE Persistence_proofs --------------------------
(* Proofs about Persistence: what a restart finds, for both text files, any  *)
(* number of stores, faults of reads and writes, and restarts.                *)
EXTENDS Persistence, TLAPS

\* What the stores so far can have left in memory or in a file.
Known == {None} \union SUBSET (0..stores)

KnownOK ==
  /\ memory \in [Files -> Known] /\ memory["state"] # None
  /\ tmp \in [Files -> Known] /\ final \in [Files -> Known]
  /\ local \in [Writers -> Known]

\* Main saves when it is to stop; the loop does not begin then.
OrderOK ==
  /\ clashed => overlapped
  /\ up /\ pc["main"] # "idle" =>
       stopping /\ (~overlapped => pc["loop"] \notin Saving)

\* What w has taken from the memory for the file it is at, or brings there.
Carries(w) ==
  pc[w] \in {"raw", "write", "replace"} \/ (pc[w] = "open" /\ at[w] = "state")
Carried(w) == IF pc[w] = "replace" THEN tmp[at[w]] ELSE local[w]

PlaceOK(w) ==
  /\ handle[w] # None => pc[w] = "write"
  /\ handle[w] = "tmp" => tmp[at[w]] # None
  /\ handle[w] = "final" => final[at[w]] # None
  /\ pc[w] = "raw" => at[w] = "state"
  /\ Carries(w) /\ pc[w] # "replace" => local[w] # None

\* A version is never cut or mixed, unless two writers had one file.
Apart(w, o) ==
  ~(pc[w] \in {"write", "replace"} /\ pc[o] \in {"write", "replace"}
      /\ at[w] = at[o])
WholeOK ==
  /\ \A f \in Files : Whole(memory[f]) /\ Whole(final[f])
  /\ up => \A w \in Writers :
       /\ Carries(w) => Whole(Carried(w))
       /\ pc[w] = "write" => handle[w] = "tmp" /\ tmp[at[w]] = {}
  /\ up => Apart("loop", "main")

\* Memory, what is carried, and the files, from new to old.  A file that could
\* not be read has no part in it.
Unsaved(f) == GivenUp(f) \/ memory[f] = None
ForwardOK ==
  up => /\ \A f \in Files : Unsaved(f) \/ Covers(memory[f], final[f])
        /\ \A w \in Writers : Carries(w) =>
             /\ Covers(memory[at[w]], Carried(w))
             /\ GivenUp(at[w]) \/ Covers(Carried(w), final[at[w]])

\* The files before f in the order of save.
Earlier(f) ==
  {g \in Files : (g = "state" /\ f # "state") \/ (g = "map" /\ f = "track")}

\* How far the save of w has come, and what the last one has left.  Once the
\* state is saved, its file is no longer newer than the memory.
SaveOK(w) == pc[w] \in Saving =>
  /\ saw[w]["state"] # None
  /\ pc[w] \in InFile /\ at[w] # "state" =>
       Covers(memory["state"], final["state"])
  /\ \A f \in Files : Covers(memory[f], saw[w][f])
  /\ Carries(w) => Covers(Carried(w), saw[w][at[w]])
  /\ pc[w] \in InFile => \A f \in Earlier(at[w]) : Covers(final[f], saw[w][f])
SavedOK == \A f \in Files : GivenUp(f) \/ Covers(final[f], saved[f])
SavesOK == (up => \A w \in Writers : SaveOK(w)) /\ SavedOK

IInv ==
  /\ TypeOK /\ KnownOK /\ OrderOK
  /\ \A w \in Writers : IF up THEN PlaceOK(w) ELSE handle[w] = None
  /\ ~clashed => WholeOK
  /\ ~overlapped => ForwardOK /\ SavesOK

-----------------------------------------------------------------------------

\* The names of files, and what None is not.
LEMMA Names ==
  /\ "state" \in Files /\ Texts \subseteq Files /\ None \notin Files
  /\ Files \subseteq {"state", "map", "track"}
  /\ "loop" \in Writers /\ "main" \in Writers
  /\ None \notin {"tmp", "final", "gone"}
  /\ \A c \in SUBSET (0..MaxStores) : c # None
BY TextFiles, NoneIsNoName, NoneIsNoContent DEF Files, Writers, Content

\* The file after f, and the files that come before it.
LEMMA AfterFile ==
  ASSUME NEW f \in Files
  PROVE  /\ After(f) = None => \A g \in Files : g = f \/ g \in Earlier(f)
         /\ After(f) # None =>
              /\ After(f) \in Texts /\ After(f) # "state" /\ After(f) # f
              /\ \A g \in Earlier(After(f)) : g = f \/ g \in Earlier(f)
BY Names, TextFiles DEF After, Earlier, Files

\* Covers orders contents by how recent they are.
LEMMA CoversTransitive ==
  ASSUME NEW a \in Value, NEW b \in Value, NEW c \in Value,
         Covers(a, b), Covers(b, c)
  PROVE  Covers(a, c)
<1>1. CASE c = None
  BY <1>1 DEF Covers
<1>2. CASE c # None
  <2>1. a \in Content /\ b \in Content /\ c \in Content
    BY <1>2 DEF Covers, Value
  <2>2. ASSUME NEW v \in c PROVE \E u \in a : u >= v
    <3>1. PICK x \in b : x >= v
      BY <1>2 DEF Covers
    <3>2. PICK u \in a : u >= x
      BY <1>2 DEF Covers
    <3>3. u \in Nat /\ x \in Nat /\ v \in Nat
      BY <2>1 DEF Content
    <3> QED
      BY <3>1, <3>2, <3>3
  <2> QED
    BY <1>2, <2>2 DEF Covers
<1> QED
  BY <1>1, <1>2

LEMMA CoversItself ==
  ASSUME NEW a \in Value
  PROVE  Covers(a, a) /\ Covers(a, None)
BY DEF Covers, Value, Content

\* A longer content, and the newest one.
LEMMA CoversMore ==
  ASSUME NEW a \in Content, NEW b \in Content, NEW c \in Value, Covers(a, c)
  PROVE  Covers(b \union a, c)
BY Names DEF Covers, Content

LEMMA NewestCovers ==
  ASSUME NEW n \in 0..MaxStores, NEW c \in {None} \union SUBSET (0..n)
  PROVE  Covers({n}, c)
BY Names, Bounds DEF Covers

LEMMA KnownIsValue ==
  ASSUME stores \in 0..MaxStores
  PROVE  Known \subseteq Value
BY Bounds DEF Known, Value, Content

\* The invariant holds at first.
LEMMA InvInit == Init => IInv
<1> SUFFICES ASSUME Init PROVE IInv
  OBVIOUS
<1> USE DEF Init
<1>1. {0} \in Known /\ {0} \in Value /\ {0} # None /\ {0} \in Content
  BY Bounds, Names DEF Known, Value, Content
<1>2. TypeOK
  <2>1. Fresh \in [Files -> Value] /\ Nothing \in [Files -> Value]
    BY <1>1 DEF Fresh, Nothing, Value
  <2>2. /\ pc \in [Writers -> Place] /\ at \in [Writers -> Files]
        /\ local \in [Writers -> Value]
        /\ handle \in [Writers -> {"tmp", "final", "gone", None}]
        /\ saw \in [Writers -> [Files -> Value]]
    BY <2>1, Names DEF Both, Place, Value
  <2>3. 0 \in 0..MaxStores /\ 0 \in 0..MaxFaults /\ 0 \in 0..MaxRestarts
    BY Bounds
  <2> QED
    BY <2>1, <2>2, <2>3 DEF TypeOK
<1>3. KnownOK
  BY <1>1, Names DEF KnownOK, Fresh, Nothing, Both, Known
<1>4. OrderOK
  BY DEF OrderOK, Both, Writers
<1>5. \A w \in Writers : PlaceOK(w) /\ ~Carries(w) /\ pc[w] = "idle"
  BY Names DEF PlaceOK, Carries, Both
<1>6. WholeOK
  <2>1. \A f \in Files : Whole(memory[f]) /\ Whole(final[f])
    BY Bounds DEF Whole, Fresh, Nothing
  <2> QED
    BY <1>5, <2>1, Names DEF WholeOK, Apart
<1>7. ForwardOK
  BY <1>5 DEF ForwardOK, GivenUp, Unsaved, Covers, Nothing
<1>8. SavesOK
  BY <1>5, Names DEF SavesOK, SaveOK, SavedOK, GivenUp, Saving, InFile, Nothing, Covers
<1> QED
  BY <1>2, <1>3, <1>4, <1>5, <1>6, <1>7, <1>8 DEF IInv

-----------------------------------------------------------------------------
(* Steps of a writer.                                                       *)

\* Only w moves, and not the memory.
Alone(w) ==
  /\ UNCHANGED <<up, stopping, robot>>
  /\ pc' \in [Writers -> Place] /\ at' \in [Writers -> Files]
  /\ local' \in [Writers -> Known]
  /\ handle' \in [Writers -> {"tmp", "final", "gone", None}]
  /\ \A o \in Writers : o # w =>
       pc'[o] = pc[o] /\ at'[o] = at[o] /\ local'[o] = local[o]

\* The other writer has its file as before.
KeepsHandles(w) == \A o \in Writers : o # w => handle'[o] = handle[o]

Remembers == (clashed => clashed') /\ (overlapped => overlapped')

LEMMA Types ==
  ASSUME IInv
  PROVE  /\ pc \in [Writers -> Place] /\ at \in [Writers -> Files]
         /\ local \in [Writers -> Known] /\ local \in [Writers -> Value]
         /\ handle \in [Writers -> {"tmp", "final", "gone", None}]
         /\ memory \in [Files -> Known] /\ memory \in [Files -> Value]
         /\ tmp \in [Files -> Known] /\ tmp \in [Files -> Value]
         /\ final \in [Files -> Known] /\ final \in [Files -> Value]
         /\ saw \in [Writers -> [Files -> Value]] /\ saved \in [Files -> Value]
         /\ stores \in 0..MaxStores /\ unread \in BOOLEAN
         /\ None \in Known /\ Known \subseteq Value
BY KnownIsValue DEF IInv, TypeOK, KnownOK, Known

\* What is left of the types after a step of a writer alone.
LEMMA AloneTypes ==
  ASSUME IInv, NEW w \in Writers, Alone(w),
         tmp' \in [Files -> Known], final' \in [Files -> Known],
         grown' \subseteq Writers, faults' \in 0..MaxFaults, restarts' = restarts,
         overlapped' \in BOOLEAN, clashed' \in BOOLEAN,
         saw' \in [Writers -> [Files -> Value]], saved' \in [Files -> Value],
         unread' \in BOOLEAN
  PROVE  TypeOK' /\ KnownOK'
<1>1. Known' = Known /\ UNCHANGED <<up, stopping, memory, foreign, stores>>
  BY DEF Known, Alone, robot
<1>2. tmp' \in [Files -> Value] /\ final' \in [Files -> Value]
        /\ local' \in [Writers -> Value]
  BY Types DEF Alone
<1>3. KnownOK'
  BY <1>1 DEF IInv, KnownOK, Alone
<1> QED
  BY <1>1, <1>2, <1>3 DEF IInv, TypeOK, Alone

\* A writer that is saving stays where it may be.
LEMMA AloneOrder ==
  ASSUME IInv, NEW w \in Writers, Alone(w), up, pc[w] \in Saving, Remembers,
         clashed' => clashed \/ overlapped'
  PROVE  OrderOK'
<1>1. UNCHANGED <<up, stopping>> /\ pc[w] # "idle"
  BY DEF Alone, Saving, InFile
<1>2. w = "loop" \/ w = "main"
  BY DEF Writers
<1> QED
  BY <1>1, <1>2, Names DEF IInv, OrderOK, Alone, Remembers

\* Without an overlap, one writer saves at a time.
LEMMA OtherRests ==
  ASSUME IInv, up, ~overlapped, NEW w \in Writers, NEW o \in Writers, o # w,
         pc[w] \in Saving
  PROVE  pc[o] \notin Saving
<1>1. "idle" \notin Saving
  BY DEF Saving, InFile
<1> QED
  BY <1>1 DEF IInv, OrderOK, Writers

\* A step that leaves the disk alone: w goes to its next file, or is done.
LEMMA Quiet ==
  ASSUME IInv, NEW w \in Writers, Alone(w), KeepsHandles(w), up,
         UNCHANGED disk, Remembers,
         clashed' = clashed, pc'[w] \notin {"write", "replace"},
         handle'[w] = None, pc'[w] = "raw" => at'[w] = "state",
         Carries(w)' => /\ local'[w] # None
                        /\ ~clashed => Whole(local'[w])
                        /\ ~overlapped => /\ Covers(memory[at'[w]], local'[w])
                                          /\ \/ GivenUp(at'[w])
                                             \/ Covers(local'[w], final[at'[w]])
  PROVE  /\ \A o \in Writers : PlaceOK(o)'
         /\ ~clashed' => WholeOK'
         /\ ~overlapped' /\ unread' = unread => ForwardOK'
<1>1. UNCHANGED <<up, memory, tmp, final>>
  BY DEF Alone, robot, disk
<1>2. ASSUME NEW o \in Writers, o # w
      PROVE  /\ pc'[o] = pc[o] /\ at'[o] = at[o] /\ local'[o] = local[o]
             /\ handle'[o] = handle[o]
             /\ Carries(o)' = Carries(o) /\ Carried(o)' = Carried(o)
  BY <1>1, <1>2 DEF Alone, KeepsHandles, Carries, Carried
<1>3. Carried(w)' = local'[w]
  BY DEF Carried
<1>4. ASSUME NEW o \in Writers PROVE PlaceOK(o)'
  <2>1. CASE o = w
    BY <2>1, Names DEF PlaceOK, Carries
  <2>2. CASE o # w
    BY <1>1, <1>2, <2>2 DEF IInv, PlaceOK, Carries
  <2> QED
    BY <2>1, <2>2
<1>5. ASSUME ~clashed' PROVE WholeOK'
  <2>1. WholeOK
    BY <1>5 DEF IInv
  <2>2. Apart("loop", "main")'
    BY <1>2, <2>1, Names DEF WholeOK, Apart, Writers
  <2>3. ASSUME NEW o \in Writers
        PROVE  /\ Carries(o)' => Whole(Carried(o)')
               /\ pc'[o] = "write" => handle'[o] = "tmp" /\ tmp'[at'[o]] = {}
    <3>1. CASE o = w
      BY <1>3, <1>5, <3>1
    <3>2. CASE o # w
      BY <1>1, <1>2, <2>1, <3>2 DEF WholeOK
    <3> QED
      BY <3>1, <3>2
  <2> QED
    BY <1>1, <2>1, <2>2, <2>3 DEF WholeOK, Whole
<1>6. ASSUME ~overlapped', unread' = unread PROVE ForwardOK'
  <2>1. ForwardOK
    BY <1>6 DEF IInv, Remembers
  <2>2. ASSUME NEW o \in Writers
        PROVE  Carries(o)' =>
                 /\ Covers(memory[at'[o]], Carried(o)')
                 /\ GivenUp(at[o])' \/ Covers(Carried(o)', final'[at'[o]])
    <3>1. CASE o = w
      BY <1>1, <1>3, <1>6, <3>1 DEF Remembers, GivenUp
    <3>2. CASE o # w
      BY <1>1, <1>2, <1>6, <2>1, <3>2 DEF ForwardOK, GivenUp
    <3> QED
      BY <3>1, <3>2
  <2> QED
    BY <1>1, <1>6, <2>1, <2>2 DEF ForwardOK, GivenUp, Unsaved, Covers
<1> QED
  BY <1>4, <1>5, <1>6

\* A save of w, which is then the only one, makes its progress.
LEMMA SavesKept ==
  ASSUME IInv, NEW w \in Writers, Alone(w), up, pc[w] \in Saving,
         UNCHANGED overlapped,
         \A o \in Writers : o # w => saw'[o] = saw[o],
         ~overlapped => SaveOK(w)' /\ SavedOK'
  PROVE  ~overlapped' => SavesOK'
<1> SUFFICES ASSUME ~overlapped' PROVE SavesOK'
  OBVIOUS
<1>1. ASSUME NEW o \in Writers, o # w PROVE SaveOK(o)'
  <2>1. pc[o] \notin Saving
    BY <1>1, OtherRests
  <2> QED
    BY <1>1, <2>1 DEF Alone, SaveOK
<1> QED
  BY <1>1 DEF SavesOK

\* A save that fails leaves what the last one without an error has left.
LEMMA FailedSave ==
  ASSUME IInv, NEW w \in Writers, Alone(w), up, pc[w] \in Saving,
         UNCHANGED <<overlapped, final>>, Failed(w), pc'[w] \notin Saving
  PROVE  ~overlapped' => SavesOK'
<1>1. SaveOK(w)' /\ \A o \in Writers : o # w => saw'[o] = saw[o]
  BY Types DEF SaveOK, Failed
<1>2. ~overlapped => SavedOK'
  BY DEF IInv, SavesOK, SavedOK, GivenUp, Failed, Covers
<1> QED
  BY <1>1, <1>2, SavesKept

\* A save begins: nothing it has to save is newer than the memory.
LEMMA BeginKeeps ==
  ASSUME IInv, NEW w \in Writers, Begin(w)
  PROVE  IInv'
<1>1. /\ Alone(w) /\ KeepsHandles(w) /\ Remembers /\ up /\ pc[w] = "idle"
      /\ pc'[w] = "values" /\ handle'[w] = None
      /\ UNCHANGED <<disk, grown, bounds, clashed, memory, up, stopping, unread>>
      /\ IF overlapped' THEN saw' = Both(Nothing) /\ saved' = Nothing
           ELSE saw' = [saw EXCEPT ![w] = memory] /\ saved' = saved
      /\ (stopping <=> w = "main")
      /\ overlapped' = (overlapped \/ \E o \in Writers \ {w} : pc[o] \in Saving)
  BY Types, Names DEF Begin, Due, Goto, Alone, KeepsHandles, Remembers, writer,
    robot, Place, Saving, IInv, PlaceOK
<1>2. TypeOK' /\ KnownOK'
  <2>1. saw' \in [Writers -> [Files -> Value]] /\ saved' \in [Files -> Value]
    BY <1>1, Types DEF Both, Nothing
  <2>2. overlapped' \in BOOLEAN /\ clashed' \in BOOLEAN
    BY <1>1 DEF IInv, TypeOK
  <2> QED
    BY <1>1, <2>1, <2>2, AloneTypes, Types DEF disk, bounds, IInv, TypeOK
<1>3. OrderOK'
  <2>1. CASE w = "main"
    <3>1. pc'["loop"] = pc["loop"]
      BY <2>1, <1>1, Names DEF Alone
    <3>2. ~overlapped' => pc["loop"] \notin Saving
      BY <2>1, <1>1, Names
    <3> QED
      BY <1>1, <2>1, <3>1, <3>2 DEF IInv, OrderOK
  <2>2. CASE w = "loop"
    <3>1. pc'["main"] = pc["main"] /\ pc["main"] = "idle"
      BY <2>2, <1>1, Names DEF Alone, IInv, OrderOK
    <3> QED
      BY <1>1, <3>1 DEF IInv, OrderOK
  <2> QED
    BY <2>1, <2>2 DEF Writers
<1>4. ~Carries(w)'
  BY <1>1 DEF Carries
<1>5. /\ \A o \in Writers : PlaceOK(o)'
      /\ ~clashed' => WholeOK'
      /\ ~overlapped' => ForwardOK'
  BY <1>1, <1>4, Quiet
<1>6. ~overlapped' => SavesOK'
  <2> SUFFICES ASSUME ~overlapped' PROVE SavesOK'
    OBVIOUS
  <2>1. /\ ~overlapped /\ saw' = [saw EXCEPT ![w] = memory] /\ saved' = saved
        /\ final' = final /\ unread' = unread
    BY <1>1 DEF disk
  <2>2. SaveOK(w)'
    <3>1. \A f \in Files : Covers(memory'[f], saw'[w][f])
      BY <1>1, <2>1, Types, CoversItself
    <3>2. saw'[w]["state"] # None
      BY <2>1, Types DEF IInv, KnownOK
    <3> QED
      BY <1>1, <1>4, <2>1, <3>1, <3>2 DEF SaveOK, InFile
  <2>3. ASSUME NEW o \in Writers, o # w PROVE SaveOK(o)'
    BY <1>1, <2>3 DEF SaveOK, Alone
  <2>4. SavedOK'
    BY <2>1 DEF IInv, SavesOK, SavedOK, GivenUp, Covers
  <2> QED
    BY <2>2, <2>3, <2>4 DEF SavesOK
<1> QED
  BY <1>1, <1>2, <1>3, <1>5, <1>6 DEF IInv, Alone

\* The values are copied: they are newer than the file, and than what main saw.
LEMMA CopyValuesKeeps ==
  ASSUME IInv, NEW w \in Writers, CopyValues(w)
  PROVE  IInv'
<1>1. /\ Alone(w) /\ KeepsHandles(w) /\ Remembers /\ up /\ pc[w] = "values"
      /\ pc'[w] = "raw" /\ at'[w] = "state" /\ local'[w] = memory["state"]
      /\ handle'[w] = None
      /\ UNCHANGED <<disk, grown, bounds, history, memory>>
  BY Types, Names DEF CopyValues, Goto, Alone, KeepsHandles, Remembers,
    robot, history, Place, Saving, IInv, PlaceOK
<1>2. TypeOK' /\ KnownOK'
  BY <1>1, AloneTypes, Types DEF IInv, TypeOK, disk, bounds, history, saves
<1>3. OrderOK'
  BY <1>1, AloneOrder DEF Saving, history
<1>4. /\ local'[w] # None /\ (~clashed => Whole(local'[w]))
      /\ ~overlapped => /\ Covers(memory[at'[w]], local'[w])
                        /\ GivenUp(at'[w]) \/ Covers(local'[w], final[at'[w]])
  BY <1>1, Names, Types, CoversItself DEF IInv, KnownOK, WholeOK, ForwardOK,
    Unsaved
<1>5. /\ \A o \in Writers : PlaceOK(o)'
      /\ ~clashed' => WholeOK'
      /\ ~overlapped' => ForwardOK'
  BY <1>1, <1>4, Quiet DEF history, saves
<1>6. ~overlapped' => SavesOK'
  <2>1. ~overlapped => SaveOK(w)' /\ SavedOK'
    <3>1. Carried(w)' = memory["state"] /\ memory' = memory /\ saw' = saw
            /\ saved' = saved /\ unread' = unread /\ final' = final /\ "state" \in Files
      BY <1>1, Names DEF Carried, history, saves, disk
    <3>2. ~overlapped => SaveOK(w) /\ SavedOK
      BY <1>1 DEF IInv, SavesOK
    <3> QED
      BY <1>1, <3>1, <3>2 DEF SaveOK, SavedOK, GivenUp, Saving, InFile, Covers
  <2> QED
    BY <1>1, <2>1, SavesKept DEF history, saves, Saving
<1> QED
  BY <1>1, <1>2, <1>3, <1>5, <1>6 DEF IInv, Alone

\* The iteration of raw_value ends or raises.
LEMMA CopyRawKeeps ==
  ASSUME IInv, NEW w \in Writers, CopyRaw(w)
  PROVE  IInv'
<1>1. /\ Alone(w) /\ KeepsHandles(w) /\ Remembers /\ up /\ pc[w] = "raw"
      /\ pc[w] \in Saving /\ at[w] = "state" /\ at'[w] = "state"
      /\ handle'[w] = None /\ grown' \subseteq Writers
      /\ UNCHANGED <<disk, bounds, overlapped, clashed, memory, unread>>
  <2>1. PlaceOK(w) /\ grown \subseteq Writers /\ up
    BY DEF CopyRaw, IInv, TypeOK
  <2>2. /\ pc' \in [Writers -> Place] /\ local' \in [Writers -> Known]
        /\ \A o \in Writers : o # w => pc'[o] = pc[o] /\ local'[o] = local[o]
    <3>1. {"ended", "open"} \subseteq Place
      BY DEF Place, Saving, InFile
    <3> QED
      BY <3>1, Types DEF CopyRaw, Goto, Forgets
  <2> QED
    BY <2>1, <2>2, Types DEF CopyRaw, Failed, saves, Alone, KeepsHandles,
      Remembers, robot, Saving, PlaceOK
<1>2. \/ pc'[w] = "ended" /\ Failed(w)
      \/ pc'[w] = "open" /\ UNCHANGED <<saves, local>>
  BY Types DEF CopyRaw, Goto
<1>3. TypeOK' /\ KnownOK'
  <2>1. saw' \in [Writers -> [Files -> Value]] /\ saved' \in [Files -> Value]
    BY <1>2, Types DEF Failed, Nothing, saves
  <2> QED
    BY <1>1, <2>1, AloneTypes, Types DEF IInv, TypeOK, disk, bounds
<1>4. OrderOK'
  BY <1>1, AloneOrder
<1>5. Carries(w)' => /\ local'[w] = local[w] /\ local'[w] # None
                     /\ ~clashed => Whole(local'[w])
                     /\ ~overlapped =>
                          /\ Covers(memory[at'[w]], local'[w])
                          /\ GivenUp(at'[w]) \/ Covers(local'[w], final[at'[w]])
  <2>1. Carries(w) /\ Carried(w) = local[w]
    BY <1>1 DEF Carries, Carried
  <2>2. local[w] # None /\ (~clashed => Whole(local[w]))
          /\ (~overlapped =>
                /\ Covers(memory["state"], local[w])
                /\ GivenUp("state") \/ Covers(local[w], final["state"]))
    BY <1>1, <2>1 DEF IInv, PlaceOK, WholeOK, ForwardOK
  <2> QED
    BY <1>1, <1>2, <2>2 DEF Carries
<1>6. /\ \A o \in Writers : PlaceOK(o)'
      /\ ~clashed' => WholeOK'
      /\ ~overlapped' => ForwardOK'
  <2>1. pc'[w] \notin {"write", "replace", "raw"}
    BY <1>2
  <2> QED
    BY <1>1, <1>5, <2>1, Quiet
<1>7. ~overlapped' => SavesOK'
  <2>1. CASE pc'[w] = "ended" /\ Failed(w)
    BY <1>1, <2>1, FailedSave DEF Saving, InFile, disk
  <2>2. CASE pc'[w] = "open" /\ UNCHANGED <<saves, local>>
    <3>1. /\ Carries(w) /\ Carried(w) = local[w] /\ Carried(w)' = local[w]
          /\ saw' = saw /\ saved' = saved /\ final' = final /\ memory' = memory
      BY <1>1, <2>2 DEF Carries, Carried, saves, disk
    <3>2. ~overlapped => SaveOK(w) /\ SavedOK
      BY <1>1 DEF IInv, SavesOK
    <3>3. ~overlapped => SaveOK(w)' /\ SavedOK'
      BY <1>1, <3>1, <3>2 DEF SaveOK, SavedOK, GivenUp, Earlier, Covers
    <3> QED
      BY <1>1, <3>1, <3>3, SavesKept
  <2> QED
    BY <1>2, <2>1, <2>2
<1> QED
  BY <1>1, <1>3, <1>4, <1>6, <1>7 DEF IInv, Alone

\* w is done with a file: where that leaves it.
LEMMA Advanced ==
  ASSUME IInv, NEW w \in Writers, Advance(w)
  PROVE  /\ pc' \in [Writers -> Place] /\ at' \in [Writers -> Files]
         /\ \A o \in Writers : o # w => pc'[o] = pc[o] /\ at'[o] = at[o]
         /\ \A o \in Writers : o # w => saw'[o] = saw[o]
         /\ saw' \in [Writers -> [Files -> Value]] /\ saved' \in [Files -> Value]
         /\ unread' \in BOOLEAN
         /\ \/ /\ After(at[w]) = None /\ pc'[w] = Rest(w) /\ at'[w] = "state"
               /\ \A f \in Files :
                    saved'[f] = IF saw[w][f] = None THEN saved[f] ELSE saw[w][f]
               /\ unread' = FALSE
            \/ /\ After(at[w]) # None /\ pc'[w] = "open"
               /\ at'[w] = After(at[w]) /\ at'[w] # "state"
               /\ saw' = saw /\ saved' = saved /\ unread' = unread
         /\ pc'[w] \notin {"write", "replace", "raw"} /\ ~Carries(w)'
<1>1. at[w] \in Files
  BY Types
<1>2. /\ After(at[w]) # None => After(at[w]) \in Files /\ After(at[w]) # "state"
      /\ Rest(w) \in {"idle", "ended"} /\ {"idle", "ended", "open"} \subseteq Place
  BY <1>1, AfterFile, Names DEF Rest, Place, Saving, InFile
<1>3. CASE After(at[w]) = None
  <2>1. /\ pc' = [pc EXCEPT ![w] = Rest(w)] /\ at' = [at EXCEPT ![w] = "state"]
        /\ saved' = [f \in Files |->
                       IF saw[w][f] = None THEN saved[f] ELSE saw[w][f]]
        /\ unread' = FALSE /\ saw' = [saw EXCEPT ![w] = Nothing]
    BY <1>3 DEF Advance, Goto
  <2>2. saved' \in [Files -> Value]
    BY <2>1, Types
  <2>3. Nothing \in [Files -> Value]
    BY DEF Nothing, Value
  <2>4. saw' \in [Writers -> [Files -> Value]]
    BY <2>1, <2>3, Types
  <2> QED
    BY <1>1, <1>2, <1>3, <2>1, <2>2, <2>4, Types, Names DEF Carries
<1>4. CASE After(at[w]) # None
  BY <1>1, <1>2, <1>4, Types, Names DEF Advance, Goto, Carries, saves
<1> QED
  BY <1>3, <1>4

\* The save of w is done with a file that covers what it had to.
LEMMA SaveAdvanced ==
  ASSUME IInv, NEW w \in Writers, Advance(w), Alone(w), up, pc[w] \in Saving,
         UNCHANGED overlapped,
         ~overlapped =>
           /\ \A f \in Files : Covers(memory[f], saw[w][f])
           /\ \A f \in Earlier(at[w]) : Covers(final'[f], saw[w][f])
           /\ Covers(final'[at[w]], saw[w][at[w]])
           /\ saw[w]["state"] # None
           /\ Covers(memory["state"], final'["state"])
           /\ \A f \in Files : GivenUp(f) \/ Covers(final'[f], saved[f])
  PROVE  ~overlapped' => SavesOK'
<1>1. at[w] \in Files /\ Rest(w) \notin Saving /\ memory' = memory
  BY Types DEF Rest, Saving, InFile, Alone, robot
<1>2. CASE After(at[w]) = None
  <2>1. ~overlapped => SavedOK'
    <3>1. \A f \in Files : f = at[w] \/ f \in Earlier(at[w])
      BY <1>1, <1>2, AfterFile
    <3>2. \A f \in Files :
            saved'[f] = IF saw[w][f] = None THEN saved[f] ELSE saw[w][f]
      BY <1>2, Advanced
    <3>3. ASSUME ~overlapped, NEW f \in Files PROVE Covers(final'[f], saved'[f])
      <4>1. Covers(final'[f], saw[w][f])
        BY <3>1, <3>3
      <4>2. saw[w][f] = None => Covers(final'[f], saved[f])
        BY <3>3 DEF GivenUp
      <4> QED
        BY <3>2, <4>1, <4>2
    <3> QED
      BY <3>3 DEF SavedOK, Covers
  <2>2. SaveOK(w)'
    BY <1>1, <1>2, Advanced DEF SaveOK
  <2> QED
    BY <2>1, <2>2, Advanced, SavesKept
<1>3. CASE After(at[w]) # None
  <2>1. /\ pc'[w] = "open" /\ at'[w] = After(at[w]) /\ ~Carries(w)'
        /\ saw' = saw /\ saved' = saved /\ unread' = unread
    BY <1>3, Advanced
  <2>2. ~overlapped => \A f \in Earlier(at'[w]) : Covers(final'[f], saw[w][f])
    BY <1>1, <1>3, <2>1, AfterFile
  <2>3. Earlier(at[w])' = Earlier(at'[w])
    BY DEF Earlier
  <2>4. ~overlapped => SaveOK(w)' /\ SavedOK'
    BY <1>1, <2>1, <2>2, <2>3 DEF SaveOK, SavedOK, GivenUp, Covers
  <2> QED
    BY <2>1, <2>4, SavesKept
<1> QED
  BY <1>2, <1>3

\* Where one save alone has advanced, nothing is in hand.
LEMMA AdvancedRests ==
  ASSUME IInv, up, ~overlapped, NEW w \in Writers, pc[w] \in Saving, Advance(w)
  PROVE  \A o \in Writers : ~Carries(o)'
<1>1. ASSUME NEW o \in Writers, o # w PROVE ~Carries(o)'
  <2>1. pc'[o] = pc[o] /\ pc[o] \notin Saving
    BY <1>1, Advanced, OtherRests
  <2> QED
    BY <2>1 DEF Carries, Saving, InFile
<1> QED
  BY <1>1, Advanced

\* There is no text: there was none when the save began either.
LEMMA SkipTextKeeps ==
  ASSUME IInv, NEW w \in Writers, SkipText(w)
  PROVE  IInv'
<1>1. /\ up /\ pc[w] = "open" /\ pc[w] \in Saving /\ memory[at[w]] = None
      /\ Advance(w)
      /\ UNCHANGED <<up, stopping, robot, local, handle, grown, disk, bounds,
                     overlapped, clashed>>
  BY DEF SkipText, Saving, InFile
<1>2. /\ Alone(w) /\ KeepsHandles(w) /\ Remembers /\ handle'[w] = None
      /\ UNCHANGED <<memory, final, overlapped, clashed>>
  <2>1. /\ pc' \in [Writers -> Place] /\ at' \in [Writers -> Files]
        /\ \A o \in Writers : o # w => pc'[o] = pc[o] /\ at'[o] = at[o]
    BY <1>1, Advanced
  <2>2. handle[w] = None
    BY <1>1 DEF IInv, PlaceOK
  <2> QED
    BY <1>1, <2>1, <2>2, Types DEF Alone, KeepsHandles, Remembers, robot, disk
<1>3. TypeOK' /\ KnownOK'
  BY <1>1, <1>2, AloneTypes, Advanced, Types DEF IInv, TypeOK, disk, bounds
<1>4. OrderOK'
  BY <1>1, <1>2, AloneOrder
<1>5. /\ \A o \in Writers : PlaceOK(o)'
      /\ ~clashed' => WholeOK'
  BY <1>1, <1>2, Advanced, Quiet
<1>7. at[w] # "state" /\ at[w] \in Files /\ pc[w] \in InFile
  BY <1>1, Types DEF InFile, IInv, KnownOK
<1>8. ASSUME ~overlapped' PROVE ForwardOK'
  <2>1. ForwardOK /\ ~overlapped /\ SaveOK(w)
    BY <1>1, <1>8 DEF IInv, SavesOK
  <2>2. Covers(memory["state"], final["state"])
    BY <1>7, <2>1 DEF SaveOK, Saving
  <2>3. \A o \in Writers : ~Carries(o)'
    BY <1>1, <2>1, AdvancedRests
  <2> QED
    BY <1>1, <1>2, <2>1, <2>2, <2>3 DEF ForwardOK, GivenUp, Unsaved, Covers
<1>6. ~overlapped' => SavesOK'
  <2>1. ~overlapped => SaveOK(w) /\ SavedOK
    BY <1>1 DEF IInv, SavesOK
  <2>3. ~overlapped => saw[w][at[w]] = None
    BY <1>1, <1>7, <2>1 DEF SaveOK, Covers
  <2>4. ~overlapped =>
          /\ \A f \in Files : Covers(memory[f], saw[w][f])
          /\ \A f \in Earlier(at[w]) : Covers(final'[f], saw[w][f])
          /\ Covers(final'[at[w]], saw[w][at[w]])
          /\ saw[w]["state"] # None
          /\ Covers(memory["state"], final'["state"])
          /\ \A f \in Files : GivenUp(f) \/ Covers(final'[f], saved[f])
    BY <1>1, <1>2, <1>7, <2>1, <2>3 DEF SaveOK, SavedOK, Covers
  <2> QED
    BY <1>1, <1>2, <2>4, SaveAdvanced
<1> QED
  BY <1>1, <1>3, <1>4, <1>5, <1>6, <1>8 DEF IInv, Alone

\* w creates or truncates a temporary file.  If the other one has it in use, or
\* main sees its final save end in a mixture, that is remembered.
LEMMA OpenKeeps ==
  ASSUME IInv, NEW w \in Writers, Open(w)
  PROVE  IInv'
<1>1. /\ up /\ pc[w] = "open" /\ pc[w] \in Saving /\ memory[at[w]] # None
      /\ pc' = [pc EXCEPT ![w] = "write"] /\ handle' = [handle EXCEPT ![w] = "tmp"]
      /\ tmp' = [tmp EXCEPT ![at[w]] = {}]
      /\ clashed' = (clashed \/ \E o \in Writers \ {w} :
                       pc[o] \in {"write", "replace"} /\ at[o] = at[w])
      /\ UNCHANGED <<up, stopping, memory, robot, at, grown, final, bounds,
                     overlapped, saw, saved, unread>>
  BY DEF Open, Target, Goto, Saving, InFile, robot, saves
<1>2. /\ local'[w] = IF at[w] = "state" THEN local[w] ELSE memory[at[w]]
      /\ local' \in [Writers -> Known] /\ local'[w] \in Known
      /\ \A o \in Writers : o # w => local'[o] = local[o]
  BY Types DEF Open
<1>3. /\ Alone(w) /\ KeepsHandles(w) /\ Remembers
      /\ pc'[w] = "write" /\ handle'[w] = "tmp" /\ at'[w] = at[w] /\ at[w] \in Files
      /\ tmp' \in [Files -> Known] /\ tmp'[at[w]] = {}
      /\ \A f \in Files : f # at[w] => tmp'[f] = tmp[f]
  <2>1. {} \in Known /\ "write" \in Place
    BY DEF Known, Place, Saving, InFile
  <2> QED
    BY <1>1, <1>2, <2>1, Types DEF Alone, KeepsHandles, Remembers
<1>4. TypeOK' /\ KnownOK'
  BY <1>1, <1>3, AloneTypes, Types DEF IInv, TypeOK, bounds
<1>5. OrderOK'
  <2>1. ASSUME NEW o \in Writers, o # w, pc[o] \in {"write", "replace"}
        PROVE  overlapped
    BY <1>1, <2>1, Names DEF IInv, OrderOK, Writers, Saving, InFile
  <2> QED
    BY <1>1, <1>3, <2>1, AloneOrder
<1>6. /\ local'[w] # None /\ (~clashed => Whole(local'[w]))
      /\ ~overlapped => /\ Covers(memory[at[w]], local'[w])
                        /\ GivenUp(at[w]) \/ Covers(local'[w], final[at[w]])
  <2>1. CASE at[w] = "state"
    <3>1. Carries(w) /\ Carried(w) = local[w]
      BY <1>1, <2>1 DEF Carries, Carried
    <3> QED
      BY <1>1, <1>2, <2>1, <3>1 DEF IInv, PlaceOK, WholeOK, ForwardOK
  <2>2. CASE at[w] # "state"
    BY <1>1, <1>2, <1>3, <2>2, Types, CoversItself DEF IInv, WholeOK, ForwardOK,
      Unsaved
  <2> QED
    BY <2>1, <2>2
<1>7. Carried(w)' = local'[w]
  BY <1>3 DEF Carried
<1>8. ASSUME NEW o \in Writers, o # w
      PROVE  /\ pc'[o] = pc[o] /\ at'[o] = at[o] /\ local'[o] = local[o]
             /\ handle'[o] = handle[o] /\ Carries(o)' = Carries(o)
             /\ tmp'[at[o]] = tmp[at[o]] \/ (tmp'[at[o]] = {} /\ at[o] = at[w])
  BY <1>2, <1>3, <1>8, Types DEF Alone, KeepsHandles, Carries
<1>9. ASSUME NEW o \in Writers PROVE PlaceOK(o)'
  <2>1. CASE o = w
    BY <1>3, <1>6, <2>1, Names DEF PlaceOK, Carries
  <2>2. CASE o # w
    <3>1. {} # None
      BY Names
    <3> QED
      BY <1>1, <1>8, <2>2, <3>1 DEF IInv, PlaceOK
  <2> QED
    BY <2>1, <2>2
<1>10. ASSUME ~clashed' PROVE WholeOK'
  <2>1. WholeOK /\ ~clashed
    BY <1>10, <1>3 DEF IInv, Remembers
  <2>2. ASSUME NEW o \in Writers, o # w, pc[o] \in {"write", "replace"}
        PROVE  at[o] # at[w] /\ tmp'[at[o]] = tmp[at[o]]
    BY <1>1, <1>10, <1>8, <2>2
  <2>3. Apart("loop", "main")'
    BY <1>1, <1>8, <2>2, Names DEF Apart, Writers
  <2>4. ASSUME NEW o \in Writers
        PROVE  /\ Carries(o)' => Whole(Carried(o)')
               /\ pc'[o] = "write" => handle'[o] = "tmp" /\ tmp'[at'[o]] = {}
    <3>1. CASE o = w
      BY <1>3, <1>6, <1>7, <2>1, <3>1
    <3>2. CASE o # w
      <4>1. Carried(o)' = Carried(o)
        BY <1>8, <2>2, <3>2 DEF Carried
      <4> QED
        BY <1>1, <1>8, <2>1, <2>2, <3>2, <4>1 DEF WholeOK
    <3> QED
      BY <3>1, <3>2
  <2> QED
    BY <1>1, <2>1, <2>3, <2>4 DEF WholeOK, Whole
<1>11. ASSUME ~overlapped' PROVE ForwardOK'
  <2>1. ForwardOK /\ ~overlapped
    BY <1>11, <1>1 DEF IInv
  <2>2. ASSUME NEW o \in Writers, o # w PROVE pc[o] \notin Saving
    BY <1>1, <2>1, <2>2, OtherRests
  <2>3. ASSUME NEW o \in Writers
        PROVE  Carries(o)' =>
                 /\ Covers(memory[at'[o]], Carried(o)')
                 /\ GivenUp(at[o])' \/ Covers(Carried(o)', final'[at'[o]])
    <3>1. CASE o = w
      BY <1>1, <1>3, <1>6, <1>7, <2>1, <3>1 DEF GivenUp
    <3>2. CASE o # w
      BY <1>8, <2>2, <3>2 DEF Carries, Saving, InFile
    <3> QED
      BY <3>1, <3>2
  <2> QED
    BY <1>1, <2>1, <2>3 DEF ForwardOK, GivenUp, Unsaved, Covers
<1>12. ~overlapped' => SavesOK'
  <2>1. ~overlapped => SaveOK(w) /\ SavedOK
    BY <1>1 DEF IInv, SavesOK
  <2>2. ~overlapped => Covers(local'[w], saw[w][at[w]])
    <3>1. CASE at[w] = "state"
      <4>1. Carries(w) /\ Carried(w) = local[w]
        BY <1>1, <3>1 DEF Carries, Carried
      <4> QED
        BY <1>1, <1>2, <2>1, <3>1, <4>1 DEF SaveOK
    <3>2. CASE at[w] # "state"
      BY <1>1, <1>2, <1>3, <2>1, <3>2 DEF SaveOK
    <3> QED
      BY <3>1, <3>2
  <2>3. Earlier(at[w])' = Earlier(at[w]) /\ pc[w] \in InFile
    BY <1>1, <1>3 DEF Earlier, InFile
  <2>4. ~overlapped => SaveOK(w)' /\ SavedOK'
    BY <1>1, <1>3, <1>7, <2>1, <2>2, <2>3 DEF SaveOK, SavedOK, GivenUp,
      Covers, InFile
  <2> QED
    BY <1>1, <1>3, <2>4, SavesKept
<1> QED
  BY <1>1, <1>4, <1>5, <1>9, <1>10, <1>11, <1>12 DEF IInv

\* An exception that ends the thread leaves the temporary file as it is.
LEMMA WriteRaisesKeeps ==
  ASSUME IInv, NEW w \in Writers, WriteRaises(w)
  PROVE  IInv'
<1>1. /\ Alone(w) /\ KeepsHandles(w) /\ Remembers /\ up /\ pc[w] \in Saving
      /\ pc'[w] = "ended" /\ handle'[w] = None /\ Failed(w)
      /\ UNCHANGED <<disk, grown, bounds, overlapped, clashed>>
  BY Types, Names DEF WriteRaises, Goto, Forgets, Alone, KeepsHandles, Remembers,
    robot, Place, Saving, InFile
<1>2. /\ saw' \in [Writers -> [Files -> Value]] /\ saved' \in [Files -> Value]
      /\ unread' = unread
  BY <1>1, Types DEF Failed, Nothing
<1>3. TypeOK' /\ KnownOK'
  BY <1>1, <1>2, AloneTypes, Types DEF IInv, TypeOK, disk, bounds
<1>4. OrderOK'
  BY <1>1, AloneOrder
<1>5. /\ \A o \in Writers : PlaceOK(o)'
      /\ ~clashed' => WholeOK'
      /\ ~overlapped' => ForwardOK'
  BY <1>1, <1>2, Quiet DEF Carries
<1>6. ~overlapped' => SavesOK'
  BY <1>1, FailedSave DEF disk, Saving, InFile
<1> QED
  BY <1>1, <1>3, <1>4, <1>5, <1>6 DEF IInv, Alone

\* The other writer has taken the temporary file.
LEMMA ReplaceFailsKeeps ==
  ASSUME IInv, NEW w \in Writers, ReplaceFails(w)
  PROVE  IInv'
<1>1. /\ Alone(w) /\ KeepsHandles(w) /\ Remembers /\ up /\ pc[w] \in Saving
      /\ pc'[w] = Rest(w) /\ handle'[w] = None /\ Failed(w)
      /\ UNCHANGED <<disk, grown, bounds, overlapped, clashed>>
  BY Types, Names DEF ReplaceFails, Goto, Alone, KeepsHandles, Remembers,
    robot, Place, Saving, InFile, Rest, IInv, PlaceOK
<1>2. /\ saw' \in [Writers -> [Files -> Value]] /\ saved' \in [Files -> Value]
      /\ unread' = unread
      /\ Rest(w) \in {"idle", "ended"}
  BY <1>1, Types DEF Failed, Nothing, Rest
<1>3. TypeOK' /\ KnownOK'
  BY <1>1, <1>2, AloneTypes, Types DEF IInv, TypeOK, disk, bounds
<1>4. OrderOK'
  BY <1>1, AloneOrder
<1>5. /\ \A o \in Writers : PlaceOK(o)'
      /\ ~clashed' => WholeOK'
      /\ ~overlapped' => ForwardOK'
  BY <1>1, <1>2, Quiet DEF Carries
<1>6. ~overlapped' => SavesOK'
  BY <1>1, <1>2, FailedSave DEF disk, Saving, InFile
<1> QED
  BY <1>1, <1>3, <1>4, <1>5, <1>6 DEF IInv, Alone

\* What a write may put into a file.
LEMMA HeldIsKnown ==
  ASSUME IInv, up, NEW w \in Writers
  PROVE  /\ Held(w) \in SUBSET (0..stores)
         /\ local[w] # None => local[w] \in SUBSET (0..stores)
         /\ local[w] # None =>
              Held(w) \union local[w] \in SUBSET (0..stores)
BY Types, Names DEF Held, IInv, PlaceOK, Known

\* w writes into the file it has open; the other one keeps its own.
LEMMA PutKeeps ==
  ASSUME IInv, up, NEW w \in Writers, NEW c \in SUBSET (0..stores), Put(w, c)
  PROVE  /\ tmp' \in [Files -> Known] /\ final' \in [Files -> Known]
         /\ \A f \in Files : tmp[f] # None => tmp'[f] # None
         /\ \A f \in Files : final[f] # None => final'[f] # None
         /\ \A f \in Files : f # at[w] => tmp'[f] = tmp[f] /\ final'[f] = final[f]
         /\ handle[w] = "tmp" => tmp'[at[w]] = c /\ final' = final
<1>1. c \in Known /\ c # None
  <2>1. 0..stores \subseteq 0..MaxStores
    BY Types, Bounds
  <2> QED
    BY <2>1, Names DEF Known
<1> QED
  BY <1>1, Types, Names DEF Put

\* What becomes of the places when w puts something and closes its file.
LEMMA PutPlaces ==
  ASSUME IInv, up, NEW w \in Writers, NEW c \in SUBSET (0..stores), Put(w, c),
         Alone(w), KeepsHandles(w), handle'[w] = None, pc'[w] # "raw",
         Carries(w)' => pc'[w] = "replace"
  PROVE  \A o \in Writers : PlaceOK(o)'
<1>1. ASSUME NEW o \in Writers, o # w PROVE PlaceOK(o)'
  <2>1. /\ pc'[o] = pc[o] /\ at'[o] = at[o] /\ local'[o] = local[o]
        /\ handle'[o] = handle[o] /\ PlaceOK(o) /\ at[o] \in Files
    BY <1>1, Types DEF Alone, KeepsHandles, IInv
  <2> QED
    BY <2>1, PutKeeps DEF PlaceOK, Carries
<1>2. PlaceOK(w)'
  BY Names DEF PlaceOK
<1> QED
  BY <1>1, <1>2

\* A whole text is written, into a file that is empty unless it was shared.
LEMMA WriteKeeps ==
  ASSUME IInv, NEW w \in Writers, Write(w)
  PROVE  IInv'
<1>1. /\ Alone(w) /\ KeepsHandles(w) /\ Remembers /\ up /\ pc[w] = "write"
      /\ pc[w] \in Saving /\ pc'[w] = "replace" /\ at'[w] = at[w] /\ at[w] \in Files
      /\ handle'[w] = None /\ local[w] # None
      /\ UNCHANGED <<grown, bounds, history, memory>>
  BY Types, Names DEF Write, Goto, Forgets, Alone, KeepsHandles, Remembers,
    robot, history, Place, Saving, InFile, IInv, PlaceOK, Carries
<1>2. PICK c \in SUBSET (0..stores) :
        Put(w, c) /\ (c = local[w] \/ c = Held(w) \union local[w])
  BY <1>1, HeldIsKnown DEF Write
<1>3. TypeOK' /\ KnownOK'
  <2>1. tmp' \in [Files -> Known] /\ final' \in [Files -> Known]
    BY <1>1, <1>2, PutKeeps
  <2> QED
    BY <1>1, <2>1, AloneTypes, Types DEF IInv, TypeOK, bounds, history, saves
<1>4. OrderOK'
  BY <1>1, AloneOrder DEF history
<1>5. \A o \in Writers : PlaceOK(o)'
  BY <1>1, <1>2, PutPlaces DEF Carries
<1>6. ASSUME WholeOK
      PROVE  /\ tmp'[at[w]] = local[w] /\ final' = final
             /\ Carried(w)' = Carried(w) /\ Carries(w)
  <2>1. handle[w] = "tmp" /\ Held(w) = {}
    BY <1>1, <1>6 DEF WholeOK, Held
  <2>2. c = local[w]
    BY <1>2, <2>1
  <2>3. tmp'[at[w]] = c /\ final' = final
    BY <1>1, <1>2, <2>1, PutKeeps
  <2> QED
    BY <1>1, <2>2, <2>3 DEF Carried, Carries
<1>7. ASSUME NEW o \in Writers, o # w
      PROVE  /\ pc'[o] = pc[o] /\ at'[o] = at[o] /\ local'[o] = local[o]
             /\ handle'[o] = handle[o] /\ Carries(o)' = Carries(o)
             /\ at[o] # at[w] => tmp'[at[o]] = tmp[at[o]]
  <2>1. at[o] \in Files
    BY Types
  <2> QED
    BY <1>1, <1>2, <1>7, <2>1, PutKeeps DEF Alone, KeepsHandles, Carries
<1>8. ASSUME ~clashed' PROVE WholeOK'
  <2>1. WholeOK
    BY <1>8, <1>1 DEF IInv, history
  <2>2. ASSUME NEW o \in Writers, o # w, pc[o] \in {"write", "replace"}
        PROVE  at[o] # at[w] /\ tmp'[at[o]] = tmp[at[o]]
    BY <1>1, <1>7, <2>1, <2>2 DEF WholeOK, Apart, Writers
  <2>3. Apart("loop", "main")'
    BY <1>1, <1>7, <2>2, Names DEF Apart, Writers
  <2>4. ASSUME NEW o \in Writers
        PROVE  /\ Carries(o)' => Whole(Carried(o)')
               /\ pc'[o] = "write" => handle'[o] = "tmp" /\ tmp'[at'[o]] = {}
    <3>1. CASE o = w
      BY <1>1, <1>6, <2>1, <3>1 DEF WholeOK
    <3>2. CASE o # w
      <4>1. Carried(o)' = Carried(o)
        BY <1>7, <2>2, <3>2 DEF Carried
      <4> QED
        BY <1>1, <1>7, <2>1, <2>2, <3>2, <4>1 DEF WholeOK
    <3> QED
      BY <3>1, <3>2
  <2> QED
    BY <1>1, <1>6, <2>1, <2>3, <2>4 DEF WholeOK, Whole
<1>9. ASSUME ~overlapped' PROVE ForwardOK'
  <2>1. ForwardOK /\ ~overlapped /\ WholeOK
    BY <1>9, <1>1 DEF IInv, OrderOK, history
  <2>2. ASSUME NEW o \in Writers
        PROVE  Carries(o)' =>
                 /\ Covers(memory[at'[o]], Carried(o)')
                 /\ GivenUp(at[o])' \/ Covers(Carried(o)', final'[at'[o]])
    <3>1. CASE o = w
      BY <1>1, <1>6, <2>1, <3>1 DEF ForwardOK, GivenUp, history, saves
    <3>2. CASE o # w
      <4>1. pc[o] \notin Saving
        BY <1>1, <2>1, <3>2, OtherRests
      <4> QED
        BY <1>7, <3>2, <4>1 DEF Carries, Saving, InFile
    <3> QED
      BY <3>1, <3>2
  <2> QED
    BY <1>1, <1>6, <2>1, <2>2 DEF ForwardOK, GivenUp, Unsaved, Covers, history,
      saves
<1>10. ~overlapped' => SavesOK'
  <2>1. ~overlapped => SaveOK(w) /\ SavedOK /\ WholeOK
    BY <1>1 DEF IInv, OrderOK, SavesOK
  <2>2. Earlier(at[w])' = Earlier(at[w]) /\ pc[w] \in InFile
    BY <1>1 DEF Earlier, InFile
  <2>3. ~overlapped => SaveOK(w)' /\ SavedOK'
    BY <1>1, <1>6, <2>1, <2>2 DEF SaveOK, SavedOK, GivenUp, Covers, InFile,
      history, saves
  <2> QED
    BY <1>1, <2>3, SavesKept DEF history, saves
<1> QED
  BY <1>1, <1>3, <1>4, <1>5, <1>8, <1>9, <1>10 DEF IInv, Alone

\* The temporary file becomes the final one, under the other writer as well.
LEMMA ReplaceKeeps ==
  ASSUME IInv, NEW w \in Writers, Replace(w)
  PROVE  IInv'
<1>1. /\ up /\ pc[w] = "replace" /\ pc[w] \in Saving /\ pc[w] \in InFile
      /\ tmp[at[w]] # None /\ Advance(w) /\ at[w] \in Files
      /\ final' = [final EXCEPT ![at[w]] = tmp[at[w]]]
      /\ tmp' = [tmp EXCEPT ![at[w]] = None]
      /\ UNCHANGED <<up, stopping, robot, memory, local, grown, bounds,
                     overlapped, clashed>>
  BY Types DEF Replace, Saving, InFile, robot
<1>2. ASSUME NEW o \in Writers
      PROVE  /\ handle[o] = "tmp" /\ at[o] = at[w] => handle'[o] = "final"
             /\ handle[o] = "final" /\ at[o] = at[w] => handle'[o] = "gone"
             /\ ~(handle[o] \in {"tmp", "final"} /\ at[o] = at[w])
                  => handle'[o] = handle[o]
  BY DEF Replace
<1>3. /\ final'[at[w]] = tmp[at[w]] /\ final' \in [Files -> Known]
      /\ \A f \in Files : f # at[w] => final'[f] = final[f] /\ tmp'[f] = tmp[f]
      /\ tmp' \in [Files -> Known]
  BY <1>1, Types
<1>4. /\ Alone(w) /\ Remembers /\ handle'[w] = None
  <2>1. handle' \in [Writers -> {"tmp", "final", "gone", None}]
    <3>1. handle' = [o \in Writers |-> handle'[o]]
      BY DEF Replace
    <3>2. \A o \in Writers : handle'[o] \in {"tmp", "final", "gone", None}
      BY <1>2, Types
    <3> QED
      BY <3>1, <3>2
  <2>2. handle[w] = None
    BY <1>1 DEF IInv, PlaceOK
  <2> QED
    BY <1>1, <1>2, <2>1, <2>2, Advanced, Types, Names DEF Alone, Remembers
<1>5. TypeOK' /\ KnownOK'
  BY <1>1, <1>3, <1>4, AloneTypes, Advanced, Types DEF IInv, TypeOK, bounds
<1>6. OrderOK'
  BY <1>1, <1>4, AloneOrder
<1>7. /\ ~Carries(w)' /\ pc'[w] \notin {"write", "replace", "raw"}
      /\ \A o \in Writers : o # w => pc'[o] = pc[o] /\ at'[o] = at[o]
  BY <1>1, Advanced
<1>8. ASSUME NEW o \in Writers, o # w
      PROVE  /\ local'[o] = local[o] /\ Carries(o)' = Carries(o)
             /\ at[o] \in Files
             /\ at[o] # at[w] => tmp'[at[o]] = tmp[at[o]] /\ handle'[o] = handle[o]
  BY <1>1, <1>2, <1>3, <1>7, <1>8, Types DEF Carries
<1>9. ASSUME NEW o \in Writers PROVE PlaceOK(o)'
  <2>1. CASE o = w
    BY <1>4, <1>7, <2>1, Names DEF PlaceOK, Carries
  <2>2. CASE o # w
    <3>1. PlaceOK(o)
      BY <1>1 DEF IInv
    <3>2. /\ handle'[o] # None => handle[o] # None
          /\ handle'[o] = "tmp" => handle[o] = "tmp" /\ at[o] # at[w]
          /\ handle'[o] = "final" =>
               \/ handle[o] = "tmp" /\ at[o] = at[w]
               \/ handle[o] = "final" /\ at[o] # at[w]
      BY <1>2, Names, Types
    <3> QED
      BY <1>1, <1>3, <1>7, <1>8, <2>2, <3>1, <3>2 DEF PlaceOK
  <2> QED
    BY <2>1, <2>2
<1>10. ASSUME ~clashed' PROVE WholeOK'
  <2>1. WholeOK
    BY <1>10, <1>1 DEF IInv
  <2>2. ASSUME NEW o \in Writers, o # w, pc[o] \in {"write", "replace"}
        PROVE  at[o] # at[w]
    BY <1>1, <2>1, <2>2 DEF WholeOK, Apart, Writers
  <2>3. Apart("loop", "main")'
    BY <1>7, Names DEF Apart, Writers
  <2>4. ASSUME NEW o \in Writers
        PROVE  /\ Carries(o)' => Whole(Carried(o)')
               /\ pc'[o] = "write" => handle'[o] = "tmp" /\ tmp'[at'[o]] = {}
    <3>1. CASE o = w
      BY <1>7, <3>1
    <3>2. CASE o # w
      <4>1. Carried(o)' = Carried(o)
        BY <1>7, <1>8, <2>2, <3>2 DEF Carried
      <4> QED
        BY <1>1, <1>7, <1>8, <2>1, <2>2, <3>2, <4>1 DEF WholeOK
    <3> QED
      BY <3>1, <3>2
  <2>5. Whole(tmp[at[w]])
    BY <1>1, <2>1 DEF WholeOK, Carries, Carried
  <2>6. \A f \in Files : Whole(memory'[f]) /\ Whole(final'[f])
    BY <1>1, <1>3, <2>1, <2>5 DEF WholeOK
  <2> QED
    BY <2>3, <2>4, <2>6 DEF WholeOK, Whole
<1>11. ASSUME ~overlapped
       PROVE  /\ ForwardOK /\ SaveOK(w) /\ SavedOK
              /\ Covers(memory[at[w]], tmp[at[w]])
              /\ GivenUp(at[w]) \/ Covers(tmp[at[w]], final[at[w]])
              /\ Covers(tmp[at[w]], saw[w][at[w]])
              /\ Covers(memory["state"], final'["state"])
  <2>1. ForwardOK /\ SaveOK(w) /\ SavedOK
    BY <1>1, <1>11 DEF IInv, SavesOK
  <2>2. Carries(w) /\ Carried(w) = tmp[at[w]]
    BY <1>1 DEF Carries, Carried
  <2>3. /\ Covers(memory[at[w]], tmp[at[w]])
        /\ GivenUp(at[w]) \/ Covers(tmp[at[w]], final[at[w]])
        /\ Covers(tmp[at[w]], saw[w][at[w]])
    BY <1>1, <2>1, <2>2 DEF ForwardOK, SaveOK
  <2>4. Covers(memory["state"], final'["state"])
    <3>1. CASE at[w] = "state"
      BY <1>3, <2>3, <3>1
    <3>2. CASE at[w] # "state"
      BY <1>1, <1>3, <2>1, <3>2, Names DEF SaveOK
    <3> QED
      BY <3>1, <3>2
  <2> QED
    BY <2>1, <2>3, <2>4
<1>12. ASSUME ~overlapped' PROVE ForwardOK'
  <2>1. \A o \in Writers : ~Carries(o)'
    BY <1>1, <1>12, AdvancedRests
  <2>2. ASSUME NEW f \in Files
        PROVE  memory[f] = None \/ GivenUp(f)' \/ Covers(memory[f], final'[f])
    <3>1. CASE f = "state"
      BY <1>1, <1>11, <1>12, <3>1
    <3>2. CASE f = at[w]
      BY <1>1, <1>3, <1>11, <1>12, <3>2
    <3>3. CASE f # "state" /\ f # at[w]
      BY <1>1, <1>3, <1>11, <1>12, <3>3 DEF ForwardOK, Unsaved, GivenUp
    <3> QED
      BY <3>1, <3>2, <3>3
  <2> QED
    BY <1>1, <2>1, <2>2 DEF ForwardOK, Unsaved, Covers
<1>13. ~overlapped' => SavesOK'
  <2> SUFFICES ASSUME ~overlapped PROVE SavesOK'
    BY <1>1
  <2>1. SaveOK(w) /\ SavedOK
    BY <1>11
  <2>2. /\ \A f \in Files : Covers(memory[f], saw[w][f])
        /\ \A f \in Earlier(at[w]) : Covers(final[f], saw[w][f])
        /\ saw[w]["state"] # None
    BY <1>1, <2>1 DEF SaveOK
  <2>3. \A f \in Earlier(at[w]) : Covers(final'[f], saw[w][f])
    BY <1>3, <2>2 DEF Earlier
  <2>4. ASSUME NEW f \in Files, ~GivenUp(f) PROVE Covers(final'[f], saved[f])
    <3>1. CASE f = at[w]
      BY <1>3, <1>11, <2>1, <2>4, <3>1, Types, CoversTransitive DEF SavedOK
    <3>2. CASE f # at[w]
      BY <1>3, <2>1, <2>4, <3>2 DEF SavedOK
    <3> QED
      BY <3>1, <3>2
  <2> QED
    BY <1>1, <1>3, <1>4, <1>11, <2>2, <2>3, <2>4, SaveAdvanced
<1> QED
  BY <1>1, <1>5, <1>6, <1>9, <1>10, <1>12, <1>13 DEF IInv

\* An OSError: nothing is written, or a part of a text over an older one, which
\* only two writers of one file can meet.
LEMMA FaultKeeps ==
  ASSUME IInv, NEW w \in Writers, Fault(w)
  PROVE  IInv'
<1>1. /\ Alone(w) /\ Remembers /\ KeepsHandles(w) /\ up /\ pc[w] \in Saving
      /\ pc'[w] = Rest(w) /\ handle'[w] = None /\ Failed(w)
      /\ faults' \in 0..MaxFaults
      /\ UNCHANGED <<up, grown, restarts, overlapped, clashed>>
  BY Types, Names, Bounds DEF Fault, Goto, Forgets, Alone, KeepsHandles, Remembers,
    robot, Place, Saving, InFile, Rest, IInv, TypeOK
<1>2. /\ saw' \in [Writers -> [Files -> Value]] /\ saved' \in [Files -> Value]
      /\ unread' = unread
      /\ Rest(w) \in {"idle", "ended"}
  BY <1>1, Types DEF Failed, Nothing, Rest
<1>3. OrderOK'
  BY <1>1, AloneOrder
<1>4. final' = final => SavesOK' \/ overlapped'
  BY <1>1, <1>2, FailedSave DEF Saving, InFile
<1>5. CASE UNCHANGED disk
  <2>1. TypeOK' /\ KnownOK'
    BY <1>1, <1>2, <1>5, AloneTypes, Types DEF IInv, TypeOK, disk
  <2>2. /\ \A o \in Writers : PlaceOK(o)'
        /\ ~clashed' => WholeOK'
        /\ ~overlapped' => ForwardOK'
    BY <1>1, <1>2, <1>5, Quiet DEF Carries
  <2> QED
    BY <1>1, <1>3, <1>4, <1>5, <2>1, <2>2 DEF IInv, disk
<1>6. CASE pc[w] = "write" /\ Held(w) # {} /\ Put(w, Held(w) \union local[w])
  <2>1. local[w] # None /\ Held(w) \union local[w] \in SUBSET (0..stores)
    BY <1>1, <1>6, HeldIsKnown DEF IInv, PlaceOK, Carries
  <2>2. tmp' \in [Files -> Known] /\ final' \in [Files -> Known]
    BY <1>1, <1>6, <2>1, PutKeeps
  <2>3. TypeOK' /\ KnownOK'
    BY <1>1, <1>2, <2>2, AloneTypes, Types DEF IInv, TypeOK
  <2>4. \A o \in Writers : PlaceOK(o)'
    BY <1>1, <1>2, <1>6, <2>1, PutPlaces DEF Carries
  <2>5. clashed /\ overlapped
    BY <1>1, <1>6 DEF IInv, WholeOK, Held, OrderOK
  <2> QED
    BY <1>1, <1>3, <2>3, <2>4, <2>5 DEF IInv
<1> QED
  BY <1>5, <1>6 DEF Fault

-----------------------------------------------------------------------------
(* Steps of the robot and of the process.                                   *)

\* Something newer comes into the memory.
LEMMA LearnKeeps ==
  ASSUME IInv, NEW f \in Files,
         UNCHANGED <<up, stopping, writer, disk, bounds, history>>,
         stores < MaxStores, stores' = stores + 1,
         memory' = [memory EXCEPT ![f] = {stores'}],
         grown' \subseteq Writers,
         foreign' \subseteq Texts \X (0..MaxStores)
  PROVE  IInv'
<1>1. /\ stores' \in 0..MaxStores /\ {stores'} \in Known' /\ Known \subseteq Known'
      /\ {stores'} # None /\ {stores'} \in Value /\ Known' \subseteq Value
  <2>1. stores' \in 0..MaxStores /\ 0..stores \subseteq 0..stores'
          /\ {stores'} \in SUBSET (0..stores')
          /\ 0..stores' \subseteq 0..MaxStores
    BY Types, Bounds
  <2> QED
    BY <2>1, Names DEF Known, Value, Content
<1>2. /\ UNCHANGED <<up, stopping, pc, at, local, handle, tmp, final, faults,
                     restarts, overlapped, clashed, saw, saved, unread>>
      /\ memory' \in [Files -> Known'] /\ memory' \in [Files -> Value]
      /\ memory'[f] = {stores'} /\ \A g \in Files : g # f => memory'[g] = memory[g]
  BY <1>1, Types DEF writer, disk, bounds, history, saves
<1>3. TypeOK'
  BY <1>1, <1>2 DEF IInv, TypeOK
<1>4. KnownOK'
  BY <1>1, <1>2, Names DEF IInv, KnownOK
<1>5. OrderOK'
  BY <1>2 DEF IInv, OrderOK
<1>6. ASSUME NEW w \in Writers
      PROVE  /\ IF up' THEN PlaceOK(w)' ELSE handle'[w] = None
             /\ Carries(w)' = Carries(w) /\ Carried(w)' = Carried(w)
             /\ Carried(w) \in Value /\ at[w] \in Files
  BY <1>2, Types DEF IInv, PlaceOK, Carries, Carried
<1>7. ASSUME NEW g \in Files PROVE Covers(memory'[g], memory[g])
  <2>1. memory[g] \in {None} \union SUBSET (0..stores')
    BY <1>1, Types DEF Known
  <2>2. CASE g = f
    BY <1>1, <1>2, <2>1, <2>2, NewestCovers
  <2>3. CASE g # f
    BY <1>2, <2>3, Types, CoversItself
  <2> QED
    BY <2>2, <2>3
<1>8. ASSUME NEW g \in Files, NEW c \in Value, Covers(memory[g], c)
      PROVE  Covers(memory'[g], c)
  <2>1. memory'[g] \in Value /\ memory[g] \in Value
    BY <1>2, Types
  <2> QED
    BY <1>7, <1>8, <2>1, CoversTransitive
<1>9. ASSUME ~clashed' PROVE WholeOK'
  <2>1. Whole({stores'})
    BY <1>1 DEF Whole
  <2>2. WholeOK /\ \A g \in Files : Whole(memory'[g])
    BY <1>2, <1>9, <2>1 DEF IInv, WholeOK
  <2> QED
    BY <1>2, <1>6, <2>2 DEF WholeOK, Whole, Apart
<1>10. ASSUME ~overlapped' PROVE ForwardOK'
  <2>1. ForwardOK
    BY <1>2, <1>10 DEF IInv
  <2>2. up => \A g \in Files : Unsaved(g)' \/ Covers(memory'[g], final[g])
    <3>1. Covers(memory'[f], final[f])
      BY <1>1, <1>2, Types, NewestCovers DEF Known
    <3> QED
      BY <1>2, <2>1, <3>1 DEF ForwardOK, Unsaved, GivenUp
  <2>3. up => \A w \in Writers : Carries(w) =>
          /\ Covers(memory'[at[w]], Carried(w))
          /\ GivenUp(at[w]) \/ Covers(Carried(w), final[at[w]])
    BY <1>6, <1>8, <2>1 DEF ForwardOK
  <2> QED
    BY <1>2, <1>6, <2>2, <2>3 DEF ForwardOK, GivenUp, Covers
<1>11. ASSUME ~overlapped' PROVE SavesOK'
  <2>1. SavesOK
    BY <1>2, <1>11 DEF IInv
  <2>2. ASSUME up, NEW w \in Writers PROVE SaveOK(w)'
    <3>1. SaveOK(w) /\ saw[w] \in [Files -> Value]
      BY <2>1, <2>2, Types DEF SavesOK
    <3>2. pc[w] \in Saving => \A g \in Files : Covers(memory'[g], saw[w][g])
      BY <1>8, <3>1 DEF SaveOK
    <3>3. Earlier(at[w])' = Earlier(at[w])
      BY <1>2 DEF Earlier
    <3>4. pc[w] \in InFile /\ at[w] # "state" => Covers(memory'["state"], final["state"])
      BY <1>8, <3>1, Types, Names DEF SaveOK, InFile, Saving
    <3> QED
      BY <1>2, <1>6, <3>1, <3>2, <3>3, <3>4 DEF SaveOK, Covers
  <2> QED
    BY <1>2, <2>1, <2>2 DEF SavesOK, SavedOK, GivenUp, Covers
<1> QED
  BY <1>3, <1>4, <1>5, <1>6, <1>9, <1>10, <1>11 DEF IInv

LEMMA StoreKeeps ==
  ASSUME IInv, StoreValue \/ \E f \in Texts : StoreText(f)
  PROVE  IInv'
<1>1. CASE StoreValue
  BY <1>1, LearnKeeps, Names DEF StoreValue, IInv, TypeOK
<1>2. ASSUME NEW f \in Texts, StoreText(f) PROVE IInv'
  <2>1. stores + 1 \in 0..MaxStores
    BY <1>2, Types, Bounds DEF StoreText
  <2>2. foreign' \subseteq Texts \X (0..MaxStores) /\ grown' \subseteq Writers
    BY <1>2, <2>1 DEF StoreText, IInv, TypeOK
  <2> QED
    BY <1>2, <2>2, LearnKeeps, Names DEF StoreText
<1> QED
  BY <1>1, <1>2

\* A new key comes into raw_value, which is not restored.
LEMMA StoreRawKeeps ==
  ASSUME IInv, StoreRaw
  PROVE  IInv'
<1>1. /\ grown' \subseteq Writers
      /\ UNCHANGED <<up, stopping, memory, foreign, stores, pc, at, local, handle,
                     tmp, final, faults, restarts, overlapped, clashed, saw, saved,
                     unread>>
  BY DEF StoreRaw, robot, writer, disk, bounds, history, saves, IInv, TypeOK
<1>2. TypeOK' /\ KnownOK' /\ OrderOK'
  BY <1>1 DEF IInv, TypeOK, KnownOK, OrderOK, Known
<1>3. WholeOK' = WholeOK /\ ForwardOK' = ForwardOK /\ SavesOK' = SavesOK
        /\ \A w \in Writers : PlaceOK(w)' = PlaceOK(w)
  BY <1>1 DEF WholeOK, ForwardOK, SavesOK, SaveOK, SavedOK, PlaceOK, Carries, Carried, Apart,
    Earlier, Whole, Covers, GivenUp, Unsaved
<1> QED
  BY <1>1, <1>2, <1>3 DEF IInv

\* The signal: main may begin to save, the loop may not any more.
LEMMA StopKeeps ==
  ASSUME IInv, Stop
  PROVE  IInv'
<1>1. /\ stopping' = TRUE
      /\ UNCHANGED <<up, memory, foreign, stores, pc, at, local, handle,
                     grown, tmp, final, faults, restarts, overlapped, clashed,
                     saw, saved, unread>>
  BY DEF Stop, robot, writer, disk, bounds, history, saves
<1>2. TypeOK' /\ KnownOK' /\ OrderOK'
  BY <1>1 DEF IInv, TypeOK, KnownOK, OrderOK, Known
<1>3. WholeOK' = WholeOK /\ ForwardOK' = ForwardOK /\ SavesOK' = SavesOK
        /\ \A w \in Writers : PlaceOK(w)' = PlaceOK(w)
  BY <1>1 DEF WholeOK, ForwardOK, SavesOK, SaveOK, SavedOK, PlaceOK, Carries, Carried, Apart,
    Earlier, Whole, Covers, GivenUp, Unsaved
<1> QED
  BY <1>1, <1>2, <1>3 DEF IInv

\* The loop leaves.
LEMMA LoopEndsKeeps ==
  ASSUME IInv, LoopEnds
  PROVE  IInv'
<1>1. /\ Alone("loop") /\ KeepsHandles("loop") /\ Remembers /\ up
      /\ "loop" \in Writers /\ pc["loop"] = "idle" /\ pc'["loop"] = "ended"
      /\ handle'["loop"] = None /\ pc'["main"] = pc["main"]
      /\ UNCHANGED <<up, stopping, memory, disk, grown, bounds, at, local, history>>
  BY Types, Names DEF LoopEnds, Goto, Alone, KeepsHandles, Remembers, history,
    robot, Place, IInv, PlaceOK
<1>2. TypeOK' /\ KnownOK'
  BY <1>1, AloneTypes, Types DEF IInv, TypeOK, disk, bounds, history, saves
<1>3. "ended" \notin Saving /\ OrderOK'
  BY <1>1 DEF IInv, OrderOK, Saving, InFile, history
<1>4. /\ \A o \in Writers : PlaceOK(o)'
      /\ ~clashed' => WholeOK'
      /\ ~overlapped' => ForwardOK'
  BY <1>1, Quiet DEF Carries, history, saves
<1>5. ~overlapped' => SavesOK'
  <2> SUFFICES ASSUME ~overlapped PROVE SavesOK'
    BY <1>1 DEF history
  <2>1. \A w \in Writers : SaveOK(w)
    BY <1>1 DEF IInv, SavesOK
  <2>2. SaveOK("loop")'
    BY <1>1, <1>3 DEF SaveOK
  <2>3. SaveOK("main")'
    BY <1>1, <2>1, Names DEF SaveOK, InFile, Carries, Carried, Earlier, Covers, history,
      saves, disk
  <2>4. SavedOK'
    BY <1>1 DEF IInv, SavesOK, SavedOK, GivenUp, Covers, history, saves, disk
  <2> QED
    BY <2>2, <2>3, <2>4 DEF SavesOK, Writers
<1> QED
  BY <1>1, <1>2, <1>3, <1>4, <1>5 DEF IInv

\* The process is gone; the files stay.
LEMMA ExitKeeps ==
  ASSUME IInv, Exit
  PROVE  IInv'
<1>1. /\ up' = FALSE /\ memory' = Fresh
      /\ at' = Both("state") /\ local' = Both(None) /\ handle' = Both(None)
      /\ grown' = {} /\ saw' = Both(Nothing)
      /\ UNCHANGED <<stopping, foreign, stores, pc, tmp, final, faults, restarts,
                     overlapped, clashed, saved, unread>>
  BY DEF Exit, disk, bounds, history
<1>2. /\ {0} \in Known /\ {0} # None /\ Whole({0}) /\ Whole(None) /\ {0} \in Value
  <2>1. 0 \in 0..stores /\ 0 \in 0..MaxStores
    BY Types, Bounds
  <2> QED
    BY <2>1, Names DEF Known, Whole, Value, Content
<1>3. TypeOK'
  <2>1. /\ memory' \in [Files -> Value] /\ at' \in [Writers -> Files]
        /\ local' \in [Writers -> Value]
        /\ handle' \in [Writers -> {"tmp", "final", "gone", None}]
        /\ saw' \in [Writers -> [Files -> Value]]
    BY <1>1, <1>2, Names DEF Fresh, Both, Value, Nothing
  <2> QED
    BY <1>1, <2>1 DEF IInv, TypeOK
<1>4. KnownOK'
  <2>1. memory' \in [Files -> Known] /\ local' \in [Writers -> Known]
          /\ memory'["state"] = {0}
    BY <1>1, <1>2, Names, Types DEF Fresh, Both
  <2> QED
    BY <1>1, <1>2, <2>1 DEF IInv, KnownOK, Known
<1>5. OrderOK' /\ ForwardOK' /\ \A w \in Writers : handle'[w] = None
  BY <1>1 DEF IInv, OrderOK, ForwardOK, Both
<1>6. ~clashed' => WholeOK'
  <2>1. \A f \in Files : Whole(memory'[f])
    BY <1>1, <1>2 DEF Fresh
  <2> QED
    BY <1>1, <2>1 DEF IInv, WholeOK, Whole
<1>7. ~overlapped' => SavesOK'
  BY <1>1 DEF IInv, SavesOK, SavedOK, GivenUp, Covers
<1> QED
  BY <1>1, <1>3, <1>4, <1>5, <1>6, <1>7 DEF IInv

\* A new process: its memory is what the files hold that it could read.
LEMMA RestartKeeps ==
  ASSUME IInv, Restart
  PROVE  IInv'
<1>1. PICK failed \in SUBSET Files :
      /\ up' = TRUE /\ ~up /\ stopping' = FALSE
      /\ memory' = [f \in Files |-> IF f \in failed THEN Fresh[f] ELSE Loaded(f)]
      /\ unread' = (unread \/ ("state" \in failed /\ final["state"] # None))
      /\ pc' = Both("idle") /\ restarts' \in 0..MaxRestarts
      /\ faults' \in 0..MaxFaults
      /\ UNCHANGED <<foreign, stores, at, local, handle, grown, tmp,
                     final, overlapped, clashed, saw, saved>>
  BY Bounds DEF Restart, disk, IInv, TypeOK
<1>2. /\ {0} \in Known /\ {0} # None /\ Whole({0}) /\ Whole(None) /\ None \in Known
  <2>1. 0 \in 0..stores /\ 0 \in 0..MaxStores
    BY Types, Bounds
  <2> QED
    BY <2>1, Names DEF Known, Whole
<1>3. ASSUME NEW f \in Files
      PROVE  \/ memory'[f] = final[f]
             \/ f = "state" /\ memory'[f] = {0}
             \/ f # "state" /\ memory'[f] = None
  BY <1>1 DEF Loaded, Fresh
<1>4. /\ memory' \in [Files -> Known] /\ memory' \in [Files -> Value]
      /\ memory'["state"] # None
  <2>1. memory' \in [Files -> Known]
    BY <1>1, <1>2, <1>3, Types
  <2>2. memory'["state"] # None
    <3>1. CASE "state" \notin failed /\ \E v \in 0..stores : final["state"] = {v}
      <4>1. PICK v \in 0..stores : final["state"] = {v}
        BY <3>1
      <4>2. {v} \in SUBSET (0..MaxStores)
        BY Types, Bounds
      <4> QED
        BY <1>1, <1>2, <1>3, <4>1, <4>2, Names
    <3>2. CASE "state" \in failed \/ ~\E v \in 0..stores : final["state"] = {v}
      BY <1>1, <1>2, <3>2, Names DEF Loaded, Fresh
    <3> QED
      BY <3>1, <3>2
  <2> QED
    BY <2>1, <2>2, Types
<1>5. TypeOK'
  <2>1. pc' \in [Writers -> Place]
    BY <1>1 DEF Both, Place
  <2> QED
    BY <1>1, <1>4, <2>1, Types DEF IInv, TypeOK
<1>6. KnownOK'
  BY <1>1, <1>4 DEF IInv, KnownOK, Known
<1>7. \A w \in Writers : pc'[w] = "idle" /\ handle'[w] = None /\ ~Carries(w)'
  BY <1>1 DEF Both, Carries, IInv
<1>8. OrderOK'
  BY <1>1, <1>7, Names DEF IInv, OrderOK
<1>9. \A w \in Writers : PlaceOK(w)'
  BY <1>7, Names DEF PlaceOK
<1>10. ASSUME ~clashed' PROVE WholeOK'
  <2>1. \A f \in Files : Whole(memory'[f]) /\ Whole(final'[f])
    BY <1>1, <1>2, <1>3, <1>10 DEF IInv, WholeOK
  <2> QED
    BY <1>7, <2>1, Names DEF WholeOK, Whole, Apart
<1>11. ASSUME ~overlapped' PROVE ForwardOK'
  <2>1. \A f \in Files : Whole(final[f])
    BY <1>1, <1>11 DEF IInv, OrderOK, WholeOK
  <2>2. ASSUME NEW f \in Files
        PROVE  memory'[f] = None \/ GivenUp(f)' \/ Covers(memory'[f], final[f])
    <3>1. CASE f = "state"
      <4>1. CASE final[f] = None
        BY <4>1 DEF Covers
      <4>2. CASE final[f] # None /\ f \in failed
        BY <1>1, <3>1, <4>2 DEF GivenUp
      <4>3. CASE final[f] # None /\ f \notin failed
        <5>1. PICK v \in 0..MaxStores : final[f] = {v}
          BY <2>1, <4>3 DEF Whole
        <5>2. v \in 0..stores
          BY <4>3, <5>1, Types DEF Known
        <5>3. memory'[f] = final[f]
          BY <1>1, <4>3, <5>1, <5>2 DEF Loaded
        <5> QED
          BY <5>3, Types, CoversItself
      <4> QED
        BY <4>1, <4>2, <4>3
    <3>2. CASE f # "state"
      BY <1>3, <3>2, Types, CoversItself
    <3> QED
      BY <3>1, <3>2
  <2> QED
    BY <1>1, <1>7, <2>2 DEF ForwardOK, Unsaved, Covers
<1>12. ~overlapped' => SavesOK'
  <2>1. \A w \in Writers : SaveOK(w)'
    BY <1>7, Names DEF SaveOK, Saving, InFile
  <2>2. ~overlapped => SavedOK'
    BY <1>1 DEF IInv, SavesOK, SavedOK, GivenUp, Covers
  <2> QED
    BY <1>1, <2>1, <2>2 DEF SavesOK
<1> QED
  BY <1>1, <1>5, <1>6, <1>8, <1>9, <1>10, <1>11, <1>12 DEF IInv

-----------------------------------------------------------------------------

\* Every step keeps the invariant.
LEMMA InvNext == IInv /\ [Next]_vars => IInv'
<1> SUFFICES ASSUME IInv, [Next]_vars PROVE IInv'
  OBVIOUS
<1>1. CASE UNCHANGED vars
  <2>1. UNCHANGED <<up, stopping, memory, foreign, stores, pc, at, local,
                    handle, grown, tmp, final, faults, restarts, overlapped,
                    clashed, saw, saved, unread>>
    BY <1>1 DEF vars, robot, writer, disk, bounds, history, saves
  <2>2. TypeOK' /\ KnownOK' /\ OrderOK'
    BY <2>1 DEF IInv, TypeOK, KnownOK, OrderOK, Known
  <2>3. WholeOK' = WholeOK /\ ForwardOK' = ForwardOK /\ SavesOK' = SavesOK
          /\ \A w \in Writers : PlaceOK(w)' = PlaceOK(w)
    BY <2>1 DEF WholeOK, ForwardOK, SavesOK, SaveOK, SavedOK, PlaceOK, Carries, Carried, Apart,
      Earlier, Whole, Covers, GivenUp, Unsaved
  <2> QED
    BY <2>1, <2>2, <2>3 DEF IInv
<1>2. ASSUME NEW w \in Writers, Save(w) \/ Fault(w) PROVE IInv'
  BY <1>2, BeginKeeps, CopyValuesKeeps, CopyRawKeeps, SkipTextKeeps, OpenKeeps,
    WriteKeeps, WriteRaisesKeeps, ReplaceKeeps, ReplaceFailsKeeps, FaultKeeps
    DEF Save
<1>3. ASSUME \/ StoreRaw \/ StoreValue \/ \E f \in Texts : StoreText(f)
             \/ Stop \/ LoopEnds \/ Exit \/ Restart
      PROVE  IInv'
  BY <1>3, StoreRawKeeps, StoreKeeps, StopKeeps, LoopEndsKeeps, ExitKeeps,
    RestartKeeps
<1> QED
  BY <1>1, <1>2, <1>3 DEF Next, Done

\* The inductive invariant: what the two writers have in hand, in the order in
\* which it is older than the memory and newer than the files.  A state file that
\* could not be read has no place in that order until a save is completed.
THEOREM Invariant == Spec => []IInv
BY InvInit, InvNext, PTL DEF Spec

\* Every variable holds a value of its kind (TypeOK).
THEOREM TypeCorrect == Spec => []TypeOK
<1>1. IInv => TypeOK
  BY DEF IInv
<1> QED
  BY <1>1, Invariant, PTL

\* A restart finds whole texts unless two writers used one temporary file
\* (WholeUnlessClash), whatever crashes and errors came before.
THEOREM FilesAreWhole == Spec => []WholeUnlessClash
<1>1. IInv => WholeUnlessClash
  BY DEF IInv, WholeOK, WholeUnlessClash
<1> QED
  BY <1>1, Invariant, PTL

\* What a save without an error had to save is in the files ever after, over
\* faults of writes and reads, crashes and restarts, but for a state that a start
\* could not read, and unless two saves have overlapped (CompletedSavesLast).
THEOREM SavesLast == Spec => []CompletedSavesLast
<1>1. IInv => CompletedSavesLast
  BY DEF IInv, SavesOK, SavedOK, CompletedSavesLast
<1> QED
  BY <1>1, Invariant, PTL

\* No step takes a file back to older content, but for a state that a start could
\* not read, and unless two saves have overlapped (FilesMoveForward).
THEOREM NeverBack == Spec => FilesMoveForward
<1>1. ASSUME IInv, [Next]_vars, ~overlapped', NEW f \in Files, ~GivenUp(f)
      PROVE  Covers(final'[f], final[f])
  <2>1. CASE final' = final
    BY <2>1, Types, <1>1, CoversItself
  <2>2. ASSUME NEW w \in Writers, Replace(w) PROVE Covers(final'[f], final[f])
    <3>1. /\ up /\ pc[w] = "replace" /\ ~overlapped
          /\ final' = [final EXCEPT ![at[w]] = tmp[at[w]]]
      BY <1>1, <2>2 DEF Replace, history
    <3>2. at[w] = f => Covers(tmp[f], final[f])
      BY <1>1, <3>1 DEF IInv, ForwardOK, Carries, Carried
    <3> QED
      BY <1>1, <3>1, <3>2, Types, CoversItself
  <2>3. ASSUME NEW w \in Writers, Write(w) \/ Fault(w) PROVE final' = final
    <3>1. ~overlapped /\ WholeOK /\ up
      BY <1>1, <2>3 DEF IInv, OrderOK, Write, Fault, history
    <3>2. pc[w] = "write" => handle[w] = "tmp"
      BY <3>1 DEF WholeOK
    <3> QED
      BY <2>3, <3>2 DEF Write, Fault, Put, disk
  <2>4. ASSUME NEW w \in Writers,
               Begin(w) \/ CopyValues(w) \/ CopyRaw(w) \/ SkipText(w) \/ Open(w)
                 \/ WriteRaises(w) \/ ReplaceFails(w)
        PROVE  final' = final
    BY <2>4 DEF Begin, CopyValues, CopyRaw, SkipText, Open, Target, WriteRaises,
      ReplaceFails, disk
  <2>5. ASSUME \/ StoreRaw \/ StoreValue \/ \E g \in Texts : StoreText(g)
               \/ Stop \/ LoopEnds \/ Exit \/ Restart \/ UNCHANGED vars
        PROVE  final' = final
    BY <2>5 DEF StoreRaw, StoreValue, StoreText, Stop, LoopEnds, Exit, Restart,
      disk, vars
  <2> QED
    BY <1>1, <2>1, <2>2, <2>3, <2>4, <2>5 DEF Next, Save, Done
<1>2. IInv /\ [Next]_vars =>
        [~overlapped' =>
           \A f \in Files : GivenUp(f) \/ Covers(final'[f], final[f])]_vars
  BY <1>1
<1> QED
  BY <1>2, Invariant, PTL DEF Spec, FilesMoveForward
=============================================================================
