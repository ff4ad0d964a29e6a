------------------------------ MODULE PathsProofs ------------------------------
(***************************************************************************)
(* The two paths main() follows.  What mkdirAll returns for a directory's, *)
(* proved for any number of processes, any depth of the path and any set   *)
(* of faults; and then the pages main() finds for a URI and for a longer   *)
(* one, for any words and any length.                                      *)
(***************************************************************************)
EXTENDS MkdirAll, Routes, SequenceLemmas, WellFoundedInduction, TLAPS

Descending == {"is_dir", "mkdir", "eexist"}

(* What mkdir stumbled over is there, and mkdirAll tries mkdir again under  *)
(* a parent that is a directory by then.                                    *)
Met(w) ==
    /\ pc[w] = "eexist" => node[level[w]] # "absent"
    /\ pc[w] = "again" => level[w] > 1 /\ node[level[w] - 1] = "dir"

(* The calls that wait for an inner one got ENOENT.                         *)
Asked(w) ==
    /\ pc[w] \in Descending \cup {"idle"} =>
          \A k \in Node : k > level[w] => k \in lacked[w]
    /\ pc[w] = "again" =>
          \A k \in Node : k >= level[w] => k \in lacked[w]

(* A process has created nothing at the levels it is still to create; and   *)
(* when it gives up, nothing at the one it gives up at, or below.           *)
Own(w) ==
    /\ pc[w] \in Descending \cup {"idle"} => made[w] = {}
    /\ pc[w] = "again" => \A k \in made[w] : k < level[w]
    /\ pc[w] = "done" => result[w] \/ \A k \in made[w] : k < level[w]

(* A node that was missing is missing still, or somebody made it.           *)
Accounted(w) ==
    \A k \in lacked[w] : node[k] = "absent" \/ \E r \in Worker : k \in made[r]

(* A call runs for the whole path before any other.                         *)
StartsAtPath(w) == pc[w] = "idle" => level[w] = Depth

(* Where something was missing, nothing above it is in the way.             *)
Clear(w) ==
    \A k \in lacked[w], i \in Node : i < k => node[i] \in {"absent", "dir"}

(* The two properties, for one process.                                     *)
TrueOf(w) == result[w] => HasDirBit(node[Depth])

FalseOf(w) ==
    pc[w] = "done" /\ ~result[w] =>
        \/ Obstacle
        \/ faulted[w]
        \/ /\ level[w] \in lacked[w]
           /\ \E r \in Worker \ {w} : level[w] \in made[r]

Local(w) ==
    /\ Met(w)
    /\ Asked(w)
    /\ Own(w)
    /\ Accounted(w)
    /\ Clear(w)
    /\ StartsAtPath(w)
    /\ TrueOf(w)
    /\ FalseOf(w)

IInv == TypeOK /\ Tree /\ \A w \in Worker : Local(w)
-----------------------------------------------------------------------------
(* Levels are nodes.                                                        *)
LEMMA LevelFacts ==
    ASSUME TypeOK, NEW w \in Worker
    PROVE  /\ level[w] \in 1..Depth /\ level[w] \in Node
           /\ level[w] - 1 \in Node /\ Depth \in Node /\ 0 \in Node
           /\ level[w] < Depth => level[w] + 1 \in 1..Depth
           /\ level[w] > 1 => level[w] - 1 \in 1..Depth
  BY DepthAssumption DEF TypeOK, Node

(* Returning keeps the types.                                               *)
LEMMA ReturnType ==
    ASSUME TypeOK, NEW w \in Worker, NEW value \in BOOLEAN, Return(w, value)
    PROVE  /\ pc' \in [Worker -> {"idle", "is_dir", "mkdir", "eexist", "again",
                                  "done", "dead"}]
           /\ level' \in [Worker -> 1..Depth]
           /\ result' \in [Worker -> BOOLEAN]
  <1>1. CASE value /\ level[w] < Depth
    BY <1>1, LevelFacts DEF Return, Goto, TypeOK
  <1>2. CASE ~(value /\ level[w] < Depth)
    BY <1>2 DEF Return, Goto, TypeOK
  <1> QED
    BY <1>1, <1>2

(* A directory is made at a level that had none, and nothing else changes.  *)
LEMMA MakeDirFacts ==
    ASSUME TypeOK, NEW w \in Worker, MakeDir(w)
    PROVE  /\ node' \in [Node -> {"absent", "dir", "file", "special"}]
           /\ made' \in [Worker -> SUBSET Node]
           /\ node[level[w]] = "absent"
           /\ node'[level[w]] = "dir"
           /\ \A i \in Node : i # level[w] => node'[i] = node[i]
           /\ made'[w] = made[w] \cup {level[w]}
           /\ \A r \in Worker : r # w => made'[r] = made[r]
  BY LevelFacts DEF MakeDir, Creatable, TypeOK

-----------------------------------------------------------------------------
(* Type correctness.                                                        *)
LEMMA TypeInit == Init => TypeOK
  BY DepthAssumption DEF Init, TypeOK, Node

(* No step spoils the type of a variable.                                   *)
LEMMA TypeStep == TypeOK /\ [Next]_vars => TypeOK'
  <1> SUFFICES ASSUME TypeOK, [Next]_vars PROVE TypeOK'
    OBVIOUS
  <1>1. ASSUME NEW w \in Worker, Call(w) PROVE TypeOK'
    BY <1>1 DEF Call, Goto, TypeOK
  <1>2. ASSUME NEW w \in Worker, IsDir(w) PROVE TypeOK'
    <2>1. CASE Return(w, TRUE)
      BY <1>2, <2>1, ReturnType DEF IsDir, TypeOK
    <2>2. CASE Goto(w, "mkdir") /\ UNCHANGED <<level, result>>
      BY <1>2, <2>2 DEF IsDir, Goto, TypeOK
    <2> QED
      BY <1>2, <2>1, <2>2 DEF IsDir
  <1>3. ASSUME NEW w \in Worker, Mkdir(w) PROVE TypeOK'
    <2>1. CASE MakeDir(w) /\ Return(w, TRUE) /\ UNCHANGED <<lacked, faulted>>
      BY <2>1, ReturnType, MakeDirFacts DEF TypeOK
    <2>2. CASE Goto(w, "eexist") /\ UNCHANGED <<node, level, result, made, lacked, faulted>>
      BY <2>2 DEF Goto, TypeOK
    <2>3. CASE /\ MissingParent(w)
               /\ lacked' = [lacked EXCEPT ![w] = @ \cup {level[w]}]
               /\ UNCHANGED <<node, made, faulted>>
      <3>1. lacked' \in [Worker -> SUBSET Node]
        BY <2>3, LevelFacts DEF TypeOK
      <3>2. CASE level[w] = 1
        BY <2>3, <3>1, <3>2, ReturnType DEF MissingParent, TypeOK
      <3>3. CASE level[w] # 1
        <4>1. level[w] - 1 \in 1..Depth
          BY <3>3, LevelFacts
        <4> QED
          BY <2>3, <3>1, <3>3, <4>1 DEF MissingParent, Goto, TypeOK
      <3> QED
        BY <3>2, <3>3
    <2>4. CASE Return(w, FALSE) /\ UNCHANGED <<node, made, lacked, faulted>>
      BY <2>4, ReturnType DEF TypeOK
    <2> QED
      BY <1>3, <2>1, <2>2, <2>3, <2>4 DEF Mkdir
  <1>4. ASSUME NEW w \in Worker, MkdirExists(w) PROVE TypeOK'
    <2>1. HasDirBit(node[level[w]]) \in BOOLEAN
      BY DEF HasDirBit
    <2> QED
      BY <1>4, <2>1, ReturnType DEF MkdirExists, AfterEexist, TypeOK
  <1>5. ASSUME NEW w \in Worker, MkdirAgain(w) PROVE TypeOK'
    <2>1. CASE MakeDir(w) /\ MkdirSucceeds(w)
      BY <1>5, <2>1, ReturnType, MakeDirFacts DEF MkdirAgain, MkdirSucceeds, TypeOK
    <2>2. CASE Return(w, FALSE) /\ UNCHANGED <<node, made>>
      BY <1>5, <2>2, ReturnType DEF MkdirAgain, TypeOK
    <2> QED
      BY <1>5, <2>1, <2>2 DEF MkdirAgain
  <1>6. ASSUME NEW w \in Worker, MkdirFault(w) PROVE TypeOK'
    BY <1>6, ReturnType DEF MkdirFault, TypeOK
  <1>7. ASSUME NEW w \in Worker, Crash(w) PROVE TypeOK'
    BY <1>7 DEF Crash, Goto, TypeOK
  <1>8. CASE UNCHANGED vars
    BY <1>8 DEF vars, TypeOK
  <1> QED
    BY <1>1, <1>2, <1>3, <1>4, <1>5, <1>6, <1>7, <1>8 DEF Next, Step

(* Every variable keeps its type; no call goes above the path's first       *)
(* component or below its last.                                             *)
THEOREM TypeCorrect == Spec => []TypeOK
  BY TypeInit, TypeStep, PTL DEF Spec
-----------------------------------------------------------------------------
(* The inductive invariant.                                                 *)
LEMMA InvInit == Init => IInv
  <1> SUFFICES ASSUME Init PROVE IInv
    OBVIOUS
  <1>1. TypeOK
    BY TypeInit
  <1>2. ASSUME NEW w \in Worker PROVE Local(w)
    BY <1>1, DepthAssumption DEF Init, Local, Met, Asked, Own, Accounted,
       Clear, StartsAtPath, TrueOf, FalseOf, Descending, Node
  <1> QED
    BY <1>1, <1>2 DEF IInv, Init

(* What a step of w leaves alone, and what it may add.                      *)
Quiet(w) ==
    /\ \A r \in Worker \ {w} :
         /\ pc'[r] = pc[r] /\ level'[r] = level[r] /\ result'[r] = result[r]
         /\ made'[r] = made[r] /\ lacked'[r] = lacked[r]
         /\ faulted'[r] = faulted[r]
    /\ made[w] \subseteq made'[w]

Grows(w) ==
    \A i \in Node :
        \/ node'[i] = node[i]
        \/ i \in 1..Depth /\ node[i] = "absent" /\ node'[i] = "dir" /\ i \in made'[w]

(* A return touches the returning process only.                             *)
LEMMA ReturnQuiet ==
    ASSUME TypeOK, NEW w \in Worker, NEW value \in BOOLEAN, Return(w, value)
    PROVE  \A r \in Worker \ {w} :
               pc'[r] = pc[r] /\ level'[r] = level[r] /\ result'[r] = result[r]
  BY DEF Return, Goto, TypeOK

(* Making a directory and returning touches nothing else of the others.     *)
LEMMA MadeFrame ==
    ASSUME TypeOK, NEW w \in Worker, MakeDir(w), Return(w, TRUE),
           UNCHANGED <<lacked, faulted>>
    PROVE  Quiet(w) /\ Grows(w)
  <1>1. Quiet(w)
    BY ReturnQuiet, MakeDirFacts DEF Quiet
  <1>2. Grows(w)
    BY MakeDirFacts, LevelFacts DEF Grows
  <1> QED
    BY <1>1, <1>2

(* A directory is made under a directory.                                   *)
LEMMA MakeDirTree ==
    ASSUME TypeOK, Tree, NEW w \in Worker, MakeDir(w)
    PROVE  Tree'
  <1>1. /\ level[w] \in 1..Depth /\ level[w] - 1 \in Node
        /\ node[level[w] - 1] = "dir" /\ node[level[w]] = "absent"
    BY LevelFacts DEF MakeDir, Creatable
  <1> SUFFICES ASSUME NEW i \in Node, NEW j \in Node, i < j, node'[j] # "absent"
               PROVE  node'[i] = "dir"
    BY DEF Tree
  <1>2. i # level[w]
    BY <1>1, MakeDirFacts DEF Tree, Node
  <1>3. CASE j = level[w]
    <2>1. i = level[w] - 1 \/ i < level[w] - 1
      BY <1>1, <1>3 DEF Node
    <2> QED
      BY <1>1, <1>2, <2>1, MakeDirFacts DEF Tree
  <1>4. CASE j # level[w]
    BY <1>2, <1>4, MakeDirFacts DEF Tree
  <1> QED
    BY <1>3, <1>4

(* Every step keeps the tree a tree.                                        *)
LEMMA TreeStep ==
    ASSUME TypeOK, Tree, NEW w \in Worker, Call(w) \/ Step(w) \/ Crash(w)
    PROVE  Tree'
  <1>1. MakeDir(w) \/ UNCHANGED node
    BY DEF Call, Step, Crash, IsDir, Mkdir, MkdirExists, MkdirAgain, MkdirFault
  <1> QED
    BY <1>1, MakeDirTree DEF Tree

(* Every step of a process leaves the others alone, and adds directories    *)
(* that it records as its own.                                              *)
LEMMA StepFrame ==
    ASSUME TypeOK, NEW w \in Worker, Call(w) \/ Step(w) \/ Crash(w)
    PROVE  Quiet(w) /\ Grows(w)
  <1> USE DEF Quiet, Grows, Goto
  <1>1. CASE Call(w) \/ Crash(w)
    BY <1>1 DEF Call, Crash, TypeOK
  <1>2. CASE IsDir(w)
    BY <1>2, ReturnQuiet DEF IsDir, TypeOK
  <1>3. CASE Mkdir(w)
    <2>1. CASE MakeDir(w) /\ Return(w, TRUE) /\ UNCHANGED <<lacked, faulted>>
      BY <2>1, MadeFrame
    <2>2. CASE Goto(w, "eexist") /\ UNCHANGED <<node, level, result, made, lacked, faulted>>
      BY <2>2 DEF TypeOK
    <2>3. CASE /\ MissingParent(w)
               /\ lacked' = [lacked EXCEPT ![w] = @ \cup {level[w]}]
               /\ UNCHANGED <<node, made, faulted>>
      BY <2>3, ReturnQuiet DEF MissingParent, TypeOK
    <2>4. CASE Return(w, FALSE) /\ UNCHANGED <<node, made, lacked, faulted>>
      BY <2>4, ReturnQuiet
    <2> QED
      BY <1>3, <2>1, <2>2, <2>3, <2>4 DEF Mkdir
  <1>4. CASE MkdirExists(w)
    <2>1. AfterEexist(w) => Return(w, TRUE) \/ Return(w, FALSE)
      BY DEF AfterEexist, Return
    <2> QED
      BY <1>4, <2>1, ReturnQuiet DEF MkdirExists
  <1>5. CASE MkdirAgain(w)
    <2>1. CASE MakeDir(w) /\ MkdirSucceeds(w)
      BY <1>5, <2>1, MadeFrame DEF MkdirAgain, MkdirSucceeds
    <2>2. CASE Return(w, FALSE) /\ UNCHANGED <<node, made>>
      BY <1>5, <2>2, ReturnQuiet DEF MkdirAgain
    <2> QED
      BY <1>5, <2>1, <2>2 DEF MkdirAgain
  <1>6. CASE MkdirFault(w)
    BY <1>6, ReturnQuiet DEF MkdirFault, TypeOK
  <1> QED
    BY <1>1, <1>2, <1>3, <1>4, <1>5, <1>6 DEF Step

(* What is there stays, so the others keep what they know.                  *)
LEMMA OthersKept ==
    ASSUME IInv, TypeOK', NEW w \in Worker, Quiet(w), Grows(w),
           NEW r \in Worker, r # w
    PROVE  Local(r)'
  <1> USE DEF Quiet, Grows
  <1>1. Local(r) /\ TypeOK
    BY DEF IInv
  <1>2. \A q \in Worker : made[q] \subseteq made'[q]
    OBVIOUS
  <1>3. Met(r)'
    BY <1>1, LevelFacts DEF Local, Met
  <1>4. Asked(r)' /\ Own(r)' /\ StartsAtPath(r)'
    BY <1>1 DEF Local, Asked, Own, StartsAtPath
  <1>5. Accounted(r)' /\ Clear(r)'
    BY <1>1, <1>2 DEF Local, Accounted, Clear, TypeOK
  <1>6. TrueOf(r)'
    BY <1>1, LevelFacts DEF Local, TrueOf, HasDirBit
  <1>7. FalseOf(r)'
    <2>1. node[0] = "absent" => node'[0] = "absent"
      BY <1>1, LevelFacts DEF Node
    <2>2. \A i \in Node : node[i] \in {"file", "special"} => node'[i] = node[i]
      OBVIOUS
    <2>3. Obstacle => Obstacle'
      BY <2>1, <2>2, DepthAssumption DEF Obstacle, Node
    <2> QED
      BY <1>1, <1>2, <2>3 DEF Local, FalseOf
  <1> QED
    BY <1>3, <1>4, <1>5, <1>6, <1>7 DEF Local

(* What a process is owed for its own step, whichever it is.                *)
LEMMA AccountedKept ==
    ASSUME IInv, TypeOK', NEW w \in Worker, Quiet(w), Grows(w),
           lacked'[w] = lacked[w]
    PROVE  Accounted(w)' /\ Clear(w)'
  <1>1. Accounted(w) /\ Clear(w) /\ TypeOK
    BY DEF IInv, Local
  <1>2. \A q \in Worker : made[q] \subseteq made'[q]
    BY DEF Quiet
  <1> QED
    BY <1>1, <1>2 DEF Accounted, Clear, Grows, TypeOK

(* Returning true, from a directory.                                        *)
LEMMA ReturnTrue ==
    ASSUME IInv, TypeOK', NEW w \in Worker, Quiet(w), Grows(w),
           pc[w] \in Descending \cup {"again"},
           Return(w, TRUE),
           HasDirBit(node'[level[w]]),
           made'[w] \subseteq made[w] \cup {level[w]},
           lacked'[w] = lacked[w]
    PROVE  Local(w)'
  <1>1. TypeOK /\ Met(w) /\ Asked(w) /\ Own(w) /\ TrueOf(w)
    BY DEF IInv, Local
  <1>2. Accounted(w)' /\ Clear(w)'
    BY AccountedKept
  <1>3. \A k \in Node : k > level[w] => k \in lacked[w]
    BY <1>1, LevelFacts DEF Asked, Node
  <1>4. \A k \in made'[w] : k <= level[w]
    <2>1. level[w] \in Nat /\ made[w] \subseteq Nat
      BY <1>1, LevelFacts DEF TypeOK, Node
    <2>2. \A k \in made[w] : k < level[w]
      BY <1>1 DEF Own
    <2> QED
      BY <2>1, <2>2
  <1>5. CASE level[w] < Depth
    <2>1. pc'[w] = "again" /\ level'[w] = level[w] + 1 /\ result'[w] = result[w]
      BY <1>1, <1>5 DEF Return, Goto, TypeOK
    <2>2. level'[w] > 1 /\ level'[w] - 1 = level[w]
      BY <1>1, <2>1, LevelFacts
    <2>3. Met(w)'
      <3>1. level[w] \in Node /\ level[w] + 1 \in Node /\ level[w] + 1 > level[w]
        BY <1>1, <1>5, LevelFacts DEF Node
      <3>2. level[w] + 1 \in lacked'[w]
        BY <1>3, <3>1
      <3>3. node'[level[w]] = "dir"
        BY <1>2, <3>1, <3>2 DEF Clear, HasDirBit
      <3> QED
        BY <2>1, <2>2, <3>3 DEF Met
    <2>4. Asked(w)'
      BY <1>1, <1>3, <2>1, LevelFacts DEF Asked, Descending, Node
    <2>5. Own(w)'
      BY <1>1, <1>4, <2>1, LevelFacts DEF Own, Descending, TypeOK, Node
    <2>6. TrueOf(w)'
      BY <1>1, <2>1, LevelFacts DEF TrueOf, Grows, HasDirBit
    <2>7. StartsAtPath(w)' /\ FalseOf(w)'
      BY <2>1 DEF StartsAtPath, FalseOf
    <2> QED
      BY <1>2, <2>3, <2>4, <2>5, <2>6, <2>7 DEF Local
  <1>6. CASE ~(level[w] < Depth)
    <2>1. pc'[w] = "done" /\ result'[w]
      BY <1>1, <1>6 DEF Return, Goto, TypeOK
    <2>2. level[w] = Depth
      BY <1>1, <1>6, LevelFacts, DepthAssumption
    <2> QED
      BY <1>2, <2>1, <2>2 DEF Local, Met, Asked, Own, StartsAtPath, TrueOf,
         FalseOf, Descending
  <1> QED
    BY <1>5, <1>6

(* Returning false, with an excuse.                                         *)
LEMMA ReturnFalse ==
    ASSUME IInv, TypeOK', NEW w \in Worker, Return(w, FALSE),
           Accounted(w)', Clear(w)',
           UNCHANGED <<node, made>>, pc[w] \in Descending \cup {"again"},
           \/ Obstacle
           \/ faulted'[w]
           \/ /\ level[w] \in lacked'[w]
              /\ \E r \in Worker \ {w} : level[w] \in made[r]
    PROVE  Local(w)'
  <1>1. pc'[w] = "done" /\ ~result'[w] /\ level'[w] = level[w]
    BY DEF Return, Goto, IInv, TypeOK
  <1>2. \A k \in made'[w] : k < level'[w]
    BY <1>1 DEF IInv, Local, Own
  <1>3. FalseOf(w)'
    BY <1>1 DEF FalseOf, Obstacle
  <1> QED
    BY <1>1, <1>2, <1>3 DEF Local, Met, Asked, Own, StartsAtPath, TrueOf, Descending

(* A process' own step keeps what it knows.                                 *)
LEMMA OwnStep ==
    ASSUME IInv, TypeOK', NEW w \in Worker, Call(w) \/ Step(w) \/ Crash(w)
    PROVE  Local(w)'
  <1>0. TypeOK /\ Local(w) /\ Quiet(w) /\ Grows(w)
    BY StepFrame DEF IInv
  <1>1. CASE Call(w) \/ Crash(w)
    <2>1. /\ UNCHANGED <<node, level, result, made, lacked, faulted>>
          /\ \/ pc[w] = "idle" /\ pc'[w] = "is_dir"
             \/ pc'[w] = "dead"
      BY <1>0, <1>1 DEF Call, Crash, Goto, TypeOK
    <2> QED
      BY <1>0, <2>1 DEF Local, Met, Asked, Own, Accounted, Clear, StartsAtPath,
         TrueOf, FalseOf, Obstacle, Descending
  <1>2. CASE IsDir(w)
    <2>1. CASE HasDirBit(node[level[w]]) /\ Return(w, TRUE)
      BY <1>0, <1>2, <2>1, ReturnTrue DEF IsDir, Descending
    <2>2. CASE Goto(w, "mkdir") /\ UNCHANGED <<level, result>>
      <3>1. pc[w] = "is_dir" /\ pc'[w] = "mkdir"
        BY <1>0, <1>2, <2>2 DEF IsDir, Goto, TypeOK
      <3> QED
        BY <1>0, <1>2, <2>2, <3>1 DEF IsDir, Local, Met, Asked, Own, Accounted,
           Clear, StartsAtPath, TrueOf, FalseOf, Obstacle, Descending
    <2> QED
      BY <1>2, <2>1, <2>2 DEF IsDir
  <1>3. CASE Mkdir(w)
    <2>0. pc[w] = "mkdir" /\ level[w] \in Node
      BY <1>0, <1>3, LevelFacts DEF Mkdir
    <2>1. CASE MakeDir(w) /\ Return(w, TRUE) /\ UNCHANGED <<lacked, faulted>>
      BY <1>0, <2>0, <2>1, MakeDirFacts, ReturnTrue DEF Descending, HasDirBit
    <2>2. CASE /\ node[level[w]] # "absent"
               /\ Goto(w, "eexist")
               /\ UNCHANGED <<node, level, result, made, lacked, faulted>>
      <3>1. pc'[w] = "eexist"
        BY <1>0, <2>2 DEF Goto, TypeOK
      <3> QED
        BY <1>0, <2>0, <2>2, <3>1 DEF Local, Met, Asked, Own, Accounted, Clear,
           StartsAtPath, TrueOf, FalseOf, Obstacle, Descending
    <2>3. CASE /\ Enoent(level[w])
               /\ MissingParent(w)
               /\ lacked' = [lacked EXCEPT ![w] = @ \cup {level[w]}]
               /\ UNCHANGED <<node, made, faulted>>
      <3>1. node[level[w]] = "absent" /\ lacked'[w] = lacked[w] \cup {level[w]}
        BY <1>0, <2>3 DEF Enoent, TypeOK
      <3>2. Accounted(w)' /\ Clear(w)'
        <4>1. \A i \in Node : i < level[w] => node[i] \in {"absent", "dir"}
          <5> SUFFICES ASSUME NEW i \in Node, i < level[w]
                       PROVE  node[i] \in {"absent", "dir"}
            OBVIOUS
          <5>1. i \in 0..(level[w] - 1)
            BY <1>0, LevelFacts DEF Node
          <5> QED
            BY <1>0, <2>3, <5>1 DEF Enoent, Enotdir, TypeOK
        <4> QED
          BY <1>0, <2>3, <3>1, <4>1 DEF Local, Accounted, Clear
      <3>3. CASE level[w] = 1
        <4>1. Obstacle
          BY <1>0, <2>3, <3>3, LevelFacts DEF Enoent, Creatable, Enotdir, TypeOK,
             Obstacle
        <4> QED
          BY <1>0, <2>0, <2>3, <3>2, <3>3, <4>1, ReturnFalse DEF MissingParent, Descending
      <3>4. CASE level[w] # 1
        <4>1. /\ pc'[w] = "is_dir" /\ level'[w] = level[w] - 1
              /\ result'[w] = result[w]
          BY <1>0, <2>3, <3>4 DEF MissingParent, Goto, TypeOK
        <4>2. \A k \in Node : k > level[w] => k \in lacked[w]
          BY <1>0, <2>0 DEF Local, Asked, Descending
        <4>3. Asked(w)'
          BY <1>0, <2>0, <3>1, <4>1, <4>2, LevelFacts DEF Asked, Node
        <4>4. Own(w)'
          BY <1>0, <2>0, <2>3, <4>1 DEF Local, Own, Descending
        <4> QED
          BY <1>0, <2>3, <3>2, <4>1, <4>3, <4>4 DEF Local, Met, StartsAtPath,
             TrueOf, FalseOf, Obstacle
      <3> QED
        BY <3>3, <3>4
    <2>4. CASE Enotdir(level[w]) /\ Return(w, FALSE)
               /\ UNCHANGED <<node, made, lacked, faulted>>
      <3>1. Obstacle
        BY <1>0, <2>4, LevelFacts DEF Enotdir, Obstacle, Node
      <3>2. Accounted(w)' /\ Clear(w)'
        BY <1>0, <2>4, AccountedKept
      <3> QED
        BY <2>0, <2>4, <3>1, <3>2, ReturnFalse DEF Descending
    <2> QED
      BY <1>3, <2>1, <2>2, <2>3, <2>4 DEF Mkdir
  <1>4. CASE MkdirExists(w)
    <2>1. CASE HasDirBit(node[level[w]])
      <3>1. Return(w, TRUE)
        BY <1>4, <2>1 DEF MkdirExists, AfterEexist, Return
      <3> QED
        BY <1>0, <1>4, <2>1, <3>1, ReturnTrue DEF MkdirExists, Descending
    <2>2. CASE ~HasDirBit(node[level[w]])
      <3>1. Obstacle
        <4>1. node[level[w]] = "file" /\ level[w] \in Node
          BY <1>0, <1>4, <2>2, LevelFacts DEF MkdirExists, Local, Met, TypeOK,
             HasDirBit
        <4> QED
          BY <4>1 DEF Obstacle
      <3>2. Accounted(w)' /\ Clear(w)'
        BY <1>0, <1>4, AccountedKept DEF MkdirExists
      <3>3. Return(w, FALSE)
        BY <1>4, <2>2 DEF MkdirExists, AfterEexist, Return
      <3> QED
        BY <1>4, <3>1, <3>2, <3>3, ReturnFalse DEF MkdirExists, Descending
    <2> QED
      BY <2>1, <2>2
  <1>5. CASE MkdirAgain(w)
    <2>0. /\ pc[w] = "again" /\ UNCHANGED <<lacked, faulted>>
          /\ level[w] \in Node
      BY <1>0, <1>5, LevelFacts DEF MkdirAgain
    <2>1. CASE MakeDir(w) /\ MkdirSucceeds(w)
      BY <1>0, <2>0, <2>1, MakeDirFacts, ReturnTrue DEF MkdirSucceeds, HasDirBit
    <2>2. CASE ~Creatable(level[w]) /\ Return(w, FALSE) /\ UNCHANGED <<node, made>>
      <3>1. Accounted(w)' /\ Clear(w)'
        BY <1>0, <2>0, AccountedKept
      <3>2. node[level[w]] # "absent"
        BY <1>0, <2>0, <2>2 DEF Creatable, Local, Met
      <3>3. level[w] \in lacked[w] /\ level[w] \notin made[w]
        BY <1>0, <2>0, LevelFacts DEF Local, Asked, Own, Node
      <3>4. \E r \in Worker \ {w} : level[w] \in made[r]
        BY <1>0, <3>2, <3>3 DEF Local, Accounted
      <3> QED
        BY <2>0, <2>2, <3>1, <3>3, <3>4, ReturnFalse
    <2> QED
      BY <1>5, <2>1, <2>2 DEF MkdirAgain
  <1>6. CASE MkdirFault(w)
    <2>1. faulted'[w] /\ lacked' = lacked
      BY <1>0, <1>6 DEF MkdirFault, TypeOK
    <2>2. Accounted(w)' /\ Clear(w)'
      BY <1>0, <2>1, AccountedKept
    <2> QED
      BY <1>6, <2>1, <2>2, ReturnFalse DEF MkdirFault, Descending
  <1> QED
    BY <1>1, <1>2, <1>3, <1>4, <1>5, <1>6 DEF Step

(* Every step preserves the invariant.                                      *)
LEMMA InvStep == IInv /\ [Next]_vars => IInv'
  <1> SUFFICES ASSUME IInv, [Next]_vars PROVE IInv'
    OBVIOUS
  <1>1. TypeOK /\ TypeOK'
    BY TypeStep DEF IInv
  <1>2. ASSUME NEW w \in Worker, Call(w) \/ Step(w) \/ Crash(w)
        PROVE  Tree' /\ \A r \in Worker : Local(r)'
    BY <1>1, <1>2, StepFrame, OwnStep, OthersKept, TreeStep DEF IInv
  <1>3. CASE UNCHANGED vars
    BY <1>1, <1>3 DEF vars, IInv, Local, Met, Asked, Own, Accounted,
       Clear, StartsAtPath, TrueOf, FalseOf, Obstacle, Tree
  <1> QED
    BY <1>1, <1>2, <1>3 DEF Next, IInv

(* IInv holds of the callers in every reachable state.                      *)
THEOREM InvHolds == Spec => []IInv
  BY InvInit, InvStep, PTL DEF Spec

(* Whoever mkdirAll tells true has all the directories of the path, but for *)
(* the last one, which may be a socket or a block device as well.           *)
THEOREM TrueMeansDirHolds == Spec => []TrueMeansDir
  <1>1. IInv => TrueMeansDir
    BY DepthAssumption DEF IInv, Local, TrueOf, HasDirBit, TrueMeansDir, Tree, Node
  <1> QED
    BY <1>1, InvHolds, PTL

(* Whoever mkdirAll tells false has met an obstacle, or lost a directory to *)
(* a rival after having made its parent.                                    *)
THEOREM FalseJustifiedHolds == Spec => []FalseJustified
  <1>1. IInv => FalseJustified
    BY DEF IInv, Local, FalseOf, FalseJustified
  <1> QED
    BY <1>1, InvHolds, PTL

(* Who has failed for a rival's directory has failed above that rival.      *)
LEMMA RivalBelow ==
    ASSUME IInv, NEW w \in Worker, pc[w] = "done",
           \A r \in Worker : pc[r] \in {"idle", "done"} /\ ~faulted[r] /\ ~result[r],
           ~Obstacle
    PROVE  \E r \in Worker : pc[r] = "done" /\ level[w] < level[r]
  <1>1. FalseOf(w)
    BY DEF IInv, Local
  <1>2. PICK r \in Worker : level[w] \in made[r]
    BY <1>1 DEF FalseOf
  <1>3. Own(r)
    BY DEF IInv, Local
  <1> QED
    BY <1>2, <1>3 DEF Own

(* Of several callers that are not killed and meet no obstacle at least one *)
(* is told that the directory is there: the one that failed deepest would   *)
(* have to have failed above another.                                       *)
THEOREM SomeoneSucceedsHolds == Spec => []SomeoneSucceeds
  <1>1. IInv => SomeoneSucceeds
    <2> SUFFICES ASSUME IInv,
                        \A r \in Worker : pc[r] \in {"idle", "done"} /\ ~faulted[r] /\ ~result[r],
                        ~Obstacle,
                        NEW v \in Worker, pc[v] = "done"
                 PROVE  FALSE
      BY DEF SomeoneSucceeds
    <2> DEFINE Heights == {h \in Nat : \E w \in Worker : pc[w] = "done" /\ h = Depth - level[w]}
    <2>1. \A w \in Worker : level[w] \in Nat /\ Depth \in Nat /\ level[w] <= Depth
      <3>1. ASSUME NEW w \in Worker
            PROVE  level[w] \in Nat /\ Depth \in Nat /\ level[w] <= Depth
        <4>1. level[w] \in 1..Depth
          BY DEF IInv, TypeOK
        <4> QED
          BY <4>1, DepthAssumption
      <3> QED
        BY <3>1
    <2>2. Depth - level[v] \in Heights
      BY <2>1
    <2>3. OpToRel(<, Nat) = {ss \in Nat \X Nat : ss[1] < ss[2]}
      BY Zenon DEF OpToRel
    <2>4. PICK h \in Heights : \A y \in Heights : ~(<<y, h>> \in OpToRel(<, Nat))
      <3>1. Heights \subseteq Nat /\ Heights # {}
        BY <2>2
      <3> HIDE DEF Heights
      <3> QED
        BY <3>1, NatLessThanWellFounded, WFMin, Zenon
    <2>5. PICK w \in Worker : pc[w] = "done" /\ h = Depth - level[w]
      OBVIOUS
    <2>6. PICK r \in Worker : pc[r] = "done" /\ level[w] < level[r]
      BY <2>5, RivalBelow
    <2>7. Depth - level[r] \in Heights /\ Depth - level[r] < h
      BY <2>1, <2>5, <2>6
    <2>8. Depth - level[r] \in Nat /\ h \in Nat
      BY <2>7
    <2> HIDE DEF Heights
    <2>9. <<Depth - level[r], h>> \in {ss \in Nat \X Nat : ss[1] < ss[2]}
      <3> DEFINE d == Depth - level[r]
      <3>1. d < h /\ d \in Nat /\ h \in Nat
        BY <2>7, <2>8
      <3> HIDE DEF d
      <3>2. <<d, h>> \in {ss \in Nat \X Nat : ss[1] < ss[2]}
        BY <3>1
      <3> QED
        BY <3>2 DEF d
    <2> QED
      BY <2>3, <2>4, <2>7, <2>9, Zenon
  <1> QED
    BY <1>1, InvHolds, PTL
-----------------------------------------------------------------------------
(* The greedy capture of prefixes is the longest of them.                   *)
LEMMA Greedy ==
    ASSUME NEW S, NEW t \in Seq(S), NEW N \in SUBSET (0..Len(t)), NEW m \in N,
           \A n \in N : n <= m
    PROVE  Capture({SubSeq(t, 1, n) : n \in N}) = SubSeq(t, 1, m)
  <1> DEFINE M == {SubSeq(t, 1, n) : n \in N}
  <1>1. ASSUME NEW n \in N PROVE Len(SubSeq(t, 1, n)) = n /\ n \in Nat
    OBVIOUS
  <1>2. SubSeq(t, 1, m) \in M /\ \A d \in M : Len(d) <= Len(SubSeq(t, 1, m))
    BY <1>1
  <1>3. \A c \in M : (\A d \in M : Len(d) <= Len(c)) => c = SubSeq(t, 1, m)
    <2> SUFFICES ASSUME NEW n \in N, \A d \in M : Len(d) <= Len(SubSeq(t, 1, n))
                 PROVE  n = m
      OBVIOUS
    <2>1. Len(SubSeq(t, 1, m)) <= Len(SubSeq(t, 1, n))
      OBVIOUS
    <2> QED
      BY <1>1, <2>1
  <1> HIDE DEF M
  <1>4. Capture(M) = SubSeq(t, 1, m)
    BY <1>2, <1>3, Zenon DEF Capture
  <1> QED
    BY <1>4 DEF M

(* Behind an optional slash the capture takes everything.                   *)
LEMMA TakesAll ==
    ASSUME NEW S, NEW t \in Seq(S)
    PROVE  UpTo(t, OptionalSlash) # {} /\ Capture(UpTo(t, OptionalSlash)) = t
  <1> DEFINE N == {k \in 0..Len(t) : SubSeq(t, k + 1, Len(t)) \in OptionalSlash}
             m == Len(t)
  <1>1. m \in N /\ N \in SUBSET (0..Len(t)) /\ \A n \in N : n <= m
    <2>1. SubSeq(t, m + 1, m) = <<>> /\ m \in 0..Len(t)
      OBVIOUS
    <2>2. <<>> \in OptionalSlash
      BY DEF OptionalSlash
    <2>3. m \in N
      BY <2>1, <2>2
    <2>4. \A n \in 0..Len(t) : n <= m
      OBVIOUS
    <2> QED
      BY <2>3, <2>4
  <1>2. UpTo(t, OptionalSlash) = {SubSeq(t, 1, n) : n \in N}
    BY DEF UpTo
  <1>3. SubSeq(t, 1, m) = t
    BY SubSeqFull
  <1> HIDE DEF N, m
  <1> QED
    BY <1>1, <1>2, <1>3, Greedy

ByElement(s, a, b, c) ==
    /\ s = <<a, b>> <=> Len(s) = 2 /\ s[1] = a /\ s[2] = b
    /\ s = <<a, b, c>> <=> Len(s) = 3 /\ s[1] = a /\ s[2] = b /\ s[3] = c
    /\ s = <<a, b, c, a>> <=> Len(s) = 4 /\ s[1] = a /\ s[2] = b /\ s[3] = c /\ s[4] = a

(* What two or three or four elements are.                                  *)
LEMMA FewElements ==
    ASSUME NEW S, NEW s \in Seq(S), NEW a, NEW b, NEW c
    PROVE  ByElement(s, a, b, c)
  BY DEF ByElement

(* t ends, behind its first k, with a and b, and then c or a or both.       *)
EndsAt(t, k, a, b, c) ==
    /\ t[k + 1] = a /\ t[k + 2] = b
    /\ \/ Len(t) = k + 2
       \/ Len(t) = k + 3 /\ t[k + 3] \in {c, a}
       \/ Len(t) = k + 4 /\ t[k + 3] = c /\ t[k + 4] = a

(* What follows the first k is such an end, told element by element.        *)
LEMMA EndsAtIs ==
    ASSUME NEW S, NEW t \in Seq(S), NEW k \in 0..Len(t), NEW a, NEW b, NEW c
    PROVE  SubSeq(t, k + 1, Len(t)) \in {<<a, b>>, <<a, b, c>>, <<a, b, a>>, <<a, b, c, a>>}
               <=> EndsAt(t, k, a, b, c)
  <1> DEFINE s == SubSeq(t, k + 1, Len(t))
  <1>1. /\ s \in Seq(S) /\ Len(s) = Len(t) - k
        /\ Len(t) \in Nat /\ k \in Nat /\ k <= Len(t)
        /\ \A i \in 1..Len(t) - k : s[i] = t[k + i]
    OBVIOUS
  <1> HIDE DEF s
  <1>2. /\ s = <<a, b>> <=> Len(s) = 2 /\ s[1] = a /\ s[2] = b
        /\ s = <<a, b, c>> <=> Len(s) = 3 /\ s[1] = a /\ s[2] = b /\ s[3] = c
        /\ s = <<a, b, a>> <=> Len(s) = 3 /\ s[1] = a /\ s[2] = b /\ s[3] = a
        /\ s = <<a, b, c, a>> <=> Len(s) = 4 /\ s[1] = a /\ s[2] = b /\ s[3] = c /\ s[4] = a
    <2>1. ByElement(s, a, b, c) /\ ByElement(s, a, b, a)
      BY <1>1, FewElements, Zenon
    <2> QED
      BY <2>1, Zenon DEF ByElement
  <1>3. s \in {<<a, b>>, <<a, b, c>>, <<a, b, a>>, <<a, b, c, a>>} <=> EndsAt(t, k, a, b, c)
    <2>1. /\ Len(s) = 2 <=> Len(t) = k + 2
          /\ Len(s) = 3 <=> Len(t) = k + 3
          /\ Len(s) = 4 <=> Len(t) = k + 4
      BY <1>1
    <2>2. /\ Len(s) = 2 \/ Len(s) = 3 \/ Len(s) = 4 => s[1] = t[k + 1] /\ s[2] = t[k + 2]
          /\ Len(s) = 3 \/ Len(s) = 4 => s[3] = t[k + 3]
          /\ Len(s) = 4 => s[4] = t[k + 4]
      BY <1>1
    <2>3. s \in {<<a, b>>, <<a, b, c>>, <<a, b, a>>, <<a, b, c, a>>} <=>
            /\ s[1] = a /\ s[2] = b
            /\ \/ Len(s) = 2
               \/ Len(s) = 3 /\ s[3] \in {c, a}
               \/ Len(s) = 4 /\ s[3] = c /\ s[4] = a
      BY <1>2, Zenon
    <2> QED
      BY <2>1, <2>2, <2>3, Zenon DEF EndsAt
  <1> QED
    BY <1>3 DEF s

(* There is one such end at most.                                           *)
LEMMA OneEnd ==
    ASSUME NEW S, NEW t \in Seq(S), NEW k \in 0..Len(t), NEW n \in 0..Len(t),
           NEW a, NEW b, NEW c, a # b, a # c, b # c,
           EndsAt(t, k, a, b, c), EndsAt(t, n, a, b, c)
    PROVE  n = k
  <1>0. Len(t) \in Nat
    OBVIOUS
  <1>1. ASSUME NEW x \in Nat, NEW y \in Nat, EndsAt(t, x, a, b, c), EndsAt(t, y, a, b, c), x < y
        PROVE  FALSE
    <2>1. y = x + 1 \/ y = x + 2
      <3>1. /\ Len(t) = x + 2 \/ Len(t) = x + 3 \/ Len(t) = x + 4
            /\ Len(t) = y + 2 \/ Len(t) = y + 3 \/ Len(t) = y + 4
        BY <1>1, Zenon DEF EndsAt
      <3> QED
        BY <1>0, <1>1, <3>1
    <2>2. CASE y = x + 1
      BY <1>1, <2>2 DEF EndsAt
    <2>3. CASE y = x + 2
      BY <1>1, <2>3 DEF EndsAt
    <2> QED
      BY <2>1, <2>2, <2>3
  <1>2. k \in Nat /\ n \in Nat
    OBVIOUS
  <1>3. ~(k < n) /\ ~(n < k)
    BY <1>1, <1>2
  <1> QED
    BY <1>2, <1>3

-----------------------------------------------------------------------------
AmpAt(t, k) == EndsAt(t, k, "/", "am", "p")

(* The captures of the pattern for AMP pages: one at most.                  *)
LEMMA AmpCaptures ==
    ASSUME NEW S, NEW t \in Seq(S)
    PROVE  /\ \A k \in 1..Len(t) : AmpAt(t, k) =>
                 /\ UpTo(t, AmpEnd) \ {<<>>} # {}
                 /\ Capture(UpTo(t, AmpEnd) \ {<<>>}) = SubSeq(t, 1, k)
           /\ (\A k \in 1..Len(t) : ~AmpAt(t, k)) => UpTo(t, AmpEnd) \ {<<>>} = {}
  <1> DEFINE N == {k \in 0..Len(t) : SubSeq(t, k + 1, Len(t)) \in AmpEnd}
             I == {k \in 1..Len(t) : AmpAt(t, k)}
             M == {SubSeq(t, 1, k) : k \in I}
  <1>1. Len(t) \in Nat /\ "/" # "am" /\ "/" # "p" /\ "am" # "p"
    OBVIOUS
  <1>2. N = {k \in 0..Len(t) : AmpAt(t, k)}
    <2>1. ASSUME NEW k \in 0..Len(t)
          PROVE  SubSeq(t, k + 1, Len(t)) \in AmpEnd <=> AmpAt(t, k)
      <3>1. AmpEnd = {<<"/", "am">>, <<"/", "am", "p">>, <<"/", "am", "/">>, <<"/", "am", "p", "/">>}
        BY Zenon DEF AmpEnd
      <3> QED
        BY <3>1, EndsAtIs, Zenon DEF AmpAt
    <2> QED
      BY <2>1, Zenon
  <1>3. UpTo(t, AmpEnd) = {SubSeq(t, 1, k) : k \in N}
    BY DEF UpTo
  <1>4. UpTo(t, AmpEnd) \ {<<>>} = M
    <2>1. ASSUME NEW k \in 0..Len(t) PROVE SubSeq(t, 1, k) # <<>> <=> k \in 1..Len(t)
      BY <1>1
    <2>2. \A k \in 1..Len(t) : k \in 0..Len(t)
      OBVIOUS
    <2> HIDE DEF AmpAt
    <2> QED
      BY <1>2, <1>3, <2>1, <2>2
  <1>5. ASSUME NEW k \in 1..Len(t), AmpAt(t, k) PROVE M # {} /\ Capture(M) = SubSeq(t, 1, k)
    <2>1. \A n \in I : n = k
      <3>1. ASSUME NEW n \in I PROVE n = k
        <4>1. n \in 0..Len(t) /\ k \in 0..Len(t)
          BY <1>5
        <4>2. AmpAt(t, n)
          OBVIOUS
        <4> QED
          BY <1>1, <1>5, <4>1, <4>2, OneEnd, Zenon DEF AmpAt
      <3> QED
        BY <3>1
    <2>2. k \in I /\ I \in SUBSET (0..Len(t)) /\ (\A n \in I : n <= k)
      <3>1. k \in I
        BY <1>5
      <3>2. I \in SUBSET (0..Len(t))
        OBVIOUS
      <3> HIDE DEF I
      <3> QED
        BY <2>1, <3>1, <3>2
    <2> HIDE DEF I
    <2> QED
      BY <2>2, Greedy
  <1>6. (\A k \in 1..Len(t) : ~AmpAt(t, k)) => M = {}
    BY Zenon
  <1> HIDE DEF M
  <1> QED
    BY <1>4, <1>5, <1>6, Zenon

-----------------------------------------------------------------------------
(* The page of a URI.                                                       *)
PageBy(pattern, u) == [kind |-> pattern, text |-> Decode(Capture(Captures(pattern, u)))]

PageOf(u) ==
    IF u = NoUri THEN Nothing
    ELSE IF u = <<"/">> THEN [kind |-> "home", text |-> <<>>]
    ELSE IF Captures("tag", u) # {} THEN PageBy("tag", u)
    ELSE IF Captures("category", u) # {} THEN PageBy("category", u)
    ELSE IF Captures("amp", u) # {} THEN PageBy("amp", u)
    ELSE IF Captures("entry", u) # {} THEN PageBy("entry", u)
    ELSE Nothing

(* Which pages there are.                                                   *)
Rooted(u) == u # <<>> /\ u[1] = "/"
Under(u, words) == Len(u) >= 3 /\ u[1] = "/" /\ u[2] \in words /\ u[3] = "/"
Plain(u) == Rooted(u) /\ u # <<"/">> /\ ~Under(u, TagWord) /\ ~Under(u, CategoryWord)
Amp(u, k) == k \in 1..Len(Tail(u)) /\ AmpAt(Tail(u), k)

(* What the patterns capture.                                               *)
LEMMA CapturesAre ==
    ASSUME NEW u \in Seq(Token)
    PROVE  /\ Captures("tag", u) = Below(u, TagWord)
           /\ Captures("category", u) = Below(u, CategoryWord)
           /\ ~Rooted(u) => Captures("amp", u) = {} /\ Captures("entry", u) = {}
           /\ Rooted(u) =>
                /\ Captures("amp", u) = UpTo(Tail(u), AmpEnd) \ {<<>>}
                /\ Captures("entry", u) = UpTo(Tail(u), OptionalSlash)
  <1>1. /\ Captures("tag", u) = Below(u, TagWord)
        /\ Captures("category", u) = Below(u, CategoryWord)
        /\ Captures("amp", u) = BehindSlash(u, AmpEnd) \ {<<>>}
        /\ Captures("entry", u) = BehindSlash(u, OptionalSlash)
    BY Zenon DEF Captures
  <1> QED
    BY <1>1, Zenon DEF Rooted, BehindSlash

(* The page of each URI.                                                    *)
LEMMA PagesAre ==
    ASSUME NEW u \in Seq(Token)
    PROVE  /\ u = <<"/">> => PageOf(u) = [kind |-> "home", text |-> <<>>]
           /\ ~Rooted(u) => PageOf(u) = Nothing
           /\ Under(u, TagWord) =>
                PageOf(u) = [kind |-> "tag", text |-> Decode(SubSeq(u, 4, Len(u)))]
           /\ Under(u, CategoryWord) =>
                PageOf(u) = [kind |-> "category", text |-> Decode(SubSeq(u, 4, Len(u)))]
           /\ \A k : Plain(u) /\ Amp(u, k) =>
                PageOf(u) = [kind |-> "amp", text |-> Decode(SubSeq(Tail(u), 1, k))]
           /\ Plain(u) /\ (\A k : ~Amp(u, k)) =>
                PageOf(u) = [kind |-> "entry", text |-> Decode(Tail(u))]
  <1> DEFINE rest == SubSeq(u, 4, Len(u))
             behind == Tail(u)
  <1>1. /\ Captures("tag", u) = Below(u, TagWord)
        /\ Captures("category", u) = Below(u, CategoryWord)
        /\ ~Rooted(u) => Captures("amp", u) = {} /\ Captures("entry", u) = {}
        /\ Rooted(u) =>
             /\ Captures("amp", u) = UpTo(behind, AmpEnd) \ {<<>>}
             /\ Captures("entry", u) = UpTo(behind, OptionalSlash)
    BY CapturesAre, Zenon
  <1>2. ASSUME NEW words
        PROVE  /\ Below(u, words) # {} <=> Under(u, words)
               /\ Under(u, words) => Capture(Below(u, words)) = rest
    <2>1. Under(u, words) => rest \in Seq(Token)
      BY DEF Under
    <2>2. Below(u, words) = IF Under(u, words) THEN UpTo(rest, OptionalSlash) ELSE {}
      BY Zenon DEF Below, Under
    <2> HIDE DEF rest
    <2> QED
      BY <2>1, <2>2, TakesAll, Zenon
  <1>3. Rooted(u) => behind \in Seq(Token)
    BY DEF Rooted
  <1>4. ~(Under(u, TagWord) /\ Under(u, CategoryWord))
    BY Zenon DEF Under, TagWord, CategoryWord
  <1>5. Under(u, TagWord) \/ Under(u, CategoryWord) => u # <<"/">>
    BY DEF Under
  <1>6. Rooted(u) => u # NoUri
    BY DEF Rooted, NoUri
  <1>7. /\ Under(u, TagWord) \/ Under(u, CategoryWord) => Rooted(u)
        /\ u = <<"/">> => Rooted(u)
    BY DEF Under, Rooted
  <1> HIDE DEF rest, behind
  <1>8. u = <<"/">> => PageOf(u) = [kind |-> "home", text |-> <<>>]
    BY <1>6, <1>7, Zenon DEF PageOf
  <1>9. ~Rooted(u) => PageOf(u) = Nothing
    BY <1>1, <1>2, <1>7, Zenon DEF PageOf
  <1>10. Under(u, TagWord) => PageOf(u) = [kind |-> "tag", text |-> Decode(rest)]
    BY <1>1, <1>2, <1>5, <1>6, <1>7, Zenon DEF PageOf, PageBy
  <1>11. Under(u, CategoryWord) => PageOf(u) = [kind |-> "category", text |-> Decode(rest)]
    BY <1>1, <1>2, <1>4, <1>5, <1>6, <1>7, Zenon DEF PageOf, PageBy
  <1>12. Plain(u) =>
           PageOf(u) = IF UpTo(behind, AmpEnd) \ {<<>>} # {} THEN PageBy("amp", u)
                       ELSE IF UpTo(behind, OptionalSlash) # {} THEN PageBy("entry", u) ELSE Nothing
    BY <1>1, <1>2, <1>6, Zenon DEF PageOf, Plain
  <1>13. /\ \A k \in 1..Len(behind) : AmpAt(behind, k) /\ Rooted(u) =>
              /\ UpTo(behind, AmpEnd) \ {<<>>} # {}
              /\ Capture(UpTo(behind, AmpEnd) \ {<<>>}) = SubSeq(behind, 1, k)
         /\ Rooted(u) /\ (\A k \in 1..Len(behind) : ~AmpAt(behind, k)) =>
              UpTo(behind, AmpEnd) \ {<<>>} = {}
         /\ Rooted(u) => UpTo(behind, OptionalSlash) # {} /\ Capture(UpTo(behind, OptionalSlash)) = behind
    BY <1>3, AmpCaptures, TakesAll, Zenon
  <1>14. ASSUME NEW k, Plain(u), Amp(u, k)
         PROVE  PageOf(u) = [kind |-> "amp", text |-> Decode(SubSeq(behind, 1, k))]
    <2>1. k \in 1..Len(behind) /\ AmpAt(behind, k) /\ Rooted(u)
      BY <1>14, Zenon DEF Amp, Plain, behind
    <2> QED
      BY <1>1, <1>12, <1>13, <1>14, <2>1, Zenon DEF PageBy
  <1>15. ASSUME Plain(u), \A k : ~Amp(u, k)
         PROVE  PageOf(u) = [kind |-> "entry", text |-> Decode(behind)]
    <2>1. Rooted(u) /\ \A k \in 1..Len(behind) : ~AmpAt(behind, k)
      BY <1>15, Zenon DEF Amp, Plain, behind
    <2> QED
      BY <1>1, <1>12, <1>13, <1>15, <2>1, Zenon DEF PageBy
  <1> QED
    BY <1>8, <1>9, <1>10, <1>11, <1>14, <1>15, Zenon DEF rest, behind

(* The kind of a page tells what its URI is.                                *)
LEMMA KindsAre ==
    ASSUME NEW u \in Seq(Token)
    PROVE  /\ PageOf(u).kind = "tag" <=> Under(u, TagWord)
           /\ PageOf(u).kind = "category" <=> Under(u, CategoryWord)
           /\ PageOf(u).kind = "amp" <=> Plain(u) /\ \E k : Amp(u, k)
           /\ PageOf(u).kind = "entry" <=> Plain(u) /\ \A k : ~Amp(u, k)
           /\ PageOf(u).kind = "none" <=> ~Rooted(u)
           /\ PageOf(u).kind = "home" <=> u = <<"/">>
  <1> DEFINE p == PageOf(u)
  <1>1. /\ u = <<"/">> => p.kind = "home"
        /\ ~Rooted(u) => p.kind = "none"
        /\ Under(u, TagWord) => p.kind = "tag"
        /\ Under(u, CategoryWord) => p.kind = "category"
        /\ \A k : Plain(u) /\ Amp(u, k) => p.kind = "amp"
        /\ Plain(u) /\ (\A k : ~Amp(u, k)) => p.kind = "entry"
    <2> HIDE DEF p
    <2>1. /\ u = <<"/">> => p = [kind |-> "home", text |-> <<>>]
          /\ ~Rooted(u) => p = Nothing
          /\ Under(u, TagWord) =>
               p = [kind |-> "tag", text |-> Decode(SubSeq(u, 4, Len(u)))]
          /\ Under(u, CategoryWord) =>
               p = [kind |-> "category", text |-> Decode(SubSeq(u, 4, Len(u)))]
          /\ \A k : Plain(u) /\ Amp(u, k) =>
               p = [kind |-> "amp", text |-> Decode(SubSeq(Tail(u), 1, k))]
          /\ Plain(u) /\ (\A k : ~Amp(u, k)) =>
               p = [kind |-> "entry", text |-> Decode(Tail(u))]
      BY PagesAre, Zenon DEF p
    <2>2. ASSUME NEW k, NEW x PROVE [kind |-> k, text |-> x].kind = k
      OBVIOUS
    <2> QED
      BY <2>1, <2>2, Zenon DEF Nothing
  <1>2. /\ u = <<"/">> \/ ~Rooted(u) \/ Under(u, TagWord) \/ Under(u, CategoryWord) \/ Plain(u)
        /\ ~(Under(u, TagWord) /\ Under(u, CategoryWord))
        /\ Under(u, TagWord) \/ Under(u, CategoryWord) => u # <<"/">> /\ Rooted(u)
        /\ Plain(u) => Rooted(u) /\ u # <<"/">> /\ ~Under(u, TagWord) /\ ~Under(u, CategoryWord)
        /\ u = <<"/">> => Rooted(u)
    <2>1. Under(u, TagWord) \/ Under(u, CategoryWord) => u # <<"/">> /\ Rooted(u)
      BY DEF Under, Rooted
    <2>2. ~(Under(u, TagWord) /\ Under(u, CategoryWord))
      BY Zenon DEF Under, TagWord, CategoryWord
    <2>3. u = <<"/">> => Rooted(u)
      BY DEF Rooted
    <2> QED
      BY <2>1, <2>2, <2>3, Zenon DEF Plain
  <1> HIDE DEF p
  <1>3. CASE u = <<"/">>
    BY <1>1, <1>2, <1>3, Zenon DEF p
  <1>4. CASE ~Rooted(u)
    BY <1>1, <1>2, <1>4, Zenon DEF p
  <1>5. CASE Under(u, TagWord)
    BY <1>1, <1>2, <1>5, Zenon DEF p
  <1>6. CASE Under(u, CategoryWord)
    BY <1>1, <1>2, <1>6, Zenon DEF p
  <1>7. CASE Plain(u) /\ \E k : Amp(u, k)
    BY <1>1, <1>2, <1>7, Zenon DEF p
  <1>8. CASE Plain(u) /\ \A k : ~Amp(u, k)
    BY <1>1, <1>2, <1>8, Zenon DEF p
  <1> QED
    BY <1>2, <1>3, <1>4, <1>5, <1>6, <1>7, <1>8, Zenon

-----------------------------------------------------------------------------
(* Decoding goes token by token.                                            *)
LEMMA DecodeConcat ==
    ASSUME NEW s \in Seq(Token), NEW t \in Seq(Token)
    PROVE  Decode(s \o t) = Decode(s) \o Decode(t)
  <1> DEFINE f == [x \in Token |-> IF x = "%2F" THEN "/" ELSE x]
  <1>1. ASSUME NEW r \in Seq(Token) PROVE Decode(r) = Mapped(f, r)
    <2>1. \A k \in DOMAIN r : r[k] \in Token
      OBVIOUS
    <2>2. \A k \in DOMAIN r : f[r[k]] = IF r[k] = "%2F" THEN "/" ELSE r[k]
      BY <2>1, Zenon
    <2> QED
      BY <2>2, Zenon DEF Decode, Mapped
  <1> HIDE DEF f
  <1>2. s \o t \in Seq(Token)
    OBVIOUS
  <1>3. Mapped(f, s \o t) = Mapped(f, s) \o Mapped(f, t)
    BY MappedConcat
  <1> QED
    BY <1>1, <1>2, <1>3, Zenon

(* What has no escape stays what it is.                                     *)
LEMMA DecodeSame ==
    ASSUME NEW t \in Seq(Token), \A k \in 1..Len(t) : t[k] # "%2F"
    PROVE  Decode(t) = t
  <1>1. t = [k \in DOMAIN t |-> t[k]] /\ DOMAIN t = 1..Len(t)
    OBVIOUS
  <1> QED
    BY <1>1, Zenon DEF Decode

(* Decoding keeps the type.                                                 *)
LEMMA DecodeType ==
    ASSUME NEW t \in Seq(Token)
    PROVE  Decode(t) \in Seq(Token)
  <1>1. "/" \in Token
    BY DEF Token
  <1>2. \A k \in 1..Len(t) : (IF t[k] = "%2F" THEN "/" ELSE t[k]) \in Token
    <2>1. \A k \in 1..Len(t) : t[k] \in Token
      OBVIOUS
    <2> QED
      BY <1>1, <2>1, Zenon
  <1>3. DOMAIN t = 1..Len(t) /\ Len(t) \in Nat
    OBVIOUS
  <1>4. Decode(t) \in [1..Len(t) -> Token]
    BY <1>2, <1>3, Zenon DEF Decode
  <1> QED
    BY <1>3, <1>4

-----------------------------------------------------------------------------
LastAppended(b, m, u) ==
    /\ u \in Seq(Token) /\ u # <<"/">> /\ u # <<>>
    /\ Rooted(u) <=> Rooted(b)
    /\ Rooted(b) => Tail(u) = Tail(b) \o m
    /\ \A words : Under(b, words) =>
          Under(u, words) /\ SubSeq(u, 4, Len(u)) = SubSeq(b, 4, Len(b)) \o m
    /\ \A words : Under(u, words) /\ ~Under(b, words) => Len(b) <= 2

(* What is behind the third token.                                          *)
LEMMA BehindThree ==
    ASSUME NEW S, NEW s \in Seq(S), Len(s) >= 3
    PROVE  /\ SubSeq(s, 4, Len(s)) \in Seq(S)
           /\ Len(SubSeq(s, 4, Len(s))) = Len(s) - 3
           /\ \A j \in 1..Len(s) - 3 : SubSeq(s, 4, Len(s))[j] = s[j + 3]
  <1> DEFINE n == Len(s)
             c == SubSeq(s, 4, n)
  <1>1. n \in Int /\ n >= 3 /\ \A i \in 4..n : s[i] \in S
    OBVIOUS
  <1> HIDE DEF n, c
  <1>2. /\ c \in Seq(S)
        /\ Len(c) = IF 4 <= n THEN n - 4 + 1 ELSE 0
        /\ \A i \in 1..n - 4 + 1 : c[i] = s[4 + i - 1]
    <2>1. 4 \in Int
      OBVIOUS
    <2> QED
      BY <1>1, <2>1, SubSeqProperties DEF c
  <1>3. Len(c) = n - 3
    BY <1>1, <1>2
  <1>4. ASSUME NEW j \in 1..n - 3 PROVE c[j] = s[j + 3]
    <2>1. j \in 1..n - 4 + 1 /\ 4 + j - 1 = j + 3
      BY <1>1
    <2> QED
      BY <1>2, <2>1
  <1> QED
    BY <1>2, <1>3, <1>4 DEF n, c

(* A longer URI, as far as the patterns look at its beginning.              *)
LEMMA LongerUri ==
    ASSUME NEW b \in Seq(Token), b # <<>>, NEW m \in Seq(Token), m # <<>>,
           NEW u, u = b \o m
    PROVE  LastAppended(b, m, u)
  <1>1. /\ Len(b) \in Nat /\ Len(m) \in Nat /\ Len(b) >= 1 /\ Len(m) >= 1
        /\ u \in Seq(Token) /\ Len(u) = Len(b) + Len(m)
        /\ \A j \in 1..Len(b) : u[j] = b[j]
        /\ \A j \in 1..Len(m) : u[Len(b) + j] = m[j]
    OBVIOUS
  <1>2. u # <<"/">> /\ u # <<>> /\ u[1] = b[1]
    BY <1>1
  <1>3. Rooted(u) <=> Rooted(b)
    BY <1>2 DEF Rooted
  <1>4. Tail(u) = Tail(b) \o m
    <2> DEFINE l == Tail(u)
               r == Tail(b) \o m
    <2>1. /\ l \in Seq(Token) /\ Len(l) = Len(u) - 1
          /\ \A j \in 1..Len(u) - 1 : l[j] = u[j + 1]
      BY <1>1, <1>2
    <2>2. /\ Tail(b) \in Seq(Token) /\ Len(Tail(b)) = Len(b) - 1
          /\ \A j \in 1..Len(b) - 1 : Tail(b)[j] = b[j + 1]
      BY <1>1
    <2>3. /\ r \in Seq(Token) /\ Len(r) = Len(u) - 1
          /\ \A j \in 1..Len(b) - 1 : r[j] = b[j + 1]
          /\ \A j \in 1..Len(m) : r[(Len(b) - 1) + j] = m[j]
      BY <1>1, <2>2
    <2> HIDE DEF l, r
    <2>4. ASSUME NEW j \in 1..Len(l) PROVE l[j] = r[j]
      <3>1. CASE j <= Len(b) - 1
        BY <1>1, <2>1, <2>3, <3>1
      <3>2. CASE j > Len(b) - 1
        <4>1. j - (Len(b) - 1) \in 1..Len(m) /\ (Len(b) - 1) + (j - (Len(b) - 1)) = j
              /\ Len(b) + (j - (Len(b) - 1)) = j + 1
          BY <1>1, <2>1, <3>2
        <4>2. l[j] = u[j + 1]
          BY <2>1
        <4>3. u[j + 1] = m[j - (Len(b) - 1)] /\ r[j] = m[j - (Len(b) - 1)]
          BY <1>1, <2>3, <4>1, Zenon
        <4> QED
          BY <4>2, <4>3, Zenon
      <3> QED
        BY <1>1, <2>1, <3>1, <3>2
    <2>5. l = r
      BY <2>1, <2>3, <2>4, SeqEqual
    <2> QED
      BY <2>5 DEF l, r
  <1>5. ASSUME NEW words, Under(b, words)
        PROVE  Under(u, words) /\ SubSeq(u, 4, Len(u)) = SubSeq(b, 4, Len(b)) \o m
    <2>1. Len(b) >= 3 /\ Under(u, words)
      BY <1>1, <1>5 DEF Under
    <2> DEFINE l == SubSeq(u, 4, Len(u))
               c == SubSeq(b, 4, Len(b))
               r == c \o m
    <2>2. /\ l \in Seq(Token) /\ Len(l) = Len(u) - 3
          /\ \A j \in 1..Len(u) - 3 : l[j] = u[j + 3]
      BY <1>1, <2>1
    <2>3. /\ c \in Seq(Token) /\ Len(c) = Len(b) - 3
          /\ \A j \in 1..Len(b) - 3 : c[j] = b[j + 3]
      BY <1>1, <2>1, BehindThree
    <2> HIDE DEF c
    <2>7. c \in Seq(Token) /\ m \in Seq(Token)
      BY <2>3
    <2>8. r \in Seq(Token) /\ Len(r) = Len(c) + Len(m)
      BY <2>7
    <2>9. /\ \A j \in 1..Len(c) : r[j] = c[j]
          /\ \A j \in 1..Len(m) : r[Len(c) + j] = m[j]
      BY <2>7
    <2>4. /\ r \in Seq(Token) /\ Len(r) = Len(u) - 3
          /\ \A j \in 1..Len(b) - 3 : r[j] = b[j + 3]
          /\ \A j \in 1..Len(m) : r[(Len(b) - 3) + j] = m[j]
      <3> HIDE DEF r
      <3> QED
        BY <1>1, <2>1, <2>3, <2>8, <2>9
    <2> HIDE DEF l, r
    <2>5. ASSUME NEW j \in 1..Len(l) PROVE l[j] = r[j]
      <3>1. CASE j <= Len(b) - 3
        BY <1>1, <2>1, <2>2, <2>4, <3>1
      <3>2. CASE j > Len(b) - 3
        <4>1. j - (Len(b) - 3) \in 1..Len(m) /\ (Len(b) - 3) + (j - (Len(b) - 3)) = j
              /\ Len(b) + (j - (Len(b) - 3)) = j + 3
          BY <1>1, <2>1, <2>2, <3>2
        <4>2. l[j] = u[j + 3]
          BY <2>2
        <4>3. u[j + 3] = m[j - (Len(b) - 3)] /\ r[j] = m[j - (Len(b) - 3)]
          BY <1>1, <2>4, <4>1, Zenon
        <4> QED
          BY <4>2, <4>3, Zenon
      <3> QED
        BY <1>1, <2>1, <2>2, <3>1, <3>2
    <2>6. l = r
      BY <2>2, <2>4, <2>5, SeqEqual
    <2> QED
      BY <2>1, <2>6 DEF l, r, c
  <1>6. ASSUME NEW words, Under(u, words), ~Under(b, words) PROVE Len(b) <= 2
    BY <1>1, <1>6 DEF Under
  <1> QED
    BY <1>1, <1>2, <1>3, <1>4, <1>5, <1>6, Zenon DEF LastAppended

(* What a visitor may add to a URI.                                         *)
LEMMA LongerAre ==
    ASSUME NEW m \in Longer
    PROVE  m \in Seq(Token) /\ m # <<>> /\ (Len(m) >= 2 => m[1] = "/")
  <1>1. {"/", "am", "p"} \subseteq Token
    BY DEF Token
  <1>2. CASE m \in {<<t>> : t \in Token}
    <2>1. PICK t \in Token : m = <<t>>
      BY <1>2, Zenon
    <2> QED
      BY <2>1
  <1>3. CASE m = <<"/", "am">>
    BY <1>1, <1>3
  <1>4. CASE m = <<"/", "am", "p">>
    BY <1>1, <1>4
  <1> QED
    BY <1>2, <1>3, <1>4, Zenon DEF Longer

(* A fact of arithmetic.                                                    *)
LEMMA OneOrTwo ==
    ASSUME NEW x \in Nat, x # 0, x <= 2
    PROVE  x = 1 \/ x = 2
  OBVIOUS

SubtreeOf(b, m, u, kind) ==
    /\ PageOf(b).kind = kind =>
         PageOf(u) = [kind |-> kind, text |-> PageOf(b).text \o Decode(m)]
    /\ PageOf(b).kind # kind /\ PageOf(u).kind = kind => m[1] = "/"
    /\ PageOf(b).kind # "none" => PageOf(u).kind # "none"

(* Behind a tag or a category, and on the way there.                        *)
LEMMA SubtreePages ==
    ASSUME NEW b \in Seq(Token), b # <<>>, NEW m \in Longer, NEW u, u = b \o m,
           NEW kind, NEW words,
           \/ kind = "tag" /\ words = TagWord
           \/ kind = "category" /\ words = CategoryWord
    PROVE  SubtreeOf(b, m, u, kind)
  <1>1. m \in Seq(Token) /\ m # <<>> /\ (Len(m) >= 2 => m[1] = "/")
    BY LongerAre, Zenon
  <1>2. LastAppended(b, m, u)
    BY <1>1, LongerUri, Zenon
  <1>3. /\ u \in Seq(Token) /\ (Rooted(u) <=> Rooted(b))
        /\ Under(b, words) =>
             Under(u, words) /\ SubSeq(u, 4, Len(u)) = SubSeq(b, 4, Len(b)) \o m
        /\ Under(u, words) /\ ~Under(b, words) => Len(b) <= 2
    BY <1>2, Zenon DEF LastAppended
  <1>4. ASSUME NEW v \in Seq(Token)
        PROVE  /\ PageOf(v).kind = kind <=> Under(v, words)
               /\ Under(v, words) =>
                    PageOf(v) = [kind |-> kind, text |-> Decode(SubSeq(v, 4, Len(v)))]
               /\ PageOf(v).kind = "none" <=> ~Rooted(v)
    BY KindsAre, PagesAre, Zenon
  <1>5. ASSUME Under(b, words)
        PROVE  PageOf(u) = [kind |-> kind, text |-> PageOf(b).text \o Decode(m)]
    <2> DEFINE c == SubSeq(b, 4, Len(b))
    <2>1. c \in Seq(Token)
      BY <1>5, BehindThree DEF Under
    <2> HIDE DEF c
    <2>2. Decode(c \o m) = Decode(c) \o Decode(m)
      BY <1>1, <2>1, DecodeConcat, Zenon
    <2>3. PageOf(u) = [kind |-> kind, text |-> Decode(c \o m)]
      BY <1>3, <1>4, <1>5, Zenon DEF c
    <2>4. PageOf(b) = [kind |-> kind, text |-> Decode(c)]
      BY <1>4, <1>5, Zenon DEF c
    <2>5. ASSUME NEW k, NEW x PROVE [kind |-> k, text |-> x].text = x
      OBVIOUS
    <2> QED
      BY <2>2, <2>3, <2>4, <2>5, Zenon
  <1>6. ASSUME Under(u, words), ~Under(b, words) PROVE m[1] = "/"
    <2>1. (Len(b) = 1 \/ Len(b) = 2) /\ Len(u) = Len(b) + Len(m) /\ Len(u) >= 3 /\ Len(m) \in Nat
      <3>1. Len(b) <= 2 /\ Len(u) >= 3
        BY <1>3, <1>6 DEF Under
      <3>2. Len(b) \in Nat /\ Len(b) # 0 /\ Len(m) \in Nat
        BY <1>1
      <3>3. Len(u) = Len(b) + Len(m)
        BY <1>1
      <3> QED
        BY <3>1, <3>2, <3>3, OneOrTwo, Zenon
    <2>2. CASE Len(b) = 1
      BY <1>1, <2>1, <2>2
    <2>3. CASE Len(b) = 2
      <3>1. u[3] = m[1]
        BY <1>1, <2>1, <2>3
      <3> QED
        BY <1>6, <3>1 DEF Under
    <2> QED
      BY <2>1, <2>2, <2>3
  <1> QED
    BY <1>3, <1>4, <1>5, <1>6, Zenon DEF SubtreeOf

(* A slash behind such an end leaves it where it is.                        *)
LEMMA EndsAtSlash ==
    ASSUME NEW S, NEW t \in Seq(S), NEW a \in S, NEW b, NEW c, a # b,
           NEW n \in Nat, EndsAt(t \o <<a>>, n, a, b, c)
    PROVE  n <= Len(t) /\ EndsAt(t, n, a, b, c)
  <1> DEFINE s == t \o <<a>>
  <1>1. /\ Len(t) \in Nat /\ Len(s) = Len(t) + 1 /\ s[Len(t) + 1] = a
        /\ \A i \in 1..Len(t) : s[i] = t[i]
    OBVIOUS
  <1>2. /\ s[n + 1] = a /\ s[n + 2] = b
        /\ \/ Len(s) = n + 2
           \/ Len(s) = n + 3 /\ s[n + 3] \in {c, a}
           \/ Len(s) = n + 4 /\ s[n + 3] = c /\ s[n + 4] = a
    BY Zenon DEF EndsAt
  <1> HIDE DEF s
  <1>3. Len(s) # n + 2
    BY <1>1, <1>2
  <1>4. CASE Len(s) = n + 3
    <2>1. Len(t) = n + 2 /\ n + 1 \in 1..Len(t) /\ n + 2 \in 1..Len(t)
      BY <1>1, <1>4
    <2> QED
      BY <1>1, <1>2, <2>1 DEF EndsAt
  <1>5. CASE Len(s) = n + 4 /\ s[n + 3] = c
    <2>1. /\ Len(t) = n + 3 /\ n + 1 \in 1..Len(t) /\ n + 2 \in 1..Len(t) /\ n + 3 \in 1..Len(t)
          /\ n <= Len(t)
      BY <1>1, <1>5
    <2>2. t[n + 1] = a /\ t[n + 2] = b /\ t[n + 3] \in {c, a}
      BY <1>1, <1>2, <1>5, <2>1
    <2> QED
      BY <2>1, <2>2, Zenon DEF EndsAt
  <1> QED
    BY <1>2, <1>3, <1>4, <1>5, Zenon

(* The end of an AMP page, put behind anything.                             *)
LEMMA EndsAtBehind ==
    ASSUME NEW S, NEW t \in Seq(S), NEW a \in S, NEW b \in S, NEW c \in S,
           NEW m \in {<<a, b>>, <<a, b, c>>}
    PROVE  EndsAt(t \o m, Len(t), a, b, c)
  <1>1. CASE m = <<a, b>>
    <2>1. /\ (t \o m)[Len(t) + 1] = a /\ (t \o m)[Len(t) + 2] = b
          /\ Len(t \o m) = Len(t) + 2
      BY <1>1
    <2> QED
      BY <2>1, Zenon DEF EndsAt
  <1>2. CASE m = <<a, b, c>>
    <2>1. /\ (t \o m)[Len(t) + 1] = a /\ (t \o m)[Len(t) + 2] = b /\ (t \o m)[Len(t) + 3] = c
          /\ Len(t \o m) = Len(t) + 3
      BY <1>2
    <2> QED
      BY <2>1, Zenon DEF EndsAt
  <1> QED
    BY <1>1, <1>2

Concatenates(S, b, m) ==
    /\ Len(b) \in Nat /\ Len(m) \in Nat
    /\ b \o m \in Seq(S) /\ Len(b \o m) = Len(b) + Len(m)
    /\ \A j \in 1..Len(b) : (b \o m)[j] = b[j]
    /\ \A j \in 1..Len(m) : (b \o m)[Len(b) + j] = m[j]

(* The elements of a concatenation.                                         *)
LEMMA ConcatElements ==
    ASSUME NEW S, NEW b \in Seq(S), NEW m \in Seq(S)
    PROVE  Concatenates(S, b, m)
  BY DEF Concatenates

(* What is left of two.                                                     *)
LEMMA TailOfTwo ==
    ASSUME NEW S, NEW b \in Seq(S), Len(b) = 2
    PROVE  Tail(b) = <<b[2]>>
  <1> DEFINE t == Tail(b)
  <1>1. t \in Seq(S) /\ Len(t) = Len(b) - 1 /\ \A j \in 1..Len(b) - 1 : t[j] = b[j + 1]
    <2>1. b # <<>>
      OBVIOUS
    <2> QED
      BY <2>1
  <1> HIDE DEF t
  <1>2. Len(t) = 1 /\ t[1] = b[2]
    BY <1>1
  <1>3. ASSUME NEW x \in Seq(S), Len(x) = 1 PROVE x = <<x[1]>>
    BY <1>3
  <1>4. t = <<b[2]>>
    BY <1>1, <1>2, <1>3, Zenon
  <1> QED
    BY <1>4 DEF t

(* A page under a word, two tokens long before, is named by what is behind. *)
LEMMA JustUnder ==
    ASSUME NEW S, NEW b \in Seq(S), Len(b) = 2, NEW m \in Seq(S), Len(m) >= 1,
           NEW u, u = b \o m
    PROVE  SubSeq(u, 4, Len(u)) = Tail(m) /\ Tail(b) = <<b[2]>> /\ u[2] = b[2]
  <1> DEFINE l == SubSeq(u, 4, Len(u))
             r == Tail(m)
  <1>1. /\ u \in Seq(S) /\ Len(u) = 2 + Len(m) /\ Len(m) \in Nat
        /\ \A j \in 1..Len(m) : u[2 + j] = m[j]
        /\ u[2] = b[2]
    <2>1. /\ Len(b) \in Nat /\ Len(m) \in Nat
          /\ b \o m \in Seq(S) /\ Len(b \o m) = Len(b) + Len(m)
          /\ \A j \in 1..Len(b) : (b \o m)[j] = b[j]
          /\ \A j \in 1..Len(m) : (b \o m)[Len(b) + j] = m[j]
      <3>1. Concatenates(S, b, m)
        BY ConcatElements, Zenon
      <3> QED
        BY <3>1, Zenon DEF Concatenates
    <2>2. 2 \in 1..2
      OBVIOUS
    <2> QED
      BY <2>1, <2>2, Zenon
  <1>2. /\ l \in Seq(S) /\ Len(l) = Len(u) - 3
        /\ \A j \in 1..Len(u) - 3 : l[j] = u[j + 3]
    <2>1. Len(u) >= 3
      BY <1>1
    <2> QED
      BY <1>1, <2>1, BehindThree
  <1>3. /\ r \in Seq(S) /\ Len(r) = Len(m) - 1
        /\ \A j \in 1..Len(m) - 1 : r[j] = m[j + 1]
    OBVIOUS
  <1>4. Tail(b) = <<b[2]>>
    BY TailOfTwo, Zenon
  <1> HIDE DEF l, r
  <1>5. ASSUME NEW j \in 1..Len(l) PROVE l[j] = r[j]
    <2>1. j + 1 \in 1..Len(m) /\ 2 + (j + 1) = j + 3 /\ j \in 1..Len(u) - 3 /\ j \in 1..Len(m) - 1
      BY <1>1, <1>2
    <2> QED
      BY <1>1, <1>2, <1>3, <2>1
  <1>6. Len(l) = Len(r)
    BY <1>1, <1>2, <1>3
  <1>7. l = r
    BY <1>2, <1>3, <1>5, <1>6, SeqEqual
  <1> QED
    BY <1>1, <1>4, <1>7 DEF l, r

-----------------------------------------------------------------------------
Fields(p, x, y) ==
    /\ p.text = y /\ p.kind = x
    /\ \A z : [p EXCEPT !.kind = z] = [kind |-> z, text |-> y]

(* The fields of a page.                                                    *)
LEMMA PageFields ==
    ASSUME NEW p, NEW x, NEW y, p = [kind |-> x, text |-> y]
    PROVE  Fields(p, x, y)
  BY DEF Fields

TailWithout(S, s, e) ==
    /\ s \in Seq(S) /\ s # <<>> /\ Len(s) >= 1
    /\ Tail(s) \in Seq(S) /\ \A j \in 1..Len(Tail(s)) : Tail(s)[j] # e

(* Two or three elements whose tail has no e.                               *)
LEMMA TwoOrThree ==
    ASSUME NEW S, NEW x \in S, NEW y \in S, NEW z \in S, NEW e, y # e, z # e
    PROVE  TailWithout(S, <<x, y>>, e) /\ TailWithout(S, <<x, y, z>>, e)
  BY DEF TailWithout

AmpOf(b, m, u) ==
    \/ PageOf(u) = [PageOf(b) EXCEPT !.kind = "amp"]
    \/ /\ PageOf(b).text \in {<<w>> : w \in TagWord \cup CategoryWord}
       /\ PageOf(u) = [kind |-> IF PageOf(b).text[1] \in TagWord THEN "tag" ELSE "category",
                       text |-> Tail(m)]

(* The AMP page of an entry.                                                *)
LEMMA AmpPage ==
    ASSUME NEW b \in Seq(Token), b # <<>>, PageOf(b).kind = "entry",
           NEW m \in {<<"/", "am">>, <<"/", "am", "p">>}, NEW u, u = b \o m
    PROVE  AmpOf(b, m, u)
  <1> DEFINE t == Tail(b)
             k == Len(t)
  <1>1. /\ m \in Seq(Token) /\ m # <<>> /\ Len(m) >= 1
        /\ Tail(m) \in Seq(Token) /\ Decode(Tail(m)) = Tail(m)
    <2>1. "/" \in Token /\ "am" \in Token /\ "p" \in Token
      BY DEF Token
    <2>2. "/" # "%2F" /\ "am" # "%2F" /\ "p" # "%2F"
      OBVIOUS
    <2>3. TailWithout(Token, m, "%2F")
      <3>1. m = <<"/", "am">> \/ m = <<"/", "am", "p">>
        OBVIOUS
      <3> QED
        BY <2>1, <2>2, <3>1, TwoOrThree, Zenon
    <2>4. /\ m \in Seq(Token) /\ m # <<>> /\ Len(m) >= 1
          /\ Tail(m) \in Seq(Token) /\ \A j \in 1..Len(Tail(m)) : Tail(m)[j] # "%2F"
      BY <2>3, Zenon DEF TailWithout
    <2>5. Decode(Tail(m)) = Tail(m)
      BY <2>4, DecodeSame, Zenon
    <2> QED
      BY <2>4, <2>5, Zenon
  <1>2. Plain(b) /\ (\A j : ~Amp(b, j)) /\ PageOf(b) = [kind |-> "entry", text |-> Decode(t)]
    BY KindsAre, PagesAre, Zenon
  <1>3. Rooted(b) /\ b # <<"/">> /\ ~Under(b, TagWord) /\ ~Under(b, CategoryWord)
    BY <1>2, Zenon DEF Plain
  <1>4. t \in Seq(Token) /\ k \in Nat /\ k >= 1 /\ Len(b) = k + 1
    <2>1. Len(b) \in Nat /\ t \in Seq(Token) /\ Len(t) = Len(b) - 1
      OBVIOUS
    <2>2. b[1] = "/"
      BY <1>3 DEF Rooted
    <2>3. Len(b) # 0 /\ Len(b) # 1
      BY <1>3, <2>2
    <2> QED
      BY <2>1, <2>3
  <1>5. LastAppended(b, m, u)
    BY <1>1, LongerUri, Zenon
  <1>6. /\ u \in Seq(Token) /\ u # <<"/">> /\ Rooted(u) /\ Tail(u) = t \o m
        /\ \A words : Under(u, words) /\ ~Under(b, words) => Len(b) <= 2
    BY <1>3, <1>5, Zenon DEF LastAppended
  <1>7. ASSUME NEW words, Under(u, words), words = TagWord \/ words = CategoryWord
        PROVE  /\ PageOf(b).text = <<b[2]>> /\ b[2] \in words
               /\ SubSeq(u, 4, Len(u)) = Tail(m)
    <2>1. Len(b) = 2
      <3>1. Len(b) <= 2
        BY <1>3, <1>6, <1>7, Zenon
      <3>2. k <= 1
        BY <1>4, <3>1
      <3> QED
        BY <1>4, <3>2
    <2>2. SubSeq(u, 4, Len(u)) = Tail(m) /\ t = <<b[2]>> /\ u[2] = b[2]
      BY <1>1, <2>1, JustUnder, Zenon
    <2>3. b[2] \in words
      BY <1>7, <2>2, Zenon DEF Under
    <2>4. b[2] # "%2F"
      BY <1>7, <2>3, Zenon DEF TagWord, CategoryWord
    <2>5. Decode(t) = t
      <3>1. \A j \in 1..Len(t) : t[j] # "%2F"
        <4>1. ASSUME NEW x, x # "%2F" PROVE \A j \in 1..Len(<<x>>) : <<x>>[j] # "%2F"
          BY <4>1
        <4> QED
          BY <2>2, <2>4, <4>1, Zenon
      <3> QED
        BY <1>4, <3>1, DecodeSame, Zenon
    <2>6. PageOf(b).text = <<b[2]>>
      <3>1. Fields(PageOf(b), "entry", Decode(t))
        BY <1>2, PageFields, Zenon
      <3> QED
        BY <2>2, <2>5, <3>1, Zenon DEF Fields
    <2> QED
      BY <2>2, <2>3, <2>6, Zenon
  <1>8. CASE Under(u, TagWord)
    <2>1. PageOf(u) = [kind |-> "tag", text |-> Tail(m)]
      BY <1>1, <1>6, <1>7, <1>8, PagesAre, Zenon
    <2>2. PageOf(b).text = <<b[2]>> /\ b[2] \in TagWord
      BY <1>7, <1>8, Zenon
    <2>3. <<b[2]>>[1] = b[2]
      OBVIOUS
    <2> QED
      BY <2>1, <2>2, <2>3, Zenon DEF AmpOf
  <1>9. CASE Under(u, CategoryWord)
    <2>1. PageOf(u) = [kind |-> "category", text |-> Tail(m)]
      BY <1>1, <1>6, <1>7, <1>9, PagesAre, Zenon
    <2>2. PageOf(b).text = <<b[2]>> /\ b[2] \in CategoryWord
      BY <1>7, <1>9, Zenon
    <2>3. <<b[2]>>[1] = b[2]
      OBVIOUS
    <2>4. b[2] \notin TagWord
      BY <2>2, Zenon DEF TagWord, CategoryWord
    <2> QED
      BY <2>1, <2>2, <2>3, <2>4, Zenon DEF AmpOf
  <1>10. CASE ~Under(u, TagWord) /\ ~Under(u, CategoryWord)
    <2>1. Plain(u)
      BY <1>6, <1>10, Zenon DEF Plain
    <2>2. AmpAt(t \o m, k)
      <3>1. "/" \in Token /\ "am" \in Token /\ "p" \in Token
        BY DEF Token
      <3> QED
        BY <1>4, <3>1, EndsAtBehind, Zenon DEF AmpAt
    <2>3. k \in 1..Len(t \o m) /\ SubSeq(t \o m, 1, k) = t
      <3>1. Len(t \o m) = k + Len(m) /\ Len(m) \in Nat
        BY <1>1, <1>4
      <3>2. k \in 1..Len(t \o m)
        BY <1>4, <3>1
      <3>3. SubSeq(t \o m, 1, k) = SubSeq(t, 1, k)
        <4>1. 1 \in 1..k /\ k \in 1..k
          BY <1>4
        <4> QED
          BY <1>1, <1>4, <4>1, SubSeqOfConcat1, Zenon
      <3>4. SubSeq(t, 1, k) = t
        BY <1>4, SubSeqFull
      <3> QED
        BY <3>2, <3>3, <3>4
    <2>4. Amp(u, k)
      BY <1>6, <2>2, <2>3, Zenon DEF Amp
    <2>5. PageOf(u) = [kind |-> "amp", text |-> Decode(t)]
      BY <1>6, <2>1, <2>3, <2>4, PagesAre, Zenon
    <2>6. [PageOf(b) EXCEPT !.kind = "amp"] = [kind |-> "amp", text |-> Decode(t)]
      <3>1. Fields(PageOf(b), "entry", Decode(t))
        BY <1>2, PageFields, Zenon
      <3> QED
        BY <3>1, Zenon DEF Fields
    <2> QED
      BY <2>5, <2>6, Zenon DEF AmpOf
  <1> QED
    BY <1>8, <1>9, <1>10

SlashOf(b, u) ==
    PageOf(b).kind = PageOf(u).kind =>
        \/ PageOf(u).kind = "none"
        \/ PageOf(u).kind = "amp" /\ PageOf(u).text = PageOf(b).text
        \/ PageOf(u).kind # "amp" /\ PageOf(u).text = Append(PageOf(b).text, "/")

(* A slash behind a URI.                                                    *)
LEMMA SlashPage ==
    ASSUME NEW b \in Seq(Token), b # <<>>, NEW u, u = b \o <<"/">>
    PROVE  SlashOf(b, u)
  <1> DEFINE m == <<"/">>
             t == Tail(b)
             kind == PageOf(u).kind
  <1>1. m \in Longer /\ m \in Seq(Token) /\ m # <<>> /\ Decode(m) = m
    <2>1. "/" \in Token
      BY DEF Token
    <2>2. m \in Longer
      BY <2>1, Zenon DEF Longer
    <2>3. m \in Seq(Token) /\ m # <<>> /\ \A j \in 1..Len(m) : m[j] # "%2F"
      BY <2>1
    <2> HIDE DEF m
    <2>4. Decode(m) = m
      BY <2>3, DecodeSame, Zenon
    <2> QED
      BY <2>2, <2>3, <2>4
  <1>2. LastAppended(b, m, u)
    BY <1>1, LongerUri, Zenon
  <1>3. /\ u \in Seq(Token) /\ u # <<"/">> /\ (Rooted(u) <=> Rooted(b))
        /\ Rooted(b) => Tail(u) = t \o m
    BY <1>2, Zenon DEF LastAppended
  <1>4. t \in Seq(Token)
    OBVIOUS
  <1>5. ASSUME NEW x \in Seq(Token) PROVE x \o m = Append(x, "/")
    OBVIOUS
  <1>7. kind \in {"tag", "category", "amp", "entry", "none", "home"}
    <2>1. /\ Under(u, TagWord) \/ Under(u, CategoryWord) \/ Plain(u) \/ ~Rooted(u) \/ u = <<"/">>
      BY Zenon DEF Plain
    <2> QED
      BY <1>3, <2>1, KindsAre, Zenon
  <1>8. CASE PageOf(b).kind = kind /\ kind \in {"tag", "category"}
    <2>1. PICK words : \/ kind = "tag" /\ words = TagWord
                       \/ kind = "category" /\ words = CategoryWord
      BY <1>8, Zenon
    <2>2. PageOf(b).text \in Seq(Token)
      <3>1. Under(b, words) /\ PageOf(b) = [kind |-> kind, text |-> Decode(SubSeq(b, 4, Len(b)))]
        BY <1>8, <2>1, KindsAre, PagesAre, Zenon
      <3>2. SubSeq(b, 4, Len(b)) \in Seq(Token)
        BY <3>1, BehindThree DEF Under
      <3>3. Fields(PageOf(b), kind, Decode(SubSeq(b, 4, Len(b))))
        BY <3>1, PageFields, Zenon
      <3> QED
        BY <3>2, <3>3, DecodeType, Zenon DEF Fields
    <2>3. PageOf(u) = [kind |-> kind, text |-> PageOf(b).text \o Decode(m)]
      <3>1. SubtreeOf(b, m, u, kind)
        BY <1>1, <2>1, SubtreePages, Zenon
      <3> QED
        BY <1>8, <3>1, Zenon DEF SubtreeOf
    <2>4. PageOf(u).text = Append(PageOf(b).text, "/") /\ kind # "amp"
      <3>1. Fields(PageOf(u), kind, PageOf(b).text \o m)
        BY <1>1, <2>3, PageFields, Zenon
      <3> QED
        BY <1>5, <1>8, <2>2, <3>1, Zenon DEF Fields
    <2> QED
      BY <2>4, Zenon DEF SlashOf
  <1>9. CASE PageOf(b).kind = kind /\ kind = "entry"
    <2>1. Rooted(b) /\ PageOf(b) = [kind |-> "entry", text |-> Decode(t)]
      <3>1. Plain(b) /\ \A j : ~Amp(b, j)
        BY <1>9, KindsAre, Zenon
      <3> QED
        BY <3>1, PagesAre, Zenon DEF Plain
    <2>2. PageOf(u) = [kind |-> "entry", text |-> Decode(t \o m)]
      <3>1. Plain(u) /\ \A j : ~Amp(u, j)
        BY <1>3, <1>9, KindsAre, Zenon
      <3> QED
        BY <1>3, <2>1, <3>1, PagesAre, Zenon
    <2>3. Decode(t) \in Seq(Token) /\ Decode(t \o m) = Decode(t) \o m
      BY <1>1, <1>4, DecodeType, DecodeConcat, Zenon
    <2>4. PageOf(u).text = Append(PageOf(b).text, "/") /\ kind # "amp"
      <3>1. Fields(PageOf(u), "entry", Decode(t) \o m) /\ Fields(PageOf(b), "entry", Decode(t))
        BY <2>1, <2>2, <2>3, PageFields, Zenon
      <3> QED
        BY <1>5, <1>9, <2>3, <3>1, Zenon DEF Fields
    <2> QED
      BY <2>4, Zenon DEF SlashOf
  <1>10. CASE PageOf(b).kind = kind /\ kind = "amp"
    <2>1. Plain(b) /\ Plain(u)
      BY <1>3, <1>10, KindsAre, Zenon
    <2>2. PICK k : Amp(b, k)
      BY <1>10, KindsAre, Zenon
    <2>3. PICK n : Amp(u, n)
      BY <1>3, <1>10, KindsAre, Zenon
    <2>4. k \in 1..Len(t) /\ EndsAt(t, k, "/", "am", "p")
      BY <2>2, Zenon DEF Amp, AmpAt
    <2>5. n \in 1..Len(t \o m) /\ EndsAt(t \o m, n, "/", "am", "p")
      <3>1. Tail(u) = t \o m
        BY <1>3, <2>1, Zenon DEF Plain
      <3> QED
        BY <2>3, <3>1, Zenon DEF Amp, AmpAt
    <2>6. n = k
      <3>1. "/" # "am" /\ "/" # "p" /\ "am" # "p" /\ "/" \in Token
        BY DEF Token
      <3>2. n \in Nat /\ n >= 1 /\ k \in 0..Len(t)
        BY <2>4, <2>5
      <3>3. n <= Len(t) /\ EndsAt(t, n, "/", "am", "p")
        BY <1>4, <2>5, <3>1, <3>2, EndsAtSlash, Zenon
      <3>4. n \in 0..Len(t)
        BY <3>2, <3>3
      <3> QED
        BY <1>4, <2>4, <3>1, <3>2, <3>3, <3>4, OneEnd, Zenon
    <2>7. SubSeq(t \o m, 1, k) = SubSeq(t, 1, k)
      <3>1. 1 \in 1..Len(t) /\ k \in 1..Len(t)
        BY <2>4
      <3> QED
        BY <1>1, <1>4, <3>1, SubSeqOfConcat1, Zenon
    <2>8. /\ PageOf(b) = [kind |-> "amp", text |-> Decode(SubSeq(t, 1, k))]
          /\ PageOf(u) = [kind |-> "amp", text |-> Decode(SubSeq(t \o m, 1, n))]
      <3>1. Tail(u) = t \o m
        BY <1>3, <2>1, Zenon DEF Plain
      <3> QED
        BY <1>3, <2>1, <2>2, <2>3, <3>1, PagesAre, Zenon
    <2>9. PageOf(u).text = PageOf(b).text
      <3>1. /\ Fields(PageOf(b), "amp", Decode(SubSeq(t, 1, k)))
            /\ Fields(PageOf(u), "amp", Decode(SubSeq(t \o m, 1, n)))
        BY <2>8, PageFields, Zenon
      <3> QED
        BY <2>6, <2>7, <3>1, Zenon DEF Fields
    <2> QED
      BY <1>10, <2>9, Zenon DEF SlashOf
  <1>11. kind # "home"
    BY <1>3, KindsAre, Zenon
  <1> QED
    BY <1>7, <1>8, <1>9, <1>10, <1>11, Zenon DEF SlashOf

-----------------------------------------------------------------------------
(* A pattern is tried when those before it did not match, and the page that *)
(* comes of it is the page of the URI; so was the visitor's page before.    *)
RouteInv ==
    /\ uri \in Seq(Token) \/ uri = NoUri
    /\ trying \in {"home", "tag", "category", "amp", "entry", "done"}
    /\ trying # "done" => page = Nothing
    /\ trying = "done" => page = PageOf(uri)
    /\ trying \notin {"home", "done"} => uri # NoUri /\ uri # <<"/">>
    /\ trying \in {"category", "amp", "entry"} => Captures("tag", uri) = {}
    /\ trying \in {"amp", "entry"} => Captures("category", uri) = {}
    /\ trying = "entry" => Captures("amp", uri) = {}
    /\ before.uri # NoUri =>
          before.uri \in Seq(Token) /\ before.page = PageOf(before.uri)

(* It holds before the first request is looked at.                          *)
LEMMA RouteInvInit == RouteInit => RouteInv
  <1> SUFFICES ASSUME RouteInit PROVE RouteInv
    OBVIOUS
  <1>1. uri \in Seq(Token) \/ uri = NoUri
    <2>1. <<>> \in Seq(Token)
      OBVIOUS
    <2> QED
      BY <2>1, Zenon DEF RouteInit
  <1>2. before.uri = NoUri
    BY DEF RouteInit
  <1>3. trying = "home" /\ page = Nothing
    BY Zenon DEF RouteInit
  <1> QED
    BY <1>1, <1>2, <1>3, Zenon DEF RouteInv

(* The order of the patterns.                                               *)
LEMMA AfterMisses ==
    /\ AfterMiss("home") = "tag" /\ AfterMiss("tag") = "category"
    /\ AfterMiss("category") = "amp" /\ AfterMiss("amp") = "entry"
    /\ AfterMiss("entry") = "done"
  BY Zenon DEF AfterMiss

(* Each pattern that is tried, and each new request, keeps it.              *)
LEMMA RouteInvStep == RouteInv /\ [RouteNext]_routeVars => RouteInv'
  <1> SUFFICES ASSUME RouteInv, [RouteNext]_routeVars PROVE RouteInv'
    OBVIOUS
  <1>1. CASE WithoutUri
    <2>1. uri = NoUri /\ trying' = "done" /\ uri' = uri /\ page' = page /\ before' = before /\ trying = "home"
      BY <1>1, Zenon DEF WithoutUri
    <2>2. page = PageOf(uri)
      BY <2>1, Zenon DEF RouteInv, PageOf
    <2> QED
      BY <2>1, <2>2, Zenon DEF RouteInv
  <1>2. CASE Home
    <2>1. trying = "home" /\ uri # NoUri /\ uri' = uri /\ before' = before
      BY <1>2, Zenon DEF Home
    <2>2. CASE uri = <<"/">>
      <3>1. trying' = "done" /\ page' = [kind |-> "home", text |-> <<>>]
        BY <1>2, <2>2, Zenon DEF Home, AfterMatch
      <3>2. page' = PageOf(uri)
        BY <2>1, <2>2, <3>1, Zenon DEF PageOf
      <3> QED
        BY <2>1, <3>1, <3>2, Zenon DEF RouteInv
    <2>3. CASE uri # <<"/">>
      <3>1. trying' = "tag" /\ page' = page
        BY <1>2, <2>3, AfterMisses, Zenon DEF Home
      <3> QED
        BY <2>1, <2>3, <3>1, Zenon DEF RouteInv
    <2> QED
      BY <2>2, <2>3
  <1>3. CASE Request
    <2>1. PICK more \in Longer : uri' = uri \o more
      BY <1>3, Zenon DEF Request
    <2>2. /\ trying = "done" /\ uri # NoUri /\ trying' = "home" /\ page' = Nothing
          /\ before' = [uri |-> uri, page |-> page]
      BY <1>3, Zenon DEF Request
    <2>3. uri \in Seq(Token) /\ page = PageOf(uri)
      BY <2>2, Zenon DEF RouteInv
    <2>4. uri' \in Seq(Token)
      <3>1. more \in Seq(Token)
        BY LongerAre, Zenon
      <3> QED
        BY <2>1, <2>3, <3>1
    <2>5. before'.uri = uri /\ before'.page = page
      BY <2>2
    <2> QED
      BY <2>2, <2>3, <2>4, <2>5, Zenon DEF RouteInv
  <1>4. ASSUME NEW pattern \in {"tag", "category", "amp", "entry"}, Try(pattern)
        PROVE  RouteInv'
    <2>1. trying = pattern /\ uri' = uri /\ before' = before
      BY <1>4, Zenon DEF Try
    <2>2. uri # NoUri /\ uri # <<"/">> /\ page = Nothing
      BY <1>4, <2>1, Zenon DEF RouteInv
    <2>3. CASE Captures(pattern, uri) # {}
      <3>1. trying' = "done" /\ page' = PageBy(pattern, uri)
        BY <1>4, <2>3, Zenon DEF Try, AfterMatch, PageBy
      <3>2. PageOf(uri) = PageBy(pattern, uri)
        BY <1>4, <2>1, <2>2, <2>3, Zenon DEF RouteInv, PageOf
      <3> QED
        BY <2>1, <3>1, <3>2, Zenon DEF RouteInv
    <2>4. CASE Captures(pattern, uri) = {}
      <3>1. trying' = AfterMiss(pattern) /\ page' = page
        BY <1>4, <2>4, Zenon DEF Try
      <3>2. CASE pattern # "entry"
        BY <1>4, <2>1, <2>2, <2>4, <3>1, <3>2, AfterMisses, Zenon DEF RouteInv
      <3>3. CASE pattern = "entry"
        <4>1. PageOf(uri) = Nothing
          BY <2>1, <2>2, <2>4, <3>3, Zenon DEF RouteInv, PageOf
        <4> QED
          BY <2>1, <2>2, <3>1, <3>3, <4>1, AfterMisses, Zenon DEF RouteInv
      <3> QED
        BY <3>2, <3>3
    <2> QED
      BY <2>3, <2>4
  <1>5. CASE UNCHANGED routeVars
    BY <1>5, Zenon DEF routeVars, RouteInv
  <1> QED
    BY <1>1, <1>2, <1>3, <1>4, <1>5, Zenon DEF RouteNext

(* So it holds throughout.                                                  *)
LEMMA RouteInvHolds == RouteSpec => []RouteInv
  BY RouteInvInit, RouteInvStep, PTL DEF RouteSpec

(* Where the visitor went.                                                  *)
LEMMA WentFrom ==
    ASSUME RouteInv, NEW more, Went(more)
    PROVE  /\ before.uri \in Seq(Token) /\ before.uri # <<>>
           /\ uri = before.uri \o more
           /\ page = PageOf(uri) /\ before.page = PageOf(before.uri)
  BY Zenon DEF RouteInv, Went

(* The two optional endings of the patterns: an AMP page is the page of its *)
(* entry but for the two names the patterns give a meaning, and a slash at  *)
(* the end is one of the name.  For every set of words and every length.    *)
THEOREM EndingsHolds == RouteSpec => []Endings
  <1>1. RouteInv => AmpOfEntry
    <2> SUFFICES ASSUME RouteInv, NEW amp \in {<<"/", "am">>, <<"/", "am", "p">>},
                        Went(amp), before.page.kind = "entry"
                 PROVE  AmpOf(before.uri, amp, uri)
      BY WentFrom, Zenon DEF AmpOfEntry, AmpOf
    <2> QED
      BY WentFrom, AmpPage, Zenon
  <1>2. RouteInv => SlashNamesAnother
    <2> SUFFICES ASSUME RouteInv, Went(<<"/">>)
                 PROVE  SlashOf(before.uri, uri)
      BY WentFrom, Zenon DEF SlashNamesAnother, SlashOf
    <2> QED
      BY WentFrom, SlashPage, Zenon
  <1>3. RouteInv => Endings
    BY <1>1, <1>2, Zenon DEF Endings
  <1> QED
    BY <1>3, RouteInvHolds, PTL

(* Behind a tag or a category there is nothing but longer names of that     *)
(* kind, only a real slash leads there, and behind a page there are pages.  *)
THEOREM SubtreesKeptHolds == RouteSpec => []SubtreesKept
  <1>1. RouteInv => SubtreesKept
    <2> SUFFICES ASSUME RouteInv, NEW kind \in {"tag", "category"}, NEW more \in Longer, Went(more)
                 PROVE  SubtreeOf(before.uri, more, uri, kind)
      BY WentFrom, Zenon DEF SubtreesKept, SubtreeOf
    <2>1. PICK words : \/ kind = "tag" /\ words = TagWord
                       \/ kind = "category" /\ words = CategoryWord
      BY Zenon
    <2>2. /\ before.uri \in Seq(Token) /\ before.uri # <<>>
          /\ uri = before.uri \o more
          /\ page = PageOf(uri) /\ before.page = PageOf(before.uri)
      BY WentFrom, Zenon
    <2> QED
      BY <2>1, <2>2, SubtreePages, Zenon
  <1> QED
    BY <1>1, RouteInvHolds, PTL
=============================================================================
