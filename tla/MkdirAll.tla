------------------------------- MODULE MkdirAll -------------------------------
(***************************************************************************)
(* mkdirAll of util.h, called by several processes for the same path at    *)
(* the same time.  The path has Depth components below node 0, which is    *)
(* the root or the current directory and is not written in the path; node  *)
(* i is the parent of node i + 1.  A call of mkdirAll for node l runs at   *)
(* level l, its recursive call for the parent at level l - 1.  CppBlog has *)
(* the case of Depth = 1.                                                  *)
(*                                                                         *)
(* A definition Name_Bug is a mutant of Name, for testing the properties:  *)
(* Next uses none of them.                                                 *)
(***************************************************************************)
EXTENDS Naturals

CONSTANTS Worker,   \* the processes
          Depth,    \* components of the path
          Fault     \* faults of the environment: "mkdir", "crash"

ASSUME DepthAssumption == Depth \in Nat \ {0}
ASSUME FaultAssumption == Fault \subseteq {"mkdir", "crash"}

VARIABLES node,      \* node[i]: what the path up to component i is
          pc,        \* pc[w]: the system call w is about to make
          level,     \* level[w]: the node w's innermost mkdirAll is about
          result,    \* result[w]: what w's outermost mkdirAll returned
          made,      \* made[w]: history, the directories w has created
          lacked,    \* lacked[w]: history, the levels at which w got ENOENT
          faulted    \* faulted[w]: history, mkdir failed w for no reason here

vars == <<node, pc, level, result, made, lacked, faulted>>

Node == 0..Depth

(* What stat may find: "special" is a socket or a block device, whose mode  *)
(* has the bit of S_IFDIR, "file" anything else that is no directory.       *)
TypeOK ==
    /\ node \in [Node -> {"absent", "dir", "file", "special"}]
    /\ pc \in [Worker -> {"idle", "is_dir", "mkdir", "eexist", "again",
                          "done", "dead"}]
    /\ level \in [Worker -> 1..Depth]
    /\ result \in [Worker -> BOOLEAN]
    /\ made \in [Worker -> SUBSET Node]
    /\ lacked \in [Worker -> SUBSET Node]
    /\ faulted \in [Worker -> BOOLEAN]

(* What is there has directories all the way above it.                      *)
Tree ==
    \A i \in Node, j \in Node : i < j /\ node[j] # "absent" => node[i] = "dir"

(* Any part of the path may be there, and what is no directory may be in    *)
(* the way; a current directory may have been removed.                      *)
Init ==
    /\ node \in [Node -> {"absent", "dir", "file", "special"}]
    /\ Tree
    /\ node[0] \in {"absent", "dir"}
    /\ pc = [w \in Worker |-> "idle"]
    /\ level = [w \in Worker |-> Depth]
    /\ result = [w \in Worker |-> FALSE]
    /\ made = [w \in Worker |-> {}]
    /\ lacked = [w \in Worker |-> {}]
    /\ faulted = [w \in Worker |-> FALSE]
-----------------------------------------------------------------------------
Goto(w, label) == pc' = [pc EXCEPT ![w] = label]

(* The innermost mkdirAll returns: its caller goes on, fails with it, or is *)
(* outside.                                                                 *)
Return(w, value) ==
    IF value /\ level[w] < Depth
      THEN /\ Goto(w, "again")
           /\ level' = [level EXCEPT ![w] = @ + 1]
           /\ UNCHANGED result
      ELSE /\ Goto(w, "done")
           /\ result' = [result EXCEPT ![w] = value]
           /\ UNCHANGED level

Call(w) ==
    /\ pc[w] = "idle"
    /\ Goto(w, "is_dir")
    /\ UNCHANGED <<node, level, result, made, lacked, faulted>>

(* (st_mode & S_IFDIR) != 0, where S_IFDIR is no mask of its own: S_IFSOCK  *)
(* and S_IFBLK have the same bit.                                           *)
HasDirBit(kind) == kind \in {"dir", "special"}

IsDir(w) ==
    /\ pc[w] = "is_dir"
    /\ \/ HasDirBit(node[level[w]]) /\ Return(w, TRUE)
       \/ /\ ~HasDirBit(node[level[w]])
          /\ Goto(w, "mkdir")
          /\ UNCHANGED <<level, result>>
    /\ UNCHANGED <<node, made, lacked, faulted>>

(* What the mkdir system call says of node l.                               *)
Creatable(l) == node[l] = "absent" /\ node[l - 1] = "dir"
Enotdir(l) == \E i \in 0..(l - 1) : node[i] \in {"file", "special"}
Enoent(l) == node[l] = "absent" /\ ~Creatable(l) /\ ~Enotdir(l)

MakeDir(w) ==
    /\ Creatable(level[w])
    /\ node' = [node EXCEPT ![level[w]] = "dir"]
    /\ made' = [made EXCEPT ![w] = @ \cup {level[w]}]

(* ENOENT: the parent first, unless the path has no separator left.         *)
MissingParent_SamePath(w) ==
    Goto(w, "is_dir") /\ UNCHANGED <<level, result>>
MissingParent_NoCheck(w) ==
    /\ Goto(w, "is_dir")
    /\ level' = [level EXCEPT ![w] = @ - 1]
    /\ UNCHANGED result
MissingParent(w) ==
    IF level[w] = 1
      THEN Return(w, FALSE)
      ELSE /\ Goto(w, "is_dir")
           /\ level' = [level EXCEPT ![w] = @ - 1]
           /\ UNCHANGED result

Mkdir(w) ==
    /\ pc[w] = "mkdir"
    /\ \/ MakeDir(w) /\ Return(w, TRUE) /\ UNCHANGED <<lacked, faulted>>
       \/ /\ node[level[w]] # "absent"
          /\ Goto(w, "eexist")
          /\ UNCHANGED <<node, level, result, made, lacked, faulted>>
       \/ /\ Enoent(level[w])
          /\ MissingParent(w)
          /\ lacked' = [lacked EXCEPT ![w] = @ \cup {level[w]}]
          /\ UNCHANGED <<node, made, faulted>>
       \/ /\ Enotdir(level[w])
          /\ Return(w, FALSE)
          /\ UNCHANGED <<node, made, lacked, faulted>>

AfterEexist_Trusting(w) == Return(w, TRUE)
AfterEexist_Fails(w) == Return(w, FALSE)
AfterEexist(w) == Return(w, HasDirBit(node[level[w]]))

MkdirExists(w) ==
    /\ pc[w] = "eexist"
    /\ AfterEexist(w)
    /\ UNCHANGED <<node, made, lacked, faulted>>

(* return 0 == mkdir(...), once the parent is there: a directory a rival    *)
(* has made by now is a failure here.                                       *)
MkdirSucceeds_Negated(w) == Return(w, FALSE)
MkdirSucceeds(w) == Return(w, TRUE)

MkdirAgain(w) ==
    /\ pc[w] = "again"
    /\ \/ MakeDir(w) /\ MkdirSucceeds(w)
       \/ /\ ~Creatable(level[w])
          /\ Return(w, FALSE)
          /\ UNCHANGED <<node, made>>
    /\ UNCHANGED <<lacked, faulted>>

(* mkdir fails for a reason of its own: permissions, a full disk.           *)
MkdirFault(w) ==
    /\ "mkdir" \in Fault
    /\ pc[w] \in {"mkdir", "again"}
    /\ Return(w, FALSE)
    /\ faulted' = [faulted EXCEPT ![w] = TRUE]
    /\ UNCHANGED <<node, made, lacked>>

Crash(w) ==
    /\ "crash" \in Fault
    /\ pc[w] \in {"is_dir", "mkdir", "eexist", "again"}
    /\ Goto(w, "dead")
    /\ UNCHANGED <<node, level, result, made, lacked, faulted>>

Step(w) ==
    IsDir(w) \/ Mkdir(w) \/ MkdirExists(w) \/ MkdirAgain(w) \/ MkdirFault(w)

Next == \E w \in Worker : Call(w) \/ Step(w) \/ Crash(w)

Spec == Init /\ [][Next]_vars

(* The kernel runs every process; nothing makes it call mkdirAll.           *)
FairSpec == Spec /\ \A w \in Worker : WF_vars(Step(w))
-----------------------------------------------------------------------------
(* A caller that is told true has every directory of the path, but for one  *)
(* case: a socket or a block device of that name passes for the last one.   *)
TrueMeansDir ==
    \A w \in Worker :
        result[w] =>
            /\ \A i \in 0..(Depth - 1) : node[i] = "dir"
            /\ node[Depth] \in {"dir", "special"}

(* What keeps mkdirAll from making the path: a socket or a block device is  *)
(* in the way anywhere but at the end, where it passes for a directory.     *)
Obstacle ==
    \/ node[0] = "absent"
    \/ \E i \in Node : node[i] = "file"
    \/ \E i \in 0..(Depth - 1) : node[i] = "special"

(* A caller that is told false has met an obstacle or a fault of mkdir; or  *)
(* it had to make the parent first and a rival made the directory           *)
(* meanwhile.  To lose any other race is no failure, and a caller on its    *)
(* own succeeds whenever it is possible.                                    *)
FalseJustified ==
    \A w \in Worker :
        pc[w] = "done" /\ ~result[w] =>
            \/ Obstacle
            \/ faulted[w]
            \/ /\ level[w] \in lacked[w]
               /\ \E r \in Worker \ {w} : level[w] \in made[r]

(* Rivals may fail one another, but never all of them: when every call has  *)
(* returned without a fault, somebody was told that the directory is there. *)
SomeoneSucceeds ==
    /\ \A w \in Worker : pc[w] \in {"idle", "done"} /\ ~faulted[w]
    /\ \E w \in Worker : pc[w] = "done"
    /\ ~Obstacle
    => \E w \in Worker : result[w]

(* The recursion ends.                                                      *)
CallEnds == \A w \in Worker : pc[w] = "is_dir" ~> pc[w] \in {"done", "dead"}
=============================================================================
