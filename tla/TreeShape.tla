----------------------------- MODULE TreeShape -----------------------------
(***************************************************************************)
(* The fixed part of a run tree: its nodes and their properties as the     *)
(* parser leaves them (node.go, parser.go), the statuses and operations of *)
(* const.go, and the two orders in which the tree is walked.               *)
(***************************************************************************)
EXTENDS Integers, Sequences, FiniteSets

CONSTANTS
  Node,         \* the nodes of the tree
  Root,         \* the topmost one
  None,         \* "no node": a nil *Node
  Kids,         \* Kids[n]: the sub-nodes of n, in the order of the file
  Kind,         \* Kind[n]: "run", "seq" or "par"
  OnError,      \* OnError[n]: the status of n when it fails (on_error)
  OnSiblings,   \* OnSiblings[n]: what its failure does to its siblings
  XLocks,       \* XLocks[n], RLocks[n]: the lock names n lists (rlocks with
  RLocks,       \*   the inherited ones)
  Provides,     \* Provides[n], Requires[n]: resource names
  Requires,
  MaxProc,      \* MaxProc[n]: at most so many processes below n (-1: any)
  Timed,        \* the run nodes that have a timeout
  FrozenInFile, \* the nodes with "status: frozen", own or inherited
  Unattended    \* the tree runs without anybody to decide (runtree-headless)

Lock     == UNION {XLocks[n] \cup RLocks[n] : n \in Node}
Resource == UNION {Provides[n] \cup Requires[n] : n \in Node}

Children(n) == {Kids[n][i] : i \in DOMAIN Kids[n]}
HasChild(n) == Kids[n] # <<>>

RunNode == {n \in Node : Kind[n] = "run"}

Parent == [n \in Node |->
             IF \E p \in Node : n \in Children(p)
             THEN CHOOSE p \in Node : n \in Children(p) ELSE None]

(* The nodes from n up to the root, the way updateStatusesUp visits them ... *)
Path[n \in Node] == <<n>> \o IF Parent[n] = None THEN <<>> ELSE Path[Parent[n]]

(* ... and the nodes below n and n itself, the way updateStatusesDown does:   *)
(* the sub-nodes first.                                                      *)
PostOrder[n \in Node] ==
  LET before[i \in 0..Len(Kids[n])] ==
        IF i = 0 THEN <<>> ELSE before[i - 1] \o PostOrder[Kids[n][i]]
  IN  before[Len(Kids[n])] \o <<n>>

Above(n)     == {Path[n][i] : i \in DOMAIN Path[n]}          \* with n itself
Ancestors(n) == Above(n) \ {n}

(* m stands before n in the order of the file: where their paths part, m is  *)
(* below the earlier sub-node.                                               *)
Precedes(m, n) ==
  \E p \in Ancestors(m) \cap Ancestors(n) :
    \E i, j \in DOMAIN Kids[p] : i < j /\ Kids[p][i] \in Above(m) /\ Kids[p][j] \in Above(n)

Status == {"Waiting", "Frozen", "Running", "Success", "Failed", "Skipped", "Paused"}
Op     == {"Freeze", "Thaw", "Run", "Fail", "Skip", "Success", "Reset"}

Active(s)     == s = "Running"
HoldsLocks(s) == s \in {"Running", "Paused"}
Finished(s)   == s \in {"Success", "Skipped", "Failed"}
HasError(s)   == s = "Failed"
Provider(s)   == Finished(s) /\ ~HasError(s)

(* The two walks are what they are meant to be: their recursion ends, and the *)
(* way up goes from a node to its parent, from there as the parent's own way, *)
(* and comes to no node twice (so it is in a tree; to prove it would be       *)
(* induction over the tree).                                                 *)
ASSUME WalkAssumption ==
  /\ Path \in [Node -> Seq(Node)] /\ PostOrder \in [Node -> Seq(Node)]
  /\ \A n \in Node :
       /\ Path[n] = <<n>> \o IF Parent[n] = None THEN <<>> ELSE Path[Parent[n]]
       /\ \A i \in 2..Len(Path[n]) : Path[n][i] = Parent[Path[n][i - 1]]
       /\ \A i \in DOMAIN Path[n] : Path[Path[n][i]] = SubSeq(Path[n], i, Len(Path[n]))
       /\ \A i, j \in DOMAIN Path[n] : Path[n][i] = Path[n][j] => i = j
       /\ Kids[n] = <<>> => PostOrder[n] = <<n>>

(* The walk down comes to each node below before it comes to its parent, and  *)
(* from the root to every node.                                              *)
ASSUME DownAssumption ==
  /\ \A n \in Node : \A i \in DOMAIN PostOrder[n] :
       \/ PostOrder[n][i] = n
       \/ \E j \in DOMAIN PostOrder[n] : i < j /\ PostOrder[n][j] = Parent[PostOrder[n][i]]
  /\ \A n \in Node : \E i \in DOMAIN PostOrder[Root] : PostOrder[Root][i] = n

ASSUME NodeAssumption ==
  /\ IsFiniteSet(Node) /\ Root \in Node /\ None \notin Node
  /\ Kids \in [Node -> Seq(Node)]
  /\ Kind \in [Node -> {"run", "seq", "par"}]
  /\ \A n \in RunNode : Kids[n] = <<>>

(* Every node but the root has exactly one place below exactly one node.     *)
ASSUME TreeAssumption ==
  /\ \A p \in Node : Root \notin Children(p)
  /\ \A n \in Node \ {Root} :
       \E p \in Node : \E i \in DOMAIN Kids[p] :
         /\ Kids[p][i] = n
         /\ \A q \in Node : \A j \in DOMAIN Kids[q] : Kids[q][j] = n => q = p /\ j = i
  /\ \A n \in Node : Root \in Above(n)

(* on_error: the statuses that the parser accepts, and the operations on the  *)
(* siblings.                                                                 *)
ASSUME OnErrorAssumption ==
  /\ OnError \in [Node -> {"Success", "Failed", "Paused"}]
  /\ OnSiblings \in [Node -> {"None", "Skip", "Freeze"}]

(* A name is not in both kinds of locks of a node (checkLockKinds), and rlocks *)
(* are inherited, so they only get fewer where a node lists its own.          *)
ASSUME LockAssumption ==
  /\ IsFiniteSet(Lock)
  /\ XLocks \in [Node -> SUBSET Lock] /\ RLocks \in [Node -> SUBSET Lock]
  /\ \A n \in Node : XLocks[n] \cap RLocks[n] = {}

ASSUME PropertyAssumption ==
  /\ IsFiniteSet(Resource)
  /\ Provides \in [Node -> SUBSET Resource] /\ Requires \in [Node -> SUBSET Resource]
  /\ MaxProc \in [Node -> Int]
  /\ Timed \subseteq RunNode /\ FrozenInFile \subseteq Node
  /\ Unattended \in BOOLEAN
=============================================================================
