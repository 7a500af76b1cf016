---------------------------- MODULE OrderProofs ----------------------------
(***************************************************************************)
(* What holds of the order and of the end of every run without anybody to  *)
(* decide (runtree-headless): the seq order, that nothing starts behind an *)
(* error, what is provided, and that the end is quiet and final.           *)
(***************************************************************************)
EXTENDS SchedulerProofs

(* Nothing was started yet of a node that waits or is frozen.  A node that is *)
(* decided about is the next to be updated: it starts, or on_error skips or   *)
(* freezes it, which it does to such a node only.                            *)
UnstartedOK(n) ==
  /\ status[n] \in {"Waiting", "Frozen"} => ~startErr[n] /\ client[n] = 0
  /\ want[n] => /\ AtHead(n)
                /\ \/ manual[n] = "Running"
                   \/ manual[n] \in {"Skipped", "Frozen"} /\ status[n] \in {"Waiting", "Frozen"}
  /\ starting[n] => starts[n] # 0 /\ status[n] \in {"Waiting", "Running"}

AllFinished(g) == \A c \in Children(g) : Finished(status[c])

(* A group that is frozen or skipped as a whole is so from the outset or gets *)
(* so while it waits; one that finished was skipped, or is finished by its    *)
(* sub-nodes, for good.                                                      *)
GroupDone(g) ==
  /\ held[g] = "Frozen" => status[g] = "Frozen"
  /\ held[g] = "Skipped" => status[g] \in {"Waiting", "Frozen", "Skipped"}
  /\ ChildFailed(g) => Active(status[g]) \/ Finished(status[g])
  /\ Finished(status[g]) =>
       \/ held[g] = "Skipped" /\ status[g] = "Skipped"
       \/ /\ held[g] = "Waiting"
          /\ AllFinished(g) \/ (Kind[g] = "seq" /\ ChildFailed(g))
          /\ status[g] = IF ChildFailed(g) THEN OnErrorStatus(g) ELSE "Success"

(* All that stands in front of a node in the seq nodes above finished without *)
(* error: so it is for each node that was ever started.                      *)
Clear(m)      == \A c \in Node : InFront(c, m) => Provider(status[c])
StartedOK(m)  == starts[m] # 0 => Clear(m)
HasStarted(n) == \E m \in RunNode : n \in Above(m) /\ starts[m] # 0

(* The resources, inside the handlers too.                                   *)
Backed   == \A r \in provided : \E n \in ProviderNodes : r \in Provides[n]
Complete == \A n \in ProviderNodes : Provides[n] \subseteq provided

(* The parent of a node whose update is to come, is updated after it.        *)
HasCall(s, d) == \E i \in DOMAIN s : s[i].do = d
GoesUp(s) ==
  \A i \in DOMAIN s : s[i].do = "status" /\ Parent[s[i].node] # None =>
    \E j \in DOMAIN s : i < j /\ s[j] = Stat(Parent[s[i].node])

(* Within a cycle of the scheduler, a group shows what its sub-nodes make of  *)
(* it, or is still to be updated.                                            *)
UpToDate(g) == status[g] = CalcStatus(g).st
CycleOK(g)  == HasCall(agenda, "pick") => UpToDate(g) \/ Coming(agenda, g)

(* The inductive invariant of the order, with HeadlessInv and LockInv.       *)
OrderInv ==
  /\ \A n \in RunNode : UnstartedOK(n) /\ StartedOK(n)
  /\ \A g \in Node \ RunNode : GroupDone(g) /\ CycleOK(g)
  /\ \A n \in Node : status[n] \in {"Running", "Failed"} => HasStarted(n)
  /\ Backed /\ Complete
  /\ GoesUp(agenda)

(* What updateBlockedAll would find now.                                     *)
Exact == {n \in Node : IsBlocked(n)}

(* The last call of checkEnd is the last one, directly after updateBlockedAll. *)
SettleOK(s) ==
  \A i \in DOMAIN s : s[i].do = "settle" =>
    i = Len(s) /\ IF i = 1 THEN blocked = Exact ELSE s[i - 1].do = "blocked"

(* The run has ended, or checkEnd looks if the statuses are a fixed point:    *)
(* they are, since nothing runs, nothing is decided and each group is up to  *)
(* date, and none of the calls to come changes that.                         *)
Over == ended # "no" \/ HasCall(agenda, "settle")
Still ==
  /\ Quiet /\ \A n \in RunNode : ~want[n]
  /\ \A g \in Node \ RunNode : UpToDate(g)
  /\ \A i \in DOMAIN agenda : agenda[i].do \in {"status", "blocked", "pick", "settle"}

(* The inductive invariant of the end, with those of the order.              *)
EndInv ==
  /\ Over => Still
  /\ HasCall(agenda, "settle") => ended = "no" /\ SettleOK(agenda) /\ ~HasCall(agenda, "pick")
  /\ ended = "finished" => Finished(status[Root])
  /\ ended = "stopped" => Runnable = {} /\ blocked = Exact


-----------------------------------------------------------------------------
(* The shape of the tree, and of the walks up and down.                      *)

LEMMA AboveAbove ==
  ASSUME NEW m \in Node, NEW c \in Above(m), NEW a \in Above(c) PROVE a \in Above(m)
<1>1. PICK i \in DOMAIN Path[m] : Path[m][i] = c
  BY DEF Above
<1>2. Path[m] \in Seq(Node) /\ Path[c] = SubSeq(Path[m], i, Len(Path[m]))
  BY <1>1, WalkAssumption, WalkType
<1>3. PICK k \in DOMAIN Path[c] : Path[c][k] = a
  BY DEF Above
<1>4. ASSUME NEW s \in Seq(Node), NEW j \in DOMAIN s, NEW l \in DOMAIN SubSeq(s, j, Len(s))
      PROVE  \E x \in DOMAIN s : s[x] = SubSeq(s, j, Len(s))[l]
  <2>1. j + l - 1 \in DOMAIN s /\ SubSeq(s, j, Len(s))[l] = s[j + l - 1]
    OBVIOUS
  <2> QED
    BY <2>1
<1>5. \E x \in DOMAIN Path[m] : Path[m][x] = a
  BY <1>1, <1>2, <1>3, <1>4
<1> QED
  BY <1>5 DEF Above

LEMMA NotOwnChild == ASSUME NEW n \in Node PROVE n \notin Children(n)
<1> SUFFICES ASSUME n \in Children(n) PROVE FALSE
  OBVIOUS
<1>1. Parent[n] = n /\ Parent[n] # None
  BY ChildHasParent, NodeAssumption
<1>2. Path[n] = <<n>> \o Path[n] /\ Path[n] \in Seq(Node)
  BY <1>1, WalkAssumption
<1>3. ASSUME NEW s \in Seq(Node) PROVE <<n>> \o s # s
  OBVIOUS
<1> QED
  BY <1>2, <1>3

(* A child of a node has that node above it, but not the other way round.     *)
LEMMA ChildBelow ==
  ASSUME NEW p \in Node, NEW c \in Children(p)
  PROVE  c \in Node /\ Parent[c] = p /\ Parent[c] # None /\ p \in Above(c) /\ c # p
<1>1. c \in Node /\ Parent[c] = p /\ Parent[c] # None
  BY ChildHasParent, NodeAssumption
<1> QED
  BY <1>1, WalkUp, WalkType, NotOwnChild

LEMMA StatNode == ASSUME NEW n PROVE Stat(n).node = n /\ Stat(n).do = "status"
BY DEF Stat

(* The places of s and t in u, which is s followed by t.                      *)
Joins(u, s, t) ==
  /\ Len(s) \in Nat /\ DOMAIN s = 1..Len(s) /\ DOMAIN t = 1..Len(t) /\ Len(t) \in Nat
  /\ u \in Seq(Frame) /\ DOMAIN u = 1..(Len(s) + Len(t))
  /\ \A i \in DOMAIN s : i \in DOMAIN u /\ u[i] = s[i]
  /\ \A i \in DOMAIN t : Len(s) + i \in DOMAIN u /\ u[Len(s) + i] = t[i]
  /\ \A i \in DOMAIN u : \/ i \in DOMAIN s /\ u[i] = s[i]
                         \/ i - Len(s) \in DOMAIN t /\ u[i] = t[i - Len(s)]

LEMMA Joined == ASSUME NEW s \in Seq(Frame), NEW t \in Seq(Frame) PROVE Joins(s \o t, s, t)
<1> HIDE DEF Frame
<1> DEFINE c == s \o t
<1>1. /\ Len(s) \in Nat /\ DOMAIN s = 1..Len(s) /\ DOMAIN t = 1..Len(t) /\ Len(t) \in Nat
      /\ c \in Seq(Frame) /\ DOMAIN c = 1..(Len(s) + Len(t))
  BY ConcatPlaces
<1>2. /\ \A i \in DOMAIN s : c[i] = s[i]
      /\ \A i \in DOMAIN t : c[Len(s) + i] = t[i]
  BY ConcatPlaces
<1>3. \A i \in DOMAIN c : \/ i \in DOMAIN s /\ c[i] = s[i]
                          \/ i - Len(s) \in DOMAIN t /\ c[i] = t[i - Len(s)]
  BY ConcatPlaces
<1> HIDE DEF c
<1>4. \A i \in DOMAIN s : i \in DOMAIN c /\ c[i] = s[i]
  BY <1>1, <1>2
<1>5. \A i \in DOMAIN t : Len(s) + i \in DOMAIN c /\ c[Len(s) + i] = t[i]
  BY <1>1, <1>2
<1>6. Joins(c, s, t)
  BY <1>1, <1>3, <1>4, <1>5, Zenon DEF Joins
<1> QED
  BY <1>6 DEF c

LEMMA StatPlaces ==
  ASSUME NEW n \in Node
  PROVE  /\ Up(n) \in Seq(Frame) /\ Down(n) \in Seq(Frame)
         /\ DOMAIN Up(n) = DOMAIN Path[n] /\ DOMAIN Down(n) = DOMAIN PostOrder[n]
         /\ \A i \in DOMAIN Up(n) : Up(n)[i] = Stat(Path[n][i])
         /\ \A i \in DOMAIN Down(n) : Down(n)[i] = Stat(PostOrder[n][i])
         /\ 1 \in DOMAIN Up(n) /\ Up(n)[1] = Stat(n)
BY UpDownType, WalkType DEF Up, Down

LEMMA UpGoesUp == ASSUME NEW n \in Node PROVE GoesUp(Up(n))
<1> DEFINE p == Path[n]
<1>1. /\ p \in Seq(Node) /\ DOMAIN p = 1..Len(p) /\ Len(p) \in Nat
      /\ \A i \in 2..Len(p) : p[i] = Parent[p[i - 1]]
      /\ \A i \in DOMAIN p : Path[p[i]] = SubSeq(p, i, Len(p))
  <2>1. p \in Seq(Node)
    BY WalkType
  <2>2. /\ \A i \in 2..Len(p) : p[i] = Parent[p[i - 1]]
        /\ \A i \in DOMAIN p : Path[p[i]] = SubSeq(p, i, Len(p))
    BY WalkAssumption
  <2> HIDE DEF p
  <2> QED
    BY <2>1, <2>2
<1> SUFFICES ASSUME NEW i \in DOMAIN Up(n), Parent[Up(n)[i].node] # None
             PROVE  \E j \in DOMAIN Up(n) : i < j /\ Up(n)[j] = Stat(Parent[Up(n)[i].node])
  BY DEF GoesUp
<1>2. DOMAIN Up(n) = DOMAIN p /\ Up(n)[i].node = p[i] /\ \A j \in DOMAIN p : Up(n)[j] = Stat(p[j])
  BY StatPlaces, StatNode
<1>3. CASE i < Len(p)
  <2>1. i + 1 \in 2..Len(p) /\ (i + 1) - 1 = i
    BY <1>1, <1>2, <1>3
  <2>2. p[i + 1] = Parent[p[i]]
    BY <1>1, <2>1
  <2> HIDE DEF p
  <2> QED
    BY <1>1, <1>2, <2>1, <2>2
<1>4. CASE ~(i < Len(p))
  <2>1. i = Len(p) /\ p[i] \in Node
    BY <1>1, <1>2, <1>4
  <2>2. Path[p[i]] = SubSeq(p, i, i)
    BY <1>1, <1>2, <2>1
  <2>3. Path[p[i]] = <<p[i]>> \o Path[Parent[p[i]]] /\ Path[Parent[p[i]]] \in Seq(Node)
        /\ Len(Path[Parent[p[i]]]) >= 1
    <3>1. Parent[p[i]] # None /\ Parent[p[i]] \in Node
      BY <1>2, <2>1, ParentType
    <3> QED
      BY <2>1, <3>1, WalkAssumption, WalkType
  <2>4. ASSUME NEW s \in Seq(Node), NEW x \in DOMAIN s, NEW t \in Seq(Node), Len(t) >= 1
        PROVE  SubSeq(s, x, x) # <<s[x]>> \o t
    <3>1. Len(SubSeq(s, x, x)) = 1 /\ Len(<<s[x]>> \o t) = 1 + Len(t) /\ Len(t) \in Nat
      BY <2>4
    <3> QED
      BY <2>4, <3>1
  <2> HIDE DEF p
  <2>5. i \in DOMAIN p
    BY <1>2
  <2>6. SubSeq(p, i, i) # <<p[i]>> \o Path[Parent[p[i]]]
    BY <1>1, <2>3, <2>4, <2>5
  <2> QED
    BY <2>2, <2>3, <2>6
<1> QED
  BY <1>3, <1>4

LEMMA ConcatGoesUp ==
  ASSUME NEW s \in Seq(Frame), NEW t \in Seq(Frame), GoesUp(s), GoesUp(t) PROVE GoesUp(s \o t)
<1> HIDE DEF Frame
<1> DEFINE u == s \o t
<1>0. Joins(u, s, t)
  BY Joined
<1> HIDE DEF u
<1>1. /\ Len(s) \in Nat /\ DOMAIN s = 1..Len(s) /\ DOMAIN t = 1..Len(t) /\ Len(t) \in Nat
      /\ \A i \in DOMAIN u : i \in Int
      /\ \A i \in DOMAIN s : i \in DOMAIN u /\ u[i] = s[i]
      /\ \A i \in DOMAIN t : Len(s) + i \in DOMAIN u /\ u[Len(s) + i] = t[i]
      /\ \A i \in DOMAIN u : \/ i \in DOMAIN s /\ u[i] = s[i]
                             \/ i - Len(s) \in DOMAIN t /\ u[i] = t[i - Len(s)]
  BY <1>0 DEF Joins
<1> SUFFICES ASSUME NEW i \in DOMAIN u, u[i].do = "status", Parent[u[i].node] # None
             PROVE  \E j \in DOMAIN u : i < j /\ u[j] = Stat(Parent[u[i].node])
  BY DEF GoesUp, u
<1>2. CASE i \in DOMAIN s
  <2>1. PICK j \in DOMAIN s : i < j /\ s[j] = Stat(Parent[s[i].node])
    BY <1>1, <1>2 DEF GoesUp
  <2>2. j \in DOMAIN u /\ u[j] = s[j] /\ u[i] = s[i]
    BY <1>1, <1>2, <2>1
  <2> QED
    BY <2>1, <2>2
<1>3. CASE i - Len(s) \in DOMAIN t /\ u[i] = t[i - Len(s)]
  <2>1. PICK k \in DOMAIN t : k = i - Len(s)
    BY <1>3
  <2>2. PICK j \in DOMAIN t : k < j /\ t[j] = Stat(Parent[t[k].node])
    BY <1>3, <2>1 DEF GoesUp
  <2>3. Len(s) + j \in DOMAIN u /\ u[Len(s) + j] = t[j] /\ i < Len(s) + j
    <3>1. i \in Int /\ j \in Int /\ Len(s) \in Int /\ i = k + Len(s)
      BY <1>1, <2>1
    <3> QED
      BY <1>1, <2>2, <3>1
  <2> QED
    BY <1>3, <2>1, <2>2, <2>3
<1> QED
  BY <1>1, <1>2, <1>3

LEMMA DownGoesUp == ASSUME NEW n \in Node PROVE GoesUp(Down(n) \o Up(n))
<1> DEFINE d == Down(n)
           w == Up(n)
           u == d \o w
<1>1. /\ d \in Seq(Frame) /\ w \in Seq(Frame) /\ DOMAIN d = DOMAIN PostOrder[n]
      /\ \A i \in DOMAIN d : d[i] = Stat(PostOrder[n][i])
      /\ 1 \in DOMAIN w /\ w[1] = Stat(n) /\ GoesUp(w)
  BY StatPlaces, UpGoesUp
<1> HIDE DEF d, w
<1>0. Joins(u, d, w)
  BY <1>1, Joined
<1> HIDE DEF u
<1>2. /\ Len(d) \in Nat /\ DOMAIN d = 1..Len(d) /\ DOMAIN w = 1..Len(w) /\ Len(w) \in Nat
      /\ DOMAIN u = 1..(Len(d) + Len(w))
      /\ \A i \in DOMAIN d : i \in DOMAIN u /\ u[i] = d[i]
      /\ \A i \in DOMAIN w : Len(d) + i \in DOMAIN u /\ u[Len(d) + i] = w[i]
      /\ \A i \in DOMAIN u : \/ i \in DOMAIN d /\ u[i] = d[i]
                             \/ i - Len(d) \in DOMAIN w /\ u[i] = w[i - Len(d)]
  BY <1>0 DEF Joins
<1> HIDE DEF Frame
<1>3. ASSUME NEW k \in DOMAIN w, w[k].do = "status", Parent[w[k].node] # None
      PROVE  \E j \in DOMAIN u : Len(d) + k < j /\ u[j] = Stat(Parent[w[k].node])
  <2>1. PICK j \in DOMAIN w : k < j /\ w[j] = Stat(Parent[w[k].node])
    BY <1>1, <1>3 DEF GoesUp
  <2>2. Len(d) + j \in DOMAIN u /\ u[Len(d) + j] = w[j] /\ Len(d) + k < Len(d) + j
    BY <1>2, <2>1
  <2> QED
    BY <2>1, <2>2
<1> SUFFICES ASSUME NEW i \in DOMAIN u, u[i].do = "status", Parent[u[i].node] # None
             PROVE  \E j \in DOMAIN u : i < j /\ u[j] = Stat(Parent[u[i].node])
  BY DEF GoesUp, u, d, w
<1>4. CASE i \in DOMAIN d
  <2>1. u[i] = Stat(PostOrder[n][i]) /\ u[i].node = PostOrder[n][i] /\ i \in DOMAIN PostOrder[n]
    BY <1>1, <1>2, <1>4 DEF Stat
  <2>2. CASE PostOrder[n][i] = n
    <3>1. PICK j \in DOMAIN u : Len(d) + 1 < j /\ u[j] = Stat(Parent[w[1].node])
      BY <1>1, <1>3, <2>1, <2>2 DEF Stat
    <3>2. i < j
      BY <1>2, <1>4, <3>1
    <3> QED
      BY <1>1, <2>1, <2>2, <3>1, <3>2 DEF Stat
  <2>3. CASE \E j \in DOMAIN PostOrder[n] : i < j /\ PostOrder[n][j] = Parent[PostOrder[n][i]]
    <3>1. PICK j \in DOMAIN d : i < j /\ PostOrder[n][j] = Parent[PostOrder[n][i]]
      BY <1>1, <2>3
    <3>2. j \in DOMAIN u /\ u[j] = Stat(PostOrder[n][j])
      BY <1>1, <1>2, <3>1
    <3> QED
      BY <2>1, <3>1, <3>2
  <2> QED
    BY <2>1, <2>2, <2>3, DownAssumption
<1>5. CASE i - Len(d) \in DOMAIN w /\ u[i] = w[i - Len(d)]
  <2>1. PICK k \in DOMAIN w : k = i - Len(d)
    BY <1>5
  <2>2. Len(d) + k = i
    BY <1>2, <2>1
  <2> QED
    BY <1>3, <1>5, <2>1, <2>2
<1> QED
  BY <1>2, <1>4, <1>5

LEMMA RootGoesUp == GoesUp(Down(Root))
<1> DEFINE d == Down(Root)
<1>1. /\ DOMAIN d = DOMAIN PostOrder[Root]
      /\ \A i \in DOMAIN d : d[i] = Stat(PostOrder[Root][i]) /\ d[i].node = PostOrder[Root][i]
  BY StatPlaces, StatNode, NodeAssumption
<1>2. Parent[Root] = None
  BY TreeAssumption, NodeAssumption DEF Parent
<1>3. ASSUME NEW i \in DOMAIN d, Parent[d[i].node] # None
      PROVE  \E j \in DOMAIN d : i < j /\ d[j] = Stat(Parent[d[i].node])
  <2>1. PostOrder[Root][i] # Root
    BY <1>1, <1>2, <1>3
  <2>2. PICK j \in DOMAIN PostOrder[Root] :
          i < j /\ PostOrder[Root][j] = Parent[PostOrder[Root][i]]
    BY <1>1, <2>1, DownAssumption, NodeAssumption
  <2> QED
    BY <1>1, <2>2
<1> QED
  BY <1>3 DEF GoesUp

LEMMA TailGoesUp ==
  ASSUME NEW s \in Seq(Frame), s # <<>>, GoesUp(s) PROVE GoesUp(Tail(s)) /\ Tail(s) \in Seq(Frame)
<1> HIDE DEF Frame
<1>1. /\ Tail(s) \in Seq(Frame) /\ DOMAIN s = 1..Len(s) /\ Len(s) \in Nat
      /\ \A i \in DOMAIN Tail(s) : i + 1 \in DOMAIN s /\ Tail(s)[i] = s[i + 1] /\ i \in Nat
      /\ \A j \in DOMAIN s : j # 1 => j - 1 \in DOMAIN Tail(s) /\ Tail(s)[j - 1] = s[j]
  OBVIOUS
<1>2. ASSUME NEW i \in DOMAIN Tail(s), Tail(s)[i].do = "status", Parent[Tail(s)[i].node] # None
      PROVE  \E j \in DOMAIN Tail(s) : i < j /\ Tail(s)[j] = Stat(Parent[Tail(s)[i].node])
  <2>1. PICK j \in DOMAIN s : i + 1 < j /\ s[j] = Stat(Parent[s[i + 1].node])
    BY <1>1, <1>2 DEF GoesUp
  <2>2. j # 1 /\ i < j - 1
    BY <1>1, <2>1
  <2> QED
    BY <1>1, <2>1, <2>2
<1> QED
  BY <1>1, <1>2 DEF GoesUp

LEMMA ChangedGoesUp ==
  ASSUME NEW rest \in Seq(Frame), NEW sub, GoesUp(rest) PROVE GoesUp(Changed(sub, rest))
<1>1. ASSUME NEW f \in Frame
      PROVE  [f EXCEPT !.changed = TRUE].do = f.do /\ (f.do = "status" => [f EXCEPT !.changed = TRUE] = f)
  <2>1. [f EXCEPT !.changed = TRUE].do = f.do
    BY DEF Frame
  <2>2. ASSUME f.do = "status" PROVE [f EXCEPT !.changed = TRUE] = f
    <3>1. PICK n \in Node : f = Stat(n)
      BY <2>2 DEF Frame, Stat
    <3> QED
      BY <3>1 DEF Stat
  <2> QED
    BY <2>1, <2>2
<1>2. \A i \in DOMAIN rest : rest[i] \in Frame
  OBVIOUS
<1>3. ASSUME NEW k PROVE GoesUp([rest EXCEPT ![k] = [rest[k] EXCEPT !.changed = TRUE]])
  <2> DEFINE t == [rest EXCEPT ![k] = [rest[k] EXCEPT !.changed = TRUE]]
  <2>1. /\ DOMAIN t = DOMAIN rest
        /\ \A i \in DOMAIN rest : t[i].do = rest[i].do
        /\ \A i \in DOMAIN rest : rest[i].do = "status" => t[i] = rest[i]
    <3> HIDE DEF Frame
    <3> QED
      BY <1>1, <1>2
  <2> HIDE DEF t
  <2>2. GoesUp(t)
    BY <2>1 DEF GoesUp, Stat
  <2> QED
    BY <2>2 DEF t
<1> QED
  BY <1>3 DEF Changed

-----------------------------------------------------------------------------
(* What a step leaves on the agenda.                                         *)

(* No cycle and no end of the run is decided by these calls.                 *)
Inner(s) == \A i \in DOMAIN s : s[i].do \notin {"pick", "settle"}

LEMMA InnerWalks ==
  ASSUME NEW n \in Node PROVE Inner(Up(n)) /\ Inner(Down(n)) /\ Inner(<<>>)
BY StatPlaces, StatNode DEF Inner

LEMMA InnerConcat ==
  ASSUME NEW s \in Seq(Frame), NEW t \in Seq(Frame), Inner(s), Inner(t) PROVE Inner(s \o t)
<1> HIDE DEF Frame
<1>1. Joins(s \o t, s, t)
  BY Joined
<1> QED
  BY <1>1 DEF Joins, Inner

LEMMA CallsOfConcat ==
  ASSUME NEW s \in Seq(Frame), NEW t \in Seq(Frame), NEW d, Inner(s), d \in {"pick", "settle"},
         HasCall(s \o t, d)
  PROVE  HasCall(t, d)
<1> HIDE DEF Frame
<1>1. Joins(s \o t, s, t)
  BY Joined
<1> QED
  BY <1>1 DEF Joins, Inner, HasCall

LEMMA CallsOfTail ==
  ASSUME NEW s \in Seq(Frame), s # <<>>, NEW d, HasCall(Tail(s), d) PROVE HasCall(s, d)
<1> HIDE DEF Frame
<1>1. \A i \in DOMAIN Tail(s) : i + 1 \in DOMAIN s /\ Tail(s)[i] = s[i + 1]
  OBVIOUS
<1> QED
  BY <1>1 DEF HasCall

LEMMA CallsOfChanged ==
  ASSUME NEW s \in Seq(Frame), NEW sub, NEW d, HasCall(Changed(sub, s), d) PROVE HasCall(s, d)
<1>1. SameCalls(Changed(sub, s), s) /\ Changed(sub, s) \in Seq(Frame)
  BY FlagsOnly, FlagType
<1> HIDE DEF Frame
<1> QED
  BY <1>1 DEF SameCalls, HasCall

(* Calls in front of the rest of the agenda keep what is to come.            *)
LEMMA PutInFront ==
  ASSUME TypeOK, agenda # <<>>, GoesUp(agenda), NEW s \in Seq(Frame), GoesUp(s), Inner(s),
         NEW rest, rest = Tail(agenda) \/ \E sub : rest = Changed(sub, Tail(agenda)),
         agenda' = s \o rest
  PROVE  /\ GoesUp(agenda)'
         /\ \A d \in {"pick", "settle"} : HasCall(agenda, d)' => HasCall(agenda, d)
         /\ \A g : Coming(agenda, g) /\ (TellsOf(Head(agenda), g) => Coming(s, g)) =>
                     Coming(agenda, g)'
<1>1. /\ agenda \in Seq(Frame) /\ Tail(agenda) \in Seq(Frame) /\ GoesUp(Tail(agenda))
      /\ rest \in Seq(Frame) /\ GoesUp(rest)
  <2>1. agenda \in Seq(Frame)
    BY DEF TypeOK
  <2>2. Tail(agenda) \in Seq(Frame) /\ GoesUp(Tail(agenda))
    BY <2>1, TailGoesUp
  <2>3. \A sub : Changed(sub, Tail(agenda)) \in Seq(Frame) /\ GoesUp(Changed(sub, Tail(agenda)))
    BY <2>2, FlagType, ChangedGoesUp
  <2> QED
    BY <2>1, <2>2, <2>3
<1>2. GoesUp(agenda') /\ GoesUp(s \o rest)
  BY <1>1, ConcatGoesUp
<1>3. ASSUME NEW d \in {"pick", "settle"}, HasCall(agenda', d) PROVE HasCall(agenda, d)
  <2>1. HasCall(rest, d)
    BY <1>1, <1>3, CallsOfConcat
  <2>2. HasCall(Tail(agenda), d)
    BY <1>1, <2>1, CallsOfChanged
  <2> QED
    BY <1>1, <2>2, CallsOfTail
<1>4. ASSUME NEW g, Coming(agenda, g), TellsOf(Head(agenda), g) => Coming(s, g)
      PROVE  Coming(agenda', g)
  <2>1. Coming(s, g) \/ Coming(Tail(agenda), g)
    BY <1>1, <1>4, ComingBehind
  <2>2. Coming(s, g) \/ Coming(rest, g)
    BY <1>1, <2>1, ComingChanged
  <2> QED
    BY <1>1, <2>2, ComingLater
<1> QED
  BY <1>2, <1>3, <1>4 DEF GoesUp, HasCall, Coming

(* A handler that begins.                                                    *)
Begins(d) ==
  \/ d = "pick" /\ Schedule
  \/ d = "settle" /\ CheckEnd /\ agenda' = Down(Root) \o << [do |-> "blocked"],
                                                            [do |-> "settle", before |-> SchedState] >>

AgendaKept ==
  /\ GoesUp(agenda)'
  /\ \A d \in {"pick", "settle"} : HasCall(agenda, d)' => HasCall(agenda, d) \/ Begins(d)

Later == \A g : Coming(agenda, g) => Coming(agenda, g)'

LEMMA DownUpFront ==
  ASSUME NEW n \in Node
  PROVE  /\ Down(n) \o Up(n) \in Seq(Frame) /\ GoesUp(Down(n) \o Up(n)) /\ Inner(Down(n) \o Up(n))
         /\ Coming(Down(n) \o Up(n), n)
<1>1. Up(n) \in Seq(Frame) /\ Down(n) \in Seq(Frame) /\ Inner(Up(n)) /\ Inner(Down(n))
  BY StatPlaces, InnerWalks
<1>2. Coming(Up(n), n)
  BY StatPlaces DEF Coming, TellsOf
<1> QED
  BY <1>1, <1>2, DownGoesUp, InnerConcat, ComingLater, ConcatPlaces

(* Two calls that are not updates of a status.                               *)
LEMMA TwoCalls ==
  ASSUME NEW f \in Frame, NEW h \in Frame, f.do # "status", h.do # "status"
  PROVE  <<f, h>> \in Seq(Frame) /\ GoesUp(<<f, h>>)
<1>1. <<f, h>> \in Seq(Frame) /\ DOMAIN <<f, h>> = {1, 2} /\ <<f, h>>[1] = f /\ <<f, h>>[2] = h
  <2> HIDE DEF Frame
  <2> QED
    OBVIOUS
<1> QED
  BY <1>1 DEF GoesUp

LEMMA OperationAgenda ==
  ASSUME Unattended, TypeOK, AgendaOK, GoesUp(agenda),
         UpdateBlocked \/ OpNotAllowed \/ Settle \/ Sibling \/ OpOnRunNode \/ OpOnGroup
           \/ OpOnGroupDone \/ EndOp \/ MarkRunning
  PROVE  AgendaKept /\ Later
<1>0. /\ agenda \in Seq(Frame) /\ <<>> \in Seq(Frame) /\ GoesUp(<<>>) /\ Inner(<<>>)
      /\ agenda # <<>> => /\ Tail(agenda) \in Seq(Frame) /\ <<>> \o Tail(agenda) = Tail(agenda)
  <2>1. agenda \in Seq(Frame)
    BY DEF TypeOK
  <2>2. GoesUp(<<>>) /\ Inner(<<>>)
    BY DEF GoesUp, Inner
  <2> HIDE DEF Frame
  <2> QED
    BY <2>1, <2>2
<1>1. ASSUME NEW s \in Seq(Frame), GoesUp(s), Inner(s),
             NEW rest, rest = Tail(agenda) \/ \E sub : rest = Changed(sub, Tail(agenda)),
             agenda' = s \o rest,
             NEW d, Next1(d), \A g : TellsOf(Head(agenda), g) => Coming(s, g)
      PROVE  AgendaKept /\ Later
  BY <1>1, PutInFront DEF AgendaKept, Later, Next1
<1>2. ASSUME NEW d, Next1(d), d \notin {"status", "done"}, NEW g PROVE ~TellsOf(Head(agenda), g)
  BY <1>2 DEF Next1, TellsOf, Stat
<1>3. CASE UpdateBlocked \/ OpNotAllowed \/ Settle
  <2>1. agenda' = Tail(agenda) /\ \E d \in {"blocked", "op", "settle"} : Next1(d)
    BY <1>3, Zenon DEF UpdateBlocked, OpNotAllowed, Settle
  <2>2. agenda' = <<>> \o Tail(agenda)
    BY <1>0, <2>1 DEF Next1
  <2> QED
    BY <1>0, <1>1, <1>2, <2>1, <2>2
<1>4. CASE Sibling
  <2> DEFINE f  == Head(agenda)
             op == [do |-> "op", node |-> f.node, op |-> f.op, rec |-> HasChild(f.node), sub |-> FALSE]
             en == [do |-> "end", node |-> f.node, op |-> f.op, before |-> ProviderNodes,
                    keep |-> {}, failed |-> FALSE]
  <2>1. /\ Next1("sibling") /\ f.node \in Node /\ f.op \in Op /\ HasChild(f.node) \in BOOLEAN
        /\ {} \in SUBSET Resource
    <3>1. Next1("sibling")
      BY <1>4 DEF Sibling
    <3> QED
      BY <1>0, <3>1, NextType, FrameType DEF Next1, HasChild, Op
  <2>2. agenda' = Tail(agenda) \/ agenda' = <<op, en>> \o Tail(agenda)
    BY <1>4 DEF Sibling, PerformOp
  <2>3. /\ <<op, en>> \in Seq(Frame) /\ GoesUp(<<op, en>>) /\ Inner(<<op, en>>)
    <3>1. op \in Frame /\ en \in Frame
      BY <2>1 DEF Frame, ProviderNodes
    <3>2. op.do = "op" /\ en.do = "end"
      OBVIOUS
    <3> HIDE DEF op, en
    <3> QED
      BY <3>1, <3>2, TwoCalls DEF Inner
  <2> HIDE DEF op, en
  <2>4. CASE agenda' = Tail(agenda)
    BY <1>0, <1>1, <1>2, <2>1, <2>4 DEF Next1
  <2>5. CASE agenda' = <<op, en>> \o Tail(agenda)
    BY <1>1, <1>2, <2>1, <2>3, <2>5
  <2> QED
    BY <2>2, <2>4, <2>5
<1>5. CASE OpOnRunNode
  <2> DEFINE f == Head(agenda)
  <2>1. f.node \in Node /\ Next1("op") /\ agenda' = Down(f.node) \o Up(f.node) \o Changed(f.sub, Tail(agenda))
    BY <1>5, BehindOp DEF OpOnRunNode
  <2> HIDE DEF f
  <2> QED
    BY <1>1, <1>2, <2>1, DownUpFront
<1>6. CASE OpOnGroup
  <2>1. PICK s \in Seq(Frame) : /\ agenda' = s \o Tail(agenda)
                                /\ \A i \in DOMAIN s : s[i].do \in {"done", "op"}
    BY <1>6, OpOnGroupCalls
  <2>2. GoesUp(s) /\ Inner(s)
    BY <2>1 DEF GoesUp, Inner
  <2>3. Next1("op")
    BY <1>6 DEF OpOnGroup
  <2> QED
    BY <1>1, <1>2, <2>1, <2>2, <2>3
<1>7. CASE OpOnGroupDone
  <2> DEFINE f == Head(agenda)
  <2>1. Next1("done") /\ f.node \in Node /\ f.do = "done"
    <3>1. Next1("done")
      BY <1>7 DEF OpOnGroupDone
    <3> QED
      BY <1>0, <3>1, NextType, FrameType DEF Next1
  <2>2. CASE f.changed
    <3>1. agenda' = Down(f.node) \o Up(f.node) \o Changed(f.sub, Tail(agenda))
      BY <1>7, <2>2 DEF OpOnGroupDone
    <3>2. \A g : TellsOf(f, g) => g = f.node
      BY <2>1 DEF TellsOf, Stat
    <3> HIDE DEF f
    <3> QED
      BY <1>1, <2>1, <3>1, <3>2, DownUpFront DEF f
  <2>3. CASE ~f.changed
    <3>1. agenda' = Tail(agenda)
      BY <1>7, <2>3 DEF OpOnGroupDone
    <3>2. \A g : ~TellsOf(f, g)
      BY <2>1, <2>3 DEF TellsOf, Stat
    <3> QED
      BY <1>0, <1>1, <2>1, <3>1, <3>2 DEF Next1
  <2> QED
    BY <2>2, <2>3
<1>8. CASE EndOp
  <2> DEFINE f == Head(agenda)
             b == IF (IF Unprovides(f.op) THEN Lost(f.before, f.keep) ELSE {}) = {}
                  THEN <<>> ELSE <<[do |-> "blocked"]>>
             w == IF f.failed THEN <<>> ELSE Up(f.node)
  <2>1. Next1("end") /\ f.node \in Node
    <3>1. Next1("end")
      BY <1>8 DEF EndOp
    <3> QED
      BY <1>0, <3>1, NextType, FrameType
  <2>2. agenda' = (b \o w) \o Tail(agenda)
    BY <1>8 DEF EndOp
  <2>3. b \in Seq(Frame) /\ GoesUp(b) /\ Inner(b)
    <3>1. <<[do |-> "blocked"]>> \in Seq(Frame)
      BY DEF Frame
    <3> HIDE DEF Frame
    <3> QED
      BY <1>0, <3>1 DEF GoesUp, Inner
  <2>4. w \in Seq(Frame) /\ GoesUp(w) /\ Inner(w)
    BY <1>0, <2>1, StatPlaces, UpGoesUp, InnerWalks
  <2> HIDE DEF b, w
  <2>5. b \o w \in Seq(Frame) /\ GoesUp(b \o w) /\ Inner(b \o w)
    BY <2>3, <2>4, ConcatGoesUp, InnerConcat, ConcatPlaces
  <2> QED
    BY <1>1, <1>2, <2>1, <2>2, <2>5
<1>9. CASE MarkRunning
  <2> DEFINE n == Head(agenda).node
  <2>1. n \in Node /\ agenda' = Down(n) \o Up(n) \o Tail(agenda) /\ Next1("mark")
    <3>1. Next1("mark")
      BY <1>9 DEF MarkRunning
    <3> QED
      BY <1>0, <1>9, <3>1, NextType, FrameType DEF MarkRunning
  <2> HIDE DEF n
  <2> QED
    BY <1>1, <1>2, <2>1, DownUpFront
<1> QED
  BY <1>3, <1>4, <1>5, <1>6, <1>7, <1>8, <1>9

(* The other steps.                                                          *)
LEMMA CycleAgenda ==
  ASSUME NEW f \in Frame, NEW h \in Frame, f.do = "blocked", h.do \in {"pick", "settle"},
         agenda' = Down(Root) \o <<f, h>>
  PROVE  /\ GoesUp(agenda)' /\ \A d \in {"pick", "settle"} : HasCall(agenda, d)' => d = h.do
         /\ \A n \in Node : Coming(agenda, n)'
<1> DEFINE two == <<f, h>>
<1>0. Root \in Node
  BY NodeAssumption
<1>1. two \in Seq(Frame) /\ GoesUp(two) /\ DOMAIN two = {1, 2} /\ two[1] = f /\ two[2] = h
  <2>1. two \in Seq(Frame) /\ GoesUp(two)
    BY TwoCalls
  <2> HIDE DEF Frame
  <2> QED
    BY <2>1
<1> HIDE DEF two
<1>2. Down(Root) \in Seq(Frame) /\ GoesUp(Down(Root)) /\ Inner(Down(Root))
  BY <1>0, StatPlaces, RootGoesUp, InnerWalks
<1>3. GoesUp(agenda')
  BY <1>1, <1>2, ConcatGoesUp DEF two
<1>4. ASSUME NEW d \in {"pick", "settle"}, HasCall(agenda', d) PROVE d = h.do
  <2>1. HasCall(two, d)
    BY <1>1, <1>2, <1>4, CallsOfConcat DEF two
  <2> QED
    BY <1>1, <2>1 DEF HasCall
<1>5. ASSUME NEW n \in Node PROVE Coming(agenda', n)
  <2>1. PICK i \in DOMAIN PostOrder[Root] : PostOrder[Root][i] = n
    BY DownAssumption
  <2>2. i \in DOMAIN Down(Root) /\ Down(Root)[i] = Stat(n)
    BY <1>0, <2>1, StatPlaces
  <2>3. Coming(Down(Root), n)
    BY <2>2 DEF Coming, TellsOf
  <2> QED
    BY <1>1, <1>2, <2>3, ComingLater DEF two
<1> QED
  BY <1>3, <1>4, <1>5 DEF GoesUp, HasCall, Coming

LEMMA ScheduleTells ==
  ASSUME Schedule
  PROVE  /\ GoesUp(agenda)' /\ \A d \in {"pick", "settle"} : HasCall(agenda, d)' => d = "pick"
         /\ \A n \in Node : Coming(agenda, n)'
<1> DEFINE f == [do |-> "blocked"]
           h == [do |-> "pick"]
<1>1. f \in Frame /\ h \in Frame /\ f.do = "blocked" /\ h.do = "pick"
  BY DEF Frame
<1>2. agenda' = Down(Root) \o <<f, h>>
  BY DEF Schedule
<1> HIDE DEF f, h
<1> QED
  BY <1>1, <1>2, CycleAgenda

(* The two calls at the end of checkEnd.                                     *)
LEMMA SettleFrames ==
  ASSUME TypeOK
  PROVE  /\ [do |-> "blocked"] \in Frame
         /\ [do |-> "settle", before |-> SchedState] \in Frame
<1>1. SchedState \in [Node -> Status] \X (SUBSET Node) \X Nat \X Nat \X Nat
  <2>1. /\ IsFiniteSet(provided) /\ IsFiniteSet({r \in Lock : xby[r] # None})
        /\ IsFiniteSet({r \in Lock : rby[r] # None})
    BY FS_Subset, PropertyAssumption, LockAssumption DEF TypeOK
  <2> QED
    BY <2>1, FS_CardinalityType DEF SchedState, TypeOK
<1> HIDE DEF SchedState
<1> QED
  BY <1>1 DEF Frame

LEMMA OtherAgenda ==
  ASSUME Unattended, TypeOK, AgendaOK, GoesUp(agenda), [Next]_vars, ~UpdateStatus
  PROVE  AgendaKept /\ Later
<1>1. ASSUME UNCHANGED agenda PROVE AgendaKept /\ Later
  <2>1. GoesUp(agenda')
    BY <1>1
  <2> QED
    BY <1>1, <2>1 DEF AgendaKept, Later, GoesUp, HasCall, Coming
<1>2. Idle => Later
  BY DEF Idle, Later, Coming
<1>3. CASE Schedule
  <2>1. /\ GoesUp(agenda)' /\ \A d \in {"pick", "settle"} : HasCall(agenda, d)' => d = "pick"
    BY <1>3, ScheduleTells
  <2>2. Begins("pick") /\ Idle
    BY <1>3 DEF Begins, Schedule
  <2> QED
    BY <1>2, <2>1, <2>2 DEF AgendaKept
<1>4. ASSUME NEW n \in Node, Idle, agenda' = Up(n) PROVE AgendaKept /\ Later
  <2>1. GoesUp(agenda') /\ Inner(agenda')
    BY <1>4, UpGoesUp, InnerWalks
  <2> QED
    BY <1>2, <1>4, <2>1 DEF AgendaKept, GoesUp, HasCall, Inner
<1>6. CASE Pick
  <2>1. PICK n \in RunNode : agenda' = Up(n) \o Tail(agenda)
    BY <1>6 DEF Pick
  <2>2. /\ Next1("pick") /\ n \in Node /\ Up(n) \in Seq(Frame) /\ GoesUp(Up(n)) /\ Inner(Up(n))
    BY <1>6, <2>1, StatPlaces, UpGoesUp, InnerWalks DEF Pick, RunNode
  <2>3. \A g : ~TellsOf(Head(agenda), g)
    BY <2>2 DEF Next1, TellsOf, Stat
  <2>4. /\ GoesUp(agenda)'
        /\ \A d \in {"pick", "settle"} : HasCall(agenda, d)' => HasCall(agenda, d)
        /\ \A g : Coming(agenda, g) => Coming(agenda, g)'
    BY <2>1, <2>2, <2>3, PutInFront DEF Next1
  <2> QED
    BY <2>4 DEF AgendaKept, Later
<1>7. CASE CheckEnd
  <2>1. Next1("pick") /\ Tail(agenda) = <<>>
    BY <1>7, PickIsAlone DEF CheckEnd
  <2>2. Later
    <3>1. agenda \in Seq(Frame) /\ agenda # <<>> /\ \A g : ~TellsOf(Head(agenda), g)
      BY <2>1 DEF TypeOK, Next1, TellsOf, Stat
    <3>2. \A g : ~Coming(<<>>, g)
      BY DEF Coming
    <3> QED
      BY <2>1, <3>1, <3>2, ComingBehind DEF Later
  <2>3. CASE agenda' = Tail(agenda)
    <3>1. agenda' = <<>>
      BY <2>1, <2>3
    <3>2. GoesUp(agenda') /\ \A d : ~HasCall(agenda', d)
      BY <3>1 DEF GoesUp, HasCall
    <3>3. GoesUp(agenda)' /\ \A d : ~HasCall(agenda, d)'
      BY <3>2 DEF GoesUp, HasCall
    <3> QED
      BY <2>2, <3>3 DEF AgendaKept
  <2>4. CASE agenda' = Down(Root) \o << [do |-> "blocked"],
                                        [do |-> "settle", before |-> SchedState] >>
    <3> DEFINE f == [do |-> "blocked"]
               h == [do |-> "settle", before |-> SchedState]
    <3>1. f \in Frame /\ h \in Frame /\ f.do = "blocked" /\ h.do = "settle"
      BY SettleFrames
    <3>2. agenda' = Down(Root) \o <<f, h>>
      BY <2>4
    <3> HIDE DEF f, h
    <3>3. GoesUp(agenda)' /\ \A d \in {"pick", "settle"} : HasCall(agenda, d)' => d = "settle"
      BY <3>1, <3>2, CycleAgenda
    <3>4. Begins("settle")
      BY <1>7, <2>4 DEF Begins
    <3> QED
      BY <2>2, <3>3, <3>4 DEF AgendaKept
  <2> QED
    BY <1>7, <2>3, <2>4 DEF CheckEnd
<1>8. CASE Call
  <2>1. ~RunByHand /\ ~RunRefused
    BY HeadOp DEF RunByHand, RunRefused
  <2>2. CASE UpdateBlocked \/ OpNotAllowed \/ Settle \/ Sibling \/ OpOnRunNode \/ OpOnGroup
               \/ OpOnGroupDone \/ EndOp \/ MarkRunning
    BY <2>2, OperationAgenda, Zenon
  <2> QED
    BY <1>6, <1>7, <1>8, <2>1, <2>2, Zenon DEF Call, OperationStep
<1>9. CASE (Schedule \/ (MayExit /\ StopScheduler) \/ Unblock) /\ UNCHANGED <<goVars, ops>>
  BY <1>1, <1>3, <1>9 DEF StopScheduler, Unblock
<1>10. ASSUME NEW m \in RunNode, ProcStateChanged(m) \/ \E k \in Start : GoStep(m, k)
      PROVE  AgendaKept /\ Later
  <2>1. m \in Node /\ ((Idle /\ agenda' = Up(m)) \/ UNCHANGED agenda)
    BY <1>10 DEF ProcStateChanged, GoStep, Connect, Exit, Connected, TerminalCreated,
                 TerminalFailed, CloseClient, treeVars, RunNode
  <2> QED
    BY <1>1, <1>4, <2>1
<1>11. ASSUME NEW m \in Node, NEW op \in Op, NEW rec \in BOOLEAN,
             NEW keep \in SUBSET (provided \cap MayKeep), UserOp(m, op, rec, keep)
      PROVE  FALSE
  BY <1>11 DEF UserOp
<1>12. CASE UNCHANGED vars
  <2>1. UNCHANGED agenda
    BY <1>12 DEF vars
  <2> QED
    BY <1>1, <2>1
<1> QED
  BY <1>3, <1>8, <1>9, <1>10, <1>11, <1>12, Zenon DEF Next, GoStep

-----------------------------------------------------------------------------
(* What changes in a step.                                                   *)

(* updateStatus gives n the status s; only a new status makes it call others. *)
Updates(n, s) ==
  /\ AtHead(n) /\ s = CalcStatus(n).st /\ SetStatus(n, s)
  /\ \E calls \in Seq(Frame) :
       /\ agenda' = calls \o Tail(agenda) /\ \A i \in DOMAIN calls : calls[i].do = "sibling"
       /\ s = status[n] => calls = <<>>
  /\ BecomesActive(n) \/ Ends(n, s) \/ Keeps(n, s)
  /\ n \notin RunNode /\ held[n] # "Waiting" => s = held[n]

LEMMA UpdateFacts ==
  ASSUME Unattended, HeadlessInv, LockInv, [Next]_vars, UpdateStatus
  PROVE  \E n \in Node, s \in Status \ {"Paused"} : UpdateStep(n) /\ Updates(n, s)
<1>0. TypeOK /\ AgendaOK /\ RunOK /\ AllLive
  BY DEF HeadlessInv, TreeInv
<1>1. PICK n \in Node : UpdateStep(n)
  BY <1>0, UpdateIsCall, UpdateKind
<1>2. PICK s \in Status \ {"Paused"} :
        /\ BecomesActive(n) \/ Ends(n, s) \/ Keeps(n, s)
        /\ n \notin RunNode /\ held[n] # "Waiting" => s = held[n] /\ ~BecomesActive(n)
  BY <1>0, <1>1, UpdateCases
<1> DEFINE new   == CalcStatus(n)
           calls == IF status[n] # new.st /\ ~HasError(status[n]) /\ new.oe /\ OnSiblings[n] # "None"
                       /\ Parent[n] # None
                    THEN SiblingCalls(n) ELSE <<>>
<1>3. /\ Head(agenda).node = n /\ AtHead(n) /\ agenda \in Seq(Frame) /\ agenda # <<>>
      /\ status \in [Node -> Status]
  BY <1>0, <1>1 DEF UpdateStep, AtHead, Stat, TypeOK
<1>4. /\ SetStatus(n, new.st)
      /\ (agenda' = calls \o Tail(agenda)) \/ (~HoldsLocks(status[n]) /\ HoldsLocks(new.st))
  BY <1>3, Zenon DEF UpdateStatus, SetStatus
<1>5. status'[n] = new.st
  BY <1>3, <1>4 DEF SetStatus
<1>6. CASE BecomesActive(n)
  <2>1. status'[n] = "Running" /\ status[n] # "Running" /\ agenda' = Tail(agenda)
    BY <1>3, <1>6 DEF BecomesActive, Pending, Active
  <2>2. <<>> \in Seq(Frame) /\ <<>> \o Tail(agenda) = Tail(agenda) /\ DOMAIN <<>> = {}
    <3> HIDE DEF Frame
    <3> QED
      BY <1>3
  <2>3. \E c \in Seq(Frame) :
          /\ agenda' = c \o Tail(agenda) /\ \A i \in DOMAIN c : c[i].do = "sibling"
          /\ new.st = status[n] => c = <<>>
    BY <2>1, <2>2
  <2>4. "Running" \in Status \ {"Paused"} /\ new.st = "Running"
    BY <1>5, <2>1 DEF Status
  <2> HIDE DEF new
  <2>5. Updates(n, "Running")
    BY <1>2, <1>3, <1>4, <1>6, <2>3, <2>4 DEF Updates, new
  <2> QED
    BY <1>1, <2>4, <2>5
<1>7. CASE ~BecomesActive(n)
  <2>1. s = new.st /\ agenda' = calls \o Tail(agenda)
    <3>1. s = new.st
      BY <1>2, <1>3, <1>5, <1>7 DEF Ends, Keeps
    <3>2. status[n] # "Paused"
      BY DEF LockInv
    <3>3. s = "Running" => status[n] = "Running"
      BY <1>2, <1>7 DEF Ends, Keeps
    <3> HIDE DEF calls, new
    <3> QED
      BY <1>2, <1>4, <3>1, <3>2, <3>3 DEF HoldsLocks
  <2>2. calls \in Seq(Frame) /\ (new.st = status[n] => calls = <<>>)
    <3> HIDE DEF new, Frame
    <3>1. <<>> \in Seq(Frame)
      OBVIOUS
    <3> QED
      BY <3>1, SiblingCallsFree
  <2>3. \A i \in DOMAIN calls : calls[i].do = "sibling"
    <3>1. CASE calls = <<>>
      BY <3>1
    <3>2. CASE calls = SiblingCalls(n)
      BY <3>2 DEF SiblingCalls
    <3> HIDE DEF new
    <3> QED
      BY <3>1, <3>2
  <2> HIDE DEF calls, new
  <2>4. Updates(n, s)
    BY <1>2, <1>3, <1>4, <2>1, <2>2, <2>3 DEF Updates, new
  <2> QED
    BY <1>1, <1>2, <2>4
<1> QED
  BY <1>6, <1>7

LEMMA AfterUpdate ==
  ASSUME TypeOK, GoesUp(agenda), NEW n \in Node, NEW s, Updates(n, s)
  PROVE  AgendaKept /\ \A g : g # n /\ Coming(agenda, g) => Coming(agenda, g)'
<1>1. PICK calls \in Seq(Frame) :
        agenda' = calls \o Tail(agenda) /\ \A i \in DOMAIN calls : calls[i].do = "sibling"
  BY DEF Updates
<1>2. GoesUp(calls) /\ Inner(calls)
  BY <1>1 DEF GoesUp, Inner
<1>3. agenda # <<>> /\ \A g : g # n => ~TellsOf(Head(agenda), g)
  BY DEF Updates, AtHead, TellsOf, Stat
<1>4. /\ GoesUp(agenda)'
      /\ \A d \in {"pick", "settle"} : HasCall(agenda, d)' => HasCall(agenda, d)
      /\ \A g : Coming(agenda, g) /\ (TellsOf(Head(agenda), g) => Coming(calls, g)) =>
                  Coming(agenda, g)'
  BY <1>1, <1>2, <1>3, PutInFront
<1> QED
  BY <1>3, <1>4 DEF AgendaKept

(* Only the update of a node provides something.                             *)
LEMMA ProvidedChange ==
  ASSUME Unattended, TypeOK, AgendaOK, [Next]_vars, ~UpdateStatus PROVE provided' = provided
<1> USE DEF nodeVars
<1>1. CASE Call
  <2>1. CASE EndOp
    BY <2>1, HeadOp DEF EndOp, Unprovides
  <2>2. CASE UpdateBlocked \/ Pick \/ CheckEnd \/ Settle
    BY <2>2 DEF UpdateBlocked, Pick, CheckEnd, Settle
  <2>3. CASE Sibling \/ OpOnRunNode \/ RunByHand \/ MarkRunning \/ RunRefused
             \/ OpOnGroup \/ OpOnGroupDone \/ OpNotAllowed
    BY <2>3 DEF Sibling, PerformOp, OpOnRunNode, RunByHand, MarkRunning, RunRefused,
                OpOnGroup, OpOnGroupDone, OpNotAllowed
  <2> QED
    BY <1>1, <2>1, <2>2, <2>3, Zenon DEF Call, OperationStep
<1>2. CASE (Schedule \/ (MayExit /\ StopScheduler) \/ Unblock) /\ UNCHANGED <<goVars, ops>>
  BY <1>2 DEF Schedule, StopScheduler, Unblock
<1>3. ASSUME NEW n \in RunNode, ProcStateChanged(n) \/ \E k \in Start : GoStep(n, k)
      PROVE  UNCHANGED provided
  BY <1>3 DEF ProcStateChanged, GoStep, Connect, Exit, Connected, TerminalCreated,
              TerminalFailed, CloseClient, treeVars
<1>4. ASSUME NEW n \in Node, NEW op \in Op, NEW rec \in BOOLEAN,
             NEW keep \in SUBSET (provided \cap MayKeep), UserOp(n, op, rec, keep)
      PROVE  FALSE
  BY <1>4 DEF UserOp
<1>5. CASE UNCHANGED vars
  BY <1>5 DEF vars
<1> QED
  BY <1>1, <1>2, <1>3, <1>4, <1>5, Zenon DEF Next, GoStep

(* Only on_error skips a group as a whole, and only one that waits.          *)
Skips(n) ==
  held' = [held EXCEPT ![n] = "Skipped"] /\ status[n] \in {"Waiting", "Frozen"} /\ UNCHANGED status

LEMMA HeldChange ==
  ASSUME Unattended, TypeOK, AgendaOK, LockInv, [Next]_vars
  PROVE  held' = held \/ \E n \in Node \ RunNode : Skips(n)
<1> USE DEF nodeVars
<1>1. CASE Call
  <2>1. CASE OpOnGroup
    <3> DEFINE f    == Head(agenda)
               n    == f.node
               skip == f.op = "Skip" /\ status[n] \in {"Waiting", "Frozen"}
    <3>1. n \in Node /\ f.op \in {"Skip", "Freeze"} /\ status[n] # "Paused"
      BY <2>1, BehindOp DEF OpOnGroup, LockInv
    <3>2. Kind[n] # "run" /\ UNCHANGED status /\ held' = [held EXCEPT ![n] = IF skip THEN "Skipped" ELSE @]
      BY <2>1, <3>1 DEF OpOnGroup
    <3>3. CASE skip
      BY <3>1, <3>2, <3>3 DEF Skips, RunNode
    <3>4. CASE ~skip
      BY <3>1, <3>2, <3>4 DEF TypeOK
    <3> QED
      BY <3>3, <3>4
  <2>2. CASE UpdateStatus \/ UpdateBlocked \/ Pick \/ CheckEnd \/ Settle
    BY <2>2 DEF UpdateStatus, SetStatus, UpdateBlocked, Pick, CheckEnd, Settle
  <2>3. CASE Sibling \/ OpOnRunNode \/ RunByHand \/ MarkRunning \/ RunRefused \/ EndOp
             \/ OpOnGroupDone \/ OpNotAllowed
    BY <2>3 DEF Sibling, PerformOp, OpOnRunNode, RunByHand, MarkRunning, RunRefused, EndOp,
                OpOnGroupDone, OpNotAllowed
  <2> QED
    BY <1>1, <2>1, <2>2, <2>3, Zenon DEF Call, OperationStep
<1>2. CASE (Schedule \/ (MayExit /\ StopScheduler) \/ Unblock) /\ UNCHANGED <<goVars, ops>>
  BY <1>2 DEF Schedule, StopScheduler, Unblock
<1>3. ASSUME NEW n \in RunNode, ProcStateChanged(n) \/ \E k \in Start : GoStep(n, k)
      PROVE  UNCHANGED held
  BY <1>3 DEF ProcStateChanged, GoStep, Connect, Exit, Connected, TerminalCreated,
              TerminalFailed, CloseClient, treeVars
<1>4. ASSUME NEW n \in Node, NEW op \in Op, NEW rec \in BOOLEAN,
             NEW keep \in SUBSET (provided \cap MayKeep), UserOp(n, op, rec, keep)
      PROVE  FALSE
  BY <1>4 DEF UserOp
<1>5. CASE UNCHANGED vars
  BY <1>5 DEF vars
<1> QED
  BY <1>1, <1>2, <1>3, <1>4, <1>5, Zenon DEF Next, GoStep

-----------------------------------------------------------------------------
(* The run nodes.                                                            *)

LEMMA StartsStay ==
  ASSUME TypeOK, AgendaOK, RunOK, [Next]_vars, NEW n \in RunNode
  PROVE  starts'[n] = starts[n] \/ (BeginStep(n) /\ starts[n] \in Nat /\ starts'[n] = starts[n] + 1)
<1>1. CASE Same(n)
  BY <1>1 DEF Same
<1>2. CASE BeginStep(n)
  BY <1>2, BeginFacts
<1>3. CASE Concerns(n) /\ ~BeginStep(n)
  BY <1>3 DEF Concerns, UpdateStep, SetStatus, MarkStep, DecideStep, ProcStateChanged, Connected,
              TerminalFailed, CloseClient, treeVars, startVars
<1> QED
  BY <1>1, <1>2, <1>3, StepOfNode

LEMMA UnstartedNext ==
  ASSUME Unattended, HeadlessInv, LockInv, [Next]_vars, NEW n \in RunNode, UnstartedOK(n)
  PROVE  UnstartedOK(n)'
<1>0. /\ TypeOK /\ AgendaOK /\ RunOK /\ AllLive /\ n \in Node
      /\ StartShows(n) /\ ManualOK(n) /\ ProcsOK(n) /\ status[n] # "Paused"
  BY DEF HeadlessInv, TreeInv, RunOK, LockInv, RunNode
<1>1. CASE Same(n)
  BY <1>1 DEF Same, UnstartedOK
<1>2. CASE UpdateStep(n)
  <2>1. /\ UNCHANGED <<manual, startVars>> /\ status'[n] = CalcRunStatus(n).st
        /\ want'[n] = (want[n] /\ status'[n] \in {"Success", "Failed", "Waiting"})
    BY <1>0, <1>2, UpdateOfRunNode
  <2>2. OnErrorStatus(n) \in {"Success", "Failed"}
    BY <1>0, OnErrorAssumption DEF OnErrorStatus
  <2>3. want[n] => status'[n] \in {"Running", "Skipped", "Frozen"}
    BY <2>1 DEF UnstartedOK, CalcRunStatus, Plain
  <2>4. starting[n] => status'[n] = "Running"
    BY <1>0, <2>1 DEF ManualOK, CalcRunStatus, Plain
  <2>5. status'[n] \in {"Waiting", "Frozen"} => ~startErr[n] /\ client[n] = 0
    BY <1>0, <2>1, <2>2 DEF UnstartedOK, CalcRunStatus, ErrorStatus, Plain, Stays
  <2> QED
    BY <2>1, <2>3, <2>4, <2>5 DEF UnstartedOK, startVars
<1>3. CASE BeginStep(n)
  <2>1. status[n] = "Waiting"
    BY <1>3 DEF BeginStep, Runnable
  <2> QED
    BY <1>0, <1>3, <2>1, BeginFacts DEF UnstartedOK
<1>4. CASE MarkStep(n)
  <2>1. /\ UNCHANGED <<status, startVars>> /\ AtHead(n)' /\ manual'[n] = "Running"
    BY <1>0, <1>4 DEF MarkStep, TypeOK
  <2> QED
    BY <2>1 DEF UnstartedOK, startVars
<1>5. ASSUME NEW s \in Status, DecideStep(n, s) PROVE UnstartedOK(n)'
  <2>1. /\ UNCHANGED <<status, starting, starts, client>> /\ AtHead(n)' /\ manual'[n] = s
        /\ s \in {"Skipped", "Frozen"} /\ status[n] \in {"Waiting", "Frozen"}
        /\ startErr'[n] => startErr[n]
    BY <1>0, <1>5 DEF DecideStep, TypeOK
  <2> QED
    BY <2>1 DEF UnstartedOK
<1>6. CASE ProcStateChanged(n)
  BY <1>6 DEF ProcStateChanged, UnstartedOK, nodeVars, startVars, Idle, AtHead
<1>7. ASSUME NEW k \in Start, Connected(n, k) PROVE UnstartedOK(n)'
  <2>1. /\ UNCHANGED <<status, want>> /\ Idle /\ <<n, k>> \in conns /\ ~starting'[n]
    BY <1>0, <1>7 DEF Connected, nodeVars, TypeOK
  <2>2. ~AtHead(n) /\ starting[n]
    BY <1>0, <2>1 DEF Idle, AtHead, ProcsOK
  <2>3. status[n] = "Running" /\ ~want[n]
    BY <1>0, <2>2 DEF StartShows, UnstartedOK
  <2> QED
    BY <2>1, <2>3 DEF UnstartedOK
<1>8. ASSUME NEW k \in Start PROVE ~TerminalFailed(n, k) /\ ~CloseClient(n, k)
  BY <1>0 DEF AllLive, TerminalFailed, CloseClient
<1> QED
  BY <1>0, <1>1, <1>2, <1>3, <1>4, <1>5, <1>6, <1>7, <1>8, StepOfNode DEF Concerns

LEMMA RunFinished ==
  ASSUME Terminals = {}, HeadlessInv, [Next]_vars, NEW n \in RunNode, UnstartedOK(n),
         Finished(status[n])
  PROVE  status'[n] = status[n]
<1>1. ManualOK(n)
  BY DEF HeadlessInv, TreeInv, RunOK
<1>2. ~starting[n] /\ ~want[n]
  BY <1>1 DEF UnstartedOK, ManualOK, Finished
<1> QED
  BY <1>2, FinishedStep DEF HeadlessInv

LEMMA RunFails ==
  ASSUME Unattended, Terminals = {}, HeadlessInv, LockInv, [Next]_vars, NEW n \in RunNode,
         UnstartedOK(n), UpdateStep(n), status'[n] = "Failed", status[n] # "Failed"
  PROVE  status[n] = "Running"
<1>1. TypeOK /\ n \in Node /\ ManualOK(n) /\ status[n] # "Paused" /\ status[n] \in Status
  BY DEF HeadlessInv, TreeInv, RunOK, LockInv, RunNode, TypeOK
<1>2. status'[n] = CalcRunStatus(n).st
  BY <1>1, UpdateOfRunNode
<1>3. ~Finished(status[n])
  BY RunFinished
<1>4. ~want[n] /\ ~Stays(n) /\ (startErr[n] \/ client[n] # 0)
  BY <1>1, <1>2 DEF UnstartedOK, ManualOK, CalcRunStatus, Plain, Stays
<1>5. status[n] \notin {"Waiting", "Frozen"}
  BY <1>4 DEF UnstartedOK
<1> QED
  BY <1>1, <1>3, <1>5 DEF Status, Finished

-----------------------------------------------------------------------------
(* The order in the seq nodes.                                               *)

LEMMA InFrontOf ==
  ASSUME NEW p \in Node, Kind[p] = "seq", NEW i \in DOMAIN Kids[p], NEW j \in DOMAIN Kids[p], i < j,
         NEW m \in RunNode, Kids[p][j] \in Above(m)
  PROVE  InFront(Kids[p][i], m)
<1>1. m \in Node /\ Kids[p][j] \in Children(p) /\ m # p
  BY DEF RunNode, Children
<1>2. p \in Ancestors(m)
  BY <1>1, ChildBelow, AboveAbove DEF Ancestors
<1> QED
  BY <1>2 DEF InFront

(* A sub-node that started has only nodes in front that succeeded.           *)
LEMMA FrontClear ==
  ASSUME \A m \in RunNode : StartedOK(m),
         NEW p \in Node, Kind[p] = "seq", NEW i \in DOMAIN Kids[p], NEW j \in DOMAIN Kids[p], i < j,
         HasStarted(Kids[p][j])
  PROVE  Provider(status[Kids[p][i]])
<1>1. PICK m \in RunNode : Kids[p][j] \in Above(m) /\ starts[m] # 0
  BY DEF HasStarted
<1>2. InFront(Kids[p][i], m) /\ Kids[p][i] \in Node
  BY <1>1, InFrontOf, NodeAssumption
<1> QED
  BY <1>1, <1>2 DEF StartedOK, Clear

(* Nothing runs in a seq node that has a failed sub-node.                    *)
LEMMA SeqQuiet ==
  ASSUME OrderInv, NEW g \in Node, Kind[g] = "seq", ChildFailed(g) PROVE ~HasActive(g)
<1> SUFFICES ASSUME HasActive(g) PROVE FALSE
  OBVIOUS
<1>1. PICK i \in DOMAIN Kids[g] : status[Kids[g][i]] = "Failed"
  BY DEF ChildFailed, HasError, Children
<1>2. PICK j \in DOMAIN Kids[g] : status[Kids[g][j]] = "Running"
  BY DEF HasActive, Active, Children
<1>3. /\ Kids[g][i] \in Node /\ Kids[g][j] \in Node /\ (i < j \/ j < i)
  <2>1. Kids[g] \in Seq(Node) /\ i # j
    BY <1>1, <1>2, NodeAssumption
  <2>2. i \in 1..Len(Kids[g]) /\ j \in 1..Len(Kids[g]) /\ Len(Kids[g]) \in Nat
    BY <2>1
  <2> QED
    BY <2>1, <2>2
<1>4. HasStarted(Kids[g][i]) /\ HasStarted(Kids[g][j]) /\ \A m \in RunNode : StartedOK(m)
  BY <1>1, <1>2, <1>3 DEF OrderInv
<1>5. CASE i < j
  BY <1>1, <1>4, <1>5, FrontClear DEF Provider, HasError
<1>6. CASE j < i
  BY <1>2, <1>4, <1>6, FrontClear DEF Provider, Finished
<1> QED
  BY <1>3, <1>5, <1>6

-----------------------------------------------------------------------------
(* The groups.                                                               *)

Ordered == Unattended /\ Terminals = {} /\ HeadlessInv /\ LockInv /\ OrderInv

(* calcStatus of a group about which nobody decides.                         *)
LEMMA GroupCalc ==
  ASSUME Ordered, NEW g \in Node \ RunNode
  PROVE  LET open == {c \in Children(g) : ~Finished(status[c])}
             s    == CalcStatus(g).st
         IN  /\ OnErrorStatus(g) \in {"Success", "Failed"} /\ ~want[g]
             /\ held[g] \in {"Waiting", "Frozen", "Skipped"}
             /\ held[g] # "Waiting" => s = held[g]
             /\ held[g] = "Waiting" =>
                  s = IF SeqFailed(g) THEN OnErrorStatus(g)
                      ELSE IF (status[g] = "Running" /\ open # {}) \/ HasActive(g) THEN "Running"
                      ELSE IF ChildFailed(g) THEN OnErrorStatus(g)
                      ELSE IF open = {} THEN "Success"
                      ELSE IF \A c \in open : status[c] = "Frozen" THEN "Frozen" ELSE "Waiting"
<1>1. OnErrorStatus(g) \in {"Success", "Failed"}
  BY OnErrorAssumption DEF OnErrorStatus, Ordered
<1>2. ~want[g] /\ held[g] \in {"Waiting", "Frozen", "Skipped"}
  BY DEF Ordered, LockInv, HeldOK, HeadlessInv, TreeInv, TypeOK
<1>3. CalcStatus(g) = CalcParSeqStatus(g)
  BY DEF CalcStatus, RunNode
<1> QED
  BY <1>1, <1>2, <1>3 DEF CalcParSeqStatus, Plain

(* A finished group shows what its sub-nodes, or on_error, make of it.        *)
LEMMA DoneCalc ==
  ASSUME Ordered, NEW g \in Node \ RunNode, Finished(status[g])
  PROVE  CalcStatus(g).st = status[g]
<1>1. GroupDone(g)
  BY DEF Ordered, OrderInv
<1>2. CASE held[g] # "Waiting"
  <2>1. held[g] = "Skipped" /\ status[g] = "Skipped"
    BY <1>1, <1>2 DEF GroupDone
  <2> QED
    BY <1>2, <2>1, GroupCalc
<1>3. CASE held[g] = "Waiting"
  <2>1. status[g] = IF ChildFailed(g) THEN OnErrorStatus(g) ELSE "Success"
    BY <1>1, <1>3 DEF GroupDone
  <2>2. CASE AllFinished(g)
    <3>1. ~HasActive(g) /\ {c \in Children(g) : ~Finished(status[c])} = {}
      BY <2>2 DEF AllFinished, HasActive, Active, Finished
    <3>2. SeqFailed(g) => ChildFailed(g)
      BY DEF SeqFailed
    <3> QED
      BY <1>3, <2>1, <3>1, <3>2, GroupCalc
  <2>3. CASE Kind[g] = "seq" /\ ChildFailed(g)
    <3>1. SeqFailed(g)
      BY <2>3, SeqQuiet DEF SeqFailed, Ordered
    <3> QED
      BY <1>3, <2>1, <2>3, <3>1, GroupCalc
  <2> QED
    BY <1>1, <1>3, <2>2, <2>3 DEF GroupDone
<1> QED
  BY <1>2, <1>3

LEMMA FinishedStay ==
  ASSUME Ordered, [Next]_vars, NEW n \in Node, Finished(status[n]) PROVE status'[n] = status[n]
<1>1. CASE n \in RunNode
  BY <1>1, RunFinished DEF Ordered, OrderInv
<1>2. CASE n \notin RunNode
  <2>1. CASE UpdateStatus
    <3>1. PICK m \in Node, s \in Status \ {"Paused"} : Updates(m, s)
      BY <2>1, UpdateFacts DEF Ordered
    <3>2. status' = [status EXCEPT ![m] = s] /\ s = CalcStatus(m).st /\ status \in [Node -> Status]
      BY <3>1 DEF Updates, SetStatus, Ordered, HeadlessInv, TreeInv, TypeOK
    <3> QED
      BY <1>2, <3>2, DoneCalc
  <2>2. CASE ~UpdateStatus
    BY <2>2, StatusChange
  <2> QED
    BY <2>1, <2>2
<1> QED
  BY <1>1, <1>2

(* What is updated to have failed was running.                               *)
LEMMA FailsFromRunning ==
  ASSUME Ordered, [Next]_vars, NEW n \in Node, NEW s \in Status, UpdateStep(n), Updates(n, s),
         s = "Failed", status[n] # "Failed"
  PROVE  status[n] = "Running"
<1>0. status'[n] = s /\ s = CalcStatus(n).st
  BY DEF Updates, SetStatus, Ordered, HeadlessInv, TreeInv, TypeOK
<1>1. CASE n \in RunNode
  BY <1>0, <1>1, RunFails DEF Ordered, OrderInv
<1>2. CASE n \notin RunNode
  <2>1. ChildFailed(n)
    BY <1>0, <1>2, GroupCalc DEF SeqFailed
  <2>2. Active(status[n]) \/ Finished(status[n])
    BY <1>2, <2>1 DEF Ordered, OrderInv, GroupDone
  <2>3. ~Finished(status[n])
    BY <1>0, FinishedStay
  <2> QED
    BY <2>2, <2>3 DEF Active
<1> QED
  BY <1>1, <1>2

(* While a running node is updated, all nodes above it run.                   *)
LEMMA AboveRunning ==
  ASSUME Ordered, NEW n \in Node, AtHead(n), status[n] = "Running", NEW a \in Above(n)
  PROVE  status[a] = "Running"
<1>1. TypeOK /\ LockInv
  BY DEF Ordered, HeadlessInv, TreeInv
<1>2. \A p \in Node : ~Pending(p)
  BY <1>1, OnlyHeadPending DEF Pending, Active
<1> QED
  BY <1>1, <1>2, ActiveAbove

LEMMA GroupDoneNext ==
  ASSUME Ordered, [Next]_vars, NEW g \in Node \ RunNode PROVE GroupDone(g)'
<1>0. /\ g \in Node /\ g \notin RunNode /\ GroupDone(g) /\ TypeOK /\ AgendaOK /\ LockInv /\ Unattended
      /\ OnErrorStatus(g) \in {"Success", "Failed"} /\ OnErrorStatus(g)' = OnErrorStatus(g)
      /\ status \in [Node -> Status] /\ held \in [Node -> {"Waiting", "Frozen", "Skipped"}]
  <2>1. OnErrorStatus(g) \in {"Success", "Failed"} /\ OnErrorStatus(g)' = OnErrorStatus(g)
    BY OnErrorAssumption DEF OnErrorStatus, Ordered
  <2> QED
    BY <2>1 DEF Ordered, OrderInv, HeadlessInv, TreeInv, TypeOK
<1>1. CASE ~UpdateStatus
  <2>1. UNCHANGED status
    BY <1>1, StatusChange
  <2>2. /\ ChildFailed(g)' = ChildFailed(g) /\ AllFinished(g)' = AllFinished(g)
    BY <2>1 DEF ChildFailed, AllFinished
  <2>3. CASE held'[g] = held[g]
    BY <1>0, <2>1, <2>2, <2>3 DEF GroupDone
  <2>4. CASE held'[g] # held[g]
    <3>1. held'[g] = "Skipped" /\ status[g] \in {"Waiting", "Frozen"}
      <4>1. PICK m \in Node \ RunNode : Skips(m)
        BY <1>0, <2>4, HeldChange
      <4> QED
        BY <1>0, <2>4, <4>1 DEF Skips
    <3> QED
      BY <1>0, <2>1, <2>2, <3>1 DEF GroupDone, Active, Finished
  <2> QED
    BY <2>3, <2>4
<1>2. CASE UpdateStatus
  <2>1. PICK n \in Node, s \in Status \ {"Paused"} : UpdateStep(n) /\ Updates(n, s)
    BY <1>2, UpdateFacts DEF Ordered
  <2>2. /\ status' = [status EXCEPT ![n] = s] /\ s = CalcStatus(n).st /\ held' = held /\ AtHead(n)
        /\ n \notin RunNode /\ held[n] # "Waiting" => s = held[n]
    BY <2>1 DEF Updates, SetStatus
  <2>3. \A c \in Children(g) : c \in Node /\ c # g /\ g \in Above(c)
    BY <1>0, ChildBelow
  <2>4. \A c \in Node : Finished(status[c]) => status'[c] = status[c]
    BY FinishedStay
  <2>5. ASSUME n # g, ChildFailed(g)' PROVE ChildFailed(g) \/ status[g] = "Running"
    <3>1. PICK c \in Children(g) : status'[c] = "Failed"
      BY <2>5 DEF ChildFailed, HasError
    <3>2. CASE status[c] = "Failed"
      BY <3>2 DEF ChildFailed, HasError
    <3>3. CASE status[c] # "Failed"
      <4>1. c = n /\ s = "Failed"
        BY <1>0, <2>2, <2>3, <3>1, <3>3
      <4>2. status[n] = "Running"
        BY <2>1, <3>3, <4>1, FailsFromRunning
      <4> QED
        BY <2>2, <2>3, <3>1, <4>1, <4>2, AboveRunning
    <3> QED
      BY <3>2, <3>3
  <2>6. CASE n # g
    <3>1. status'[g] = status[g]
      BY <1>0, <2>2, <2>6
    <3>2. AllFinished(g) => AllFinished(g)' /\ ChildFailed(g)' = ChildFailed(g)
      BY <2>3, <2>4 DEF AllFinished, ChildFailed
    <3>3. ChildFailed(g) => ChildFailed(g)'
      BY <2>3, <2>4 DEF ChildFailed, HasError, Finished
    <3> QED
      BY <1>0, <2>2, <2>5, <2>6, <3>1, <3>2, <3>3 DEF GroupDone, Active
  <2>7. CASE n = g
    <3>1. /\ \A c \in Children(g) : status'[c] = status[c]
          /\ status'[g] = s /\ held'[g] = held[g]
      BY <1>0, <2>2, <2>3, <2>7
    <3>2. ChildFailed(g)' = ChildFailed(g) /\ AllFinished(g)' = AllFinished(g)
      BY <3>1 DEF ChildFailed, AllFinished
    <3>3. CASE held[g] # "Waiting"
      <4>1. s = held[g] /\ held[g] \in {"Frozen", "Skipped"}
        BY <1>0, <2>2, <2>7, <3>3
      <4> QED
        BY <1>0, <3>1, <3>2, <4>1 DEF GroupDone, Active, Finished
    <3>4. CASE held[g] = "Waiting"
      <4> DEFINE open == {c \in Children(g) : ~Finished(status[c])}
      <4>1. s = IF SeqFailed(g) THEN OnErrorStatus(g)
                ELSE IF (status[g] = "Running" /\ open # {}) \/ HasActive(g) THEN "Running"
                ELSE IF ChildFailed(g) THEN OnErrorStatus(g)
                ELSE IF open = {} THEN "Success"
                ELSE IF \A c \in open : status[c] = "Frozen" THEN "Frozen" ELSE "Waiting"
        BY <2>2, <2>7, <3>4, GroupCalc
      <4>2. open = {} <=> AllFinished(g)
        BY DEF AllFinished
      <4>3. SeqFailed(g) => Kind[g] = "seq" /\ ChildFailed(g)
        BY DEF SeqFailed
      <4>4. ASSUME ChildFailed(g), ~SeqFailed(g), ~HasActive(g), ~(status[g] = "Running" /\ open # {})
            PROVE  open = {}
        <5>1. Kind[g] # "seq"
          BY <4>4 DEF SeqFailed
        <5>2. open # {} => Finished(status[g])
          BY <1>0, <4>4 DEF GroupDone, Active
        <5> QED
          BY <1>0, <3>4, <4>2, <5>1, <5>2 DEF GroupDone
      <4> HIDE DEF open
      <4>5. ChildFailed(g) => Active(s) \/ Finished(s)
        BY <1>0, <4>1 DEF Active, Finished
      <4>6. Finished(s) => /\ AllFinished(g) \/ (Kind[g] = "seq" /\ ChildFailed(g))
                           /\ s = IF ChildFailed(g) THEN OnErrorStatus(g) ELSE "Success"
        BY <1>0, <4>1, <4>2, <4>3, <4>4 DEF Finished
      <4> QED
        BY <1>0, <3>1, <3>2, <3>4, <4>5, <4>6 DEF GroupDone
    <3> QED
      BY <3>3, <3>4
  <2> QED
    BY <2>6, <2>7
<1> QED
  BY <1>1, <1>2

LEMMA ClearNext ==
  ASSUME Ordered, [Next]_vars, NEW m \in RunNode PROVE StartedOK(m)'
<1>0. /\ TypeOK /\ AgendaOK /\ RunOK /\ Unattended /\ StartedOK(m) /\ m \in Node
      /\ \A c \in Node : Provider(status[c]) => status'[c] = status[c]
  <2>1. TypeOK /\ AgendaOK /\ RunOK /\ Unattended /\ StartedOK(m) /\ m \in Node
    BY DEF Ordered, OrderInv, HeadlessInv, TreeInv, RunNode
  <2>2. \A c \in Node : Provider(status[c]) => status'[c] = status[c]
    BY FinishedStay DEF Provider
  <2> QED
    BY <2>1, <2>2
<1>1. CASE starts[m] # 0
  BY <1>0, <1>1 DEF StartedOK, Clear
<1>2. CASE starts'[m] = starts[m]
  BY <1>0, <1>1, <1>2 DEF StartedOK
<1>3. CASE BeginStep(m)
  <2>1. Next1("pick") /\ InTurn(m) /\ (\A a \in Above(m) : ~Holds(a)) /\ UNCHANGED status
    BY <1>0, <1>3 DEF BeginStep, Runnable, Reaches
  <2>2. ASSUME NEW c \in Node, InFront(c, m), status[c] = "Failed" PROVE FALSE
    <3>1. PICK p \in Ancestors(m) : /\ Kind[p] = "seq"
                                    /\ \E i, j \in DOMAIN Kids[p] : i < j /\ Kids[p][i] = c
      BY <2>2 DEF InFront
    <3>2. p \in Above(m) /\ p \in Node /\ p \notin RunNode
      BY <1>0, <3>1, WalkType DEF Ancestors, RunNode
    <3>3. ChildFailed(p) /\ SeqFailed(p)
      <4>1. ChildFailed(p)
        BY <2>2, <3>1 DEF ChildFailed, HasError, Children
      <4> QED
        BY <3>1, <3>2, <4>1, SeqQuiet DEF SeqFailed, Ordered
    <3>4. UpToDate(p)
      <4>1. HasCall(agenda, "pick") /\ agenda \in Seq(Frame) /\ agenda # <<>>
        BY <1>0, <2>1 DEF HasCall, Next1, TypeOK
      <4>2. ~Coming(agenda, p)
        <5>1. Tail(agenda) = <<>> /\ ~TellsOf(Head(agenda), p)
          BY <1>0, <2>1, PickIsAlone DEF Next1, TellsOf, Stat
        <5>2. ~Coming(<<>>, p)
          BY DEF Coming
        <5> QED
          BY <4>1, <5>1, <5>2, ComingBehind
      <4> QED
        BY <3>2, <4>1, <4>2 DEF Ordered, OrderInv, CycleOK
    <3>5. CalcStatus(p).st \in {"Frozen", "Skipped", "Success", "Failed"}
      BY <3>2, <3>3, GroupCalc
    <3> QED
      BY <2>1, <3>2, <3>4, <3>5 DEF UpToDate, Holds, Finished
  <2>3. \A c \in Node : InFront(c, m) => Provider(status[c])
    BY <2>1, <2>2 DEF InTurn, Provider, HasError
  <2> QED
    BY <2>1, <2>3 DEF StartedOK, Clear
<1> QED
  BY <1>0, <1>2, <1>3, StartsStay

LEMMA HasStartedNext ==
  ASSUME Ordered, [Next]_vars, NEW n \in Node, status'[n] \in {"Running", "Failed"}
  PROVE  HasStarted(n)'
<1>0. /\ TypeOK /\ AgendaOK /\ RunOK /\ AllLive /\ LockInv /\ Unattended
  BY DEF Ordered, HeadlessInv, TreeInv
<1>1. HasStarted(n) => HasStarted(n)'
  BY <1>0, StartsStay DEF HasStarted
<1> SUFFICES ASSUME status'[n] # status[n] PROVE HasStarted(n)
  BY <1>1 DEF Ordered, OrderInv
<1>2. UpdateStatus
  BY StatusChange
<1>3. PICK m \in Node, s \in Status \ {"Paused"} : UpdateStep(m) /\ Updates(m, s)
  BY <1>2, UpdateFacts DEF Ordered
<1>4. status' = [status EXCEPT ![m] = s]
  BY <1>3 DEF Updates, SetStatus
<1>5. m = n /\ s \in {"Running", "Failed"} /\ status[n] # s
  BY <1>0, <1>4 DEF TypeOK
<1>6. CASE s = "Failed"
  <2>1. status[n] = "Running"
    BY <1>3, <1>5, <1>6, FailsFromRunning
  <2> QED
    BY <2>1 DEF Ordered, OrderInv
<1>7. CASE s = "Running"
  <2>1. Pending(n)
    BY <1>3, <1>5, <1>7 DEF Updates, BecomesActive, Ends, Keeps
  <2>2. CASE HasActive(n)
    <3>1. PICK c \in Children(n) : status[c] = "Running"
      BY <2>2 DEF HasActive, Active
    <3>2. c \in Node /\ n \in Above(c)
      BY <3>1, ChildBelow
    <3>3. PICK k \in RunNode : c \in Above(k) /\ starts[k] # 0
      BY <3>1, <3>2 DEF Ordered, OrderInv, HasStarted
    <3> QED
      BY <3>2, <3>3, AboveAbove DEF HasStarted, RunNode
  <2>3. CASE n \in RunNode /\ starting[n]
    <3>1. starts[n] # 0 /\ n \in Above(n)
      BY <2>3, WalkType DEF Ordered, OrderInv, UnstartedOK
    <3> QED
      BY <2>3, <3>1 DEF HasStarted
  <2> QED
    BY <2>1, <2>2, <2>3 DEF Pending
<1> QED
  BY <1>5, <1>6, <1>7

LEMMA ProvidedNext == ASSUME Ordered, [Next]_vars PROVE Backed' /\ Complete'
<1>0. /\ TypeOK /\ AgendaOK /\ Unattended /\ Backed /\ Complete
      /\ \A n \in Node : Finished(status[n]) => status'[n] = status[n]
  BY FinishedStay DEF Ordered, OrderInv, HeadlessInv, TreeInv
<1>1. CASE UpdateStatus
  <2>1. PICK n \in Node, s \in Status \ {"Paused"} : Updates(n, s)
    BY <1>1, UpdateFacts DEF Ordered
  <2>2. /\ status' = [status EXCEPT ![n] = s]
        /\ provided' = provided \cup IF NowProvides(n, s) THEN Provides[n] ELSE {}
    BY <2>1 DEF Updates, SetStatus
  <2>3. \A m \in Node : status'[m] = IF m = n THEN s ELSE status[m]
    BY <1>0, <2>2 DEF TypeOK
  <2>4. \A m \in Node : m \in ProviderNodes' <=> m \in ProviderNodes \/ (m = n /\ NowProvides(n, s))
    BY <1>0, <2>3 DEF ProviderNodes, NowProvides, Provider
  <2>5. ProviderNodes \subseteq Node /\ ProviderNodes' \subseteq Node
    BY DEF ProviderNodes
  <2>6. Backed'
    BY <1>0, <2>2, <2>4, <2>5 DEF Backed
  <2>7. Complete'
    BY <1>0, <2>2, <2>4, <2>5 DEF Complete
  <2> QED
    BY <2>6, <2>7
<1>2. CASE ~UpdateStatus
  <2>1. UNCHANGED <<status, provided>>
    BY <1>0, <1>2, StatusChange, ProvidedChange
  <2> QED
    BY <1>0, <2>1 DEF Backed, Complete, ProviderNodes
<1> QED
  BY <1>1, <1>2

(* At the pick of a cycle, every group shows what its sub-nodes make of it.   *)
LEMMA CycleNext ==
  ASSUME Ordered, LockInv', [Next]_vars, NEW g \in Node \ RunNode PROVE CycleOK(g)'
<1>0. /\ TypeOK /\ AgendaOK /\ LockInv /\ Unattended /\ CycleOK(g) /\ GoesUp(agenda)
      /\ HeldOK(g) /\ HeldOK(g)' /\ g \in Node /\ g \notin RunNode
      /\ OnErrorStatus(g)' = OnErrorStatus(g)
  <2>1. OnErrorStatus(g)' = OnErrorStatus(g)
    BY DEF OnErrorStatus
  <2> QED
    BY <2>1 DEF Ordered, OrderInv, HeadlessInv, TreeInv, LockInv
<1>1. ASSUME HasCall(agenda, "pick") => UpToDate(g)' \/ Coming(agenda, g)',
             HasCall(agenda, "pick")' => HasCall(agenda, "pick")
      PROVE  CycleOK(g)'
  BY <1>1 DEF CycleOK
<1>2. CASE held'[g] # "Waiting"
  <2>1. CASE status'[g] = held'[g]
    <3>1. CalcStatus(g)'.st = held'[g]
      BY <1>0, <1>2 DEF HeldOK, CalcStatus, CalcParSeqStatus, Plain, RunNode
    <3> QED
      BY <2>1, <3>1 DEF CycleOK, UpToDate
  <2>2. CASE Coming(agenda, g)'
    BY <2>2 DEF CycleOK
  <2> QED
    BY <1>0, <1>2, <2>1, <2>2 DEF HeldOK
<1>3. ASSUME held'[g] = held[g], status'[g] = status[g],
             \A c \in Children(g) : status'[c] = status[c], UpToDate(g)
      PROVE  UpToDate(g)'
  <2>1. HasActive(g)' = HasActive(g) /\ ChildFailed(g)' = ChildFailed(g)
    BY <1>3 DEF HasActive, ChildFailed
  <2>2. SeqFailed(g)' = SeqFailed(g)
    BY <2>1 DEF SeqFailed
  <2>3. {c \in Children(g) : ~Finished(status[c])}' = {c \in Children(g) : ~Finished(status[c])}
    BY <1>3
  <2>4. \A c \in {d \in Children(g) : ~Finished(status[d])} : status'[c] = status[c]
    BY <1>3
  <2>5. want'[g] = FALSE /\ want[g] = FALSE
    <3>1. want'[g] \in BOOLEAN /\ want[g] \in BOOLEAN
      BY <1>0, NextTypeOK DEF TypeOK
    <3> QED
      BY <1>0, <3>1 DEF HeldOK
  <2>6. CalcParSeqStatus(g)' = CalcParSeqStatus(g)
    BY <1>0, <1>3, <2>1, <2>2, <2>3, <2>4, <2>5 DEF CalcParSeqStatus, Plain
  <2> QED
    BY <1>0, <1>3, <2>6 DEF UpToDate, CalcStatus, RunNode
<1>4. CASE held'[g] = "Waiting" /\ ~UpdateStatus
  <2>1. status' = status /\ AgendaKept /\ Later
    BY <1>0, <1>4, StatusChange, OtherAgenda
  <2>2. held'[g] = held[g]
    <3>1. CASE \E m \in Node \ RunNode : Skips(m)
      BY <1>0, <1>4, <3>1 DEF Skips, TypeOK
    <3> QED
      BY <1>0, <3>1, HeldChange
  <2>3. CASE Schedule
    BY <1>0, <2>3, ScheduleTells DEF CycleOK
  <2>4. CASE ~Schedule
    <3>1. HasCall(agenda, "pick")' => HasCall(agenda, "pick")
      BY <2>1, <2>4 DEF AgendaKept, Begins
    <3>2. HasCall(agenda, "pick") => UpToDate(g) \/ Coming(agenda, g)
      BY <1>0 DEF CycleOK
    <3>3. HasCall(agenda, "pick") => UpToDate(g)' \/ Coming(agenda, g)'
      BY <1>3, <2>1, <2>2, <3>2 DEF Later
    <3> QED
      BY <1>1, <3>1, <3>3
  <2> QED
    BY <2>3, <2>4
<1>5. CASE held'[g] = "Waiting" /\ UpdateStatus
  <2>1. PICK n \in Node, s \in Status \ {"Paused"} : Updates(n, s)
    BY <1>5, UpdateFacts DEF Ordered
  <2>2. /\ status' = [status EXCEPT ![n] = s] /\ s = CalcStatus(n).st /\ held' = held /\ AtHead(n)
    BY <2>1 DEF Updates, SetStatus
  <2>3. HasCall(agenda, "pick")' => HasCall(agenda, "pick")
    <3>1. ~Schedule /\ AgendaKept
      BY <1>0, <2>1, <2>2, AfterUpdate DEF Schedule, Idle, AtHead
    <3> QED
      BY <3>1 DEF AgendaKept, Begins
  <2>4. ASSUME g # n, Coming(agenda, g) PROVE Coming(agenda, g)'
    BY <1>0, <2>1, <2>4, AfterUpdate
  <2>5. \A m \in Node : m # n => status'[m] = status[m]
    BY <1>0, <2>2 DEF TypeOK
  <2>6. CASE n = g
    <3>1. \A c \in Children(g) : c # g /\ status'[c] = status[c]
      BY <1>0, <2>5, <2>6, ChildBelow
    <3>2. status'[g] = s /\ held[g] = "Waiting"
      BY <1>0, <1>5, <2>2, <2>6 DEF TypeOK
    <3> DEFINE open == {c \in Children(g) : ~Finished(status[c])}
    <3>3. /\ OnErrorStatus(g) \in {"Success", "Failed"}
          /\ s = IF SeqFailed(g) THEN OnErrorStatus(g)
                 ELSE IF (status[g] = "Running" /\ open # {}) \/ HasActive(g) THEN "Running"
                 ELSE IF ChildFailed(g) THEN OnErrorStatus(g)
                 ELSE IF open = {} THEN "Success"
                 ELSE IF \A c \in open : status[c] = "Frozen" THEN "Frozen" ELSE "Waiting"
      BY <2>2, <2>6, <3>2, GroupCalc
    <3>4. HasActive(g) => open # {}
      BY DEF HasActive, Active, Finished
    <3>5. /\ HasActive(g)' = HasActive(g) /\ ChildFailed(g)' = ChildFailed(g)
          /\ open' = open /\ \A c \in open : status'[c] = status[c]
      BY <3>1 DEF HasActive, ChildFailed
    <3>6. SeqFailed(g)' = SeqFailed(g)
      BY <3>5 DEF SeqFailed
    <3>7. CalcStatus(g)'.st = IF SeqFailed(g) THEN OnErrorStatus(g)
                 ELSE IF (s = "Running" /\ open # {}) \/ HasActive(g) THEN "Running"
                 ELSE IF ChildFailed(g) THEN OnErrorStatus(g)
                 ELSE IF open = {} THEN "Success"
                 ELSE IF \A c \in open : status[c] = "Frozen" THEN "Frozen" ELSE "Waiting"
      <4>1. CalcStatus(g)' = CalcParSeqStatus(g)'
        BY <1>0 DEF CalcStatus, RunNode
      <4>2. ~want'[g] /\ held'[g] = "Waiting" /\ status'[g] = s
        BY <1>0, <1>5, <3>2 DEF HeldOK
      <4> QED
        BY <1>0, <3>5, <3>6, <4>1, <4>2 DEF CalcParSeqStatus, Plain
    <3> HIDE DEF open
    <3>8. CalcStatus(g)'.st = s
      BY <3>3, <3>4, <3>7
    <3>9. UpToDate(g)'
      BY <3>2, <3>8 DEF UpToDate
    <3> QED
      BY <1>1, <2>3, <3>9
  <2>7. CASE n \in Children(g)
    <3>1. Parent[n] = g /\ g # None /\ n # g
      BY <1>0, <2>7, ChildBelow
    <3>2. Coming(agenda, g)
      <4>1. agenda \in Seq(Frame) /\ 1 \in DOMAIN agenda /\ agenda[1] = Stat(n)
        BY <1>0, <2>2 DEF TypeOK, AtHead
      <4>2. \E j \in DOMAIN agenda : agenda[j] = Stat(g)
        BY <1>0, <3>1, <4>1, StatNode DEF GoesUp
      <4> QED
        BY <4>2 DEF Coming, TellsOf
    <3> QED
      BY <1>1, <2>3, <2>4, <3>1, <3>2
  <2>8. CASE n # g /\ n \notin Children(g)
    <3>1. /\ held'[g] = held[g] /\ status'[g] = status[g]
          /\ \A c \in Children(g) : status'[c] = status[c]
      BY <1>0, <2>2, <2>5, <2>8, ChildBelow
    <3>2. HasCall(agenda, "pick") => UpToDate(g) \/ Coming(agenda, g)
      BY <1>0 DEF CycleOK
    <3> QED
      BY <1>1, <1>3, <2>3, <2>4, <2>8, <3>1, <3>2
  <2> QED
    BY <2>6, <2>7, <2>8
<1> QED
  BY <1>2, <1>4, <1>5

LEMMA OrderNext == ASSUME Ordered, LockInv', [Next]_vars PROVE OrderInv'
<1>1. \A n \in RunNode : UnstartedOK(n)' /\ StartedOK(n)'
  BY UnstartedNext, ClearNext DEF Ordered, OrderInv
<1>2. \A g \in Node \ RunNode : GroupDone(g)' /\ CycleOK(g)'
  BY GroupDoneNext, CycleNext
<1>3. \A n \in Node : status'[n] \in {"Running", "Failed"} => HasStarted(n)'
  BY HasStartedNext
<1>4. GoesUp(agenda)'
  <2>0. TypeOK /\ AgendaOK /\ GoesUp(agenda) /\ Unattended
    BY DEF Ordered, OrderInv, HeadlessInv, TreeInv
  <2>1. CASE UpdateStatus
    <3>1. PICK n \in Node, s \in Status \ {"Paused"} : Updates(n, s)
      BY <2>1, UpdateFacts DEF Ordered
    <3> QED
      BY <2>0, <3>1, AfterUpdate DEF AgendaKept
  <2>2. CASE ~UpdateStatus
    BY <2>0, <2>2, OtherAgenda DEF AgendaKept
  <2> QED
    BY <2>1, <2>2
<1> QED
  BY <1>1, <1>2, <1>3, <1>4, ProvidedNext DEF OrderInv

LEMMA InitOrder == Init => OrderInv
<1> SUFFICES ASSUME Init PROVE OrderInv
  OBVIOUS
<1>1. \A n \in Node : /\ status[n] \in {"Waiting", "Frozen"} /\ ~startErr[n] /\ client[n] = 0
                      /\ ~want[n] /\ ~starting[n] /\ starts[n] = 0
                      /\ held[n] \in {"Waiting", "Frozen"} /\ (held[n] = "Frozen" => status[n] = "Frozen")
  BY DEF Init
<1>2. \A n \in RunNode : UnstartedOK(n) /\ StartedOK(n)
  BY <1>1 DEF UnstartedOK, StartedOK, RunNode
<1>3. \A g \in Node \ RunNode : GroupDone(g)
  <2>1. \A g \in Node : ~ChildFailed(g)
    BY <1>1, ChildBelow DEF ChildFailed, HasError
  <2> QED
    BY <1>1, <2>1 DEF GroupDone, Finished
<1>4. agenda = <<>> /\ provided = {}
  BY DEF Init
<1>5. \A d : ~HasCall(agenda, d) /\ GoesUp(agenda)
  BY <1>4 DEF HasCall, GoesUp
<1>6. ProviderNodes = {}
  BY <1>1 DEF ProviderNodes, Provider, Finished
<1> QED
  BY <1>1, <1>2, <1>3, <1>4, <1>5, <1>6 DEF OrderInv, CycleOK, Backed, Complete

LEMMA OrderInvariant ==
  ASSUME Unattended, Terminals = {}, NoNestedLocks PROVE Spec => [](HeadlessInv /\ LockInv /\ OrderInv)
<1>1. HeadlessInv /\ LockInv /\ OrderInv /\ [Next]_vars => OrderInv'
  BY LockNext, OrderNext DEF Ordered, HeadlessInv, TreeInv
<1> QED
  BY <1>1, InitOrder, LockInvariant, PTL DEF Spec

-----------------------------------------------------------------------------
(* What this says of a headless run.                                         *)

(* Below a seq node nothing runs before all that stands in front of it has    *)
(* finished, however late a process of an earlier sub-node ends.             *)
THEOREM SequencesAreInOrder ==
  Unattended /\ Terminals = {} /\ NoNestedLocks => (Spec => []SeqInOrder)
<1> SUFFICES ASSUME Unattended, Terminals = {}, NoNestedLocks PROVE Spec => []SeqInOrder
  OBVIOUS
<1>1. OrderInv => SeqInOrder
  <2> SUFFICES ASSUME OrderInv, NEW p \in Node, Kind[p] = "seq",
                      NEW i \in DOMAIN Kids[p], NEW j \in DOMAIN Kids[p],
                      i < j, Active(status[Kids[p][j]])
               PROVE  Finished(status[Kids[p][i]])
    BY DEF SeqInOrder
  <2>1. Kids[p][j] \in Node
    BY NodeAssumption
  <2>2. HasStarted(Kids[p][j]) /\ \A m \in RunNode : StartedOK(m)
    BY <2>1 DEF OrderInv, Active
  <2> QED
    BY <2>2, FrontClear DEF Provider
<1> QED
  BY <1>1, OrderInvariant, PTL

(* Nothing was ever started behind a failed sub-node of a seq node, at any     *)
(* depth below it, although the scheduler goes on behind finished ones.      *)
THEOREM SequencesStopAtErrors ==
  Unattended /\ Terminals = {} /\ NoNestedLocks => (Spec => []SeqStopsAtError)
<1> SUFFICES ASSUME Unattended, Terminals = {}, NoNestedLocks PROVE Spec => []SeqStopsAtError
  OBVIOUS
<1>1. OrderInv => SeqStopsAtError
  <2> SUFFICES ASSUME OrderInv, NEW p \in Node, Kind[p] = "seq",
                      NEW i \in DOMAIN Kids[p], NEW j \in DOMAIN Kids[p],
                      i < j, HasError(status[Kids[p][i]]),
                      NEW m \in RunNode, Kids[p][j] \in Above(m), starts[m] # 0
               PROVE  FALSE
    BY DEF SeqStopsAtError
  <2>1. Kids[p][i] \in Node /\ InFront(Kids[p][i], m) /\ StartedOK(m)
    BY NodeAssumption, InFrontOf DEF OrderInv
  <2> QED
    BY <2>1 DEF StartedOK, Clear, Provider
<1> QED
  BY <1>1, OrderInvariant, PTL

(* What is provided in a headless run, a node that finished without error     *)
(* stands for.                                                               *)
THEOREM WhatIsProvidedIsBacked ==
  Unattended /\ Terminals = {} /\ NoNestedLocks => (Spec => []ProvidedBacked)
<1> SUFFICES ASSUME Unattended, Terminals = {}, NoNestedLocks PROVE Spec => []ProvidedBacked
  OBVIOUS
<1>1. OrderInv => ProvidedBacked
  BY DEF OrderInv, Backed, ProvidedBacked
<1> QED
  BY <1>1, OrderInvariant, PTL

(* In a headless run a node that finished without error has provided what it  *)
(* lists, so that its consumers do not wait forever.                         *)
THEOREM ProvidersProvide ==
  Unattended /\ Terminals = {} /\ NoNestedLocks => (Spec => []ProvidedComplete)
<1> SUFFICES ASSUME Unattended, Terminals = {}, NoNestedLocks PROVE Spec => []ProvidedComplete
  OBVIOUS
<1>1. OrderInv => ProvidedComplete
  BY DEF OrderInv, Complete, ProvidedComplete
<1> QED
  BY <1>1, OrderInvariant, PTL

-----------------------------------------------------------------------------
(* The end of a headless run.                                                *)

(* The last call of checkEnd comes right after its updateBlockedAll.         *)
LEMMA SettleIsLast ==
  ASSUME NEW f \in Frame, NEW h \in Frame, f.do = "blocked",
         agenda' = Down(Root) \o <<f, h>>
  PROVE  /\ SettleOK(agenda)'
         /\ \A i \in DOMAIN agenda' : agenda'[i].do \in {"status", "blocked", h.do}
<1> DEFINE two == <<f, h>>
           d   == Down(Root)
           u   == d \o two
<1>1. two \in Seq(Frame) /\ DOMAIN two = {1, 2} /\ two[1] = f /\ two[2] = h /\ Len(two) = 2
  <2>1. two \in Seq(Frame)
    OBVIOUS
  <2> HIDE DEF Frame
  <2> QED
    BY <2>1
<1>2. d \in Seq(Frame) /\ \A i \in DOMAIN d : d[i].do = "status"
  BY StatPlaces, StatNode, NodeAssumption
<1> HIDE DEF two, d, Frame
<1>3. Joins(u, d, two)
  BY <1>1, <1>2, Joined
<1>4. /\ Len(d) \in Nat /\ Len(u) = Len(d) + 2 /\ DOMAIN u = 1..(Len(d) + 2)
      /\ \A i \in 1..Len(d) : u[i].do = "status"
      /\ u[Len(d) + 1] = f /\ u[Len(d) + 2] = h
  <2>1. /\ Len(d) \in Nat /\ DOMAIN d = 1..Len(d) /\ u \in Seq(Frame) /\ DOMAIN u = 1..(Len(d) + 2)
        /\ \A i \in DOMAIN d : u[i] = d[i]
        /\ \A i \in DOMAIN two : u[Len(d) + i] = two[i]
    BY <1>1, <1>3 DEF Joins
  <2>2. Len(u) = Len(d) + 2
    <3> HIDE DEF u
    <3> QED
      BY <2>1
  <2> HIDE DEF u
  <2>3. \A i \in 1..Len(d) : u[i].do = "status"
    BY <1>2, <2>1
  <2>4. u[Len(d) + 1] = f /\ u[Len(d) + 2] = h
    BY <1>1, <2>1
  <2> QED
    BY <2>1, <2>2, <2>3, <2>4
<1>5. agenda' = u
  BY DEF two, d
<1> HIDE DEF u
<1>6. ASSUME NEW i \in DOMAIN u
      PROVE  /\ u[i].do \in {"status", "blocked", h.do}
             /\ u[i].do = "settle" => i = Len(u) /\ i # 1 /\ u[i - 1].do = "blocked"
  <2>1. CASE i \in 1..Len(d)
    BY <1>4, <2>1
  <2>2. CASE i = Len(d) + 1
    BY <1>4, <2>2
  <2>3. CASE i = Len(d) + 2
    <3>1. i - 1 = Len(d) + 1 /\ i # 1 /\ i = Len(u)
      BY <1>4, <2>3
    <3> QED
      BY <1>4, <2>3, <3>1
  <2> QED
    BY <1>4, <2>1, <2>2, <2>3
<1> QED
  BY <1>5, <1>6 DEF SettleOK

(* In the quiet at the end updateStatus changes nothing.                     *)
LEMMA UpdateWhenStill ==
  ASSUME Ordered, Still, [Next]_vars, UpdateStatus
  PROVE  /\ UNCHANGED <<status, held, want, nproc, provided, xby, rby, starting, starts, proc, blocked>>
         /\ agenda' = Tail(agenda)
<1>0. TypeOK /\ RunOK /\ LockInv
  BY DEF Ordered, HeadlessInv, TreeInv
<1>1. PICK n \in Node, s \in Status \ {"Paused"} : UpdateStep(n) /\ Updates(n, s)
  BY UpdateFacts DEF Ordered
<1>2. s = status[n]
  <2>1. CASE n \in RunNode
    <3>1. /\ ~want[n] /\ ~starting[n] /\ ~Active(status[n]) /\ UnstartedOK(n)
          /\ status[n] \in Status /\ status[n] # "Paused" /\ s = CalcRunStatus(n).st /\ status'[n] = s
      BY <1>0, <1>1, <2>1, UpdateOfRunNode DEF Still, Quiet, Ordered, OrderInv, LockInv, Updates,
                                               CalcStatus, RunNode, TypeOK
    <3>2. CASE Finished(status[n])
      BY <3>1, <3>2, FinishedStay
    <3>3. CASE status[n] \in {"Waiting", "Frozen"}
      BY <3>1, <3>3 DEF UnstartedOK, CalcRunStatus, Plain, Stays
    <3> QED
      BY <3>1, <3>2, <3>3 DEF Status, Active, Finished
  <2>2. CASE n \notin RunNode
    BY <1>1, <2>2 DEF Still, UpToDate, Updates
  <2> QED
    BY <2>1, <2>2
<1>3. SetStatus(n, s) /\ agenda \in Seq(Frame) /\ agenda # <<>>
  BY <1>0, <1>1 DEF Updates, AtHead, TypeOK
<1>4. UNCHANGED <<status, held, provided, starting, starts, proc, blocked>>
  BY <1>0, <1>2, <1>3 DEF SetStatus, NowProvides, Provider, TypeOK, startVars
<1>5. nproc' = nproc
  <2>1. Counts(n, s) = {}
    BY <1>2 DEF Counts
  <2> QED
    BY <1>0, <1>3, <2>1 DEF SetStatus, CountProc, TypeOK
<1>6. want' = want
  <2>1. want[n] = FALSE
    <3>1. ~want[n]
      BY <1>0 DEF Still, LockInv, HeldOK
    <3> QED
      BY <1>0, <3>1 DEF TypeOK
  <2> QED
    BY <1>0, <1>3, <2>1 DEF SetStatus, TypeOK
<1>7. UNCHANGED <<xby, rby>>
  <2>1. ~BecomesActive(n) /\ ~Ends(n, s)
    BY <1>0, <1>2, <1>4 DEF BecomesActive, Ends, Pending, Active, TypeOK
  <2> QED
    BY <1>1, <2>1 DEF Updates, Keeps, lockVars
<1>8. agenda' = Tail(agenda)
  <2>1. agenda' = <<>> \o Tail(agenda)
    BY <1>1, <1>2 DEF Updates
  <2> HIDE DEF Frame
  <2> QED
    BY <1>3, <2>1
<1> QED
  BY <1>4, <1>5, <1>6, <1>7, <1>8

(* Nothing can be started anymore, once the run is over.                     *)
LEMMA NothingToStart == ASSUME TypeOK, EndInv, Over, Next1("pick") PROVE Runnable = {}
<1>1. HasCall(agenda, "pick")
  BY DEF TypeOK, Next1, HasCall
<1>2. ended \in {"finished", "stopped"}
  BY <1>1 DEF EndInv, Over, TypeOK
<1>3. CASE ended = "finished"
  <2>1. Holds(Root)
    BY <1>3 DEF EndInv, Holds
  <2>2. \A n \in Node : Root \in Above(n)
    BY TreeAssumption
  <2> QED
    BY <2>1, <2>2 DEF Runnable, Reaches, RunNode
<1> QED
  BY <1>2, <1>3 DEF EndInv

(* How what is to be done goes on then.                                      *)
Rests ==
  \/ agenda' = agenda /\ blocked' \in {blocked, Exact}
  \/ agenda # <<>> /\ agenda' = Tail(agenda) /\ blocked' = IF Next1("blocked") THEN Exact ELSE blocked
  \/ Idle /\ blocked' = blocked /\ (Schedule \/ \E n \in RunNode : agenda' = Up(n))

LEMMA UpdateKeepsEnd ==
  ASSUME Unattended, TypeOK, AllLive, [Next]_vars, UpdateStatus PROVE ended' = ended
<1>1. ~Idle /\ ~Next1("pick") /\ ~Next1("settle")
  BY DEF UpdateStatus, Next1, Idle
<1>2. CASE Call
  BY <1>1, <1>2 DEF Call, endVars, Pick, CheckEnd, Settle, OperationStep
<1>3. ~(Schedule \/ (MayExit /\ StopScheduler) \/ Unblock)
  BY <1>1 DEF Schedule, StopScheduler, Unblock
<1>4. ASSUME NEW m \in RunNode, ProcStateChanged(m) \/ \E k \in Start : GoStep(m, k)
      PROVE  ended' = ended
  BY <1>4 DEF ProcStateChanged, GoStep, Connect, Exit, Connected, TerminalCreated,
              TerminalFailed, CloseClient, treeVars, endVars
<1>5. ASSUME NEW m \in Node, NEW op \in Op, NEW rec \in BOOLEAN,
             NEW keep \in SUBSET (provided \cap MayKeep), UserOp(m, op, rec, keep)
      PROVE  FALSE
  BY <1>5 DEF UserOp
<1>6. CASE UNCHANGED vars
  BY <1>6 DEF vars, endVars
<1> QED
  BY <1>2, <1>3, <1>4, <1>5, <1>6, Zenon DEF Next, GoStep

(* Over is over: a step only looks at the tree, and goes on with its calls.   *)
LEMMA OverStep ==
  ASSUME Ordered, EndInv, Over, [Next]_vars
  PROVE  /\ UNCHANGED <<status, held, want, nproc, provided, xby, rby, starting, starts>>
         /\ Settle \/ ended' = ended
         /\ Rests
<1> DEFINE Kept == UNCHANGED <<status, held, want, nproc, provided, xby, rby, starting, starts>>
<1>0. /\ TypeOK /\ AgendaOK /\ RunOK /\ AllLive /\ Still /\ Unattended
      /\ agenda \in Seq(Frame)
  BY DEF Ordered, HeadlessInv, TreeInv, EndInv, TypeOK
<1>1. \A d : Next1(d) => d \in {"status", "blocked", "pick", "settle"}
  <2>1. agenda # <<>> => 1 \in DOMAIN agenda /\ Head(agenda) = agenda[1]
    BY <1>0
  <2> QED
    BY <1>0, <2>1 DEF Next1, Still
<1>2. CASE UpdateStatus
  <2>1. Kept /\ agenda' = Tail(agenda) /\ blocked' = blocked
    BY <1>0, <1>2, UpdateWhenStill
  <2>2. ended' = ended
    BY <1>0, <1>2, UpdateKeepsEnd
  <2>3. agenda # <<>> /\ ~Next1("blocked")
    BY <1>2 DEF UpdateStatus, Next1
  <2> QED
    BY <2>1, <2>2, <2>3 DEF Rests
<1>3. CASE Call /\ ~UpdateStatus
  <2>1. CASE UpdateBlocked /\ UNCHANGED endVars
    BY <2>1 DEF UpdateBlocked, Rests, Exact, Next1, nodeVars, startVars, lockVars, endVars
  <2>2. CASE OperationStep
    <3>1. \E d \in {"sibling", "op", "mark", "done", "end"} : Next1(d)
      BY <2>2, Zenon DEF OperationStep, Sibling, OpOnRunNode, RunByHand, MarkRunning, RunRefused,
                         OpOnGroup, OpOnGroupDone, OpNotAllowed, EndOp
    <3> QED
      BY <1>1, <3>1
  <2>3. CASE Pick
    <3>1. \E n \in RunNode : n \in Runnable
      BY <2>3 DEF Pick, IsFirstRunnable
    <3> QED
      BY <1>0, <2>3, <3>1, NothingToStart DEF Pick
  <2>4. CASE CheckEnd
    <3>1. /\ Next1("pick") /\ UNCHANGED <<nodeVars, startVars, proc, lockVars, blocked, halted>>
          /\ HasCall(agenda, "pick")
      BY <1>0, <2>4 DEF CheckEnd, Next1, HasCall
    <3>2. ended # "no"
      BY <3>1 DEF EndInv, Over
    <3>3. ended' = ended /\ agenda' = Tail(agenda)
      BY <2>4, <3>2 DEF CheckEnd
    <3> QED
      BY <3>1, <3>3 DEF Rests, Next1, nodeVars, startVars, lockVars
  <2>5. CASE Settle
    BY <2>5 DEF Settle, Rests, Next1, nodeVars, startVars, lockVars
  <2> QED
    BY <1>3, <2>1, <2>2, <2>3, <2>4, <2>5, Zenon DEF Call
<1>4. CASE Schedule /\ UNCHANGED <<goVars, ops>>
  BY <1>4 DEF Schedule, Rests, nodeVars, lockVars, endVars
<1>5. CASE (StopScheduler \/ Unblock) /\ UNCHANGED <<goVars, ops>>
  BY <1>5 DEF StopScheduler, Unblock, Rests, Exact, nodeVars, startVars, lockVars, endVars
<1>6. ASSUME NEW n \in RunNode, ProcStateChanged(n) PROVE Kept /\ ended' = ended /\ Rests
  BY <1>6 DEF ProcStateChanged, Rests, nodeVars, startVars, lockVars, endVars
<1>7. ASSUME NEW n \in RunNode, NEW k \in Start, GoStep(n, k) PROVE FALSE
  <2>1. /\ ~starting[n] /\ ~Active(status[n]) /\ ProcsOK(n) /\ LiveOK(n)
        /\ terms = {} /\ closing = {}
    BY <1>0 DEF Still, Quiet, RunOK, AllLive
  <2>2. <<n, k>> \notin conns /\ proc[n][k] \notin {"connecting", "alive"}
    BY <2>1 DEF ProcsOK, LiveOK, Active
  <2> QED
    BY <1>7, <2>1, <2>2 DEF GoStep, Connect, Exit, Connected, TerminalCreated, TerminalFailed, CloseClient
<1>8. ASSUME NEW n \in Node, NEW op \in Op, NEW rec \in BOOLEAN,
             NEW keep \in SUBSET (provided \cap MayKeep), UserOp(n, op, rec, keep)
      PROVE  FALSE
  BY <1>0, <1>8 DEF UserOp
<1>9. CASE UNCHANGED vars
  BY <1>9 DEF vars, Rests, nodeVars, startVars, lockVars, endVars
<1> QED
  BY <1>2, <1>3, <1>4, <1>5, <1>6, <1>7, <1>8, <1>9, Zenon DEF Next, GoStep

(* The end is decided by checkEnd and by its last call only.                 *)
LEMMA EndChange == ASSUME Ordered, [Next]_vars PROVE ended' = ended \/ CheckEnd \/ Settle
<1>0. Unattended /\ TypeOK /\ AllLive
  BY DEF Ordered, HeadlessInv, TreeInv
<1>1. CASE UpdateStatus
  BY <1>0, <1>1, UpdateKeepsEnd
<1>2. CASE Call
  BY <1>1, <1>2, Zenon DEF Call, Pick, endVars
<1>3. CASE (Schedule \/ (MayExit /\ StopScheduler) \/ Unblock) /\ UNCHANGED <<goVars, ops>>
  BY <1>3 DEF Schedule, StopScheduler, Unblock, endVars
<1>4. ASSUME NEW m \in RunNode, ProcStateChanged(m) \/ \E k \in Start : GoStep(m, k)
      PROVE  ended' = ended
  BY <1>4 DEF ProcStateChanged, GoStep, Connect, Exit, Connected, TerminalCreated,
              TerminalFailed, CloseClient, treeVars, endVars
<1>5. ASSUME NEW m \in Node, NEW op \in Op, NEW rec \in BOOLEAN,
             NEW keep \in SUBSET (provided \cap MayKeep), UserOp(m, op, rec, keep)
      PROVE  FALSE
  BY <1>0, <1>5 DEF UserOp
<1>6. CASE UNCHANGED vars
  BY <1>6 DEF vars, endVars
<1> QED
  BY <1>2, <1>3, <1>4, <1>5, <1>6, Zenon DEF Next, GoStep

(* What still is to be done once the run is over, looks at the tree only.     *)
LEMMA RestsAgenda ==
  ASSUME TypeOK, Still, Rests
  PROVE  \A i \in DOMAIN agenda' : agenda'[i].do \in {"status", "blocked", "pick", "settle"}
<1>0. agenda \in Seq(Frame) /\ \A i \in DOMAIN agenda : agenda[i].do \in {"status", "blocked", "pick", "settle"}
  BY DEF TypeOK, Still
<1>1. CASE agenda # <<>> /\ agenda' = Tail(agenda)
  <2> HIDE DEF Frame
  <2>1. \A i \in DOMAIN Tail(agenda) : i + 1 \in DOMAIN agenda /\ Tail(agenda)[i] = agenda[i + 1]
    BY <1>0, <1>1
  <2> QED
    BY <1>0, <1>1, <2>1
<1>2. CASE Schedule
  <2> DEFINE f == [do |-> "blocked"]
             h == [do |-> "pick"]
  <2>1. f \in Frame /\ h \in Frame /\ f.do = "blocked" /\ h.do = "pick"
    BY DEF Frame
  <2>2. agenda' = Down(Root) \o <<f, h>>
    BY <1>2 DEF Schedule
  <2> HIDE DEF f, h
  <2> QED
    BY <2>1, <2>2, SettleIsLast
<1>3. ASSUME NEW n \in RunNode, agenda' = Up(n)
      PROVE  \A i \in DOMAIN agenda' : agenda'[i].do \in {"status", "blocked", "pick", "settle"}
  BY <1>3, StatPlaces, StatNode DEF RunNode
<1> QED
  BY <1>0, <1>1, <1>2, <1>3 DEF Rests

(* The last call of checkEnd keeps its updateBlockedAll before it.           *)
LEMMA SettleNext ==
  ASSUME TypeOK, EndInv, Rests, HasCall(agenda', "settle"), UNCHANGED <<provided, xby, rby>>
  PROVE  HasCall(agenda, "settle") /\ ~HasCall(agenda', "pick") /\ SettleOK(agenda)'
<1>0. agenda \in Seq(Frame) /\ Exact' = Exact
  BY DEF TypeOK, Exact, IsBlocked, MissingRequired, CannotXAcquire, CannotRAcquire, Taken
<1>1. CASE agenda' = agenda /\ blocked' \in {blocked, Exact}
  <2>1. HasCall(agenda, "settle") /\ ~HasCall(agenda, "pick") /\ SettleOK(agenda)
    BY <1>1 DEF EndInv
  <2>2. SettleOK(agenda)'
    BY <1>0, <1>1, <2>1 DEF SettleOK, Exact
  <2> QED
    BY <1>1, <2>1, <2>2
<1>2. CASE agenda # <<>> /\ agenda' = Tail(agenda) /\ blocked' = IF Next1("blocked") THEN Exact ELSE blocked
  <2>1. /\ HasCall(agenda, "settle") /\ \A d : HasCall(agenda', d) => HasCall(agenda, d)
    BY <1>0, <1>2, CallsOfTail
  <2>2. ~HasCall(agenda, "pick") /\ SettleOK(agenda)
    BY <2>1 DEF EndInv
  <2>3. /\ Len(agenda') = Len(agenda) - 1 /\ Len(agenda) \in Nat /\ DOMAIN agenda' \subseteq Nat \ {0}
        /\ \A i \in DOMAIN agenda' : i + 1 \in DOMAIN agenda /\ agenda'[i] = agenda[i + 1]
        /\ \A i \in DOMAIN agenda' : i # 1 => i - 1 \in DOMAIN agenda' /\ agenda'[i - 1] = agenda[i]
        /\ Head(agenda) = agenda[1]
    <3> HIDE DEF Frame
    <3> QED
      BY <1>0, <1>2
  <2>4. ASSUME NEW i \in DOMAIN agenda', agenda'[i].do = "settle"
        PROVE  i = Len(agenda') /\ IF i = 1 THEN blocked' = Exact ELSE agenda'[i - 1].do = "blocked"
    <3>1. i + 1 = Len(agenda) /\ agenda[i].do = "blocked"
      <4>1. i + 1 \in DOMAIN agenda /\ agenda[i + 1].do = "settle" /\ i + 1 # 1 /\ (i + 1) - 1 = i
        BY <2>3, <2>4
      <4> QED
        BY <2>2, <4>1 DEF SettleOK
    <3>2. i = Len(agenda')
      BY <2>3, <3>1
    <3>3. CASE i = 1
      BY <1>2, <2>3, <3>1, <3>2, <3>3 DEF Next1
    <3>4. CASE i # 1
      BY <2>3, <3>1, <3>2, <3>4
    <3> QED
      BY <3>3, <3>4
  <2>5. SettleOK(agenda)'
    BY <1>0, <2>4 DEF SettleOK, Exact
  <2> QED
    BY <2>1, <2>2, <2>5
<1>3. CASE Schedule
  <2>1. ~HasCall(agenda, "settle")'
    BY <1>3, ScheduleTells
  <2> QED
    BY <2>1 DEF HasCall
<1>4. ASSUME NEW n \in RunNode, agenda' = Up(n) PROVE FALSE
  <2>1. \A i \in DOMAIN agenda' : agenda'[i].do = "status"
    BY <1>4, StatPlaces, StatNode DEF RunNode
  <2> QED
    BY <2>1 DEF HasCall
<1> QED
  BY <1>1, <1>2, <1>3, <1>4 DEF Rests

(* The last call of checkEnd is the last call.                               *)
LEMMA NothingAfterSettle ==
  ASSUME TypeOK, EndInv, Settle
  PROVE  /\ HasCall(agenda, "settle") /\ ended = "no" /\ ~HasCall(agenda', "settle")
         /\ blocked = Exact
<1>1. agenda \in Seq(Frame) /\ 1 \in DOMAIN agenda /\ agenda[1].do = "settle" /\ agenda' = Tail(agenda)
  BY DEF TypeOK, Settle, Next1
<1>2. HasCall(agenda, "settle")
  BY <1>1 DEF HasCall
<1>3. ended = "no" /\ 1 = Len(agenda) /\ blocked = Exact
  BY <1>1, <1>2 DEF EndInv, SettleOK, Exact
<1>4. DOMAIN Tail(agenda) = {}
  <2> HIDE DEF Frame
  <2> QED
    BY <1>1, <1>3
<1> QED
  BY <1>1, <1>2, <1>3, <1>4 DEF HasCall

(* The invariant of the end: while it is over ...                            *)
LEMMA OverNext == ASSUME Ordered, LockInv', EndInv, Over, [Next]_vars PROVE EndInv'
<1>0. TypeOK /\ LockInv /\ Still
  BY DEF Ordered, HeadlessInv, TreeInv, EndInv
<1>1. /\ UNCHANGED <<status, held, want, nproc, provided, xby, rby, starting, starts>>
      /\ Settle \/ ended' = ended
      /\ Rests
  BY OverStep
<1>2. Still'
  <2>1. Quiet' /\ \A n \in RunNode : ~want'[n]
    BY <1>0, <1>1 DEF Still, Quiet
  <2>2. ASSUME NEW g \in Node \ RunNode PROVE UpToDate(g)'
    <3>1. UpToDate(g) /\ ~want[g] /\ ~want'[g] /\ g \in Node /\ Kind[g] # "run"
      BY <1>0, <1>1 DEF Still, LockInv, HeldOK, RunNode
    <3>2. CalcParSeqStatus(g)' = CalcParSeqStatus(g)
      BY <1>1, <3>1 DEF CalcParSeqStatus, HasActive, ChildFailed, SeqFailed, OnErrorStatus, Plain
    <3> QED
      BY <1>1, <3>1, <3>2 DEF UpToDate, CalcStatus
  <2>3. \A i \in DOMAIN agenda' : agenda'[i].do \in {"status", "blocked", "pick", "settle"}
    BY <1>0, <1>1, RestsAgenda
  <2> QED
    BY <2>1, <2>2, <2>3 DEF Still
<1>3. HasCall(agenda', "settle") => ended' = "no" /\ ~HasCall(agenda', "pick") /\ SettleOK(agenda)'
  <2> SUFFICES ASSUME HasCall(agenda', "settle")
               PROVE  ended' = "no" /\ ~HasCall(agenda', "pick") /\ SettleOK(agenda)'
    OBVIOUS
  <2>1. HasCall(agenda, "settle") /\ ~HasCall(agenda', "pick") /\ SettleOK(agenda)'
    BY <1>0, <1>1, SettleNext
  <2>2. ~Settle
    BY <1>0, NothingAfterSettle
  <2> QED
    BY <1>1, <2>1, <2>2 DEF EndInv
<1>4. ended' = "finished" => Finished(status'[Root])
  BY <1>1 DEF EndInv, Settle
<1>5. ended' = "stopped" => Runnable' = {} /\ blocked' = Exact'
  <2>1. Exact' = Exact
    BY <1>1 DEF Exact, IsBlocked, MissingRequired, CannotXAcquire, CannotRAcquire, Taken
  <2>2. ASSUME blocked' = blocked PROVE Runnable' = Runnable
    BY <1>1, <2>2 DEF Runnable, Reaches, InTurn, Holds, AtMaxProc
  <2>3. CASE Settle
    BY <1>0, <2>1, <2>2, <2>3, NothingAfterSettle DEF Settle
  <2>4. CASE ended' = ended /\ ended = "stopped"
    <3>1. Runnable = {} /\ blocked = Exact
      BY <2>4 DEF EndInv, Exact
    <3>2. blocked' = blocked
      BY <1>1, <3>1 DEF Rests
    <3> QED
      BY <2>1, <2>2, <3>1, <3>2
  <2> QED
    BY <1>1, <2>3, <2>4
<1> QED
  BY <1>2, <1>3, <1>4, <1>5 DEF EndInv, Exact, HasCall

(* ... and when it gets so: checkEnd finds that it is over.                  *)
LEMMA OverBegins ==
  ASSUME Ordered, LockInv', ~Over, [Next]_vars, Over'
  PROVE  /\ CheckEnd /\ Still' /\ ended = "no"
         /\ HasCall(agenda', "settle") => ~HasCall(agenda', "pick") /\ SettleOK(agenda)' /\ ended' = "no"
         /\ ended' # "no" => ended' = "finished" /\ Finished(status[Root])
<1>0. /\ TypeOK /\ AgendaOK /\ LockInv /\ OrderInv /\ Unattended
      /\ agenda \in Seq(Frame) /\ ended = "no" /\ ~HasCall(agenda, "settle")
  BY DEF Ordered, HeadlessInv, TreeInv, TypeOK, Over
<1>1. CheckEnd
  <2>1. CASE ended' # ended
    <3>1. ~Settle
      BY <1>0 DEF Settle, Next1, HasCall
    <3> QED
      BY <2>1, <3>1, EndChange
  <2>2. CASE ended' = ended
    <3>1. HasCall(agenda, "settle")'
      BY <1>0, <2>2 DEF Over
    <3>2. CASE UpdateStatus
      <4>1. PICK n \in Node, s \in Status \ {"Paused"} : Updates(n, s)
        BY <3>2, UpdateFacts DEF Ordered
      <4>2. AgendaKept
        BY <1>0, <4>1, AfterUpdate DEF OrderInv
      <4> QED
        BY <1>0, <3>1, <4>2 DEF AgendaKept, Begins
    <3>3. CASE ~UpdateStatus
      <4>1. AgendaKept
        BY <1>0, <3>3, OtherAgenda DEF OrderInv
      <4> QED
        BY <1>0, <3>1, <4>1 DEF AgendaKept, Begins
    <3> QED
      BY <3>2, <3>3
  <2> QED
    BY <2>1, <2>2
<1>2. /\ Next1("pick") /\ Tail(agenda) = <<>> /\ HasCall(agenda, "pick")
      /\ UNCHANGED <<nodeVars, startVars, proc, lockVars, blocked>>
  <2>1. Next1("pick")
    BY <1>1 DEF CheckEnd
  <2>2. HasCall(agenda, "pick")
    BY <1>0, <2>1 DEF Next1, HasCall
  <2> QED
    BY <1>0, <1>1, <2>1, <2>2, PickIsAlone DEF CheckEnd
<1> DEFINE f == [do |-> "blocked"]
           h == [do |-> "settle", before |-> SchedState]
<1>3. f \in Frame /\ h \in Frame /\ f.do = "blocked" /\ h.do = "settle"
  BY <1>0, SettleFrames
<1>4. \/ agenda' = Tail(agenda) /\ (ended' = "no" \/ (Quiet /\ ended' = "finished" /\ Finished(status[Root])))
      \/ agenda' = Down(Root) \o <<f, h>> /\ Quiet /\ ended' = "no"
  BY <1>0, <1>1 DEF CheckEnd
<1> HIDE DEF f, h
<1>5. Quiet
  <2>1. CASE agenda' = Tail(agenda)
    <3>1. DOMAIN agenda' = {}
      BY <1>2, <2>1
    <3>2. ended' # "no"
      BY <3>1 DEF Over, HasCall
    <3> QED
      BY <1>4, <2>1, <3>2
  <2> QED
    BY <1>4, <2>1
<1>6. ASSUME NEW g \in Node \ RunNode PROVE UpToDate(g)'
  <2>1. UpToDate(g)
    <3>1. CycleOK(g) /\ agenda # <<>> /\ ~TellsOf(Head(agenda), g)
      BY <1>0, <1>2 DEF OrderInv, Next1, TellsOf, Stat
    <3>2. ~Coming(<<>>, g)
      BY DEF Coming
    <3>3. ~Coming(agenda, g)
      BY <1>0, <1>2, <3>1, <3>2, ComingBehind
    <3> QED
      BY <1>2, <3>1, <3>3 DEF CycleOK
  <2>2. ~want[g] /\ ~want'[g] /\ g \in Node /\ Kind[g] # "run"
    BY <1>0, <1>2 DEF LockInv, HeldOK, RunNode, nodeVars
  <2>3. CalcParSeqStatus(g)' = CalcParSeqStatus(g)
    BY <1>2, <2>2 DEF CalcParSeqStatus, HasActive, ChildFailed, SeqFailed, OnErrorStatus, Plain, nodeVars
  <2> QED
    BY <1>2, <2>1, <2>2, <2>3 DEF UpToDate, CalcStatus, nodeVars
<1>7. Quiet' /\ \A n \in RunNode : ~want'[n]
  <2>1. \A n \in RunNode : ~want[n]
    BY <1>0, <1>2, NotAtHead DEF OrderInv, UnstartedOK, NoneAtHead, RunNode
  <2> QED
    BY <1>2, <1>5, <2>1 DEF Quiet, nodeVars, startVars
<1>8. CASE agenda' = Tail(agenda)
  <2>1. DOMAIN agenda' = {}
    BY <1>2, <1>8
  <2>2. ~HasCall(agenda', "settle") /\ ~HasCall(agenda, "settle")'
    BY <2>1 DEF HasCall
  <2>3. ended' = "finished" /\ Finished(status[Root])
    BY <1>4, <1>8, <2>2 DEF Over
  <2>4. Still'
    BY <1>6, <1>7, <2>1 DEF Still
  <2> QED
    BY <1>0, <1>1, <2>2, <2>3, <2>4
<1>9. CASE agenda' = Down(Root) \o <<f, h>> /\ ended' = "no"
  <2>1. /\ SettleOK(agenda)'
        /\ \A i \in DOMAIN agenda' : agenda'[i].do \in {"status", "blocked", h.do}
    BY <1>3, <1>9, SettleIsLast
  <2>2. \A i \in DOMAIN agenda' : agenda'[i].do \in {"status", "blocked", "pick", "settle"}
    BY <1>3, <2>1
  <2>3. ~HasCall(agenda', "pick")
    BY <1>3, <2>1 DEF HasCall
  <2>4. Still'
    BY <1>6, <1>7, <2>2 DEF Still
  <2> QED
    BY <1>0, <1>1, <1>9, <2>1, <2>3, <2>4
<1> QED
  BY <1>4, <1>8, <1>9

LEMMA EndNext == ASSUME Ordered, LockInv', EndInv, [Next]_vars PROVE EndInv'
<1>1. CASE Over
  BY <1>1, OverNext
<1>2. CASE ~Over /\ Over'
  BY <1>2, OverBegins DEF EndInv, HasCall, CheckEnd, nodeVars
<1>3. CASE ~Over'
  BY <1>3 DEF EndInv, Over
<1> QED
  BY <1>1, <1>2, <1>3

LEMMA EndInvariant ==
  ASSUME Unattended, Terminals = {}, NoNestedLocks
  PROVE  Spec => [](HeadlessInv /\ LockInv /\ OrderInv /\ EndInv)
<1>1. Init => EndInv
  <2> SUFFICES ASSUME Init PROVE EndInv
    OBVIOUS
  <2>1. agenda = <<>> /\ ended = "no"
    BY DEF Init
  <2>2. \A d : ~HasCall(agenda, d)
    BY <2>1 DEF HasCall
  <2> QED
    BY <2>1, <2>2 DEF EndInv, Over
<1>2. HeadlessInv /\ LockInv /\ OrderInv /\ LockInv' /\ EndInv /\ [Next]_vars => EndInv'
  BY EndNext DEF Ordered
<1> QED
  BY <1>1, <1>2, OrderInvariant, PTL DEF Spec

(* When a headless run has ended, it leaves no process behind, not even one    *)
(* that is still connecting: the end is decided by what the tree counts, and  *)
(* that is all there is.                                                     *)
THEOREM TheEndIsQuiet ==
  Unattended /\ Terminals = {} /\ NoNestedLocks => (Spec => []EndIsQuiet)
<1> SUFFICES ASSUME Unattended, Terminals = {}, NoNestedLocks PROVE Spec => []EndIsQuiet
  OBVIOUS
<1>1. HeadlessInv /\ EndInv => EndIsQuiet
  <2> SUFFICES ASSUME HeadlessInv, EndInv, ended # "no", NEW n \in RunNode, NEW k \in Start
               PROVE  proc[n][k] \notin {"connecting", "alive"}
    BY DEF EndIsQuiet
  <2>1. ~Active(status[n]) /\ ~starting[n]
    BY DEF EndInv, Over, Still, Quiet
  <2>2. ProcsOK(n) /\ LiveOK(n)
    BY DEF HeadlessInv, TreeInv, RunOK, AllLive
  <2> QED
    BY <2>1, <2>2 DEF ProcsOK, LiveOK, Active
<1> QED
  BY <1>1, EndInvariant, PTL

(* The end of a headless run is final: no cycle and no late notification      *)
(* changes a status, starts a node, provides a resource or ends it otherwise. *)
THEOREM TheEndIsFinal ==
  Unattended /\ Terminals = {} /\ NoNestedLocks => (Spec => EndIsFinal)
<1> SUFFICES ASSUME Unattended, Terminals = {}, NoNestedLocks PROVE Spec => EndIsFinal
  OBVIOUS
<1>1. HeadlessInv /\ LockInv /\ OrderInv /\ EndInv /\ [Next]_vars =>
        [ended # "no" => UNCHANGED <<status, starts, provided, ended>>]_vars
  <2> SUFFICES ASSUME HeadlessInv, LockInv, OrderInv, EndInv, [Next]_vars, ended # "no"
               PROVE  UNCHANGED <<status, starts, provided, ended>>
    OBVIOUS
  <2>1. Ordered /\ Over /\ TypeOK
    BY DEF Ordered, Over, HeadlessInv, TreeInv
  <2>2. ~Settle
    BY <2>1, NothingAfterSettle
  <2> QED
    BY <2>1, <2>2, OverStep
<1> QED
  BY <1>1, EndInvariant, PTL DEF EndIsFinal, Spec
=============================================================================
