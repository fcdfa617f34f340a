-------------------------- MODULE RemoteCallsOrder --------------------------
(***************************************************************************)
(* A synchronous call flushes its thread.  As long as the other side does   *)
(* not call back and the thread keeps running, its calls, synchronous or    *)
(* not, move through five stages in the order they were made: CALL on the   *)
(* channel, CALL in the queue of the shadow, handler, RET on the channel,   *)
(* RET in the queue of the thread.  A process that ends at the assertion on *)
(* a coincidence of ids has dropped a command; nothing completes after it.  *)
(***************************************************************************)
EXTENDS RemoteCallsProofs

Away(i) == Peer(Home[i])

(* The calls whose command op of thread i is in s, and whether they are in  *)
(* the order they were made.                                                *)
Mine(m, op, i) == m.op = op /\ m.thr = i
Calls(s, op, i) == {s[k].n : k \in {j \in DOMAIN s : Mine(s[j], op, i)}}
InOrder(s, op, i) ==
    \A j, k \in DOMAIN s : j < k /\ Mine(s[j], op, i) /\ Mine(s[k], op, i) => s[j].n < s[k].n
Below(A, B) == \A a \in A, b \in B : a < b

(* The five stages, the last one first.                                     *)
RetQueued(i)  == Calls(queue[Home[i]][i], "ret", i)
RetSent(i)    == Calls(chan[Home[i]], "ret", i)
Executing(i)  == {stack[Away(i)][i][k].n : k \in DOMAIN stack[Away(i)][i]}
CallQueued(i) == Calls(queue[Away(i)][i], "call", i)
CallSent(i)   == Calls(chan[Away(i)], "call", i)

Unanswered(i) == {r.n : r \in {q \in pending[Home[i]] : q.thr = i}}

Ascending(A, B, C, D, E) ==
    /\ Below(A, B \cup C \cup D \cup E)
    /\ Below(B, C \cup D \cup E)
    /\ Below(C, D \cup E)
    /\ Below(D, E)

Pipeline(i) ==
    /\ Ascending(RetQueued(i), RetSent(i), Executing(i), CallQueued(i), CallSent(i))
    /\ InOrder(queue[Home[i]][i], "ret", i) /\ InOrder(chan[Home[i]], "ret", i)
    /\ InOrder(queue[Away(i)][i], "call", i) /\ InOrder(chan[Away(i)], "call", i)
    /\ Len(stack[Away(i)][i]) <= 1
    /\ Unanswered(i) \subseteq
          RetQueued(i) \cup RetSent(i) \cup Executing(i) \cup CallQueued(i) \cup CallSent(i)

(* The thread has not exited, and the other side has made no call.          *)
Calm(i) ==
    /\ nextCall[Away(i)] = 0
    /\ starts[i] <= 1
    /\ i \in alive \/ starts[i] = 0

(* Nobody told the shadow to exit, and the thread is known at home from its *)
(* first call on.                                                           *)
Registered(i) ==
    /\ \A e \in Endpoints : Calls(chan[e], "exit", i) = {} /\ Calls(queue[e][i], "exit", i) = {}
    /\ kind[Away(i)][i] # "dying"
    /\ kind[Home[i]][i] \in {"none", "solid"}
    /\ kind[Home[i]][i] = "none" => Unanswered(i) = {} /\ stack[Home[i]][i] = <<>>

(* What SyncFlushesThread says of one thread.                               *)
Flushed(i) ==
    \A k \in DOMAIN stack[Home[i]][i] :
        stack[Home[i]][i][k].done => \A n \in Unanswered(i) : stack[Home[i]][i][k].n < n

(* The inductive invariant of this module, for one thread and for all.      *)
ThreadOrderly(i) ==
    /\ stack[Away(i)][i] # <<>> => stack[Away(i)][i][1].op = "exec"
    /\ i \in alive => starts[i] # 0
    /\ nextCall[Away(i)] = 0 /\ starts[i] <= 1 /\ i \notin alive => stack[Home[i]][i] = <<>>
    /\ Calm(i) => Registered(i) /\ Pipeline(i) /\ Flushed(i)

(* A new pthread had the id of the thread it shadows.                       *)
Ended == failed = Coincidence

Orderly ==
    /\ \A e \in Endpoints, i \in Ids : kind[e][i] = "none" => queue[e][i] = <<>>
    /\ \A i \in Ids : ThreadOrderly(i)

-----------------------------------------------------------------------------
(* Membership in Calls, in both directions.                                 *)
LEMMA CallsMember ==
    ASSUME NEW s, NEW op, NEW i
    PROVE  /\ \A k \in DOMAIN s : Mine(s[k], op, i) => s[k].n \in Calls(s, op, i)
           /\ \A x \in Calls(s, op, i) : \E k \in DOMAIN s : Mine(s[k], op, i) /\ x = s[k].n
BY Zenon DEF Calls

(* An empty queue holds no call.                                            *)
LEMMA CallsEmpty ==
    ASSUME NEW op, NEW i
    PROVE  Calls(<<>>, op, i) = {} /\ InOrder(<<>>, op, i)
<1>1. DOMAIN <<>> = {}
  OBVIOUS
<1> QED  BY <1>1, Zenon DEF Calls, InOrder

(* A command is pushed that is not for this thread or not of this kind ...  *)
LEMMA AppendOther ==
    ASSUME NEW s \in Seq(Cmd), NEW x \in Cmd, NEW op, NEW i, ~Mine(x, op, i)
    PROVE  /\ Calls(Append(s, x), op, i) = Calls(s, op, i)
           /\ InOrder(s, op, i) => InOrder(Append(s, x), op, i)
<1>1. PICK t : t = Append(s, x)
  BY Zenon
<1>2. /\ \A k \in DOMAIN t : (k \in DOMAIN s /\ t[k] = s[k]) \/ t[k] = x
      /\ \A k \in DOMAIN s : k \in DOMAIN t /\ t[k] = s[k]
  BY <1>1
<1>3. \A k \in DOMAIN t : Mine(t[k], op, i) => k \in DOMAIN s /\ t[k] = s[k]
  BY <1>2, Zenon
<1>4. InOrder(s, op, i) => InOrder(t, op, i)
  BY <1>3, Zenon DEF InOrder
<1>5. Calls(t, op, i) \subseteq Calls(s, op, i)
  <2> SUFFICES ASSUME NEW y \in Calls(t, op, i) PROVE y \in Calls(s, op, i)
    BY Zenon
  <2>1. PICK k \in DOMAIN t : Mine(t[k], op, i) /\ y = t[k].n
    BY Zenon DEF Calls
  <2> QED  BY <1>3, <2>1, CallsMember, Zenon
<1>6. Calls(s, op, i) \subseteq Calls(t, op, i)
  BY <1>2, CallsMember
<1> QED  BY <1>1, <1>4, <1>5, <1>6, Zenon

(* ... or one of this thread that is newer than all of them.                *)
LEMMA AppendMine ==
    ASSUME NEW s \in Seq(Cmd), NEW x \in Cmd, NEW op, NEW i, Mine(x, op, i),
           InOrder(s, op, i), \A a \in Calls(s, op, i) : a < x.n
    PROVE  /\ Calls(Append(s, x), op, i) = Calls(s, op, i) \cup {x.n}
           /\ InOrder(Append(s, x), op, i)
<1>1. PICK t : t = Append(s, x)
  BY Zenon
<1>2. /\ \A k \in DOMAIN t : (k \in DOMAIN s /\ t[k] = s[k]) \/ (k = Len(s) + 1 /\ t[k] = x)
      /\ \A k \in DOMAIN s : k \in DOMAIN t /\ t[k] = s[k]
      /\ Len(s) + 1 \in DOMAIN t /\ t[Len(s) + 1] = x
  BY <1>1
<1>3. Calls(t, op, i) = Calls(s, op, i) \cup {x.n}
  <2>1. Calls(t, op, i) \subseteq Calls(s, op, i) \cup {x.n}
    <3> SUFFICES ASSUME NEW y \in Calls(t, op, i)
                 PROVE  y \in Calls(s, op, i) \cup {x.n}
      BY Zenon
    <3>1. PICK k \in DOMAIN t : Mine(t[k], op, i) /\ y = t[k].n
      BY Zenon DEF Calls
    <3> QED  BY <1>2, <3>1, CallsMember, Zenon
  <2>2. Calls(s, op, i) \subseteq Calls(t, op, i)
    BY <1>2, CallsMember
  <2>3. x.n \in Calls(t, op, i)
    BY <1>2, CallsMember, Zenon
  <2> QED  BY <2>1, <2>2, <2>3, Zenon
<1>4. ASSUME NEW j \in DOMAIN t, NEW k \in DOMAIN t, j < k,
             Mine(t[j], op, i), Mine(t[k], op, i)
      PROVE  t[j].n < t[k].n
  <2>0. DOMAIN s = 1 .. Len(s) /\ Len(s) \in Nat
    OBVIOUS
  <2>1. j \in DOMAIN s /\ t[j] = s[j]
    <3> SUFFICES ASSUME j = Len(s) + 1 PROVE FALSE
      BY <1>2, Zenon
    <3>1. k \in DOMAIN s \/ k = Len(s) + 1
      BY <1>2, Zenon
    <3> QED  BY <1>4, <2>0, <3>1
  <2>2. CASE k \in DOMAIN s /\ t[k] = s[k]
    BY <1>4, <2>1, <2>2, Zenon DEF InOrder
  <2>3. CASE t[k] = x
    BY <1>4, <2>1, <2>3, CallsMember, Zenon
  <2> QED  BY <1>2, <2>2, <2>3, Zenon
<1>5. InOrder(t, op, i)
  BY <1>4, Zenon DEF InOrder
<1> QED  BY <1>1, <1>3, <1>5, Zenon

(* The oldest command is taken.  If it is one of these calls, it is the     *)
(* oldest of them.                                                          *)
LEMMA TailCalls ==
    ASSUME NEW s \in Seq(Cmd), s # <<>>, NEW op, NEW i, InOrder(s, op, i)
    PROVE  /\ InOrder(Tail(s), op, i)
           /\ Calls(Tail(s), op, i) \subseteq Calls(s, op, i)
           /\ Mine(Head(s), op, i) =>
                 /\ Head(s).n \in Calls(s, op, i)
                 /\ Calls(s, op, i) = {Head(s).n} \cup Calls(Tail(s), op, i)
                 /\ \A a \in Calls(Tail(s), op, i) : Head(s).n < a
           /\ ~Mine(Head(s), op, i) => Calls(Tail(s), op, i) = Calls(s, op, i)
<1>1. PICK t, h : t = Tail(s) /\ h = Head(s)
  BY Zenon
<1>2. /\ 1 \in DOMAIN s /\ h = s[1]
      /\ \A k \in DOMAIN t : k \in Nat /\ k + 1 \in DOMAIN s /\ 1 < k + 1 /\ t[k] = s[k + 1]
      /\ \A k \in DOMAIN s : k = 1 \/ (k - 1 \in DOMAIN t /\ t[k - 1] = s[k])
  BY <1>1
<1>3. InOrder(t, op, i)
  <2> SUFFICES ASSUME NEW j \in DOMAIN t, NEW k \in DOMAIN t, j < k,
                      Mine(t[j], op, i), Mine(t[k], op, i)
               PROVE  t[j].n < t[k].n
    BY Zenon DEF InOrder
  <2>1. PICK a, b : a = j + 1 /\ b = k + 1
    BY Zenon
  <2>2. a \in DOMAIN s /\ b \in DOMAIN s /\ a < b /\ t[j] = s[a] /\ t[k] = s[b]
    BY <1>2, <2>1, SMTT(60)
  <2> QED  BY <2>2, Zenon DEF InOrder
<1>4. Calls(t, op, i) \subseteq Calls(s, op, i)
  <2> SUFFICES ASSUME NEW y \in Calls(t, op, i) PROVE y \in Calls(s, op, i)
    BY Zenon
  <2>1. PICK k \in DOMAIN t : Mine(t[k], op, i) /\ y = t[k].n
    BY Zenon DEF Calls
  <2> QED  BY <1>2, <2>1, CallsMember, Zenon
<1>5. Calls(s, op, i) \subseteq Calls(t, op, i) \cup (IF Mine(h, op, i) THEN {h.n} ELSE {})
  <2> SUFFICES ASSUME NEW y \in Calls(s, op, i)
               PROVE  y \in Calls(t, op, i) \/ (Mine(h, op, i) /\ y = h.n)
    BY Zenon
  <2>1. PICK k \in DOMAIN s : Mine(s[k], op, i) /\ y = s[k].n
    BY Zenon DEF Calls
  <2> QED  BY <1>2, <2>1, CallsMember, Zenon
<1>6. ASSUME Mine(h, op, i), NEW y \in Calls(t, op, i)
      PROVE  h.n < y
  <2>1. PICK k \in DOMAIN t : Mine(t[k], op, i) /\ y = t[k].n
    BY <1>6, Zenon DEF Calls
  <2>2. PICK b : b = k + 1
    BY Zenon
  <2>3. b \in DOMAIN s /\ 1 < b /\ t[k] = s[b]
    BY <1>2, <2>2, Zenon
  <2> QED  BY <1>2, <1>6, <2>1, <2>3, Zenon DEF InOrder
<1>7. Mine(h, op, i) => h.n \in Calls(s, op, i)
  BY <1>2, CallsMember, Zenon
<1> QED  BY <1>1, <1>3, <1>4, <1>5, <1>6, <1>7, Zenon
-----------------------------------------------------------------------------
(* How a call moves from one stage to the next: a new call ...              *)
LEMMA NewCall ==
    ASSUME NEW A, NEW B, NEW C, NEW D, NEW E, NEW x, Ascending(A, B, C, D, E),
           \A y \in A \cup B \cup C \cup D \cup E : y < x
    PROVE  Ascending(A, B, C, D, E \cup {x})
BY Zenon DEF Ascending, Below

(* ... its CALL dispatched ...                                              *)
LEMMA CallArrives ==
    ASSUME NEW A, NEW B, NEW C, NEW D, NEW E, NEW x \in E, Ascending(A, B, C, D, E),
           NEW F \in SUBSET E, \A y \in F : x < y
    PROVE  Ascending(A, B, C, D \cup {x}, F)
BY Zenon DEF Ascending, Below

(* ... its handler entered ...                                              *)
LEMMA CallBegins ==
    ASSUME NEW A, NEW B, NEW D, NEW E, NEW x \in D, Ascending(A, B, {}, D, E),
           NEW F \in SUBSET D, \A y \in F : x < y
    PROVE  Ascending(A, B, {x}, F, E)
BY Zenon DEF Ascending, Below

(* ... and left ...                                                         *)
LEMMA CallEnds ==
    ASSUME NEW A, NEW B, NEW x, NEW D, NEW E, Ascending(A, B, {x}, D, E)
    PROVE  Ascending(A, B \cup {x}, {}, D, E)
BY Zenon DEF Ascending, Below

(* ... its RET dispatched ...                                               *)
LEMMA RetArrives ==
    ASSUME NEW A, NEW B, NEW C, NEW D, NEW E, NEW x \in B, Ascending(A, B, C, D, E),
           NEW F \in SUBSET B, \A y \in F : x < y
    PROVE  Ascending(A \cup {x}, F, C, D, E)
BY Zenon DEF Ascending, Below

(* ... and handled: all other calls are newer.                              *)
LEMMA RetHandled ==
    ASSUME NEW A, NEW B, NEW C, NEW D, NEW E, NEW x \in A, Ascending(A, B, C, D, E),
           NEW F \in SUBSET A, \A y \in F : x < y
    PROVE  /\ Ascending(F, B, C, D, E)
           /\ \A y \in F \cup B \cup C \cup D \cup E : x < y
BY Zenon DEF Ascending, Below

-----------------------------------------------------------------------------
(* The two endpoints of a thread.                                           *)
LEMMA TwoSides ==
    ASSUME NEW i \in Ids
    PROVE  /\ Home[i] \in Endpoints /\ Away(i) \in Endpoints
           /\ Away(i) # Home[i] /\ Peer(Home[i]) = Away(i) /\ Peer(Away(i)) = Home[i]
           /\ \A e \in Endpoints : e = Home[i] \/ e = Away(i)
<1>1. Home[i] \in Endpoints
  BY IdsAssumption, Zenon
<1> QED  BY <1>1, Zenon DEF Away, Peer, Endpoints

(* The queues, stacks and channels are sequences.                           *)
LEMMA Seqs ==
    ASSUME TypeOK, NEW e \in Endpoints, NEW i \in Ids
    PROVE  /\ stack[e][i] \in Seq(Frame) /\ queue[e][i] \in Seq(Cmd) /\ chan[e] \in Seq(Cmd)
           /\ nextCall[e] \in Nat
BY DEF TypeOK

(* While the other side has made no call, no CALL comes home, no RET goes   *)
(* there, home runs no handler and the other side waits for nothing.        *)
LEMMA NoCallback ==
    ASSUME TypeOK, CallsInOnePlace, NEW i \in Ids, nextCall[Away(i)] = 0
    PROVE  /\ \A m \in Cmd : CmdOK(Home[i], m) => m.op # "call"
           /\ \A m \in Cmd : CmdOK(Away(i), m) => m.op # "ret"
           /\ \A j \in Ids : \A k \in DOMAIN stack[Home[i]][j] : stack[Home[i]][j][k].op = "wait"
           /\ \A j \in Ids : \A k \in DOMAIN stack[Away(i)][j] : stack[Away(i)][j][k].op = "exec"
<1>1. PICK h \in Endpoints, p \in Endpoints :
         h = Home[i] /\ p = Away(i) /\ Peer(h) = p /\ Peer(p) = h
  BY TwoSides, Zenon
<1>2. \A m \in Cmd : m.n \in Nat
  BY Zenon DEF Cmd
<1>3. \A m \in Cmd : CmdOK(h, m) => m.op # "call"
  BY <1>1, <1>2 DEF CmdOK
<1>4. \A m \in Cmd : CmdOK(p, m) => m.op # "ret"
  BY <1>1, <1>2 DEF CmdOK
<1>5. ASSUME NEW j \in Ids, NEW e \in Endpoints, NEW k \in DOMAIN stack[e][j]
      PROVE  /\ FrameOK(e, j, stack[e][j][k])
             /\ stack[e][j][k].n \in Nat /\ stack[e][j][k].op \in {"wait", "exec"}
  <2>1. stack[e][j] \in Seq(Frame)
    BY Seqs, Zenon
  <2>2. stack[e][j][k] \in Frame
    BY <1>5, <2>1, SMTT(60)
  <2> QED  BY <1>5, <2>2, Zenon DEF Frame, CallsInOnePlace, FramesOK
<1>6. ASSUME NEW j \in Ids, NEW k \in DOMAIN stack[h][j]
      PROVE  stack[h][j][k].op = "wait"
  BY <1>1, <1>5, <1>6, SMTT(60) DEF FrameOK
<1>7. ASSUME NEW j \in Ids, NEW k \in DOMAIN stack[p][j]
      PROVE  stack[p][j][k].op = "exec"
  BY <1>1, <1>5, <1>7 DEF FrameOK
<1> QED  BY <1>1, <1>3, <1>4, <1>6, <1>7

(* A command of i on its way says that its call is not answered.            *)
LEMMA CommandPending ==
    ASSUME TypeOK, CallsInOnePlace, NEW i \in Ids, NEW m \in Cmd, m.thr = i,
           \/ m.op = "ret" /\ CmdOK(Home[i], m)
           \/ m.op = "call" /\ CmdOK(Away(i), m)
    PROVE  m.n \in Nat /\ m.n < nextCall[Home[i]] /\ m.n \in Unanswered(i)
<1>1. m.n \in Nat
  BY Zenon DEF Cmd
<1>2. m.n < nextCall[Home[i]] /\ IsPending(Home[i], m.n, i)
  BY TwoSides, Zenon DEF CmdOK
<1>3. PICK r \in pending[Home[i]] : r.n = m.n /\ r.thr = i
  BY <1>2, Zenon DEF IsPending
<1> QED  BY <1>1, <1>2, <1>3, Zenon DEF Unanswered

(* Every call in a stage is one that home has made and has no answer to.    *)
LEMMA StageFacts ==
    ASSUME TypeOK, CallsInOnePlace, NEW i \in Ids, nextCall[Away(i)] = 0,
           NEW n \in RetQueued(i) \cup RetSent(i) \cup Executing(i)
                        \cup CallQueued(i) \cup CallSent(i)
    PROVE  n \in Nat /\ n < nextCall[Home[i]] /\ n \in Unanswered(i)
<1>1. PICK h \in Endpoints, p \in Endpoints :
         h = Home[i] /\ p = Away(i) /\ Peer(h) = p /\ Peer(p) = h
  BY TwoSides, Zenon
<1>2. ASSUME NEW e \in Endpoints, NEW op, n \in Calls(chan[e], op, i)
      PROVE  \E m \in Cmd : m.thr = i /\ m.op = op /\ m.n = n /\ CmdOK(e, m)
  <2>1. PICK k \in DOMAIN chan[e] : Mine(chan[e][k], op, i) /\ n = chan[e][k].n
    BY <1>2, CallsMember
  <2>2. chan[e] \in Seq(Cmd)
    BY Zenon DEF TypeOK
  <2>3. chan[e][k] \in Cmd /\ CmdOK(e, chan[e][k])
    BY <2>1, <2>2 DEF CallsInOnePlace, ChannelsOK
  <2> QED  BY <2>1, <2>3, Zenon DEF Mine
<1>3. ASSUME NEW e \in Endpoints, NEW op, n \in Calls(queue[e][i], op, i)
      PROVE  \E m \in Cmd : m.thr = i /\ m.op = op /\ m.n = n /\ CmdOK(e, m)
  <2>1. PICK k \in DOMAIN queue[e][i] : Mine(queue[e][i][k], op, i) /\ n = queue[e][i][k].n
    BY <1>3, CallsMember, SMTT(60)
  <2>2. queue[e][i] \in Seq(Cmd)
    BY DEF TypeOK
  <2>3. queue[e][i][k] \in Cmd /\ CmdOK(e, queue[e][i][k])
    BY <2>1, <2>2 DEF CallsInOnePlace, QueuesOK
  <2> QED  BY <2>1, <2>3, Zenon DEF Mine
<1>4. CASE n \in RetQueued(i) \cup RetSent(i)
  <2>1. PICK m \in Cmd : m.thr = i /\ m.op = "ret" /\ m.n = n /\ CmdOK(h, m)
    BY <1>1, <1>2, <1>3, <1>4 DEF RetQueued, RetSent
  <2> QED  BY <1>1, <2>1, CommandPending, Zenon
<1>5. CASE n \in CallQueued(i) \cup CallSent(i)
  <2>1. PICK m \in Cmd : m.thr = i /\ m.op = "call" /\ m.n = n /\ CmdOK(p, m)
    BY <1>1, <1>2, <1>3, <1>5, Zenon DEF CallQueued, CallSent
  <2> QED  BY <1>1, <2>1, CommandPending, Zenon
<1>6. CASE n \in Executing(i)
  <2>1. PICK k \in DOMAIN stack[p][i] : n = stack[p][i][k].n
    BY <1>1, <1>6, Zenon DEF Executing
  <2>2. stack[p][i][k].op = "exec"
    BY <1>1, <2>1, NoCallback
  <2>3. stack[p][i] \in Seq(Frame)
    BY Seqs, Zenon
  <2>4. n \in Nat
    <3>1. stack[p][i][k] \in Frame
      BY <2>1, <2>3
    <3> QED  BY <2>1, <3>1, Zenon DEF Frame
  <2>5. n < nextCall[h] /\ IsPending(h, n, i)
    BY <1>1, <2>1, <2>2, Zenon DEF CallsInOnePlace, FramesOK, FrameOK
  <2>6. PICK r \in pending[Home[i]] : r.n = n /\ r.thr = i
    BY <1>1, <2>5 DEF IsPending
  <2> QED  BY <1>1, <2>4, <2>5, <2>6, Zenon DEF Unanswered
<1> QED  BY <1>4, <1>5, <1>6, Zenon

(* What one channel, between the endpoints, does to the calls of i when a   *)
(* command of another thread is sent or dispatched.                         *)
OthersOnly(f, i) ==
    \/ chan'[f] = chan[f]
    \/ \E x \in Cmd : x.thr # i /\ chan'[f] = Append(chan[f], x)
    \/ chan[f] # <<>> /\ Head(chan[f]).thr # i /\ chan'[f] = Tail(chan[f])

(* Such a channel carries the same calls of i, in the same order.           *)
LEMMA OthersKeep ==
    ASSUME TypeOK, NEW i \in Ids, NEW f \in Endpoints, OthersOnly(f, i), NEW op
    PROVE  /\ InOrder(chan[f], op, i) => Calls(chan'[f], op, i) = Calls(chan[f], op, i)
           /\ InOrder(chan[f], op, i) => InOrder(chan'[f], op, i)
<1>1. chan[f] \in Seq(Cmd)
  BY Zenon DEF TypeOK
<1>2. CASE \E x \in Cmd : x.thr # i /\ chan'[f] = Append(chan[f], x)
  <2>1. PICK x \in Cmd : x.thr # i /\ chan'[f] = Append(chan[f], x)
    BY <1>2, Zenon
  <2>2. ~Mine(x, op, i)
    BY <2>1, Zenon DEF Mine
  <2> QED  BY <1>1, <2>1, <2>2, AppendOther
<1>3. CASE chan[f] # <<>> /\ Head(chan[f]).thr # i /\ chan'[f] = Tail(chan[f])
  <2>1. ~Mine(Head(chan[f]), op, i)
    BY <1>3, Zenon DEF Mine
  <2> QED  BY <1>1, <1>3, <2>1, TailCalls
<1> QED  BY <1>2, <1>3, Zenon DEF OthersOnly

(* No call is trivially in order.                                           *)
LEMMA NoCalls ==
    ASSUME NEW s, NEW op, NEW i, Calls(s, op, i) = {}
    PROVE  InOrder(s, op, i)
BY CallsMember, Zenon DEF InOrder

(* A step on behalf of another thread leaves thread i in order.             *)
LEMMA OtherThread ==
    ASSUME TypeOK, NEW i \in Ids, ThreadOrderly(i),
           \A f \in Endpoints : /\ queue'[f][i] = queue[f][i]
                                /\ stack'[f][i] = stack[f][i]
                                /\ kind'[f][i] = kind[f][i],
           starts'[i] = starts[i], (i \in alive') = (i \in alive),
           nextCall'[Away(i)] = 0 =>
               /\ nextCall[Away(i)] = 0
               /\ \A r \in pending'[Home[i]] : r.thr = i => r \in pending[Home[i]]
               /\ \A f \in Endpoints : OthersOnly(f, i)
    PROVE  ThreadOrderly(i)'
<1>1. PICK h \in Endpoints, p \in Endpoints :
         h = Home[i] /\ p = Away(i) /\ \A e \in Endpoints : e = h \/ e = p
  BY TwoSides, Zenon
<1>2. /\ queue'[h][i] = queue[h][i] /\ queue'[p][i] = queue[p][i]
      /\ stack'[h][i] = stack[h][i] /\ stack'[p][i] = stack[p][i]
      /\ kind'[h][i] = kind[h][i] /\ kind'[p][i] = kind[p][i]
  BY Zenon
<1>3. /\ stack[p][i] # <<>> => stack[p][i][1].op = "exec"
      /\ i \in alive => starts[i] # 0
      /\ nextCall[p] = 0 /\ starts[i] <= 1 /\ i \notin alive => stack[h][i] = <<>>
      /\ Calm(i) => Registered(i) /\ Pipeline(i) /\ Flushed(i)
  BY <1>1, Zenon DEF ThreadOrderly
<1>4. ASSUME Calm(i)'
      PROVE  Registered(i)' /\ Pipeline(i)' /\ Flushed(i)'
  <2>1. /\ nextCall[p] = 0 /\ Calm(i) /\ \A f \in Endpoints : OthersOnly(f, i)
        /\ \A r \in pending'[h] : r.thr = i => r \in pending[h]
    BY <1>1, <1>4, Zenon DEF Calm
  <2>2. Registered(i) /\ Pipeline(i) /\ Flushed(i)
    BY <1>3, <2>1, Zenon
  <2>3. Unanswered(i)' \subseteq Unanswered(i)
    BY <1>1, <2>1, Zenon DEF Unanswered
  <2>4. RetSent(i)' = RetSent(i) /\ InOrder(chan'[h], "ret", i)
    BY <1>1, <2>1, <2>2, OthersKeep, Zenon DEF RetSent, Pipeline
  <2>5. CallSent(i)' = CallSent(i) /\ InOrder(chan'[p], "call", i)
    BY <1>1, <2>1, <2>2, OthersKeep, Zenon DEF CallSent, Pipeline
  <2>6. /\ RetQueued(i)' = RetQueued(i) /\ CallQueued(i)' = CallQueued(i)
        /\ Executing(i)' = Executing(i)
    BY <1>1, <1>2 DEF RetQueued, CallQueued, Executing
  <2>7. Pipeline(i)'
    <3>1. /\ Ascending(RetQueued(i), RetSent(i), Executing(i), CallQueued(i), CallSent(i))
          /\ InOrder(queue[h][i], "ret", i) /\ InOrder(queue[p][i], "call", i)
          /\ Len(stack[p][i]) <= 1
          /\ Unanswered(i) \subseteq
                RetQueued(i) \cup RetSent(i) \cup Executing(i) \cup CallQueued(i) \cup CallSent(i)
      BY <1>1, <2>2, Zenon DEF Pipeline
    <3>2. /\ Ascending(RetQueued(i)', RetSent(i)', Executing(i)', CallQueued(i)', CallSent(i)')
          /\ Unanswered(i)' \subseteq RetQueued(i)' \cup RetSent(i)' \cup Executing(i)'
                                         \cup CallQueued(i)' \cup CallSent(i)'
      BY <2>3, <2>4, <2>5, <2>6, <3>1, Zenon
    <3> QED  BY <1>1, <1>2, <2>4, <2>5, <3>1, <3>2, Zenon DEF Pipeline
  <2>8. Flushed(i)'
    BY <1>1, <1>2, <2>2, <2>3, Zenon DEF Flushed
  <2>9. \A e \in Endpoints : Calls(chan'[e], "exit", i) = {}
    BY <2>1, <2>2, NoCalls, OthersKeep, ZenonT(60) DEF Registered
  <2>10. Registered(i)'
    BY <1>1, <1>2, <2>2, <2>3, <2>9, Zenon DEF Registered
  <2> QED  BY <2>7, <2>8, <2>10, Zenon
<1> QED  BY <1>1, <1>2, <1>3, <1>4, Zenon DEF ThreadOrderly
-----------------------------------------------------------------------------
(* A thread starts: it is new, and nothing of it is under way.              *)
LEMMA StartOrder ==
    ASSUME TypeOK, NEW i \in Ids, ThreadOrderly(i), ThreadStart(i)
    PROVE  ThreadOrderly(i)'
<1>1. /\ i \notin alive /\ alive' = alive \cup {i} /\ starts' = [starts EXCEPT ![i] = @ + 1]
      /\ UNCHANGED <<kind, queue, stack, chan, pending, nextCall>>
  BY Zenon DEF ThreadStart, callVars
<1>2. starts[i] \in Nat /\ starts'[i] = starts[i] + 1
  BY <1>1, BoundsAssumption DEF TypeOK
<1>3. /\ Registered(i)' = Registered(i) /\ Flushed(i)' = Flushed(i)
      /\ Pipeline(i)' = Pipeline(i)
  BY <1>1, ZenonT(60) DEF Registered, Flushed, Pipeline, RetQueued, RetSent, Executing, CallQueued,
              CallSent, Unanswered
<1>4. Calm(i)' => Calm(i)
  BY <1>1, <1>2 DEF Calm
<1>5. i \in alive'
  BY <1>1, Zenon
<1> QED  BY <1>1, <1>2, <1>3, <1>4, <1>5 DEF ThreadOrderly

(* A thread exits outside of its calls.                                     *)
LEMMA ExitOrder ==
    ASSUME TypeOK, NEW i \in Ids, ThreadOrderly(i), ThreadExit(i)
    PROVE  ThreadOrderly(i)'
<1>1. PICK h \in Endpoints : h = Home[i]
  BY TwoSides, Zenon
<1>2. /\ i \in alive /\ alive' = alive \ {i} /\ UNCHANGED <<starts, stack, nextCall>>
      /\ kind[h][i] = "solid" => stack[h][i] = <<>>
  BY <1>1, Zenon DEF ThreadExit, callVars
<1>3. starts[i] # 0 /\ i \notin alive'
  BY <1>2, Zenon DEF ThreadOrderly
<1>4. nextCall[Away(i)] = 0 /\ starts[i] <= 1 => stack[h][i] = <<>>
  <2> SUFFICES ASSUME nextCall[Away(i)] = 0, starts[i] <= 1 PROVE stack[h][i] = <<>>
    BY Zenon
  <2>1. Registered(i)
    BY <1>2, Zenon DEF ThreadOrderly, Calm
  <2> QED  BY <1>1, <1>2, <2>1, Zenon DEF Registered
<1>5. ~Calm(i)'
  BY <1>2, <1>3, Zenon DEF Calm
<1> QED  BY <1>1, <1>2, <1>3, <1>4, <1>5, Zenon DEF ThreadOrderly

(* Once the other side has called, only the bottom frame matters.           *)
LEMMA Disturbed ==
    ASSUME NEW i \in Ids, ThreadOrderly(i), nextCall'[Away(i)] # 0,
           UNCHANGED <<alive, starts>>,
           stack'[Away(i)][i] # <<>> => stack'[Away(i)][i][1].op = "exec"
    PROVE  ThreadOrderly(i)'
<1>1. ~Calm(i)'
  BY Zenon DEF Calm
<1> QED  BY <1>1, Zenon DEF ThreadOrderly

(* The first frame of a stack that grows or shrinks at its top.             *)
LEMMA BottomFrame ==
    ASSUME NEW s \in Seq(Frame), NEW w \in Frame
    PROVE  /\ s # <<>> => Append(s, w)[1] = s[1]
           /\ s = <<>> => Append(s, w)[1] = w
           /\ s # <<>> /\ Pop(s) # <<>> => Pop(s)[1] = s[1]
           /\ s # <<>> /\ Len(s) <= 1 => Pop(s) = <<>> /\ Len(s) = 1 /\ Top(s) = s[1]
<1>1. s # <<>> => Append(s, w)[1] = s[1]
  OBVIOUS
<1>2. s = <<>> => Append(s, w)[1] = w
  OBVIOUS
<1>3. PICK u, L : u = Pop(s) /\ L = Len(s)
  BY Zenon
<1>4. L \in Nat /\ (s # <<>> => L # 0)
  BY <1>3
<1>5. s # <<>> => /\ u \in Seq(Frame) /\ Len(u) = L - 1
                  /\ \A k \in 1 .. L - 1 : u[k] = s[k]
  BY <1>3, PopFacts, Zenon
<1>6. ASSUME s # <<>>, u # <<>> PROVE u[1] = s[1]
  <2>1. Len(u) # 0 /\ Len(u) \in Nat
    BY <1>5, <1>6
  <2>2. 1 \in 1 .. L - 1
    BY <1>4, <1>5, <1>6, <2>1
  <2> QED  BY <1>5, <1>6, <2>2, Zenon
<1>7. ASSUME s # <<>>, L <= 1 PROVE u = <<>> /\ L = 1 /\ Top(s) = s[1]
  <2>1. L = 1
    BY <1>4, <1>7
  <2>2. u = <<>>
    BY <1>5, <1>7, <2>1
  <2> QED  BY <1>3, <2>1, <2>2, Zenon DEF Top
<1> QED  BY <1>1, <1>2, <1>3, <1>6, <1>7, Zenon

(* Leaving a wait loop.                                                     *)
LEMMA ReturnsOrder ==
    ASSUME TypeOK, CallsInOnePlace, NEW i \in Ids, ThreadOrderly(i),
           NEW e \in Endpoints, CallReturns(e, i)
    PROVE  ThreadOrderly(i)'
<1>1. PICK h \in Endpoints, p \in Endpoints :
         h = Home[i] /\ p = Away(i) /\ h # p /\ (e = h \/ e = p)
  BY TwoSides, Zenon
<1>2. /\ stack[e][i] # <<>> /\ Top(stack[e][i]).op = "wait"
      /\ stack' = [stack EXCEPT ![e][i] = Pop(@)]
      /\ UNCHANGED <<alive, starts, kind, queue, chan, pending, nextCall>>
  BY Zenon DEF CallReturns, TopIs, callVars
<1>3. stack \in [Endpoints -> [Ids -> Seq(Frame)]] /\ stack[e][i] \in Seq(Frame)
  BY Seqs, Zenon DEF TypeOK
<1>4. stack'[e][i] = Pop(stack[e][i]) /\ \A f \in Endpoints : f # e => stack'[f][i] = stack[f][i]
  BY <1>2, <1>3, Zenon
<1>5. CASE e = p
  <2>1. Len(stack[p][i]) \in DOMAIN stack[p][i]
    BY <1>2, <1>3, <1>5, PopFacts, SMTT(60)
  <2>2. nextCall[p] # 0
    <3>1. stack[p][i][Len(stack[p][i])].op = "wait"
      BY <1>2, <1>5, Zenon DEF Top
    <3> QED  BY <1>1, <2>1, <3>1, NoCallback
  <2>3. stack'[p][i] # <<>> => stack'[p][i][1].op = "exec"
    <3> SUFFICES ASSUME stack'[p][i] # <<>> PROVE stack'[p][i][1].op = "exec"
      BY Zenon
    <3>1. stack'[p][i][1] = stack[p][i][1]
      <4>1. PICK w : w \in Frame
        BY <1>2, <1>3, PopFacts, Zenon
      <4> QED  BY <1>2, <1>3, <1>4, <1>5, <4>1, BottomFrame, ZenonT(60)
    <3> QED  BY <1>1, <1>2, <1>5, <3>1, Zenon DEF ThreadOrderly
  <2> QED  BY <1>1, <1>2, <2>2, <2>3, Disturbed, Zenon
<1>6. CASE e = h
  <2>1. stack'[p][i] = stack[p][i] /\ stack[h][i] # <<>>
    BY <1>1, <1>2, <1>4, <1>6, Zenon
  <2>2. ~(nextCall[p] = 0 /\ starts[i] <= 1 /\ i \notin alive)
    BY <1>1, <2>1, Zenon DEF ThreadOrderly
  <2>3. Calm(i)' = Calm(i) /\ Unanswered(i)' = Unanswered(i)
    BY <1>2, Zenon DEF Calm, Unanswered
  <2>4. Pipeline(i)' = Pipeline(i)
    <3>1. /\ RetQueued(i)' = RetQueued(i) /\ RetSent(i)' = RetSent(i)
          /\ CallQueued(i)' = CallQueued(i) /\ CallSent(i)' = CallSent(i)
          /\ Executing(i)' = Executing(i)
      BY <1>1, <1>2, <2>1, ZenonT(60) DEF RetQueued, RetSent, Executing, CallQueued, CallSent
    <3> QED  BY <1>1, <1>2, <2>1, <2>3, <3>1, Zenon DEF Pipeline
  <2>5. Registered(i) => Registered(i)'
    BY <1>1, <1>2, <2>1, <2>3, Zenon DEF Registered
  <2>6. Flushed(i) => Flushed(i)'
    <3>1. \A k \in DOMAIN stack'[h][i] : k \in DOMAIN stack[h][i] /\ stack'[h][i][k] = stack[h][i][k]
      <4> PICK s \in Seq(Frame) : s = stack[h][i] /\ s # <<>> /\ stack'[h][i] = Pop(s)
        BY <1>2, <1>3, <1>4, <1>6, Zenon
      <4>1. PICK u : u = stack'[h][i] /\ u = Pop(s) /\ s = stack[h][i] /\ s # <<>>
        BY Zenon
      <4>2. DOMAIN u = 1 .. Len(s) - 1 /\ \A k \in 1 .. Len(s) - 1 : u[k] = s[k]
        BY <4>1, PopFacts, Zenon
      <4>3. \A k \in DOMAIN u : k \in DOMAIN s /\ u[k] = s[k]
        BY <4>1, <4>2, SMTT(30)
      <4> QED  BY <4>1, <4>3, Zenon
    <3> QED  BY <1>1, <2>3, <3>1, Zenon DEF Flushed
  <2> QED  BY <1>1, <1>2, <2>1, <2>2, <2>3, <2>4, <2>5, <2>6, Zenon DEF ThreadOrderly
<1> QED  BY <1>1, <1>5, <1>6, Zenon

(* A shadow that exits: not while the thread is calm.                       *)
LEMMA ShadowOrder ==
    ASSUME TypeOK, CallsInOnePlace, NEW i \in Ids, ThreadOrderly(i),
           NEW e \in Endpoints, HandleExit(e, i) \/ ShadowExit(e, i)
    PROVE  ThreadOrderly(i)'
<1>1. UNCHANGED <<alive, starts, stack, nextCall>>
  BY Zenon DEF HandleExit, ShadowExit, callVars
<1>2. ~Calm(i)
  <2> SUFFICES ASSUME Registered(i) PROVE FALSE
    BY Zenon DEF ThreadOrderly
  <2>1. CASE HandleExit(e, i)
    <3>1. PICK q \in Seq(Cmd) : q = queue[e][i] /\ q # <<>> /\ Head(q).op = "exit"
      BY <2>1, Seqs, Zenon DEF HandleExit, TakesCommands
    <3>2. 1 \in DOMAIN q /\ q[1].op = "exit"
      BY <3>1, TailFacts, Zenon
    <3>3. q[1].thr = i
      BY <3>1, <3>2, Zenon DEF CallsInOnePlace, QueuesOK
    <3>4. q[1].n \in Calls(q, "exit", i)
      BY <3>2, <3>3, CallsMember, Zenon DEF Mine
    <3> QED  BY <3>1, <3>4, Zenon DEF Registered
  <2>2. CASE ShadowExit(e, i)
    BY <2>2, TwoSides, Zenon DEF ShadowExit, Registered
  <2> QED  BY <2>1, <2>2, Zenon
<1>3. ~Calm(i)'
  BY <1>1, <1>2, Zenon DEF Calm
<1> QED  BY <1>1, <1>3, Zenon DEF ThreadOrderly

(* A callback disturbs the thread.                                          *)
LEMMA CallbackOrder ==
    ASSUME TypeOK, CallsInOnePlace, NEW i \in Ids, ThreadOrderly(i),
           NEW e \in Endpoints, NEW mode, HandlerCall(e, i, mode)
    PROVE  ThreadOrderly(i)'
<1>1. PICK h \in Endpoints, p \in Endpoints :
         h = Home[i] /\ p = Away(i) /\ h # p /\ (e = h \/ e = p)
  BY TwoSides, Zenon
<1>2. /\ stack[e][i] # <<>> /\ Top(stack[e][i]).op = "exec"
      /\ UNCHANGED <<alive, starts>>
      /\ nextCall' = [nextCall EXCEPT ![e] = nextCall[e] + 1]
      /\ \/ stack' = stack
         \/ stack' = [stack EXCEPT ![e][i] =
                        Append(@, [op |-> "wait", n |-> nextCall[e], done |-> FALSE])]
  BY Zenon DEF HandlerCall, SendCall, TopIs
<1>3. /\ stack \in [Endpoints -> [Ids -> Seq(Frame)]] /\ stack[e][i] \in Seq(Frame)
      /\ nextCall \in [Endpoints -> 0 .. MaxCalls] /\ nextCall[e] \in Nat
  BY Seqs, Zenon DEF TypeOK
<1>4. CASE e = p
  <2>1. nextCall'[p] # 0
    BY <1>2, <1>3, <1>4
  <2>2. stack'[p][i][1] = stack[p][i][1]
    <3>1. PICK w \in Frame : w = [op |-> "wait", n |-> nextCall[e], done |-> FALSE]
      BY <1>3, Zenon DEF Frame
    <3>2. stack'[p][i] = stack[p][i] \/ stack'[p][i] = Append(stack[p][i], w)
      BY <1>2, <1>3, <1>4, <3>1
    <3>3. PICK s \in Seq(Frame) : s = stack[p][i] /\ s # <<>>
      BY <1>2, <1>3, <1>4, Zenon
    <3>4. Append(s, w)[1] = s[1]
      BY <3>3, BottomFrame, Zenon
    <3> QED  BY <3>2, <3>3, <3>4, Zenon
  <2>3. stack'[p][i] # <<>> => stack'[p][i][1].op = "exec"
    BY <1>1, <1>2, <1>4, <2>2, Zenon DEF ThreadOrderly
  <2> QED  BY <1>1, <1>2, <2>1, <2>3, Disturbed, Zenon
<1>5. CASE e = h
  <2>1. Len(stack[h][i]) \in DOMAIN stack[h][i]
    BY <1>2, <1>3, <1>5, PopFacts
  <2>2. stack[h][i][Len(stack[h][i])].op = "exec"
    BY <1>2, <1>5, Zenon DEF Top
  <2>3. nextCall[p] # 0
    BY <1>1, <2>1, <2>2, NoCallback, ZenonT(60)
  <2>4. nextCall'[p] = nextCall[p] /\ stack'[p][i] = stack[p][i]
    BY <1>1, <1>2, <1>3, <1>5, Zenon
  <2> QED  BY <1>1, <1>2, <2>3, <2>4, Disturbed, Zenon DEF ThreadOrderly
<1> QED  BY <1>1, <1>4, <1>5, Zenon

(* A call of the thread itself enters the last stage.                       *)
LEMMA AppCallOrder ==
    ASSUME TypeOK, CallsInOnePlace, NEW i \in Ids, ThreadOrderly(i),
           NEW mode, AppCall(i, mode)
    PROVE  ThreadOrderly(i)'
<1>1. PICK h \in Endpoints, p \in Endpoints :
         /\ h = Home[i] /\ p = Away(i) /\ h # p /\ p = Peer(h)
         /\ \A f \in Endpoints : f = h \/ f = p
  BY TwoSides, Zenon
<1>2. CASE UNCHANGED <<kind, stack, chan, callVars>>
  <2>1. UNCHANGED <<alive, starts, queue, kind, stack, chan, pending, nextCall>>
    BY <1>2, Zenon DEF AppCall, callVars
  <2>2. \A f \in Endpoints : OthersOnly(f, i)
    BY <2>1, Zenon DEF OthersOnly
  <2> QED  BY <2>1, <2>2, OtherThread, Zenon
<1>3. CASE ~UNCHANGED <<kind, stack, chan, callVars>>
  <2>1. PICK n : n = nextCall[h]
    BY Zenon
  <2>2. n \in Nat
    BY <2>1, Seqs, Zenon
  <2>3. PICK w \in Frame : w = [op |-> "wait", n |-> n, done |-> FALSE]
    BY <2>2, Zenon DEF Frame
  <2>4. PICK x \in Cmd : x = CallCmd(i, n)
    BY <2>2, Zenon DEF CallCmd, Cmd
  <2>5. /\ i \in alive /\ stack[h][i] = <<>>
        /\ kind' = [kind EXCEPT ![h][i] = "solid"] /\ SendCall(h, i, mode)
        /\ UNCHANGED <<alive, starts, queue>>
    BY <1>1, <1>3, Zenon DEF AppCall, SelfEntry
  <2>6. /\ nextCall' = [nextCall EXCEPT ![h] = n + 1]
        /\ pending' = [pending EXCEPT ![h] = @ \cup {[n |-> n, thr |-> i]}]
        /\ chan' = [chan EXCEPT ![p] = Append(@, x)]
        /\ stack' = stack \/ stack' = [stack EXCEPT ![h][i] = Append(@, w)]
    BY <1>1, <2>1, <2>3, <2>4, <2>5, Zenon DEF SendCall
  <2>7. /\ chan'[p] = Append(chan[p], x) /\ chan'[h] = chan[h]
        /\ nextCall'[p] = nextCall[p]
        /\ kind'[h][i] = "solid" /\ kind'[p][i] = kind[p][i]
        /\ stack'[p][i] = stack[p][i]
        /\ stack'[h][i] = <<>> \/ stack'[h][i] = <<w>>
    <3>1. /\ chan \in [Endpoints -> Seq(Cmd)] /\ nextCall \in [Endpoints -> 0 .. MaxCalls]
          /\ kind \in [Endpoints -> [Ids -> Kinds]]
          /\ stack \in [Endpoints -> [Ids -> Seq(Frame)]]
      BY Zenon DEF TypeOK
    <3>2. /\ chan'[p] = Append(chan[p], x) /\ chan'[h] = chan[h]
          /\ nextCall'[p] = nextCall[p]
      BY <1>1, <2>6, <3>1, Zenon
    <3>3. kind'[h][i] = "solid" /\ kind'[p][i] = kind[p][i]
      BY <1>1, <2>5, <3>1, Zenon
    <3>4. stack'[p][i] = stack[p][i] /\ (stack'[h][i] = <<>> \/ stack'[h][i] = <<w>>)
      <4>1. CASE stack' = stack
        BY <2>5, <4>1, Zenon
      <4>2. CASE stack' = [stack EXCEPT ![h][i] = Append(@, w)]
        <5>1. stack'[p][i] = stack[p][i] /\ stack'[h][i] = Append(stack[h][i], w)
          BY <1>1, <3>1, <4>2, Zenon
        <5>2. Append(<<>>, w) = <<w>>
          BY SMTT(30)
        <5> QED  BY <2>5, <5>1, <5>2, Zenon
      <4> QED  BY <2>6, <4>1, <4>2, Zenon
    <3> QED  BY <3>2, <3>3, <3>4, Zenon
  <2>8. Unanswered(i)' \subseteq Unanswered(i) \cup {n}
    <3>1. pending'[h] = pending[h] \cup {[n |-> n, thr |-> i]}
      BY <2>6, Zenon DEF TypeOK
    <3>2. ASSUME NEW r \in pending'[h], r.thr = i
          PROVE  r.n \in Unanswered(i) \cup {n}
      BY <1>1, <3>1, <3>2 DEF Unanswered
    <3> QED  BY <1>1, <3>2, Zenon DEF Unanswered
  <2>9. ASSUME Calm(i)'
        PROVE  Registered(i)' /\ Pipeline(i)' /\ Flushed(i)'
    <3>1. Calm(i) /\ nextCall[p] = 0
      BY <1>1, <2>5, <2>7, <2>9, Zenon DEF Calm
    <3>2. Registered(i) /\ Pipeline(i) /\ Flushed(i)
      BY <3>1, Zenon DEF ThreadOrderly
    <3>3. PICK A, B, C, D, E : /\ A = RetQueued(i) /\ B = RetSent(i) /\ C = Executing(i)
                               /\ D = CallQueued(i) /\ E = CallSent(i)
      BY Zenon
    <3>4. \A y \in A \cup B \cup C \cup D \cup E : y < n
      BY <1>1, <2>1, <3>1, <3>3, StageFacts, Zenon
    <3>5. Mine(x, "call", i) /\ ~Mine(x, "exit", i) /\ x.n = n
      BY <2>4, Zenon DEF Mine, CallCmd
    <3>6. chan[p] \in Seq(Cmd) /\ InOrder(chan[p], "call", i) /\ E = Calls(chan[p], "call", i)
      BY <1>1, <3>2, <3>3, Seqs, Zenon DEF Pipeline, CallSent
    <3>7. Calls(chan'[p], "call", i) = E \cup {n} /\ InOrder(chan'[p], "call", i)
      BY <2>7, <3>4, <3>5, <3>6, AppendMine
    <3>8. Ascending(A, B, C, D, E \cup {n})
      BY <3>2, <3>3, <3>4, NewCall, Zenon DEF Pipeline
    <3>9. /\ RetQueued(i)' = A /\ RetSent(i)' = B /\ Executing(i)' = C /\ CallQueued(i)' = D
          /\ CallSent(i)' = E \cup {n}
      BY <1>1, <2>5, <2>7, <3>3, <3>7, ZenonT(60)
         DEF RetQueued, RetSent, Executing, CallQueued, CallSent
    <3>10. Unanswered(i)' \subseteq A \cup B \cup C \cup D \cup (E \cup {n})
      BY <2>8, <3>2, <3>3, Zenon DEF Pipeline
    <3>11. Pipeline(i)'
      BY <1>1, <2>5, <2>7, <3>2, <3>7, <3>8, <3>9, <3>10, Zenon DEF Pipeline
    <3>12. Calls(chan'[p], "exit", i) = {}
      <4>1. Calls(chan[p], "exit", i) = {}
        BY <3>2, Zenon DEF Registered
      <4>2. Calls(Append(chan[p], x), "exit", i) = Calls(chan[p], "exit", i)
        BY <3>5, <3>6, AppendOther
      <4> QED  BY <2>7, <4>1, <4>2, Zenon
    <3>13. Registered(i)'
      BY <1>1, <2>5, <2>7, <3>2, <3>12, Zenon DEF Registered
    <3>14. Flushed(i)'
      <4>1. \A k \in DOMAIN stack'[h][i] : stack'[h][i][k] = w
        BY <2>7
      <4>2. ~w.done
        BY <2>3, Zenon
      <4> QED  BY <1>1, <4>1, <4>2, Zenon DEF Flushed
    <3> QED  BY <3>11, <3>13, <3>14, Zenon
  <2> QED  BY <1>1, <2>5, <2>7, <2>9, Zenon DEF ThreadOrderly
<1> QED  BY <1>2, <1>3, Zenon

-----------------------------------------------------------------------------
(* The dispatcher finds the thread and its shadow known, and moves the call *)
(* to the next stage.                                                       *)
LEMMA DispatchOrder ==
    ASSUME TypeOK, CallsInOnePlace, NEW i \in Ids, ThreadOrderly(i),
           NEW e \in Endpoints, kind[e][i] = "none" => queue[e][i] = <<>>,
           Dispatch(e), Head(chan[e]).thr = i, ~Ended'
    PROVE  ThreadOrderly(i)'
<1>1. PICK h \in Endpoints, p \in Endpoints :
         /\ h = Home[i] /\ p = Away(i) /\ h # p /\ (e = h \/ e = p)
         /\ \A f \in Endpoints : f = h \/ f = p
  BY TwoSides, ZenonT(60)
<1>2. PICK m : m = Head(chan[e])
  BY Zenon
<1>3. /\ chan[e] # <<>> /\ chan' = [chan EXCEPT ![e] = Tail(@)]
      /\ UNCHANGED <<alive, starts, stack, pending, nextCall>>
  BY Zenon DEF Dispatch, callVars
<1>4. chan \in [Endpoints -> Seq(Cmd)] /\ chan[e] \in Seq(Cmd)
  BY Zenon DEF TypeOK
<1>5. /\ chan'[e] = Tail(chan[e]) /\ m = chan[e][1] /\ 1 \in DOMAIN chan[e] /\ m \in Cmd
      /\ \A f \in Endpoints : f # e => chan'[f] = chan[f]
  BY <1>2, <1>3, <1>4, SMTT(30)
<1>6. m.thr = i /\ CmdOK(e, m) /\ m.op \in {"call", "ret", "exit"}
  BY <1>2, <1>5, Zenon DEF CallsInOnePlace, ChannelsOK, Cmd
<1>7. ASSUME Calm(i)'
      PROVE  Registered(i)' /\ Pipeline(i)' /\ Flushed(i)'
  <2>1. Calm(i) /\ nextCall[p] = 0
    BY <1>1, <1>3, <1>7, Zenon DEF Calm
  <2>2. Registered(i) /\ Pipeline(i) /\ Flushed(i)
    BY <2>1, Zenon DEF ThreadOrderly
  <2>3. m.op # "exit"
    <3>1. Calls(chan[e], "exit", i) = {}
      BY <2>2, ZenonT(60) DEF Registered
    <3> QED  BY <1>5, <1>6, <3>1, CallsMember, Zenon DEF Mine
  <2>4. m.op = IF e = h THEN "ret" ELSE "call"
    BY <1>1, <1>5, <1>6, <2>1, <2>3, NoCallback, SMTT(60)
  <2>5. m.n \in Unanswered(i)
    BY <1>1, <1>5, <1>6, <2>4, CommandPending, ZenonT(60)
  <2>6. /\ queue' = [queue EXCEPT ![e][i] = Append(@, m)]
        /\ \/ kind' = kind
           \/ e = p /\ kind' = [kind EXCEPT ![p][i] = "shadow"]
    <3>1. e = h => kind[h][i] # "none"
      BY <1>1, <2>2, <2>5, Zenon DEF Registered
    <3>2. NeedsShadow(m)
      BY <2>3, Zenon DEF NeedsShadow
    <3>3. \/ /\ queue' = [queue EXCEPT ![e][i] = Append(@, m)]
             /\ kind' = kind
          \/ /\ kind[e][i] = "none"
             /\ kind' = [kind EXCEPT ![e][i] = "shadow"]
             /\ queue' = [queue EXCEPT ![e][i] = <<m>>]
      BY <1>2, <3>2, Zenon DEF Dispatch, Push, Ended
    <3>4. queue[e][i] = <<>> => Append(queue[e][i], m) = <<m>>
      OBVIOUS
    <3> QED  BY <1>1, <3>1, <3>3, <3>4, Zenon
  <2>7. /\ queue'[e][i] = Append(queue[e][i], m)
        /\ \A f \in Endpoints : f # e => queue'[f][i] = queue[f][i]
        /\ kind'[h][i] = kind[h][i] /\ kind'[p][i] # "dying"
    <3>1. /\ queue \in [Endpoints -> [Ids -> Seq(Cmd)]]
          /\ kind \in [Endpoints -> [Ids -> Kinds]]
      BY Zenon DEF TypeOK
    <3>2. kind[p][i] # "dying"
      BY <1>1, <2>2, Zenon DEF Registered
    <3>3. kind'[h][i] = kind[h][i] /\ kind'[p][i] # "dying"
      BY <1>1, <2>6, <3>1, <3>2, SMTT(60)
    <3> QED  BY <2>6, <3>1, <3>3, Zenon
  <2>8. PICK A, B, C, D, E : /\ A = RetQueued(i) /\ B = RetSent(i) /\ C = Executing(i)
                             /\ D = CallQueued(i) /\ E = CallSent(i)
    BY Zenon
  <2>9. /\ Ascending(A, B, C, D, E) /\ Len(stack[p][i]) <= 1
        /\ Unanswered(i) \subseteq A \cup B \cup C \cup D \cup E
        /\ InOrder(queue[h][i], "ret", i) /\ InOrder(chan[h], "ret", i)
        /\ InOrder(queue[p][i], "call", i) /\ InOrder(chan[p], "call", i)
    BY <1>1, <2>2, <2>8, Zenon DEF Pipeline
  <2>10. Unanswered(i)' = Unanswered(i) /\ Executing(i)' = C
    BY <1>3, <2>8, Zenon DEF Unanswered, Executing
  <2>11. PICK q \in Seq(Cmd) : q = queue[e][i] /\ queue'[e][i] = Append(q, m)
    BY <2>7, Seqs, Zenon
  <2>12. Pipeline(i)'
    <3>1. CASE e = h
      <4>1. Mine(m, "ret", i)
        BY <1>6, <2>4, <3>1, Zenon DEF Mine
      <4>2. PICK F : F = Calls(chan'[h], "ret", i)
        BY Zenon
      <4>3. /\ InOrder(chan'[h], "ret", i) /\ F \in SUBSET B /\ m.n \in B
            /\ B = {m.n} \cup F /\ \A y \in F : m.n < y
        <5>1. PICK c \in Seq(Cmd) : c = chan[h]
          BY Seqs, Zenon
        <5>2. /\ c # <<>> /\ chan'[h] = Tail(c) /\ Head(c) = m
              /\ InOrder(c, "ret", i) /\ B = Calls(c, "ret", i)
          BY <1>1, <1>2, <1>3, <1>5, <2>8, <2>9, <3>1, <5>1, ZenonT(60) DEF RetSent
        <5>3. /\ InOrder(Tail(c), "ret", i) /\ Head(c).n \in Calls(c, "ret", i)
              /\ Calls(c, "ret", i) = {Head(c).n} \cup Calls(Tail(c), "ret", i)
              /\ \A y \in Calls(Tail(c), "ret", i) : Head(c).n < y
          <6>1. c # <<>> /\ InOrder(c, "ret", i) /\ Mine(Head(c), "ret", i)
            BY <4>1, <5>2, Zenon
          <6> QED  BY <6>1, TailCalls
        <5> QED  BY <4>2, <5>2, <5>3, Zenon
      <4>4. \A a \in A : a < m.n
        BY <2>9, <4>3, Zenon DEF Ascending, Below
      <4>5. Calls(queue'[h][i], "ret", i) = A \cup {m.n} /\ InOrder(queue'[h][i], "ret", i)
        <5>1. InOrder(q, "ret", i) /\ Calls(q, "ret", i) = A
          BY <1>1, <2>8, <2>9, <2>11, <3>1, ZenonT(60) DEF RetQueued
        <5>2. Calls(Append(q, m), "ret", i) = A \cup {m.n} /\ InOrder(Append(q, m), "ret", i)
          BY <1>5, <4>1, <4>4, <5>1, AppendMine, SMTT(60)
        <5> QED  BY <2>11, <3>1, <5>2, Zenon
      <4>6. Ascending(A \cup {m.n}, F, C, D, E)
        BY <2>9, <4>3, RetArrives, Zenon
      <4>7. queue'[p][i] = queue[p][i] /\ chan'[p] = chan[p]
        BY <1>1, <1>5, <2>7, <3>1, Zenon
      <4>8. /\ RetQueued(i)' = A \cup {m.n} /\ RetSent(i)' = F
            /\ CallQueued(i)' = D /\ CallSent(i)' = E
        BY <1>1, <2>8, <4>2, <4>5, <4>7, Zenon DEF RetQueued, RetSent, CallQueued, CallSent
      <4>9. Unanswered(i)' \subseteq (A \cup {m.n}) \cup F \cup C \cup D \cup E
        BY <2>9, <2>10, <4>3, Zenon
      <4> QED  BY <1>1, <1>3, <2>9, <2>10, <4>3, <4>5, <4>6, <4>7, <4>8, <4>9, ZenonT(60) DEF Pipeline
    <3>2. CASE e = p
      <4>1. Mine(m, "call", i)
        BY <1>1, <1>6, <2>4, <3>2, Zenon DEF Mine
      <4>2. PICK F : F = Calls(chan'[p], "call", i)
        BY Zenon
      <4>3. /\ InOrder(chan'[p], "call", i) /\ F \in SUBSET E /\ m.n \in E
            /\ E = {m.n} \cup F /\ \A y \in F : m.n < y
        <5>1. PICK c \in Seq(Cmd) : c = chan[p]
          BY Seqs, Zenon
        <5>2. /\ c # <<>> /\ chan'[p] = Tail(c) /\ Head(c) = m
              /\ InOrder(c, "call", i) /\ E = Calls(c, "call", i)
          BY <1>1, <1>2, <1>3, <1>5, <2>8, <2>9, <3>2, <5>1, ZenonT(60) DEF CallSent
        <5>3. /\ InOrder(Tail(c), "call", i) /\ Head(c).n \in Calls(c, "call", i)
              /\ Calls(c, "call", i) = {Head(c).n} \cup Calls(Tail(c), "call", i)
              /\ \A y \in Calls(Tail(c), "call", i) : Head(c).n < y
          <6>1. c # <<>> /\ InOrder(c, "call", i) /\ Mine(Head(c), "call", i)
            BY <4>1, <5>2, Zenon
          <6> QED  BY <6>1, TailCalls
        <5> QED  BY <4>2, <5>2, <5>3, Zenon
      <4>4. \A a \in D : a < m.n
        BY <2>9, <4>3, Zenon DEF Ascending, Below
      <4>5. Calls(queue'[p][i], "call", i) = D \cup {m.n} /\ InOrder(queue'[p][i], "call", i)
        <5>1. InOrder(q, "call", i) /\ Calls(q, "call", i) = D
          BY <1>1, <2>8, <2>9, <2>11, <3>2, Zenon DEF CallQueued
        <5>2. Calls(Append(q, m), "call", i) = D \cup {m.n} /\ InOrder(Append(q, m), "call", i)
          <6>1. m \in Cmd /\ Mine(m, "call", i) /\ InOrder(q, "call", i)
            BY <1>5, <4>1, <5>1, Zenon
          <6>2. \A a \in Calls(q, "call", i) : a < m.n
            BY <4>4, <5>1, Zenon
          <6> QED  BY <5>1, <6>1, <6>2, AppendMine, ZenonT(60)
        <5> QED  BY <2>11, <3>2, <5>2, Zenon
      <4>6. Ascending(A, B, C, D \cup {m.n}, F)
        BY <2>9, <4>3, CallArrives, Zenon
      <4>7. queue'[h][i] = queue[h][i] /\ chan'[h] = chan[h]
        BY <1>1, <1>5, <2>7, <3>2, Zenon
      <4>8. /\ RetQueued(i)' = A /\ RetSent(i)' = B
            /\ CallQueued(i)' = D \cup {m.n} /\ CallSent(i)' = F
        BY <1>1, <2>8, <4>2, <4>5, <4>7, Zenon DEF RetQueued, RetSent, CallQueued, CallSent
      <4>9. Unanswered(i)' \subseteq A \cup B \cup C \cup (D \cup {m.n}) \cup F
        BY <2>9, <2>10, <4>3, ZenonT(60)
      <4> QED  BY <1>1, <1>3, <2>9, <2>10, <4>3, <4>5, <4>6, <4>7, <4>8, <4>9, ZenonT(60) DEF Pipeline
    <3> QED  BY <1>1, <3>1, <3>2, Zenon
  <2>13. ASSUME NEW f \in Endpoints
         PROVE  Calls(chan'[f], "exit", i) = {} /\ Calls(queue'[f][i], "exit", i) = {}
    <3>1. Calls(chan[f], "exit", i) = {} /\ Calls(queue[f][i], "exit", i) = {}
      BY <2>2, Zenon DEF Registered
    <3>2. CASE f = e
      <4>1. InOrder(chan[f], "exit", i) /\ ~Mine(m, "exit", i)
        BY <2>3, <3>1, NoCalls, ZenonT(60) DEF Mine
      <4>2. Calls(chan'[f], "exit", i) = {}
        BY <1>3, <1>4, <1>5, <3>1, <3>2, <4>1, TailCalls, SMTT(60)
      <4>3. Calls(queue'[f][i], "exit", i) = {}
        <5>1. Calls(Append(q, m), "exit", i) = Calls(q, "exit", i)
          BY <1>5, <4>1, AppendOther, SMTT(30)
        <5> QED  BY <2>11, <3>1, <3>2, <5>1, ZenonT(60)
      <4> QED  BY <4>2, <4>3, Zenon
    <3>3. CASE f # e
      BY <1>5, <2>7, <3>1, <3>3, Zenon
    <3> QED  BY <3>2, <3>3, Zenon
  <2>14. Registered(i)'
    BY <1>1, <1>3, <2>2, <2>7, <2>10, <2>13, Zenon DEF Registered
  <2>15. Flushed(i)'
    BY <1>3, <2>2, <2>10, ZenonT(60) DEF Flushed
  <2> QED  BY <2>12, <2>14, <2>15, Zenon
<1> QED  BY <1>3, <1>7, Zenon DEF ThreadOrderly

(* A CALL of the thread is taken up by its idle shadow.                     *)
LEMMA HandleCallOrder ==
    ASSUME TypeOK, CallsInOnePlace, NEW i \in Ids, ThreadOrderly(i),
           NEW e \in Endpoints, HandleCall(e, i)
    PROVE  ThreadOrderly(i)'
<1>1. PICK h \in Endpoints, p \in Endpoints :
         /\ h = Home[i] /\ p = Away(i) /\ h # p /\ (e = h \/ e = p)
         /\ \A f \in Endpoints : f = h \/ f = p
  BY TwoSides, Zenon
<1>2. PICK q \in Seq(Cmd), s \in Seq(Frame) : q = queue[e][i] /\ s = stack[e][i]
  BY Seqs, Zenon
<1>3. PICK m : m = Head(q)
  BY Zenon
<1>4. /\ q # <<>> /\ m.op = "call" /\ queue' = [queue EXCEPT ![e][i] = Tail(@)]
      /\ stack' = [stack EXCEPT ![e][i] = Append(@, [op |-> "exec", n |-> m.n, done |-> FALSE])]
      /\ UNCHANGED <<alive, starts, kind, chan, pending, nextCall>>
      /\ s = <<>> \/ (s # <<>> /\ Top(s).op = "wait")
  BY <1>2, <1>3, Zenon DEF HandleCall, TakesCommands, Drop, Popped, TopIs
<1>5. 1 \in DOMAIN q /\ m = q[1] /\ m \in Cmd
  BY <1>3, <1>4, SMTT(30)
<1>6. m.thr = i /\ CmdOK(e, m) /\ m.n \in Nat
  BY <1>2, <1>5, ZenonT(60) DEF CallsInOnePlace, QueuesOK, Cmd
<1>7. PICK x \in Frame : x = [op |-> "exec", n |-> m.n, done |-> FALSE]
  BY <1>6, Zenon DEF Frame
<1>8. /\ queue'[e][i] = Tail(q) /\ stack'[e][i] = Append(s, x)
      /\ \A f \in Endpoints : f # e => queue'[f][i] = queue[f][i] /\ stack'[f][i] = stack[f][i]
  BY <1>2, <1>4, <1>7, Zenon DEF TypeOK
<1>9. CASE e = h
  <2>1. nextCall[p] # 0
    BY <1>1, <1>4, <1>5, <1>6, <1>9, NoCallback, SMTT(60)
  <2>2. stack'[p][i] = stack[p][i]
    BY <1>1, <1>8, <1>9, Zenon
  <2> QED  BY <1>1, <1>4, <2>1, <2>2, Disturbed, ZenonT(60) DEF ThreadOrderly
<1>10. CASE e = p
  <2>1. stack'[p][i][1].op = "exec"
    <3>1. s # <<>> => s[1].op = "exec"
      BY <1>1, <1>2, <1>10, Zenon DEF ThreadOrderly
    <3>2. Append(s, x)[1] = IF s = <<>> THEN x ELSE s[1]
      BY BottomFrame, Zenon
    <3> QED  BY <1>7, <1>8, <1>10, <3>1, <3>2, SMTT(60)
  <2>2. stack'[h][i] = stack[h][i] /\ queue'[h][i] = queue[h][i]
    BY <1>1, <1>8, <1>10, Zenon
  <2>3. ASSUME Calm(i)'
        PROVE  Registered(i)' /\ Pipeline(i)' /\ Flushed(i)'
    <3>1. Calm(i) /\ nextCall[p] = 0
      BY <1>1, <1>4, <2>3, Zenon DEF Calm
    <3>2. Registered(i) /\ Pipeline(i) /\ Flushed(i)
      BY <3>1, Zenon DEF ThreadOrderly
    <3>3. s = <<>>
      <4> SUFFICES ASSUME s # <<>>, Top(s).op = "wait" PROVE FALSE
        BY <1>4, Zenon
      <4>1. Len(s) \in DOMAIN s /\ s[Len(s)].op = "wait"
        BY PopFacts DEF Top
      <4> QED  BY <1>1, <1>2, <1>10, <3>1, <4>1, NoCallback, ZenonT(60)
    <3>4. PICK A, B, C, D, E : /\ A = RetQueued(i) /\ B = RetSent(i) /\ C = Executing(i)
                               /\ D = CallQueued(i) /\ E = CallSent(i)
      BY Zenon
    <3>5. /\ Ascending(A, B, C, D, E)
          /\ Unanswered(i) \subseteq A \cup B \cup C \cup D \cup E
          /\ InOrder(queue[h][i], "ret", i) /\ InOrder(chan[h], "ret", i)
          /\ InOrder(q, "call", i) /\ InOrder(chan[p], "call", i) /\ D = Calls(q, "call", i)
      BY <1>1, <1>2, <1>10, <3>2, <3>4, Zenon DEF Pipeline, CallQueued
    <3>6. C = {}
      <4>1. DOMAIN s = {}
        BY <3>3
      <4> QED  BY <1>1, <1>2, <1>10, <3>4, <4>1, Zenon DEF Executing
    <3>7. PICK F : F = Calls(Tail(q), "call", i)
      BY Zenon
    <3>8. /\ InOrder(Tail(q), "call", i) /\ F \in SUBSET D /\ m.n \in D
          /\ D = {m.n} \cup F /\ \A y \in F : m.n < y
      <4>1. Mine(m, "call", i)
        BY <1>4, <1>6, Zenon DEF Mine
      <4> QED  BY <1>3, <1>4, <3>5, <3>7, <4>1, TailCalls, Zenon
    <3>9. Ascending(A, B, {m.n}, F, E)
      BY <3>5, <3>6, <3>8, CallBegins, Zenon
    <3>10. Executing(i)' = {m.n} /\ Len(stack'[p][i]) <= 1
      <4>1. stack'[p][i] = <<x>>
        BY <1>8, <1>10, <3>3, SMTT(60)
      <4>2. DOMAIN <<x>> = {1} /\ <<x>>[1] = x /\ Len(<<x>>) = 1 /\ x.n = m.n
        BY <1>7, SMTT(30)
      <4> QED  BY <1>1, <4>1, <4>2, SMTT(60) DEF Executing
    <3>11. /\ RetQueued(i)' = A /\ RetSent(i)' = B /\ CallQueued(i)' = F /\ CallSent(i)' = E
           /\ Unanswered(i)' = Unanswered(i)
      BY <1>1, <1>4, <1>8, <1>10, <2>2, <3>4, <3>7, ZenonT(60)
         DEF RetQueued, RetSent, CallQueued, CallSent, Unanswered
    <3>12. Unanswered(i)' \subseteq A \cup B \cup {m.n} \cup F \cup E
      BY <3>5, <3>6, <3>8, <3>11, ZenonT(60)
    <3>13. Pipeline(i)'
      BY <1>1, <1>4, <1>8, <1>10, <2>2, <3>5, <3>8, <3>9, <3>10, <3>11, <3>12, ZenonT(60) DEF Pipeline
    <3>14. Calls(queue'[p][i], "exit", i) = {}
      <4>1. Calls(q, "exit", i) = {}
        BY <1>2, <3>2, Zenon DEF Registered
      <4>2. InOrder(q, "exit", i) /\ ~Mine(m, "exit", i)
        BY <1>4, <4>1, NoCalls, Zenon DEF Mine
      <4>3. Calls(Tail(q), "exit", i) = {}
        BY <1>3, <1>4, <4>1, <4>2, TailCalls, Zenon
      <4> QED  BY <1>8, <1>10, <4>3, Zenon
    <3>15. Registered(i)'
      BY <1>1, <1>4, <2>2, <3>2, <3>11, <3>14, Zenon DEF Registered
    <3>16. Flushed(i)'
      BY <1>1, <2>2, <3>2, <3>11, Zenon DEF Flushed
    <3> QED  BY <3>13, <3>15, <3>16, Zenon
  <2> QED  BY <1>1, <1>4, <2>1, <2>2, <2>3, Zenon DEF ThreadOrderly
<1> QED  BY <1>1, <1>9, <1>10, Zenon

(* The handler of the thread's call returns, and its RET is sent.           *)
LEMMA SendReturnOrder ==
    ASSUME TypeOK, CallsInOnePlace, NEW i \in Ids, ThreadOrderly(i),
           NEW e \in Endpoints, SendReturn(e, i)
    PROVE  ThreadOrderly(i)'
<1>1. PICK h \in Endpoints, p \in Endpoints :
         /\ h = Home[i] /\ p = Away(i) /\ h # p /\ (e = h \/ e = p) /\ Peer(p) = h
         /\ \A f \in Endpoints : f = h \/ f = p
  BY TwoSides, Zenon
<1> PICK s \in Seq(Frame) : s = stack[e][i]
  BY Seqs, Zenon
<1>2. PICK n : s = stack[e][i] /\ n = Top(s).n
  BY Zenon
<1>3. /\ s # <<>> /\ Top(s).op = "exec"
      /\ chan' = [chan EXCEPT ![Peer(e)] = Append(@, RetCmd(i, n))]
      /\ stack' = [stack EXCEPT ![e][i] = Pop(@)]
      /\ UNCHANGED <<alive, starts, kind, queue, pending, nextCall>>
  BY <1>2, Zenon DEF SendReturn, TopIs, Reply
<1>4. Len(s) \in DOMAIN s /\ s[Len(s)].op = "exec" /\ Top(s) \in Frame
  BY <1>3, PopFacts DEF Top
<1>5. n \in Nat
  BY <1>2, <1>4, Zenon DEF Frame
<1>6. PICK x \in Cmd : x = RetCmd(i, n)
  BY <1>5, Zenon DEF RetCmd, Cmd
<1>7. /\ stack'[e][i] = Pop(s)
      /\ \A f \in Endpoints : f # e => stack'[f][i] = stack[f][i]
  BY <1>2, <1>3, Zenon DEF TypeOK
<1>8. CASE e = h
  <2>1. nextCall[p] # 0
    <3>1. SUFFICES ASSUME nextCall[p] = 0
                   PROVE  FALSE
      BY Zenon
    <3>2. nextCall[Away(i)] = 0 /\ s = stack[Home[i]][i]
      BY <1>1, <1>2, <1>8, <3>1, Zenon
    <3>3. \A k \in DOMAIN stack[Home[i]][i] : stack[Home[i]][i][k].op = "wait"
      BY <3>2, NoCallback, Zenon
    <3> QED  BY <1>4, <3>2, <3>3, Zenon
  <2>2. stack'[p][i] = stack[p][i]
    BY <1>1, <1>7, <1>8, Zenon
  <2> QED  BY <1>1, <1>3, <2>1, <2>2, Disturbed, Zenon DEF ThreadOrderly
<1>9. CASE e = p
  <2>1. stack'[p][i] # <<>> => stack'[p][i][1].op = "exec"
    <3>1. s[1].op = "exec"
      BY <1>1, <1>2, <1>3, <1>9, Zenon DEF ThreadOrderly
    <3>2. Pop(s) # <<>> => Pop(s)[1] = s[1]
      BY <1>3, <1>4, BottomFrame, Zenon
    <3> QED  BY <1>7, <1>9, <3>1, <3>2, Zenon
  <2>2. /\ stack'[h][i] = stack[h][i]
        /\ chan'[h] = Append(chan[h], x) /\ chan'[p] = chan[p]
    <3>1. chan \in [Endpoints -> Seq(Cmd)]
      BY Zenon DEF TypeOK
    <3>2. chan' = [chan EXCEPT ![h] = Append(@, x)]
      BY <1>1, <1>3, <1>6, <1>9, Zenon
    <3> QED  BY <1>1, <1>7, <1>9, <3>1, <3>2, Zenon
  <2>3. ASSUME Calm(i)'
        PROVE  Registered(i)' /\ Pipeline(i)' /\ Flushed(i)'
    <3>1. Calm(i) /\ nextCall[p] = 0
      BY <1>1, <1>3, <2>3, Zenon DEF Calm
    <3>2. Registered(i) /\ Pipeline(i) /\ Flushed(i)
      BY <3>1, Zenon DEF ThreadOrderly
    <3>3. PICK A, B, C, D, E : /\ A = RetQueued(i) /\ B = RetSent(i) /\ C = Executing(i)
                               /\ D = CallQueued(i) /\ E = CallSent(i)
      BY Zenon
    <3>4. PICK c \in Seq(Cmd) : c = chan[h]
      BY Seqs, Zenon
    <3>5. /\ Ascending(A, B, C, D, E) /\ Len(s) <= 1
          /\ Unanswered(i) \subseteq A \cup B \cup C \cup D \cup E
          /\ InOrder(queue[h][i], "ret", i) /\ InOrder(c, "ret", i) /\ B = Calls(c, "ret", i)
          /\ InOrder(queue[p][i], "call", i) /\ InOrder(chan[p], "call", i)
      BY <1>1, <1>2, <1>9, <3>2, <3>3, <3>4, Zenon DEF Pipeline, RetSent
    <3>6. Pop(s) = <<>> /\ Len(s) = 1 /\ Top(s) = s[1]
      BY <1>3, <1>4, <3>5, BottomFrame, Zenon
    <3>7. C = {n}
      <4>1. DOMAIN s = {1} /\ s[1].n = n
        BY <1>2, <3>6
      <4> QED  BY <1>1, <1>2, <1>9, <3>3, <4>1, ZenonT(60) DEF Executing
    <3>8. Ascending(A, B \cup {n}, {}, D, E) /\ \A b \in B : b < n
      <4>1. Ascending(A, B \cup {n}, {}, D, E)
        BY <3>5, <3>7, CallEnds, Zenon
      <4>2. \A b \in B : b < n
        BY <3>5, <3>7, Zenon DEF Ascending, Below
      <4> QED  BY <4>1, <4>2, Zenon
    <3>9. Mine(x, "ret", i) /\ ~Mine(x, "exit", i) /\ x.n = n
      BY <1>6, Zenon DEF Mine, RetCmd
    <3>10. Calls(Append(c, x), "ret", i) = B \cup {n} /\ InOrder(Append(c, x), "ret", i)
      BY <3>5, <3>8, <3>9, AppendMine, ZenonT(60)
    <3>11. Executing(i)' = {} /\ Len(stack'[p][i]) <= 1
      <4>1. stack'[p][i] = <<>> /\ DOMAIN <<>> = {} /\ Len(<<>>) = 0
        BY <1>7, <1>9, <3>6, SMTT(30)
      <4> QED  BY <1>1, <4>1 DEF Executing
    <3>12. /\ RetQueued(i)' = A /\ RetSent(i)' = B \cup {n} /\ CallQueued(i)' = D
           /\ CallSent(i)' = E /\ Unanswered(i)' = Unanswered(i)
      BY <1>1, <1>3, <2>2, <3>3, <3>4, <3>10, Zenon
         DEF RetQueued, RetSent, CallQueued, CallSent, Unanswered
    <3>13. Unanswered(i)' \subseteq A \cup (B \cup {n}) \cup {} \cup D \cup E
      BY <3>5, <3>7, <3>12, ZenonT(60)
    <3>14. Pipeline(i)'
      BY <1>1, <1>3, <2>2, <3>4, <3>5, <3>8, <3>10, <3>11, <3>12, <3>13, Zenon DEF Pipeline
    <3>15. Calls(chan'[h], "exit", i) = {}
      <4>1. Calls(c, "exit", i) = {}
        BY <3>2, <3>4, Zenon DEF Registered
      <4>2. Calls(Append(c, x), "exit", i) = {}
        BY <3>9, <4>1, AppendOther
      <4> QED  BY <2>2, <3>4, <4>2, Zenon
    <3>16. Registered(i)'
      BY <1>1, <1>3, <2>2, <3>2, <3>12, <3>15, Zenon DEF Registered
    <3>17. Flushed(i)'
      BY <1>1, <2>2, <3>2, <3>12, Zenon DEF Flushed
    <3> QED  BY <3>14, <3>16, <3>17, Zenon
  <2> QED  BY <1>1, <1>3, <2>1, <2>2, <2>3, Zenon DEF ThreadOrderly
<1> QED  BY <1>1, <1>8, <1>9, Zenon

(* Completing a call sets its own flag and no other.                        *)
LEMMA CompletedOnly ==
    ASSUME NEW s \in Seq(Frame), NEW n \in Nat
    PROVE  /\ s = <<>> => Completed(s, n) = <<>>
           /\ \A k \in DOMAIN s : Completed(s, n)[k].done => s[k].done \/ s[k].n = n
<1>1. PICK u : u = Completed(s, n)
  BY Zenon
<1>2. u \in Seq(Frame) /\ DOMAIN u = DOMAIN s
  BY <1>1, CompletedFacts, Zenon
<1>3. s = <<>> => u = <<>>
  BY <1>2
<1>4. ASSUME NEW k \in DOMAIN s, u[k].done PROVE s[k].done \/ s[k].n = n
  <2>1. u[k] = MarkComplete(s[k], n)
    BY <1>1, Zenon DEF Completed
  <2>2. CASE s[k].op = "wait" /\ s[k].n = n
    BY <2>2, Zenon
  <2>3. CASE ~(s[k].op = "wait" /\ s[k].n = n)
    <3>1. u[k] = s[k]
      BY <2>1, <2>3, Zenon DEF MarkComplete
    <3> QED  BY <1>4, <3>1, Zenon
  <2> QED  BY <2>2, <2>3, Zenon
<1> QED  BY <1>1, <1>3, <1>4, Zenon

(* A RET of the thread is handled: its call was the oldest one unanswered.  *)
LEMMA HandleReturnOrder ==
    ASSUME TypeOK, CallsInOnePlace, NEW i \in Ids, ThreadOrderly(i),
           NEW e \in Endpoints, HandleReturn(e, i)
    PROVE  ThreadOrderly(i)'
<1>1. PICK h \in Endpoints, p \in Endpoints :
         /\ h = Home[i] /\ p = Away(i) /\ h # p /\ (e = h \/ e = p)
         /\ \A f \in Endpoints : f = h \/ f = p
  BY TwoSides, Zenon
<1>2. PICK q \in Seq(Cmd), s \in Seq(Frame) : q = queue[e][i] /\ s = stack[e][i]
  BY Seqs, Zenon
<1>3. PICK m : m = Head(q)
  BY Zenon
<1>4. /\ Running /\ q # <<>> /\ m.op = "ret" /\ queue' = [queue EXCEPT ![e][i] = Tail(@)]
      /\ UNCHANGED <<alive, starts, kind, chan, nextCall>>
  BY <1>2, <1>3, Zenon DEF HandleReturn, TakesCommands, Drop, Popped
<1>5. /\ pending' = [pending EXCEPT ![e] = {r \in @ : r.n # m.n}]
      /\ stack' = [stack EXCEPT ![e][i] = Completed(@, m.n)]
  <2>1. UNCHANGED failed
    BY HandleReturnStep, Zenon
  <2>2. failed' # "remove_call: no such call"
    BY <1>4, <2>1, Zenon DEF Running
  <2> QED  BY <1>2, <1>3, <2>2, Zenon DEF HandleReturn
<1>6. 1 \in DOMAIN q /\ m = q[1] /\ m \in Cmd
  BY <1>3, <1>4, SMTT(60)
<1>7. m.thr = i /\ CmdOK(e, m) /\ m.n \in Nat
  BY <1>2, <1>6, Zenon DEF CallsInOnePlace, QueuesOK, Cmd
<1>8. PICK u : u = Completed(s, m.n)
  BY Zenon
<1>9. /\ queue'[e][i] = Tail(q) /\ stack'[e][i] = u
      /\ \A f \in Endpoints : f # e => queue'[f][i] = queue[f][i] /\ stack'[f][i] = stack[f][i]
  BY <1>2, <1>4, <1>5, <1>8, Zenon DEF TypeOK
<1>10. /\ u \in Seq(Frame) /\ DOMAIN u = DOMAIN s /\ (s = <<>> => u = <<>>)
       /\ \A k \in DOMAIN s : u[k].op = s[k].op /\ u[k].n = s[k].n
       /\ \A k \in DOMAIN s : u[k].done => s[k].done \/ s[k].n = m.n
  <2>1. PICK n \in Nat : n = m.n
    BY <1>7, Zenon
  <2>2. u = Completed(s, n)
    BY <1>8, <2>1, Zenon
  <2>3. /\ u \in Seq(Frame) /\ DOMAIN u = DOMAIN s
        /\ \A k \in DOMAIN s : u[k].op = s[k].op /\ u[k].n = s[k].n
    BY <2>2, CompletedFacts, Zenon
  <2>4. /\ s = <<>> => u = <<>>
        /\ \A k \in DOMAIN s : u[k].done => s[k].done \/ s[k].n = n
    BY <2>2, CompletedOnly, Zenon
  <2> QED  BY <2>1, <2>3, <2>4, Zenon
<1>11. CASE e = p
  <2>1. nextCall[p] # 0
    BY <1>1, <1>4, <1>6, <1>7, <1>11, NoCallback, SMTT(60)
  <2>2. stack'[p][i] # <<>> => stack'[p][i][1].op = "exec"
    <3>1. s # <<>> => s[1].op = "exec" /\ 1 \in DOMAIN s
      BY <1>1, <1>2, <1>11, SMTT(30) DEF ThreadOrderly
    <3> QED  BY <1>9, <1>10, <1>11, <3>1, Zenon
  <2> QED  BY <1>1, <1>4, <2>1, <2>2, Disturbed, ZenonT(60)
<1>12. CASE e = h
  <2>1. stack'[p][i] = stack[p][i] /\ queue'[p][i] = queue[p][i]
    BY <1>1, <1>9, <1>12, Zenon
  <2>2. stack[h][i] = <<>> => stack'[h][i] = <<>>
    BY <1>2, <1>9, <1>10, <1>12, Zenon
  <2>3. ASSUME Calm(i)'
        PROVE  Registered(i)' /\ Pipeline(i)' /\ Flushed(i)'
    <3>1. Calm(i) /\ nextCall[p] = 0
      BY <1>1, <1>4, <2>3, Zenon DEF Calm
    <3>2. Registered(i) /\ Pipeline(i) /\ Flushed(i)
      BY <3>1, Zenon DEF ThreadOrderly
    <3>3. PICK A, B, C, D, E : /\ A = RetQueued(i) /\ B = RetSent(i) /\ C = Executing(i)
                               /\ D = CallQueued(i) /\ E = CallSent(i)
      BY Zenon
    <3>4. /\ Ascending(A, B, C, D, E) /\ Len(stack[p][i]) <= 1
          /\ Unanswered(i) \subseteq A \cup B \cup C \cup D \cup E
          /\ InOrder(q, "ret", i) /\ InOrder(chan[h], "ret", i) /\ A = Calls(q, "ret", i)
          /\ InOrder(queue[p][i], "call", i) /\ InOrder(chan[p], "call", i)
      BY <1>1, <1>2, <1>12, <3>2, <3>3, Zenon DEF Pipeline, RetQueued
    <3>5. PICK F : F = Calls(Tail(q), "ret", i)
      BY Zenon
    <3>6. /\ InOrder(Tail(q), "ret", i) /\ F \in SUBSET A /\ m.n \in A
          /\ A = {m.n} \cup F /\ \A y \in F : m.n < y
      <4>1. Mine(m, "ret", i)
        BY <1>4, <1>7, Zenon DEF Mine
      <4> QED  BY <1>3, <1>4, <3>4, <3>5, <4>1, TailCalls, Zenon
    <3>7. Ascending(F, B, C, D, E) /\ \A y \in F \cup B \cup C \cup D \cup E : m.n < y
      <4>1. /\ Ascending(A, B, C, D, E) /\ m.n \in A /\ F \in SUBSET A
            /\ \A y \in F : m.n < y
        BY <3>4, <3>6, Zenon
      <4> QED  BY <4>1, RetHandled, SMTT(60)
    <3>8. Unanswered(i)' \subseteq Unanswered(i) \ {m.n}
      <4>1. pending'[h] = {r \in pending[h] : r.n # m.n}
        BY <1>5, <1>12, Zenon DEF TypeOK
      <4> QED  BY <1>1, <4>1, Zenon DEF Unanswered
    <3>9. Unanswered(i)' \subseteq F \cup B \cup C \cup D \cup E
      BY <3>4, <3>6, <3>8, Zenon
    <3>10. /\ RetQueued(i)' = F /\ RetSent(i)' = B /\ Executing(i)' = C
           /\ CallQueued(i)' = D /\ CallSent(i)' = E
      <4>1. RetQueued(i)' = F
        BY <1>1, <1>9, <1>12, <3>5, Zenon DEF RetQueued
      <4> QED  BY <1>1, <1>4, <2>1, <3>3, <4>1, Zenon DEF RetSent, Executing, CallQueued, CallSent
    <3>11. Pipeline(i)'
      BY <1>1, <1>4, <1>9, <1>12, <2>1, <3>4, <3>6, <3>7, <3>9, <3>10, ZenonT(60) DEF Pipeline
    <3>12. Calls(queue'[h][i], "exit", i) = {}
      <4>1. Calls(q, "exit", i) = {}
        BY <1>2, <3>2, Zenon DEF Registered
      <4>2. InOrder(q, "exit", i) /\ ~Mine(m, "exit", i)
        BY <1>4, <4>1, NoCalls, Zenon DEF Mine
      <4>3. Calls(Tail(q), "exit", i) = {}
        BY <1>3, <1>4, <4>1, <4>2, TailCalls, Zenon
      <4> QED  BY <1>9, <1>12, <4>3, Zenon
    <3>13. Registered(i)'
      <4>1. \A f \in Endpoints : Calls(chan'[f], "exit", i) = {} /\ Calls(queue'[f][i], "exit", i) = {}
        BY <1>1, <1>4, <2>1, <3>2, <3>12, Zenon DEF Registered
      <4>2. Unanswered(i) = {} => Unanswered(i)' = {}
        BY <3>8, Zenon
      <4> QED  BY <1>1, <1>4, <2>2, <3>2, <4>1, <4>2, Zenon DEF Registered
    <3>14. Flushed(i)'
      <4> SUFFICES ASSUME NEW k \in DOMAIN u, u[k].done, NEW y \in Unanswered(i)'
                   PROVE  u[k].n < y
        BY <1>1, <1>9, <1>12, Zenon DEF Flushed
      <4>1. y \in Unanswered(i) /\ m.n < y
        BY <3>7, <3>8, <3>9, Zenon
      <4>2. s[k].done => s[k].n < y
        BY <1>1, <1>2, <1>10, <1>12, <3>2, <4>1, Zenon DEF Flushed
      <4> QED  BY <1>10, <4>1, <4>2, Zenon
    <3> QED  BY <3>11, <3>13, <3>14, Zenon
  <2> QED  BY <1>1, <1>4, <2>1, <2>2, <2>3, Zenon DEF ThreadOrderly
<1> QED  BY <1>1, <1>11, <1>12, Zenon

-----------------------------------------------------------------------------
(* An entry is entered in the pool with an empty queue or its first command *)
(* and taken out together with its queue.                                   *)
LEMMA EntriesStep ==
    ASSUME TypeOK, [Next]_vars,
           \A e \in Endpoints, i \in Ids : kind[e][i] = "none" => queue[e][i] = <<>>
    PROVE  \A e \in Endpoints, i \in Ids : kind'[e][i] = "none" => queue'[e][i] = <<>>
<1> DEFINE Entries == \A e \in Endpoints, i \in Ids : kind[e][i] = "none" => queue[e][i] = <<>>
<1>t. kind \in [Endpoints -> [Ids -> Kinds]] /\ queue \in [Endpoints -> [Ids -> Seq(Cmd)]]
  BY Zenon DEF TypeOK
<1>k. Entries
  BY Zenon
<1> SUFFICES Entries'
  BY Zenon
<1>1. ASSUME NEW i \in Ids, App(i) PROVE Entries'
  <2>1. PICK h \in Endpoints : h = Home[i]
    BY TwoSides, Zenon
  <2>2. CASE ThreadStart(i)
    BY <1>k, <2>2, Zenon DEF ThreadStart
  <2>3. CASE ThreadExit(i)
    <3>1. \/ UNCHANGED <<kind, queue>>
          \/ /\ kind' = [kind EXCEPT ![h][i] = "none"]
             /\ queue' = [queue EXCEPT ![h][i] = <<>>]
      BY <2>1, <2>3, Zenon DEF ThreadExit
    <3>2. CASE UNCHANGED <<kind, queue>>
      BY <1>k, <3>2, Zenon
    <3>3. CASE /\ kind' = [kind EXCEPT ![h][i] = "none"]
               /\ queue' = [queue EXCEPT ![h][i] = <<>>]
      <4>1. ASSUME NEW f \in Endpoints, NEW j \in Ids
            PROVE  \/ queue'[f][j] = <<>>
                   \/ queue'[f][j] = queue[f][j] /\ kind'[f][j] = kind[f][j]
        BY <1>t, <3>3, Zenon
      <4> QED  BY <1>k, <4>1
    <3> QED  BY <3>1, <3>2, <3>3, Zenon
  <2>4. ASSUME NEW mode \in Modes, AppCall(i, mode) PROVE Entries'
    <3>1. /\ UNCHANGED queue
          /\ kind' = kind \/ kind' = [kind EXCEPT ![h][i] = "solid"]
      BY <2>1, <2>4, Zenon DEF AppCall, SelfEntry
    <3>2. ASSUME NEW f \in Endpoints, NEW j \in Ids
          PROVE  kind'[f][j] = kind[f][j] \/ kind'[f][j] = "solid"
      <4>1. CASE kind' = kind
        BY <4>1, Zenon
      <4>2. CASE kind' = [kind EXCEPT ![h][i] = "solid"]
        BY <1>t, <4>2, Zenon
      <4> QED  BY <3>1, <4>1, <4>2, Zenon
    <3> QED  BY <1>k, <3>1, <3>2, ZenonT(60)
  <2> QED  BY <1>1, <2>2, <2>3, <2>4, Zenon DEF App
<1>2. ASSUME NEW e \in Endpoints, Dispatch(e) PROVE Entries'
  <2>1. PICK m : m = Head(chan[e])
    BY Zenon
  <2>2. m.thr \in Ids
    <3>1. chan[e] \in Seq(Cmd) /\ chan[e] # <<>>
      BY <1>2, Zenon DEF TypeOK, Dispatch
    <3>2. \A c \in Seq(Cmd) : c # <<>> => Head(c) \in Cmd
      OBVIOUS
    <3>3. m \in Cmd
      BY <2>1, <3>1, <3>2, Zenon
    <3> QED  BY <3>3, Zenon DEF Cmd
  <2>3. \/ UNCHANGED <<kind, queue>>
        \/ /\ kind[e][m.thr] # "none" /\ UNCHANGED kind
           /\ queue' = [queue EXCEPT ![e][m.thr] = Append(@, m)]
        \/ /\ kind' = [kind EXCEPT ![e][m.thr] = "shadow"]
           /\ queue' = [queue EXCEPT ![e][m.thr] = <<m>>]
    BY <1>2, <2>1, Zenon DEF Dispatch, Push
  <2>4. PICK i \in Ids : i = m.thr
    BY <2>2, Zenon
  <2>5. \/ UNCHANGED <<kind, queue>>
        \/ /\ kind[e][i] # "none" /\ UNCHANGED kind
           /\ \A f \in Endpoints, j \in Ids : f # e \/ j # i => queue'[f][j] = queue[f][j]
        \/ /\ kind' = [kind EXCEPT ![e][i] = "shadow"]
           /\ \A f \in Endpoints, j \in Ids : f # e \/ j # i => queue'[f][j] = queue[f][j]
    BY <1>t, <2>3, <2>4
  <2>6. CASE kind' = [kind EXCEPT ![e][i] = "shadow"]
    <3>1. kind'[e][i] = "shadow"
      BY <1>t, <2>6, Zenon
    <3>2. ASSUME NEW f \in Endpoints, NEW j \in Ids, f # e \/ j # i
          PROVE  kind'[f][j] = kind[f][j]
      BY <1>t, <2>6, <3>2, Zenon
    <3> QED  BY <1>k, <2>5, <3>1, <3>2
  <2>7. CASE kind' # [kind EXCEPT ![e][i] = "shadow"]
    BY <1>k, <2>5, <2>7, Zenon
  <2> QED  BY <2>6, <2>7, Zenon
<1>3. ASSUME NEW e \in Endpoints, NEW i \in Ids, Thread(e, i) PROVE Entries'
  <2>1. CASE CallReturns(e, i) \/ SendReturn(e, i) \/ \E mode \in Modes : HandlerCall(e, i, mode)
    BY <1>k, <2>1, Zenon DEF CallReturns, SendReturn, HandlerCall
  <2>2. CASE ShadowExit(e, i)
    BY <1>t, <1>k, <2>2, Zenon DEF ShadowExit
  <2>3. CASE HandleExit(e, i) \/ HandleCall(e, i) \/ HandleReturn(e, i)
    <3>1. /\ queue[e][i] # <<>> /\ queue' = [queue EXCEPT ![e][i] = Tail(@)]
          /\ kind' = kind \/ kind' = [kind EXCEPT ![e][i] = "dying"]
      BY <2>3, Zenon DEF HandleExit, HandleCall, HandleReturn, TakesCommands, Drop, Popped
    <3>2. kind[e][i] # "none"
      BY <1>k, <3>1, Zenon
    <3> QED  BY <1>t, <1>k, <3>1, <3>2, SMTT(60)
  <2> QED  BY <1>3, <2>1, <2>2, <2>3, Zenon DEF Thread
<1>4. CASE UNCHANGED vars
  BY <1>k, <1>4, Zenon DEF vars
<1> QED  BY <1>1, <1>2, <1>3, <1>4, Zenon DEF Next, Idle

(* A step that changes one entry of a pool, or sends one command.           *)
OneEntry(w, g, e, j) == w = g \/ \E x : w = [g EXCEPT ![e][j] = x]
Sent(f, x) == chan' = [chan EXCEPT ![f] = Append(@, x)]

(* The entries of the other threads do not change.                          *)
LEMMA OtherEntry ==
    ASSUME TypeOK, NEW e \in Endpoints, NEW j \in Ids, NEW i \in Ids, j # i,
           OneEntry(stack', stack, e, j), OneEntry(queue', queue, e, j),
           OneEntry(kind', kind, e, j)
    PROVE  \A f \in Endpoints : /\ queue'[f][i] = queue[f][i]
                                /\ stack'[f][i] = stack[f][i]
                                /\ kind'[f][i] = kind[f][i]
<1>1. ASSUME OneEntry(stack', stack, e, j)
      PROVE  \A f \in Endpoints : stack'[f][i] = stack[f][i]
  <2>1. stack \in [Endpoints -> [Ids -> Seq(Frame)]]
    BY Zenon DEF TypeOK
  <2>2. ASSUME NEW x, stack' = [stack EXCEPT ![e][j] = x]
        PROVE  \A f \in Endpoints : stack'[f][i] = stack[f][i]
    BY <2>1, <2>2, Zenon
  <2> QED  BY <1>1, <2>2, Zenon DEF OneEntry
<1>2. ASSUME OneEntry(queue', queue, e, j)
      PROVE  \A f \in Endpoints : queue'[f][i] = queue[f][i]
  <2>1. queue \in [Endpoints -> [Ids -> Seq(Cmd)]]
    BY Zenon DEF TypeOK
  <2>2. ASSUME NEW x, queue' = [queue EXCEPT ![e][j] = x]
        PROVE  \A f \in Endpoints : queue'[f][i] = queue[f][i]
    BY <2>1, <2>2, Zenon
  <2> QED  BY <1>2, <2>2, Zenon DEF OneEntry
<1>3. ASSUME OneEntry(kind', kind, e, j)
      PROVE  \A f \in Endpoints : kind'[f][i] = kind[f][i]
  <2>1. kind \in [Endpoints -> [Ids -> Kinds]]
    BY Zenon DEF TypeOK
  <2>2. ASSUME NEW x, kind' = [kind EXCEPT ![e][j] = x]
        PROVE  \A f \in Endpoints : kind'[f][i] = kind[f][i]
    BY <2>1, <2>2, Zenon
  <2> QED  BY <1>3, <2>2, Zenon DEF OneEntry
<1> QED  BY <1>1, <1>2, <1>3, Zenon

(* A command to another thread is sent.                                     *)
LEMMA OtherSent ==
    ASSUME TypeOK, NEW i, NEW f \in Endpoints, NEW x \in Cmd, x.thr # i,
           Sent(f, x)
    PROVE  \A g \in Endpoints : OthersOnly(g, i)
<1>1. chan \in [Endpoints -> Seq(Cmd)]
  BY Zenon DEF TypeOK
<1>2. chan'[f] = Append(chan[f], x) /\ \A g \in Endpoints : g # f => chan'[g] = chan[g]
  BY <1>1, Zenon DEF Sent
<1> QED  BY <1>2, Zenon DEF OthersOnly

(* A step that thread j takes at e, or that a thread j of endpoint e takes, *)
(* sends nothing to thread i and takes nothing from it.                     *)
LEMMA OtherStep ==
    ASSUME TypeOK, CallsInOnePlace, NEW i \in Ids, ThreadOrderly(i),
           NEW e \in Endpoints, NEW j \in Ids, j # i, Thread(e, j)
    PROVE  ThreadOrderly(i)'
<1>1. PICK h \in Endpoints, p \in Endpoints :
         h = Home[i] /\ p = Away(i) /\ \A f \in Endpoints : f = h \/ f = p
  BY TwoSides, Zenon
<1>t. /\ stack \in [Endpoints -> [Ids -> Seq(Frame)]] /\ queue \in [Endpoints -> [Ids -> Seq(Cmd)]]
      /\ kind \in [Endpoints -> [Ids -> Kinds]] /\ chan \in [Endpoints -> Seq(Cmd)]
      /\ pending \in [Endpoints -> SUBSET [n : Nat, thr : Ids]]
      /\ nextCall \in [Endpoints -> 0 .. MaxCalls] /\ nextCall[e] \in Nat
  BY Seqs, Zenon DEF TypeOK
<1>p. Peer(e) \in Endpoints
  BY PeerType, Zenon
<1> DEFINE Quiet == \A f \in Endpoints : /\ queue'[f][i] = queue[f][i]
                                         /\ stack'[f][i] = stack[f][i]
                                         /\ kind'[f][i] = kind[f][i]
           Same == starts' = starts /\ alive' = alive
           Pushes == \A f \in Endpoints : OthersOnly(f, i)
<1>2. ASSUME CallReturns(e, j) \/ HandleExit(e, j) \/ ShadowExit(e, j) \/ HandleCall(e, j)
      PROVE  ThreadOrderly(i)'
  <2>1. /\ OneEntry(stack', stack, e, j)
        /\ OneEntry(queue', queue, e, j)
        /\ OneEntry(kind', kind, e, j)
        /\ UNCHANGED <<alive, starts, chan, pending, nextCall>>
    BY <1>2, Zenon DEF CallReturns, HandleExit, ShadowExit, HandleCall, Drop, callVars, OneEntry
  <2>2. Quiet
    BY <2>1, OtherEntry, ZenonT(60)
  <2>3. Pushes
    BY <2>1, Zenon DEF OthersOnly
  <2> QED  BY <2>1, <2>2, <2>3, OtherThread, Zenon
<1>3. ASSUME SendReturn(e, j)
      PROVE  ThreadOrderly(i)'
  <2>1. PICK n : n = Top(stack[e][j]).n
    BY Zenon
  <2>2. /\ stack' = [stack EXCEPT ![e][j] = Pop(@)] /\ stack[e][j] # <<>>
        /\ chan' = [chan EXCEPT ![Peer(e)] = Append(@, RetCmd(j, n))]
        /\ UNCHANGED <<alive, starts, kind, queue, pending, nextCall>>
    BY <1>3, <2>1, Zenon DEF SendReturn, Reply, TopIs
  <2>3. n \in Nat
    <3>1. PICK s \in Seq(Frame) : s = stack[e][j] /\ s # <<>>
      BY <1>t, <2>2, SMTT(60)
    <3>2. Top(s) \in Frame
      BY <3>1, PopFacts, Zenon
    <3> QED  BY <2>1, <3>1, <3>2, Zenon DEF Frame
  <2>4. PICK x \in Cmd : x = RetCmd(j, n) /\ x.thr = j
    <3>1. RetCmd(j, n) \in Cmd /\ RetCmd(j, n).thr = j
      BY <2>3, Zenon DEF Cmd, RetCmd
    <3> QED  BY <3>1, Zenon
  <2>5. Pushes
    <3>1. Sent(Peer(e), x)
      BY <2>2, <2>4, Zenon DEF Sent
    <3> QED  BY <1>p, <2>4, <3>1, OtherSent, Zenon
  <2>6. Quiet
    BY <2>2, OtherEntry, SMTT(30) DEF OneEntry
  <2> QED  BY <2>2, <2>5, <2>6, OtherThread, Zenon
<1>4. ASSUME HandleReturn(e, j)
      PROVE  ThreadOrderly(i)'
  <2>1. /\ OneEntry(stack', stack, e, j)
        /\ OneEntry(queue', queue, e, j) /\ OneEntry(kind', kind, e, j)
        /\ \/ pending' = pending
           \/ \E n : pending' = [pending EXCEPT ![e] = {r \in @ : r.n # n}]
        /\ UNCHANGED <<alive, starts, kind, chan, nextCall>>
    BY <1>4, Zenon DEF HandleReturn, Drop, OneEntry
  <2>2. Quiet
    BY <2>1, OtherEntry, SMTT(30)
  <2>3. Pushes
    BY <2>1, Zenon DEF OthersOnly
  <2>4. pending'[h] \subseteq pending[h]
    <3>1. ASSUME NEW n, pending' = [pending EXCEPT ![e] = {r \in @ : r.n # n}]
          PROVE  pending'[h] \subseteq pending[h]
      BY <1>t, <3>1, Zenon
    <3> QED  BY <2>1, <3>1, Zenon
  <2> QED  BY <1>1, <2>1, <2>2, <2>3, <2>4, OtherThread, Zenon
<1>5. ASSUME NEW mode \in Modes, HandlerCall(e, j, mode)
      PROVE  ThreadOrderly(i)'
  <2>1. PICK n : n = nextCall[e]
    BY Zenon
  <2>2. /\ nextCall' = [nextCall EXCEPT ![e] = n + 1]
        /\ pending' = [pending EXCEPT ![e] = @ \cup {[n |-> n, thr |-> j]}]
        /\ chan' = [chan EXCEPT ![Peer(e)] = Append(@, CallCmd(j, n))]
        /\ OneEntry(stack', stack, e, j)
        /\ OneEntry(queue', queue, e, j) /\ OneEntry(kind', kind, e, j)
        /\ UNCHANGED <<alive, starts>>
    BY <1>5, <2>1, Zenon DEF HandlerCall, SendCall, OneEntry
  <2>3. PICK x \in Cmd : x = CallCmd(j, n) /\ x.thr = j
    <3>1. CallCmd(j, n) \in Cmd /\ CallCmd(j, n).thr = j
      BY <1>t, <2>1, Zenon DEF Cmd, CallCmd
    <3> QED  BY <3>1, Zenon
  <2>4. Pushes
    <3>1. Sent(Peer(e), x)
      BY <2>2, <2>3, Zenon DEF Sent
    <3> QED  BY <1>p, <2>3, <3>1, OtherSent, Zenon
  <2>5. Quiet
    BY <2>2, OtherEntry, ZenonT(60)
  <2>6. nextCall'[p] = 0 => nextCall[p] = 0
    BY <1>t, <2>1, <2>2, SMTT(30)
  <2>7. \A r \in pending'[h] : r.thr = i => r \in pending[h]
    BY <1>t, <2>2
  <2> QED  BY <1>1, <2>2, <2>4, <2>5, <2>6, <2>7, OtherThread, Zenon
<1> QED  BY <1>2, <1>3, <1>4, <1>5, Zenon DEF Thread

(* The application's other threads, likewise.                               *)
LEMMA OtherApp ==
    ASSUME TypeOK, CallsInOnePlace, NEW i \in Ids, ThreadOrderly(i),
           NEW j \in Ids, j # i, App(j)
    PROVE  ThreadOrderly(i)'
<1>1. PICK h \in Endpoints, p \in Endpoints :
         h = Home[i] /\ p = Away(i) /\ \A f \in Endpoints : f = h \/ f = p
  BY TwoSides, Zenon
<1>2. PICK e \in Endpoints : e = Home[j] /\ Peer(e) \in Endpoints
  BY TwoSides, Zenon
<1>t. /\ nextCall \in [Endpoints -> 0 .. MaxCalls] /\ nextCall[e] \in Nat
      /\ pending \in [Endpoints -> SUBSET [n : Nat, thr : Ids]]
      /\ starts \in [Ids -> 0 .. MaxStarts]
  BY Seqs, Zenon DEF TypeOK
<1> DEFINE Pushes == \A f \in Endpoints : OthersOnly(f, i)
<1>3. CASE ThreadStart(j)
  <2>1. /\ starts' = [starts EXCEPT ![j] = @ + 1] /\ alive' = alive \cup {j}
        /\ UNCHANGED <<kind, queue, stack, chan, pending, nextCall>>
    BY <1>3, Zenon DEF ThreadStart, callVars
  <2>2. starts'[i] = starts[i] /\ (i \in alive') = (i \in alive)
    BY <1>t, <2>1, SMTT(30)
  <2>3. Pushes
    BY <2>1, Zenon DEF OthersOnly
  <2> QED  BY <2>1, <2>2, <2>3, OtherThread, Zenon
<1>4. CASE ThreadExit(j)
  <2>1. /\ OneEntry(stack', stack, e, j) /\ OneEntry(queue', queue, e, j)
        /\ OneEntry(kind', kind, e, j)
        /\ alive' = alive \ {j} /\ UNCHANGED <<starts, pending, nextCall>>
        /\ chan' = chan \/ Sent(Peer(e), ExitCmd(j))
    BY <1>2, <1>4, Zenon DEF ThreadExit, callVars, OneEntry, Sent, ExitNotice
  <2>2. ExitCmd(j) \in Cmd /\ ExitCmd(j).thr = j
    BY Zenon DEF ExitCmd, Cmd
  <2>3. Pushes
    <3>1. CASE chan' = chan
      BY <3>1, Zenon DEF OthersOnly
    <3>2. CASE Sent(Peer(e), ExitCmd(j))
      BY <1>2, <2>2, <3>2, OtherSent, Zenon
    <3> QED  BY <2>1, <3>1, <3>2, Zenon
  <2>4. (i \in alive') = (i \in alive)
    BY <2>1
  <2> QED  BY <2>1, <2>3, <2>4, OtherEntry, OtherThread, ZenonT(60)
<1>5. ASSUME NEW mode \in Modes, AppCall(j, mode)
      PROVE  ThreadOrderly(i)'
  <2>1. CASE UNCHANGED <<kind, stack, chan, callVars>>
    <3>1. UNCHANGED <<alive, starts, queue, kind, stack, chan, pending, nextCall>>
      BY <1>5, <2>1, Zenon DEF AppCall, callVars
    <3>2. Pushes
      BY <3>1, Zenon DEF OthersOnly
    <3> QED  BY <3>1, <3>2, OtherThread, Zenon
  <2>2. CASE ~UNCHANGED <<kind, stack, chan, callVars>>
    <3>1. PICK n : n = nextCall[e]
      BY Zenon
    <3>2. SendCall(e, j, mode) /\ kind' = [kind EXCEPT ![e][j] = "solid"]
          /\ UNCHANGED <<alive, starts, queue>>
      BY <1>2, <1>5, <2>2, Zenon DEF AppCall, SelfEntry
    <3>3. /\ nextCall' = [nextCall EXCEPT ![e] = n + 1]
          /\ pending' = [pending EXCEPT ![e] = @ \cup {[n |-> n, thr |-> j]}]
          /\ Sent(Peer(e), CallCmd(j, n))
          /\ OneEntry(stack', stack, e, j)
          /\ OneEntry(queue', queue, e, j) /\ OneEntry(kind', kind, e, j)
      BY <3>1, <3>2, Zenon DEF SendCall, Sent, OneEntry
    <3>4. CallCmd(j, n) \in Cmd /\ CallCmd(j, n).thr = j
      BY <1>t, <3>1, Zenon DEF Cmd, CallCmd
    <3>5. Pushes
      BY <1>2, <3>3, <3>4, OtherSent, Zenon
    <3>6. nextCall'[p] = 0 => nextCall[p] = 0
      BY <1>t, <3>1, <3>3, SMTT(60)
    <3>7. \A r \in pending'[h] : r.thr = i => r \in pending[h]
      BY <1>t, <3>3, SMTT(30)
    <3>8. \A f \in Endpoints : /\ queue'[f][i] = queue[f][i]
                               /\ stack'[f][i] = stack[f][i]
                               /\ kind'[f][i] = kind[f][i]
      BY <3>3, OtherEntry, ZenonT(60)
    <3>9. starts'[i] = starts[i] /\ (i \in alive') = (i \in alive)
      BY <3>2, Zenon
    <3> QED  BY <1>1, <3>5, <3>6, <3>7, <3>8, <3>9, OtherThread, Zenon
  <2> QED  BY <2>1, <2>2, Zenon
<1> QED  BY <1>3, <1>4, <1>5, Zenon DEF App

(* The dispatcher passes a command to another thread.                       *)
LEMMA OtherDispatch ==
    ASSUME TypeOK, CallsInOnePlace, NEW i \in Ids, ThreadOrderly(i),
           NEW e \in Endpoints, Dispatch(e), Head(chan[e]).thr # i
    PROVE  ThreadOrderly(i)'
<1>1. PICK m : m = Head(chan[e])
  BY Zenon
<1>2. chan \in [Endpoints -> Seq(Cmd)] /\ chan[e] \in Seq(Cmd)
  BY Zenon DEF TypeOK
<1>3. /\ chan[e] # <<>> /\ chan' = [chan EXCEPT ![e] = Tail(@)]
      /\ UNCHANGED <<alive, starts, stack, pending, nextCall>>
      /\ OneEntry(stack', stack, e, m.thr)
      /\ OneEntry(queue', queue, e, m.thr) /\ OneEntry(kind', kind, e, m.thr)
  BY <1>1, Zenon DEF Dispatch, callVars, OneEntry, Push
<1>4. \A c \in Seq(Cmd) : c # <<>> => Head(c) \in Cmd
  OBVIOUS
<1>5. m \in Cmd
  BY <1>1, <1>2, <1>3, <1>4, Zenon
<1>6. PICK j \in Ids : j = m.thr /\ j # i
  BY <1>1, <1>5, Zenon DEF Cmd
<1>7. \A f \in Endpoints : OthersOnly(f, i)
  <2>1. chan'[e] = Tail(chan[e]) /\ \A f \in Endpoints : f # e => chan'[f] = chan[f]
    BY <1>2, <1>3, Zenon
  <2> QED  BY <1>3, <2>1, Zenon DEF OthersOnly
<1> QED  BY <1>3, <1>6, <1>7, OtherEntry, OtherThread, Zenon

-----------------------------------------------------------------------------
(* Every step keeps every thread in order.                                  *)
LEMMA OrderStep ==
    ASSUME TypeOK, CallsInOnePlace, Orderly, [Next]_vars, ~Ended'
    PROVE  Orderly'
<1>1. \A e \in Endpoints, i \in Ids : kind'[e][i] = "none" => queue'[e][i] = <<>>
  BY EntriesStep, Zenon DEF Orderly
<1>2. ASSUME NEW i \in Ids
      PROVE  ThreadOrderly(i)'
  <2>0. ThreadOrderly(i)
    BY <1>2, Zenon DEF Orderly
  <2>1. ASSUME NEW j \in Ids, App(j) PROVE ThreadOrderly(i)'
    <3>1. CASE j # i
      BY <2>0, <2>1, <3>1, OtherApp, Zenon
    <3>2. CASE j = i
      BY <2>0, <2>1, <3>2, StartOrder, ExitOrder, AppCallOrder, Zenon DEF App
    <3> QED  BY <3>1, <3>2, Zenon
  <2>2. ASSUME NEW e \in Endpoints, Dispatch(e) PROVE ThreadOrderly(i)'
    <3>1. kind[e][i] = "none" => queue[e][i] = <<>>
      BY Zenon DEF Orderly
    <3> QED  BY <2>0, <2>2, <3>1, OtherDispatch, DispatchOrder, Zenon
  <2>3. ASSUME NEW e \in Endpoints, NEW j \in Ids, Thread(e, j) PROVE ThreadOrderly(i)'
    <3>1. CASE j # i
      BY <2>0, <2>3, <3>1, OtherStep, Zenon
    <3>2. CASE j = i
      BY <2>0, <2>3, <3>2, ReturnsOrder, ShadowOrder, HandleCallOrder, SendReturnOrder,
         HandleReturnOrder, CallbackOrder, Zenon DEF Thread
    <3> QED  BY <3>1, <3>2, Zenon
  <2>4. CASE UNCHANGED vars
    <3>1. UNCHANGED <<alive, starts, queue, kind, stack, chan, pending, nextCall>>
      BY <2>4, Zenon DEF vars
    <3>2. \A f \in Endpoints : OthersOnly(f, i)
      BY <3>1, Zenon DEF OthersOnly
    <3> QED  BY <2>0, <3>1, <3>2, OtherThread, Zenon
  <2> QED  BY <2>1, <2>2, <2>3, <2>4, Zenon DEF Next, Idle
<1> QED  BY <1>1, <1>2, Zenon DEF Orderly

(* Initially no call is under way.                                          *)
LEMMA OrderInit ==
    ASSUME Init
    PROVE  Orderly
<1>1. ASSUME NEW i \in Ids
      PROVE  ThreadOrderly(i)
  <2>1. PICK h \in Endpoints, p \in Endpoints : h = Home[i] /\ p = Away(i)
    BY TwoSides, Zenon
  <2>2. /\ alive = {} /\ kind[h][i] = "none" /\ kind[p][i] = "none"
        /\ stack[h][i] = <<>> /\ stack[p][i] = <<>> /\ pending[h] = {}
        /\ queue[h][i] = <<>> /\ queue[p][i] = <<>> /\ chan[h] = <<>> /\ chan[p] = <<>>
        /\ \A e \in Endpoints : chan[e] = <<>> /\ queue[e][i] = <<>>
    BY Zenon DEF Init
  <2>3. Unanswered(i) = {} /\ Executing(i) = {}
    <3>1. DOMAIN <<>> = {}
      BY SMTT(30)
    <3> QED  BY <2>1, <2>2, <3>1, Zenon DEF Unanswered, Executing
  <2>4. RetQueued(i) = {} /\ RetSent(i) = {} /\ CallQueued(i) = {} /\ CallSent(i) = {}
    BY <2>1, <2>2, CallsEmpty, Zenon DEF RetQueued, RetSent, CallQueued, CallSent
  <2>5. Pipeline(i)
    <3>1. Ascending({}, {}, {}, {}, {})
      BY Zenon DEF Ascending, Below
    <3>2. Len(<<>>) <= 1
      BY SMTT(30)
    <3> QED  BY <2>1, <2>2, <2>3, <2>4, <3>1, <3>2, CallsEmpty, Zenon DEF Pipeline
  <2>6. Registered(i)
    BY <2>1, <2>2, <2>3, CallsEmpty, Zenon DEF Registered
  <2>7. Flushed(i)
    BY <2>3, Zenon DEF Flushed
  <2> QED  BY <2>1, <2>2, <2>5, <2>6, <2>7, Zenon DEF ThreadOrderly
<1>2. \A e \in Endpoints, i \in Ids : queue[e][i] = <<>>
  BY Zenon DEF Init
<1> QED  BY <1>1, <1>2, Zenon DEF Orderly

(* After the assertion has failed nothing happens, and it changes no call.  *)
LEMMA EndStep ==
    ASSUME [Next]_vars, Ended'
    PROVE  UNCHANGED <<stack, starts, callVars>>
<1>1. CASE UNCHANGED vars
  BY <1>1, Zenon DEF vars, callVars
<1>2. SUFFICES ASSUME failed = "none", Next
               PROVE  UNCHANGED <<stack, starts, callVars>>
  BY <1>1, OnlyRunning, Zenon
<1>3. /\ failed' # "none" /\ failed' # "self: id already in the pool"
      /\ failed' # "until: thread exit requested" /\ failed' # "remove_call: no such call"
  BY Zenon DEF Ended, Coincidence
<1>4. failed' # failed
  BY <1>2, <1>3, Zenon
<1>5. ASSUME NEW i \in Ids, App(i) PROVE FALSE
  <2>1. ASSUME NEW mode \in Modes, AppCall(i, mode) PROVE FALSE
    BY <1>3, <1>4, <2>1, Zenon DEF AppCall
  <2> QED  BY <1>4, <1>5, <2>1, Zenon DEF App, ThreadStart, ThreadExit
<1>6. ASSUME NEW e \in Endpoints, Dispatch(e) PROVE UNCHANGED <<stack, starts, callVars>>
  BY <1>6, Zenon DEF Dispatch
<1>7. ASSUME NEW e \in Endpoints, NEW i \in Ids, Thread(e, i) PROVE FALSE
  <2>1. CASE HandleExit(e, i) \/ HandleReturn(e, i)
    BY <1>3, <1>4, <2>1, Zenon DEF HandleExit, HandleReturn
  <2>2. CASE HandleCall(e, i) \/ CallReturns(e, i) \/ ShadowExit(e, i) \/ SendReturn(e, i)
    BY <1>4, <2>2, Zenon DEF HandleCall, CallReturns, ShadowExit, SendReturn
  <2>3. ASSUME NEW mode \in Modes, HandlerCall(e, i, mode) PROVE FALSE
    BY <1>4, <2>3, Zenon DEF HandlerCall
  <2> QED  BY <1>7, <2>1, <2>2, <2>3, Zenon DEF Thread
<1> QED  BY <1>1, <1>2, <1>5, <1>6, <1>7, Zenon DEF Next, Idle

(* An ended process stays so.                                               *)
LEMMA EndedStays ==
    ASSUME [Next]_vars, Ended
    PROVE  Ended'
<1>1. failed # "none"
  BY Zenon DEF Ended, Coincidence
<1>2. UNCHANGED vars
  BY <1>1, OnlyRunning, Zenon
<1> QED  BY <1>2, Zenon DEF vars, Ended

(* The calls of a thread, synchronous or not, pass through the channel, the *)
(* queue of the shadow, its handler, the channel back and the queue of the  *)
(* thread in the order the thread made them, until its shadow calls back,   *)
(* the thread exits or a process ends at the assertion on a coincidence of  *)
(* ids: whatever other threads do, for any number of threads and any        *)
(* bounds.                                                                  *)
THEOREM CallsKeepTheirOrder == Spec => [](~Ended => Orderly)
<1>1. Init => Orderly
  BY OrderInit, Zenon
<1>2. TypeOK /\ CallsInOnePlace /\ Orderly /\ [Next]_vars /\ ~Ended' => Orderly'
  BY OrderStep, Zenon
<1>3. Ended /\ [Next]_vars => Ended'
  BY EndedStays, Zenon
<1> QED  BY <1>1, <1>2, <1>3, TypeCorrect, CallsStayInOnePlace, PTL DEF Spec

(* A synchronous call flushes its thread: when its RET has been handled, no *)
(* earlier call of the thread, asynchronous or not, is unanswered.          *)
THEOREM SyncCallFlushes == Spec => []SyncFlushesThread
<1>1. TypeOK /\ CallsInOnePlace /\ Orderly => SyncFlushesThread
  <2> SUFFICES ASSUME TypeOK, CallsInOnePlace, Orderly, NEW e \in Endpoints, NEW i \in Ids,
                      NEW k \in DOMAIN stack[e][i], stack[e][i][k].op = "wait",
                      stack[e][i][k].done, nextCall[Peer(e)] = 0, starts[i] <= 1,
                      NEW r \in pending[e], r.thr = i
               PROVE  r.n > stack[e][i][k].n
    BY Zenon DEF SyncFlushesThread
  <2>1. PICK h \in Endpoints, p \in Endpoints :
           /\ h = Home[i] /\ p = Away(i) /\ (e = h \/ e = p) /\ Peer(h) = p /\ Peer(p) = h
    BY TwoSides, SMTT(30)
  <2>2. ThreadOrderly(i)
    BY Zenon DEF Orderly
  <2>3. PICK s \in Seq(Frame) : s = stack[e][i]
    BY Seqs, Zenon
  <2>4. s # <<>> /\ k \in DOMAIN s /\ s[k] \in Frame
    BY <2>3, SMTT(30)
  <2>5. CASE e = h
    <3>1. Calm(i)
      BY <2>1, <2>2, <2>3, <2>4, <2>5, Zenon DEF ThreadOrderly, Calm
    <3>2. Flushed(i)
      BY <2>2, <3>1, Zenon DEF ThreadOrderly
    <3>3. r.n \in Unanswered(i)
      BY <2>1, <2>5, Zenon DEF Unanswered
    <3>4. stack[e][i][k].n < r.n
      BY <2>1, <2>5, <3>2, <3>3, Zenon DEF Flushed
    <3>5. r.n \in Nat /\ s[k].n \in Nat
      <4>1. pending[e] \subseteq [n : Nat, thr : Ids]
        BY Zenon DEF TypeOK
      <4> QED  BY <2>4, <4>1, Zenon DEF Frame
    <3> QED  BY <2>3, <3>4, <3>5, Zenon
  <2>6. CASE e = p
    <3>1. 1 \in DOMAIN s /\ s[1] \in Frame
      BY <2>4, SMTT(30)
    <3>2. s[1].op = "exec"
      BY <2>1, <2>2, <2>3, <2>4, <2>6, Zenon DEF ThreadOrderly
    <3>3. s[1].n < nextCall[h]
      BY <2>1, <2>3, <2>6, <3>1, <3>2, ZenonT(60) DEF CallsInOnePlace, FramesOK, FrameOK
    <3>4. s[1].n \in Nat /\ nextCall[h] = 0
      BY <2>1, <2>6, <3>1, Zenon DEF Frame
    <3> QED  BY <3>3, <3>4, SMTT(60)
  <2> QED  BY <2>1, <2>5, <2>6, Zenon
<1>2. SyncFlushesThread /\ [Next]_vars /\ Ended' => SyncFlushesThread'
  <2> SUFFICES ASSUME SyncFlushesThread, UNCHANGED <<stack, starts, callVars>>
               PROVE  SyncFlushesThread'
    BY EndStep, Zenon
  <2>1. stack' = stack /\ starts' = starts /\ pending' = pending /\ nextCall' = nextCall
    BY Zenon DEF callVars
  <2> QED  BY <2>1, Zenon DEF SyncFlushesThread
<1>3. Init => ~Ended
  BY Zenon DEF Init, Ended, Coincidence
<1> QED  BY <1>1, <1>2, <1>3, TypeCorrect, CallsStayInOnePlace, CallsKeepTheirOrder, PTL DEF Spec
=============================================================================
