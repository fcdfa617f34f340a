------------------------- MODULE RemoteCallsNesting -------------------------
(***************************************************************************)
(* Synchronous calls nest.  When every function is synchronous and no       *)
(* pthread id is used twice, the stacks of a thread and of its shadow mirror *)
(* each other: a frame that executes a call faces the frame that waits for  *)
(* it.  From this follow that a RET answers the innermost call and that no  *)
(* assertion fails but the one on a coincidence of ids.                     *)
(***************************************************************************)
EXTENDS RemoteCallsProofs

(* What the theorems of this module assume of an API and its application.   *)
SynchronousOnly == Modes \subseteq {"sync"}
IdsNotReused == MaxStarts <= 1

(* A stack s facing a stack t: a call is made from a handler, or at home    *)
(* from the bottom of the stack; a handler faces the wait for its call.     *)
Faces(s, t, home) ==
    \A k \in DOMAIN s :
        /\ s[k].op = "wait" => IF k = 1 THEN home ELSE s[k - 1].op = "exec"
        /\ s[k].op = "exec" => /\ k \in DOMAIN t
                               /\ t[k].op = "wait"
                               /\ t[k].n = s[k].n
                               /\ ~t[k].done

(* Call n is waited for on top of s, and t is one frame lower.              *)
Awaits(s, t, n) ==
    /\ s # <<>>
    /\ Top(s).op = "wait" /\ Top(s).n = n /\ ~Top(s).done
    /\ Len(t) = Len(s) - 1

Mirror(e, i) == Faces(stack[e][i], stack[Peer(e)][i], e = Home[i])
WaitsOnTop(e, i, n) == Awaits(stack[e][i], stack[Peer(e)][i], n)

(* The thread has exited, outside of any call.                              *)
Left(i) == i \notin alive /\ starts[i] # 0 /\ stack[Home[i]][i] = <<>>

(* The commands under way to e, and what each of them says of the stacks.   *)
Transit(e) ==
    {chan[e][k] : k \in DOMAIN chan[e]}
        \cup UNION {{queue[e][i][k] : k \in DOMAIN queue[e][i]} : i \in Ids}

CmdNests(e, m) ==
    /\ m.op = "call" => WaitsOnTop(Peer(e), m.thr, m.n)
    /\ m.op = "ret" => WaitsOnTop(e, m.thr, m.n)
    /\ m.op = "exit" => e # Home[m.thr] /\ Left(m.thr)

(* A thread inside AvA is running and registered by itself.                 *)
HomeOK(i) ==
    /\ kind[Home[i]][i] \in {"none", "solid"}
    /\ stack[Home[i]][i] # <<>> => kind[Home[i]][i] = "solid" /\ i \in alive
    /\ i \in alive => starts[i] # 0

(* The inductive invariant of this module.                                  *)
Nested ==
    /\ \A e \in Endpoints, i \in Ids : Mirror(e, i)
    /\ \A e \in Endpoints : \A m \in Transit(e) : CmdNests(e, m)
    /\ \A i \in Ids : HomeOK(i)

-----------------------------------------------------------------------------
(* The last frame of a stack is a frame, and Top names it.                  *)
LEMMA TopFrame ==
    ASSUME NEW s \in Seq(Frame), s # <<>>
    PROVE  /\ Len(s) \in Nat /\ Len(s) >= 1 /\ Len(s) \in DOMAIN s
           /\ DOMAIN s = 1 .. Len(s)
           /\ Top(s) = s[Len(s)] /\ Top(s) \in Frame
           /\ Top(s).op \in {"wait", "exec"}
<1>1. Len(s) \in Nat /\ Len(s) >= 1 /\ DOMAIN s = 1 .. Len(s)
  OBVIOUS
<1>2. Top(s) = s[Len(s)]
  BY Zenon DEF Top
<1>3. Top(s) \in Frame
  BY <1>1, <1>2
<1> QED  BY <1>1, <1>2, <1>3 DEF Frame

(* Every frame is a wait or a handler.                                      *)
LEMMA FrameOp ==
    ASSUME NEW s \in Seq(Frame), NEW k \in DOMAIN s
    PROVE  s[k] \in Frame /\ s[k].op \in {"wait", "exec"}
<1>1. s[k] \in Frame
  OBVIOUS
<1> QED  BY <1>1, Zenon DEF Frame

(* When nobody is inside a call at home, the shadow has nothing to do.      *)
LEMMA EmptyHome ==
    ASSUME NEW s \in Seq(Frame), s = <<>>, NEW t \in Seq(Frame), Faces(t, s, FALSE)
    PROVE  t = <<>>
<1> SUFFICES ASSUME t # <<>> PROVE FALSE
  BY Zenon
<1>1. 1 \in DOMAIN t
  OBVIOUS
<1>2. t[1].op \in {"wait", "exec"}
  BY <1>1, FrameOp, Zenon
<1>3. DOMAIN s = {}
  OBVIOUS
<1> QED  BY <1>1, <1>2, <1>3, Zenon DEF Faces

(* Under a running handler both stacks have the same height.                *)
LEMMA EqualHeight ==
    ASSUME NEW s \in Seq(Frame), NEW t \in Seq(Frame), NEW p \in BOOLEAN, NEW q \in BOOLEAN,
           Faces(s, t, p), Faces(t, s, q), s # <<>>, Top(s).op = "exec"
    PROVE  Len(t) = Len(s) /\ t # <<>> /\ Awaits(t, Pop(s), Top(s).n)
<1> DEFINE L == Len(s)
<1>1. L \in Nat /\ L >= 1 /\ L \in DOMAIN s /\ Top(s) = s[L] /\ DOMAIN s = 1 .. L
  BY TopFrame, Zenon
<1>2. L \in DOMAIN t /\ t[L].op = "wait" /\ t[L].n = s[L].n /\ ~t[L].done
  BY <1>1 DEF Faces
<1>3. DOMAIN t = 1 .. Len(t) /\ Len(t) \in Nat
  OBVIOUS
<1> HIDE DEF L
<1>4. ASSUME Len(t) # L
      PROVE  FALSE
  <2>0. L <= Len(t)
    BY <1>2, <1>3
  <2>1. PICK M : M = L + 1
    BY Zenon
  <2>2. M \in DOMAIN t /\ M \notin DOMAIN s /\ M # 1 /\ M - 1 = L
    <3>0. L \in Nat /\ L >= 1 /\ Len(t) \in Nat /\ L # Len(t)
      BY <1>1, <1>3, <1>4, Zenon
    <3>1. M \in Nat /\ M # 1 /\ M - 1 = L /\ M <= Len(t) /\ M >= 1
      BY <3>0, <2>0, <2>1
    <3>2. M \in DOMAIN t
      BY <1>3, <3>1
    <3>3. M \notin DOMAIN s
      BY <1>1, <2>1
    <3> QED  BY <3>1, <3>2, <3>3, Zenon
  <2>3. t[M].op \in {"wait", "exec"}
    BY <2>2, FrameOp, Zenon
  <2>4. (t[M].op = "wait" => t[M - 1].op = "exec") /\ t[M].op # "exec"
    BY <2>2, Zenon DEF Faces
  <2> QED  BY <1>2, <2>2, <2>3, <2>4, Zenon
<1>5. Len(Pop(s)) = Len(s) - 1
  BY PopFacts, Zenon
<1>6. t # <<>>
  BY <1>2
<1> QED  BY <1>1, <1>2, <1>4, <1>5, <1>6, Zenon DEF Awaits, Top, L

(* Under a completed wait the other stack is one frame lower.               *)
LEMMA DoneHeight ==
    ASSUME NEW s \in Seq(Frame), NEW t \in Seq(Frame), NEW p \in BOOLEAN, NEW q \in BOOLEAN, ~(p /\ q),
           Faces(s, t, p), Faces(t, s, q), s # <<>>, Top(s).op = "wait", Top(s).done
    PROVE  Len(t) = Len(s) - 1
<1> DEFINE L == Len(s)
<1>1. L \in Nat /\ L >= 1 /\ L \in DOMAIN s /\ Top(s) = s[L] /\ DOMAIN s = 1 .. L
  BY TopFrame, Zenon
<1>2. DOMAIN t = 1 .. Len(t) /\ Len(t) \in Nat
  OBVIOUS
<1>3. ASSUME Len(t) >= L
      PROVE  FALSE
  <2>1. L \in DOMAIN t
    BY <1>1, <1>2, <1>3
  <2>2. t[L].op \in {"wait", "exec"}
    BY <2>1, FrameOp, Zenon
  <2>3. t[L].op = "wait"
    BY <1>1, <2>1, <2>2 DEF Faces
  <2>4. CASE L = 1
    BY <1>1, <2>1, <2>3, <2>4 DEF Faces
  <2>5. CASE L # 1
    <3>1. s[L - 1].op = "exec" /\ t[L - 1].op = "exec" /\ L - 1 \in DOMAIN s
      BY <1>1, <2>1, <2>3, <2>5 DEF Faces
    <3>2. t[L - 1].op = "wait"
      BY <3>1, Zenon DEF Faces
    <3> QED  BY <3>1, <3>2, Zenon
  <2> QED  BY <2>4, <2>5, Zenon
<1>4. L # 1 => L - 1 \in DOMAIN t
  <2> SUFFICES ASSUME L # 1 PROVE L - 1 \in DOMAIN t
    BY Zenon
  <2>1. PICK M : M = L - 1
    BY Zenon
  <2>2. s[M].op = "exec" /\ M \in DOMAIN s
    BY <1>1, <2>1, SMTT(60) DEF Faces
  <2>3. M \in DOMAIN t
    BY <2>2, Zenon DEF Faces
  <2> QED  BY <2>1, <2>3, Zenon
<1> HIDE DEF L
<1>5. L # 1 => L - 1 <= Len(t)
  BY <1>1, <1>2, <1>4
<1>6. Len(t) = L - 1
  BY <1>1, <1>2, <1>3, <1>5
<1> QED  BY <1>6, Zenon DEF L
-----------------------------------------------------------------------------
(* What appending a frame does to a stack.                                  *)
LEMMA PushFacts ==
    ASSUME NEW s \in Seq(Frame), NEW w \in Frame
    PROVE  /\ Append(s, w) \in Seq(Frame) /\ Append(s, w) # <<>>
           /\ Len(Append(s, w)) = Len(s) + 1
           /\ Top(Append(s, w)) = w
           /\ \A k \in DOMAIN s : k \in DOMAIN Append(s, w) /\ Append(s, w)[k] = s[k]
           /\ \A k \in DOMAIN Append(s, w) :
                 \/ k \in DOMAIN s
                 \/ k = Len(s) + 1 /\ Append(s, w)[k] = w
<1>1. /\ Append(s, w) \in Seq(Frame)
      /\ Len(Append(s, w)) = Len(s) + 1
      /\ Append(s, w)[Len(s) + 1] = w
  OBVIOUS
<1>2. Top(Append(s, w)) = w
  BY <1>1, Zenon DEF Top
<1>3. Append(s, w) # <<>>
  BY <1>1, Len(s) \in Nat, Len(<<>>) = 0
<1>4. \A k \in DOMAIN s : k \in DOMAIN Append(s, w) /\ Append(s, w)[k] = s[k]
  BY DOMAIN Append(s, w) = 1 .. Len(s) + 1, DOMAIN s = 1 .. Len(s)
<1> QED  BY <1>1, <1>2, <1>3, <1>4, AppendFacts, Zenon

(* A call made from a handler, or at home from the bottom of the stack,     *)
(* waits on top.                                                            *)
LEMMA PushWait ==
    ASSUME NEW s \in Seq(Frame), NEW t \in Seq(Frame),
           NEW p \in BOOLEAN, NEW q \in BOOLEAN,
           Faces(s, t, p), Faces(t, s, q),
           NEW w \in Frame, w.op = "wait", ~w.done,
           \/ s = <<>> /\ t = <<>> /\ p
           \/ s # <<>> /\ Top(s).op = "exec"
    PROVE  /\ Faces(Append(s, w), t, p)
           /\ Faces(t, Append(s, w), q)
           /\ Awaits(Append(s, w), t, w.n)
<1>1. PICK u : u = Append(s, w)
  BY Zenon
<1>2. /\ u \in Seq(Frame) /\ u # <<>> /\ Len(u) = Len(s) + 1 /\ Top(u) = w
      /\ \A k \in DOMAIN s : k \in DOMAIN u /\ u[k] = s[k]
      /\ \A k \in DOMAIN u : k \in DOMAIN s \/ (k = Len(s) + 1 /\ u[k] = w)
  BY <1>1, PushFacts, Zenon
<1>3. Len(t) = Len(s)
  BY EqualHeight, Zenon
<1>4. Awaits(u, t, w.n)
  <2>1. Len(t) = Len(u) - 1
    BY <1>2, <1>3
  <2> QED  BY <1>2, <2>1, Zenon DEF Awaits
<1>5. Faces(t, u, q)
  BY <1>2 DEF Faces
<1>6. ASSUME NEW k \in DOMAIN u
      PROVE  /\ u[k].op = "wait" => IF k = 1 THEN p ELSE u[k - 1].op = "exec"
             /\ u[k].op = "exec" => /\ k \in DOMAIN t
                                    /\ t[k].op = "wait"
                                    /\ t[k].n = u[k].n
                                    /\ ~t[k].done
  <2>1. CASE k \in DOMAIN s
    <3>1. k # 1 => k - 1 \in DOMAIN s
      BY <2>1
    <3>2. u[k] = s[k] /\ (k # 1 => u[k - 1] = s[k - 1])
      BY <1>2, <2>1, <3>1, Zenon
    <3> QED  BY <2>1, <3>2 DEF Faces
  <2>2. CASE k \notin DOMAIN s
    <3>1. k = Len(s) + 1 /\ u[k] = w
      BY <1>2, <2>2, Zenon
    <3>2. CASE s = <<>> /\ p
      BY <3>1, <3>2
    <3>3. CASE s # <<>> /\ Top(s).op = "exec"
      <4>1. Len(s) \in DOMAIN s /\ Top(s) = s[Len(s)] /\ Len(s) \in Nat /\ Len(s) >= 1
        BY <3>3, TopFrame, Zenon
      <4>2. k # 1 /\ k - 1 = Len(s)
        BY <3>1, <4>1
      <4>3. u[k - 1].op = "exec"
        BY <1>2, <3>3, <4>1, <4>2, Zenon
      <4> QED  BY <3>1, <4>2, <4>3, Zenon
    <3> QED  BY <3>2, <3>3, Zenon
  <2> QED  BY <2>1, <2>2, Zenon
<1>7. Faces(u, t, p)
  BY <1>6, Zenon DEF Faces
<1> QED  BY <1>1, <1>4, <1>5, <1>7, Zenon

(* The handler of the call waited for on top faces it.                      *)
LEMMA PushExec ==
    ASSUME NEW s \in Seq(Frame), NEW t \in Seq(Frame),
           NEW p \in BOOLEAN, NEW q \in BOOLEAN,
           Faces(s, t, p), Faces(t, s, q),
           NEW x \in Frame, x.op = "exec", Awaits(t, s, x.n)
    PROVE  Faces(Append(s, x), t, p) /\ Faces(t, Append(s, x), q)
<1>1. PICK u : u = Append(s, x)
  BY Zenon
<1>2. /\ u \in Seq(Frame)
      /\ \A k \in DOMAIN s : k \in DOMAIN u /\ u[k] = s[k]
      /\ \A k \in DOMAIN u : k \in DOMAIN s \/ (k = Len(s) + 1 /\ u[k] = x)
  BY <1>1, PushFacts, Zenon
<1>3. Faces(t, u, q)
  BY <1>2 DEF Faces
<1>4. /\ t # <<>> /\ Len(s) = Len(t) - 1
      /\ Top(t).op = "wait" /\ Top(t).n = x.n /\ ~Top(t).done
  BY Zenon DEF Awaits
<1>5. Len(t) \in DOMAIN t /\ Top(t) = t[Len(t)] /\ Len(t) \in Nat
  BY <1>4, TopFrame, Zenon
<1>6. ASSUME NEW k \in DOMAIN u
      PROVE  /\ u[k].op = "wait" => IF k = 1 THEN p ELSE u[k - 1].op = "exec"
             /\ u[k].op = "exec" => /\ k \in DOMAIN t
                                    /\ t[k].op = "wait"
                                    /\ t[k].n = u[k].n
                                    /\ ~t[k].done
  <2>1. CASE k \in DOMAIN s
    <3>1. k # 1 => k - 1 \in DOMAIN s
      BY <2>1
    <3>2. u[k] = s[k] /\ (k # 1 => u[k - 1] = s[k - 1])
      BY <1>2, <2>1, <3>1, Zenon
    <3> QED  BY <2>1, <3>2 DEF Faces
  <2>2. CASE k \notin DOMAIN s
    <3>1. k = Len(s) + 1 /\ u[k] = x
      BY <1>2, <2>2, Zenon
    <3>2. k = Len(t)
      BY <1>4, <1>5, <3>1
    <3> QED  BY <1>4, <1>5, <3>1, <3>2, Zenon
  <2> QED  BY <2>1, <2>2, Zenon
<1>7. Faces(u, t, p)
  BY <1>6, Zenon DEF Faces
<1> QED  BY <1>1, <1>3, <1>7, Zenon

(* Leaving a handler, or a stub whose call is complete, takes nothing away  *)
(* that a handler on the other side faces.                                  *)
LEMMA PopFaces ==
    ASSUME NEW s \in Seq(Frame), NEW t \in Seq(Frame),
           NEW p \in BOOLEAN, NEW q \in BOOLEAN,
           Faces(s, t, p), Faces(t, s, q), s # <<>>,
           Top(s).op = "exec" \/ Top(s).done
    PROVE  Faces(Pop(s), t, p) /\ Faces(t, Pop(s), q)
<1>1. PICK u : u = Pop(s)
  BY Zenon
<1>2. PICK L : L = Len(s)
  BY Zenon
<1>3. /\ DOMAIN u = 1 .. L - 1
      /\ \A k \in 1 .. L - 1 : u[k] = s[k]
  BY <1>1, <1>2, PopFacts, Zenon
<1>4. L \in Nat /\ L >= 1 /\ DOMAIN s = 1 .. L /\ Top(s) = s[L]
  BY <1>2, TopFrame, Zenon
<1>5. \A k \in DOMAIN u : k \in DOMAIN s /\ u[k] = s[k] /\ (k # 1 => k - 1 \in DOMAIN u)
  BY <1>3, <1>4
<1>6. \A k \in DOMAIN s : k = L \/ k \in DOMAIN u
  BY <1>3, <1>4
<1>7. Faces(u, t, p)
  <2> SUFFICES ASSUME NEW k \in DOMAIN u
               PROVE  /\ u[k].op = "wait" => IF k = 1 THEN p ELSE u[k - 1].op = "exec"
                      /\ u[k].op = "exec" => /\ k \in DOMAIN t
                                             /\ t[k].op = "wait"
                                             /\ t[k].n = u[k].n
                                             /\ ~t[k].done
    BY Zenon DEF Faces
  <2>1. k \in DOMAIN s /\ u[k] = s[k] /\ (k # 1 => u[k - 1] = s[k - 1])
    BY <1>5, Zenon
  <2> QED  BY <2>1 DEF Faces
<1>8. ASSUME NEW k \in DOMAIN t, t[k].op = "exec"
      PROVE  k \in DOMAIN u /\ u[k].op = "wait" /\ u[k].n = t[k].n /\ ~u[k].done
  <2>1. k \in DOMAIN s /\ s[k].op = "wait" /\ s[k].n = t[k].n /\ ~s[k].done
    BY <1>8, Zenon DEF Faces
  <2>2. k # L
    BY <1>4, <2>1, Zenon
  <2> QED  BY <1>5, <1>6, <2>1, <2>2, Zenon
<1>9. Faces(t, u, q)
  BY <1>8, Zenon DEF Faces
<1> QED  BY <1>1, <1>7, <1>9, Zenon

(* A RET marks only the wait it answers, and no handler faces that one.     *)
LEMMA CompleteFaces ==
    ASSUME NEW s \in Seq(Frame), NEW t \in Seq(Frame),
           NEW p \in BOOLEAN, NEW q \in BOOLEAN,
           Faces(s, t, p), Faces(t, s, q), NEW n \in Nat,
           \A k \in DOMAIN t : t[k].op = "exec" => t[k].n # n
    PROVE  Faces(Completed(s, n), t, p) /\ Faces(t, Completed(s, n), q)
<1>1. PICK u : u = Completed(s, n)
  BY Zenon
<1>2. /\ DOMAIN u = DOMAIN s
      /\ \A k \in DOMAIN s : u[k].op = s[k].op /\ u[k].n = s[k].n
  BY <1>1, CompletedFacts, ZenonT(60)
<1>3. \A k \in DOMAIN s : s[k].n # n => u[k] = s[k]
  BY <1>1, Zenon DEF Completed, MarkComplete
<1>4. Faces(u, t, p)
  <2> SUFFICES ASSUME NEW k \in DOMAIN u
               PROVE  /\ u[k].op = "wait" => IF k = 1 THEN p ELSE u[k - 1].op = "exec"
                      /\ u[k].op = "exec" => /\ k \in DOMAIN t
                                             /\ t[k].op = "wait"
                                             /\ t[k].n = u[k].n
                                             /\ ~t[k].done
    BY Zenon DEF Faces
  <2>1. k \in DOMAIN s /\ (k # 1 => k - 1 \in DOMAIN s)
    BY <1>2
  <2>2. u[k].op = s[k].op /\ u[k].n = s[k].n /\ (k # 1 => u[k - 1].op = s[k - 1].op)
    BY <1>2, <2>1, Zenon
  <2> QED  BY <2>1, <2>2 DEF Faces
<1>5. Faces(t, u, q)
  BY <1>2, <1>3 DEF Faces
<1> QED  BY <1>1, <1>4, <1>5, Zenon
-----------------------------------------------------------------------------
(* The stacks, queues and channels, and which side is home.                 *)
LEMMA Sides ==
    ASSUME TypeOK, NEW e \in Endpoints, NEW i \in Ids
    PROVE  /\ stack[e][i] \in Seq(Frame) /\ stack[Peer(e)][i] \in Seq(Frame)
           /\ queue[e][i] \in Seq(Cmd) /\ chan[e] \in Seq(Cmd)
           /\ Home[i] \in Endpoints
           /\ (e = Home[i]) \in BOOLEAN /\ (Peer(e) = Home[i]) \in BOOLEAN
           /\ (Peer(e) = Home[i]) = ~(e = Home[i])
<1>1. Peer(e) \in Endpoints /\ Home[i] \in Endpoints
  BY PeerType, IdsAssumption, Zenon
<1>2. stack[e][i] \in Seq(Frame) /\ stack[Peer(e)][i] \in Seq(Frame)
  BY <1>1, Zenon DEF TypeOK
<1>3. queue[e][i] \in Seq(Cmd) /\ chan[e] \in Seq(Cmd)
  BY Zenon DEF TypeOK
<1>4. (Peer(e) = Home[i]) = ~(e = Home[i])
  BY <1>1, Zenon DEF Peer, Endpoints
<1> QED  BY <1>1, <1>2, <1>3, <1>4, Zenon

(* The stacks of a thread and its shadow face each other both ways.         *)
LEMMA BothWays ==
    ASSUME TypeOK, Nested, NEW e \in Endpoints, NEW i \in Ids
    PROVE  /\ Faces(stack[e][i], stack[Peer(e)][i], e = Home[i])
           /\ Faces(stack[Peer(e)][i], stack[e][i], Peer(e) = Home[i])
<1>1. Peer(e) \in Endpoints /\ Peer(Peer(e)) = e
  BY PeerType, Zenon
<1>2. Mirror(e, i) /\ Mirror(Peer(e), i)
  BY <1>1, Zenon DEF Nested
<1> QED  BY <1>1, <1>2, Zenon DEF Mirror

(* A command in transit is well formed and in its place.                    *)
LEMMA TransitFacts ==
    ASSUME TypeOK, CallsInOnePlace, NEW e \in Endpoints, NEW m \in Transit(e)
    PROVE  m \in Cmd /\ CmdOK(e, m) /\ m.thr \in Ids
<1>1. CASE \E k \in DOMAIN chan[e] : m = chan[e][k]
  <2>1. PICK k \in DOMAIN chan[e] : m = chan[e][k]
    BY <1>1, Zenon
  <2>2. chan[e] \in Seq(Cmd)
    BY Zenon DEF TypeOK
  <2>3. m \in Cmd
    BY <2>1, <2>2
  <2>4. CmdOK(e, m)
    BY <2>1, Zenon DEF CallsInOnePlace, ChannelsOK
  <2> QED  BY <2>3, <2>4, Zenon DEF Cmd
<1>2. CASE \E i \in Ids : \E k \in DOMAIN queue[e][i] : m = queue[e][i][k]
  <2>1. PICK i \in Ids : \E k \in DOMAIN queue[e][i] : m = queue[e][i][k]
    BY <1>2, Zenon
  <2>2. PICK k \in DOMAIN queue[e][i] : m = queue[e][i][k]
    BY <2>1, Zenon
  <2>3. queue[e][i] \in Seq(Cmd)
    BY DEF TypeOK
  <2>4. m \in Cmd
    BY <2>2, <2>3
  <2>5. CmdOK(e, m)
    BY <2>2, Zenon DEF CallsInOnePlace, QueuesOK
  <2> QED  BY <2>4, <2>5, Zenon DEF Cmd
<1> QED  BY <1>1, <1>2, Zenon DEF Transit

(* A command of i in transit: some call of i is waited for on top of one of *)
(* its stacks, or the thread has left.                                      *)
LEMMA CmdSays ==
    ASSUME TypeOK, CallsInOnePlace, Nested, NEW e \in Endpoints, NEW i \in Ids,
           NEW f \in Endpoints, NEW c \in Transit(f), c.thr = i
    PROVE  \/ c.op # "exit" /\ Awaits(stack[e][i], stack[Peer(e)][i], c.n)
           \/ c.op # "exit" /\ Awaits(stack[Peer(e)][i], stack[e][i], c.n)
           \/ c.op = "exit" /\ f # Home[i] /\ Left(i)
<1>1. c \in Cmd /\ CmdNests(f, c)
  BY TransitFacts, Zenon DEF Nested
<1>2. c.op \in {"call", "ret", "exit"}
  BY <1>1, Zenon DEF Cmd
<1>3. Peer(f) \in Endpoints /\ Peer(Peer(f)) = f /\ Peer(Peer(e)) = e
  BY PeerType, Zenon
<1>4. e = f \/ e = Peer(f)
  BY DEF Peer, Endpoints
<1>5. CASE c.op = "call"
  BY <1>1, <1>3, <1>4, <1>5, Zenon DEF CmdNests, WaitsOnTop
<1>6. CASE c.op = "ret"
  BY <1>1, <1>3, <1>4, <1>6, Zenon DEF CmdNests, WaitsOnTop
<1>7. CASE c.op = "exit"
  BY <1>1, <1>7, Zenon DEF CmdNests
<1> QED  BY <1>2, <1>5, <1>6, <1>7, Zenon

(* Once a thread has left, its stacks are empty on both sides.              *)
LEMMA LeftEmpty ==
    ASSUME TypeOK, Nested, NEW i \in Ids, stack[Home[i]][i] = <<>>, NEW e \in Endpoints
    PROVE  stack[e][i] = <<>>
<1>1. Home[i] \in Endpoints /\ Peer(Home[i]) \in Endpoints /\ Peer(Home[i]) # Home[i]
  BY PeerType, IdsAssumption, Zenon
<1>2. (Peer(Home[i]) = Home[i]) = FALSE
  BY <1>1, Zenon
<1>3. Faces(stack[Peer(Home[i])][i], stack[Home[i]][i], FALSE)
  BY <1>1, <1>2, BothWays, Zenon
<1>4. stack[Home[i]][i] \in Seq(Frame) /\ stack[Peer(Home[i])][i] \in Seq(Frame)
  BY <1>1, Sides, Zenon
<1>5. stack[Peer(Home[i])][i] = <<>>
  BY <1>3, <1>4, EmptyHome, Zenon
<1>6. e = Home[i] \/ e = Peer(Home[i])
  BY <1>1 DEF Peer, Endpoints
<1> QED  BY <1>5, <1>6, Zenon
-----------------------------------------------------------------------------
(* No command of a thread is in transit while it executes a handler ...     *)
LEMMA NoneUnderHandler ==
    ASSUME TypeOK, CallsInOnePlace, Nested, NEW e \in Endpoints, NEW i \in Ids,
           TopIs(e, i, "exec"), NEW f \in Endpoints, NEW c \in Transit(f)
    PROVE  c.thr # i
<1> SUFFICES ASSUME c.thr = i PROVE FALSE
  BY Zenon
<1>1. stack[e][i] \in Seq(Frame) /\ stack[Peer(e)][i] \in Seq(Frame)
  BY Sides, Zenon
<1>2. stack[e][i] # <<>> /\ Top(stack[e][i]).op = "exec"
  BY Zenon DEF TopIs
<1>3. Len(stack[Peer(e)][i]) = Len(stack[e][i])
  BY <1>1, <1>2, BothWays, EqualHeight, Sides, ZenonT(60)
<1>4. ~Left(i)
  BY <1>2, LeftEmpty, Zenon DEF Left
<1> QED  BY <1>1, <1>3, <1>4, CmdSays DEF Awaits

(* ... nor while its innermost call is complete ...                         *)
LEMMA NoneUnderDone ==
    ASSUME TypeOK, CallsInOnePlace, Nested, NEW e \in Endpoints, NEW i \in Ids,
           TopIs(e, i, "wait"), Top(stack[e][i]).done,
           NEW f \in Endpoints, NEW c \in Transit(f)
    PROVE  c.thr # i
<1> SUFFICES ASSUME c.thr = i PROVE FALSE
  BY Zenon
<1>1. stack[e][i] \in Seq(Frame) /\ stack[Peer(e)][i] \in Seq(Frame)
  BY Sides, Zenon
<1>2. stack[e][i] # <<>> /\ Top(stack[e][i]).op = "wait"
  BY Zenon DEF TopIs
<1>3. Len(stack[Peer(e)][i]) = Len(stack[e][i]) - 1
  BY <1>1, <1>2, BothWays, DoneHeight, Sides, ZenonT(60)
<1>4. ~Left(i)
  BY <1>2, LeftEmpty, Zenon DEF Left
<1> QED  BY <1>1, <1>3, <1>4, CmdSays DEF Awaits

(* ... nor while a running thread is outside of AvA.                        *)
LEMMA NoneOutside ==
    ASSUME TypeOK, CallsInOnePlace, Nested, NEW i \in Ids,
           stack[Home[i]][i] = <<>>, i \in alive \/ starts[i] = 0,
           NEW f \in Endpoints, NEW c \in Transit(f)
    PROVE  c.thr # i
<1> SUFFICES ASSUME c.thr = i PROVE FALSE
  BY Zenon
<1>1. Home[i] \in Endpoints /\ Peer(Home[i]) \in Endpoints
  BY PeerType, IdsAssumption, Zenon
<1>2. stack[Home[i]][i] = <<>> /\ stack[Peer(Home[i])][i] = <<>>
  BY <1>1, LeftEmpty, Zenon
<1>3. ~Left(i)
  BY Zenon DEF Left
<1> QED  BY <1>1, <1>2, <1>3, CmdSays, Zenon DEF Awaits

(* Two commands of one thread in transit are the same CALL or RET.          *)
LEMMA OnlyCommand ==
    ASSUME TypeOK, CallsInOnePlace, Nested, NEW e \in Endpoints, NEW i \in Ids,
           NEW m \in Transit(e), m.thr = i, m.op # "exit",
           NEW f \in Endpoints, NEW c \in Transit(f), c.thr = i
    PROVE  f = e /\ c.op = m.op /\ c.n = m.n /\ c.op # "exit"
<1>1. stack[e][i] \in Seq(Frame) /\ stack[Peer(e)][i] \in Seq(Frame)
  BY Sides, Zenon
<1>2. PICK s, t : s = stack[e][i] /\ t = stack[Peer(e)][i]
  BY Zenon
<1>3. Len(s) \in Nat /\ Len(t) \in Nat
  BY <1>1, <1>2
<1>4. m \in Cmd /\ CmdOK(e, m) /\ CmdNests(e, m) /\ c \in Cmd /\ CmdOK(f, c) /\ CmdNests(f, c)
  BY TransitFacts, Zenon DEF Nested
<1>5. m.op \in {"call", "ret"} /\ c.op \in {"call", "ret", "exit"}
  BY <1>4, Zenon DEF Cmd
<1>6. Peer(Peer(e)) = e /\ (f = e \/ f = Peer(e))
  BY Zenon DEF Peer, Endpoints
<1>7. c.op # "exit"
  <2> SUFFICES ASSUME c.op = "exit" PROVE FALSE
    BY Zenon
  <2>1. stack[Home[i]][i] = <<>>
    BY <1>4, Zenon DEF CmdNests, Left
  <2>2. s = <<>> /\ t = <<>>
    BY <1>2, <2>1, LeftEmpty, PeerType, Zenon
  <2> QED  BY <1>2, <1>4, <1>5, <1>6, <2>2, Zenon DEF CmdNests, WaitsOnTop, Awaits
<1>8. CASE m.op = "call"
  <2>1. Awaits(t, s, m.n)
    BY <1>2, <1>4, <1>6, <1>8, Zenon DEF CmdNests, WaitsOnTop
  <2>2. Len(s) = Len(t) - 1 /\ Top(t).n = m.n
    BY <2>1, Zenon DEF Awaits
  <2>3. CASE c.op = "call"
    <3>1. f = e
      <4> SUFFICES ASSUME f = Peer(e) PROVE FALSE
        BY <1>6, Zenon
      <4>1. Awaits(s, t, c.n)
        BY <1>2, <1>4, <1>6, <2>3, Zenon DEF CmdNests, WaitsOnTop
      <4> QED  BY <1>3, <2>2, <4>1 DEF Awaits
    <3>2. Awaits(t, s, c.n)
      BY <1>2, <1>4, <1>6, <2>3, <3>1, Zenon DEF CmdNests, WaitsOnTop
    <3> QED  BY <1>8, <2>2, <2>3, <3>1, <3>2, Zenon DEF Awaits
  <2>4. CASE c.op = "ret"
    <3>1. f = Peer(e)
      <4> SUFFICES ASSUME f = e PROVE FALSE
        BY <1>6, Zenon
      <4>1. Awaits(s, t, c.n)
        BY <1>2, <1>4, <2>4, Zenon DEF CmdNests, WaitsOnTop
      <4> QED  BY <1>3, <2>2, <4>1 DEF Awaits
    <3>2. Awaits(t, s, c.n)
      BY <1>2, <1>4, <1>6, <2>4, <3>1, Zenon DEF CmdNests, WaitsOnTop
    <3>3. c.n = m.n
      BY <2>2, <3>2, Zenon DEF Awaits
    <3>4. work[Peer(e)][m.n] = "no" /\ work[Peer(e)][c.n] = "finished"
      BY <1>4, <1>8, <2>4, <3>1, Zenon DEF CmdOK
    <3> QED  BY <3>3, <3>4, Zenon
  <2> QED  BY <1>5, <1>7, <2>3, <2>4, Zenon
<1>9. CASE m.op = "ret"
  <2>1. Awaits(s, t, m.n)
    BY <1>2, <1>4, <1>6, <1>9, Zenon DEF CmdNests, WaitsOnTop
  <2>2. Len(t) = Len(s) - 1 /\ Top(s).n = m.n
    BY <2>1, Zenon DEF Awaits
  <2>3. CASE c.op = "ret"
    <3>1. f = e
      <4> SUFFICES ASSUME f = Peer(e) PROVE FALSE
        BY <1>6, Zenon
      <4>1. Awaits(t, s, c.n)
        BY <1>2, <1>4, <1>6, <2>3, Zenon DEF CmdNests, WaitsOnTop
      <4> QED  BY <1>3, <2>2, <4>1 DEF Awaits
    <3>2. Awaits(s, t, c.n)
      BY <1>2, <1>4, <1>6, <2>3, <3>1, Zenon DEF CmdNests, WaitsOnTop
    <3> QED  BY <1>9, <2>2, <2>3, <3>1, <3>2, Zenon DEF Awaits
  <2>4. CASE c.op = "call"
    <3>1. f = Peer(e)
      <4> SUFFICES ASSUME f = e PROVE FALSE
        BY <1>6, Zenon
      <4>1. Awaits(t, s, c.n)
        BY <1>2, <1>4, <2>4, Zenon DEF CmdNests, WaitsOnTop, Peer, Endpoints
      <4> QED  BY <1>3, <2>2, <4>1 DEF Awaits
    <3>2. Awaits(s, t, c.n)
      BY <1>2, <1>4, <1>6, <2>4, <3>1, Zenon DEF CmdNests, WaitsOnTop
    <3>3. c.n = m.n
      BY <2>2, <3>2, Zenon DEF Awaits
    <3>4. work[e][m.n] = "finished" /\ work[e][c.n] = "no"
      BY <1>4, <1>6, <1>9, <2>4, <3>1, Zenon DEF CmdOK
    <3> QED  BY <3>3, <3>4, Zenon
  <2> QED  BY <1>5, <1>7, <2>3, <2>4, Zenon
<1> QED  BY <1>5, <1>7, <1>8, <1>9, Zenon
-----------------------------------------------------------------------------
(* The commands in transit, by where they are.                              *)
LEMMA InTransit ==
    ASSUME NEW e \in Endpoints
    PROVE  /\ \A k \in DOMAIN chan[e] : chan[e][k] \in Transit(e)
           /\ \A i \in Ids : \A k \in DOMAIN queue[e][i] : queue[e][i][k] \in Transit(e)
           /\ \A m \in Transit(e) :
                 \/ \E k \in DOMAIN chan[e] : m = chan[e][k]
                 \/ \E i \in Ids : \E k \in DOMAIN queue[e][i] : m = queue[e][i][k]
BY DEF Transit

(* The same after a step.                                                   *)
LEMMA InTransitNext ==
    ASSUME NEW e \in Endpoints, NEW m \in Transit(e)'
    PROVE  \/ \E k \in DOMAIN chan'[e] : m = chan'[e][k]
           \/ \E i \in Ids : \E k \in DOMAIN queue'[e][i] : m = queue'[e][i][k]
BY Zenon DEF Transit

(* Sending adds one command.                                                *)
LEMMA TransitSend ==
    ASSUME TypeOK, NEW p \in Endpoints, NEW x \in Cmd,
           chan' = [chan EXCEPT ![p] = Append(@, x)],
           \A e \in Endpoints, i \in Ids : queue'[e][i] = queue[e][i] \/ queue'[e][i] = <<>>,
           NEW e \in Endpoints, NEW m \in Transit(e)'
    PROVE  m \in Transit(e) \/ (e = p /\ m = x)
<1>1. chan \in [Endpoints -> Seq(Cmd)]
  BY Zenon DEF TypeOK
<1>2. CASE \E k \in DOMAIN chan'[e] : m = chan'[e][k]
  <2>1. PICK k \in DOMAIN chan'[e] : m = chan'[e][k]
    BY <1>2, Zenon
  <2>2. CASE e = p
    <3>1. chan'[e] = Append(chan[e], x) /\ chan[e] \in Seq(Cmd)
      BY <1>1, <2>2, Zenon
    <3>2. (k \in DOMAIN chan[e] /\ m = chan[e][k]) \/ m = x
      BY <2>1, <3>1, AppendFacts
    <3> QED  BY <2>2, <3>2, InTransit
  <2>3. CASE e # p
    <3>1. chan'[e] = chan[e]
      BY <1>1, <2>3, Zenon
    <3> QED  BY <2>1, <3>1, InTransit, Zenon
  <2> QED  BY <2>2, <2>3, Zenon
<1>3. CASE \E i \in Ids : \E k \in DOMAIN queue'[e][i] : m = queue'[e][i][k]
  <2>1. PICK i \in Ids : \E k \in DOMAIN queue'[e][i] : m = queue'[e][i][k]
    BY <1>3, Zenon
  <2>2. DOMAIN <<>> = {}
    OBVIOUS
  <2>3. queue'[e][i] = queue[e][i]
    BY <2>1, <2>2, Zenon
  <2>4. PICK k \in DOMAIN queue[e][i] : m = queue[e][i][k]
    BY <2>1, <2>3, Zenon
  <2> QED  BY <2>4, InTransit, Zenon
<1> QED  BY <1>2, <1>3, InTransitNext, Zenon

(* Dispatching moves one command, and freeing a queue removes some.         *)
LEMMA TransitMove ==
    ASSUME TypeOK, NEW p \in Endpoints, NEW j \in Ids,
           \/ chan' = chan
           \/ chan[p] # <<>> /\ chan' = [chan EXCEPT ![p] = Tail(@)],
           \/ queue' = queue
           \/ queue' = [queue EXCEPT ![p][j] = <<>>]
           \/ queue[p][j] # <<>> /\ queue' = [queue EXCEPT ![p][j] = Tail(@)]
           \/ chan[p] # <<>> /\ queue' = [queue EXCEPT ![p][j] = Append(@, Head(chan[p]))]
           \/ chan[p] # <<>> /\ queue' = [queue EXCEPT ![p][j] = <<Head(chan[p])>>],
           NEW e \in Endpoints, NEW m \in Transit(e)'
    PROVE  m \in Transit(e)
<1>1. chan \in [Endpoints -> Seq(Cmd)] /\ queue \in [Endpoints -> [Ids -> Seq(Cmd)]]
  BY Zenon DEF TypeOK
<1>2. ASSUME NEW k \in DOMAIN chan'[e], m = chan'[e][k]
      PROVE  m \in Transit(e)
  <2>1. CASE chan'[e] = chan[e]
    BY <1>2, <2>1, InTransit, Zenon
  <2>2. CASE chan[e] # <<>> /\ chan'[e] = Tail(chan[e])
    <3>1. k + 1 \in DOMAIN chan[e] /\ m = chan[e][k + 1]
      BY <1>1, <1>2, <2>2, TailFacts
    <3> QED  BY <3>1, InTransit, Zenon
  <2> QED  BY <1>1, <2>1, <2>2, Zenon
<1>3. ASSUME chan[p] # <<>>
      PROVE  Head(chan[p]) \in Transit(p) /\ Head(chan[p]) \in Cmd
  <2>1. chan[p] \in Seq(Cmd)
    BY <1>1, Zenon
  <2>2. 1 \in DOMAIN chan[p] /\ Head(chan[p]) = chan[p][1] /\ Head(chan[p]) \in Cmd
    BY <1>3, <2>1
  <2> QED  BY <2>2, InTransit, Zenon
<1>4. ASSUME NEW i \in Ids, NEW k \in DOMAIN queue'[e][i], m = queue'[e][i][k]
      PROVE  m \in Transit(e)
  <2>1. CASE queue'[e][i] = queue[e][i]
    BY <1>4, <2>1, InTransit, Zenon
  <2>2. CASE queue'[e][i] = <<>>
    BY <1>4, <2>2
  <2>3. CASE queue[e][i] # <<>> /\ queue'[e][i] = Tail(queue[e][i])
    <3>1. queue[e][i] \in Seq(Cmd)
      BY <1>1
    <3>2. k + 1 \in DOMAIN queue[e][i] /\ m = queue[e][i][k + 1]
      BY <1>4, <2>3, <3>1, TailFacts, SMTT(60)
    <3> QED  BY <3>2, InTransit, Zenon
  <2>4. CASE e = p /\ chan[p] # <<>> /\ queue'[e][i] = Append(queue[e][i], Head(chan[p]))
    <3>1. queue[e][i] \in Seq(Cmd)
      BY <1>1, ZenonT(60)
    <3>2. (k \in DOMAIN queue[e][i] /\ m = queue[e][i][k]) \/ m = Head(chan[p])
      BY <1>3, <1>4, <2>4, <3>1, AppendFacts
    <3> QED  BY <1>3, <2>4, <3>2, InTransit
  <2>5. CASE e = p /\ chan[p] # <<>> /\ queue'[e][i] = <<Head(chan[p])>>
    BY <1>3, <1>4, <2>5
  <2>6. CASE ~(e = p /\ i = j)
    <3>1. queue'[e][i] = queue[e][i]
      BY <1>1, <2>6
    <3> QED  BY <2>1, <3>1, Zenon
  <2>7. CASE e = p /\ i = j
    <3>1. CASE queue' = [queue EXCEPT ![p][j] = <<>>]
      BY <1>1, <2>2, <2>7, <3>1, Zenon
    <3>2. CASE queue[p][j] # <<>> /\ queue' = [queue EXCEPT ![p][j] = Tail(@)]
      BY <1>1, <2>3, <2>7, <3>2, Zenon
    <3>3. CASE chan[p] # <<>> /\ queue' = [queue EXCEPT ![p][j] = Append(@, Head(chan[p]))]
      BY <1>1, <2>4, <2>7, <3>3, Zenon
    <3>4. CASE chan[p] # <<>> /\ queue' = [queue EXCEPT ![p][j] = <<Head(chan[p])>>]
      BY <1>1, <2>5, <2>7, <3>4, Zenon
    <3>5. CASE queue' = queue
      BY <2>1, <3>5, Zenon
    <3> QED  BY <3>1, <3>2, <3>3, <3>4, <3>5, Zenon
  <2> QED  BY <2>6, <2>7, Zenon
<1> QED  BY <1>2, <1>4, InTransitNext, Zenon
-----------------------------------------------------------------------------
(* A step on behalf of thread i: the other threads keep their part of the   *)
(* invariant.                                                               *)
LEMMA OneThread ==
    ASSUME TypeOK, CallsInOnePlace, TypeOK', CallsInOnePlace', Nested, NEW i \in Ids,
           \A j \in Ids : j # i =>
               /\ \A f \in Endpoints : stack'[f][j] = stack[f][j]
               /\ kind'[Home[j]][j] = kind[Home[j]][j]
               /\ (j \in alive') = (j \in alive)
               /\ starts'[j] = starts[j],
           \A f \in Endpoints : \A c \in Transit(f)' :
               IF c.thr = i THEN CmdNests(f, c)' ELSE c \in Transit(f),
           \A f \in Endpoints : Mirror(f, i)',
           HomeOK(i)'
    PROVE  Nested'
<1>1. ASSUME NEW f \in Endpoints, NEW j \in Ids, j # i
      PROVE  Mirror(f, j)'
  <2>1. Mirror(f, j) /\ Peer(f) \in Endpoints
    BY PeerType, Zenon DEF Nested
  <2>2. stack'[f][j] = stack[f][j] /\ stack'[Peer(f)][j] = stack[Peer(f)][j]
    BY <1>1, <2>1, Zenon
  <2> QED  BY <2>1, <2>2, Zenon DEF Mirror
<1>2. ASSUME NEW j \in Ids, j # i
      PROVE  HomeOK(j)'
  <2>1. HomeOK(j) /\ Home[j] \in Endpoints
    BY IdsAssumption, Zenon DEF Nested
  <2> QED  BY <1>2, <2>1, Zenon DEF HomeOK
<1>3. ASSUME NEW f \in Endpoints, NEW c \in Transit(f), c.thr # i
      PROVE  CmdNests(f, c)'
  <2>1. CmdNests(f, c) /\ c.thr \in Ids /\ Peer(f) \in Endpoints /\ Peer(Peer(f)) = f
    BY PeerType, TransitFacts, Zenon DEF Nested
  <2>2. PICK j \in Ids : j = c.thr
    BY <2>1, Zenon
  <2>3. /\ stack'[f][j] = stack[f][j] /\ stack'[Peer(f)][j] = stack[Peer(f)][j]
        /\ stack'[Home[j]][j] = stack[Home[j]][j]
        /\ (j \in alive') = (j \in alive) /\ starts'[j] = starts[j]
    BY <1>3, <2>1, <2>2, IdsAssumption, Zenon
  <2>4. Left(j)' = Left(j)
    BY <2>3, Zenon DEF Left
  <2>5. \A n : WaitsOnTop(f, j, n)' = WaitsOnTop(f, j, n)
    BY <2>3, Zenon DEF WaitsOnTop
  <2>6. \A n : WaitsOnTop(Peer(f), j, n)' = WaitsOnTop(Peer(f), j, n)
    BY <2>1, <2>3, Zenon DEF WaitsOnTop
  <2> QED  BY <2>1, <2>2, <2>4, <2>5, <2>6, Zenon DEF CmdNests
<1>4. ASSUME NEW f \in Endpoints, NEW c \in Transit(f)'
      PROVE  CmdNests(f, c)'
  BY <1>3, <1>4, Zenon
<1>5. \A f \in Endpoints, j \in Ids : Mirror(f, j)'
  BY <1>1, Zenon
<1> QED  BY <1>2, <1>4, <1>5, Zenon DEF Nested

(* The steps that leave every stack, and the commands of i, as they were.   *)
LEMMA StacksSame ==
    ASSUME TypeOK, CallsInOnePlace, TypeOK', CallsInOnePlace', Nested, NEW i \in Ids,
           UNCHANGED stack,
           \A j \in Ids : j # i =>
               /\ kind'[Home[j]][j] = kind[Home[j]][j]
               /\ (j \in alive') = (j \in alive)
               /\ starts'[j] = starts[j],
           \A f \in Endpoints : \A c \in Transit(f)' :
               \/ c \in Transit(f) /\ (c.thr = i /\ c.op = "exit" => Left(i)')
               \/ c = ExitCmd(i) /\ f # Home[i] /\ Left(i)',
           HomeOK(i)'
    PROVE  Nested'
<1>1. \A f \in Endpoints : Mirror(f, i)'
  BY Zenon DEF Nested, Mirror
<1>2. ASSUME NEW f \in Endpoints, NEW c \in Transit(f)'
      PROVE  IF c.thr = i THEN CmdNests(f, c)' ELSE c \in Transit(f)
  <2>1. CASE c \in Transit(f) /\ (c.thr = i /\ c.op = "exit" => Left(i)')
    <3>1. CmdNests(f, c)
      BY <2>1, Zenon DEF Nested
    <3>2. \A g, n : WaitsOnTop(g, c.thr, n)' = WaitsOnTop(g, c.thr, n)
      BY Zenon DEF WaitsOnTop
    <3>3. c.thr = i => CmdNests(f, c)'
      BY <2>1, <3>1, <3>2, ZenonT(60) DEF CmdNests
    <3> QED  BY <2>1, <3>3, Zenon
  <2>2. CASE c = ExitCmd(i) /\ f # Home[i] /\ Left(i)'
    <3>1. c.op = "exit" /\ c.thr = i
      BY <2>2, Zenon DEF ExitCmd
    <3> QED  BY <2>2, <3>1, Zenon DEF CmdNests
  <2> QED  BY <1>2, <2>1, <2>2, Zenon
<1>3. \A j \in Ids : j # i => /\ \A f \in Endpoints : stack'[f][j] = stack[f][j]
                              /\ kind'[Home[j]][j] = kind[Home[j]][j]
                              /\ (j \in alive') = (j \in alive)
                              /\ starts'[j] = starts[j]
  BY Zenon
<1> QED  BY <1>1, <1>2, <1>3, OneThread, Zenon
-----------------------------------------------------------------------------
(* A thread starts: its id is new, so no THREAD_EXIT bears it.              *)
LEMMA StartNests ==
    ASSUME IdsNotReused, TypeOK, CallsInOnePlace, TypeOK', CallsInOnePlace', Nested,
           NEW i \in Ids, ThreadStart(i)
    PROVE  Nested'
<1>1. /\ i \notin alive /\ starts[i] < MaxStarts
      /\ alive' = alive \cup {i} /\ starts' = [starts EXCEPT ![i] = @ + 1]
      /\ UNCHANGED <<kind, queue, stack, chan>>
  BY Zenon DEF ThreadStart
<1>2. starts \in [Ids -> 0 .. MaxStarts]
  BY Zenon DEF TypeOK
<1>3. starts[i] = 0 /\ starts'[i] = 1 /\ \A j \in Ids : j # i => starts'[j] = starts[j]
  BY <1>1, <1>2, BoundsAssumption DEF IdsNotReused
<1>4. \A f : Transit(f)' = Transit(f)
  BY <1>1 DEF Transit
<1>5. ASSUME NEW f \in Endpoints, NEW c \in Transit(f), c.thr = i, c.op = "exit"
      PROVE  FALSE
  <2>1. Left(i)
    BY <1>5, Zenon DEF Nested, CmdNests
  <2> QED  BY <1>3, <2>1, Zenon DEF Left
<1>6. HomeOK(i)'
  BY <1>1, <1>3 DEF Nested, HomeOK
<1>7. \A j \in Ids : j # i => (j \in alive') = (j \in alive)
  BY <1>1
<1> QED  BY <1>1, <1>3, <1>4, <1>5, <1>6, <1>7, StacksSame, Zenon

(* A thread exits outside of any call.                                      *)
LEMMA ExitNests ==
    ASSUME TypeOK, CallsInOnePlace, TypeOK', CallsInOnePlace', Nested,
           NEW i \in Ids, ThreadExit(i)
    PROVE  Nested'
<1> DEFINE e == Home[i]
<1>1. e \in Endpoints /\ Peer(e) \in Endpoints /\ Peer(e) # e
  BY PeerType, IdsAssumption, Zenon
<1>2. /\ i \in alive /\ (kind[e][i] = "solid" => stack[e][i] = <<>>)
      /\ alive' = alive \ {i} /\ UNCHANGED <<starts, stack>>
  BY Zenon DEF ThreadExit
<1>3. HomeOK(i)
  BY Zenon DEF Nested
<1>4. stack[e][i] = <<>> /\ starts[i] # 0
  BY <1>2, <1>3, Zenon DEF HomeOK
<1>5. Left(i)'
  BY <1>2, <1>4, Zenon DEF Left
<1>6. kind \in [Endpoints -> [Ids -> Kinds]] /\ queue \in [Endpoints -> [Ids -> Seq(Cmd)]]
  BY Zenon DEF TypeOK
<1>7. \/ /\ chan' = [chan EXCEPT ![Peer(e)] = Append(@, ExitCmd(i))]
         /\ kind' = [kind EXCEPT ![e][i] = "none"]
         /\ queue' = [queue EXCEPT ![e][i] = <<>>]
      \/ UNCHANGED <<chan, kind, queue>>
  BY Zenon DEF ThreadExit, ExitNotice
<1>8. ASSUME NEW f \in Endpoints, NEW c \in Transit(f)'
      PROVE  c \in Transit(f) \/ (c = ExitCmd(i) /\ f # Home[i])
  <2>1. CASE UNCHANGED <<chan, kind, queue>>
    BY <1>8, <2>1 DEF Transit
  <2>2. CASE /\ chan' = [chan EXCEPT ![Peer(e)] = Append(@, ExitCmd(i))]
             /\ queue' = [queue EXCEPT ![e][i] = <<>>]
    <3>1. \A g \in Endpoints, j \in Ids : queue'[g][j] = queue[g][j] \/ queue'[g][j] = <<>>
      BY <1>6, <2>2, Zenon
    <3>2. ExitCmd(i) \in Cmd
      BY Zenon DEF ExitCmd, Cmd
    <3>3. PICK p \in Endpoints, x \in Cmd : p = Peer(e) /\ x = ExitCmd(i)
      BY <1>1, <3>2, Zenon
    <3>4. chan' = [chan EXCEPT ![p] = Append(@, x)]
      BY <2>2, <3>3, Zenon
    <3>5. c \in Transit(f) \/ (f = p /\ c = x)
      BY <1>8, <3>1, <3>4, TransitSend, Zenon
    <3> QED  BY <1>1, <3>3, <3>5, Zenon
  <2> QED  BY <1>7, <2>1, <2>2, Zenon
<1>9. kind'[e][i] \in {"none", "solid"}
  BY <1>1, <1>3, <1>6, <1>7 DEF HomeOK
<1>10. HomeOK(i)'
  BY <1>2, <1>4, <1>9, Zenon DEF HomeOK
<1>11. \A j \in Ids : j # i => /\ kind'[Home[j]][j] = kind[Home[j]][j]
                               /\ (j \in alive') = (j \in alive)
                               /\ starts'[j] = starts[j]
  <2> SUFFICES ASSUME NEW j \in Ids, j # i
               PROVE  /\ kind'[Home[j]][j] = kind[Home[j]][j]
                      /\ (j \in alive') = (j \in alive)
                      /\ starts'[j] = starts[j]
    BY Zenon
  <2>1. Home[j] \in Endpoints
    BY IdsAssumption, Zenon
  <2>2. kind'[Home[j]][j] = kind[Home[j]][j]
    <3>1. PICK h \in Endpoints, g \in Endpoints : h = Home[j] /\ g = e
      BY <1>1, <2>1, Zenon
    <3>2. kind' = [kind EXCEPT ![g][i] = "none"] \/ kind' = kind
      BY <1>7, <3>1, Zenon
    <3>3. kind'[h][j] = kind[h][j]
      BY <1>6, <3>2, ZenonT(60)
    <3> QED  BY <3>1, <3>3, Zenon
  <2> QED  BY <1>2, <2>2
<1> QED  BY <1>2, <1>5, <1>8, <1>10, <1>11, StacksSame, Zenon

(* A command that reaches home finds its thread registered: no shadow of a  *)
(* thread is ever created at its own endpoint.                              *)
LEMMA DispatchNests ==
    ASSUME TypeOK, CallsInOnePlace, TypeOK', CallsInOnePlace', Nested, failed = "none",
           NEW e \in Endpoints, Dispatch(e)
    PROVE  Nested' /\ (failed' = "none" \/ failed' = Coincidence)
<1>1. PICK m : m = Head(chan[e])
  BY Zenon
<1>2. PICK i : i = m.thr
  BY Zenon
<1>3. chan[e] # <<>> /\ chan[e] \in Seq(Cmd)
  <2>1. chan[e] # <<>>
    BY Zenon DEF Dispatch
  <2> QED  BY <2>1, Zenon DEF TypeOK
<1>4. m \in Transit(e)
  <2>1. 1 \in DOMAIN chan[e] /\ m = chan[e][1]
    BY <1>1, <1>3, TailFacts, Zenon
  <2> QED  BY <2>1, InTransit, Zenon
<1>5. m \in Cmd /\ i \in Ids /\ CmdNests(e, m)
  BY <1>2, <1>4, TransitFacts, Zenon DEF Nested
<1>6. e = Home[i] => kind[e][i] = "solid"
  <2> SUFFICES ASSUME e = Home[i] PROVE kind[e][i] = "solid"
    BY Zenon
  <2>1. m.op # "exit"
    BY <1>2, <1>5, Zenon DEF CmdNests
  <2>2. stack[Home[i]][i] # <<>>
    <3> SUFFICES ASSUME stack[Home[i]][i] = <<>> PROVE FALSE
      BY Zenon
    <3>1. stack[e][i] = <<>> /\ stack[Peer(e)][i] = <<>>
      BY <1>5, LeftEmpty, PeerType, Zenon
    <3> QED  BY <1>2, <1>4, <1>5, <2>1, <3>1, CmdSays, Zenon DEF Awaits
  <2>3. HomeOK(i)
    BY <1>5, Zenon DEF Nested
  <2> QED  BY <2>2, <2>3, Zenon DEF HomeOK
<1>7. /\ UNCHANGED <<alive, starts, stack>> /\ chan' = [chan EXCEPT ![e] = Tail(@)]
      /\ failed' = "none" \/ failed' = Coincidence
      /\ \/ UNCHANGED <<kind, queue>>
         \/ /\ UNCHANGED kind
            /\ queue' = [queue EXCEPT ![e][i] = Append(@, Head(chan[e]))]
         \/ /\ e # Home[i] /\ kind' = [kind EXCEPT ![e][i] = "shadow"]
            /\ queue' = [queue EXCEPT ![e][i] = <<Head(chan[e])>>]
  <2>1. UNCHANGED <<alive, starts, stack>> /\ chan' = [chan EXCEPT ![e] = Tail(@)]
    BY Zenon DEF Dispatch
  <2>2. \/ /\ UNCHANGED <<kind, failed>>
           /\ queue' = [queue EXCEPT ![e][i] = Append(@, Head(chan[e]))]
        \/ UNCHANGED <<kind, queue, failed>>
        \/ /\ kind[e][i] = "none" /\ kind' = [kind EXCEPT ![e][i] = "shadow"]
           /\ queue' = [queue EXCEPT ![e][i] = <<Head(chan[e])>>]
           /\ UNCHANGED failed
        \/ failed' = Coincidence /\ UNCHANGED <<kind, queue>>
    BY <1>1, <1>2, Zenon DEF Dispatch, Push
  <2>3. kind[e][i] = "none" => e # Home[i]
    BY <1>6, Zenon
  <2> QED  BY <2>1, <2>2, <2>3, Zenon
<1>8. kind \in [Endpoints -> [Ids -> Kinds]]
  BY Zenon DEF TypeOK
<1>9. \A j \in Ids : kind'[Home[j]][j] = kind[Home[j]][j]
  BY <1>5, <1>7, <1>8, IdsAssumption
<1>10. ASSUME NEW f \in Endpoints, NEW c \in Transit(f)'
       PROVE  c \in Transit(f)
  BY <1>3, <1>5, <1>7, <1>10, TransitMove, Zenon
<1>11. HomeOK(i)'
  BY <1>5, <1>7, <1>9, Zenon DEF Nested, HomeOK
<1>12. ASSUME NEW f \in Endpoints, NEW c \in Transit(f), c.thr = i, c.op = "exit"
       PROVE  Left(i)'
  <2>1. Left(i)
    BY <1>12, Zenon DEF Nested, CmdNests
  <2> QED  BY <1>7, <2>1, Zenon DEF Left
<1>13. Nested'
  BY <1>5, <1>7, <1>9, <1>10, <1>11, <1>12, StacksSame, Zenon
<1> QED  BY <1>7, <1>13, Zenon

(* THREAD_EXIT ends the loop of a shadow, never a wait loop; the entry that *)
(* goes with it is not the one of the thread's own endpoint.                *)
LEMMA ShadowNests ==
    ASSUME TypeOK, CallsInOnePlace, TypeOK', CallsInOnePlace', Nested, failed = "none",
           NEW e \in Endpoints, NEW i \in Ids, HandleExit(e, i) \/ ShadowExit(e, i)
    PROVE  Nested' /\ failed' = "none"
<1>1. UNCHANGED <<alive, starts, stack, chan>>
  BY Zenon DEF HandleExit, ShadowExit
<1>2. kind \in [Endpoints -> [Ids -> Kinds]] /\ HomeOK(i) /\ Home[i] \in Endpoints
  BY IdsAssumption, Zenon DEF TypeOK, Nested
<1>3. /\ e # Home[i] /\ failed' = "none"
      /\ \E x : kind' = [kind EXCEPT ![e][i] = x]
      /\ \/ queue' = [queue EXCEPT ![e][i] = <<>>]
         \/ queue[e][i] # <<>> /\ queue' = [queue EXCEPT ![e][i] = Tail(@)]
  <2>1. CASE HandleExit(e, i)
    <3>1. queue[e][i] # <<>> /\ queue[e][i] \in Seq(Cmd) /\ Head(queue[e][i]).op = "exit"
      BY <2>1, Sides, Zenon DEF HandleExit, TakesCommands
    <3>2. PICK m : m = Head(queue[e][i])
      BY Zenon
    <3>3. m \in Transit(e)
      BY <3>1, <3>2, TailFacts, InTransit, SMTT(60)
    <3>4. m.thr = i
      BY <3>1, <3>2, TailFacts DEF CallsInOnePlace, QueuesOK
    <3>5. e # Home[i] /\ stack[Home[i]][i] = <<>>
      BY <3>1, <3>2, <3>3, <3>4, Zenon DEF Nested, CmdNests, Left
    <3>6. stack[e][i] = <<>>
      BY <3>5, LeftEmpty, Zenon
    <3>7. /\ kind' = [kind EXCEPT ![e][i] = "dying"] /\ UNCHANGED failed
          /\ queue' = [queue EXCEPT ![e][i] = Tail(@)]
      BY <2>1, <3>6, Zenon DEF HandleExit, Drop, Popped
    <3> QED  BY <3>1, <3>5, <3>7, Zenon
  <2>2. CASE ShadowExit(e, i)
    <3>1. /\ kind[e][i] = "dying" /\ kind' = [kind EXCEPT ![e][i] = "none"]
          /\ queue' = [queue EXCEPT ![e][i] = <<>>] /\ UNCHANGED failed
      BY <2>2, Zenon DEF ShadowExit
    <3>2. e # Home[i]
      BY <1>2, <3>1, Zenon DEF HomeOK
    <3> QED  BY <3>1, <3>2, Zenon
  <2> QED  BY <2>1, <2>2, Zenon
<1>4. \A j \in Ids : kind'[Home[j]][j] = kind[Home[j]][j]
  <2> SUFFICES ASSUME NEW j \in Ids PROVE kind'[Home[j]][j] = kind[Home[j]][j]
    BY Zenon
  <2>1. PICK x : kind' = [kind EXCEPT ![e][i] = x]
    BY <1>3, Zenon
  <2>2. PICK h \in Endpoints : h = Home[j]
    BY IdsAssumption, Zenon
  <2>3. kind'[h][j] = kind[h][j]
    BY <1>2, <1>3, <2>1, <2>2, Zenon
  <2> QED  BY <2>2, <2>3, Zenon
<1>5. ASSUME NEW f \in Endpoints, NEW c \in Transit(f)'
      PROVE  c \in Transit(f)
  BY <1>1, <1>3, <1>5, TransitMove, Zenon
<1>6. HomeOK(i)'
  BY <1>1, <1>2, <1>4, Zenon DEF HomeOK
<1>7. ASSUME NEW f \in Endpoints, NEW c \in Transit(f), c.thr = i, c.op = "exit"
      PROVE  Left(i)'
  <2>1. Left(i)
    BY <1>7, Zenon DEF Nested, CmdNests
  <2> QED  BY <1>1, <2>1, Zenon DEF Left
<1>8. Nested'
  BY <1>1, <1>4, <1>5, <1>6, <1>7, StacksSame, Zenon
<1> QED  BY <1>3, <1>8, Zenon

-----------------------------------------------------------------------------
(* The two stacks of a thread after a step that changed one of them.        *)
LEMMA MirrorFrom ==
    ASSUME NEW e \in Endpoints, NEW i \in Ids,
           Faces(stack'[e][i], stack'[Peer(e)][i], e = Home[i]),
           Faces(stack'[Peer(e)][i], stack'[e][i], Peer(e) = Home[i]),
           NEW f \in Endpoints
    PROVE  Mirror(f, i)'
<1>1. Peer(Peer(e)) = e /\ (f = e \/ f = Peer(e))
  BY Zenon DEF Peer, Endpoints
<1>2. CASE f = e
  BY <1>2, Zenon DEF Mirror
<1>3. CASE f = Peer(e)
  BY <1>1, <1>3, Zenon DEF Mirror
<1> QED  BY <1>1, <1>2, <1>3, Zenon

(* A thread with a frame on one side is inside AvA at home.                 *)
LEMMA InsideHome ==
    ASSUME TypeOK, Nested, NEW e \in Endpoints, NEW i \in Ids, stack[e][i] # <<>>
    PROVE  stack[Home[i]][i] # <<>> /\ kind[Home[i]][i] = "solid" /\ i \in alive
<1>1. stack[Home[i]][i] # <<>>
  BY LeftEmpty, Zenon
<1> QED  BY <1>1, Zenon DEF Nested, HomeOK

(* A synchronous call waits on top of its stack, and its CALL is the only   *)
(* command of the thread.                                                   *)
LEMMA SendNests ==
    ASSUME TypeOK, CallsInOnePlace, TypeOK', CallsInOnePlace', Nested,
           NEW e \in Endpoints, NEW i \in Ids, SendCall(e, i, "sync"),
           UNCHANGED <<alive, starts, queue>>, i \in alive,
           \/ stack[e][i] = <<>> /\ e = Home[i]
           \/ TopIs(e, i, "exec"),
           \A j \in Ids : j # i => kind'[Home[j]][j] = kind[Home[j]][j],
           kind'[Home[i]][i] = "solid"
    PROVE  Nested'
<1>0. PICK n : n = nextCall[e]
  BY Zenon
<1> DEFINE w == [op |-> "wait", n |-> n, done |-> FALSE]
           x == CallCmd(i, n)
           s == stack[e][i]
           t == stack[Peer(e)][i]
           u == Append(s, w)
<1>1. n \in Nat /\ Peer(e) \in Endpoints /\ Peer(Peer(e)) = e /\ Peer(e) # e
  BY <1>0, PeerType, SMTT(60) DEF TypeOK
<1>2. w \in Frame /\ w.op = "wait" /\ ~w.done /\ w.n = n
  BY <1>1, Zenon DEF Frame
<1>3. x \in Cmd /\ x.op = "call" /\ x.thr = i /\ x.n = n
  BY <1>1, Zenon DEF CallCmd, Cmd
<1>4. stack' = [stack EXCEPT ![e][i] = u] /\ chan' = [chan EXCEPT ![Peer(e)] = Append(@, x)]
  BY <1>0, Zenon DEF SendCall
<1>5. s \in Seq(Frame) /\ t \in Seq(Frame)
  BY Sides, Zenon
<1>6. \/ s = <<>> /\ t = <<>> /\ e = Home[i]
      \/ s # <<>> /\ Top(s).op = "exec"
  <2>1. CASE stack[e][i] = <<>> /\ e = Home[i]
    BY <1>1, <2>1, LeftEmpty, Zenon
  <2>2. CASE TopIs(e, i, "exec")
    BY <2>2, Zenon DEF TopIs
  <2> QED  BY <2>1, <2>2, Zenon
<1>7. ASSUME NEW f \in Endpoints, NEW c \in Transit(f)
      PROVE  c.thr # i
  <2>1. CASE stack[e][i] = <<>> /\ e = Home[i]
    BY <1>7, <2>1, NoneOutside, Zenon
  <2>2. CASE TopIs(e, i, "exec")
    BY <1>7, <2>2, NoneUnderHandler, Zenon
  <2> QED  BY <2>1, <2>2, Zenon
<1>8. /\ stack'[e][i] = u /\ stack'[Peer(e)][i] = t
      /\ \A j \in Ids : j # i => \A f \in Endpoints : stack'[f][j] = stack[f][j]
  <2>1. PICK v : v = u
    BY Zenon
  <2>2. stack' = [stack EXCEPT ![e][i] = v]
    BY <1>4, <2>1, Zenon
  <2>3. /\ stack'[e][i] = v /\ stack'[Peer(e)][i] = stack[Peer(e)][i]
        /\ \A j \in Ids : j # i => \A f \in Endpoints : stack'[f][j] = stack[f][j]
    <3>1. stack \in [Endpoints -> [Ids -> Seq(Frame)]]
      BY Zenon DEF TypeOK
    <3> QED  BY <1>1, <2>2, <3>1, Zenon
  <2> QED  BY <2>1, <2>3, Zenon
<1> HIDE DEF w, x
<1>9. /\ Faces(u, t, e = Home[i])
      /\ Faces(t, u, Peer(e) = Home[i])
      /\ Awaits(u, t, n)
  <2>1. PICK p \in BOOLEAN, q \in BOOLEAN : p = (e = Home[i]) /\ q = (Peer(e) = Home[i])
    BY Zenon
  <2>2. Faces(s, t, p) /\ Faces(t, s, q)
    BY <2>1, BothWays, Zenon
  <2>3. (s = <<>> /\ t = <<>> /\ p) \/ (s # <<>> /\ Top(s).op = "exec")
    BY <1>6, <2>1, ZenonT(60)
  <2>4. Faces(u, t, p) /\ Faces(t, u, q) /\ Awaits(u, t, w.n)
    BY <1>2, <1>5, <2>2, <2>3, PushWait, SMTT(60)
  <2> QED  BY <1>2, <2>1, <2>4, Zenon
<1> HIDE DEF u
<1>10. \A f \in Endpoints : Mirror(f, i)'
  BY <1>8, <1>9, MirrorFrom, Zenon
<1>11. ASSUME NEW f \in Endpoints, NEW c \in Transit(f)'
       PROVE  IF c.thr = i THEN CmdNests(f, c)' ELSE c \in Transit(f)
  <2>1. PICK p \in Endpoints : p = Peer(e)
    BY <1>1, Zenon
  <2>2. chan' = [chan EXCEPT ![p] = Append(@, x)]
    BY <1>4, <2>1, Zenon
  <2>3. c \in Transit(f) \/ (f = p /\ c = x)
    BY <1>3, <1>11, <2>2, TransitSend, Zenon
  <2>4. CASE c \in Transit(f)
    BY <1>7, <2>4, Zenon
  <2>5. CASE f = p /\ c = x
    <3>1. WaitsOnTop(Peer(f), i, n)'
      <4>1. Peer(f) = e
        BY <1>1, <2>1, <2>5, Zenon
      <4> QED  BY <1>8, <1>9, <4>1, Zenon DEF WaitsOnTop
    <3>2. c.op = "call" /\ c.thr = i /\ c.n = n
      BY <1>3, <2>5, Zenon
    <3>3. CmdNests(f, c)'
      BY <3>1, <3>2, Zenon DEF CmdNests
    <3> QED  BY <3>2, <3>3, Zenon
  <2> QED  BY <2>3, <2>4, <2>5, Zenon
<1>12. HomeOK(i)'
  <2>1. starts[i] # 0
    BY Zenon DEF Nested, HomeOK
  <2> QED  BY <2>1, Zenon DEF HomeOK
<1>13. \A j \in Ids : j # i =>
               /\ \A f \in Endpoints : stack'[f][j] = stack[f][j]
               /\ kind'[Home[j]][j] = kind[Home[j]][j]
               /\ (j \in alive') = (j \in alive)
               /\ starts'[j] = starts[j]
  BY <1>8, Zenon
<1> QED  BY <1>10, <1>11, <1>12, <1>13, OneThread, Zenon

(* A stub called by the application.                                        *)
LEMMA AppCallNests ==
    ASSUME TypeOK, CallsInOnePlace, TypeOK', CallsInOnePlace', Nested, failed = "none",
           NEW i \in Ids, AppCall(i, "sync")
    PROVE  Nested' /\ failed' = "none"
<1>1. PICK e \in Endpoints : e = Home[i]
  BY IdsAssumption, Zenon
<1>2. HomeOK(i) /\ kind \in [Endpoints -> [Ids -> Kinds]]
  BY Zenon DEF Nested, TypeOK
<1>3. kind[e][i] \in {"none", "solid"}
  BY <1>1, <1>2, Zenon DEF HomeOK
<1>4. /\ i \in alive /\ stack[e][i] = <<>> /\ SendCall(e, i, "sync")
      /\ kind' = [kind EXCEPT ![e][i] = "solid"]
      /\ UNCHANGED <<alive, starts, queue, failed>>
  BY <1>1, <1>3, Zenon DEF AppCall, SelfEntry
<1>5. kind'[e][i] = "solid"
  BY <1>2, <1>4, Zenon
<1>6. ASSUME NEW j \in Ids, j # i
      PROVE  kind'[Home[j]][j] = kind[Home[j]][j]
  <2>1. PICK h \in Endpoints : h = Home[j]
    BY IdsAssumption, Zenon
  <2>2. kind'[h][j] = kind[h][j]
    BY <1>2, <1>4, <1>6, Zenon
  <2> QED  BY <2>1, <2>2, Zenon
<1>7. Nested'
  BY <1>1, <1>4, <1>5, <1>6, SendNests, SMTT(60)
<1> QED  BY <1>4, <1>7, Zenon

(* A callback.                                                              *)
LEMMA HandlerCallNests ==
    ASSUME TypeOK, CallsInOnePlace, TypeOK', CallsInOnePlace', Nested,
           NEW e \in Endpoints, NEW i \in Ids, HandlerCall(e, i, "sync")
    PROVE  Nested'
<1>1. /\ TopIs(e, i, "exec") /\ SendCall(e, i, "sync")
      /\ UNCHANGED <<alive, starts, kind, queue>>
  BY Zenon DEF HandlerCall
<1>2. stack[e][i] # <<>>
  BY <1>1, Zenon DEF TopIs
<1>3. kind[Home[i]][i] = "solid" /\ i \in alive
  BY <1>2, InsideHome, Zenon
<1> QED  BY <1>1, <1>3, SendNests, Zenon
-----------------------------------------------------------------------------
(* A step inside AvA that changes one stack of thread i to v, takes the     *)
(* only command of i and may send a RET.                                    *)
LEMMA StackStep ==
    ASSUME TypeOK, CallsInOnePlace, TypeOK', CallsInOnePlace', Nested,
           NEW e \in Endpoints, NEW i \in Ids, NEW v, NEW n,
           UNCHANGED <<alive, starts, kind>>, stack' = [stack EXCEPT ![e][i] = v],
           stack[e][i] # <<>> \/ stack[Peer(e)][i] # <<>>,
           Faces(v, stack[Peer(e)][i], e = Home[i]),
           Faces(stack[Peer(e)][i], v, Peer(e) = Home[i]),
           \A f \in Endpoints : \A c \in Transit(f)' :
               \/ c \in Transit(f) /\ c.thr # i
               \/ f = Peer(e) /\ c = RetCmd(i, n) /\ Awaits(stack[Peer(e)][i], v, n)
    PROVE  Nested'
<1>1. Peer(e) \in Endpoints /\ Peer(Peer(e)) = e /\ Peer(e) # e
  BY PeerType, Zenon
<1>2. /\ stack'[e][i] = v /\ stack'[Peer(e)][i] = stack[Peer(e)][i]
      /\ \A j \in Ids : j # i => \A f \in Endpoints : stack'[f][j] = stack[f][j]
  <2>1. stack \in [Endpoints -> [Ids -> Seq(Frame)]]
    BY Zenon DEF TypeOK
  <2> QED  BY <1>1, <2>1, Zenon
<1>3. \A f \in Endpoints : Mirror(f, i)'
  BY <1>2, MirrorFrom, Zenon
<1>4. ASSUME NEW f \in Endpoints, NEW c \in Transit(f)'
      PROVE  IF c.thr = i THEN CmdNests(f, c)' ELSE c \in Transit(f)
  <2>1. CASE f = Peer(e) /\ c = RetCmd(i, n) /\ Awaits(stack[Peer(e)][i], v, n)
    <3>1. c.op = "ret" /\ c.thr = i /\ c.n = n
      BY <2>1, Zenon DEF RetCmd
    <3>2. WaitsOnTop(f, i, n)'
      BY <1>1, <1>2, <2>1, Zenon DEF WaitsOnTop
    <3>3. CmdNests(f, c)'
      BY <3>1, <3>2, Zenon DEF CmdNests
    <3> QED  BY <3>1, <3>3, Zenon
  <2> QED  BY <1>4, <2>1, Zenon
<1>5. HomeOK(i)'
  <2>1. kind[Home[i]][i] = "solid" /\ i \in alive
    BY <1>1, InsideHome, Zenon
  <2>2. HomeOK(i)
    BY Zenon DEF Nested
  <2> QED  BY <2>1, <2>2, Zenon DEF HomeOK
<1>6. \A j \in Ids : j # i =>
               /\ \A f \in Endpoints : stack'[f][j] = stack[f][j]
               /\ kind'[Home[j]][j] = kind[Home[j]][j]
               /\ (j \in alive') = (j \in alive)
               /\ starts'[j] = starts[j]
  BY <1>2, Zenon
<1> QED  BY <1>3, <1>4, <1>5, <1>6, OneThread, Zenon

(* A CALL or RET that is taken was the only command of its thread.          *)
LEMMA TakenAlone ==
    ASSUME TypeOK, CallsInOnePlace, Nested, NEW e \in Endpoints, NEW i \in Ids,
           queue[e][i] # <<>>, Head(queue[e][i]).op # "exit",
           queue' = [queue EXCEPT ![e][i] = Tail(@)], UNCHANGED chan
    PROVE  /\ Head(queue[e][i]) \in Transit(e)
           /\ Head(queue[e][i]).thr = i
           /\ \A f \in Endpoints : \A c \in Transit(f)' : c \in Transit(f) /\ c.thr # i
<1>1. PICK m : m = Head(queue[e][i])
  BY Zenon
<1>2. queue[e][i] \in Seq(Cmd)
  BY Sides, Zenon
<1>3. m \in Transit(e)
  BY <1>1, <1>2, TailFacts, InTransit, SMTT(60)
<1>4. /\ m.thr = i
      /\ \A j \in Ids : \A k \in DOMAIN queue'[e][j] : Apart(m, queue'[e][j][k])
      /\ \A k \in DOMAIN chan[e] : Apart(m, chan[e][k])
  <2>1. /\ CmdOK(e, Head(queue[e][i])) /\ Head(queue[e][i]).thr = i
        /\ Head(queue[e][i]) \in Cmd
        /\ OneCommandPerCall'
        /\ \A f \in Endpoints, j \in Ids : \A k \in DOMAIN queue'[f][j] :
              /\ queue'[f][j][k] \in Cmd
              /\ CmdOK(f, queue'[f][j][k]) /\ queue'[f][j][k].thr = j
              /\ f = e => Apart(Head(queue[e][i]), queue'[f][j][k])
        /\ \A k \in DOMAIN chan[e] : Apart(Head(queue[e][i]), chan[e][k])
    BY TakeCommand, Zenon
  <2> QED  BY <1>1, <2>1, Zenon
<1>5. ASSUME NEW f \in Endpoints, NEW c \in Transit(f)'
      PROVE  c \in Transit(f) /\ c.thr # i
  <2>1. c \in Transit(f)
    BY <1>5, TransitMove, Zenon
  <2>2. ASSUME c.thr = i
        PROVE  FALSE
    <3>1. f = e /\ c.op = m.op /\ c.n = m.n /\ c.op # "exit"
      BY <1>1, <1>3, <1>4, <2>1, <2>2, OnlyCommand, SMTT(60)
    <3>2. \/ \E k \in DOMAIN chan'[e] : c = chan'[e][k]
          \/ \E j \in Ids : \E k \in DOMAIN queue'[e][j] : c = queue'[e][j][k]
      BY <1>5, <3>1, InTransitNext, Zenon
    <3>3. Apart(m, c)
      BY <1>4, <3>2, Zenon
    <3> QED  BY <3>1, <3>3, Zenon DEF Apart
  <2> QED  BY <2>1, <2>2, Zenon
<1> QED  BY <1>1, <1>3, <1>4, <1>5, Zenon

(* A CALL is taken up: its handler faces the frame that waits for it.       *)
LEMMA HandleCallNests ==
    ASSUME TypeOK, CallsInOnePlace, TypeOK', CallsInOnePlace', Nested,
           NEW e \in Endpoints, NEW i \in Ids, HandleCall(e, i)
    PROVE  Nested'
<1>1. PICK m : m = Head(queue[e][i])
  BY Zenon
<1>2. PICK x : x = [op |-> "exec", n |-> m.n, done |-> FALSE]
  BY Zenon
<1>3. /\ queue[e][i] # <<>> /\ m.op = "call"
      /\ queue' = [queue EXCEPT ![e][i] = Tail(@)]
      /\ stack' = [stack EXCEPT ![e][i] = Append(@, x)]
      /\ UNCHANGED <<alive, starts, kind, chan>>
  BY <1>1, <1>2, Zenon DEF HandleCall, TakesCommands, Drop, Popped
<1>4. /\ m \in Transit(e) /\ m.thr = i
      /\ \A f \in Endpoints : \A c \in Transit(f)' : c \in Transit(f) /\ c.thr # i
  <2>1. queue[e][i] # <<>> /\ Head(queue[e][i]).op # "exit"
    BY <1>1, <1>3, Zenon
  <2> QED  BY <1>1, <1>3, <2>1, TakenAlone, Zenon
<1>5. m \in Cmd /\ CmdNests(e, m)
  BY <1>4, TransitFacts, Zenon DEF Nested
<1>6. PICK s, t, p, q : /\ s = stack[e][i] /\ t = stack[Peer(e)][i]
                        /\ p = (e = Home[i]) /\ q = (Peer(e) = Home[i])
  BY Zenon
<1>7. /\ s \in Seq(Frame) /\ t \in Seq(Frame) /\ p \in BOOLEAN /\ q \in BOOLEAN
      /\ Faces(s, t, p) /\ Faces(t, s, q)
  BY <1>6, Sides, BothWays, Zenon
<1>8. x \in Frame /\ x.op = "exec" /\ x.n = m.n
  BY <1>2, <1>5, Zenon DEF Frame, Cmd
<1>9. Awaits(t, s, m.n)
  BY <1>3, <1>4, <1>5, <1>6, PeerType, Zenon DEF CmdNests, WaitsOnTop
<1>10. PICK v : v = Append(s, x)
  BY Zenon
<1>11. Faces(v, t, p) /\ Faces(t, v, q)
  BY <1>7, <1>8, <1>9, <1>10, PushExec, Zenon
<1>12. stack' = [stack EXCEPT ![e][i] = v]
  BY <1>3, <1>6, <1>10, Zenon
<1>13. t # <<>>
  BY <1>9, Zenon DEF Awaits
<1>14. /\ Faces(v, stack[Peer(e)][i], e = Home[i])
       /\ Faces(stack[Peer(e)][i], v, Peer(e) = Home[i])
       /\ stack[Peer(e)][i] # <<>>
  BY <1>6, <1>11, <1>13, Zenon
<1>15. UNCHANGED <<alive, starts, kind>>
  BY <1>3, Zenon
<1>16. \A f \in Endpoints : \A c \in Transit(f)' :
          \/ c \in Transit(f) /\ c.thr # i
          \/ f = Peer(e) /\ c = RetCmd(i, 0) /\ Awaits(stack[Peer(e)][i], v, 0)
  BY <1>4, Zenon
<1> QED  BY <1>12, <1>14, <1>15, <1>16, StackStep, Zenon

(* A handler replies: the other side waits for just this call.              *)
LEMMA SendReturnNests ==
    ASSUME TypeOK, CallsInOnePlace, TypeOK', CallsInOnePlace', Nested,
           NEW e \in Endpoints, NEW i \in Ids, SendReturn(e, i)
    PROVE  Nested'
<1>1. PICK s, t, p, q : /\ s = stack[e][i] /\ t = stack[Peer(e)][i]
                        /\ p = (e = Home[i]) /\ q = (Peer(e) = Home[i])
  BY Zenon
<1>2. PICK n, v : n = Top(s).n /\ v = Pop(s)
  BY Zenon
<1>3. /\ TopIs(e, i, "exec") /\ s # <<>> /\ Top(s).op = "exec"
      /\ chan' = [chan EXCEPT ![Peer(e)] = Append(@, RetCmd(i, n))]
      /\ stack' = [stack EXCEPT ![e][i] = v]
      /\ UNCHANGED <<alive, starts, kind, queue>>
  BY <1>1, <1>2, Zenon DEF SendReturn, TopIs, Reply
<1>4. /\ s \in Seq(Frame) /\ t \in Seq(Frame) /\ p \in BOOLEAN /\ q \in BOOLEAN
      /\ Faces(s, t, p) /\ Faces(t, s, q)
  BY <1>1, Sides, BothWays, Zenon
<1>5. Awaits(t, v, n)
  BY <1>2, <1>3, <1>4, EqualHeight, Zenon
<1>6. Faces(v, t, p) /\ Faces(t, v, q)
  BY <1>2, <1>3, <1>4, PopFaces, Zenon
<1>7. n \in Nat
  BY <1>2, <1>3, <1>4, TopFrame, Zenon DEF Frame
<1>8. ASSUME NEW f \in Endpoints, NEW c \in Transit(f)'
      PROVE  \/ c \in Transit(f) /\ c.thr # i
             \/ f = Peer(e) /\ c = RetCmd(i, n) /\ Awaits(stack[Peer(e)][i], v, n)
  <2>1. RetCmd(i, n) \in Cmd /\ Peer(e) \in Endpoints
    BY <1>7, PeerType, Zenon DEF RetCmd, Cmd
  <2>2. PICK r \in Endpoints, x \in Cmd : r = Peer(e) /\ x = RetCmd(i, n)
    BY <2>1, Zenon
  <2>3. chan' = [chan EXCEPT ![r] = Append(@, x)]
    BY <1>3, <2>2, Zenon
  <2>4. \A g \in Endpoints, j \in Ids : queue'[g][j] = queue[g][j] \/ queue'[g][j] = <<>>
    BY <1>3, Zenon
  <2>5. c \in Transit(f) \/ (f = r /\ c = x)
    BY <1>8, <2>3, <2>4, TransitSend, Zenon
  <2>6. c \in Transit(f) => c.thr # i
    BY <1>3, NoneUnderHandler, Zenon
  <2> QED  BY <1>1, <1>5, <2>2, <2>5, <2>6, Zenon
<1>9. /\ Faces(v, stack[Peer(e)][i], e = Home[i])
      /\ Faces(stack[Peer(e)][i], v, Peer(e) = Home[i])
      /\ stack[e][i] # <<>>
  BY <1>1, <1>3, <1>6, Zenon
<1>10. UNCHANGED <<alive, starts, kind>> /\ stack' = [stack EXCEPT ![e][i] = v]
  BY <1>3, Zenon
<1> QED  BY <1>8, <1>9, <1>10, StackStep, Zenon

(* The RET that is taken answers the call on top, and only that one.        *)
LEMMA HandleReturnNests ==
    ASSUME TypeOK, CallsInOnePlace, TypeOK', CallsInOnePlace', Nested, failed = "none",
           NEW e \in Endpoints, NEW i \in Ids, HandleReturn(e, i)
    PROVE  Nested' /\ failed' = "none"
<1>1. PICK s, t, p, q : /\ s = stack[e][i] /\ t = stack[Peer(e)][i]
                        /\ p = (e = Home[i]) /\ q = (Peer(e) = Home[i])
  BY Zenon
<1>2. PICK m : m = Head(queue[e][i])
  BY Zenon
<1>3. PICK v : v = Completed(s, m.n)
  BY Zenon
<1>4. /\ queue[e][i] # <<>> /\ m.op = "ret"
      /\ queue' = [queue EXCEPT ![e][i] = Tail(@)]
      /\ UNCHANGED <<alive, starts, kind, chan>>
  BY <1>2, Zenon DEF HandleReturn, TakesCommands, Drop, Popped
<1>5. failed' = failed
  BY HandleReturnStep, Zenon
<1>6. stack' = [stack EXCEPT ![e][i] = v]
  <2>1. \/ stack' = [stack EXCEPT ![e][i] = Completed(@, m.n)]
        \/ failed' = "remove_call: no such call"
    BY <1>2, Zenon DEF HandleReturn
  <2> QED  BY <1>1, <1>3, <1>5, <2>1, Zenon
<1>7. /\ m \in Transit(e) /\ m.thr = i
      /\ \A f \in Endpoints : \A c \in Transit(f)' : c \in Transit(f) /\ c.thr # i
  <2>1. queue[e][i] # <<>> /\ Head(queue[e][i]).op # "exit" /\ UNCHANGED chan
    BY <1>2, <1>4, Zenon
  <2> QED  BY <1>2, <1>4, <2>1, TakenAlone, Zenon
<1>8. m \in Cmd /\ CmdNests(e, m) /\ CmdOK(e, m)
  BY <1>7, TransitFacts, Zenon DEF Nested
<1>9. /\ s \in Seq(Frame) /\ t \in Seq(Frame) /\ p \in BOOLEAN /\ q \in BOOLEAN
      /\ Faces(s, t, p) /\ Faces(t, s, q)
  BY <1>1, Sides, BothWays, Zenon
<1>10. Awaits(s, t, m.n)
  BY <1>1, <1>4, <1>7, <1>8, Zenon DEF CmdNests, WaitsOnTop
<1>11. ASSUME NEW k \in DOMAIN t, t[k].op = "exec"
       PROVE  t[k].n # m.n
  <2>1. work[e][m.n] = "finished"
    BY <1>4, <1>8, Zenon DEF CmdOK
  <2>2. FrameOK(Peer(e), i, t[k]) /\ Peer(Peer(e)) = e
    BY <1>1, PeerType, Zenon DEF CallsInOnePlace, FramesOK
  <2>3. work[e][t[k].n] = "running"
    BY <1>11, <2>2, Zenon DEF FrameOK
  <2> QED  BY <2>1, <2>3, Zenon
<1>12. m.n \in Nat
  BY <1>8, Zenon DEF Cmd
<1>13. Faces(v, t, p) /\ Faces(t, v, q)
  BY <1>3, <1>9, <1>11, <1>12, CompleteFaces, Zenon
<1>14. /\ Faces(v, stack[Peer(e)][i], e = Home[i])
       /\ Faces(stack[Peer(e)][i], v, Peer(e) = Home[i])
       /\ stack[e][i] # <<>>
  BY <1>1, <1>10, <1>13, Zenon DEF Awaits
<1>15. UNCHANGED <<alive, starts, kind>>
  BY <1>4, Zenon
<1>16. \A f \in Endpoints : \A c \in Transit(f)' :
          \/ c \in Transit(f) /\ c.thr # i
          \/ f = Peer(e) /\ c = RetCmd(i, 0) /\ Awaits(stack[Peer(e)][i], v, 0)
  BY <1>7, Zenon
<1>17. Nested'
  BY <1>6, <1>14, <1>15, <1>16, StackStep, Zenon
<1> QED  BY <1>5, <1>17, Zenon

(* The stub returns, and with it the top of the stack.                      *)
LEMMA CallReturnsNests ==
    ASSUME TypeOK, CallsInOnePlace, TypeOK', CallsInOnePlace', Nested,
           NEW e \in Endpoints, NEW i \in Ids, CallReturns(e, i)
    PROVE  Nested'
<1>1. PICK s, t, p, q : /\ s = stack[e][i] /\ t = stack[Peer(e)][i]
                        /\ p = (e = Home[i]) /\ q = (Peer(e) = Home[i])
  BY Zenon
<1>2. PICK v : v = Pop(s)
  BY Zenon
<1>3. /\ TopIs(e, i, "wait") /\ Top(stack[e][i]).done /\ s # <<>> /\ Top(s).done
      /\ stack' = [stack EXCEPT ![e][i] = v]
      /\ UNCHANGED <<alive, starts, kind, queue, chan>>
  BY <1>1, <1>2, Zenon DEF CallReturns, TopIs, CallComplete
<1>4. /\ s \in Seq(Frame) /\ t \in Seq(Frame) /\ p \in BOOLEAN /\ q \in BOOLEAN
      /\ Faces(s, t, p) /\ Faces(t, s, q)
  BY <1>1, Sides, BothWays, Zenon
<1>5. Faces(v, t, p) /\ Faces(t, v, q)
  BY <1>2, <1>3, <1>4, PopFaces, Zenon
<1>6. \A f : Transit(f)' = Transit(f)
  BY <1>3 DEF Transit
<1>7. \A f \in Endpoints : \A c \in Transit(f)' :
          \/ c \in Transit(f) /\ c.thr # i
          \/ f = Peer(e) /\ c = RetCmd(i, 0) /\ Awaits(stack[Peer(e)][i], v, 0)
  BY <1>3, <1>6, NoneUnderDone, Zenon
<1>8. /\ Faces(v, stack[Peer(e)][i], e = Home[i])
      /\ Faces(stack[Peer(e)][i], v, Peer(e) = Home[i])
      /\ stack[e][i] # <<>>
  BY <1>1, <1>3, <1>5, Zenon
<1>9. UNCHANGED <<alive, starts, kind>> /\ stack' = [stack EXCEPT ![e][i] = v]
  BY <1>3, Zenon
<1> QED  BY <1>7, <1>8, <1>9, StackStep, Zenon
-----------------------------------------------------------------------------
(* A step that changes nothing.                                             *)
LEMMA NestedStutter ==
    ASSUME Nested, UNCHANGED vars
    PROVE  Nested' /\ failed' = failed
<1>1. UNCHANGED <<alive, starts, kind, queue, stack, chan, failed>>
  BY Zenon DEF vars
<1>2. /\ \A f : Transit(f)' = Transit(f)
      /\ \A f, j : Mirror(f, j)' = Mirror(f, j) /\ HomeOK(j)' = HomeOK(j)
      /\ \A f, c : CmdNests(f, c)' = CmdNests(f, c)
  BY <1>1 DEF Transit, Mirror, HomeOK, CmdNests, WaitsOnTop, Left
<1> QED  BY <1>1, <1>2, Zenon DEF Nested

(* Every step keeps the stacks facing each other, and the only assertion    *)
(* that may fail in it is the one on a coincidence of ids.                  *)
LEMMA NestedStep ==
    ASSUME SynchronousOnly, IdsNotReused, TypeOK, CallsInOnePlace, Nested,
           OnlyCoincidenceFails, [Next]_vars
    PROVE  Nested' /\ OnlyCoincidenceFails'
<1>1. TypeOK' /\ CallsInOnePlace'
  BY TypeStep, PlaceStep, Zenon
<1>9. CASE UNCHANGED vars
  <2>1. Nested' /\ failed' = failed
    BY <1>9, NestedStutter, Zenon
  <2> QED  BY <2>1, Zenon DEF OnlyCoincidenceFails
<1>10. SUFFICES ASSUME failed = "none", Next
                PROVE  Nested' /\ (failed' = "none" \/ failed' = Coincidence)
  BY <1>9, OnlyRunning, Zenon DEF OnlyCoincidenceFails
<1>2. failed = "none" /\ \A mode \in Modes : mode = "sync"
  BY <1>10, Zenon DEF SynchronousOnly
<1>3. ASSUME NEW i \in Ids, ThreadStart(i)
      PROVE  Nested' /\ failed' = "none"
  <2>1. failed' = failed
    BY <1>3, Zenon DEF ThreadStart
  <2> QED  BY <1>1, <1>2, <1>3, <2>1, StartNests, Zenon
<1>4. ASSUME NEW i \in Ids, ThreadExit(i)
      PROVE  Nested' /\ failed' = "none"
  <2>1. failed' = failed
    BY <1>4, Zenon DEF ThreadExit
  <2> QED  BY <1>1, <1>2, <1>4, <2>1, ExitNests, Zenon
<1>5. ASSUME NEW i \in Ids, NEW mode \in Modes, AppCall(i, mode)
      PROVE  Nested' /\ failed' = "none"
  <2>1. AppCall(i, "sync")
    BY <1>2, <1>5, Zenon
  <2> QED  BY <1>1, <1>2, <2>1, AppCallNests, Zenon
<1>6. ASSUME NEW e \in Endpoints, Dispatch(e)
      PROVE  Nested' /\ (failed' = "none" \/ failed' = Coincidence)
  BY <1>1, <1>2, <1>6, DispatchNests, Zenon
<1>7. ASSUME NEW e \in Endpoints, NEW i \in Ids, Thread(e, i)
      PROVE  Nested' /\ failed' = "none"
  <2>1. CASE CallReturns(e, i)
    <3>1. failed' = failed
      BY <2>1, Zenon DEF CallReturns
    <3> QED  BY <1>1, <1>2, <2>1, <3>1, CallReturnsNests, Zenon
  <2>2. CASE HandleExit(e, i) \/ ShadowExit(e, i)
    BY <1>1, <1>2, <2>2, ShadowNests, Zenon
  <2>3. CASE HandleCall(e, i)
    <3>1. failed' = failed
      BY <2>3, Zenon DEF HandleCall
    <3> QED  BY <1>1, <1>2, <2>3, <3>1, HandleCallNests, Zenon
  <2>4. CASE SendReturn(e, i)
    <3>1. failed' = failed
      BY <2>4, Zenon DEF SendReturn
    <3> QED  BY <1>1, <1>2, <2>4, <3>1, SendReturnNests, Zenon
  <2>5. CASE HandleReturn(e, i)
    BY <1>1, <1>2, <2>5, HandleReturnNests, Zenon
  <2>6. ASSUME NEW mode \in Modes, HandlerCall(e, i, mode)
        PROVE  Nested' /\ failed' = "none"
    <3>1. HandlerCall(e, i, "sync")
      BY <1>2, <2>6, Zenon
    <3>2. failed' = failed
      BY <3>1, Zenon DEF HandlerCall
    <3> QED  BY <1>1, <1>2, <3>1, <3>2, HandlerCallNests, Zenon
  <2> QED  BY <1>7, <2>1, <2>2, <2>3, <2>4, <2>5, <2>6, Zenon DEF Thread
<1>8. CASE UNCHANGED vars
  BY <1>2, <1>8, NestedStutter, Zenon
<1> QED  BY <1>3, <1>4, <1>5, <1>6, <1>7, <1>8, <1>10, Zenon DEF Next, App, Idle

(* At the start nothing is under way.                                       *)
LEMMA NestedInit ==
    ASSUME Init
    PROVE  Nested /\ OnlyCoincidenceFails
<1>1. \A e \in Endpoints, i \in Ids : stack[e][i] = <<>> /\ kind[e][i] = "none"
  BY Zenon DEF Init
<1>2. \A e \in Endpoints, i \in Ids : Mirror(e, i)
  BY <1>1 DEF Mirror, Faces
<1>3. \A e \in Endpoints : Transit(e) = {}
  BY DEF Init, Transit
<1>4. \A i \in Ids : HomeOK(i)
  BY <1>1, IdsAssumption, Zenon DEF HomeOK, Init
<1> QED  BY <1>2, <1>3, <1>4, Zenon DEF Nested, OnlyCoincidenceFails, Init

(* Stacks that mirror each other, for any number of threads, any bounds and *)
(* any nesting of calls and callbacks, whether or not a process ends at the *)
(* assertion on a coincidence of ids.                                       *)
THEOREM CallsNest ==
    ASSUME SynchronousOnly, IdsNotReused
    PROVE  Spec => [](Nested /\ OnlyCoincidenceFails)
<1>1. Init => Nested /\ OnlyCoincidenceFails
  BY NestedInit, Zenon
<1>2. /\ TypeOK /\ CallsInOnePlace /\ (Nested /\ OnlyCoincidenceFails) /\ [Next]_vars
      => (Nested /\ OnlyCoincidenceFails)'
  BY NestedStep, Zenon
<1> QED  BY <1>1, <1>2, TypeCorrect, CallsStayInOnePlace, PTL DEF Spec

(* When all functions are synchronous and no pthread id is used twice, no   *)
(* assertion of shadow_thread_pool.c, of the wait loop or of                *)
(* ava_remove_call fails, threads that start and exit included, but the one *)
(* in shadow_thread_new whose comment says that it may: a new pthread with  *)
(* the id of the thread it shadows.                                         *)
THEOREM NoOtherAssertionFails ==
    ASSUME SynchronousOnly, IdsNotReused
    PROVE  Spec => []OnlyCoincidenceFails
BY CallsNest, PTL

(* ... and the RET that a wait loop takes answers its innermost call.       *)
THEOREM InnermostFirst ==
    ASSUME SynchronousOnly, IdsNotReused
    PROVE  Spec => []ReturnsAnswerInnermost
<1>1. TypeOK /\ CallsInOnePlace /\ Nested => ReturnsAnswerInnermost
  <2> SUFFICES ASSUME TypeOK, CallsInOnePlace, Nested, NEW e \in Endpoints, NEW i \in Ids,
                      TakesCommands(e, i), Head(queue[e][i]).op = "ret"
               PROVE  TopIs(e, i, "wait") /\ Top(stack[e][i]).n = Head(queue[e][i]).n
    BY Zenon DEF ReturnsAnswerInnermost
  <2>1. PICK m : m = Head(queue[e][i])
    BY Zenon
  <2>2. queue[e][i] # <<>> /\ queue[e][i] \in Seq(Cmd)
    BY Sides, Zenon DEF TakesCommands
  <2>3. m \in Transit(e)
    BY <2>1, <2>2, TailFacts, InTransit, SMTT(60)
  <2>4. m.thr = i
    BY <2>1, <2>2, TailFacts, SMTT(60) DEF CallsInOnePlace, QueuesOK
  <2>5. Awaits(stack[e][i], stack[Peer(e)][i], m.n)
    BY <2>1, <2>3, <2>4, Zenon DEF Nested, CmdNests, WaitsOnTop
  <2> QED  BY <2>1, <2>5, Zenon DEF Awaits, TopIs
<1> QED  BY <1>1, TypeCorrect, CallsStayInOnePlace, CallsNest, PTL
=============================================================================
