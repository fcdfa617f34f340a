------------------------- MODULE RemoteCallsProofs -------------------------
(***************************************************************************)
(* Proofs about RemoteCalls, for any number of threads, any bounds and any  *)
(* mix of synchronous and asynchronous functions, with thread exit and id   *)
(* reuse.                                                                   *)
(***************************************************************************)
EXTENDS RemoteCalls, TLAPS

(* The other endpoint is an endpoint, and not this one.                     *)
LEMMA PeerType ==
    ASSUME NEW e \in Endpoints
    PROVE  Peer(e) \in Endpoints /\ Peer(e) # e /\ Peer(Peer(e)) = e
BY Zenon DEF Peer, Endpoints

(* Leaving a stub or a handler pops its frame and keeps the others.         *)
LEMMA PopFacts ==
    ASSUME NEW S, NEW s \in Seq(S), s # <<>>
    PROVE  /\ Pop(s) \in Seq(S)
           /\ Len(Pop(s)) = Len(s) - 1
           /\ DOMAIN Pop(s) = 1 .. Len(s) - 1
           /\ \A k \in 1 .. Len(s) - 1 : Pop(s)[k] = s[k]
           /\ Len(s) \in 1 .. Len(s)
           /\ Top(s) \in S
<1>1. Len(s) \in Nat /\ Len(s) >= 1
  OBVIOUS
<1>2. Pop(s) \in [1 .. Len(s) - 1 -> S]
  BY <1>1 DEF Pop
<1>3. Pop(s) \in Seq(S) /\ Len(Pop(s)) = Len(s) - 1
  BY <1>1, <1>2
<1>4. \A k \in 1 .. Len(s) - 1 : Pop(s)[k] = s[k]
  BY Zenon DEF Pop
<1>5. Top(s) \in S
  BY <1>1 DEF Top
<1> QED  BY <1>1, <1>2, <1>3, <1>4, <1>5

(* Completing a call keeps the stack a stack, and changes only done flags.  *)
LEMMA CompletedFacts ==
    ASSUME NEW s \in Seq(Frame), NEW n \in Nat
    PROVE  /\ Completed(s, n) \in Seq(Frame)
           /\ DOMAIN Completed(s, n) = DOMAIN s
           /\ \A k \in DOMAIN s :
                 /\ Completed(s, n)[k].op = s[k].op
                 /\ Completed(s, n)[k].n = s[k].n
                 /\ ~Completed(s, n)[k].done =>
                       ~s[k].done /\ ~(s[k].op = "wait" /\ s[k].n = n)
<1>1. ASSUME NEW f \in Frame
      PROVE  MarkComplete(f, n) \in Frame
  BY Zenon DEF MarkComplete, Frame
<1>2. Completed(s, n) \in [1 .. Len(s) -> Frame]
  <2>1. \A k \in 1 .. Len(s) : s[k] \in Frame
    OBVIOUS
  <2>2. DOMAIN s = 1 .. Len(s)
    OBVIOUS
  <2> QED  BY <1>1, <2>1, <2>2, Zenon DEF Completed
<1>3. Completed(s, n) \in Seq(Frame)
  BY <1>2
<1>4. DOMAIN Completed(s, n) = DOMAIN s
  BY Zenon DEF Completed
<1>5. ASSUME NEW k \in DOMAIN s
      PROVE  /\ Completed(s, n)[k].op = s[k].op
             /\ Completed(s, n)[k].n = s[k].n
             /\ ~Completed(s, n)[k].done =>
                   ~s[k].done /\ ~(s[k].op = "wait" /\ s[k].n = n)
  <2>1. s[k] \in Frame
    OBVIOUS
  <2>2. Completed(s, n)[k] = MarkComplete(s[k], n)
    BY Zenon DEF Completed
  <2> QED  BY <2>1, <2>2, Zenon DEF MarkComplete, Frame
<1> QED  BY <1>3, <1>4, <1>5, Zenon

-----------------------------------------------------------------------------
(* The commands and frames that the steps build.                            *)
LEMMA Built ==
    ASSUME NEW i \in Ids, NEW n \in Nat, NEW q \in Seq(Cmd)
    PROVE  /\ CallCmd(i, n) \in Cmd
           /\ RetCmd(i, n) \in Cmd
           /\ ExitCmd(i) \in Cmd
           /\ Append(q, CallCmd(i, n)) \in Seq(Cmd)
           /\ Reply(q, i, n) \in Seq(Cmd)
           /\ ExitNotice(q, i) \in Seq(Cmd)
<1>1. CallCmd(i, n) \in Cmd /\ RetCmd(i, n) \in Cmd /\ ExitCmd(i) \in Cmd
  BY Zenon DEF CallCmd, RetCmd, ExitCmd, Cmd
<1> QED  BY <1>1 DEF Reply, ExitNotice

(* The states a pool entry and the work of a call are given.                *)
LEMMA Members ==
    /\ "none" \in Kinds /\ "shadow" \in Kinds /\ "dying" \in Kinds
    /\ SelfEntry \in Kinds
    /\ "running" \in WorkStates /\ WorkDone \in WorkStates
BY Zenon DEF Kinds, WorkStates, SelfEntry, WorkDone

(* Sending a CALL keeps the types (the part common to both kinds of stub).  *)
LEMMA SendCallType ==
    ASSUME TypeOK, NEW e \in Endpoints, NEW i \in Ids, NEW mode,
           SendCall(e, i, mode)
    PROVE  /\ stack' \in [Endpoints -> [Ids -> Seq(Frame)]]
           /\ chan' \in [Endpoints -> Seq(Cmd)]
           /\ pending' \in [Endpoints -> SUBSET [n : Nat, thr : Ids]]
           /\ nextCall' \in [Endpoints -> 0 .. MaxCalls]
           /\ work' = work
<1> DEFINE n == nextCall[e]
<1>1. /\ n \in Nat /\ n < MaxCalls /\ n + 1 \in 0 .. MaxCalls
      /\ Peer(e) \in Endpoints
  BY PeerType, BoundsAssumption, SMTT(60) DEF TypeOK, SendCall
<1>2. nextCall' \in [Endpoints -> 0 .. MaxCalls] /\ work' = work
  <2>1. nextCall' = [nextCall EXCEPT ![e] = n + 1] /\ work' = work
    BY Zenon DEF SendCall
  <2> HIDE DEF n
  <2> QED  BY <1>1, <2>1, Zenon DEF TypeOK
<1>3. chan' \in [Endpoints -> Seq(Cmd)]
  <2>1. chan' = [chan EXCEPT ![Peer(e)] = Append(@, CallCmd(i, n))]
    BY Zenon DEF SendCall
  <2>2. CallCmd(i, n) \in Cmd
    BY <1>1, Zenon DEF CallCmd, Cmd
  <2> HIDE DEF n
  <2> QED  BY <1>1, <2>1, <2>2 DEF TypeOK
<1>4. pending' \in [Endpoints -> SUBSET [n : Nat, thr : Ids]]
  <2> DEFINE r == [n |-> n, thr |-> i]
  <2>1. pending \in [Endpoints -> SUBSET [n : Nat, thr : Ids]]
    BY Zenon DEF TypeOK
  <2>2. pending' = [pending EXCEPT ![e] = @ \cup {r}]
    BY Zenon DEF SendCall
  <2>3. r \in [n : Nat, thr : Ids]
    BY <1>1, Zenon
  <2> HIDE DEF r
  <2> QED  BY <2>1, <2>2, <2>3, Zenon
<1>5. stack' \in [Endpoints -> [Ids -> Seq(Frame)]]
  <2> DEFINE f == [op |-> "wait", n |-> n, done |-> FALSE]
  <2>1. f \in Frame
    BY <1>1, Zenon DEF Frame
  <2>2. stack' = IF mode = "sync" THEN [stack EXCEPT ![e][i] = Append(@, f)]
                 ELSE stack
    BY Zenon DEF SendCall
  <2> HIDE DEF f
  <2> QED  BY <2>1, <2>2 DEF TypeOK
<1> QED  BY <1>2, <1>3, <1>4, <1>5, Zenon

(* Every step keeps the types.                                              *)
LEMMA TypeStep ==
    ASSUME TypeOK, [Next]_vars
    PROVE  TypeOK'
<1>k. kind \in [Endpoints -> [Ids -> Kinds]]
  BY Zenon DEF TypeOK
<1>q. queue \in [Endpoints -> [Ids -> Seq(Cmd)]]
  BY Zenon DEF TypeOK
<1>s. stack \in [Endpoints -> [Ids -> Seq(Frame)]]
  BY Zenon DEF TypeOK
<1>c. chan \in [Endpoints -> Seq(Cmd)]
  BY Zenon DEF TypeOK
<1>1. ASSUME NEW i \in Ids, ThreadStart(i)
      PROVE  TypeOK'
  BY <1>1, BoundsAssumption, SMTT(60) DEF TypeOK, ThreadStart, callVars
<1>2. ASSUME NEW i \in Ids, ThreadExit(i)
      PROVE  TypeOK'
  <2> DEFINE e == Home[i]
  <2>1. e \in Endpoints /\ Peer(e) \in Endpoints
    BY PeerType, IdsAssumption, Zenon
  <2>2. ExitNotice(chan[Peer(e)], i) \in Seq(Cmd)
    BY <2>1, Built, Zenon DEF TypeOK
  <2>3. /\ \/ /\ chan' = [chan EXCEPT ![Peer(e)] = ExitNotice(@, i)]
              /\ kind' = [kind EXCEPT ![e][i] = "none"]
              /\ queue' = [queue EXCEPT ![e][i] = <<>>]
           \/ UNCHANGED <<chan, kind, queue>>
        /\ alive' \subseteq alive
        /\ UNCHANGED <<starts, stack, pending, nextCall, work>>
    BY <1>2, Zenon DEF ThreadExit, callVars
  <2> HIDE DEF e
  <2>4. chan' \in [Endpoints -> Seq(Cmd)]
    BY <2>1, <2>2, <2>3, Zenon DEF TypeOK
  <2>5. kind' \in [Endpoints -> [Ids -> Kinds]]
    <3>1. kind' = [kind EXCEPT ![e][i] = "none"] \/ kind' = kind
      BY <2>3, Zenon
    <3> QED  BY <1>k, <2>1, <3>1, Members, SMTT(60)
  <2>6. queue' \in [Endpoints -> [Ids -> Seq(Cmd)]]
    <3>1. queue' = [queue EXCEPT ![e][i] = <<>>] \/ queue' = queue
      BY <2>3, Zenon
    <3>2. [queue EXCEPT ![e][i] = <<>>] \in [Endpoints -> [Ids -> Seq(Cmd)]]
      BY <1>q, <2>1
    <3> QED  BY <1>q, <3>1, <3>2, Zenon
  <2> QED  BY <2>3, <2>4, <2>5, <2>6, Zenon DEF TypeOK
<1>3. ASSUME NEW i \in Ids, NEW mode \in Modes, AppCall(i, mode)
      PROVE  TypeOK'
  <2> DEFINE e == Home[i]
  <2>1. e \in Endpoints
    BY IdsAssumption, Zenon
  <2>2. /\ \/ kind' = [kind EXCEPT ![e][i] = SelfEntry] /\ SendCall(e, i, mode)
           \/ UNCHANGED <<kind, stack, chan, pending, nextCall, work>>
        /\ UNCHANGED <<alive, starts, queue>>
    BY <1>3, Zenon DEF AppCall, callVars
  <2> HIDE DEF e
  <2>3. kind' \in [Endpoints -> [Ids -> Kinds]]
    <3>1. kind' = [kind EXCEPT ![e][i] = SelfEntry] \/ kind' = kind
      BY <2>2, Zenon
    <3> QED  BY <1>k, <2>1, <3>1, Members
  <2>4. CASE SendCall(e, i, mode)
    BY <2>1, <2>2, <2>3, <2>4, SendCallType, Zenon DEF TypeOK
  <2>5. CASE ~SendCall(e, i, mode)
    BY <2>2, <2>5, Zenon DEF TypeOK
  <2> QED  BY <2>4, <2>5, Zenon
<1>4. ASSUME NEW e \in Endpoints, NEW i \in Ids, NEW mode \in Modes,
             HandlerCall(e, i, mode)
      PROVE  TypeOK'
  BY <1>4, SendCallType, Zenon DEF TypeOK, HandlerCall
<1>5. ASSUME NEW e \in Endpoints, NEW i \in Ids, CallReturns(e, i)
      PROVE  TypeOK'
  <2>1. Pop(stack[e][i]) \in Seq(Frame)
    BY <1>5, PopFacts, ZenonT(60) DEF TypeOK, CallReturns, TopIs
  <2> QED  BY <1>5, <2>1, ZenonT(60), SMTT(60) DEF TypeOK, CallReturns, callVars
<1>6. ASSUME NEW e \in Endpoints, Dispatch(e)
      PROVE  TypeOK'
  <2> DEFINE m == Head(chan[e])
             i == m.thr
  <2>1. m \in Cmd /\ Tail(chan[e]) \in Seq(Cmd)
    <3>1. chan[e] \in Seq(Cmd) /\ chan[e] # <<>>
      BY <1>c, <1>6, Zenon DEF Dispatch
    <3> QED  BY <3>1
  <2>2. i \in Ids
    BY <2>1, Zenon DEF Cmd
  <2>3. /\ chan' = [chan EXCEPT ![e] = Tail(@)]
        /\ UNCHANGED <<alive, starts, stack, pending, nextCall, work>>
        /\ \/ queue' = [queue EXCEPT ![e][i] = Append(@, m)]
           \/ queue' = [queue EXCEPT ![e][i] = <<m>>]
           \/ UNCHANGED queue
        /\ kind' = [kind EXCEPT ![e][i] = "shadow"] \/ UNCHANGED kind
    BY <1>6, Zenon DEF Dispatch, Push, callVars
  <2> HIDE DEF m, i
  <2>4. queue' \in [Endpoints -> [Ids -> Seq(Cmd)]]
    <3>1. \/ queue' = [queue EXCEPT ![e][i] = Append(@, m)]
          \/ queue' = [queue EXCEPT ![e][i] = <<m>>]
          \/ queue' = queue
      BY <2>3, Zenon
    <3>2. [queue EXCEPT ![e][i] = Append(@, m)] \in [Endpoints -> [Ids -> Seq(Cmd)]]
      BY <1>q, <2>1, <2>2
    <3>3. [queue EXCEPT ![e][i] = <<m>>] \in [Endpoints -> [Ids -> Seq(Cmd)]]
      BY <1>q, <2>1, <2>2
    <3> QED  BY <1>q, <3>1, <3>2, <3>3, Zenon
  <2>5. kind' \in [Endpoints -> [Ids -> Kinds]]
    <3>1. kind' = [kind EXCEPT ![e][i] = "shadow"] \/ kind' = kind
      BY <2>3, Zenon
    <3> QED  BY <1>k, <2>2, <3>1, Members, SMTT(60)
  <2> QED  BY <2>1, <2>3, <2>4, <2>5, Zenon DEF TypeOK
<1>7. ASSUME NEW e \in Endpoints, NEW i \in Ids, TakesCommands(e, i)
      PROVE  /\ Head(queue[e][i]) \in Cmd
             /\ Popped(queue[e][i]) \in Seq(Cmd)
             /\ Head(queue[e][i]).n \in Nat
  <2>1. Head(queue[e][i]) \in Cmd /\ Popped(queue[e][i]) \in Seq(Cmd)
    BY <1>7 DEF TypeOK, TakesCommands, Popped
  <2> QED  BY <2>1, Zenon DEF Cmd
<1>8. ASSUME NEW e \in Endpoints, NEW i \in Ids, HandleExit(e, i)
      PROVE  TypeOK'
  <2>1. Popped(queue[e][i]) \in Seq(Cmd)
    BY <1>7, <1>8, Zenon DEF HandleExit
  <2>2. kind' \in [Endpoints -> [Ids -> Kinds]]
    <3>1. kind' = [kind EXCEPT ![e][i] = "dying"] \/ kind' = kind
      BY <1>8, Zenon DEF HandleExit
    <3> QED  BY <1>k, <3>1, Members, SMTT(60)
  <2> QED  BY <1>8, <2>1, <2>2, Zenon DEF TypeOK, HandleExit, Drop, callVars
<1>9. ASSUME NEW e \in Endpoints, NEW i \in Ids, ShadowExit(e, i)
      PROVE  TypeOK'
  BY <1>9, Members, SMTT(60) DEF TypeOK, ShadowExit, callVars
<1>10. ASSUME NEW e \in Endpoints, NEW i \in Ids, HandleCall(e, i)
       PROVE  TypeOK'
  <2> DEFINE n == Head(queue[e][i]).n
             f == [op |-> "exec", n |-> n, done |-> FALSE]
  <2>1. Popped(queue[e][i]) \in Seq(Cmd) /\ n \in Nat
    BY <1>7, <1>10, Zenon DEF HandleCall
  <2>2. f \in Frame
    BY <2>1, Zenon DEF Frame
  <2>3. /\ stack' = [stack EXCEPT ![e][i] = Append(@, f)]
        /\ work' = [work EXCEPT ![Peer(e)][n] = "running"]
        /\ queue' = [queue EXCEPT ![e][i] = Popped(@)]
        /\ UNCHANGED <<alive, starts, kind, chan, pending, nextCall>>
    BY <1>10, Zenon DEF HandleCall, Drop
  <2> HIDE DEF f, n
  <2>4. stack' \in [Endpoints -> [Ids -> Seq(Frame)]]
    BY <2>2, <2>3 DEF TypeOK
  <2>5. work' \in [Endpoints -> [CallIds -> WorkStates]]
    BY <2>3, PeerType, Members, Zenon DEF TypeOK
  <2> QED  BY <2>1, <2>3, <2>4, <2>5, ZenonT(60), SMTT(60) DEF TypeOK
<1>11. ASSUME NEW e \in Endpoints, NEW i \in Ids, SendReturn(e, i)
       PROVE  TypeOK'
  <2> DEFINE n == Top(stack[e][i]).n
  <2>1. Pop(stack[e][i]) \in Seq(Frame) /\ Top(stack[e][i]) \in Frame
    BY <1>11, PopFacts, ZenonT(60) DEF TypeOK, SendReturn, TopIs
  <2>2. n \in Nat /\ Peer(e) \in Endpoints
    BY <2>1, PeerType, ZenonT(60), SMTT(60) DEF Frame
  <2>3. /\ stack' = [stack EXCEPT ![e][i] = Pop(@)]
        /\ work' = [work EXCEPT ![Peer(e)][n] = WorkDone]
        /\ chan' = [chan EXCEPT ![Peer(e)] = Reply(@, i, n)]
        /\ UNCHANGED <<alive, starts, kind, queue, pending, nextCall>>
    BY <1>11, Zenon DEF SendReturn
  <2> HIDE DEF n
  <2>4. Reply(chan[Peer(e)], i, n) \in Seq(Cmd)
    BY <2>2, Built, Zenon DEF TypeOK
  <2>5. chan' \in [Endpoints -> Seq(Cmd)]
    BY <2>2, <2>3, <2>4, Zenon DEF TypeOK
  <2>6. work' \in [Endpoints -> [CallIds -> WorkStates]]
    BY <2>2, <2>3, Members, Zenon DEF TypeOK
  <2>7. stack' \in [Endpoints -> [Ids -> Seq(Frame)]]
    BY <2>1, <2>3, Zenon DEF TypeOK
  <2> QED  BY <2>3, <2>5, <2>6, <2>7, Zenon DEF TypeOK
<1>12. ASSUME NEW e \in Endpoints, NEW i \in Ids, HandleReturn(e, i)
       PROVE  TypeOK'
  <2> DEFINE n == Head(queue[e][i]).n
  <2>1. Popped(queue[e][i]) \in Seq(Cmd) /\ n \in Nat
    BY <1>7, <1>12, Zenon DEF HandleReturn
  <2>2. stack[e][i] \in Seq(Frame)
    BY DEF TypeOK
  <2>3. Completed(stack[e][i], n) \in Seq(Frame)
    BY <2>1, <2>2, CompletedFacts, Zenon
  <2>4. /\ \/ /\ pending' = [pending EXCEPT ![e] = {r \in @ : r.n # n}]
              /\ stack' = [stack EXCEPT ![e][i] = Completed(@, n)]
           \/ UNCHANGED <<pending, stack>>
        /\ queue' = [queue EXCEPT ![e][i] = Popped(@)]
        /\ UNCHANGED <<alive, starts, kind, chan, nextCall, work>>
    BY <1>12, Zenon DEF HandleReturn, Drop
  <2> HIDE DEF n
  <2>5. stack' \in [Endpoints -> [Ids -> Seq(Frame)]]
    <3>1. \/ stack' = [stack EXCEPT ![e][i] = Completed(@, n)]
          \/ stack' = stack
      BY <2>4, Zenon
    <3>2. [stack EXCEPT ![e][i] = Completed(@, n)]
             \in [Endpoints -> [Ids -> Seq(Frame)]]
      BY <1>s, <2>3, Zenon
    <3> QED  BY <1>s, <3>1, <3>2, Zenon
  <2>6. pending' \in [Endpoints -> SUBSET [n : Nat, thr : Ids]]
    <3>1. \/ pending' = [pending EXCEPT ![e] = {r \in @ : r.n # n}]
          \/ pending' = pending
      BY <2>4, Zenon
    <3>2. pending \in [Endpoints -> SUBSET [n : Nat, thr : Ids]]
      BY Zenon DEF TypeOK
    <3> QED  BY <3>1, <3>2, Zenon
  <2> QED  BY <2>1, <2>4, <2>5, <2>6, Zenon DEF TypeOK
<1>13. CASE UNCHANGED vars
  BY <1>13, Zenon DEF TypeOK, vars
<1> QED
  BY <1>1, <1>2, <1>3, <1>4, <1>5, <1>6, <1>8, <1>9, <1>10, <1>11, <1>12, <1>13, Zenon
  DEF Next, App, Thread, Idle

(* TypeOK holds in every reachable state, for every value of the constants. *)
THEOREM TypeCorrect == Spec => []TypeOK
<1>1. Init => TypeOK
  BY BoundsAssumption DEF Init, TypeOK, Kinds, WorkStates
<1>2. TypeOK /\ [Next]_vars => TypeOK'
  BY TypeStep, Zenon
<1> QED  BY <1>1, <1>2, PTL DEF Spec

-----------------------------------------------------------------------------
(* What appending to and taking from a queue or channel does to the         *)
(* commands in it.                                                          *)
LEMMA AppendFacts ==
    ASSUME NEW S, NEW s \in Seq(S), NEW x \in S
    PROVE  /\ \A k \in DOMAIN Append(s, x) :
                 \/ k \in DOMAIN s /\ Append(s, x)[k] = s[k]
                 \/ k = Len(s) + 1 /\ Append(s, x)[k] = x
           /\ \A k \in DOMAIN s : k # Len(s) + 1
OBVIOUS

(* Taking the oldest command shifts the others.                             *)
LEMMA TailFacts ==
    ASSUME NEW S, NEW s \in Seq(S), s # <<>>
    PROVE  /\ 1 \in DOMAIN s /\ Head(s) = s[1]
           /\ \A k \in DOMAIN Tail(s) :
                 k \in Nat /\ k + 1 \in DOMAIN s /\ k + 1 # 1 /\ Tail(s)[k] = s[k + 1]
OBVIOUS

(* Two commands that are not for the same call, in either order.            *)
LEMMA ApartSym ==
    ASSUME NEW m, NEW p
    PROVE  Apart(m, p) <=> Apart(p, m)
BY Zenon DEF Apart

(* A freed queue repeats no command.                                        *)
LEMMA EmptyDistinct ==
    ASSUME NEW t
    PROVE  Distinct(<<>>) /\ Separate(<<>>, t)
BY DEF Distinct, Separate

(* The queue of a new shadow holds one command.                             *)
LEMMA SingleDistinct ==
    ASSUME NEW S, NEW x \in S, NEW t, \A k \in DOMAIN t : Apart(x, t[k])
    PROVE  Distinct(<<x>>) /\ Separate(<<x>>, t)
BY DEF Distinct, Separate

(* A queue stays free of repetitions when a new command is pushed ...       *)
LEMMA AppendDistinct ==
    ASSUME NEW S, NEW s \in Seq(S), NEW x \in S, Distinct(s),
           \A k \in DOMAIN s : Apart(s[k], x)
    PROVE  Distinct(Append(s, x))
<1> DEFINE t == Append(s, x)
<1>1. /\ \A k \in DOMAIN t : \/ k \in DOMAIN s /\ t[k] = s[k]
                             \/ k = Len(s) + 1 /\ t[k] = x
  BY AppendFacts, Zenon
<1> HIDE DEF t
<1>2. \A k \in DOMAIN s : Apart(x, s[k])
  BY ApartSym, Zenon
<1> QED  BY <1>1, <1>2, Zenon DEF Distinct, t

(* ... and when one is popped, which is then not in it any more.            *)
LEMMA TailDistinct ==
    ASSUME NEW S, NEW s \in Seq(S), s # <<>>, Distinct(s)
    PROVE  /\ Distinct(Tail(s))
           /\ \A k \in DOMAIN Tail(s) : Apart(Head(s), Tail(s)[k])
<1> DEFINE t == Tail(s)
<1>1. /\ 1 \in DOMAIN s /\ Head(s) = s[1]
      /\ \A k \in DOMAIN t : k \in Nat /\ k + 1 \in DOMAIN s /\ k + 1 # 1 /\ t[k] = s[k + 1]
  BY TailFacts, Zenon
<1> HIDE DEF t
<1> QED  BY <1>1, SMTT(60) DEF Distinct, t

(* The same four facts for a queue and a channel that share no command.     *)
LEMMA AppendSeparate ==
    ASSUME NEW S, NEW s \in Seq(S), NEW t, NEW x \in S, Separate(s, t),
           \A k \in DOMAIN t : Apart(x, t[k])
    PROVE  Separate(Append(s, x), t)
BY AppendFacts, ZenonT(60) DEF Separate

(* Appending to the channel.                                                *)
LEMMA SeparateAppend ==
    ASSUME NEW S, NEW s, NEW t \in Seq(S), NEW x \in S, Separate(s, t),
           \A k \in DOMAIN s : Apart(s[k], x)
    PROVE  Separate(s, Append(t, x))
BY AppendFacts DEF Separate

(* Popping from the queue.                                                  *)
LEMMA TailSeparate ==
    ASSUME NEW S, NEW s \in Seq(S), NEW t, s # <<>>, Separate(s, t)
    PROVE  Separate(Tail(s), t) /\ \A k \in DOMAIN t : Apart(Head(s), t[k])
BY TailFacts DEF Separate

(* Receiving from the channel.                                              *)
LEMMA SeparateTail ==
    ASSUME NEW S, NEW s, NEW t \in Seq(S), t # <<>>, Separate(s, t)
    PROVE  Separate(s, Tail(t)) /\ \A k \in DOMAIN s : Apart(s[k], Head(t))
BY TailFacts, Zenon DEF Separate

-----------------------------------------------------------------------------
(* While call map, call counter and work stay the same, commands and frames *)
(* may move as long as each of them was in order before.                    *)
LEMMA CommandsMove ==
    ASSUME UNCHANGED callVars,
           \A e \in Endpoints : \A k \in DOMAIN chan'[e] : CmdOK(e, chan'[e][k]),
           \A e \in Endpoints, i \in Ids : \A k \in DOMAIN queue'[e][i] :
              CmdOK(e, queue'[e][i][k]) /\ queue'[e][i][k].thr = i
    PROVE  ChannelsOK' /\ QueuesOK'
<1>0. pending' = pending /\ nextCall' = nextCall /\ work' = work
  BY Zenon DEF callVars
<1>1. ASSUME NEW e \in Endpoints, NEW m, CmdOK(e, m)
      PROVE  CmdOK(e, m)'
  BY <1>0, <1>1, Zenon DEF CmdOK, IsPending
<1>2. ChannelsOK'
  <2>1. ASSUME NEW e \in Endpoints, NEW k \in DOMAIN chan'[e]
        PROVE  CmdOK(e, chan[e][k])'
    <3>1. PICK m : m = chan'[e][k] /\ CmdOK(e, m)
      OBVIOUS
    <3>2. CmdOK(e, m)'
      BY <1>1, <3>1, Zenon
    <3> QED  BY <3>1, <3>2, Zenon DEF CmdOK, IsPending
  <2> QED  BY <2>1, Zenon DEF ChannelsOK
<1>3. QueuesOK'
  <2>1. ASSUME NEW e \in Endpoints, NEW i \in Ids, NEW k \in DOMAIN queue'[e][i]
        PROVE  (CmdOK(e, queue[e][i][k]) /\ queue[e][i][k].thr = i)'
    <3>1. PICK m : m = queue'[e][i][k] /\ CmdOK(e, m) /\ m.thr = i
      OBVIOUS
    <3>2. CmdOK(e, m)'
      BY <1>1, <3>1, Zenon
    <3> QED  BY <3>1, <3>2, Zenon DEF CmdOK, IsPending
  <2> QED  BY <2>1, Zenon DEF QueuesOK
<1> QED  BY <1>2, <1>3, Zenon

(* The same for the frames on the stacks.                                   *)
LEMMA FramesMove ==
    ASSUME UNCHANGED callVars,
           \A e \in Endpoints, i \in Ids : \A k \in DOMAIN stack'[e][i] :
              FrameOK(e, i, stack'[e][i][k])
    PROVE  FramesOK'
<1>1. ASSUME NEW e \in Endpoints, NEW i \in Ids, NEW k \in DOMAIN stack'[e][i]
      PROVE  FrameOK(e, i, stack[e][i][k])'
  BY Zenon DEF FrameOK, IsPending, callVars
<1> QED  BY <1>1, Zenon DEF FramesOK

(* The call map part depends on call map, counter and work alone.           *)
LEMMA CallMapSame ==
    ASSUME UNCHANGED callVars, CallMapOK
    PROVE  CallMapOK'
BY Zenon DEF CallMapOK, callVars

(* A step that leaves calls, queues, channels and stacks alone.             *)
LEMMA StutterStep ==
    ASSUME CallsInOnePlace, UNCHANGED <<queue, stack, chan, callVars>>
    PROVE  CallsInOnePlace'
<1>1. ChannelsOK' /\ QueuesOK'
  BY CommandsMove DEF CallsInOnePlace, ChannelsOK, QueuesOK
<1>2. FramesOK'
  BY FramesMove, Zenon DEF CallsInOnePlace, FramesOK
<1>3. CallMapOK'
  BY CallMapSame, ZenonT(60), SMTT(60) DEF CallsInOnePlace
<1>4. OneCommandPerCall' /\ OneHandlerPerCall'
  BY ZenonT(60) DEF CallsInOnePlace, OneCommandPerCall, OneHandlerPerCall
<1> QED  BY <1>1, <1>2, <1>3, <1>4, ZenonT(60), SMTT(60) DEF CallsInOnePlace

(* A thread's exit adds a THREAD_EXIT command and frees its queue.          *)
LEMMA ThreadExitStep ==
    ASSUME TypeOK, CallsInOnePlace, NEW i \in Ids, ThreadExit(i)
    PROVE  CallsInOnePlace'
<1> DEFINE e == Home[i]
           p == Peer(e)
           x == ExitCmd(i)
<1>1. e \in Endpoints /\ p \in Endpoints
  BY PeerType, IdsAssumption, ZenonT(60), SMTT(60)
<1>2. UNCHANGED callVars /\ UNCHANGED stack
  BY Zenon DEF ThreadExit
<1>3. CASE UNCHANGED <<chan, queue>>
  BY <1>2, <1>3, StutterStep, Zenon
<1>4. CASE ~UNCHANGED <<chan, queue>>
  <2>1. chan' = [chan EXCEPT ![p] = Append(@, x)]
    BY <1>4, ZenonT(60), SMTT(60) DEF ThreadExit, ExitNotice
  <2>2. queue' = [queue EXCEPT ![e][i] = <<>>]
    BY <1>4, Zenon DEF ThreadExit
  <2>3. chan \in [Endpoints -> Seq(Cmd)]
    BY Zenon DEF TypeOK
  <2>4. queue \in [Endpoints -> [Ids -> Seq(Cmd)]]
    BY Zenon DEF TypeOK
  <2>5. x \in Cmd /\ x.op = "exit"
    BY Zenon DEF ExitCmd, Cmd
  <2> HIDE DEF x, p, e
  <2>6. \A f \in Endpoints : chan'[f] = IF f = p THEN Append(chan[f], x) ELSE chan[f]
    BY <1>1, <2>1, <2>3, Zenon
  <2>7. \A f \in Endpoints, j \in Ids :
           queue'[f][j] = IF f = e /\ j = i THEN <<>> ELSE queue[f][j]
    BY <1>1, <2>2, <2>4, Zenon
  <2>8. ChannelsOK' /\ QueuesOK'
    <3>1. \A f \in Endpoints : \A k \in DOMAIN chan'[f] : CmdOK(f, chan'[f][k])
      <4> SUFFICES ASSUME NEW f \in Endpoints, NEW k \in DOMAIN chan'[f]
                   PROVE  CmdOK(f, chan'[f][k])
        BY Zenon
      <4>1. CmdOK(f, x)
        BY <2>5, Zenon DEF CmdOK
      <4>2. (k \in DOMAIN chan[f] /\ chan'[f][k] = chan[f][k]) \/ chan'[f][k] = x
        <5>1. CASE f = p
          <6>1. chan'[f] = Append(chan[f], x) /\ chan[f] \in Seq(Cmd)
            BY <2>3, <2>6, <5>1, Zenon
          <6> QED  BY <2>5, <6>1, AppendFacts
        <5>2. CASE f # p
          BY <2>6, <5>2, Zenon
        <5> QED  BY <5>1, <5>2, Zenon
      <4> QED  BY <4>1, <4>2, Zenon DEF CallsInOnePlace, ChannelsOK, QueuesOK
    <3>2. \A f \in Endpoints, j \in Ids : \A k \in DOMAIN queue'[f][j] :
             CmdOK(f, queue'[f][j][k]) /\ queue'[f][j][k].thr = j
      BY <2>7 DEF CallsInOnePlace, ChannelsOK, QueuesOK
    <3> QED  BY <1>2, <3>1, <3>2, CommandsMove, Zenon
  <2>9. FramesOK' /\ OneHandlerPerCall'
    <3>1. FramesOK'
      BY <1>2, FramesMove, Zenon DEF CallsInOnePlace, FramesOK
    <3> QED  BY <1>2, <3>1, ZenonT(60) DEF CallsInOnePlace, OneHandlerPerCall
  <2>10. CallMapOK'
    BY <1>2, CallMapSame, Zenon DEF CallsInOnePlace
  <2>11. OneCommandPerCall'
    <3> SUFFICES ASSUME NEW f \in Endpoints, NEW j \in Ids
                 PROVE  /\ Distinct(chan'[f]) /\ Distinct(queue'[f][j])
                        /\ Separate(queue'[f][j], chan'[f])
      BY Zenon DEF OneCommandPerCall, Distinct, Separate
    <3>1. /\ Distinct(chan[f]) /\ Distinct(queue[f][j])
          /\ Separate(queue[f][j], chan[f])
      BY Zenon DEF CallsInOnePlace, OneCommandPerCall
    <3>2. \A m : Apart(m, x) /\ Apart(x, m)
      BY <2>5, Zenon DEF Apart
    <3>3. Distinct(chan'[f])
      BY <2>3, <2>5, <2>6, <3>1, <3>2, AppendDistinct, ZenonT(60), SMTT(60)
    <3>4. Distinct(queue'[f][j])
      BY <2>7, <3>1, EmptyDistinct, ZenonT(60), SMTT(60)
    <3>5. Separate(queue[f][j], chan'[f])
      BY <2>3, <2>5, <2>6, <3>1, <3>2, SeparateAppend, Zenon
    <3>6. Separate(queue'[f][j], chan'[f])
      BY <2>7, <3>5, EmptyDistinct, Zenon
    <3> QED  BY <3>3, <3>4, <3>6, ZenonT(60), SMTT(60)
  <2> QED  BY <2>8, <2>9, <2>10, <2>11, ZenonT(60), SMTT(60) DEF CallsInOnePlace
<1> QED  BY <1>3, <1>4, Zenon

(* A stub or handler that ends only pops its frame: a stack that shrinks    *)
(* keeps the invariant while calls and commands stay.                       *)
LEMMA PopFrames ==
    ASSUME TypeOK, FramesOK, OneHandlerPerCall, NEW e \in Endpoints, NEW i \in Ids,
           stack[e][i] # <<>>, stack' = [stack EXCEPT ![e][i] = Pop(@)]
    PROVE  /\ \A f \in Endpoints, j \in Ids : \A k \in DOMAIN stack'[f][j] :
                 /\ k \in DOMAIN stack[f][j] /\ stack'[f][j][k] = stack[f][j][k]
                 /\ f = e /\ j = i => k # Len(stack[e][i])
           /\ OneHandlerPerCall'
<1>1. stack \in [Endpoints -> [Ids -> Seq(Frame)]]
  BY Zenon DEF TypeOK
<1>2. ASSUME NEW f \in Endpoints, NEW j \in Ids, NEW k \in DOMAIN stack'[f][j]
      PROVE  /\ k \in DOMAIN stack[f][j] /\ stack'[f][j][k] = stack[f][j][k]
             /\ f = e /\ j = i => k # Len(stack[e][i])
  <2>1. CASE f = e /\ j = i
    <3>1. stack'[f][j] = Pop(stack[e][i]) /\ stack[e][i] \in Seq(Frame)
      BY <1>1, <2>1, Zenon
    <3>2. /\ DOMAIN Pop(stack[e][i]) = 1 .. Len(stack[e][i]) - 1
          /\ \A n \in 1 .. Len(stack[e][i]) - 1 :
                Pop(stack[e][i])[n] = stack[e][i][n]
      BY <3>1, PopFacts, Zenon
    <3>3. DOMAIN stack[e][i] = 1 .. Len(stack[e][i]) /\ Len(stack[e][i]) \in Nat
      BY <3>1
    <3> HIDE DEF Pop
    <3> QED  BY <2>1, <3>1, <3>2, <3>3
  <2>2. CASE ~(f = e /\ j = i)
    BY <1>1, <2>2, ZenonT(60), SMTT(60)
  <2> QED  BY <2>1, <2>2, Zenon
<1>3. OneHandlerPerCall'
  BY <1>2 DEF OneHandlerPerCall
<1> QED  BY <1>2, <1>3, Zenon

(* A stub that returns.                                                     *)
LEMMA CallReturnsStep ==
    ASSUME TypeOK, CallsInOnePlace, NEW e \in Endpoints, NEW i \in Ids,
           CallReturns(e, i)
    PROVE  CallsInOnePlace'
<1>1. UNCHANGED callVars /\ UNCHANGED <<chan, queue>>
  BY Zenon DEF CallReturns
<1>2. stack[e][i] # <<>> /\ stack' = [stack EXCEPT ![e][i] = Pop(@)]
  BY Zenon DEF CallReturns, TopIs
<1>3. /\ \A f \in Endpoints, j \in Ids : \A k \in DOMAIN stack'[f][j] :
            /\ k \in DOMAIN stack[f][j] /\ stack'[f][j][k] = stack[f][j][k]
            /\ f = e /\ j = i => k # Len(stack[e][i])
      /\ OneHandlerPerCall'
  <2>1. FramesOK /\ OneHandlerPerCall
    BY ZenonT(60), SMTT(60) DEF CallsInOnePlace
  <2> QED  BY <1>2, <2>1, PopFrames, ZenonT(60)
<1>4. FramesOK'
  BY <1>1, <1>3, FramesMove, ZenonT(60), SMTT(60) DEF CallsInOnePlace, FramesOK
<1>5. ChannelsOK' /\ QueuesOK'
  BY <1>1, CommandsMove DEF CallsInOnePlace, ChannelsOK, QueuesOK
<1>6. CallMapOK'
  BY <1>1, CallMapSame, ZenonT(60), SMTT(60) DEF CallsInOnePlace
<1>7. OneCommandPerCall'
  BY <1>1, ZenonT(60), SMTT(60) DEF CallsInOnePlace, OneCommandPerCall
<1> QED  BY <1>3, <1>4, <1>5, <1>6, <1>7, Zenon DEF CallsInOnePlace

(* Steps that only drop commands from one queue: its head or all of it.     *)
LEMMA QueueShrinks ==
    ASSUME TypeOK, CallsInOnePlace, NEW e \in Endpoints, NEW i \in Ids, NEW q,
           \/ q = <<>>
           \/ queue[e][i] # <<>> /\ q = Tail(queue[e][i]),
           queue' = [queue EXCEPT ![e][i] = q], UNCHANGED chan
    PROVE  /\ \A f \in Endpoints, j \in Ids : \A k \in DOMAIN queue'[f][j] :
                 CmdOK(f, queue'[f][j][k]) /\ queue'[f][j][k].thr = j
           /\ \A k \in DOMAIN queue'[e][i] : Apart(Head(queue[e][i]), queue'[e][i][k])
           /\ OneCommandPerCall'
<1>1. queue \in [Endpoints -> [Ids -> Seq(Cmd)]]
  BY Zenon DEF TypeOK
<1>2. \A f \in Endpoints, j \in Ids :
         queue'[f][j] = IF f = e /\ j = i THEN q ELSE queue[f][j]
  BY <1>1, Zenon
<1>3. queue[e][i] \in Seq(Cmd)
  BY <1>1, Zenon
<1>4. ASSUME NEW k \in DOMAIN q
      PROVE  /\ q = Tail(queue[e][i]) /\ queue[e][i] # <<>>
             /\ \E n \in DOMAIN queue[e][i] : q[k] = queue[e][i][n]
  <2>1. q # <<>>
    OBVIOUS
  <2>2. queue[e][i] # <<>> /\ q = Tail(queue[e][i])
    BY <2>1, Zenon
  <2>3. k + 1 \in DOMAIN queue[e][i] /\ q[k] = queue[e][i][k + 1]
    BY <1>3, <2>2, TailFacts, Zenon
  <2> QED  BY <2>2, <2>3, Zenon
<1>5. /\ Distinct(queue[e][i]) /\ Separate(queue[e][i], chan[e])
  BY Zenon DEF CallsInOnePlace, OneCommandPerCall
<1>6. Distinct(q) /\ Separate(q, chan[e])
  <2>1. CASE q = <<>>
    BY <2>1, EmptyDistinct, ZenonT(60), SMTT(60)
  <2>2. CASE queue[e][i] # <<>> /\ q = Tail(queue[e][i])
    BY <1>3, <1>5, <2>2, TailDistinct, TailSeparate, Zenon
  <2> QED  BY <2>1, <2>2, Zenon
<1>7. \A k \in DOMAIN q : Apart(Head(queue[e][i]), q[k])
  BY <1>3, <1>4, <1>5, TailDistinct, Zenon
<1>8. \A f \in Endpoints, j \in Ids : \A k \in DOMAIN queue'[f][j] :
         CmdOK(f, queue'[f][j][k]) /\ queue'[f][j][k].thr = j
  BY <1>2, <1>4 DEF CallsInOnePlace, QueuesOK
<1>9. OneCommandPerCall'
  BY <1>2, <1>6 DEF CallsInOnePlace, OneCommandPerCall
<1> QED  BY <1>2, <1>7, <1>8, <1>9

(* THREAD_EXIT taken by a shadow, and the end of that shadow.               *)
LEMMA ExitSteps ==
    ASSUME TypeOK, CallsInOnePlace, NEW e \in Endpoints, NEW i \in Ids,
           HandleExit(e, i) \/ ShadowExit(e, i)
    PROVE  CallsInOnePlace'
<1>1. UNCHANGED callVars /\ UNCHANGED chan /\ UNCHANGED stack
  BY ZenonT(60) DEF HandleExit, ShadowExit
<1> DEFINE q == IF HandleExit(e, i) THEN Tail(queue[e][i]) ELSE <<>>
<1>2. /\ \/ q = <<>>
         \/ queue[e][i] # <<>> /\ q = Tail(queue[e][i])
      /\ queue' = [queue EXCEPT ![e][i] = q]
  BY ZenonT(60) DEF HandleExit, ShadowExit, TakesCommands, Drop, Popped
<1> HIDE DEF q
<1>3. /\ \A f \in Endpoints, j \in Ids : \A k \in DOMAIN queue'[f][j] :
            CmdOK(f, queue'[f][j][k]) /\ queue'[f][j][k].thr = j
      /\ OneCommandPerCall'
  BY <1>1, <1>2, QueueShrinks, Zenon
<1>4. ChannelsOK' /\ QueuesOK'
  <2>1. \A f \in Endpoints : \A k \in DOMAIN chan'[f] : CmdOK(f, chan'[f][k])
    BY <1>1, Zenon DEF CallsInOnePlace, ChannelsOK
  <2> QED  BY <1>1, <1>3, <2>1, CommandsMove, Zenon
<1>5. FramesOK'
  BY <1>1, FramesMove, Zenon DEF CallsInOnePlace, FramesOK
<1>6. CallMapOK'
  BY <1>1, CallMapSame, ZenonT(60), SMTT(60) DEF CallsInOnePlace
<1>7. OneHandlerPerCall'
  BY <1>1, ZenonT(60) DEF CallsInOnePlace, OneHandlerPerCall
<1> QED  BY <1>3, <1>4, <1>5, <1>6, <1>7, Zenon DEF CallsInOnePlace

(* The dispatcher moves the oldest command of a channel into a queue, or    *)
(* drops it.                                                                *)
LEMMA DispatchStep ==
    ASSUME TypeOK, CallsInOnePlace, NEW e \in Endpoints, Dispatch(e)
    PROVE  CallsInOnePlace'
<1> DEFINE m == Head(chan[e])
           i == m.thr
<1>1. UNCHANGED callVars /\ UNCHANGED stack
  BY ZenonT(60) DEF Dispatch
<1>2. /\ chan[e] # <<>>
      /\ chan' = [chan EXCEPT ![e] = Tail(@)]
      /\ \/ queue' = [queue EXCEPT ![e][i] = Append(@, m)]
         \/ queue' = [queue EXCEPT ![e][i] = <<m>>]
         \/ queue' = queue
  BY Zenon DEF Dispatch, Push
<1>3. chan \in [Endpoints -> Seq(Cmd)]
  BY Zenon DEF TypeOK
<1>4. queue \in [Endpoints -> [Ids -> Seq(Cmd)]]
  BY ZenonT(60), SMTT(60) DEF TypeOK
<1>5. chan[e] \in Seq(Cmd) /\ m \in Cmd /\ Tail(chan[e]) \in Seq(Cmd)
  <2>1. chan[e] \in Seq(Cmd) /\ chan[e] # <<>>
    BY <1>2, <1>3, Zenon
  <2> QED  BY <2>1
<1>6. i \in Ids
  BY <1>5, ZenonT(60), SMTT(60) DEF Cmd
<1>7. /\ CmdOK(e, m)
      /\ Distinct(Tail(chan[e]))
      /\ \A k \in DOMAIN Tail(chan[e]) : Apart(m, Tail(chan[e])[k])
  <2>1. Distinct(chan[e])
    BY ZenonT(60), SMTT(60) DEF CallsInOnePlace, OneCommandPerCall
  <2>2. CmdOK(e, m)
    BY <1>2, <1>5, TailFacts, ZenonT(60) DEF CallsInOnePlace, ChannelsOK
  <2> QED  BY <1>2, <1>5, <2>1, <2>2, TailDistinct, Zenon
<1>8. \A f \in Endpoints : chan'[f] = IF f = e THEN Tail(chan[e]) ELSE chan[f]
  BY <1>2, <1>3, Zenon
<1>9. \A f \in Endpoints : \A k \in DOMAIN chan'[f] : CmdOK(f, chan'[f][k])
  <2> SUFFICES ASSUME NEW f \in Endpoints, NEW k \in DOMAIN chan'[f]
               PROVE  CmdOK(f, chan'[f][k])
    BY Zenon
  <2>1. CASE f = e
    <3>1. chan'[f] = Tail(chan[e])
      BY <1>8, <2>1, ZenonT(60), SMTT(60)
    <3>2. \A n \in DOMAIN Tail(chan[e]) :
             n + 1 \in DOMAIN chan[e] /\ Tail(chan[e])[n] = chan[e][n + 1]
      BY <1>2, <1>5, TailFacts, Zenon
    <3>3. k + 1 \in DOMAIN chan[e] /\ chan'[f][k] = chan[e][k + 1]
      BY <3>1, <3>2, Zenon
    <3> QED  BY <2>1, <3>3, Zenon DEF CallsInOnePlace, ChannelsOK
  <2>2. CASE f # e
    BY <1>8, <2>2, Zenon DEF CallsInOnePlace, ChannelsOK
  <2> QED  BY <2>1, <2>2, Zenon
<1> HIDE DEF m, i
<1>10. \A f \in Endpoints, j \in Ids : ~(f = e /\ j = i) => queue'[f][j] = queue[f][j]
  BY <1>2, <1>4, <1>6
<1>11. /\ queue[e][i] \in Seq(Cmd)
       /\ \/ queue'[e][i] = Append(queue[e][i], m)
          \/ queue'[e][i] = <<m>>
          \/ queue'[e][i] = queue[e][i]
  BY <1>2, <1>4, <1>6, ZenonT(60), SMTT(60)
<1>12. /\ Distinct(queue[e][i])
       /\ Separate(queue[e][i], Tail(chan[e]))
       /\ \A k \in DOMAIN queue[e][i] : Apart(queue[e][i][k], m)
  <2>1. Distinct(queue[e][i]) /\ Separate(queue[e][i], chan[e])
    BY <1>6, Zenon DEF CallsInOnePlace, OneCommandPerCall
  <2>2. /\ Separate(queue[e][i], Tail(chan[e]))
        /\ \A k \in DOMAIN queue[e][i] : Apart(queue[e][i][k], Head(chan[e]))
    BY <1>2, <1>5, <2>1, SeparateTail, ZenonT(60), SMTT(60)
  <2> QED  BY <2>1, <2>2, Zenon DEF m
<1>13. Distinct(queue'[e][i]) /\ Separate(queue'[e][i], Tail(chan[e]))
  <2>1. CASE queue'[e][i] = Append(queue[e][i], m)
    <3>1. Distinct(Append(queue[e][i], m))
      BY <1>5, <1>11, <1>12, AppendDistinct, ZenonT(60), SMTT(60)
    <3>2. Separate(Append(queue[e][i], m), Tail(chan[e]))
      BY <1>5, <1>7, <1>11, <1>12, AppendSeparate, ZenonT(60)
    <3> QED  BY <2>1, <3>1, <3>2, ZenonT(60), SMTT(60)
  <2>2. CASE queue'[e][i] = <<m>>
    BY <1>5, <1>7, <2>2, SingleDistinct, ZenonT(60)
  <2>3. CASE queue'[e][i] = queue[e][i]
    BY <1>12, <2>3, ZenonT(60), SMTT(60)
  <2> QED  BY <1>11, <2>1, <2>2, <2>3, Zenon
<1>14. \A k \in DOMAIN queue'[e][i] :
          CmdOK(e, queue'[e][i][k]) /\ queue'[e][i][k].thr = i
  <2>1. CmdOK(e, m) /\ m.thr = i
    BY <1>7, ZenonT(60), SMTT(60) DEF i
  <2>2. \A k \in DOMAIN queue[e][i] :
           CmdOK(e, queue[e][i][k]) /\ queue[e][i][k].thr = i
    BY <1>6, ZenonT(60), SMTT(60) DEF CallsInOnePlace, QueuesOK
  <2>3. CASE queue'[e][i] = Append(queue[e][i], m)
    BY <1>5, <1>11, <2>1, <2>2, <2>3, AppendFacts, SMTT(60)
  <2>4. CASE queue'[e][i] = <<m>>
    BY <2>1, <2>4, SMTT(60)
  <2>5. CASE queue'[e][i] = queue[e][i]
    BY <2>2, <2>5, Zenon
  <2> QED  BY <1>11, <2>3, <2>4, <2>5, ZenonT(60), SMTT(60)
<1>15. \A f \in Endpoints, j \in Ids : \A k \in DOMAIN queue'[f][j] :
          CmdOK(f, queue'[f][j][k]) /\ queue'[f][j][k].thr = j
  BY <1>10, <1>14, SMTT(60) DEF CallsInOnePlace, QueuesOK
<1>16. ChannelsOK' /\ QueuesOK'
  BY <1>1, <1>9, <1>15, CommandsMove, ZenonT(60), SMTT(60)
<1>17. OneCommandPerCall'
  <2> SUFFICES ASSUME NEW f \in Endpoints, NEW j \in Ids
               PROVE  /\ Distinct(chan'[f]) /\ Distinct(queue'[f][j])
                      /\ Separate(queue'[f][j], chan'[f])
    BY <1>6, Zenon DEF OneCommandPerCall
  <2>1. /\ Distinct(chan[f]) /\ Distinct(queue[f][j])
        /\ Separate(queue[f][j], chan[f])
    BY Zenon DEF CallsInOnePlace, OneCommandPerCall
  <2>2. CASE f # e
    BY <1>8, <1>10, <2>1, <2>2, ZenonT(60), SMTT(60)
  <2>3. CASE f = e /\ j = i
    BY <1>7, <1>8, <1>13, <2>3, ZenonT(60), SMTT(60)
  <2>4. CASE f = e /\ j # i
    <3>1. Separate(queue[f][j], Tail(chan[e]))
      BY <1>2, <1>5, <2>1, <2>4, SeparateTail, Zenon
    <3> QED  BY <1>7, <1>8, <1>10, <2>1, <2>4, <3>1, ZenonT(60), SMTT(60)
  <2> QED  BY <2>2, <2>3, <2>4, ZenonT(60), SMTT(60)
<1>18. FramesOK'
  BY <1>1, FramesMove, Zenon DEF CallsInOnePlace, FramesOK
<1>19. CallMapOK'
  BY <1>1, CallMapSame, ZenonT(60), SMTT(60) DEF CallsInOnePlace
<1>20. OneHandlerPerCall'
  BY <1>1, ZenonT(60) DEF CallsInOnePlace, OneHandlerPerCall
<1> QED  BY <1>16, <1>17, <1>18, <1>19, <1>20, ZenonT(60), SMTT(60) DEF CallsInOnePlace

-----------------------------------------------------------------------------
(* A stub that sends a CALL uses a call id that no command, frame or call   *)
(* map entry has yet.                                                       *)
LEMMA SendCallStep ==
    ASSUME TypeOK, CallsInOnePlace, NEW e \in Endpoints, NEW i \in Ids, NEW mode,
           SendCall(e, i, mode), UNCHANGED queue
    PROVE  CallsInOnePlace'
<1> SUFFICES ASSUME NEW n, n = nextCall[e]
             PROVE  CallsInOnePlace'
  BY Zenon
<1> DEFINE p == Peer(e)
           c == CallCmd(i, n)
           w == [op |-> "wait", n |-> n, done |-> FALSE]
           r == [n |-> n, thr |-> i]
<1>1. p \in Endpoints /\ Peer(p) = e
  BY PeerType, Zenon
<1>2. nextCall \in [Endpoints -> 0 .. MaxCalls]
  BY Zenon DEF TypeOK
<1>3. pending \in [Endpoints -> SUBSET [n : Nat, thr : Ids]]
  BY Zenon DEF TypeOK
<1>4. n \in CallIds /\ n \in Nat
  BY <1>2, BoundsAssumption DEF SendCall, CallIds
<1>5. c \in Cmd /\ c.op = "call" /\ c.n = n /\ c.thr = i
  BY <1>4, Zenon DEF CallCmd, Cmd
<1>6. w \in Frame /\ w.op = "wait" /\ w.n = n
  BY <1>4, Zenon DEF Frame
<1>7. r.n = n /\ r.thr = i
  BY ZenonT(60), SMTT(60)
<1>8. /\ nextCall' = [nextCall EXCEPT ![e] = n + 1]
      /\ pending' = [pending EXCEPT ![e] = @ \cup {r}]
      /\ chan' = [chan EXCEPT ![p] = Append(@, c)]
      /\ stack' = (IF mode = "sync" THEN [stack EXCEPT ![e][i] = Append(@, w)]
                   ELSE stack)
      /\ work' = work
  BY Zenon DEF SendCall
<1>9. r = [n |-> n, thr |-> i]
  BY Zenon
<1>10. n = nextCall[e]
  BY Zenon
<1> HIDE DEF p, c, w, r
<1>11. \A f \in Endpoints : /\ nextCall[f] \in Nat
                            /\ nextCall'[f] = IF f = e THEN n + 1 ELSE nextCall[f]
  BY <1>2, <1>8, BoundsAssumption
<1>12. \A f \in Endpoints : pending'[f] = IF f = e THEN pending[f] \cup {r} ELSE pending[f]
  BY <1>3, <1>8, Zenon
<1>13. \A f \in Endpoints : /\ chan[f] \in Seq(Cmd)
                            /\ chan'[f] = IF f = p THEN Append(chan[f], c) ELSE chan[f]
  BY <1>8, ZenonT(60), SMTT(60) DEF TypeOK
<1>14. work[e][n] = "no"
  BY <1>4, <1>10, <1>11, SMTT(60) DEF CallsInOnePlace, CallMapOK
<1>15. ASSUME NEW f \in Endpoints, NEW m \in Cmd, CmdOK(f, m)
       PROVE  CmdOK(f, m)'
  <2>1. m.n \in Nat /\ Peer(f) \in Endpoints
    BY PeerType, ZenonT(60), SMTT(60) DEF Cmd
  <2>2. /\ \A n1 \in Nat : n1 < nextCall[f] => n1 < nextCall'[f]
        /\ \A n1 \in Nat : n1 < nextCall[Peer(f)] => n1 < nextCall'[Peer(f)]
    BY <1>4, <1>10, <1>11, <2>1
  <2>3. pending[f] \subseteq pending'[f] /\ pending[Peer(f)] \subseteq pending'[Peer(f)]
    BY <1>12, <2>1, ZenonT(60)
  <2> QED  BY <1>8, <1>15, <2>1, <2>2, <2>3, Zenon DEF CmdOK, IsPending
<1>16. ASSUME NEW m \in Cmd, CmdOK(p, m)
       PROVE  Apart(m, c)
  <2>1. m.n \in Nat
    BY Zenon DEF Cmd
  <2> QED  BY <1>1, <1>4, <1>5, <1>10, <1>11, <1>16, <2>1 DEF CmdOK, Apart
<1>17. CmdOK(p, c)'
  <2>1. n < nextCall'[Peer(p)]
    BY <1>1, <1>4, <1>11
  <2>2. work'[Peer(p)][n] = "no"
    BY <1>1, <1>8, <1>14, Zenon
  <2>3. [n |-> n, thr |-> i] \in pending'[Peer(p)]
    BY <1>1, <1>9, <1>12, ZenonT(60)
  <2> QED  BY <1>5, <2>1, <2>2, <2>3, Zenon DEF CmdOK, IsPending
<1>18. ChannelsOK'
  <2>1. ASSUME NEW f \in Endpoints, NEW k \in DOMAIN chan'[f]
        PROVE  CmdOK(f, chan[f][k])'
    <3>1. \A k1 \in DOMAIN chan[f] : chan[f][k1] \in Cmd /\ CmdOK(f, chan[f][k1])
      BY <1>13 DEF CallsInOnePlace, ChannelsOK
    <3>2. \/ k \in DOMAIN chan[f] /\ chan'[f][k] = chan[f][k]
          \/ f = p /\ chan'[f][k] = c
      <4>1. CASE f = p
        <5>1. chan'[f] = Append(chan[f], c) /\ chan[f] \in Seq(Cmd)
          BY <1>13, <4>1, ZenonT(60)
        <5> QED  BY <1>5, <4>1, <5>1, AppendFacts, SMTT(60)
      <4>2. CASE f # p
        BY <1>13, <4>2, ZenonT(60), SMTT(60)
      <4> QED  BY <4>1, <4>2, ZenonT(60), SMTT(60)
    <3>3. CASE k \in DOMAIN chan[f] /\ chan'[f][k] = chan[f][k]
      <4>1. PICK m \in Cmd : m = chan[f][k] /\ CmdOK(f, m)
        BY <3>1, <3>3, ZenonT(60), SMTT(60)
      <4>2. CmdOK(f, m)' /\ chan'[f][k] = m
        BY <1>15, <3>3, <4>1, ZenonT(60), SMTT(60)
      <4> QED  BY <4>2, ZenonT(60), SMTT(60) DEF CmdOK, IsPending
    <3>4. CASE f = p /\ chan'[f][k] = c
      BY <1>17, <3>4, ZenonT(60), SMTT(60) DEF CmdOK, IsPending
    <3> QED  BY <3>2, <3>3, <3>4, Zenon
  <2> QED  BY <2>1, Zenon DEF ChannelsOK
<1>19. QueuesOK'
  <2>1. ASSUME NEW f \in Endpoints, NEW j \in Ids, NEW k \in DOMAIN queue'[f][j]
        PROVE  CmdOK(f, queue[f][j][k])' /\ queue'[f][j][k].thr = j
    <3>1. queue[f][j] \in Seq(Cmd) /\ k \in DOMAIN queue[f][j]
      BY ZenonT(60), SMTT(60) DEF TypeOK
    <3>2. PICK m \in Cmd : m = queue[f][j][k] /\ CmdOK(f, m) /\ m.thr = j
      BY <3>1, SMTT(60) DEF CallsInOnePlace, QueuesOK
    <3>3. CmdOK(f, m)' /\ queue'[f][j][k] = m
      BY <1>15, <3>2, Zenon
    <3> QED  BY <3>2, <3>3, Zenon DEF CmdOK, IsPending
  <2> QED  BY <2>1, ZenonT(60), SMTT(60) DEF QueuesOK
<1>20. FramesOK' /\ OneHandlerPerCall'
  <2>1. stack \in [Endpoints -> [Ids -> Seq(Frame)]]
    BY ZenonT(60), SMTT(60) DEF TypeOK
  <2>2. ASSUME NEW f \in Endpoints, NEW j \in Ids, NEW k \in DOMAIN stack'[f][j]
        PROVE  \/ k \in DOMAIN stack[f][j] /\ stack'[f][j][k] = stack[f][j][k]
               \/ f = e /\ j = i /\ stack'[f][j][k] = w
    <3>1. CASE stack' = stack
      BY <3>1, ZenonT(60), SMTT(60)
    <3>2. CASE stack' = [stack EXCEPT ![e][i] = Append(@, w)]
      <4>1. CASE f = e /\ j = i
        <5>1. stack'[f][j] = Append(stack[f][j], w) /\ stack[f][j] \in Seq(Frame)
          BY <2>1, <3>2, <4>1, Zenon
        <5> QED  BY <1>6, <4>1, <5>1, AppendFacts
      <4>2. CASE ~(f = e /\ j = i)
        BY <2>1, <3>2, <4>2, Zenon
      <4> QED  BY <4>1, <4>2, ZenonT(60), SMTT(60)
    <3> QED  BY <1>8, <3>1, <3>2, ZenonT(60), SMTT(60)
  <2>3. ASSUME NEW f \in Endpoints, NEW j \in Ids, NEW g \in Frame, FrameOK(f, j, g)
        PROVE  FrameOK(f, j, g)'
    <3>1. g.n \in Nat /\ Peer(f) \in Endpoints
      BY PeerType, Zenon DEF Frame
    <3>2. /\ \A n1 \in Nat : n1 < nextCall[f] => n1 < nextCall'[f]
          /\ \A n1 \in Nat : n1 < nextCall[Peer(f)] => n1 < nextCall'[Peer(f)]
      BY <1>4, <1>10, <1>11, <3>1
    <3>3. /\ pending[f] \subseteq pending'[f]
          /\ pending[Peer(f)] \subseteq pending'[Peer(f)]
      BY <1>12, <3>1, Zenon
    <3>4. work' = work
      BY <1>8, ZenonT(60), SMTT(60)
    <3>5. CASE g.op = "exec"
      BY <2>3, <3>1, <3>2, <3>3, <3>4, <3>5, ZenonT(60), SMTT(60) DEF FrameOK, IsPending
    <3>6. CASE g.op = "wait"
      BY <2>3, <3>1, <3>2, <3>3, <3>6, Zenon DEF FrameOK, IsPending
    <3>7. g.op \in {"exec", "wait"}
      BY ZenonT(60), SMTT(60) DEF Frame
    <3> QED  BY <3>5, <3>6, <3>7, Zenon
  <2>4. n < nextCall'[e] /\ [n |-> n, thr |-> i] \in pending'[e]
    <3>1. n < nextCall'[e]
      BY <1>4, <1>11, SMTT(60)
    <3>2. [n |-> n, thr |-> i] \in pending'[e]
      BY <1>9, <1>12, ZenonT(60)
    <3> QED  BY <3>1, <3>2, Zenon
  <2>5. ASSUME NEW f \in Endpoints, NEW j \in Ids, NEW k \in DOMAIN stack'[f][j]
        PROVE  FrameOK(f, j, stack[f][j][k])'
    <3>1. CASE k \in DOMAIN stack[f][j] /\ stack'[f][j][k] = stack[f][j][k]
      <4>1. stack[f][j] \in Seq(Frame)
        BY <2>1, ZenonT(60), SMTT(60)
      <4>2. PICK g \in Frame : g = stack[f][j][k] /\ FrameOK(f, j, g)
        BY <3>1, <4>1, SMTT(60) DEF CallsInOnePlace, FramesOK
      <4>3. FrameOK(f, j, g)' /\ stack'[f][j][k] = g
        BY <2>3, <3>1, <4>2, ZenonT(60), SMTT(60)
      <4> QED  BY <4>3, ZenonT(60), SMTT(60) DEF FrameOK, IsPending
    <3>2. CASE f = e /\ j = i /\ stack'[f][j][k] = w
      <4>1. stack'[f][j][k] = w /\ w.op = "wait" /\ w.n = n
        BY <1>6, <3>2, ZenonT(60), SMTT(60)
      <4>2. n < nextCall'[f] /\ [n |-> n, thr |-> j] \in pending'[f]
        BY <2>4, <3>2, Zenon
      <4> QED  BY <4>1, <4>2, ZenonT(60), SMTT(60) DEF FrameOK, IsPending
    <3> QED  BY <2>2, <3>1, <3>2, ZenonT(60), SMTT(60)
  <2>6. FramesOK'
    BY <2>5, ZenonT(60), SMTT(60) DEF FramesOK
  <2>7. OneHandlerPerCall'
    <3> SUFFICES ASSUME NEW f \in Endpoints, NEW j \in Ids,
                        NEW x \in DOMAIN stack'[f][j], NEW y \in DOMAIN stack'[f][j],
                        stack'[f][j][x].op = "exec", stack'[f][j][y].op = "exec",
                        stack'[f][j][x].n = stack'[f][j][y].n
                 PROVE  x = y
      BY ZenonT(60) DEF OneHandlerPerCall
    <3>1. x \in DOMAIN stack[f][j] /\ stack'[f][j][x] = stack[f][j][x]
      BY <1>6, <2>2, ZenonT(60), SMTT(60)
    <3>2. y \in DOMAIN stack[f][j] /\ stack'[f][j][y] = stack[f][j][y]
      BY <1>6, <2>2, ZenonT(60), SMTT(60)
    <3> QED  BY <3>1, <3>2, ZenonT(60), SMTT(60) DEF CallsInOnePlace, OneHandlerPerCall
  <2> QED  BY <2>6, <2>7, Zenon
<1>21. OneCommandPerCall'
  <2> SUFFICES ASSUME NEW f \in Endpoints, NEW j \in Ids
               PROVE  /\ Distinct(chan'[f]) /\ Distinct(queue'[f][j])
                      /\ Separate(queue'[f][j], chan'[f])
    BY ZenonT(60), SMTT(60) DEF OneCommandPerCall
  <2>1. /\ Distinct(chan[f]) /\ Distinct(queue[f][j])
        /\ Separate(queue[f][j], chan[f])
    BY ZenonT(60), SMTT(60) DEF CallsInOnePlace, OneCommandPerCall
  <2>2. CASE f # p
    BY <1>13, <2>1, <2>2, ZenonT(60), SMTT(60)
  <2>3. CASE f = p
    <3>1. chan'[f] = Append(chan[f], c) /\ chan[f] \in Seq(Cmd)
      BY <1>13, <2>3, ZenonT(60)
    <3>2. \A k \in DOMAIN chan[f] : Apart(chan[f][k], c)
      BY <1>16, <2>3, <3>1 DEF CallsInOnePlace, ChannelsOK
    <3>3. queue[f][j] \in Seq(Cmd)
      BY ZenonT(60), SMTT(60) DEF TypeOK
    <3>4. \A k \in DOMAIN queue[f][j] : Apart(queue[f][j][k], c)
      BY <1>16, <2>3, <3>3, SMTT(60) DEF CallsInOnePlace, QueuesOK
    <3>5. Distinct(chan'[f])
      BY <1>5, <2>1, <3>1, <3>2, AppendDistinct, ZenonT(60), SMTT(60)
    <3>6. Separate(queue[f][j], chan'[f])
      BY <1>5, <2>1, <3>1, <3>4, SeparateAppend, ZenonT(60), SMTT(60)
    <3> QED  BY <2>1, <3>5, <3>6, ZenonT(60), SMTT(60)
  <2> QED  BY <2>2, <2>3, ZenonT(60), SMTT(60)
<1>22. CallMapOK'
  <2> SUFFICES ASSUME NEW f \in Endpoints
               PROVE  /\ \A x, y \in pending'[f] : x.n = y.n => x = y
                      /\ \A x \in pending'[f] : x.n < nextCall'[f]
                      /\ \A k \in CallIds :
                            /\ k >= nextCall'[f] => work'[f][k] = "no"
                            /\ k < nextCall'[f] /\ (\A x \in pending'[f] : x.n # k)
                                  => work'[f][k] = "finished"
    BY ZenonT(60), SMTT(60) DEF CallMapOK
  <2>1. /\ \A x, y \in pending[f] : x.n = y.n => x = y
        /\ \A x \in pending[f] : x.n < nextCall[f]
        /\ \A k \in CallIds :
              /\ k >= nextCall[f] => work[f][k] = "no"
              /\ k < nextCall[f] /\ (\A x \in pending[f] : x.n # k)
                    => work[f][k] = "finished"
    BY Zenon DEF CallsInOnePlace, CallMapOK
  <2>2. \A x \in pending[f] : x.n \in Nat
    BY <1>3, SMTT(60)
  <2>3. CASE f # e
    BY <1>8, <1>11, <1>12, <2>1, <2>3, ZenonT(60), SMTT(60)
  <2>4. CASE f = e
    <3>1. pending'[f] = pending[f] \cup {r} /\ nextCall'[f] = n + 1 /\ nextCall[f] = n
      BY <1>10, <1>11, <1>12, <2>4, Zenon
    <3>2. \A x, y \in pending'[f] : x.n = y.n => x = y
      BY <1>4, <1>7, <2>1, <2>2, <3>1, SMTT(60)
    <3>3. \A x \in pending'[f] : x.n < nextCall'[f]
      BY <1>4, <1>7, <2>1, <2>2, <3>1, SMTT(60)
    <3>4. ASSUME NEW k \in CallIds
          PROVE  /\ k >= nextCall'[f] => work'[f][k] = "no"
                 /\ k < nextCall'[f] /\ (\A x \in pending'[f] : x.n # k)
                       => work'[f][k] = "finished"
      BY <1>4, <1>7, <1>8, <2>1, <3>1, SMTT(60) DEF CallIds
    <3> QED  BY <3>2, <3>3, <3>4, Zenon
  <2> QED  BY <2>3, <2>4, ZenonT(60), SMTT(60)
<1> QED  BY <1>18, <1>19, <1>20, <1>21, <1>22, Zenon DEF CallsInOnePlace

-----------------------------------------------------------------------------
(* Taking a CALL or a RET off a queue: no other command to that endpoint is *)
(* for the same call, and the call is in the call map under this thread.    *)
LEMMA TakeCommand ==
    ASSUME TypeOK, CallsInOnePlace, NEW e \in Endpoints, NEW i \in Ids,
           queue[e][i] # <<>>, Head(queue[e][i]).op # "exit",
           queue' = [queue EXCEPT ![e][i] = Tail(@)], UNCHANGED chan
    PROVE  /\ CmdOK(e, Head(queue[e][i])) /\ Head(queue[e][i]).thr = i
           /\ Head(queue[e][i]) \in Cmd
           /\ OneCommandPerCall'
           /\ \A f \in Endpoints, j \in Ids : \A k \in DOMAIN queue'[f][j] :
                 /\ queue'[f][j][k] \in Cmd
                 /\ CmdOK(f, queue'[f][j][k]) /\ queue'[f][j][k].thr = j
                 /\ f = e => Apart(Head(queue[e][i]), queue'[f][j][k])
           /\ \A k \in DOMAIN chan[e] : Apart(Head(queue[e][i]), chan[e][k])
<1> DEFINE m == Head(queue[e][i])
<1>1. queue \in [Endpoints -> [Ids -> Seq(Cmd)]]
  BY Zenon DEF TypeOK
<1>2. queue[e][i] \in Seq(Cmd) /\ m \in Cmd
  BY <1>1
<1>3. CmdOK(e, m) /\ m.thr = i
  BY <1>2, TailFacts, SMTT(60) DEF CallsInOnePlace, QueuesOK
<1>4. /\ \A f \in Endpoints, j \in Ids : \A k \in DOMAIN queue'[f][j] :
            CmdOK(f, queue'[f][j][k]) /\ queue'[f][j][k].thr = j
      /\ \A k \in DOMAIN queue'[e][i] : Apart(m, queue'[e][i][k])
      /\ OneCommandPerCall'
  BY QueueShrinks, Zenon
<1>5. Separate(queue[e][i], chan[e])
  BY Zenon DEF CallsInOnePlace, OneCommandPerCall
<1>6. \A k \in DOMAIN chan[e] : Apart(m, chan[e][k])
  BY <1>2, <1>5, TailSeparate, ZenonT(60), SMTT(60)
<1>7. ASSUME NEW f \in Endpoints, NEW j \in Ids, NEW k \in DOMAIN queue'[f][j]
      PROVE  queue'[f][j][k] \in Cmd /\ (f = e => Apart(m, queue'[f][j][k]))
  <2>1. CASE f = e /\ j = i
    <3>1. queue'[f][j] = Tail(queue[e][i]) /\ Tail(queue[e][i]) \in Seq(Cmd)
      BY <1>1, <1>2, <2>1, SMTT(60)
    <3> QED  BY <1>4, <2>1, <3>1
  <2>2. CASE ~(f = e /\ j = i)
    <3>1. queue'[f][j] = queue[f][j] /\ queue[f][j] \in Seq(Cmd)
      BY <1>1, <2>2, ZenonT(60), SMTT(60)
    <3>2. queue'[f][j][k] \in Cmd
      BY <3>1
    <3>3. ASSUME f = e, ~Apart(m, queue'[f][j][k])
          PROVE  FALSE
      <4> DEFINE x == queue'[f][j][k]
                 g == IF m.op = "ret" THEN e ELSE Peer(e)
      <4>1. CmdOK(e, x) /\ x.thr = j /\ x \in Cmd
        BY <1>4, <3>2, <3>3, ZenonT(60), SMTT(60)
      <4>2. x.op = m.op /\ x.n = m.n /\ m.op \in {"call", "ret"}
        BY <1>2, <3>3, ZenonT(60), SMTT(60) DEF Apart, Cmd
      <4>3. g \in Endpoints
        BY PeerType, Zenon
      <4>4. IsPending(g, m.n, i) /\ IsPending(g, m.n, j)
        BY <1>3, <4>1, <4>2, ZenonT(60) DEF CmdOK
      <4>5. i = j
        BY <4>3, <4>4 DEF IsPending, CallsInOnePlace, CallMapOK
      <4> QED  BY <2>2, <3>3, <4>5, ZenonT(60), SMTT(60)
    <3> QED  BY <3>2, <3>3, Zenon
  <2> QED  BY <2>1, <2>2, ZenonT(60), SMTT(60)
<1> QED  BY <1>2, <1>3, <1>4, <1>6, <1>7, ZenonT(60), SMTT(60)

-----------------------------------------------------------------------------
(* The three steps that move a call from one place to the next: a CALL that *)
(* is taken up, a handler that replies, a RET that completes the call.      *)

(* A CALL leaves the queue and a handler frame takes its place.             *)
LEMMA HandleCallStep ==
    ASSUME TypeOK, CallsInOnePlace, NEW e \in Endpoints, NEW i \in Ids,
           HandleCall(e, i)
    PROVE  CallsInOnePlace'
<1> SUFFICES ASSUME NEW m, m = Head(queue[e][i])
             PROVE  CallsInOnePlace'
  BY Zenon
<1> DEFINE p == Peer(e)
           n == m.n
           w == [op |-> "exec", n |-> n, done |-> FALSE]
<1>1. p \in Endpoints /\ Peer(p) = e /\ p # e
  BY PeerType, ZenonT(60), SMTT(60)
<1>2. /\ queue[e][i] # <<>> /\ m.op = "call"
      /\ queue' = [queue EXCEPT ![e][i] = Tail(@)]
      /\ work' = [work EXCEPT ![p][n] = "running"]
      /\ stack' = [stack EXCEPT ![e][i] = Append(@, w)]
      /\ UNCHANGED <<chan, pending, nextCall>>
  BY Zenon DEF HandleCall, TakesCommands, Drop, Popped
<1>3. /\ CmdOK(e, m) /\ m.thr = i /\ m \in Cmd
      /\ OneCommandPerCall'
      /\ \A f \in Endpoints, j \in Ids : \A k \in DOMAIN queue'[f][j] :
            /\ queue'[f][j][k] \in Cmd
            /\ CmdOK(f, queue'[f][j][k]) /\ queue'[f][j][k].thr = j
            /\ f = e => Apart(m, queue'[f][j][k])
      /\ \A k \in DOMAIN chan[e] : Apart(m, chan[e][k])
  <2>1. /\ queue[e][i] # <<>> /\ Head(queue[e][i]).op # "exit"
        /\ queue' = [queue EXCEPT ![e][i] = Tail(@)] /\ UNCHANGED chan
    BY <1>2, ZenonT(60), SMTT(60)
  <2>2. /\ CmdOK(e, Head(queue[e][i])) /\ Head(queue[e][i]).thr = i
        /\ Head(queue[e][i]) \in Cmd
        /\ OneCommandPerCall'
        /\ \A f \in Endpoints, j \in Ids : \A k \in DOMAIN queue'[f][j] :
              /\ queue'[f][j][k] \in Cmd
              /\ CmdOK(f, queue'[f][j][k]) /\ queue'[f][j][k].thr = j
              /\ f = e => Apart(Head(queue[e][i]), queue'[f][j][k])
        /\ \A k \in DOMAIN chan[e] : Apart(Head(queue[e][i]), chan[e][k])
    BY <2>1, TakeCommand, Zenon
  <2> QED  BY <2>2, ZenonT(60), SMTT(60)
<1>4. n \in Nat /\ n < nextCall[p] /\ work[p][n] = "no" /\ IsPending(p, n, i)
  <2>1. n \in Nat
    BY <1>3, Zenon DEF Cmd
  <2>2. n < nextCall[p] /\ work[p][n] = "no" /\ IsPending(p, n, m.thr)
    BY <1>2, <1>3, Zenon DEF CmdOK
  <2> QED  BY <1>3, <2>1, <2>2, ZenonT(60), SMTT(60)
<1>5. \A f \in Endpoints : nextCall[f] \in 0 .. MaxCalls
  BY ZenonT(60), SMTT(60) DEF TypeOK
<1>6. n \in CallIds
  BY <1>1, <1>4, <1>5, BoundsAssumption DEF CallIds
<1>7. work \in [Endpoints -> [CallIds -> WorkStates]]
  BY ZenonT(60), SMTT(60) DEF TypeOK
<1>8. work'[p][n] = "running"
  BY <1>1, <1>2, <1>6, <1>7, ZenonT(60), SMTT(60)
<1>9. \A f \in Endpoints, x \in CallIds : ~(f = p /\ x = n) => work'[f][x] = work[f][x]
  BY <1>2, <1>7, ZenonT(60), SMTT(60)
<1>10. w \in Frame /\ w.op = "exec" /\ w.n = n
  BY <1>4, Zenon DEF Frame
<1> HIDE DEF p, n, w
<1>11. ASSUME NEW f \in Endpoints, NEW c \in Cmd, CmdOK(f, c), f = e => Apart(m, c)
       PROVE  CmdOK(f, c)'
  <2>1. c.n \in Nat /\ Peer(f) \in Endpoints /\ (f = e <=> Peer(f) = p)
    BY <1>1, PeerType, Zenon DEF Cmd, p
  <2>2. CASE c.op = "call"
    <3>1. c.n < nextCall[Peer(f)] /\ work[Peer(f)][c.n] = "no" /\ IsPending(Peer(f), c.n, c.thr)
      BY <1>11, <2>2, Zenon DEF CmdOK
    <3>2. c.n \in CallIds
      BY <1>5, <2>1, <3>1, BoundsAssumption, SMTT(60) DEF CallIds
    <3>3. ~(Peer(f) = p /\ c.n = n)
      BY <1>2, <1>11, <2>1, <2>2, Zenon DEF Apart, n
    <3>4. work'[Peer(f)][c.n] = "no"
      BY <1>9, <2>1, <3>1, <3>2, <3>3, ZenonT(60), SMTT(60)
    <3> QED  BY <1>2, <2>2, <3>1, <3>4, ZenonT(60), SMTT(60) DEF CmdOK, IsPending
  <2>3. CASE c.op = "ret"
    <3>1. c.n < nextCall[f] /\ work[f][c.n] = "finished" /\ IsPending(f, c.n, c.thr)
      BY <1>11, <2>3, Zenon DEF CmdOK
    <3>2. c.n \in CallIds
      BY <1>5, <2>1, <3>1, BoundsAssumption DEF CallIds
    <3>3. work'[f][c.n] = "finished"
      BY <1>4, <1>9, <3>1, <3>2, Zenon
    <3> QED  BY <1>2, <2>3, <3>1, <3>3, ZenonT(60), SMTT(60) DEF CmdOK, IsPending
  <2>4. CASE c.op \notin {"call", "ret"}
    BY <2>4, Zenon DEF CmdOK
  <2> QED  BY <2>2, <2>3, <2>4, Zenon
<1>12. ChannelsOK'
  <2>1. ASSUME NEW f \in Endpoints, NEW k \in DOMAIN chan'[f]
        PROVE  CmdOK(f, chan[f][k])'
    <3>1. PICK c \in Cmd : c = chan[f][k] /\ CmdOK(f, c) /\ (f = e => Apart(m, c))
      <4>1. chan' = chan /\ chan[f] \in Seq(Cmd)
        BY <1>2, ZenonT(60), SMTT(60) DEF TypeOK
      <4>2. chan[f][k] \in Cmd /\ k \in DOMAIN chan[f]
        BY <4>1, SMTT(60)
      <4>3. CmdOK(f, chan[f][k]) /\ (f = e => Apart(m, chan[f][k]))
        BY <1>3, <4>2, ZenonT(60), SMTT(60) DEF CallsInOnePlace, ChannelsOK
      <4> QED  BY <4>2, <4>3, ZenonT(60), SMTT(60)
    <3>2. CmdOK(f, c)' /\ chan'[f][k] = c
      BY <1>2, <1>11, <3>1, Zenon
    <3> QED  BY <3>2, ZenonT(60), SMTT(60) DEF CmdOK, IsPending
  <2> QED  BY <2>1, Zenon DEF ChannelsOK
<1>13. QueuesOK'
  <2>1. ASSUME NEW f \in Endpoints, NEW j \in Ids, NEW k \in DOMAIN queue'[f][j]
        PROVE  (CmdOK(f, queue[f][j][k]) /\ queue[f][j][k].thr = j)'
    <3>1. PICK c \in Cmd : /\ c = queue'[f][j][k] /\ c.thr = j
                           /\ CmdOK(f, c) /\ (f = e => Apart(m, c))
      BY <1>3
    <3>2. CmdOK(f, c)'
      BY <1>11, <3>1, Zenon
    <3> QED  BY <3>1, <3>2, ZenonT(60), SMTT(60) DEF CmdOK, IsPending
  <2> QED  BY <2>1, ZenonT(60), SMTT(60) DEF QueuesOK
<1>14. ASSUME NEW f \in Endpoints, NEW j \in Ids, NEW k \in DOMAIN stack'[f][j]
       PROVE  \/ k \in DOMAIN stack[f][j] /\ stack'[f][j][k] = stack[f][j][k]
              \/ f = e /\ j = i /\ k = Len(stack[e][i]) + 1 /\ stack'[f][j][k] = w
  <2>1. stack \in [Endpoints -> [Ids -> Seq(Frame)]]
    BY ZenonT(60), SMTT(60) DEF TypeOK
  <2>2. CASE f = e /\ j = i
    <3>1. stack'[f][j] = Append(stack[f][j], w) /\ stack[f][j] \in Seq(Frame)
      BY <1>2, <2>1, <2>2, ZenonT(60), SMTT(60) DEF w
    <3> QED  BY <1>10, <2>2, <3>1, AppendFacts, SMTT(60)
  <2>3. CASE ~(f = e /\ j = i)
    BY <1>2, <2>1, <2>3, ZenonT(60), SMTT(60)
  <2> QED  BY <2>2, <2>3, Zenon
<1>15. ASSUME NEW f \in Endpoints, NEW j \in Ids, NEW k \in DOMAIN stack[f][j]
       PROVE  /\ stack[f][j][k] \in Frame /\ FrameOK(f, j, stack[f][j][k])
              /\ f = e /\ j = i /\ stack[f][j][k].op = "exec" => stack[f][j][k].n # n
  <2>1. stack[f][j][k] \in Frame /\ FrameOK(f, j, stack[f][j][k])
    BY SMTT(60) DEF TypeOK, CallsInOnePlace, FramesOK
  <2> QED  BY <1>4, <2>1, Zenon DEF FrameOK, p
<1>16. ASSUME NEW f \in Endpoints, NEW j \in Ids, NEW g \in Frame, FrameOK(f, j, g)
       PROVE  FrameOK(f, j, g)'
  <2>1. g.n \in Nat /\ Peer(f) \in Endpoints
    BY PeerType, Zenon DEF Frame
  <2>2. CASE g.op = "exec"
    <3>1. g.n < nextCall[Peer(f)] /\ work[Peer(f)][g.n] = "running" /\ IsPending(Peer(f), g.n, j)
      BY <1>16, <2>2, Zenon DEF FrameOK
    <3>2. g.n \in CallIds
      BY <1>5, <2>1, <3>1, BoundsAssumption DEF CallIds
    <3>3. work'[Peer(f)][g.n] = "running"
      BY <1>4, <1>9, <2>1, <3>1, <3>2, ZenonT(60), SMTT(60)
    <3> QED  BY <1>2, <2>2, <3>1, <3>3, Zenon DEF FrameOK, IsPending
  <2>3. CASE g.op # "exec"
    BY <1>2, <1>16, <2>3, Zenon DEF FrameOK, IsPending
  <2> QED  BY <2>2, <2>3, Zenon
<1>17. FramesOK'
  <2>1. ASSUME NEW f \in Endpoints, NEW j \in Ids, NEW k \in DOMAIN stack'[f][j]
        PROVE  FrameOK(f, j, stack[f][j][k])'
    <3>1. CASE k \in DOMAIN stack[f][j] /\ stack'[f][j][k] = stack[f][j][k]
      <4>1. PICK g \in Frame : g = stack'[f][j][k] /\ FrameOK(f, j, g)
        BY <1>15, <3>1, Zenon
      <4>2. FrameOK(f, j, g)'
        BY <1>16, <4>1, Zenon
      <4> QED  BY <4>1, <4>2, ZenonT(60), SMTT(60) DEF FrameOK, IsPending
    <3>2. CASE f = e /\ j = i /\ stack'[f][j][k] = w
      <4>1. n < nextCall'[p] /\ work'[p][n] = "running" /\ [n |-> n, thr |-> i] \in pending'[p]
        BY <1>2, <1>4, <1>8, Zenon DEF IsPending
      <4>2. stack'[f][j][k].op = "exec" /\ stack'[f][j][k].n = n /\ Peer(f) = p
        BY <1>10, <3>2, ZenonT(60), SMTT(60) DEF p
      <4> QED  BY <3>2, <4>1, <4>2, Zenon DEF FrameOK, IsPending
    <3> QED  BY <1>14, <3>1, <3>2, ZenonT(60), SMTT(60)
  <2> QED  BY <2>1, ZenonT(60), SMTT(60) DEF FramesOK
<1>18. OneHandlerPerCall'
  <2> SUFFICES ASSUME NEW f \in Endpoints, NEW j \in Ids,
                      NEW k \in DOMAIN stack'[f][j], NEW l \in DOMAIN stack'[f][j],
                      stack'[f][j][k].op = "exec", stack'[f][j][l].op = "exec",
                      stack'[f][j][k].n = stack'[f][j][l].n
               PROVE  k = l
    BY Zenon DEF OneHandlerPerCall
  <2>1. /\ \/ k \in DOMAIN stack[f][j] /\ stack'[f][j][k] = stack[f][j][k]
           \/ f = e /\ j = i /\ k = Len(stack[e][i]) + 1 /\ stack'[f][j][k] = w
        /\ \/ l \in DOMAIN stack[f][j] /\ stack'[f][j][l] = stack[f][j][l]
           \/ f = e /\ j = i /\ l = Len(stack[e][i]) + 1 /\ stack'[f][j][l] = w
    BY <1>14, ZenonT(60), SMTT(60)
  <2>2. CASE /\ k \in DOMAIN stack[f][j] /\ stack'[f][j][k] = stack[f][j][k]
             /\ l \in DOMAIN stack[f][j] /\ stack'[f][j][l] = stack[f][j][l]
    BY <2>2, Zenon DEF CallsInOnePlace, OneHandlerPerCall
  <2> QED  BY <1>10, <1>15, <2>1, <2>2, ZenonT(60), SMTT(60)
<1>19. CallMapOK'
  <2>1. ASSUME NEW f \in Endpoints, NEW x \in CallIds
        PROVE  /\ x >= nextCall'[f] => work'[f][x] = "no"
               /\ x < nextCall'[f] /\ (\A r \in pending'[f] : r.n # x)
                     => work'[f][x] = "finished"
    <3>1. CASE f = p /\ x = n
      <4>1. [n |-> n, thr |-> i] \in pending'[f] /\ ~(x >= nextCall'[f])
        BY <1>1, <1>2, <1>4, <1>5, <3>1 DEF IsPending
      <4> QED  BY <3>1, <4>1, Zenon
    <3>2. CASE ~(f = p /\ x = n)
      BY <1>2, <1>9, <3>2 DEF CallsInOnePlace, CallMapOK
    <3> QED  BY <3>1, <3>2, Zenon
  <2>2. \A f \in Endpoints : /\ \A r, q \in pending'[f] : r.n = q.n => r = q
                             /\ \A r \in pending'[f] : r.n < nextCall'[f]
    BY <1>2, Zenon DEF CallsInOnePlace, CallMapOK
  <2> QED  BY <2>1, <2>2, Zenon DEF CallMapOK
<1> QED  BY <1>3, <1>12, <1>13, <1>17, <1>18, <1>19, Zenon DEF CallsInOnePlace

(* A handler frame is popped and a RET takes its place.                     *)
LEMMA SendReturnStep ==
    ASSUME TypeOK, CallsInOnePlace, NEW e \in Endpoints, NEW i \in Ids,
           SendReturn(e, i)
    PROVE  CallsInOnePlace'
<1> SUFFICES ASSUME NEW n, n = Top(stack[e][i]).n
             PROVE  CallsInOnePlace'
  BY Zenon
<1> DEFINE p == Peer(e)
           c == RetCmd(i, n)
           z == Len(stack[e][i])
<1>1. p \in Endpoints /\ Peer(p) = e /\ p # e
  BY PeerType, Zenon
<1>2. /\ stack[e][i] # <<>> /\ Top(stack[e][i]).op = "exec"
      /\ work' = [work EXCEPT ![p][n] = "finished"]
      /\ chan' = [chan EXCEPT ![p] = Append(@, c)]
      /\ stack' = [stack EXCEPT ![e][i] = Pop(@)]
      /\ UNCHANGED <<queue, pending, nextCall>>
  BY Zenon DEF SendReturn, TopIs, Reply, WorkDone
<1>3. stack \in [Endpoints -> [Ids -> Seq(Frame)]] /\ stack[e][i] \in Seq(Frame)
  BY Zenon DEF TypeOK
<1>4. /\ z \in DOMAIN stack[e][i] /\ stack[e][i][z] \in Frame
      /\ stack[e][i][z].op = "exec" /\ stack[e][i][z].n = n
  BY <1>2, <1>3, PopFacts, SMTT(60) DEF Top
<1>5. n \in Nat /\ n < nextCall[p] /\ work[p][n] = "running" /\ IsPending(p, n, i)
  <2>1. FrameOK(e, i, stack[e][i][z])
    BY <1>4, Zenon DEF CallsInOnePlace, FramesOK
  <2>2. n \in Nat
    BY <1>4, Zenon DEF Frame
  <2> QED  BY <1>4, <2>1, <2>2, Zenon DEF FrameOK
<1>6. \A f \in Endpoints : nextCall[f] \in 0 .. MaxCalls
  BY Zenon DEF TypeOK
<1>7. n \in CallIds
  BY <1>1, <1>5, <1>6, BoundsAssumption DEF CallIds
<1>8. work \in [Endpoints -> [CallIds -> WorkStates]]
  BY Zenon DEF TypeOK
<1>9. work'[p][n] = "finished"
  BY <1>1, <1>2, <1>7, <1>8, Zenon
<1>10. \A f \in Endpoints, x \in CallIds : ~(f = p /\ x = n) => work'[f][x] = work[f][x]
  BY <1>2, <1>8, ZenonT(60), SMTT(60)
<1>11. c \in Cmd /\ c.op = "ret" /\ c.n = n /\ c.thr = i
  BY <1>5, Zenon DEF RetCmd, Cmd
<1>12. \A f \in Endpoints : /\ chan[f] \in Seq(Cmd)
                            /\ chan'[f] = IF f = p THEN Append(chan[f], c) ELSE chan[f]
  BY <1>2, Zenon DEF TypeOK
<1> HIDE DEF p, c, z
<1>13. ASSUME NEW f \in Endpoints, NEW m \in Cmd, CmdOK(f, m)
       PROVE  CmdOK(f, m)'
  <2>1. m.n \in Nat /\ Peer(f) \in Endpoints
    BY PeerType, Zenon DEF Cmd
  <2>2. CASE m.op = "call"
    <3>1. m.n < nextCall[Peer(f)] /\ work[Peer(f)][m.n] = "no" /\ IsPending(Peer(f), m.n, m.thr)
      BY <1>13, <2>2, Zenon DEF CmdOK
    <3>2. m.n \in CallIds
      BY <1>6, <2>1, <3>1, BoundsAssumption, SMTT(60) DEF CallIds
    <3>3. work'[Peer(f)][m.n] = "no"
      BY <1>5, <1>10, <2>1, <3>1, <3>2, ZenonT(60), SMTT(60)
    <3> QED  BY <1>2, <2>2, <3>1, <3>3, Zenon DEF CmdOK, IsPending
  <2>3. CASE m.op = "ret"
    <3>1. m.n < nextCall[f] /\ work[f][m.n] = "finished" /\ IsPending(f, m.n, m.thr)
      BY <1>13, <2>3, Zenon DEF CmdOK
    <3>2. m.n \in CallIds
      BY <1>6, <2>1, <3>1, BoundsAssumption DEF CallIds
    <3>3. work'[f][m.n] = "finished"
      BY <1>5, <1>10, <3>1, <3>2, Zenon
    <3> QED  BY <1>2, <2>3, <3>1, <3>3, ZenonT(60), SMTT(60) DEF CmdOK, IsPending
  <2>4. CASE m.op \notin {"call", "ret"}
    BY <2>4, ZenonT(60), SMTT(60) DEF CmdOK
  <2> QED  BY <2>2, <2>3, <2>4, Zenon
<1>14. ASSUME NEW m \in Cmd, CmdOK(p, m)
       PROVE  Apart(m, c)
  BY <1>5, <1>11, <1>14, Zenon DEF CmdOK, Apart
<1>15. ChannelsOK'
  <2>1. ASSUME NEW f \in Endpoints, NEW k \in DOMAIN chan'[f]
        PROVE  CmdOK(f, chan[f][k])'
    <3>1. \/ k \in DOMAIN chan[f] /\ chan'[f][k] = chan[f][k]
          \/ f = p /\ chan'[f][k] = c
      <4>1. CASE f = p
        <5>1. chan'[f] = Append(chan[f], c) /\ chan[f] \in Seq(Cmd)
          BY <1>12, <4>1, ZenonT(60)
        <5> QED  BY <1>11, <4>1, <5>1, AppendFacts
      <4>2. CASE f # p
        BY <1>12, <4>2, ZenonT(60), SMTT(60)
      <4> QED  BY <4>1, <4>2, Zenon
    <3>2. CASE k \in DOMAIN chan[f] /\ chan'[f][k] = chan[f][k]
      <4>1. PICK m \in Cmd : m = chan'[f][k] /\ CmdOK(f, m)
        BY <1>12, <3>2 DEF CallsInOnePlace, ChannelsOK
      <4>2. CmdOK(f, m)'
        BY <1>13, <4>1, ZenonT(60), SMTT(60)
      <4> QED  BY <4>1, <4>2, Zenon DEF CmdOK, IsPending
    <3>3. CASE f = p /\ chan'[f][k] = c
      <4>1. n < nextCall'[f] /\ work'[f][n] = "finished" /\ [n |-> n, thr |-> i] \in pending'[f]
        BY <1>2, <1>5, <1>9, <3>3, Zenon DEF IsPending
      <4>2. chan'[f][k].op = "ret" /\ chan'[f][k].n = n /\ chan'[f][k].thr = i
        BY <1>11, <3>3, Zenon
      <4> QED  BY <4>1, <4>2, ZenonT(60), SMTT(60) DEF CmdOK, IsPending
    <3> QED  BY <3>1, <3>2, <3>3, Zenon
  <2> QED  BY <2>1, Zenon DEF ChannelsOK
<1>16. QueuesOK'
  <2>1. ASSUME NEW f \in Endpoints, NEW j \in Ids, NEW k \in DOMAIN queue'[f][j]
        PROVE  (CmdOK(f, queue[f][j][k]) /\ queue[f][j][k].thr = j)'
    <3>1. PICK m \in Cmd : m = queue'[f][j][k] /\ m.thr = j /\ CmdOK(f, m)
      BY <1>2, SMTT(60) DEF TypeOK, CallsInOnePlace, QueuesOK
    <3>2. CmdOK(f, m)'
      BY <1>13, <3>1, Zenon
    <3> QED  BY <3>1, <3>2, Zenon DEF CmdOK, IsPending
  <2> QED  BY <2>1, ZenonT(60), SMTT(60) DEF QueuesOK
<1>17. FramesOK /\ OneHandlerPerCall
  BY Zenon DEF CallsInOnePlace
<1>18. /\ \A f \in Endpoints, j \in Ids : \A k \in DOMAIN stack'[f][j] :
             /\ k \in DOMAIN stack[f][j] /\ stack'[f][j][k] = stack[f][j][k]
             /\ f = e /\ j = i => k # z
       /\ OneHandlerPerCall'
  BY <1>2, <1>17, PopFrames, Zenon DEF z
<1>19. FramesOK'
  <2>1. ASSUME NEW f \in Endpoints, NEW j \in Ids, NEW k \in DOMAIN stack'[f][j]
        PROVE  FrameOK(f, j, stack[f][j][k])'
    <3>1. PICK g \in Frame : /\ g = stack[f][j][k] /\ g = stack'[f][j][k]
                             /\ k \in DOMAIN stack[f][j] /\ FrameOK(f, j, g)
      BY <1>3, <1>17, <1>18 DEF FramesOK
    <3>2. g.n \in Nat /\ Peer(f) \in Endpoints /\ (Peer(f) = p => f = e)
      BY <1>1, PeerType, Zenon DEF Frame, p
    <3>3. CASE g.op = "exec"
      <4>1. g.n < nextCall[Peer(f)] /\ work[Peer(f)][g.n] = "running" /\ IsPending(Peer(f), g.n, j)
        BY <3>1, <3>3, ZenonT(60), SMTT(60) DEF FrameOK
      <4>2. g.n \in CallIds
        BY <1>6, <3>2, <4>1, BoundsAssumption DEF CallIds
      <4>3. ~(Peer(f) = p /\ g.n = n)
        <5> SUFFICES ASSUME Peer(f) = p, g.n = n
                     PROVE  FALSE
          BY ZenonT(60), SMTT(60)
        <5>1. f = e /\ j = i
          BY <1>1, <1>5, <3>2, <4>1, SMTT(60) DEF IsPending, CallsInOnePlace, CallMapOK
        <5>2. k = z
          BY <1>4, <1>17, <3>1, <3>3, <5>1, ZenonT(60) DEF OneHandlerPerCall
        <5> QED  BY <1>18, <5>1, <5>2, Zenon
      <4>4. work'[Peer(f)][g.n] = "running"
        BY <1>10, <3>2, <4>1, <4>2, <4>3, Zenon
      <4> QED  BY <1>2, <3>1, <3>3, <4>1, <4>4, Zenon DEF FrameOK, IsPending
    <3>4. CASE g.op # "exec"
      BY <1>2, <3>1, <3>4, Zenon DEF FrameOK, IsPending
    <3> QED  BY <3>3, <3>4, ZenonT(60), SMTT(60)
  <2> QED  BY <2>1, Zenon DEF FramesOK
<1>20. OneCommandPerCall'
  <2> SUFFICES ASSUME NEW f \in Endpoints, NEW j \in Ids
               PROVE  /\ Distinct(chan'[f]) /\ Distinct(queue'[f][j])
                      /\ Separate(queue'[f][j], chan'[f])
    BY Zenon DEF OneCommandPerCall
  <2>1. /\ Distinct(chan[f]) /\ Distinct(queue[f][j]) /\ Separate(queue[f][j], chan[f])
        /\ queue'[f][j] = queue[f][j]
    BY <1>2, Zenon DEF CallsInOnePlace, OneCommandPerCall
  <2>2. CASE f # p
    BY <1>12, <2>1, <2>2, ZenonT(60), SMTT(60)
  <2>3. CASE f = p
    <3>1. chan'[f] = Append(chan[f], c) /\ chan[f] \in Seq(Cmd)
      BY <1>12, <2>3, ZenonT(60)
    <3>2. \A k \in DOMAIN chan[f] : Apart(chan[f][k], c)
      BY <1>14, <2>3, <3>1, SMTT(60) DEF CallsInOnePlace, ChannelsOK
    <3>3. \A k \in DOMAIN queue[f][j] : Apart(queue[f][j][k], c)
      BY <1>14, <2>3, SMTT(60) DEF TypeOK, CallsInOnePlace, QueuesOK
    <3>4. Distinct(Append(chan[f], c))
      BY <1>11, <2>1, <3>1, <3>2, AppendDistinct, Zenon
    <3>5. Separate(queue[f][j], Append(chan[f], c))
      BY <1>11, <2>1, <3>1, <3>3, SeparateAppend, Zenon
    <3> QED  BY <2>1, <3>1, <3>4, <3>5, Zenon
  <2> QED  BY <2>2, <2>3, ZenonT(60), SMTT(60)
<1>21. CallMapOK'
  <2>1. ASSUME NEW f \in Endpoints, NEW x \in CallIds
        PROVE  /\ x >= nextCall'[f] => work'[f][x] = "no"
               /\ x < nextCall'[f] /\ (\A r \in pending'[f] : r.n # x)
                     => work'[f][x] = "finished"
    <3>1. CASE f = p /\ x = n
      <4>1. [n |-> n, thr |-> i] \in pending'[f] /\ ~(x >= nextCall'[f])
        BY <1>1, <1>2, <1>5, <1>6, <3>1, SMTT(60) DEF IsPending
      <4> QED  BY <3>1, <4>1, ZenonT(60), SMTT(60)
    <3>2. CASE ~(f = p /\ x = n)
      BY <1>2, <1>10, <3>2, SMTT(60) DEF CallsInOnePlace, CallMapOK
    <3> QED  BY <3>1, <3>2, ZenonT(60), SMTT(60)
  <2>2. \A f \in Endpoints : /\ \A r, q \in pending'[f] : r.n = q.n => r = q
                             /\ \A r \in pending'[f] : r.n < nextCall'[f]
    BY <1>2, Zenon DEF CallsInOnePlace, CallMapOK
  <2> QED  BY <2>1, <2>2, Zenon DEF CallMapOK
<1> QED  BY <1>15, <1>16, <1>18, <1>19, <1>20, <1>21, Zenon DEF CallsInOnePlace

(* A RET leaves the queue: the call it answers is in the call map, leaves   *)
(* it, and the frame that waits for it is marked.                           *)
LEMMA HandleReturnStep ==
    ASSUME TypeOK, CallsInOnePlace, NEW e \in Endpoints, NEW i \in Ids,
           HandleReturn(e, i)
    PROVE  CallsInOnePlace' /\ UNCHANGED failed
<1> SUFFICES ASSUME NEW m, m = Head(queue[e][i])
             PROVE  CallsInOnePlace' /\ UNCHANGED failed
  BY Zenon
<1> DEFINE n == m.n
<1>1. /\ queue[e][i] # <<>> /\ m.op = "ret"
      /\ queue' = [queue EXCEPT ![e][i] = Tail(@)]
      /\ UNCHANGED <<chan, nextCall, work>>
  BY Zenon DEF HandleReturn, TakesCommands, Drop, Popped
<1>2. /\ CmdOK(e, m) /\ m.thr = i /\ m \in Cmd
      /\ OneCommandPerCall'
      /\ \A f \in Endpoints, j \in Ids : \A k \in DOMAIN queue'[f][j] :
            /\ queue'[f][j][k] \in Cmd
            /\ CmdOK(f, queue'[f][j][k]) /\ queue'[f][j][k].thr = j
            /\ f = e => Apart(m, queue'[f][j][k])
      /\ \A k \in DOMAIN chan[e] : Apart(m, chan[e][k])
  <2>1. /\ queue[e][i] # <<>> /\ Head(queue[e][i]).op # "exit"
        /\ queue' = [queue EXCEPT ![e][i] = Tail(@)] /\ UNCHANGED chan
    BY <1>1, ZenonT(60), SMTT(60)
  <2>2. /\ CmdOK(e, Head(queue[e][i])) /\ Head(queue[e][i]).thr = i
        /\ Head(queue[e][i]) \in Cmd
        /\ OneCommandPerCall'
        /\ \A f \in Endpoints, j \in Ids : \A k \in DOMAIN queue'[f][j] :
              /\ queue'[f][j][k] \in Cmd
              /\ CmdOK(f, queue'[f][j][k]) /\ queue'[f][j][k].thr = j
              /\ f = e => Apart(Head(queue[e][i]), queue'[f][j][k])
        /\ \A k \in DOMAIN chan[e] : Apart(Head(queue[e][i]), chan[e][k])
    BY <2>1, TakeCommand, ZenonT(60)
  <2> QED  BY <2>2, Zenon
<1>3. n \in Nat /\ n < nextCall[e] /\ work[e][n] = "finished" /\ IsPending(e, n, i)
  <2>1. n \in Nat
    BY <1>2, Zenon DEF Cmd
  <2>2. n < nextCall[e] /\ work[e][n] = "finished" /\ IsPending(e, n, m.thr)
    BY <1>1, <1>2, ZenonT(60) DEF CmdOK
  <2> QED  BY <1>2, <2>1, <2>2, ZenonT(60), SMTT(60)
<1>4. /\ pending' = [pending EXCEPT ![e] = {r \in @ : r.n # n}]
      /\ stack' = [stack EXCEPT ![e][i] = Completed(@, n)]
      /\ UNCHANGED failed
  BY <1>3, Zenon DEF HandleReturn, IsPending
<1>5. /\ pending \in [Endpoints -> SUBSET [n : Nat, thr : Ids]]
      /\ stack \in [Endpoints -> [Ids -> Seq(Frame)]]
  BY ZenonT(60), SMTT(60) DEF TypeOK
<1> HIDE DEF n
<1>6. \A f \in Endpoints, x \in Nat, j \in Ids :
         ~(f = e /\ x = n) /\ [n |-> x, thr |-> j] \in pending[f]
            => [n |-> x, thr |-> j] \in pending'[f]
  <2> SUFFICES ASSUME NEW f \in Endpoints, NEW x \in Nat, NEW j \in Ids,
                      ~(f = e /\ x = n), [n |-> x, thr |-> j] \in pending[f]
               PROVE  [n |-> x, thr |-> j] \in pending'[f]
    BY Zenon
  <2>1. CASE f = e
    <3>1. pending'[f] = {r \in pending[f] : r.n # n}
      BY <1>4, <1>5, <2>1, Zenon
    <3> QED  BY <2>1, <3>1, Zenon
  <2>2. CASE f # e
    BY <1>4, <1>5, <2>2, Zenon
  <2> QED  BY <2>1, <2>2, Zenon
<1>7. \A f \in Endpoints : /\ pending'[f] \subseteq pending[f]
                           /\ \A r \in pending[f] : ~(f = e /\ r.n = n) => r \in pending'[f]
  BY <1>4, <1>5, Zenon
<1>8. ASSUME NEW f \in Endpoints, NEW c \in Cmd, CmdOK(f, c), f = e => Apart(m, c)
      PROVE  CmdOK(f, c)'
  <2>1. c.n \in Nat /\ c.thr \in Ids /\ Peer(f) \in Endpoints
    BY PeerType, Zenon DEF Cmd
  <2>2. CASE c.op = "call"
    <3>1. c.n < nextCall[Peer(f)] /\ work[Peer(f)][c.n] = "no" /\ IsPending(Peer(f), c.n, c.thr)
      BY <1>8, <2>2, Zenon DEF CmdOK
    <3>2. [n |-> c.n, thr |-> c.thr] \in pending'[Peer(f)]
      BY <1>3, <1>6, <2>1, <3>1, ZenonT(60), SMTT(60) DEF IsPending
    <3> QED  BY <1>1, <2>2, <3>1, <3>2, ZenonT(60), SMTT(60) DEF CmdOK, IsPending
  <2>3. CASE c.op = "ret"
    <3>1. c.n < nextCall[f] /\ work[f][c.n] = "finished" /\ IsPending(f, c.n, c.thr)
      BY <1>8, <2>3, Zenon DEF CmdOK
    <3>2. ~(f = e /\ c.n = n)
      BY <1>1, <1>8, <2>3, ZenonT(60), SMTT(60) DEF Apart, n
    <3>3. [n |-> c.n, thr |-> c.thr] \in pending'[f]
      BY <1>6, <2>1, <3>1, <3>2, ZenonT(60), SMTT(60) DEF IsPending
    <3> QED  BY <1>1, <2>3, <3>1, <3>3, ZenonT(60), SMTT(60) DEF CmdOK, IsPending
  <2>4. CASE c.op \notin {"call", "ret"}
    BY <2>4, Zenon DEF CmdOK
  <2> QED  BY <2>2, <2>3, <2>4, Zenon
<1>9. ChannelsOK'
  <2>1. ASSUME NEW f \in Endpoints, NEW k \in DOMAIN chan'[f]
        PROVE  CmdOK(f, chan[f][k])'
    <3>1. PICK c \in Cmd : c = chan[f][k] /\ CmdOK(f, c) /\ (f = e => Apart(m, c))
      <4>1. chan' = chan /\ chan[f] \in Seq(Cmd)
        BY <1>1, ZenonT(60), SMTT(60) DEF TypeOK
      <4>2. chan[f][k] \in Cmd /\ k \in DOMAIN chan[f]
        BY <4>1, SMTT(60)
      <4>3. CmdOK(f, chan[f][k]) /\ (f = e => Apart(m, chan[f][k]))
        BY <1>2, <4>2, ZenonT(60), SMTT(60) DEF CallsInOnePlace, ChannelsOK
      <4> QED  BY <4>2, <4>3, ZenonT(60), SMTT(60)
    <3>2. CmdOK(f, c)' /\ chan'[f][k] = c
      BY <1>1, <1>8, <3>1, ZenonT(60), SMTT(60)
    <3> QED  BY <3>2, Zenon DEF CmdOK, IsPending
  <2> QED  BY <2>1, Zenon DEF ChannelsOK
<1>10. QueuesOK'
  <2>1. ASSUME NEW f \in Endpoints, NEW j \in Ids, NEW k \in DOMAIN queue'[f][j]
        PROVE  (CmdOK(f, queue[f][j][k]) /\ queue[f][j][k].thr = j)'
    <3>1. PICK c \in Cmd : /\ c = queue'[f][j][k] /\ c.thr = j
                           /\ CmdOK(f, c) /\ (f = e => Apart(m, c))
      BY <1>2
    <3>2. CmdOK(f, c)'
      BY <1>8, <3>1, Zenon
    <3> QED  BY <3>1, <3>2, Zenon DEF CmdOK, IsPending
  <2> QED  BY <2>1, Zenon DEF QueuesOK
<1>11. ASSUME NEW f \in Endpoints, NEW j \in Ids
       PROVE  /\ DOMAIN stack'[f][j] = DOMAIN stack[f][j]
              /\ \A k \in DOMAIN stack[f][j] :
                    /\ stack[f][j][k] \in Frame
                    /\ stack'[f][j][k].op = stack[f][j][k].op
                    /\ stack'[f][j][k].n = stack[f][j][k].n
                    /\ ~stack'[f][j][k].done =>
                          /\ ~stack[f][j][k].done
                          /\ f = e /\ j = i /\ stack[f][j][k].op = "wait"
                                => stack[f][j][k].n # n
  <2>1. CASE f = e /\ j = i
    <3>1. stack'[f][j] = Completed(stack[f][j], n) /\ stack[f][j] \in Seq(Frame)
      BY <1>4, <1>5, <2>1, ZenonT(60), SMTT(60)
    <3>2. /\ DOMAIN Completed(stack[f][j], n) = DOMAIN stack[f][j]
          /\ \A k \in DOMAIN stack[f][j] :
                /\ Completed(stack[f][j], n)[k].op = stack[f][j][k].op
                /\ Completed(stack[f][j], n)[k].n = stack[f][j][k].n
                /\ ~Completed(stack[f][j], n)[k].done =>
                      ~stack[f][j][k].done
                      /\ ~(stack[f][j][k].op = "wait" /\ stack[f][j][k].n = n)
      BY <1>3, <3>1, CompletedFacts, Zenon
    <3> QED  BY <3>1, <3>2
  <2>2. CASE ~(f = e /\ j = i)
    <3>1. stack'[f][j] = stack[f][j] /\ stack[f][j] \in Seq(Frame)
      BY <1>4, <1>5, <2>2, Zenon
    <3> QED  BY <2>2, <3>1
  <2> QED  BY <2>1, <2>2, ZenonT(60), SMTT(60)
<1>12. FramesOK'
  <2>1. ASSUME NEW f \in Endpoints, NEW j \in Ids, NEW k \in DOMAIN stack'[f][j]
        PROVE  FrameOK(f, j, stack[f][j][k])'
    <3>1. PICK g \in Frame : g = stack[f][j][k] /\ k \in DOMAIN stack[f][j] /\ FrameOK(f, j, g)
      BY <1>11, ZenonT(60), SMTT(60) DEF CallsInOnePlace, FramesOK
    <3>2. PICK h : /\ h = stack'[f][j][k] /\ h.op = g.op /\ h.n = g.n
                   /\ ~h.done => /\ ~g.done
                                 /\ f = e /\ j = i /\ g.op = "wait" => g.n # n
      BY <1>11, <3>1
    <3>3. g.n \in Nat /\ Peer(f) \in Endpoints
      BY PeerType, ZenonT(60), SMTT(60) DEF Frame
    <3>4. CASE g.op = "exec"
      <4>1. g.n < nextCall[Peer(f)] /\ work[Peer(f)][g.n] = "running" /\ IsPending(Peer(f), g.n, j)
        BY <3>1, <3>4, ZenonT(60), SMTT(60) DEF FrameOK
      <4>2. [n |-> g.n, thr |-> j] \in pending'[Peer(f)]
        BY <1>3, <1>6, <3>3, <4>1, ZenonT(60), SMTT(60) DEF IsPending
      <4> QED  BY <1>1, <3>2, <3>4, <4>1, <4>2, ZenonT(60), SMTT(60) DEF FrameOK, IsPending
    <3>5. CASE g.op = "wait"
      <4>1. g.n < nextCall[f] /\ (~g.done => IsPending(f, g.n, j))
        BY <3>1, <3>5, Zenon DEF FrameOK
      <4>2. ASSUME ~h.done
            PROVE  [n |-> g.n, thr |-> j] \in pending'[f]
        <5>1. [n |-> g.n, thr |-> j] \in pending[f]
          BY <3>2, <4>1, <4>2, ZenonT(60), SMTT(60) DEF IsPending
        <5>2. ~(f = e /\ g.n = n)
          <6> SUFFICES ASSUME f = e, g.n = n
                       PROVE  FALSE
            BY ZenonT(60), SMTT(60)
          <6>1. j = i
            BY <1>3, <5>1 DEF IsPending, CallsInOnePlace, CallMapOK
          <6> QED  BY <3>2, <3>5, <4>2, <6>1, Zenon
        <5> QED  BY <1>6, <3>3, <5>1, <5>2, ZenonT(60), SMTT(60)
      <4> QED  BY <1>1, <3>2, <3>5, <4>1, <4>2, ZenonT(60), SMTT(60) DEF FrameOK, IsPending
    <3>6. g.op \in {"exec", "wait"}
      BY ZenonT(60), SMTT(60) DEF Frame
    <3> QED  BY <3>4, <3>5, <3>6, ZenonT(60), SMTT(60)
  <2> QED  BY <2>1, Zenon DEF FramesOK
<1>13. OneHandlerPerCall'
  <2> SUFFICES ASSUME NEW f \in Endpoints, NEW j \in Ids,
                      NEW k \in DOMAIN stack'[f][j], NEW l \in DOMAIN stack'[f][j],
                      stack'[f][j][k].op = "exec", stack'[f][j][l].op = "exec",
                      stack'[f][j][k].n = stack'[f][j][l].n
               PROVE  k = l
    BY Zenon DEF OneHandlerPerCall
  <2>1. /\ k \in DOMAIN stack[f][j] /\ l \in DOMAIN stack[f][j]
        /\ stack[f][j][k].op = "exec" /\ stack[f][j][l].op = "exec"
        /\ stack[f][j][k].n = stack[f][j][l].n
    BY <1>11, ZenonT(60), SMTT(60)
  <2> QED  BY <2>1, ZenonT(60), SMTT(60) DEF CallsInOnePlace, OneHandlerPerCall
<1>14. CallMapOK'
  <2>1. ASSUME NEW f \in Endpoints, NEW x \in CallIds
        PROVE  /\ x >= nextCall'[f] => work'[f][x] = "no"
               /\ x < nextCall'[f] /\ (\A r \in pending'[f] : r.n # x)
                     => work'[f][x] = "finished"
    <3>1. CASE f = e /\ x = n
      <4>1. nextCall[f] \in Nat
        BY DEF TypeOK
      <4> QED  BY <1>1, <1>3, <3>1, <4>1
    <3>2. CASE ~(f = e /\ x = n)
      <4>1. (\A r \in pending'[f] : r.n # x) => (\A r \in pending[f] : r.n # x)
        BY <1>7, <3>2, Zenon
      <4> QED  BY <1>1, <4>1 DEF CallsInOnePlace, CallMapOK
    <3> QED  BY <3>1, <3>2, Zenon
  <2>2. \A f \in Endpoints : /\ \A r, q \in pending'[f] : r.n = q.n => r = q
                             /\ \A r \in pending'[f] : r.n < nextCall'[f]
    BY <1>1, <1>7, ZenonT(60) DEF CallsInOnePlace, CallMapOK
  <2> QED  BY <2>1, <2>2, Zenon DEF CallMapOK
<1> QED  BY <1>2, <1>4, <1>9, <1>10, <1>12, <1>13, <1>14, Zenon DEF CallsInOnePlace

-----------------------------------------------------------------------------
(* Every step keeps every call in one place.                                *)
LEMMA PlaceStep ==
    ASSUME TypeOK, CallsInOnePlace, [Next]_vars
    PROVE  CallsInOnePlace'
<1>1. ASSUME NEW i \in Ids, ThreadStart(i)
      PROVE  CallsInOnePlace'
  BY <1>1, StutterStep, Zenon DEF ThreadStart
<1>2. ASSUME NEW i \in Ids, ThreadExit(i)
      PROVE  CallsInOnePlace'
  BY <1>2, ThreadExitStep, Zenon
<1>3. ASSUME NEW i \in Ids, NEW mode \in Modes, AppCall(i, mode)
      PROVE  CallsInOnePlace'
  <2>1. Home[i] \in Endpoints /\ UNCHANGED queue
    BY <1>3, IdsAssumption, Zenon DEF AppCall
  <2>2. CASE SendCall(Home[i], i, mode)
    BY <2>1, <2>2, SendCallStep, Zenon
  <2>3. CASE UNCHANGED <<stack, chan, callVars>>
    BY <2>1, <2>3, StutterStep, Zenon
  <2> QED  BY <1>3, <2>2, <2>3, Zenon DEF AppCall
<1>4. ASSUME NEW e \in Endpoints, Dispatch(e)
      PROVE  CallsInOnePlace'
  BY <1>4, DispatchStep, Zenon
<1>5. ASSUME NEW e \in Endpoints, NEW i \in Ids, Thread(e, i)
      PROVE  CallsInOnePlace'
  <2>1. CASE CallReturns(e, i)
    BY <2>1, CallReturnsStep, Zenon
  <2>2. CASE HandleExit(e, i) \/ ShadowExit(e, i)
    BY <2>2, ExitSteps, Zenon
  <2>3. CASE HandleCall(e, i)
    BY <2>3, HandleCallStep, Zenon
  <2>4. CASE SendReturn(e, i)
    BY <2>4, SendReturnStep, Zenon
  <2>5. CASE HandleReturn(e, i)
    BY <2>5, HandleReturnStep, Zenon
  <2>6. ASSUME NEW mode \in Modes, HandlerCall(e, i, mode)
        PROVE  CallsInOnePlace'
    <3>1. SendCall(e, i, mode) /\ UNCHANGED queue
      BY <2>6, Zenon DEF HandlerCall
    <3> QED  BY <3>1, SendCallStep, Zenon
  <2> QED  BY <1>5, <2>1, <2>2, <2>3, <2>4, <2>5, <2>6, Zenon DEF Thread
<1>6. CASE UNCHANGED vars
  BY <1>6, StutterStep, Zenon DEF vars, callVars
<1> QED  BY <1>1, <1>2, <1>3, <1>4, <1>5, <1>6, Zenon DEF Next, App, Idle

(* Whatever threads start, exit or share ids, and whatever commands are     *)
(* lost with a freed queue, every call has at most one CALL, one running    *)
(* handler or one RET, in agreement with the call map of its caller.        *)
THEOREM CallsStayInOnePlace == Spec => []CallsInOnePlace
<1>1. Init => TypeOK
  BY Members, IdsAssumption, BoundsAssumption DEF Init, TypeOK, CallIds, Kinds, WorkStates
<1>2. Init => CallsInOnePlace
  <2> SUFFICES ASSUME Init
               PROVE  CallsInOnePlace
    BY Zenon
  <2>1. ChannelsOK /\ QueuesOK /\ FramesOK
    BY DEF Init, ChannelsOK, QueuesOK, FramesOK
  <2>2. CallMapOK
    BY SMTT(60) DEF Init, CallMapOK, CallIds
  <2>3. OneCommandPerCall /\ OneHandlerPerCall
    BY EmptyDistinct DEF Init, OneCommandPerCall, OneHandlerPerCall, Distinct
  <2> QED  BY <2>1, <2>2, <2>3, Zenon DEF CallsInOnePlace
<1>3. TypeOK /\ CallsInOnePlace /\ [Next]_vars => TypeOK' /\ CallsInOnePlace'
  BY TypeStep, PlaceStep, Zenon
<1> QED  BY <1>1, <1>2, <1>3, PTL DEF Spec

(* Nothing happens after an assertion has failed.                           *)
LEMMA OnlyRunning ==
    ASSUME Next
    PROVE  failed = "none" \/ UNCHANGED vars
<1>1. ASSUME NEW i \in Ids, App(i) PROVE failed = "none"
  <2>1. ASSUME NEW mode \in Modes, AppCall(i, mode) PROVE failed = "none"
    BY <2>1, Zenon DEF AppCall, Running
  <2> QED  BY <1>1, <2>1, Zenon DEF App, ThreadStart, ThreadExit, Running
<1>2. ASSUME NEW e \in Endpoints, Dispatch(e) PROVE failed = "none"
  BY <1>2, Zenon DEF Dispatch, Running
<1>3. ASSUME NEW e \in Endpoints, NEW i \in Ids, Thread(e, i) PROVE failed = "none"
  <2>1. CASE HandleExit(e, i) \/ HandleCall(e, i) \/ HandleReturn(e, i)
    <3>1. TakesCommands(e, i)
      BY <2>1, Zenon DEF HandleExit, HandleCall, HandleReturn
    <3> QED  BY <3>1, Zenon DEF TakesCommands, Running
  <2>2. CASE CallReturns(e, i) \/ ShadowExit(e, i) \/ SendReturn(e, i)
    BY <2>2, Zenon DEF CallReturns, ShadowExit, SendReturn, Running
  <2>3. ASSUME NEW mode \in Modes, HandlerCall(e, i, mode) PROVE failed = "none"
    BY <2>3, Zenon DEF HandlerCall, Running
  <2> QED  BY <1>3, <2>1, <2>2, <2>3, Zenon DEF Thread
<1> QED  BY <1>1, <1>2, <1>3, Zenon DEF Next, Idle

(* Only handling a RET can fail for want of its call.                       *)
LEMMA FoundStep ==
    ASSUME TypeOK, CallsInOnePlace, ReturnsFindTheirCall, [Next]_vars
    PROVE  ReturnsFindTheirCall'
<1>1. ASSUME NEW i \in Ids, App(i)
      PROVE  ReturnsFindTheirCall'
  BY <1>1, ZenonT(60) DEF App, ThreadStart, ThreadExit, AppCall, ReturnsFindTheirCall
<1>2. ASSUME NEW e \in Endpoints, Dispatch(e)
      PROVE  ReturnsFindTheirCall'
  BY <1>2, Zenon DEF Dispatch, Coincidence, ReturnsFindTheirCall
<1>3. ASSUME NEW e \in Endpoints, NEW i \in Ids, Thread(e, i)
      PROVE  ReturnsFindTheirCall'
  <2>1. CASE HandleReturn(e, i)
    <3>1. failed' = failed
      BY <2>1, HandleReturnStep, ZenonT(60), SMTT(60)
    <3> QED  BY <3>1, Zenon DEF ReturnsFindTheirCall
  <2>2. CASE ~HandleReturn(e, i)
    BY <1>3, <2>2, Zenon DEF Thread, CallReturns, HandleExit, ShadowExit, HandleCall,
                      SendReturn, HandlerCall, ReturnsFindTheirCall
  <2> QED  BY <2>1, <2>2, Zenon
<1>4. CASE UNCHANGED vars
  BY <1>4, Zenon DEF vars, ReturnsFindTheirCall
<1> QED  BY <1>1, <1>2, <1>3, <1>4, Zenon DEF Next, Idle

(* ava_remove_call never misses: every RET that is handled finds its call   *)
(* in the call map, so no call is completed twice.                          *)
THEOREM EveryReturnFindsItsCall == Spec => []ReturnsFindTheirCall
<1>1. Init => ReturnsFindTheirCall
  BY Zenon DEF Init, ReturnsFindTheirCall
<1>2. TypeOK /\ CallsInOnePlace /\ ReturnsFindTheirCall /\ [Next]_vars
         => ReturnsFindTheirCall'
  BY FoundStep, Zenon
<1> QED  BY <1>1, <1>2, TypeCorrect, CallsStayInOnePlace, PTL DEF Spec

-----------------------------------------------------------------------------
(* The refinement mapping: a call keeps its abstract status while counter,  *)
(* call map and work say the same of it.                                    *)
LEMMA StatusSame ==
    ASSUME NEW f \in Endpoints, NEW x \in CallIds,
           (x >= nextCall'[f]) = (x >= nextCall[f]),
           (\A r \in pending'[f] : r.n # x) <=> (\A r \in pending[f] : r.n # x),
           work'[f][x] = work[f][x]
    PROVE  CallStatus(f, x)' = CallStatus(f, x)
BY Zenon DEF CallStatus

(* A step that changes the status of one call only is a move of it.         *)
LEMMA StatusMove ==
    ASSUME NEW e \in Endpoints, NEW n \in CallIds, NEW from, NEW to,
           CallStatus(e, n) = from, CallStatus(e, n)' = to,
           \A f \in Endpoints, x \in CallIds :
              ~(f = e /\ x = n) => CallStatus(f, x)' = CallStatus(f, x)
    PROVE  Abstract!Move(e, n, from, to)
<1> DEFINE t == [Status EXCEPT ![e][n] = to]
<1>1. Status[e][n] = from
  BY Zenon DEF Status
<1>2. Status' = [f \in Endpoints |-> [x \in CallIds |-> CallStatus(f, x)']]
  BY Zenon DEF Status
<1>3. t = [f \in Endpoints |-> [x \in CallIds |->
              IF f = e /\ x = n THEN to ELSE CallStatus(f, x)]]
  BY ZenonT(60) DEF Status
<1>4. \A f \in Endpoints, x \in CallIds :
         CallStatus(f, x)' = IF f = e /\ x = n THEN to ELSE CallStatus(f, x)
  BY Zenon
<1>5. Status' = t
  BY <1>2, <1>3, <1>4
<1> QED  BY <1>1, <1>5, Zenon DEF Abstract!Move

(* Issuing a call.                                                          *)
LEMMA SendCallRefines ==
    ASSUME TypeOK, CallsInOnePlace, NEW e \in Endpoints, NEW i \in Ids, NEW mode,
           SendCall(e, i, mode)
    PROVE  \E n \in CallIds : Abstract!Issue(e, n)
<1> SUFFICES ASSUME NEW n, n = nextCall[e]
             PROVE  \E x \in CallIds : Abstract!Issue(e, x)
  BY Zenon
<1>1. /\ n < MaxCalls
      /\ nextCall' = [nextCall EXCEPT ![e] = n + 1]
      /\ pending' = [pending EXCEPT ![e] = @ \cup {[n |-> n, thr |-> i]}]
      /\ work' = work
  BY Zenon DEF SendCall
<1>2. nextCall \in [Endpoints -> 0 .. MaxCalls] /\ n \in CallIds
  BY <1>1, BoundsAssumption DEF TypeOK, CallIds
<1>3. pending \in [Endpoints -> SUBSET [n : Nat, thr : Ids]]
  BY Zenon DEF TypeOK
<1>4. nextCall'[e] = n + 1
  BY <1>1, <1>2, Zenon
<1>5. pending'[e] = pending[e] \cup {[n |-> n, thr |-> i]}
  BY <1>1, <1>3, Zenon
<1>6. CallStatus(e, n) = "none"
  BY <1>2 DEF CallStatus, CallIds
<1>7. CallStatus(e, n)' = "issued"
  <2>1. ~(n >= nextCall'[e])
    <3>1. n \in Nat
      BY <1>2 DEF CallIds
    <3> QED  BY <1>4, <3>1
  <2>2. ~(\A r \in pending'[e] : r.n # n)
    <3>1. [n |-> n, thr |-> i] \in pending'[e]
      BY <1>5, ZenonT(60), SMTT(60)
    <3> QED  BY <3>1, ZenonT(60), SMTT(60)
  <2>3. work'[e][n] = "no"
    BY <1>1, <1>2 DEF CallsInOnePlace, CallMapOK, CallIds
  <2> QED  BY <2>1, <2>2, <2>3, Zenon DEF CallStatus
<1>8. ASSUME NEW f \in Endpoints, NEW x \in CallIds, ~(f = e /\ x = n)
      PROVE  CallStatus(f, x)' = CallStatus(f, x)
  <2>1. CASE f # e
    <3>1. nextCall'[f] = nextCall[f] /\ pending'[f] = pending[f]
      BY <1>1, <1>2, <1>3, <2>1, ZenonT(60), SMTT(60)
    <3> QED  BY <1>1, <3>1, StatusSame, ZenonT(60), SMTT(60)
  <2>2. CASE f = e
    <3>1. (x >= nextCall'[f]) = (x >= nextCall[f])
      BY <1>2, <1>4, <1>8, <2>2, SMTT(60) DEF CallIds
    <3>2. (\A r \in pending'[f] : r.n # x) <=> (\A r \in pending[f] : r.n # x)
      BY <1>5, <1>8, <2>2
    <3> QED  BY <1>1, <3>1, <3>2, StatusSame, ZenonT(60), SMTT(60)
  <2> QED  BY <2>1, <2>2, ZenonT(60), SMTT(60)
<1>9. Abstract!Move(e, n, "none", "issued")
  BY <1>2, <1>6, <1>7, <1>8, StatusMove, ZenonT(60), SMTT(60)
<1> QED  BY <1>2, <1>9, Zenon DEF Abstract!Issue

(* Only the work of one pending call changes.                               *)
LEMMA WorkRefines ==
    ASSUME TypeOK, NEW p \in Endpoints, NEW i \in Ids, NEW n \in CallIds, NEW to,
           n < nextCall[p], IsPending(p, n, i), work[p][n] \in {"no", "running"},
           to \in {"running", "finished"}, work' = [work EXCEPT ![p][n] = to],
           UNCHANGED <<pending, nextCall>>
    PROVE  Abstract!Move(p, n, IF work[p][n] = "no" THEN "issued" ELSE "running", to)
<1>1. work \in [Endpoints -> [CallIds -> WorkStates]]
  BY Zenon DEF TypeOK
<1>2. work'[p][n] = to
  BY <1>1, Zenon
<1>3. n \in Nat /\ nextCall[p] \in Nat
  BY DEF TypeOK, CallIds
<1>4. ~(n >= nextCall[p]) /\ ~(\A r \in pending[p] : r.n # n)
  BY <1>3 DEF IsPending
<1>5. CallStatus(p, n) = IF work[p][n] = "no" THEN "issued" ELSE "running"
  BY <1>4, Zenon DEF CallStatus
<1>6. CallStatus(p, n)' = to
  BY <1>2, <1>4, Zenon DEF CallStatus
<1>7. ASSUME NEW f \in Endpoints, NEW x \in CallIds, ~(f = p /\ x = n)
      PROVE  CallStatus(f, x)' = CallStatus(f, x)
  <2>1. work'[f][x] = work[f][x]
    BY <1>1, <1>7, Zenon
  <2> QED  BY <2>1, StatusSame, Zenon
<1> QED  BY <1>5, <1>6, <1>7, StatusMove, Zenon

(* Taking up a CALL starts the call, replying finishes it.                  *)
LEMMA HandlerRefines ==
    ASSUME TypeOK, CallsInOnePlace, NEW e \in Endpoints, NEW i \in Ids,
           HandleCall(e, i) \/ SendReturn(e, i)
    PROVE  \E p \in Endpoints, n \in CallIds : Abstract!Start(p, n) \/ Abstract!Finish(p, n)
<1> DEFINE p == Peer(e)
<1>1. p \in Endpoints /\ nextCall[p] \in 0 .. MaxCalls
  BY PeerType, Zenon DEF TypeOK
<1>2. CASE HandleCall(e, i)
  <2> DEFINE m == Head(queue[e][i])
  <2>1. /\ queue[e][i] # <<>> /\ m.op = "call"
        /\ work' = [work EXCEPT ![p][m.n] = "running"]
        /\ UNCHANGED <<pending, nextCall>>
    BY <1>2, ZenonT(60), SMTT(60) DEF HandleCall, TakesCommands
  <2>2. m \in Cmd /\ CmdOK(e, m) /\ m.thr = i
    <3>1. queue[e][i] \in Seq(Cmd)
      BY ZenonT(60), SMTT(60) DEF TypeOK
    <3> QED  BY <2>1, <3>1, TailFacts DEF CallsInOnePlace, QueuesOK
  <2>3. m.n < nextCall[p] /\ work[p][m.n] = "no" /\ IsPending(p, m.n, i)
    BY <2>1, <2>2, ZenonT(60), SMTT(60) DEF CmdOK
  <2>4. m.n \in CallIds
    <3>1. m.n \in Nat
      BY <2>2, Zenon DEF Cmd
    <3> QED  BY <1>1, <2>3, <3>1, BoundsAssumption DEF CallIds
  <2> HIDE DEF m, p
  <2>5. Abstract!Move(p, m.n, "issued", "running")
    BY <1>1, <2>1, <2>3, <2>4, WorkRefines, ZenonT(60)
  <2> QED  BY <1>1, <2>4, <2>5, ZenonT(60), SMTT(60) DEF Abstract!Start
<1>3. CASE SendReturn(e, i)
  <2> DEFINE f == Top(stack[e][i])
  <2>1. /\ stack[e][i] # <<>> /\ f.op = "exec"
        /\ work' = [work EXCEPT ![p][f.n] = "finished"]
        /\ UNCHANGED <<pending, nextCall>>
    BY <1>3, ZenonT(60), SMTT(60) DEF SendReturn, TopIs, WorkDone
  <2>2. f \in Frame /\ FrameOK(e, i, f)
    <3>1. stack[e][i] \in Seq(Frame)
      BY ZenonT(60), SMTT(60) DEF TypeOK
    <3> QED  BY <2>1, <3>1, PopFacts DEF CallsInOnePlace, FramesOK, Top
  <2>3. f.n < nextCall[p] /\ work[p][f.n] = "running" /\ IsPending(p, f.n, i)
    BY <2>1, <2>2, ZenonT(60), SMTT(60) DEF FrameOK
  <2>4. f.n \in CallIds
    <3>1. f.n \in Nat
      BY <2>2, Zenon DEF Frame
    <3> QED  BY <1>1, <2>3, <3>1, BoundsAssumption DEF CallIds
  <2> HIDE DEF f, p
  <2>5. Abstract!Move(p, f.n, "running", "finished")
    BY <1>1, <2>1, <2>3, <2>4, WorkRefines, Zenon
  <2> QED  BY <1>1, <2>4, <2>5, ZenonT(60), SMTT(60) DEF Abstract!Finish
<1> QED  BY <1>2, <1>3, Zenon

(* Handling a RET completes the call.                                       *)
LEMMA HandleReturnRefines ==
    ASSUME TypeOK, CallsInOnePlace, NEW e \in Endpoints, NEW i \in Ids,
           HandleReturn(e, i)
    PROVE  \E n \in CallIds : Abstract!Complete(e, n)
<1> SUFFICES ASSUME NEW n, n = Head(queue[e][i]).n
             PROVE  \E x \in CallIds : Abstract!Complete(e, x)
  BY ZenonT(60), SMTT(60)
<1> DEFINE m == Head(queue[e][i])
<1>1. queue[e][i] # <<>> /\ m.op = "ret" /\ UNCHANGED <<work, nextCall>>
  BY Zenon DEF HandleReturn, TakesCommands
<1>2. m \in Cmd /\ CmdOK(e, m) /\ m.thr = i
  <2>1. queue[e][i] \in Seq(Cmd)
    BY ZenonT(60), SMTT(60) DEF TypeOK
  <2> QED  BY <1>1, <2>1, TailFacts DEF CallsInOnePlace, QueuesOK
<1>3. n < nextCall[e] /\ work[e][n] = "finished" /\ IsPending(e, n, i)
  BY <1>1, <1>2, ZenonT(60), SMTT(60) DEF CmdOK
<1>4. n \in Nat /\ nextCall[e] \in 0 .. MaxCalls
  BY <1>2, ZenonT(60), SMTT(60) DEF Cmd, TypeOK
<1>5. n \in CallIds
  BY <1>3, <1>4, BoundsAssumption, SMTT(60) DEF CallIds
<1>6. pending' = [pending EXCEPT ![e] = {r \in @ : r.n # n}]
  BY <1>3, Zenon DEF HandleReturn, IsPending
<1>7. pending \in [Endpoints -> SUBSET [n : Nat, thr : Ids]]
  BY Zenon DEF TypeOK
<1> HIDE DEF m
<1>8. pending'[e] = {r \in pending[e] : r.n # n}
  BY <1>6, <1>7, ZenonT(60), SMTT(60)
<1>9. ~(n >= nextCall[e]) /\ ~(\A r \in pending[e] : r.n # n)
  BY <1>3, <1>4, SMTT(60) DEF IsPending
<1>10. CallStatus(e, n) = "finished"
  BY <1>3, <1>9, ZenonT(60), SMTT(60) DEF CallStatus
<1>11. CallStatus(e, n)' = "done"
  BY <1>1, <1>8, <1>9, ZenonT(60), SMTT(60) DEF CallStatus
<1>12. ASSUME NEW f \in Endpoints, NEW x \in CallIds, ~(f = e /\ x = n)
       PROVE  CallStatus(f, x)' = CallStatus(f, x)
  <2>1. (\A r \in pending'[f] : r.n # x) <=> (\A r \in pending[f] : r.n # x)
    <3>1. CASE f # e
      BY <1>6, <1>7, <3>1, ZenonT(60), SMTT(60)
    <3>2. CASE f = e
      BY <1>8, <1>12, <3>2, ZenonT(60), SMTT(60)
    <3> QED  BY <3>1, <3>2, Zenon
  <2> QED  BY <1>1, <2>1, StatusSame, Zenon
<1>13. Abstract!Move(e, n, "finished", "done")
  BY <1>5, <1>10, <1>11, <1>12, StatusMove, ZenonT(60), SMTT(60)
<1> QED  BY <1>5, <1>13, Zenon DEF Abstract!Complete

(* Steps that leave call map, counter and work alone leave every status.    *)
LEMMA CallsUnchanged ==
    ASSUME UNCHANGED callVars
    PROVE  Status' = Status
BY Zenon DEF Status, CallStatus, callVars

(* Every step of the protocol is a step of AbstractCalls, or none.          *)
LEMMA RefinesStep ==
    ASSUME TypeOK, CallsInOnePlace, [Next]_vars
    PROVE  [Abstract!Next]_Status
<1>1. ASSUME NEW i \in Ids, App(i)
      PROVE  [Abstract!Next]_Status
  <2>1. CASE UNCHANGED callVars
    BY <2>1, CallsUnchanged, Zenon
  <2>2. ASSUME NEW mode \in Modes, SendCall(Home[i], i, mode)
        PROVE  Abstract!Next
    <3>1. Home[i] \in Endpoints
      BY IdsAssumption, Zenon
    <3>2. \E n \in CallIds : Abstract!Issue(Home[i], n)
      BY <2>2, <3>1, SendCallRefines, ZenonT(60), SMTT(60)
    <3> QED  BY <3>1, <3>2, Zenon DEF Abstract!Next, CallIds, Abstract!CallIds
  <2> QED  BY <1>1, <2>1, <2>2, Zenon DEF App, ThreadStart, ThreadExit, AppCall
<1>2. ASSUME NEW e \in Endpoints, Dispatch(e)
      PROVE  [Abstract!Next]_Status
  BY <1>2, CallsUnchanged, Zenon DEF Dispatch
<1>3. ASSUME NEW e \in Endpoints, NEW i \in Ids, Thread(e, i)
      PROVE  [Abstract!Next]_Status
  <2>1. CASE CallReturns(e, i) \/ HandleExit(e, i) \/ ShadowExit(e, i)
    <3>1. UNCHANGED callVars
      BY <2>1, Zenon DEF CallReturns, HandleExit, ShadowExit
    <3> QED  BY <3>1, CallsUnchanged, Zenon
  <2>2. CASE HandleCall(e, i) \/ SendReturn(e, i)
    <3>1. \E p \in Endpoints, n \in CallIds : Abstract!Start(p, n) \/ Abstract!Finish(p, n)
      BY <2>2, HandlerRefines, Zenon
    <3> QED  BY <3>1, Zenon DEF Abstract!Next, CallIds, Abstract!CallIds
  <2>3. CASE HandleReturn(e, i)
    <3>1. \E n \in CallIds : Abstract!Complete(e, n)
      BY <2>3, HandleReturnRefines, Zenon
    <3> QED  BY <3>1, Zenon DEF Abstract!Next, CallIds, Abstract!CallIds
  <2>4. ASSUME NEW mode \in Modes, HandlerCall(e, i, mode)
        PROVE  [Abstract!Next]_Status
    <3>1. SendCall(e, i, mode)
      BY <2>4, Zenon DEF HandlerCall
    <3>2. \E n \in CallIds : Abstract!Issue(e, n)
      BY <3>1, SendCallRefines, Zenon
    <3> QED  BY <3>2, Zenon DEF Abstract!Next, CallIds, Abstract!CallIds
  <2> QED  BY <1>3, <2>1, <2>2, <2>3, <2>4, Zenon DEF Thread
<1>4. CASE UNCHANGED vars
  BY <1>4, CallsUnchanged, Zenon DEF vars, callVars
<1> QED  BY <1>1, <1>2, <1>3, <1>4, ZenonT(60), SMTT(60) DEF Next, Idle

(* The protocol implements AbstractCalls: a call that is issued is started  *)
(* at most once and completes at its caller only after its remote work has  *)
(* finished, for any number of threads and calls and any nesting.           *)
THEOREM Refinement == Spec => ImplementsAbstractCalls
<1>1. Init => Abstract!Init
  <2> SUFFICES ASSUME Init
               PROVE  Abstract!Init
    BY Zenon
  <2>1. \A e \in Endpoints, n \in CallIds : CallStatus(e, n) = "none"
    BY DEF Init, CallStatus, CallIds
  <2> QED  BY <2>1, Zenon DEF Abstract!Init, Status, CallIds, Abstract!CallIds
<1>2. TypeOK /\ CallsInOnePlace /\ [Next]_vars => [Abstract!Next]_Status
  BY RefinesStep, Zenon
<1> QED  BY <1>1, <1>2, TypeCorrect, CallsStayInOnePlace, PTL
         DEF Spec, ImplementsAbstractCalls, Abstract!Spec
=============================================================================
