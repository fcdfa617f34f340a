--------------------------- MODULE BatchingProofs ---------------------------
(***************************************************************************)
(* Proofs about Batching, for every number of threads, calls, size of a     *)
(* batch and time-out: commands reach the API server whole and in order,    *)
(* and a synchronous call is a barrier for the commands before it.          *)
(***************************************************************************)
EXTENDS Batching, SequenceTheorems, TLAPS

Cmd == [thr : Threads, n : Nat, async : BOOLEAN]
Cmds == Seq(Cmd)

(* Concatenation, under a name of its own for the provers.                  *)
Cat(x, y) == x \o y

TypeOK ==
    /\ inserted \in Cmds /\ pending \in Cmds /\ wrap \in Cmds
    /\ active \in Cmds /\ queue \in Cmds /\ executed \in Cmds
    /\ rets \in SUBSET Cmd
    /\ waiting \in [Threads -> Nat]
    /\ pc \in {"pop", "process", "ended"}
    /\ pc = "pop" => wrap = <<>>

(* What the API server has got.                                             *)
Sent == Cat(executed, queue)

Whole == pc # "ended" => Cat(Cat(Cat(Sent, active), wrap), pending) = inserted

(* It is a prefix of what was inserted, also when fini has thrown away the  *)
(* batch.                                                                   *)
SentInOrder ==
    \A i \in 1 .. Len(Sent) : i \in 1 .. Len(inserted) /\ Sent[i] = inserted[i]

Numbered == \A i \in 1 .. Len(inserted) : inserted[i].n = i

RetsExecuted == \A c \in rets : \E i \in 1 .. Len(executed) : executed[i] = c

(* A synchronous command whose caller does not wait for it was executed.    *)
ReturnedExecuted ==
    \A i \in 1 .. Len(inserted) :
        ~inserted[i].async /\ waiting[inserted[i].thr] # inserted[i].n => i <= Len(executed)

IInv ==
    /\ TypeOK /\ Whole /\ SentInOrder
    /\ Numbered /\ RetsExecuted /\ ReturnedExecuted

-----------------------------------------------------------------------------
(* A sequence is its head and its tail.                                     *)
LEMMA HeadFirst ==
    ASSUME NEW S, NEW s \in Seq(S), s # <<>>
    PROVE  /\ Head(s) \in S /\ Tail(s) \in Seq(S) /\ <<Head(s)>> \in Seq(S)
           /\ <<Head(s)>> \o Tail(s) = s
<1>1. Head(s) \in S /\ Tail(s) \in Seq(S) /\ Len(Tail(s)) = Len(s) - 1 /\ Len(s) \in Nat \ {0}
      /\ \A i \in 1 .. Len(Tail(s)) : Tail(s)[i] = s[i + 1]
  BY HeadTailProperties, EmptySeq
<1>2. <<Head(s)>> \in Seq(S) /\ Len(<<Head(s)>>) = 1 /\ <<Head(s)>>[1] = s[1]
  BY <1>1
<1> DEFINE h == <<Head(s)>>
           r == Tail(s)
<1> HIDE DEF h, r
<1>3. /\ h \o r \in Seq(S) /\ Len(h \o r) = Len(h) + Len(r)
      /\ \A i \in 1 .. Len(h) + Len(r) : (h \o r)[i] = IF i <= Len(h) THEN h[i] ELSE r[i - Len(h)]
  BY <1>1, <1>2, ConcatProperties DEF h, r
<1>4. Len(h \o r) = Len(s)
  BY <1>1, <1>2, <1>3 DEF h, r
<1>5. ASSUME NEW i \in 1 .. Len(h \o r)
      PROVE  (h \o r)[i] = s[i]
  <2>1. CASE i = 1
    BY <2>1, <1>1, <1>2, <1>3, <1>4 DEF h, r
  <2>2. CASE i # 1
    <3>1. i - 1 \in 1 .. Len(r) /\ i \in 1 .. Len(h) + Len(r) /\ Len(h) = 1 /\ ~(i <= 1)
      BY <2>2, <1>1, <1>2, <1>4 DEF h, r
    <3>2. (h \o r)[i] = r[i - 1] /\ r[i - 1] = s[(i - 1) + 1]
      BY <3>1, <1>1, <1>3 DEF r
    <3> QED  BY <3>2, <3>1, <1>4
  <2> QED  BY <2>1, <2>2
<1>6. h \o r = s
  BY <1>3, <1>4, <1>5, SeqEqual, Zenon
<1> QED  BY <1>1, <1>2, <1>6 DEF h, r

(* What the proofs need to know of concatenation.                           *)
LEMMA CatClosed == \A x, y \in Cmds : Cat(x, y) \in Cmds
BY ConcatProperties DEF Cmds, Cat

(* Grouping does not matter.                                                *)
LEMMA CatAssociative ==
    \A x, y, z \in Cmds : Cat(Cat(x, y), z) = Cat(x, Cat(y, z))
<1> SUFFICES ASSUME NEW x \in Seq(Cmd), NEW y \in Seq(Cmd), NEW z \in Seq(Cmd)
             PROVE  (x \o y) \o z = x \o (y \o z)
  BY SMTT(60) DEF Cmds, Cat
<1> QED  BY ConcatAssociative, SMTT(60)

(* The empty sequence adds nothing.                                         *)
LEMMA CatEmpty == <<>> \in Cmds /\ \A x \in Cmds : Cat(x, <<>>) = x /\ Cat(<<>>, x) = x
BY ConcatEmptySeq, EmptySeq DEF Cmds, Cat

(* A sequence that is not empty is its head and its tail.                   *)
LEMMA CatHead ==
    \A x \in Cmds : x # <<>> => /\ Head(x) \in Cmd /\ Tail(x) \in Cmds
                               /\ <<Head(x)>> \in Cmds /\ Cat(<<Head(x)>>, Tail(x)) = x
BY HeadFirst, Zenon DEF Cmds, Cat

(* Append is concatenation with one command.                                *)
LEMMA CatAppend ==
    \A x \in Cmds, c \in Cmd : /\ Append(x, c) = Cat(x, <<c>>) /\ Append(x, c) \in Cmds
                               /\ <<c>> \in Cmds
BY AppendIsConcat, AppendProperties DEF Cmds, Cat

(* An initial part of a sequence agrees with it.                            *)
LEMMA InitialPart ==
    \A x, y \in Cmds : \A i \in 1 .. Len(x) : i \in 1 .. Len(Cat(x, y)) /\ x[i] = Cat(x, y)[i]
<1> SUFFICES ASSUME NEW x \in Seq(Cmd), NEW y \in Seq(Cmd)
             PROVE  \A i \in 1 .. Len(x) : i \in 1 .. Len(x \o y) /\ x[i] = (x \o y)[i]
  BY DEF Cmds, Cat
<1>1. Len(x) \in Nat /\ Len(y) \in Nat
  BY LenProperties
<1> QED  BY <1>1, ConcatProperties

-----------------------------------------------------------------------------
(* The invariant holds initially.                                           *)
LEMMA InvInit == Init => IInv
<1> SUFFICES ASSUME Init PROVE IInv
  OBVIOUS
<1>1. /\ inserted = <<>> /\ pending = <<>> /\ wrap = <<>> /\ active = <<>> /\ queue = <<>>
      /\ executed = <<>> /\ rets = {} /\ waiting = [t \in Threads |-> 0] /\ pc = "pop"
  BY DEF Init
<1>2. <<>> \in Cmds /\ Cat(<<>>, <<>>) = <<>>
  BY CatEmpty
<1>3. TypeOK
  BY <1>1, <1>2 DEF TypeOK
<1>4. Sent = <<>>
  BY <1>1, <1>2 DEF Sent
<1>5. Whole
  BY <1>1, <1>2, <1>4 DEF Whole
<1>6. SentInOrder
  BY <1>4 DEF SentInOrder
<1>7. Numbered /\ RetsExecuted /\ ReturnedExecuted
  BY <1>1 DEF Numbered, RetsExecuted, ReturnedExecuted
<1> QED  BY <1>3, <1>5, <1>6, <1>7 DEF IInv

(* A step that changes neither the commands inserted or executed, nor the   *)
(* answers and who waits, keeps what is said of these.                      *)
LEMMA BatchStep ==
    ASSUME IInv, UNCHANGED <<inserted, executed, rets, waiting>>,
           TypeOK', Whole', SentInOrder'
    PROVE  IInv'
BY DEF IInv, Numbered, RetsExecuted, ReturnedExecuted

(* A stub inserts a command.                                                *)
LEMMA InsertStep ==
    ASSUME IInv, NEW t \in Threads, NEW async \in BOOLEAN, InsertCommand(t, async)
    PROVE  IInv'
<1> DEFINE c == [thr |-> t, n |-> Len(inserted) + 1, async |-> async]
<1>1. /\ waiting[t] = 0 /\ pc # "ended"
      /\ inserted' = Append(inserted, c) /\ pending' = Append(pending, c)
      /\ waiting' = Waits(waiting, c)
      /\ UNCHANGED <<wrap, active, queue, executed, rets, pc>>
  BY DEF InsertCommand
<1>2. /\ TypeOK /\ Whole /\ SentInOrder /\ Numbered /\ RetsExecuted /\ ReturnedExecuted
      /\ inserted \in Cmds /\ pending \in Cmds
  BY DEF IInv, TypeOK
<1>3. Len(inserted) \in Nat
  BY <1>2, LenProperties DEF Cmds
<1>4. c \in Cmd /\ c.thr = t /\ c.n = Len(inserted) + 1 /\ c.async = async
  BY <1>3 DEF Cmd
<1> HIDE DEF c
<1>5. /\ inserted' \in Cmds /\ pending' \in Cmds
      /\ inserted' = Cat(inserted, <<c>>) /\ pending' = Cat(pending, <<c>>) /\ <<c>> \in Cmds
  BY <1>1, <1>2, <1>4, CatAppend, Zenon
<1>6. /\ Len(inserted') = Len(inserted) + 1
      /\ \A i \in 1 .. Len(inserted) : inserted'[i] = inserted[i]
      /\ inserted'[Len(inserted) + 1] = c
  BY <1>1, <1>2, <1>4, AppendProperties DEF Cmds
<1>7. /\ waiting' \in [Threads -> Nat]
      /\ \A u \in Threads : u # t => waiting'[u] = waiting[u]
      /\ ~async => waiting'[t] = c.n
  BY <1>1, <1>2, <1>3, <1>4 DEF Waits, TypeOK
<1>8. TypeOK'
  BY <1>1, <1>2, <1>5, <1>7 DEF TypeOK
<1>9. Whole'
  <2> DEFINE x == Cat(Cat(Sent, active), wrap)
  <2>1. x \in Cmds
    BY <1>2, CatClosed DEF TypeOK, Sent
  <2>2. x' = x /\ pc' # "ended"
    BY <1>1 DEF Sent, Cat
  <2>3. Cat(x, pending) = inserted
    BY <1>1, <1>2 DEF Whole
  <2> HIDE DEF x
  <2>4. Cat(Cat(x, pending), <<c>>) = Cat(x, Cat(pending, <<c>>))
    BY <1>2, <1>5, <2>1, CatAssociative
  <2>5. Cat(x, pending') = inserted'
    BY <1>5, <2>3, <2>4
  <2> QED  BY <2>2, <2>5 DEF Whole, x
<1>10. SentInOrder'
  <2>1. Sent' = Sent
    BY <1>1 DEF Sent, Cat
  <2> QED  BY <2>1, <1>2, <1>3, <1>6 DEF SentInOrder
<1>11. Numbered'
  BY <1>2, <1>3, <1>4, <1>6 DEF Numbered
<1>12. RetsExecuted'
  BY <1>1, <1>2 DEF RetsExecuted
<1>13. ReturnedExecuted'
  <2> SUFFICES ASSUME NEW i \in 1 .. Len(inserted'), ~inserted'[i].async,
                      waiting'[inserted'[i].thr] # inserted'[i].n
               PROVE  i <= Len(executed)
    BY <1>1 DEF ReturnedExecuted
  <2>1. i # Len(inserted) + 1
    BY <1>4, <1>6, <1>7
  <2>2. i \in 1 .. Len(inserted) /\ inserted'[i] = inserted[i]
    BY <2>1, <1>3, <1>6
  <2>3. inserted[i] \in Cmd
    BY <2>2, <1>2, ElementOfSeq DEF Cmds
  <2>4. inserted[i].thr \in Threads /\ inserted[i].n = i /\ i # 0
    BY <2>2, <2>3, <1>2 DEF Cmd, Numbered
  <2>5. waiting[inserted[i].thr] # inserted[i].n
    BY <2>2, <2>4, <1>1, <1>7
  <2> QED  BY <2>2, <2>5, <1>2 DEF ReturnedExecuted
<1> QED  BY <1>8, <1>9, <1>10, <1>11, <1>12, <1>13 DEF IInv
(* The batch thread pops a command.                                         *)
LEMMA PopStep ==
    ASSUME IInv, Pop
    PROVE  IInv'
<1>1. /\ pc = "pop" /\ pending # <<>> /\ wrap' = <<Head(pending)>> /\ pending' = Tail(pending)
      /\ pc' = "process" /\ UNCHANGED <<inserted, active, queue, executed, rets, waiting>>
  BY DEF Pop
<1>2. TypeOK /\ Whole /\ SentInOrder /\ pending \in Cmds /\ wrap = <<>>
  BY <1>1 DEF IInv, TypeOK
<1>3. wrap' \in Cmds /\ pending' \in Cmds /\ Cat(wrap', pending') = pending
  BY <1>1, <1>2, CatHead
<1>4. TypeOK'
  BY <1>1, <1>2, <1>3 DEF TypeOK
<1>5. Sent' = Sent
  BY <1>1 DEF Sent, Cat
<1>6. Whole'
  <2> DEFINE x == Cat(Sent, active)
  <2>1. x \in Cmds
    BY <1>2, CatClosed DEF TypeOK, Sent
  <2>2. Cat(Cat(x, wrap), pending) = inserted
    BY <1>1, <1>2 DEF Whole
  <2> HIDE DEF x
  <2>3. Cat(x, wrap) = x
    BY <1>2, <2>1, CatEmpty
  <2>4. Cat(Cat(x, wrap'), pending') = Cat(x, pending)
    BY <1>3, <2>1, CatAssociative
  <2>5. Cat(Cat(x, wrap'), pending') = inserted'
    BY <1>1, <2>2, <2>3, <2>4
  <2>6. Cat(Sent', active') = x
    BY <1>1, <1>5 DEF x
  <2> QED  BY <2>5, <2>6 DEF Whole
<1>7. SentInOrder'
  BY <1>1, <1>2, <1>5 DEF SentInOrder
<1> QED  BY <1>1, <1>4, <1>6, <1>7, BatchStep

(* The wait of the batch thread times out.                                  *)
LEMMA TimeOutStep ==
    ASSUME IInv, PopTimeOut
    PROVE  IInv'
<1>1. /\ pc = "pop" /\ pc' = "process"
      /\ UNCHANGED <<inserted, pending, wrap, active, queue, executed, rets, waiting>>
  BY DEF PopTimeOut
<1>2. TypeOK /\ Whole /\ SentInOrder
  BY DEF IInv
<1>3. TypeOK'
  BY <1>1, <1>2 DEF TypeOK
<1>4. Sent' = Sent
  BY <1>1 DEF Sent, Cat
<1>5. Whole'
  BY <1>1, <1>2, <1>4 DEF Whole, Cat
<1>6. SentInOrder'
  BY <1>1, <1>2, <1>4 DEF SentInOrder
<1> QED  BY <1>1, <1>3, <1>5, <1>6, BatchStep

(* Commands s go from the batch to the API server, and a stays in it.       *)
LEMMA EmitStep ==
    ASSUME IInv, pc = "process", NEW s \in Cmds, NEW a \in Cmds,
           Cat(s, a) = Cat(active, wrap), queue' = Cat(queue, s), active' = a,
           wrap' = <<>>, pc' = "pop",
           UNCHANGED <<inserted, pending, executed, rets, waiting>>
    PROVE  IInv'
<1>1. /\ TypeOK /\ Whole /\ SentInOrder
      /\ executed \in Cmds /\ queue \in Cmds /\ active \in Cmds /\ wrap \in Cmds /\ pending \in Cmds
  BY DEF IInv, TypeOK
<1>2. queue' \in Cmds /\ <<>> \in Cmds
  BY <1>1, CatClosed, CatEmpty
<1>3. TypeOK'
  BY <1>1, <1>2 DEF TypeOK
<1>4. Sent \in Cmds /\ Sent' \in Cmds /\ Sent' = Cat(Sent, s)
  <2>1. Cat(executed, Cat(queue, s)) = Cat(Cat(executed, queue), s)
    BY <1>1, CatAssociative
  <2>2. Sent = Cat(executed, queue) /\ Sent' = Cat(executed, Cat(queue, s))
    BY DEF Sent
  <2> QED  BY <1>1, <2>1, <2>2, CatClosed
<1>5. Cat(Cat(Cat(Sent', a), <<>>), pending) = inserted
  <2>1. Cat(Cat(Cat(Sent, active), wrap), pending) = inserted
    BY <1>1 DEF Whole
  <2>2. Cat(Cat(Sent, active), wrap) = Cat(Sent, Cat(s, a))
    BY <1>1, <1>4, CatAssociative
  <2>3. Cat(Sent', a) = Cat(Sent, Cat(s, a)) /\ Cat(Sent', a) \in Cmds
    BY <1>4, CatAssociative, CatClosed
  <2>4. Cat(Cat(Sent', a), <<>>) = Cat(Sent', a)
    BY <2>3, CatEmpty
  <2> QED  BY <2>1, <2>2, <2>3, <2>4
<1>6. Whole'
  BY <1>5 DEF Whole
<1>7. SentInOrder'
  <2>1. PICK x \in Cmds : x = Sent'
    BY <1>4
  <2>2. Cat(a, pending) \in Cmds /\ Cat(Cat(x, a), pending) = Cat(x, Cat(a, pending))
    BY <1>1, <2>1, CatClosed, CatAssociative
  <2>3. Cat(x, a) \in Cmds
    BY CatClosed
  <2>4. Cat(Cat(x, a), <<>>) = Cat(x, a)
    BY <2>3, CatEmpty
  <2>5. Cat(x, Cat(a, pending)) = inserted
    BY <1>5, <2>1, <2>2, <2>4
  <2>6. \A i \in 1 .. Len(x) : i \in 1 .. Len(inserted) /\ x[i] = inserted[i]
    BY <2>2, <2>5, InitialPart
  <2> QED  BY <2>1, <2>6 DEF SentInOrder
<1> QED  BY <1>3, <1>6, <1>7, BatchStep

(* A synchronous command that finds no batch is sent alone.                 *)
LEMMA EmitSingleStep ==
    ASSUME IInv, EmitSingle
    PROVE  IInv'
<1>1. /\ pc = "process" /\ active = <<>> /\ queue' = Cat(queue, wrap) /\ wrap' = <<>> /\ pc' = "pop"
      /\ UNCHANGED <<inserted, pending, active, executed, rets, waiting>>
  BY DEF EmitSingle, SentAlone, Cat
<1>2. wrap \in Cmds /\ <<>> \in Cmds
  BY CatEmpty DEF IInv, TypeOK
<1>3. Cat(wrap, <<>>) = Cat(active, wrap)
  BY <1>1, <1>2, CatEmpty
<1> QED  BY <1>1, <1>2, <1>3, EmitStep

(* The batch thread sends its batch or keeps collecting.                    *)
LEMMA ProcessStep ==
    ASSUME IInv, Process
    PROVE  IInv'
<1> DEFINE a == Cat(active, wrap)
<1>1. /\ pc = "process" /\ wrap' = <<>> /\ pc' = "pop"
      /\ UNCHANGED <<inserted, pending, executed, rets, waiting>>
      /\ \/ queue' = Cat(queue, a) /\ active' = <<>>
         \/ queue' = queue /\ active' = a
  BY SMTT(60) DEF Process, Emitted, Cat
<1>2. a \in Cmds /\ <<>> \in Cmds /\ queue \in Cmds
  BY CatEmpty, CatClosed DEF IInv, TypeOK
<1>3. Cat(a, <<>>) = a /\ Cat(<<>>, a) = a /\ Cat(queue, <<>>) = queue
  BY <1>2, CatEmpty
<1> QED  BY <1>1, <1>2, <1>3, EmitStep

(* The shadow executes a command: what it got stays the same.               *)
LEMMA ExecuteStep ==
    ASSUME IInv, ExecuteCommand
    PROVE  IInv'
<1> DEFINE h == Head(queue)
<1>1. /\ queue # <<>> /\ executed' = Append(executed, h) /\ queue' = Tail(queue)
      /\ rets' = rets \cup Reply(h)
      /\ UNCHANGED <<inserted, pending, wrap, active, pc, waiting>>
  BY DEF ExecuteCommand, batch
<1>2. /\ TypeOK /\ Whole /\ SentInOrder /\ Numbered /\ RetsExecuted /\ ReturnedExecuted
      /\ executed \in Cmds /\ queue \in Cmds
  BY DEF IInv, TypeOK
<1>3. h \in Cmd /\ Tail(queue) \in Cmds /\ <<h>> \in Cmds /\ Cat(<<h>>, Tail(queue)) = queue
  BY <1>1, <1>2, CatHead
<1> HIDE DEF h
<1>4. executed' \in Cmds /\ executed' = Cat(executed, <<h>>)
  BY <1>1, <1>2, <1>3, CatAppend
<1>5. /\ Len(executed) \in Nat /\ Len(executed') = Len(executed) + 1
      /\ \A i \in 1 .. Len(executed) : executed'[i] = executed[i]
      /\ executed'[Len(executed) + 1] = h
  BY <1>1, <1>2, <1>3, AppendProperties, LenProperties DEF Cmds
<1>6. rets' \in SUBSET Cmd /\ \A c \in rets' : c \in rets \/ c = h
  BY <1>1, <1>2, <1>3 DEF Reply, TypeOK
<1>7. TypeOK'
  BY <1>1, <1>2, <1>3, <1>4, <1>6 DEF TypeOK
<1>8. Sent' = Sent
  <2>1. Cat(Cat(executed, <<h>>), Tail(queue)) = Cat(executed, queue)
    BY <1>2, <1>3, CatAssociative
  <2> QED  BY <1>1, <1>4, <2>1 DEF Sent
<1>9. Whole'
  BY <1>1, <1>2, <1>8 DEF Whole, Cat
<1>10. SentInOrder' /\ Numbered'
  BY <1>1, <1>2, <1>8 DEF SentInOrder, Numbered
<1>11. RetsExecuted'
  <2> SUFFICES ASSUME NEW c \in rets'
               PROVE  \E i \in 1 .. Len(executed') : executed'[i] = c
    BY DEF RetsExecuted
  <2>1. CASE c = h
    BY <2>1, <1>5
  <2>2. CASE c \in rets
    BY <2>2, <1>2, <1>5 DEF RetsExecuted
  <2> QED  BY <2>1, <2>2, <1>6
<1>12. ReturnedExecuted'
  <2> SUFFICES ASSUME NEW i \in 1 .. Len(inserted), ~inserted[i].async,
                      waiting[inserted[i].thr] # inserted[i].n
               PROVE  i <= Len(executed')
    BY <1>1 DEF ReturnedExecuted
  <2>1. i <= Len(executed)
    BY <1>2 DEF ReturnedExecuted
  <2> QED  BY <2>1, <1>5
<1> QED  BY <1>7, <1>9, <1>10, <1>11, <1>12 DEF IInv

(* An executed command is the one inserted at its place.                    *)
LEMMA ExecutedIsInserted ==
    ASSUME IInv, NEW j \in 1 .. Len(executed)
    PROVE  j \in 1 .. Len(inserted) /\ executed[j] = inserted[j]
<1>1. executed \in Cmds /\ queue \in Cmds
  BY DEF IInv, TypeOK
<1>2. j \in 1 .. Len(Sent) /\ executed[j] = Sent[j]
  BY <1>1, InitialPart DEF Sent
<1> QED  BY <1>2 DEF IInv, SentInOrder
(* A RET ends the wait for a command that was executed.                     *)
LEMMA ReturnStep ==
    ASSUME IInv, NEW t \in Threads, Return(t)
    PROVE  IInv'
<1>1. PICK c \in rets : /\ c.thr = t /\ rets' = rets \ {c}
                        /\ waiting' = [waiting EXCEPT ![t] = IF @ = c.n THEN 0 ELSE @]
                        /\ UNCHANGED <<inserted, pending, wrap, active, queue, executed, pc>>
  BY Zenon DEF Return, batch
<1>2. /\ TypeOK /\ Whole /\ SentInOrder /\ Numbered /\ RetsExecuted /\ ReturnedExecuted
      /\ waiting \in [Threads -> Nat]
  BY DEF IInv, TypeOK
<1>3. /\ waiting' \in [Threads -> Nat]
      /\ \A u \in Threads : u # t => waiting'[u] = waiting[u]
      /\ waiting[t] # c.n => waiting'[t] = waiting[t]
  BY <1>1, <1>2
<1>4. TypeOK'
  BY <1>1, <1>2, <1>3 DEF TypeOK
<1>5. Sent' = Sent
  BY <1>1 DEF Sent, Cat
<1>6. Whole' /\ SentInOrder' /\ Numbered'
  BY <1>1, <1>2, <1>5 DEF Whole, SentInOrder, Numbered, Cat
<1>7. RetsExecuted'
  BY <1>1, <1>2 DEF RetsExecuted
<1>8. ReturnedExecuted'
  <2> SUFFICES ASSUME NEW i \in 1 .. Len(inserted), ~inserted[i].async,
                      waiting'[inserted[i].thr] # inserted[i].n
               PROVE  i <= Len(executed)
    BY <1>1 DEF ReturnedExecuted
  <2>1. PICK j \in 1 .. Len(executed) : executed[j] = c
    BY <1>2 DEF RetsExecuted
  <2>2. j \in 1 .. Len(inserted) /\ inserted[j] = c /\ inserted[j].n = j /\ inserted[i].n = i
    BY <2>1, <1>2, ExecutedIsInserted DEF Numbered
  <2>3. inserted[i] \in Cmd
    BY ElementOfSeq DEF IInv, TypeOK, Cmds
  <2>4. inserted[i].thr \in Threads
    BY <2>3 DEF Cmd
  <2>5. CASE waiting[inserted[i].thr] # inserted[i].n
    BY <2>5, <1>2 DEF ReturnedExecuted
  <2>6. CASE waiting[inserted[i].thr] = inserted[i].n
    <3>1. inserted[i].thr = t /\ waiting[t] = c.n
      BY <2>4, <2>6, <1>3
    <3>2. i = j
      BY <2>2, <2>6, <3>1
    <3>3. Len(executed) \in Nat
      BY LenProperties DEF IInv, TypeOK, Cmds
    <3> QED  BY <3>2, <3>3
  <2> QED  BY <2>5, <2>6
<1> QED  BY <1>4, <1>6, <1>7, <1>8 DEF IInv

(* cmd_batch_thread_fini throws the batch away.                             *)
LEMMA FiniStep ==
    ASSUME IInv, ThreadFini
    PROVE  IInv'
<1>1. /\ pc' = "ended" /\ wrap' = <<>> /\ active' = <<>>
      /\ UNCHANGED <<inserted, pending, queue, executed, rets, waiting>>
  BY DEF ThreadFini
<1>2. TypeOK /\ SentInOrder
  BY DEF IInv
<1>3. TypeOK'
  BY <1>1, <1>2, CatEmpty DEF TypeOK
<1>4. Whole'
  BY <1>1 DEF Whole
<1>5. Sent' = Sent
  BY <1>1 DEF Sent, Cat
<1>6. SentInOrder'
  BY <1>1, <1>2, <1>5 DEF SentInOrder
<1> QED  BY <1>1, <1>3, <1>4, <1>6, BatchStep

(* Every step keeps the invariant.                                          *)
LEMMA InvStep ==
    ASSUME IInv, [Next]_vars
    PROVE  IInv'
<1>1. CASE UNCHANGED vars
  BY <1>1, SMTT(60) DEF vars, IInv, TypeOK, Whole, Sent, SentInOrder, Numbered, RetsExecuted,
              ReturnedExecuted, Cat
<1>2. CASE BatchThread
  BY <1>2, PopStep, TimeOutStep, EmitSingleStep, ProcessStep DEF BatchThread
<1>3. CASE \E t \in Threads, async \in BOOLEAN : InsertCommand(t, async)
  BY <1>3, InsertStep
<1>4. CASE \E t \in Threads : Return(t)
  BY <1>4, ReturnStep
<1> QED  BY <1>1, <1>2, <1>3, <1>4, ExecuteStep, FiniStep DEF Next

-----------------------------------------------------------------------------
(* Commands reach the API server whole and in order: while the batch thread *)
(* runs, nothing given to batch_insert_command is lost, duplicated or       *)
(* reordered.                                                               *)
THEOREM BatchingKeepsOrder == Spec => []NothingLostOrReordered
<1>1. Init => IInv
  BY InvInit
<1>2. IInv /\ [Next]_vars => IInv'
  BY InvStep
<1>3. IInv => NothingLostOrReordered
  BY DEF IInv, Whole, Sent, Cat, NothingLostOrReordered
<1> QED  BY <1>1, <1>2, <1>3, PTL DEF Spec

(* When a synchronous call has returned, every command inserted before it,  *)
(* by any thread, has been executed, and in the order of the insertions.    *)
THEOREM SyncCallsAreBarriers == Spec => []SyncIsBarrier
<1>1. Init => IInv
  BY InvInit
<1>2. IInv /\ [Next]_vars => IInv'
  BY InvStep
<1>3. IInv => SyncIsBarrier
  <2> SUFFICES ASSUME IInv, NEW i \in DOMAIN inserted, ~inserted[i].async,
                      waiting[inserted[i].thr] # inserted[i].n, NEW j \in 1 .. i
               PROVE  j <= Len(executed) /\ executed[j] = inserted[j]
    BY DEF SyncIsBarrier
  <2>1. Len(inserted) \in Nat /\ Len(executed) \in Nat /\ DOMAIN inserted = 1 .. Len(inserted)
    BY LenProperties DEF IInv, TypeOK, Cmds
  <2>2. i \in 1 .. Len(inserted) /\ i <= Len(executed)
    BY <2>1 DEF IInv, ReturnedExecuted
  <2>3. j \in 1 .. Len(executed)
    BY <2>1, <2>2
  <2> QED  BY <2>1, <2>3, ExecutedIsInserted
<1> QED  BY <1>1, <1>2, <1>3, PTL DEF Spec
=============================================================================
