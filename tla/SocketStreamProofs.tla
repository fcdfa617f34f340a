------------------------- MODULE SocketStreamProofs -------------------------
(***************************************************************************)
(* What SocketStream promises about every instance: whatever the sizes of   *)
(* structs, regions, buffers and sockets, the threads of a process and the  *)
(* pieces in which the stream is cut, a side dispatches the commands its    *)
(* peer has sent, whole and in the order of send_mutex, and finds in them   *)
(* the buffers that were attached.                                          *)
(*                                                                          *)
(* The invariant gives every command of the log its offset in the stream of *)
(* all that was ever sent.  What the receiver has read of the next command, *)
(* followed by what it has not read, is the part of that stream between the *)
(* commands dispatched and what the holder of send_mutex has yet to send.   *)
(***************************************************************************)
EXTENDS SocketStream, SequenceTheorems, TLAPS

Bases == [size : Nat, region : Nat, seek : Nat, ids : Seq(Nat), lens : Seq(Nat)]
Units == [of : Threads \X Nat, buf : Nat, at : Nat, base : Bases]
Memory == Seq(Units)

TypeOK ==
    /\ pc \in [Threads -> {"idle", "building", "built", "exiting", "sending", "gone"}]
    /\ cmd \in [Threads -> [mem : Memory, sent : Nat]]
    /\ made \in [Threads -> Nat]
    /\ mutex \in [Sides -> Threads \cup {None}]
    /\ pool \in [Sides -> Threads \cup {None}]
    /\ stream \in [Sides -> Memory]
    /\ rx \in [Sides -> [st : {"poll", "read"}, mem : Memory]]
    /\ got \in [Sides -> Seq(Memory)]
    /\ log \in [Sides -> Seq(Memory)]
    /\ up \subseteq Sides

(* A command in memory whose sizes are those of the block, and whose buffer *)
(* ids lead to the data of the buffers attached so far.                     *)
BufferAt(m, k) ==
    /\ Base(m).ids[k] >= BaseSize
    /\ Base(m).ids[k] + Base(m).lens[k] <= Base(m).seek
    /\ \A i \in 1 .. Base(m).lens[k] : m[Base(m).ids[k] + i] = Unit(m[1].of, k, i)

WellMade(m) ==
    /\ Len(m) = WholeSize(m) /\ BaseSize <= Base(m).size
    /\ Base(m).size <= Base(m).seek /\ Base(m).seek <= Len(m)
    /\ Len(Base(m).ids) = Len(Base(m).lens)
    /\ \A i \in 1 .. Len(m) : m[i].of = m[1].of
    /\ \A k \in 1 .. Len(Base(m).ids) : BufferAt(m, k)

(* The commands of the threads, and how much of each is sent.               *)
CommandsOK ==
    \A t \in Threads :
        /\ pc[t] \in {"building", "built", "exiting", "sending"} =>
              cmd[t].mem # <<>> /\ WellMade(cmd[t].mem)
        /\ cmd[t].sent <= Len(cmd[t].mem)
        /\ pc[t] # "sending" => cmd[t].sent = 0

(* A thread that sends holds send_mutex, and its command is the last one of *)
(* the log.                                                                 *)
MutexOK ==
    /\ \A t \in Threads : pc[t] = "sending" <=> mutex[SideOf[t]] = t
    /\ \A s \in Sides : mutex[s] # None => SideOf[mutex[s]] = s
    /\ \A s \in Sides : mutex[s] # None =>
          log[s] # <<>> /\ log[s][Len(log[s])] = cmd[mutex[s]].mem

LogOK ==
    \A s \in Sides : \A j \in 1 .. Len(log[s]) : log[s][j] # <<>> /\ WellMade(log[s][j])

(* off gives the offsets of N commands with these sizes.                    *)
Offsets(N, sizes, off) ==
    /\ sizes \in [1 .. N -> Nat] /\ off \in [1 .. N + 1 -> Nat]
    /\ \A j \in 1 .. N : off[j + 1] = off[j] + sizes[j]
    /\ \A j, k \in 1 .. N + 1 : j <= k => off[j] <= off[k]

Sizes(L) == [j \in 1 .. Len(L) |-> Len(L[j])]

(* Of the commands L, u is what follows the n-th, except for the last r     *)
(* units.                                                                   *)
Holds(L, sizes, off, n, u) ==
    \A j \in n + 1 .. Len(L) : \A i \in 1 .. sizes[j] :
        off[j] + i <= off[n + 1] + Len(u) => u[off[j] - off[n + 1] + i] = L[j][i]

InTransit(L, off, n, u, r) ==
    /\ Offsets(Len(L), Sizes(L), off)
    /\ off[n + 1] + Len(u) + r = off[Len(L) + 1]
    /\ Holds(L, Sizes(L), off, n, u)

(* L is sent and G dispatched; a is read of the next command, b is not read *)
(* yet and r units are not sent yet.                                        *)
Flow(L, G, a, b, r) ==
    /\ Len(G) <= Len(L) /\ \A j \in 1 .. Len(G) : G[j] = L[j]
    /\ \E off : InTransit(L, off, Len(G), a \o b, r)
    /\ a # <<>> => Len(G) < Len(L) /\ Len(a) <= Len(L[Len(G) + 1])

Unsent(s) ==
    IF mutex[s] = None THEN 0 ELSE Len(cmd[mutex[s]].mem) - cmd[mutex[s]].sent

FlowOK ==
    \A s \in Sides :
        /\ Flow(log[s], got[Peer(s)], rx[Peer(s)].mem, stream[s], Unsent(s))
        /\ rx[s].st = "poll" => rx[s].mem = <<>>

Streamed == TypeOK /\ CommandsOK /\ MutexOK /\ LogOK /\ FlowOK

-----------------------------------------------------------------------------
(* A place in the stream, from where the receiver is.                       *)
LEMMA Within ==
    ASSUME NEW x \in Nat, NEW z \in Nat, NEW i \in Nat, NEW h \in Nat,
           x <= z, i >= 1, z + i <= x + h
    PROVE  z - x + i \in 1 .. h
OBVIOUS

(* Pieces of memory put together.                                           *)
LEMMA Joined ==
    ASSUME NEW s \in Memory, NEW t \in Memory
    PROVE  /\ s \o t \in Memory
           /\ Len(s) \in Nat /\ Len(t) \in Nat /\ Len(s \o t) = Len(s) + Len(t)
           /\ \A i \in 1 .. Len(s) : (s \o t)[i] = s[i]
           /\ \A i \in 1 .. Len(t) : (s \o t)[Len(s) + i] = t[i]
<1>1. s \in Seq(Units) /\ t \in Seq(Units)
  BY Zenon DEF Memory
<1>2. PICK x \in Nat, y \in Nat : x = Len(s) /\ y = Len(t)
  BY <1>1
<1>3. /\ s \o t \in Seq(Units) /\ Len(s \o t) = x + y
      /\ \A i \in 1 .. x + y : (s \o t)[i] = IF i <= x THEN s[i] ELSE t[i - x]
  BY <1>1, <1>2, ConcatProperties, Zenon
<1>4. \A i \in 1 .. x : (s \o t)[i] = s[i]
  BY <1>2, <1>3
<1>5. \A i \in 1 .. y : (s \o t)[x + i] = t[i]
  <2> SUFFICES ASSUME NEW i \in 1 .. y
               PROVE  (s \o t)[x + i] = t[i]
    BY Zenon
  <2>1. x + i \in 1 .. x + y /\ ~(x + i <= x) /\ x + i - x = i
    BY <1>2
  <2> QED
    BY <1>3, <2>1
<1> QED
  BY <1>2, <1>3, <1>4, <1>5, Zenon DEF Memory

(* Pieces of memory may be put together in any grouping.                    *)
LEMMA JoinedTwice ==
    ASSUME NEW s \in Memory, NEW t \in Memory, NEW u \in Memory
    PROVE  s \o (t \o u) = (s \o t) \o u
BY ConcatAssociative, SMTT(60) DEF Memory

(* A piece of memory cut in two.                                            *)
LEMMA Cut ==
    ASSUME NEW s \in Memory, NEW n \in 0 .. Len(s)
    PROVE  /\ SubSeq(s, 1, n) \in Memory /\ SubSeq(s, n + 1, Len(s)) \in Memory
           /\ Len(SubSeq(s, 1, n)) = n
           /\ SubSeq(s, 1, n) \o SubSeq(s, n + 1, Len(s)) = s
<1>1. s \in Seq(Units) /\ Len(s) \in Nat
  BY DEF Memory
<1>2. SubSeq(s, 1, n) \in Seq(Units) /\ SubSeq(s, n + 1, Len(s)) \in Seq(Units)
      /\ Len(SubSeq(s, 1, n)) = n
  BY <1>1
<1>3. SubSeq(s, 1, n) \o SubSeq(s, n + 1, Len(s)) = SubSeq(s, 1, Len(s))
  <2>1. 1 \in 1 .. Len(s) + 1 /\ n \in 1 - 1 .. Len(s) /\ Len(s) \in n .. Len(s)
    BY <1>1
  <2> QED
    BY <1>1, <2>1, ConcatAdjacentSubSeq, Zenon
<1>4. SubSeq(s, 1, Len(s)) = s
  BY <1>1, SubSeqFull, Zenon
<1> QED
  BY <1>2, <1>3, <1>4, Zenon DEF Memory

(* The units of a piece cut out of memory.                                  *)
LEMMA Cutting ==
    ASSUME NEW s \in Memory, NEW x \in Nat, NEW y \in Nat, x + y <= Len(s)
    PROVE  /\ SubSeq(s, x + 1, x + y) \in Seq(Units) /\ Len(SubSeq(s, x + 1, x + y)) = y
           /\ \A i \in 1 .. y : SubSeq(s, x + 1, x + y)[i] = s[x + i]
BY DEF Memory

(* Nothing is sent at first.                                                *)
LEMMA FlowInit == Flow(<<>>, <<>>, <<>>, <<>>, 0)
<1>1. Len(<<>>) = 0 /\ <<>> \o <<>> = <<>>
  OBVIOUS
<1>2. PICK off, sizes : off = [i \in 1 .. 1 |-> 0] /\ sizes = Sizes(<<>>)
  BY Zenon
<1>3. off \in [1 .. 1 -> Nat] /\ off[1] = 0 /\ sizes \in [1 .. 0 -> Nat]
  BY <1>1, <1>2 DEF Sizes
<1>4. Offsets(0, sizes, off)
  BY <1>3 DEF Offsets
<1>5. Holds(<<>>, sizes, off, 0, <<>>)
  BY <1>1 DEF Holds
<1>6. InTransit(<<>>, off, 0, <<>>, 0)
  BY <1>1, <1>2, <1>3, <1>4, <1>5 DEF InTransit
<1> QED
  BY <1>1, <1>6 DEF Flow

(* One more command extends the offsets.                                    *)
LEMMA OffsetsExtend ==
    ASSUME NEW N \in Nat, NEW sizes, NEW off, Offsets(N, sizes, off), NEW q \in Nat,
           NEW more \in [1 .. N + 1 -> Nat], \A j \in 1 .. N : more[j] = sizes[j],
           more[N + 1] = q
    PROVE  \E new : /\ Offsets(N + 1, more, new)
                    /\ \A j \in 1 .. N + 1 : new[j] = off[j]
                    /\ new[N + 2] = off[N + 1] + q
<1>1. PICK new : new = [j \in 1 .. N + 2 |-> IF j <= N + 1 THEN off[j] ELSE off[N + 1] + q]
  BY Zenon
<1>2. off \in [1 .. N + 1 -> Nat] /\ N + 1 \in 1 .. N + 1 /\ N + 1 + 1 = N + 2
  BY DEF Offsets
<1>3. /\ new \in [1 .. N + 2 -> Nat]
      /\ \A j \in 1 .. N + 1 : new[j] = off[j]
      /\ new[N + 2] = off[N + 1] + q
  BY <1>1, <1>2
<1>4. \A j \in 1 .. N + 1 : new[j + 1] = new[j] + more[j]
  <2> SUFFICES ASSUME NEW j \in 1 .. N + 1
               PROVE  new[j + 1] = new[j] + more[j]
    BY Zenon
  <2>1. CASE j = N + 1
    BY <1>2, <1>3, <2>1, Zenon
  <2>2. CASE j \in 1 .. N
    <3>1. off[j + 1] = off[j] + sizes[j] /\ j + 1 \in 1 .. N + 1
      BY <2>2 DEF Offsets
    <3> QED
      BY <1>3, <2>2, <3>1, Zenon
  <2> QED
    BY <2>1, <2>2
<1>5. \A j, k \in 1 .. N + 2 : j <= k => new[j] <= new[k]
  <2> SUFFICES ASSUME NEW j \in 1 .. N + 2, NEW k \in 1 .. N + 2, j <= k
               PROVE  new[j] <= new[k]
    BY Zenon
  <2>1. CASE k <= N + 1
    BY <1>3, <2>1, SMTT(60) DEF Offsets
  <2>2. CASE k = N + 2 /\ j <= N + 1
    <3>1. off[j] <= off[N + 1] /\ off[j] \in Nat /\ off[N + 1] \in Nat
      BY <1>2, <2>2 DEF Offsets
    <3> QED
      BY <1>3, <2>2, <3>1, SMTT(60)
  <2>3. CASE k = N + 2 /\ j = N + 2
    BY <1>3, <2>3
  <2> QED
    BY <2>1, <2>2, <2>3
<1> QED
  BY <1>2, <1>3, <1>4, <1>5, Zenon DEF Offsets

(* The sizes of commands in memory.                                         *)
LEMMA SizesType ==
    ASSUME NEW L \in Seq(Memory)
    PROVE  /\ Len(L) \in Nat
           /\ Sizes(L) \in [1 .. Len(L) -> Nat]
           /\ \A j \in 1 .. Len(L) : L[j] \in Memory /\ Len(L[j]) = Sizes(L)[j]
<1>1. \A j \in 1 .. Len(L) : L[j] \in Memory
  OBVIOUS
<1>2. \A x \in Memory : Len(x) \in Nat
  BY DEF Memory
<1> QED
  BY <1>1, <1>2 DEF Sizes

(* A thread takes send_mutex: its command comes last, all of it unsent.     *)
LEMMA FlowLock ==
    ASSUME NEW L \in Seq(Memory), NEW G \in Seq(Memory), NEW a \in Memory, NEW b \in Memory,
           NEW m \in Memory, Flow(L, G, a, b, 0)
    PROVE  Flow(Append(L, m), G, a, b, Len(m))
<1>1. PICK M : M = Append(L, m)
  BY Zenon
<1>2. M \in Seq(Memory) /\ Len(M) = Len(L) + 1 /\ M[Len(L) + 1] = m
      /\ \A j \in 1 .. Len(L) : M[j] = L[j]
  BY <1>1
<1>3. PICK u : u = a \o b
  BY Zenon
<1>4. PICK h \in Nat : h = Len(u)
  BY <1>3 DEF Memory
<1>5. PICK off : InTransit(L, off, Len(G), u, 0)
  BY <1>3, Zenon DEF Flow
<1>6. PICK n \in Nat : n = Len(G) /\ n <= Len(L)
  BY DEF Flow
<1>7. PICK q \in Nat : q = Len(m)
  BY DEF Memory
<1>8. PICK N \in Nat : N = Len(L)
  OBVIOUS
<1>9. PICK sizes, more : sizes = Sizes(L) /\ more = Sizes(M)
  BY Zenon
<1>10. sizes \in [1 .. N -> Nat] /\ more \in [1 .. N + 1 -> Nat]
       /\ (\A j \in 1 .. N : more[j] = sizes[j]) /\ more[N + 1] = q
  <2>1. \A j \in 1 .. N : more[j] = Len(M[j]) /\ sizes[j] = Len(L[j])
    BY <1>2, <1>8, <1>9 DEF Sizes
  <2>2. more[N + 1] = Len(M[N + 1])
    BY <1>2, <1>8, <1>9 DEF Sizes
  <2> QED
    BY <1>2, <1>7, <1>8, <1>9, <2>1, <2>2, SizesType, ZenonT(60)
<1>11. Offsets(N, sizes, off)
  BY <1>5, <1>8, <1>9, Zenon DEF InTransit
<1>12. PICK new : /\ Offsets(N + 1, more, new)
                  /\ \A j \in 1 .. N + 1 : new[j] = off[j]
                  /\ new[N + 2] = off[N + 1] + q
  <2>1. sizes \in [1 .. N -> Nat]
    BY <1>10, Zenon
  <2>2. more \in [1 .. N + 1 -> Nat]
    BY <1>10, Zenon
  <2>3. \A j \in 1 .. N : more[j] = sizes[j]
    BY <1>10, Zenon
  <2>4. more[N + 1] = q
    BY <1>10, Zenon
  <2> QED
    BY <1>11, <2>2, <2>3, <2>4, OffsetsExtend, SMTT(60)
<1>13. PICK x \in Nat, y \in Nat : x = off[n + 1] /\ y = off[N + 1] /\ x = new[n + 1]
  <2>1. n + 1 \in 1 .. N + 1 /\ N + 1 \in 1 .. N + 1
    BY <1>6, <1>8
  <2>2. off \in [1 .. N + 1 -> Nat]
    BY <1>11, Zenon DEF Offsets
  <2>3. new[n + 1] = off[n + 1]
    BY <1>12, <2>1, Zenon
  <2> QED
    BY <2>1, <2>2, <2>3, Zenon
<1>14. x + h = y
  BY <1>4, <1>5, <1>6, <1>8, <1>13, SMTT(60) DEF InTransit
<1>15. Holds(M, more, new, n, u)
  <2> SUFFICES ASSUME NEW j \in n + 1 .. N + 1, NEW i \in 1 .. more[j],
                      new[j] + i <= x + h
               PROVE  u[new[j] - x + i] = M[j][i]
    BY <1>2, <1>4, <1>8, <1>13, ZenonT(60) DEF Holds
  <2>1. j # N + 1
    <3> SUFFICES ASSUME j = N + 1
                 PROVE  FALSE
      BY Zenon
    <3>1. new[N + 1] = y
      BY <1>12, <1>13
    <3>2. i \in Nat /\ i >= 1
      BY <1>10
    <3> QED
      BY <1>14, <3>1, <3>2
  <2>2. new[j] = off[j] /\ M[j] = L[j] /\ j \in n + 1 .. N /\ more[j] = sizes[j]
    BY <1>2, <1>8, <1>10, <1>12, <2>1
  <2>3. Holds(L, sizes, off, n, u)
    BY <1>5, <1>6, <1>9, Zenon DEF InTransit
  <2> QED
    BY <1>4, <1>8, <1>13, <2>2, <2>3, Zenon DEF Holds
<1>16. InTransit(M, new, n, u, q)
  <2>1. new[N + 2] = x + h + q
    BY <1>12, <1>13, <1>14, Zenon
  <2>2. Len(M) = N + 1 /\ N + 1 + 1 = N + 2
    BY <1>2, <1>8
  <2> QED
    BY <1>4, <1>9, <1>12, <1>13, <1>15, <2>1, <2>2, Zenon DEF InTransit
<1>17. \A j \in 1 .. Len(G) : G[j] = M[j]
  BY <1>2, <1>6, <1>8, SMTT(60) DEF Flow
<1>18. a # <<>> => Len(G) < Len(M) /\ Len(a) <= Len(M[Len(G) + 1])
  <2> SUFFICES ASSUME a # <<>>
               PROVE  Len(G) < Len(M) /\ Len(a) <= Len(M[Len(G) + 1])
    BY Zenon
  <2>1. Len(G) < Len(L) /\ Len(a) <= Len(L[Len(G) + 1])
    BY Zenon DEF Flow
  <2> QED
    BY <1>2, <1>6, <1>8, <2>1
<1>19. Len(G) <= Len(M)
  BY <1>2, <1>6, <1>8
<1> QED
  BY <1>1, <1>3, <1>6, <1>7, <1>16, <1>17, <1>18, <1>19, Zenon DEF Flow

(* The next units of the last command enter the stream.                     *)
LEMMA FlowSend ==
    ASSUME NEW L \in Seq(Memory), NEW G \in Seq(Memory), NEW a \in Memory, NEW b \in Memory,
           NEW m \in Memory, L # <<>>, L[Len(L)] = m,
           NEW sent \in Nat, NEW n \in Nat, n >= 1, sent + n <= Len(m),
           Flow(L, G, a, b, Len(m) - sent)
    PROVE  Flow(L, G, a, b \o SubSeq(m, sent + 1, sent + n), Len(m) - (sent + n))
<1>1. PICK p : p = SubSeq(m, sent + 1, sent + n)
  BY Zenon
<1>2. p \in Memory /\ Len(p) = n /\ \A i \in 1 .. n : p[i] = m[sent + i]
  BY <1>1, SMTT(60) DEF Memory
<1>3. PICK u : u = a \o b
  BY Zenon
<1>4. PICK v : v = u \o p
  BY Zenon
<1>5. u \in Memory /\ v \in Memory
  BY <1>2, <1>3, <1>4 DEF Memory
<1>6. PICK h \in Nat : h = Len(u)
  BY <1>5 DEF Memory
<1>7. /\ Len(v) = h + n
      /\ \A i \in 1 .. h : v[i] = u[i]
      /\ \A i \in 1 .. n : v[h + i] = m[sent + i]
  <2>1. /\ Len(u \o p) = Len(u) + Len(p)
        /\ \A i \in 1 .. Len(u) : (u \o p)[i] = u[i]
        /\ \A i \in 1 .. Len(p) : (u \o p)[Len(u) + i] = p[i]
    BY <1>2, <1>5, Joined, ZenonT(60)
  <2> QED
    BY <1>2, <1>4, <1>6, <2>1, Zenon
<1>8. a \o (b \o p) = v
  BY <1>2, <1>3, <1>4, JoinedTwice, ZenonT(60)
<1>9. PICK off : InTransit(L, off, Len(G), u, Len(m) - sent)
  BY <1>3, Zenon DEF Flow
<1>10. PICK g \in Nat : g = Len(G) /\ g <= Len(L)
  BY DEF Flow
<1>11. PICK q \in Nat : q = Len(m)
  BY DEF Memory
<1>12. PICK N \in Nat : N = Len(L) /\ N >= 1
  OBVIOUS
<1>13. PICK sizes : sizes = Sizes(L)
  BY Zenon
<1>14. sizes \in [1 .. N -> Nat] /\ sizes[N] = q
  BY <1>11, <1>12, <1>13, SizesType
<1>15. Offsets(N, sizes, off)
  BY <1>9, <1>12, <1>13, Zenon DEF InTransit
<1>16. off \in [1 .. N + 1 -> Nat] /\ off[N + 1] = off[N] + q
  BY <1>12, <1>14, <1>15 DEF Offsets
<1>17. g + 1 \in 1 .. N + 1 /\ N \in 1 .. N + 1 /\ N + 1 \in 1 .. N + 1
  BY <1>10, <1>12
<1>18. PICK x \in Nat, y \in Nat, e \in Nat : x = off[g + 1] /\ y = off[N] /\ e = off[N + 1]
  BY <1>16, <1>17, Zenon
<1>19. x + h + (q - sent) = e /\ e = y + q
  BY <1>6, <1>9, <1>10, <1>11, <1>12, <1>16, <1>18, Zenon DEF InTransit
<1>20. x + h = y + sent
  BY <1>19
<1>21. Holds(L, sizes, off, g, v)
  <2> SUFFICES ASSUME NEW j \in g + 1 .. N, NEW i \in 1 .. sizes[j],
                      off[j] + i <= x + h + n
               PROVE  v[off[j] - x + i] = L[j][i]
    <3>1. x + Len(v) = x + h + n
      BY <1>7
    <3> QED
      BY <1>12, <1>18, <3>1, Zenon DEF Holds
  <2>1. j \in 1 .. N /\ j \in 1 .. N + 1 /\ j + 1 \in 1 .. N + 1 /\ g + 1 <= j
    BY <1>10, <1>12
  <2>2. PICK z \in Nat : z = off[j] /\ x <= z
    BY <1>15, <1>16, <1>17, <1>18, <2>1, Zenon DEF Offsets
  <2>3. PICK w \in Nat : w = sizes[j] /\ off[j + 1] = z + w
    BY <1>14, <1>15, <2>1, <2>2, Zenon DEF Offsets
  <2>4. i \in Nat /\ i >= 1 /\ i <= w
    BY <2>3
  <2>5. CASE z + i <= x + h
    <3>1. u[z - x + i] = L[j][i]
      <4>1. Holds(L, sizes, off, g, u)
        BY <1>9, <1>10, <1>13, Zenon DEF InTransit
      <4> QED
        BY <1>6, <1>12, <1>18, <2>2, <2>5, <4>1, Zenon DEF Holds
    <3>2. z - x + i \in 1 .. h
      BY <2>2, <2>4, <2>5, Within, Zenon
    <3> QED
      BY <1>7, <2>2, <3>1, <3>2, Zenon
  <2>6. CASE ~(z + i <= x + h)
    <3>1. j = N
      <4>1. j # N => off[j + 1] <= y
        BY <1>15, <1>17, <1>18, <2>1, SMTT(60) DEF Offsets
      <4> QED
        BY <1>20, <2>1, <2>3, <2>4, <2>6, <4>1, SMTT(60)
    <3>2. z = y
      BY <1>18, <2>2, <3>1, Zenon
    <3>3. i - sent \in 1 .. n /\ z - x + i = h + (i - sent) /\ sent + (i - sent) = i
      BY <1>20, <2>2, <2>4, <2>6, <3>2
    <3>4. v[h + (i - sent)] = m[sent + (i - sent)]
      BY <1>7, <3>3, Zenon
    <3> QED
      BY <1>12, <2>2, <3>1, <3>3, <3>4, Zenon
  <2> QED
    BY <2>5, <2>6, Zenon
<1>22. InTransit(L, off, g, v, q - (sent + n))
  <2>1. x + (h + n) + (q - (sent + n)) = off[N + 1]
    BY <1>18, <1>19, SMTT(60)
  <2> QED
    BY <1>7, <1>12, <1>13, <1>15, <1>18, <1>21, <2>1, Zenon DEF InTransit
<1> QED
  BY <1>1, <1>8, <1>10, <1>11, <1>22, Zenon DEF Flow

(* What is in transit begins with the first command not yet dispatched.     *)
LEMMA FirstUnit ==
    ASSUME NEW L \in Seq(Memory), NEW G \in Seq(Memory), NEW a \in Memory, NEW b \in Memory,
           NEW r \in Nat, Flow(L, G, a, b, r), a \o b # <<>>
    PROVE  /\ Len(G) + 1 \in 1 .. Len(L)
           /\ \A i \in 1 .. Len(L[Len(G) + 1]) : i <= Len(a \o b) => (a \o b)[i] = L[Len(G) + 1][i]
<1>1. PICK u : u = a \o b
  BY Zenon
<1>2. u \in Memory /\ u # <<>>
  BY <1>1, Joined, Zenon
<1>3. PICK h \in Nat : h = Len(u) /\ h >= 1
  BY <1>2 DEF Memory
<1>4. PICK off : InTransit(L, off, Len(G), u, r)
  BY <1>1, Zenon DEF Flow
<1>5. PICK g \in Nat : g = Len(G) /\ g <= Len(L)
  BY DEF Flow
<1>6. PICK N \in Nat : N = Len(L)
  OBVIOUS
<1>7. PICK sizes : sizes = Sizes(L)
  BY Zenon
<1>8. Offsets(N, sizes, off)
  BY <1>4, <1>6, <1>7, Zenon DEF InTransit
<1>9. g + 1 \in 1 .. N + 1 /\ N + 1 \in 1 .. N + 1
  BY <1>5, <1>6
<1>10. PICK x \in Nat, e \in Nat : x = off[g + 1] /\ e = off[N + 1]
  BY <1>8, <1>9, Zenon DEF Offsets
<1>11. x + h + r = e
  BY <1>3, <1>4, <1>5, <1>6, <1>10, Zenon DEF InTransit
<1>12. g + 1 \in 1 .. N
  <2>1. g # N
    BY <1>3, <1>10, <1>11, SMTT(60)
  <2> QED
    BY <1>5, <1>6, <2>1
<1>13. PICK c : c = L[g + 1]
  BY Zenon
<1>14. c \in Memory /\ Len(c) = sizes[g + 1]
  BY <1>6, <1>7, <1>12, <1>13, SizesType, Zenon
<1>15. \A i \in 1 .. Len(c) : i <= h => u[i] = c[i]
  <2> SUFFICES ASSUME NEW i \in 1 .. Len(c), i <= h
               PROVE  u[i] = c[i]
    BY Zenon
  <2>1. i \in Nat /\ x + i <= x + h /\ x - x + i = i
    BY <1>14 DEF Memory
  <2>2. Holds(L, sizes, off, g, u)
    BY <1>4, <1>5, <1>7, Zenon DEF InTransit
  <2>3. g + 1 \in g + 1 .. Len(L)
    BY <1>6, <1>12
  <2>4. off[g + 1] + i <= off[g + 1] + Len(u) => u[off[g + 1] - off[g + 1] + i] = L[g + 1][i]
    BY <1>14, <2>2, <2>3, Zenon DEF Holds
  <2> QED
    BY <1>3, <1>10, <1>13, <2>1, <2>4, Zenon
<1> QED
  BY <1>1, <1>3, <1>5, <1>6, <1>12, <1>13, <1>15, Zenon

(* A well made command has the sizes its base struct says.                  *)
LEMMA WellMadeSize ==
    ASSUME NEW c \in Memory, c # <<>>, WellMade(c)
    PROVE  /\ Len(c) \in Nat /\ BaseSize \in Nat /\ BaseSize >= 1 /\ BaseSize <= Len(c)
           /\ WholeSize(c) = Len(c)
<1>1. c[1] \in Units /\ Len(c) \in Nat
  BY DEF Memory
<1>2. PICK x \in Nat, y \in Nat : x = Base(c).size /\ y = Base(c).region
  BY <1>1, Zenon DEF Units, Bases, Base
<1>3. Len(c) = x + y /\ BaseSize <= x
  BY <1>2, Zenon DEF WellMade, WholeSize
<1>4. BaseSize \in Nat /\ BaseSize >= 1
  BY StreamAssumption
<1> QED
  BY <1>1, <1>2, <1>3, <1>4 DEF WholeSize

(* What the receiver has of a command tells how long it is.                 *)
LEMMA ExpectedSize ==
    ASSUME NEW L \in Seq(Memory), NEW G \in Seq(Memory), NEW a \in Memory, NEW b \in Memory,
           NEW r \in Nat, Flow(L, G, a, b, r), a \o b # <<>>,
           \A j \in 1 .. Len(L) : L[j] # <<>> /\ WellMade(L[j])
    PROVE  /\ Len(G) + 1 \in 1 .. Len(L)
           /\ Len(L[Len(G) + 1]) \in Nat /\ BaseSize \in Nat /\ BaseSize >= 1
           /\ BaseSize <= Len(L[Len(G) + 1])
           /\ Expected(a) = IF Len(a) < BaseSize THEN BaseSize ELSE Len(L[Len(G) + 1])
<1>1. /\ Len(G) + 1 \in 1 .. Len(L)
      /\ \A i \in 1 .. Len(L[Len(G) + 1]) : i <= Len(a \o b) => (a \o b)[i] = L[Len(G) + 1][i]
  BY FirstUnit, ZenonT(60)
<1>2. PICK c \in Memory : c = L[Len(G) + 1]
  BY <1>1
<1>3. c # <<>> /\ WellMade(c)
  BY <1>1, <1>2, Zenon
<1>4. Len(c) \in Nat /\ BaseSize \in Nat /\ BaseSize >= 1 /\ BaseSize <= Len(c) /\ WholeSize(c) = Len(c)
  BY <1>3, WellMadeSize, Zenon
<1>5. ASSUME ~(Len(a) < BaseSize)
      PROVE  WholeSize(a) = Len(c)
  <2>1. Len(a) \in Nat /\ Len(a) >= 1 /\ 1 \in 1 .. Len(a) /\ 1 \in 1 .. Len(c)
    BY <1>4, <1>5 DEF Memory
  <2>2. (a \o b)[1] = a[1] /\ Len(a \o b) >= 1
    <3>1. Len(b) \in Nat /\ Len(a \o b) = Len(a) + Len(b) /\ \A i \in 1 .. Len(a) : (a \o b)[i] = a[i]
      BY Joined, Zenon
    <3> QED
      BY <2>1, <3>1
  <2>3. a[1] = c[1]
    BY <1>1, <1>2, <2>1, <2>2, Zenon
  <2> QED
    BY <1>4, <2>3, Zenon DEF WholeSize, Base
<1> QED
  BY <1>1, <1>2, <1>4, <1>5, Zenon DEF Expected

(* The receiver reads on, no further than the command it is in.             *)
LEMMA FlowReceive ==
    ASSUME NEW L \in Seq(Memory), NEW G \in Seq(Memory), NEW a \in Memory, NEW b \in Memory,
           NEW r \in Nat, Flow(L, G, a, b, r),
           \A j \in 1 .. Len(L) : L[j] # <<>> /\ WellMade(L[j]),
           NEW n \in Nat, n >= 1, n <= Len(b), Len(a) + n <= Expected(a)
    PROVE  Flow(L, G, a \o SubSeq(b, 1, n), SubSeq(b, n + 1, Len(b)), r)
<1>1. PICK p, d : p = SubSeq(b, 1, n) /\ d = SubSeq(b, n + 1, Len(b))
  BY Zenon
<1>2. n \in 0 .. Len(b) /\ Len(b) \in Nat
  BY DEF Memory
<1>3. p \in Memory /\ d \in Memory /\ Len(p) = n /\ p \o d = b
  BY <1>1, <1>2, Cut, Zenon
<1>4. (a \o p) \o d = a \o b
  BY <1>3, JoinedTwice, ZenonT(60)
<1>5. Len(a) \in Nat /\ Len(a \o p) = Len(a) + n
  BY <1>3, Joined, Zenon
<1>6. a \o b # <<>>
  <2>1. Len(a \o b) = Len(a) + Len(b) /\ Len(a) \in Nat
    BY Joined, Zenon
  <2>2. Len(a \o b) >= 1
    BY <1>2, <2>1
  <2> QED
    BY <2>2
<1>7. /\ Len(G) + 1 \in 1 .. Len(L)
      /\ Len(L[Len(G) + 1]) \in Nat /\ BaseSize \in Nat /\ BaseSize <= Len(L[Len(G) + 1])
      /\ Expected(a) = IF Len(a) < BaseSize THEN BaseSize ELSE Len(L[Len(G) + 1])
  BY <1>6, ExpectedSize
<1>8. PICK x \in Nat : x = Len(L[Len(G) + 1])
  BY <1>7, Zenon
<1>9. Len(a \o p) <= x
  <2>1. CASE Len(a) < BaseSize
    BY <1>5, <1>7, <1>8, <2>1, SMTT(60)
  <2>2. CASE ~(Len(a) < BaseSize)
    BY <1>5, <1>7, <1>8, <2>2, Zenon
  <2> QED
    BY <2>1, <2>2, Zenon
<1>10. Len(G) < Len(L)
  BY <1>7
<1> QED
  BY <1>1, <1>4, <1>8, <1>9, <1>10, Zenon DEF Flow

(* A command that is read completely is dispatched.                         *)
LEMMA FlowDispatch ==
    ASSUME NEW L \in Seq(Memory), NEW G \in Seq(Memory), NEW a \in Memory, NEW b \in Memory,
           NEW r \in Nat, Flow(L, G, a, b, r),
           \A j \in 1 .. Len(L) : L[j] # <<>> /\ WellMade(L[j]),
           Len(a) >= BaseSize, Len(a) >= Expected(a)
    PROVE  Flow(L, Append(G, a), <<>>, b, r)
<1>1. BaseSize \in Nat /\ BaseSize >= 1
  BY StreamAssumption
<1>2. a # <<>>
  BY <1>1
<1>3. Len(a) \in Nat /\ Len(b) \in Nat /\ Len(a \o b) = Len(a) + Len(b)
      /\ (\A i \in 1 .. Len(a) : (a \o b)[i] = a[i])
      /\ (\A i \in 1 .. Len(b) : (a \o b)[Len(a) + i] = b[i])
  BY Joined, Zenon
<1>4. a \o b # <<>>
  <2>1. Len(a \o b) >= 1
    BY <1>1, <1>3
  <2> QED
    BY <2>1
<1>5. /\ Len(G) + 1 \in 1 .. Len(L)
      /\ Len(L[Len(G) + 1]) \in Nat
      /\ Expected(a) = IF Len(a) < BaseSize THEN BaseSize ELSE Len(L[Len(G) + 1])
  BY <1>4, ExpectedSize
<1>6. PICK c \in Memory : c = L[Len(G) + 1]
  BY <1>5
<1>7. Len(a) = Len(c)
  <2>1. Len(a) <= Len(c)
    BY <1>2, <1>6, Zenon DEF Flow
  <2>2. Len(a) >= Len(c)
    BY <1>1, <1>3, <1>5, <1>6
  <2> QED
    BY <1>3, <1>5, <1>6, <2>1, <2>2
<1>8. a = c
  <2>1. \A i \in 1 .. Len(c) : i <= Len(a \o b) => (a \o b)[i] = c[i]
    BY <1>4, <1>6, FirstUnit, SMTT(60)
  <2>2. \A i \in 1 .. Len(a) : a[i] = c[i]
    BY <1>3, <1>7, <2>1
  <2> QED
    BY <1>7, <2>2, SeqEqual, Zenon DEF Memory
<1>9. PICK H : H = Append(G, a)
  BY Zenon
<1>10. H \in Seq(Memory) /\ Len(H) = Len(G) + 1 /\ H[Len(G) + 1] = a
       /\ \A j \in 1 .. Len(G) : H[j] = G[j]
  BY <1>9
<1>11. PICK g \in Nat, N \in Nat : g = Len(G) /\ N = Len(L) /\ g + 1 \in 1 .. N
  BY <1>5
<1>12. \A j \in 1 .. g + 1 : H[j] = L[j]
  <2>1. \A j \in 1 .. g : G[j] = L[j]
    BY <1>11, Zenon DEF Flow
  <2> QED
    BY <1>6, <1>8, <1>10, <1>11, <2>1, SMTT(60)
<1>13. PICK u : u = a \o b
  BY Zenon
<1>14. PICK off : InTransit(L, off, g, u, r)
  BY <1>11, <1>13, Zenon DEF Flow
<1>15. PICK sizes : sizes = Sizes(L)
  BY Zenon
<1>16. Offsets(N, sizes, off)
  BY <1>11, <1>14, <1>15, Zenon DEF InTransit
<1>17. PICK k \in Nat, h \in Nat : k = Len(a) /\ h = Len(b)
  BY <1>3, Zenon
<1>18. sizes[g + 1] = k
  BY <1>6, <1>7, <1>11, <1>15, <1>17, SizesType, Zenon
<1>19. g + 1 \in 1 .. N + 1 /\ g + 2 \in 1 .. N + 1 /\ N + 1 \in 1 .. N + 1 /\ g + 1 + 1 = g + 2
  BY <1>11
<1>20. PICK x \in Nat, y \in Nat, e \in Nat : x = off[g + 1] /\ y = off[g + 2] /\ e = off[N + 1]
  BY <1>16, <1>19, Zenon DEF Offsets
<1>21. y = x + k
  BY <1>11, <1>16, <1>18, <1>19, <1>20, Zenon DEF Offsets
<1>22. x + (k + h) + r = e
  BY <1>3, <1>11, <1>13, <1>14, <1>17, <1>20, Zenon DEF InTransit
<1>23. Holds(L, sizes, off, g + 1, b)
  <2> SUFFICES ASSUME NEW j \in g + 2 .. N, NEW i \in 1 .. sizes[j], off[j] + i <= y + h
               PROVE  b[off[j] - y + i] = L[j][i]
    BY <1>11, <1>17, <1>19, <1>20, SMTT(60) DEF Holds
  <2>1. j \in 1 .. N /\ j \in 1 .. N + 1 /\ j \in g + 1 .. N /\ g + 2 <= j
    BY <1>11, SMTT(60)
  <2>2. PICK z \in Nat : z = off[j] /\ y <= z
    BY <1>16, <1>19, <1>20, <2>1, Zenon DEF Offsets
  <2>3. PICK w \in Nat : w = sizes[j]
    BY <1>16, <2>1, Zenon DEF Offsets
  <2>4. i \in Nat /\ i >= 1 /\ z + i <= y + h
    BY <2>2, <2>3
  <2>5. z - y + i \in 1 .. h
    BY <2>2, <2>4, Within, Zenon
  <2>6. u[z - x + i] = L[j][i]
    <3>1. Holds(L, sizes, off, g, u)
      BY <1>14, <1>15, Zenon DEF InTransit
    <3>2. z + i <= x + Len(u)
      <4>1. x + Len(u) = y + h
        BY <1>3, <1>13, <1>17, <1>21
      <4> QED
        BY <2>4, <4>1, Zenon
    <3> QED
      BY <1>11, <1>20, <2>1, <2>2, <3>1, <3>2, Zenon DEF Holds
  <2>7. z - x + i = k + (z - y + i)
    BY <1>21, <2>4
  <2>8. u[k + (z - y + i)] = b[z - y + i]
    BY <1>3, <1>13, <1>17, <2>5, Zenon
  <2> QED
    BY <2>2, <2>6, <2>7, <2>8, Zenon
<1>24. InTransit(L, off, g + 1, b, r)
  <2>1. y + h + r = e
    BY <1>21, <1>22
  <2> QED
    BY <1>11, <1>15, <1>16, <1>17, <1>19, <1>20, <1>23, <2>1, Zenon DEF InTransit
<1>25. <<>> \o b = b
  BY ConcatEmptySeq, Zenon DEF Memory
<1> QED
  BY <1>9, <1>10, <1>11, <1>12, <1>24, <1>25 DEF Flow

-----------------------------------------------------------------------------
(* The two sides.                                                           *)
LEMMA PeerFacts ==
    /\ \A s \in Sides : Peer(s) \in Sides /\ Peer(s) # s /\ Peer(Peer(s)) = s
    /\ \A s, q \in Sides : Peer(s) = q <=> s = Peer(q)
BY Zenon DEF Sides, Peer

(* A new command is well made.                                              *)
LEMMA NewCommandMade ==
    ASSUME NEW of \in Threads \X Nat, NEW size \in Nat, size >= BaseSize, NEW region \in Nat
    PROVE  /\ NewCommand(of, size, region) \in Memory /\ NewCommand(of, size, region) # <<>>
           /\ WellMade(NewCommand(of, size, region))
<1>1. BaseSize \in Nat /\ BaseSize >= 1
  BY StreamAssumption
<1>2. PICK n \in Nat : n = size + region /\ n >= 1
  BY <1>1
<1>3. PICK base : base = [Blank EXCEPT !.size = size, !.region = region, !.seek = size]
  BY Zenon
<1>4. Blank \in Bases /\ base \in Bases /\ base.size = size /\ base.region = region
      /\ base.seek = size /\ base.ids = <<>> /\ base.lens = <<>>
  <2>1. base = [size |-> size, region |-> region, seek |-> size, ids |-> <<>>, lens |-> <<>>]
    BY <1>3, Zenon DEF Blank
  <2>2. <<>> \in Seq(Nat)
    OBVIOUS
  <2> QED
    BY <2>1, <2>2, Zenon DEF Blank, Bases
<1>5. PICK first : first = [Unit(of, 0, 1) EXCEPT !.base = base]
  BY Zenon
<1>6. first \in Units /\ first.base = base /\ first.of = of
  BY <1>4, <1>5, Zenon DEF Units, Unit
<1>7. \A i \in Nat : Unit(of, 0, IF i <= size THEN i ELSE 0) \in Units
                     /\ Unit(of, 0, IF i <= size THEN i ELSE 0).of = of
  BY <1>4, Zenon DEF Units, Unit
<1>8. PICK m : m = NewCommand(of, size, region)
  BY Zenon
<1>9. m = [i \in 1 .. n |-> IF i = 1 THEN first ELSE Unit(of, 0, IF i <= size THEN i ELSE 0)]
  BY <1>2, <1>3, <1>5, <1>8, Zenon DEF NewCommand
<1>10. m \in Memory /\ Len(m) = n
  BY <1>6, <1>7, <1>9 DEF Memory
<1>11. m # <<>> /\ m[1] = first /\ \A i \in 1 .. n : m[i].of = of
  BY <1>2, <1>6, <1>7, <1>9, <1>10, SMTT(60)
<1>12. Base(m) = base
  BY <1>6, <1>11, Zenon DEF Base
<1>13. WellMade(m)
  BY <1>1, <1>2, <1>4, <1>6, <1>10, <1>11, <1>12 DEF WellMade, WholeSize
<1> QED
  BY <1>8, <1>10, <1>11, <1>13, Zenon

(* Room for one more buffer in a command.                                   *)
Roomy(m, len) == m # <<>> /\ WellMade(m) /\ Base(m).seek + len <= WholeSize(m)

(* So is a command to which one more buffer is attached: the new buffer is  *)
(* behind the others, which stay where they are.                            *)
LEMMA AttachMade ==
    ASSUME NEW m \in Memory, NEW len \in Nat \ {0}, Roomy(m, len)
    PROVE  /\ AttachBuffer(m, len) \in Memory /\ AttachBuffer(m, len) # <<>>
           /\ WellMade(AttachBuffer(m, len))
<1>1. PICK b : b = Base(m)
  BY Zenon
<1>2. m[1] \in Units /\ Len(m) \in Nat /\ Len(m) >= 1
  BY DEF Memory, Roomy
<1>3. b \in Bases
  BY <1>1, <1>2, Zenon DEF Units, Base
<1>4. PICK size \in Nat, region \in Nat, seek \in Nat, k \in Nat :
         b.size = size /\ b.region = region /\ b.seek = seek /\ k = Len(b.ids)
  BY <1>3 DEF Bases
<1>5. PICK ids \in Seq(Nat), lens \in Seq(Nat) : ids = b.ids /\ lens = b.lens
  BY <1>3, Zenon DEF Bases
<1>6. PICK N \in Nat : N = Len(m) /\ N >= 1 /\ N = size + region
  BY <1>1, <1>2, <1>4, Zenon DEF Roomy, WellMade, WholeSize
<1>7. BaseSize \in Nat /\ BaseSize >= 1 /\ BaseSize <= size /\ size <= seek /\ seek + len <= N
  BY <1>1, <1>4, <1>6, StreamAssumption DEF Roomy, WellMade, WholeSize
<1>8. Len(ids) = k /\ Len(lens) = k
  BY <1>1, <1>4, <1>5, Zenon DEF Roomy, WellMade
<1>9. PICK of \in Threads \X Nat : of = m[1].of
  BY <1>2, Zenon DEF Units
<1>10. \A i \in 1 .. N : m[i] \in Units /\ m[i].of = of
  BY <1>6, <1>9, SMTT(60) DEF Roomy, WellMade, Memory
<1>11. PICK base : base = [b EXCEPT !.seek = @ + len, !.ids = Append(@, BufferId(b)), !.lens = Append(@, len)]
  BY Zenon
<1>12. base \in Bases /\ base.size = size /\ base.region = region /\ base.seek = seek + len
       /\ base.ids = Append(ids, seek) /\ base.lens = Append(lens, len)
  <2>1. /\ base.size = b.size /\ base.region = b.region /\ base.seek = b.seek + len
        /\ base.ids = Append(b.ids, b.seek) /\ base.lens = Append(b.lens, len)
    BY <1>3, <1>11, Zenon DEF Bases, BufferId
  <2>2. base = [size |-> base.size, region |-> base.region, seek |-> base.seek,
                ids |-> base.ids, lens |-> base.lens]
    BY <1>3, <1>11, Zenon DEF Bases
  <2>3. Append(ids, seek) \in Seq(Nat) /\ Append(lens, len) \in Seq(Nat) /\ seek + len \in Nat
    OBVIOUS
  <2> QED
    BY <1>4, <1>5, <2>1, <2>2, <2>3, Zenon DEF Bases
<1>13. PICK first : first = [m[1] EXCEPT !.base = base]
  BY Zenon
<1>14. first \in Units /\ first.base = base /\ first.of = of
  BY <1>2, <1>9, <1>12, <1>13, Zenon DEF Units
<1>15. PICK a : a = AttachBuffer(m, len)
  BY Zenon
<1>16. a = [i \in 1 .. N |-> IF i = 1 THEN first
                             ELSE IF i \in seek + 1 .. seek + len THEN Unit(m[i].of, k + 1, i - seek)
                             ELSE m[i]]
  <2>1. DOMAIN m = 1 .. N
    <3>1. m \in Seq(Units)
      BY Zenon DEF Memory
    <3> QED
      BY <1>6, <3>1, LenProperties, Zenon
  <2> QED
    BY <1>1, <1>4, <1>11, <1>13, <1>15, <2>1, Zenon DEF AttachBuffer
<1>17. /\ a[1] = first
       /\ \A i \in 1 .. N : i \in seek + 1 .. seek + len => a[i] = Unit(of, k + 1, i - seek)
       /\ \A i \in 1 .. N : i # 1 /\ i \notin seek + 1 .. seek + len => a[i] = m[i]
  BY <1>6, <1>7, <1>10, <1>16, SMTT(30)
<1>18. Blank \in Bases
  BY DEF Blank, Bases
<1>19. \A i \in 1 .. N : a[i] \in Units /\ a[i].of = of
  <2> SUFFICES ASSUME NEW i \in 1 .. N
               PROVE  a[i] \in Units /\ a[i].of = of
    BY Zenon
  <2>1. CASE i = 1
    BY <1>14, <1>17, <2>1, Zenon
  <2>2. CASE i \in seek + 1 .. seek + len
    <3>1. i - seek \in Nat
      BY <2>2
    <3>2. PICK c : c = Unit(of, k + 1, i - seek)
      BY Zenon
    <3>3. c \in Units /\ c.of = of
      BY <1>18, <3>1, <3>2 DEF Unit, Units
    <3>4. a[i] = c
      BY <1>17, <2>2, <3>2, Zenon
    <3> QED
      BY <3>3, <3>4, Zenon
  <2>3. CASE i # 1 /\ i \notin seek + 1 .. seek + len
    BY <1>10, <1>17, <2>3, Zenon
  <2> QED
    BY <2>1, <2>2, <2>3, Zenon
<1>20. a \in Memory /\ Len(a) = N /\ a # <<>>
  <2>1. a \in [1 .. N -> Units]
    BY <1>16, <1>19, Zenon
  <2>2. a \in Seq(Units)
    BY <2>1
  <2>3. Len(a) = N
    BY <2>1, <2>2
  <2>4. a # <<>>
    BY <1>6, <2>3
  <2> QED
    BY <2>2, <2>3, <2>4, Zenon DEF Memory
<1>21. Base(a) = base
  BY <1>14, <1>17, Zenon DEF Base
<1>22. \A j \in 1 .. k + 1 : BufferAt(a, j)
  <2> SUFFICES ASSUME NEW j \in 1 .. k + 1
               PROVE  BufferAt(a, j)
    BY Zenon
  <2>1. CASE j = k + 1
    <3>1. base.ids[j] = seek /\ base.lens[j] = len
      BY <1>8, <1>12, <2>1
    <3>2. \A i \in 1 .. len : a[seek + i] = Unit(of, k + 1, i)
      <4> SUFFICES ASSUME NEW i \in 1 .. len
                   PROVE  a[seek + i] = Unit(of, k + 1, i)
        BY Zenon
      <4>1. seek + i \in 1 .. N /\ seek + i \in seek + 1 .. seek + len /\ seek + i - seek = i
        BY <1>7
      <4>2. a[seek + i] = Unit(of, k + 1, seek + i - seek)
        BY <1>17, <4>1, SMTT(60)
      <4> QED
        BY <4>1, <4>2, Zenon
    <3>3. seek >= BaseSize
      BY <1>7
    <3>4. a[1].of = of
      BY <1>14, <1>17, Zenon
    <3>5. Base(a).ids[j] = seek /\ Base(a).lens[j] = len /\ Base(a).seek = seek + len
      BY <1>12, <1>21, <3>1, Zenon
    <3>6. seek + len <= seek + len
      OBVIOUS
    <3>7. \A i \in 1 .. len : a[seek + i] = Unit(a[1].of, j, i)
      BY <2>1, <3>2, <3>4, Zenon
    <3> QED
      BY <3>3, <3>5, <3>6, <3>7, Zenon DEF BufferAt
  <2>2. CASE j \in 1 .. k
    <3>1. PICK x \in Nat, y \in Nat : x = ids[j] /\ y = lens[j]
      BY <1>8, <2>2, SMTT(60)
    <3>2. base.ids[j] = x /\ base.lens[j] = y
      <4>1. Append(ids, seek)[j] = ids[j] /\ Append(lens, len)[j] = lens[j]
        BY <1>8, <2>2
      <4> QED
        BY <1>12, <3>1, <4>1, Zenon
    <3>3. BufferAt(m, j)
      BY <1>1, <1>4, <2>2, Zenon DEF Roomy, WellMade
    <3>4. x >= BaseSize /\ x + y <= seek /\ \A i \in 1 .. y : m[x + i] = Unit(of, j, i)
      BY <1>1, <1>4, <1>5, <1>9, <3>1, <3>3, Zenon DEF BufferAt
    <3>5. \A i \in 1 .. y : a[x + i] = Unit(of, j, i)
      <4> SUFFICES ASSUME NEW i \in 1 .. y
                   PROVE  a[x + i] = Unit(of, j, i)
        BY Zenon
      <4>1. x + i \in 1 .. N /\ x + i # 1 /\ x + i \notin seek + 1 .. seek + len
        BY <1>7, <3>4
      <4> QED
        BY <1>17, <3>4, <4>1, Zenon
    <3>6. x + y <= seek + len
      BY <3>4
    <3> QED
      BY <1>12, <1>14, <1>17, <1>21, <3>2, <3>4, <3>5, <3>6, Zenon DEF BufferAt
  <2> QED
    BY <2>1, <2>2
<1>23. Len(base.ids) = k + 1 /\ Len(base.lens) = k + 1
  BY <1>8, <1>12
<1>24. size <= seek + len /\ size + region = N
  BY <1>6, <1>7
<1>25. WellMade(a)
  BY <1>7, <1>12, <1>14, <1>17, <1>19, <1>20, <1>21, <1>22, <1>23, <1>24, Zenon DEF Roomy, WellMade, WholeSize
<1> QED
  BY <1>15, <1>20, <1>25, Zenon

-----------------------------------------------------------------------------
(* Nothing is sent and no lock is held at first.                            *)
LEMMA StreamedInit == Init => Streamed
<1> SUFFICES ASSUME Init
             PROVE  Streamed
  BY Zenon
<1>1. <<>> \in Memory /\ <<>> \in Seq(Memory) /\ Len(<<>>) = 0
  BY DEF Memory
<1>2. TypeOK
  BY <1>1, Zenon DEF Init, TypeOK
<1>3. CommandsOK
  <2>1. /\ pc = [t \in Threads |-> "idle"]
        /\ cmd = [t \in Threads |-> [mem |-> <<>>, sent |-> 0]]
    BY Zenon DEF Init
  <2>2. \A t \in Threads : pc[t] = "idle" /\ cmd[t].mem = <<>> /\ cmd[t].sent = 0
    BY <2>1, Zenon
  <2>3. 0 <= Len(<<>>) /\ "idle" \notin {"building", "built", "exiting", "sending"}
    OBVIOUS
  <2>4. \A t \in Threads : cmd[t].sent <= Len(cmd[t].mem)
    BY <2>2, <2>3, Zenon
  <2> QED
    BY <2>2, <2>3, <2>4, Zenon DEF CommandsOK
<1>4. MutexOK
  BY StreamAssumption, Zenon DEF Init, MutexOK
<1>5. LogOK
  BY <1>1 DEF Init, LogOK
<1>6. FlowOK
  <2> SUFFICES ASSUME NEW s \in Sides
               PROVE  /\ Flow(log[s], got[Peer(s)], rx[Peer(s)].mem, stream[s], Unsent(s))
                      /\ rx[s].st = "poll" => rx[s].mem = <<>>
    BY Zenon DEF FlowOK
  <2>1. log[s] = <<>> /\ got[Peer(s)] = <<>> /\ rx[Peer(s)].mem = <<>> /\ stream[s] = <<>> /\ Unsent(s) = 0
    BY PeerFacts, Zenon DEF Init, Unsent
  <2>2. rx[s].mem = <<>>
    BY Zenon DEF Init
  <2> QED
    BY <2>1, <2>2, FlowInit, Zenon
<1> QED
  BY <1>2, <1>3, <1>4, <1>5, <1>6, Zenon DEF Streamed

(* A thread that does not send has a new command in memory.                 *)
Prepared(t, m, p) ==
    /\ cmd' = [cmd EXCEPT ![t] = [mem |-> m, sent |-> 0]]
    /\ pc' = [pc EXCEPT ![t] = p]
    /\ UNCHANGED <<mutex, stream, rx, got, log>>

(* Such a step keeps the invariant.                                         *)
LEMMA PrepareStep ==
    ASSUME Streamed, NEW t \in Threads, pc[t] # "sending",
           NEW m \in Memory, m # <<>>, WellMade(m), NEW p \in {"building", "built", "exiting"},
           Prepared(t, m, p),
           made' \in [Threads -> Nat], pool' \in [Sides -> Threads \cup {None}], up' \subseteq Sides
    PROVE  Streamed'
<1>1. PICK c : c = [mem |-> m, sent |-> 0]
  BY Zenon
<1>2. c \in [mem : Memory, sent : Nat] /\ c.mem = m /\ c.sent = 0
  BY <1>1, Zenon
<1>3. TypeOK
  BY Zenon DEF Streamed
<1>4. /\ cmd' \in [Threads -> [mem : Memory, sent : Nat]]
      /\ cmd'[t] = c /\ \A u \in Threads \ {t} : cmd'[u] = cmd[u]
  BY <1>1, <1>2, <1>3, Zenon DEF TypeOK, Prepared
<1>5. /\ pc' \in [Threads -> {"idle", "building", "built", "exiting", "sending", "gone"}]
      /\ pc'[t] = p /\ \A u \in Threads \ {t} : pc'[u] = pc[u]
  BY <1>3, Zenon DEF TypeOK, Prepared
<1>6. mutex' = mutex /\ stream' = stream /\ rx' = rx /\ got' = got /\ log' = log
  BY Zenon DEF Prepared
<1>7. TypeOK'
  BY <1>3, <1>4, <1>5, <1>6, Zenon DEF TypeOK
<1>8. Len(m) \in Nat
  BY DEF Memory
<1>9. CommandsOK'
  <2> SUFFICES ASSUME NEW u \in Threads
               PROVE  /\ pc'[u] \in {"building", "built", "exiting", "sending"} =>
                            cmd'[u].mem # <<>> /\ WellMade(cmd'[u].mem)
                      /\ cmd'[u].sent <= Len(cmd'[u].mem)
                      /\ pc'[u] # "sending" => cmd'[u].sent = 0
    BY Zenon DEF CommandsOK, WellMade, BufferAt
  <2>1. CASE u = t
    <3>1. pc'[u] = p /\ cmd'[u].mem = m /\ cmd'[u].sent = 0
      BY <1>2, <1>4, <1>5, <2>1, Zenon
    <3>2. 0 <= Len(m) /\ p # "sending"
      BY <1>8
    <3> QED
      BY <3>1, <3>2, Zenon
  <2>2. CASE u # t
    BY <1>4, <1>5, <2>2, Zenon DEF Streamed, CommandsOK
  <2> QED
    BY <2>1, <2>2, Zenon
<1>10. \A s \in Sides : mutex[s] # t
  BY StreamAssumption, ZenonT(60) DEF Streamed, MutexOK
<1>11. \A s \in Sides : mutex[s] # None => mutex[s] \in Threads /\ cmd'[mutex[s]] = cmd[mutex[s]]
  BY <1>3, <1>4, <1>10, Zenon DEF TypeOK
<1>12. MutexOK'
  <2>1. \A u \in Threads : pc'[u] = "sending" <=> mutex[SideOf[u]] = u
    BY <1>5, Zenon DEF Streamed, MutexOK
  <2>2. \A s \in Sides : mutex[s] # None => log[s] # <<>> /\ log[s][Len(log[s])] = cmd'[mutex[s]].mem
    BY <1>11, Zenon DEF Streamed, MutexOK
  <2> QED
    BY <1>6, <2>1, <2>2, Zenon DEF Streamed, MutexOK
<1>13. LogOK'
  BY <1>6, Zenon DEF Streamed, LogOK
<1>14. FlowOK'
  <2>1. \A s \in Sides : Unsent(s)' = Unsent(s)
    BY <1>6, <1>11, Zenon DEF Unsent
  <2> QED
    BY <1>6, <2>1, Zenon DEF Streamed, FlowOK
<1> QED
  BY <1>7, <1>9, <1>12, <1>13, <1>14, Zenon DEF Streamed

(* A stub makes a new command (command_channel_socket_new_command).         *)
LEMMA BuildStep ==
    ASSUME Streamed, NEW t \in Threads, NEW size \in StructSizes, NEW region \in RegionSizes,
           Build(t, size, region)
    PROVE  Streamed'
<1>1. TypeOK
  BY Zenon DEF Streamed
<1>2. size \in Nat /\ size >= BaseSize /\ region \in Nat
  BY StreamAssumption, Zenon
<1>3. PICK of \in Threads \X Nat : of = <<t, made[t] + 1>>
  <2>1. PICK x \in Nat : x = made[t]
    BY <1>1, Zenon DEF TypeOK
  <2>2. <<t, x + 1>> \in Threads \X Nat
    OBVIOUS
  <2> QED
    BY <2>1, <2>2, Zenon
<1>4. PICK m : m = NewCommand(of, size, region)
  BY Zenon
<1>5. m \in Memory /\ m # <<>> /\ WellMade(m)
  BY <1>2, <1>4, NewCommandMade, Zenon
<1>6. PICK p \in {"building", "built"} : p = Ready(m)
  BY Zenon DEF Ready
<1>7. Prepared(t, m, p) /\ pc[t] # "sending"
  BY <1>3, <1>4, <1>6, Zenon DEF Build, Prepared
<1>8. made' \in [Threads -> Nat]
  BY <1>1, SMTT(30) DEF Build, TypeOK
<1>9. pool' \in [Sides -> Threads \cup {None}] /\ up' \subseteq Sides
  BY <1>1, Zenon DEF Build, TypeOK
<1> QED
  BY <1>5, <1>7, <1>8, <1>9, PrepareStep, Zenon

(* A stub attaches a buffer (command_channel_socket_attach_buffer).         *)
LEMMA AttachStep ==
    ASSUME Streamed, NEW t \in Threads, NEW len \in BufferSizes, Attach(t, len)
    PROVE  Streamed'
<1>1. TypeOK
  BY Zenon DEF Streamed
<1>2. len \in Nat \ {0}
  BY StreamAssumption, Zenon
<1>3. PICK old \in Memory : old = cmd[t].mem
  BY <1>1, Zenon DEF TypeOK
<1>4. pc[t] = "building"
  BY Zenon DEF Attach
<1>5. Roomy(old, len)
  BY <1>3, <1>4, Zenon DEF Attach, Roomy, Streamed, CommandsOK
<1>6. PICK m : m = AttachBuffer(old, len)
  BY Zenon
<1>7. m \in Memory /\ m # <<>> /\ WellMade(m)
  BY <1>2, <1>5, <1>6, AttachMade, Zenon
<1>8. PICK p \in {"building", "built"} : p = Ready(m)
  BY Zenon DEF Ready
<1>9. cmd[t].sent = 0
  BY <1>4, Zenon DEF Streamed, CommandsOK
<1>10. cmd' = [cmd EXCEPT ![t] = [mem |-> m, sent |-> 0]]
  <2>1. cmd' = [cmd EXCEPT ![t].mem = m]
    BY <1>3, <1>6, Zenon DEF Attach
  <2>2. cmd \in [Threads -> [mem : Memory, sent : Nat]]
    BY <1>1, Zenon DEF TypeOK
  <2>3. [cmd[t] EXCEPT !.mem = m] = [mem |-> m, sent |-> 0]
    BY <1>9, <2>2
  <2> QED
    BY <2>1, <2>2, <2>3, Zenon
<1>11. Prepared(t, m, p) /\ pc[t] # "sending"
  BY <1>3, <1>4, <1>6, <1>8, <1>10, Zenon DEF Attach, Prepared
<1>12. made' \in [Threads -> Nat] /\ pool' \in [Sides -> Threads \cup {None}] /\ up' \subseteq Sides
  BY <1>1, Zenon DEF Attach, TypeOK
<1> QED
  BY <1>7, <1>11, <1>12, PrepareStep, Zenon

(* A thread that ends makes the command that says so.                       *)
LEMMA ExitStep ==
    ASSUME Streamed, NEW t \in Threads, Exit(t)
    PROVE  Streamed'
<1>1. TypeOK
  BY Zenon DEF Streamed
<1>2. BaseSize \in Nat /\ BaseSize >= BaseSize
  BY StreamAssumption
<1>3. PICK of \in Threads \X Nat : of = <<t, made[t] + 1>>
  <2>1. PICK x \in Nat : x = made[t]
    BY <1>1, Zenon DEF TypeOK
  <2>2. <<t, x + 1>> \in Threads \X Nat
    OBVIOUS
  <2> QED
    BY <2>1, <2>2, Zenon
<1>4. PICK m : m = NewCommand(of, BaseSize, 0)
  BY Zenon
<1>5. m \in Memory /\ m # <<>> /\ WellMade(m)
  BY <1>2, <1>4, NewCommandMade, Zenon
<1>6. Prepared(t, m, "exiting") /\ pc[t] # "sending"
  BY <1>3, <1>4, Zenon DEF Exit, Prepared
<1>7. pool' \in [Sides -> Threads \cup {None}]
  BY <1>1, Zenon DEF Exit, TypeOK
<1>8. made' \in [Threads -> Nat] /\ up' \subseteq Sides
  BY <1>1, Zenon DEF Exit, TypeOK
<1> QED
  BY <1>5, <1>6, <1>7, <1>8, PrepareStep, Zenon

(* The command of the thread that takes send_mutex is the last of the log.  *)
LEMMA LockStep ==
    ASSUME Streamed, NEW t \in Threads, Lock(t)
    PROVE  Streamed'
<1>1. TypeOK
  BY Zenon DEF Streamed
<1>2. PICK s \in Sides : s = SideOf[t]
  BY StreamAssumption, Zenon
<1>3. PICK m \in Memory : m = cmd[t].mem
  BY <1>1, Zenon DEF TypeOK
<1>4. /\ pc[t] \in {"built", "exiting"} /\ mutex[s] = None
      /\ mutex' = [mutex EXCEPT ![s] = t]
      /\ log' = [log EXCEPT ![s] = Append(log[s], m)]
      /\ pc' = [pc EXCEPT ![t] = "sending"]
      /\ cmd' = cmd /\ made' = made /\ pool' = pool /\ stream' = stream /\ rx' = rx
      /\ got' = got /\ up' = up
  BY <1>2, <1>3, Zenon DEF Lock, MutexFree
<1>5. PICK old \in Seq(Memory) : old = log[s]
  BY <1>1, Zenon DEF TypeOK
<1>6. PICK new \in Seq(Memory) : new = Append(old, m)
  <2>1. Append(old, m) \in Seq(Memory)
    OBVIOUS
  <2> QED
    BY <2>1, Zenon
<1>7. new # <<>> /\ Len(new) = Len(old) + 1 /\ new[Len(new)] = m
      /\ (\A j \in 1 .. Len(old) : new[j] = old[j]) /\ Len(old) \in Nat
  BY <1>6
<1>8. /\ log' \in [Sides -> Seq(Memory)] /\ log'[s] = new
      /\ \A q \in Sides \ {s} : log'[q] = log[q]
  BY <1>1, <1>4, <1>5, <1>6, Zenon DEF TypeOK
<1>9. /\ mutex' \in [Sides -> Threads \cup {None}] /\ mutex'[s] = t
      /\ \A q \in Sides \ {s} : mutex'[q] = mutex[q]
  BY <1>1, <1>4, Zenon DEF TypeOK
<1>10. /\ pc' \in [Threads -> {"idle", "building", "built", "exiting", "sending", "gone"}]
       /\ pc'[t] = "sending" /\ \A u \in Threads \ {t} : pc'[u] = pc[u]
  BY <1>1, <1>4, Zenon DEF TypeOK
<1>11. TypeOK'
  BY <1>1, <1>4, <1>8, <1>9, <1>10, Zenon DEF TypeOK
<1>12. m # <<>> /\ WellMade(m) /\ cmd[t].sent = 0
  BY <1>3, <1>4, Zenon DEF Streamed, CommandsOK
<1>13. CommandsOK'
  <2> SUFFICES ASSUME NEW u \in Threads
               PROVE  /\ pc'[u] \in {"building", "built", "exiting", "sending"} =>
                            cmd[u].mem # <<>> /\ WellMade(cmd[u].mem)
                      /\ cmd[u].sent <= Len(cmd[u].mem)
                      /\ pc'[u] # "sending" => cmd[u].sent = 0
    BY <1>4, Zenon DEF CommandsOK
  <2> QED
    BY <1>3, <1>10, <1>12, Zenon DEF Streamed, CommandsOK
<1>14. None \notin Threads /\ SideOf \in [Threads -> Sides]
  BY StreamAssumption, Zenon
<1>15. MutexOK'
  <2>1. \A u \in Threads : pc'[u] = "sending" <=> mutex'[SideOf[u]] = u
    <3> SUFFICES ASSUME NEW u \in Threads
                 PROVE  pc'[u] = "sending" <=> mutex'[SideOf[u]] = u
      BY Zenon
    <3>1. pc[u] = "sending" <=> mutex[SideOf[u]] = u
      BY Zenon DEF Streamed, MutexOK
    <3>2. CASE u = t
      BY <1>2, <1>9, <1>10, <3>2, Zenon
    <3>3. CASE u # t /\ SideOf[u] = s
      BY <1>4, <1>9, <1>10, <1>14, <3>1, <3>3, Zenon
    <3>4. CASE u # t /\ SideOf[u] # s
      BY <1>9, <1>10, <1>14, <3>1, <3>4, Zenon
    <3> QED
      BY <3>2, <3>3, <3>4, Zenon
  <2>2. \A q \in Sides : mutex'[q] # None => SideOf[mutex'[q]] = q
    BY <1>2, <1>9, Zenon DEF Streamed, MutexOK
  <2>3. \A q \in Sides : mutex'[q] # None => log'[q] # <<>> /\ log'[q][Len(log'[q])] = cmd[mutex'[q]].mem
    BY <1>3, <1>7, <1>8, <1>9, ZenonT(60) DEF Streamed, MutexOK
  <2> QED
    BY <1>4, <2>1, <2>2, <2>3, ZenonT(60) DEF MutexOK
<1>16. LogOK'
  <2>1. \A j \in 1 .. Len(new) : new[j] # <<>> /\ WellMade(new[j])
    BY <1>5, <1>7, <1>12, SMTT(60) DEF Streamed, LogOK
  <2>2. \A q \in Sides : \A j \in 1 .. Len(log'[q]) : log'[q][j] # <<>> /\ WellMade(log'[q][j])
    BY <1>8, <2>1, Zenon DEF Streamed, LogOK
  <2> QED
    BY <2>2, Zenon DEF LogOK
<1>17. FlowOK'
  <2> SUFFICES ASSUME NEW q \in Sides
               PROVE  /\ Flow(log'[q], got[Peer(q)], rx[Peer(q)].mem, stream[q], Unsent(q)')
                      /\ rx[q].st = "poll" => rx[q].mem = <<>>
    BY <1>4, Zenon DEF FlowOK
  <2>1. Flow(log[q], got[Peer(q)], rx[Peer(q)].mem, stream[q], Unsent(q))
        /\ (rx[q].st = "poll" => rx[q].mem = <<>>)
    BY Zenon DEF Streamed, FlowOK
  <2>2. CASE q = s
    <3>1. Unsent(q) = 0
      BY <1>4, <2>2, Zenon DEF Unsent
    <3>2. Unsent(q)' = Len(m)
      <4>1. Len(m) - 0 = Len(m)
        BY DEF Memory
      <4> QED
        BY <1>3, <1>4, <1>9, <1>12, <1>14, <2>2, <4>1, Zenon DEF Unsent
    <3>3. PICK G \in Seq(Memory), a \in Memory, b \in Memory :
             G = got[Peer(q)] /\ a = rx[Peer(q)].mem /\ b = stream[q]
      BY <1>1, PeerFacts, Zenon DEF TypeOK
    <3>4. Flow(old, G, a, b, 0)
      BY <1>5, <2>1, <2>2, <3>1, <3>3, Zenon
    <3>5. Flow(new, G, a, b, Len(m))
      BY <1>6, <3>4, FlowLock, Zenon
    <3> QED
      BY <1>8, <2>1, <2>2, <3>2, <3>3, <3>5, Zenon
  <2>3. CASE q # s
    <3>1. Unsent(q)' = Unsent(q)
      BY <1>4, <1>9, <2>3, Zenon DEF Unsent
    <3> QED
      BY <1>8, <2>1, <2>3, <3>1, Zenon
  <2> QED
    BY <2>2, <2>3, Zenon
<1> QED
  BY <1>11, <1>13, <1>15, <1>16, <1>17, Zenon DEF Streamed

(* The end of a process changes nothing that was sent.                      *)
LEMMA EndStep ==
    ASSUME Streamed, up' \subseteq Sides,
           UNCHANGED <<pc, cmd, made, mutex, pool, stream, rx, got, log>>
    PROVE  Streamed'
<1>1. /\ pc' = pc /\ cmd' = cmd /\ made' = made /\ mutex' = mutex /\ pool' = pool
      /\ stream' = stream /\ rx' = rx /\ got' = got /\ log' = log
  BY Zenon
<1>2. TypeOK'
  BY <1>1, Zenon DEF Streamed, TypeOK
<1>3. CommandsOK' /\ MutexOK' /\ LogOK'
  <2>1. CommandsOK'
    <3> SUFFICES ASSUME NEW u \in Threads
                 PROVE  /\ pc'[u] \in {"building", "built", "exiting", "sending"} =>
                              cmd'[u].mem # <<>> /\ WellMade(cmd'[u].mem)
                        /\ cmd'[u].sent <= Len(cmd'[u].mem)
                        /\ pc'[u] # "sending" => cmd'[u].sent = 0
      BY Zenon DEF CommandsOK, WellMade, BufferAt
    <3> QED
      BY <1>1, Zenon DEF Streamed, CommandsOK
  <2>2. MutexOK'
    BY <1>1, Zenon DEF Streamed, MutexOK
  <2>3. LogOK'
    <3> SUFFICES ASSUME NEW q \in Sides, NEW j \in 1 .. Len(log'[q])
                 PROVE  log'[q][j] # <<>> /\ WellMade(log'[q][j])
      BY Zenon DEF LogOK, WellMade, BufferAt
    <3> QED
      BY <1>1, Zenon DEF Streamed, LogOK
  <2> QED
    BY <2>1, <2>2, <2>3, Zenon
<1>4. \A s : Unsent(s)' = Unsent(s)
  BY <1>1, Zenon DEF Unsent
<1>5. FlowOK'
  BY <1>1, <1>4, Zenon DEF Streamed, FlowOK
<1> QED
  BY <1>2, <1>3, <1>5, Zenon DEF Streamed

(* A piece of the command of the holder of send_mutex enters the stream.    *)
PieceSent(t, s, piece, x) ==
    /\ stream' = [stream EXCEPT ![s] = stream[s] \o piece]
    /\ cmd' = [cmd EXCEPT ![t].sent = x]
    /\ UNCHANGED <<up, pc, made, mutex, pool, rx, got, log>>

(* A piece sent moves from what is not sent yet into the stream.            *)
LEMMA PieceStep ==
    ASSUME Streamed, NEW t \in Threads, NEW s \in Sides, s = SideOf[t], pc[t] = "sending",
           NEW m \in Memory, m = cmd[t].mem, NEW sent \in Nat, sent = cmd[t].sent,
           NEW n \in Nat, n >= 1, sent + n <= Len(m),
           PieceSent(t, s, SubSeq(m, sent + 1, sent + n), sent + n)
    PROVE  Streamed'
<1>1. TypeOK
  BY Zenon DEF Streamed
<1>2. /\ up' = up /\ pc' = pc /\ made' = made /\ mutex' = mutex /\ pool' = pool
      /\ rx' = rx /\ got' = got /\ log' = log
  BY Zenon DEF PieceSent
<1>3. PICK piece \in Memory : piece = SubSeq(m, sent + 1, sent + n)
  <2>1. SubSeq(m, sent + 1, sent + n) \in Memory
    BY SMTT(60) DEF Memory
  <2> QED
    BY <2>1, Zenon
<1>4. PICK b \in Memory : b = stream[s]
  BY <1>1, Zenon DEF TypeOK
<1>5. b \o piece \in Memory
  BY <1>3, Joined, Zenon
<1>6. /\ stream' \in [Sides -> Memory] /\ stream'[s] = b \o piece
      /\ \A q \in Sides \ {s} : stream'[q] = stream[q]
  BY <1>1, <1>3, <1>4, <1>5, Zenon DEF TypeOK, PieceSent
<1>7. PICK x \in Nat : x = sent + n
  OBVIOUS
<1>8. cmd \in [Threads -> [mem : Memory, sent : Nat]]
  BY <1>1, Zenon DEF TypeOK
<1>9. /\ cmd' \in [Threads -> [mem : Memory, sent : Nat]]
      /\ cmd'[t].mem = m /\ cmd'[t].sent = x /\ \A u \in Threads \ {t} : cmd'[u] = cmd[u]
  <2>1. cmd' = [cmd EXCEPT ![t].sent = x]
    BY <1>7, Zenon DEF PieceSent
  <2>2. PICK c : c = [cmd[t] EXCEPT !.sent = x]
    BY Zenon
  <2>3. c \in [mem : Memory, sent : Nat] /\ c.mem = m /\ c.sent = x
    BY <1>8, <2>2, Zenon
  <2> QED
    BY <1>8, <2>1, <2>2, <2>3, Zenon
<1>10. TypeOK'
  BY <1>1, <1>2, <1>6, <1>9, Zenon DEF TypeOK
<1>11. CommandsOK'
  <2> SUFFICES ASSUME NEW u \in Threads
               PROVE  /\ pc[u] \in {"building", "built", "exiting", "sending"} =>
                            cmd'[u].mem # <<>> /\ WellMade(cmd'[u].mem)
                      /\ cmd'[u].sent <= Len(cmd'[u].mem)
                      /\ pc[u] # "sending" => cmd'[u].sent = 0
    BY <1>2, Zenon DEF CommandsOK
  <2>1. CASE u = t
    <3>1. m # <<>> /\ WellMade(m)
      BY Zenon DEF Streamed, CommandsOK
    <3>2. x <= Len(m)
      BY <1>7, Zenon
    <3> QED
      BY <1>9, <2>1, <3>1, <3>2, Zenon
  <2>2. CASE u # t
    BY <1>9, <2>2, Zenon DEF Streamed, CommandsOK
  <2> QED
    BY <2>1, <2>2, Zenon
<1>12. mutex[s] = t /\ t # None
  BY StreamAssumption, Zenon DEF Streamed, MutexOK
<1>13. \A q \in Sides \ {s} : mutex[q] # t
  BY <1>12, Zenon DEF Streamed, MutexOK
<1>14. \A u \in Threads : cmd'[u].mem = cmd[u].mem
  BY <1>9, Zenon
<1>15. \A q \in Sides : mutex[q] # None => mutex[q] \in Threads
  BY <1>1, Zenon DEF TypeOK
<1>16. MutexOK'
  <2>1. \A q \in Sides : mutex[q] # None => log[q] # <<>> /\ log[q][Len(log[q])] = cmd'[mutex[q]].mem
    BY <1>14, <1>15, Zenon DEF Streamed, MutexOK
  <2> QED
    BY <1>2, <2>1, Zenon DEF Streamed, MutexOK
<1>17. LogOK'
  BY <1>2, Zenon DEF Streamed, LogOK
<1>18. FlowOK'
  <2> SUFFICES ASSUME NEW q \in Sides
               PROVE  /\ Flow(log[q], got[Peer(q)], rx[Peer(q)].mem, stream'[q], Unsent(q)')
                      /\ rx[q].st = "poll" => rx[q].mem = <<>>
    BY <1>2, Zenon DEF FlowOK
  <2>1. Flow(log[q], got[Peer(q)], rx[Peer(q)].mem, stream[q], Unsent(q))
        /\ (rx[q].st = "poll" => rx[q].mem = <<>>)
    BY Zenon DEF Streamed, FlowOK
  <2>2. CASE q = s
    <3>1. PICK L \in Seq(Memory), G \in Seq(Memory), a \in Memory :
             L = log[q] /\ G = got[Peer(q)] /\ a = rx[Peer(q)].mem
      BY <1>1, PeerFacts, Zenon DEF TypeOK
    <3>2. Unsent(q) = Len(m) - sent
      BY <1>12, <2>2, Zenon DEF Unsent
    <3>3. Unsent(q)' = Len(m) - (sent + n)
      BY <1>2, <1>7, <1>9, <1>12, <2>2, Zenon DEF Unsent
    <3>4. L # <<>> /\ L[Len(L)] = m
      BY <1>12, <2>2, <3>1, Zenon DEF Streamed, MutexOK
    <3>5. Flow(L, G, a, b, Len(m) - sent)
      BY <1>4, <2>1, <2>2, <3>1, <3>2, Zenon
    <3>6. Flow(L, G, a, b \o SubSeq(m, sent + 1, sent + n), Len(m) - (sent + n))
      BY <3>4, <3>5, FlowSend, Zenon
    <3> QED
      BY <1>3, <1>6, <2>1, <2>2, <3>1, <3>3, <3>6, Zenon
  <2>3. CASE q # s
    <3>1. Unsent(q)' = Unsent(q)
      BY <1>2, <1>9, <1>13, <1>15, <2>3, Zenon DEF Unsent
    <3> QED
      BY <1>6, <2>1, <2>3, <3>1, Zenon
  <2> QED
    BY <2>2, <2>3, Zenon
<1> QED
  BY <1>10, <1>11, <1>16, <1>17, <1>18, Zenon DEF Streamed

(* send_socket: send takes a piece, or the peer is gone.                    *)
LEMMA SendStep ==
    ASSUME Streamed, NEW t \in Threads, Send(t)
    PROVE  Streamed'
<1>1. TypeOK
  BY Zenon DEF Streamed
<1>2. PICK s \in Sides : s = SideOf[t]
  BY StreamAssumption, Zenon
<1>3. PICK m \in Memory, sent \in Nat : m = cmd[t].mem /\ sent = cmd[t].sent
  BY <1>1, Zenon DEF TypeOK
<1>4. Len(m) \in Nat
  BY DEF Memory
<1>5. pc[t] = "sending" /\ UNCHANGED <<pc, made, mutex, pool, rx, got, log>>
  BY Zenon DEF Send
<1>6. CASE /\ up' = up \ {s}
           /\ UNCHANGED <<stream, cmd>>
  <2>1. up' \subseteq Sides
    BY <1>1, <1>6, Zenon DEF TypeOK
  <2> QED
    BY <1>5, <1>6, <2>1, EndStep, Zenon
<1>7. ASSUME NEW n \in 1 .. Len(m) - sent,
             stream' = [stream EXCEPT ![s] = @ \o SubSeq(cmd[t].mem, cmd[t].sent + 1, cmd[t].sent + n)],
             cmd' = [cmd EXCEPT ![t].sent = @ + n],
             UNCHANGED up
      PROVE  Streamed'
  <2>1. n \in Nat /\ n >= 1 /\ sent + n <= Len(m)
    BY <1>4
  <2>2. stream' = [stream EXCEPT ![s] = stream[s] \o SubSeq(m, sent + 1, sent + n)]
    BY <1>1, <1>3, <1>7, Zenon DEF TypeOK
  <2>3. cmd' = [cmd EXCEPT ![t].sent = sent + n]
    BY <1>1, <1>3, <1>7, Zenon DEF TypeOK
  <2>4. PieceSent(t, s, SubSeq(m, sent + 1, sent + n), sent + n)
    BY <1>5, <1>7, <2>2, <2>3, Zenon DEF PieceSent
  <2> QED
    BY <1>2, <1>3, <1>5, <2>1, <2>4, PieceStep, Zenon
<1> QED
  BY <1>2, <1>3, <1>6, <1>7, Zenon DEF Send

(* send_mutex is released when all of the command is in the stream.         *)
LEMMA SentStep ==
    ASSUME Streamed, NEW t \in Threads, Sent(t)
    PROVE  Streamed'
<1>1. TypeOK
  BY Zenon DEF Streamed
<1>2. PICK s \in Sides : s = SideOf[t]
  BY StreamAssumption, Zenon
<1>3. PICK p \in {"gone", "idle"} : p = IF pool[s] = t THEN "gone" ELSE "idle"
  BY Zenon
<1>4. PICK c \in [mem : Memory, sent : Nat] : c = [mem |-> <<>>, sent |-> 0] /\ c.sent = 0 /\ c.mem = <<>>
  <2>1. <<>> \in Memory
    BY DEF Memory
  <2>2. [mem |-> <<>>, sent |-> 0] \in [mem : Memory, sent : Nat]
    BY <2>1, Zenon
  <2>3. [mem |-> <<>>, sent |-> 0].sent = 0 /\ [mem |-> <<>>, sent |-> 0].mem = <<>>
    BY Zenon
  <2> QED
    BY <2>2, <2>3, Zenon
<1>5. /\ pc[t] = "sending" /\ cmd[t].sent = Len(cmd[t].mem)
      /\ mutex' = [mutex EXCEPT ![s] = None]
      /\ pool' = [pool EXCEPT ![s] = Unlocked(s, t)]
      /\ cmd' = [cmd EXCEPT ![t] = c]
      /\ pc' = [pc EXCEPT ![t] = p]
      /\ made' = made /\ stream' = stream /\ rx' = rx /\ got' = got /\ log' = log /\ up' = up
  BY <1>2, <1>3, <1>4, Zenon DEF Sent, Released
<1>6. /\ mutex' \in [Sides -> Threads \cup {None}] /\ mutex'[s] = None
      /\ \A q \in Sides \ {s} : mutex'[q] = mutex[q]
  BY <1>1, <1>5, Zenon DEF TypeOK
<1>7. pool' \in [Sides -> Threads \cup {None}]
  <2>1. Unlocked(s, t) \in Threads \cup {None}
    BY <1>1, Zenon DEF TypeOK, Unlocked
  <2> QED
    BY <1>1, <1>5, <2>1, Zenon DEF TypeOK
<1>8. /\ cmd' \in [Threads -> [mem : Memory, sent : Nat]]
      /\ cmd'[t] = c /\ \A u \in Threads \ {t} : cmd'[u] = cmd[u]
  BY <1>1, <1>5, Zenon DEF TypeOK
<1>9. /\ pc' \in [Threads -> {"idle", "building", "built", "exiting", "sending", "gone"}]
      /\ pc'[t] = p /\ \A u \in Threads \ {t} : pc'[u] = pc[u]
  BY <1>1, <1>5, Zenon DEF TypeOK
<1>10. TypeOK'
  BY <1>1, <1>5, <1>6, <1>7, <1>8, <1>9, Zenon DEF TypeOK
<1>11. CommandsOK'
  <2> SUFFICES ASSUME NEW u \in Threads
               PROVE  /\ pc'[u] \in {"building", "built", "exiting", "sending"} =>
                            cmd'[u].mem # <<>> /\ WellMade(cmd'[u].mem)
                      /\ cmd'[u].sent <= Len(cmd'[u].mem)
                      /\ pc'[u] # "sending" => cmd'[u].sent = 0
    BY Zenon DEF CommandsOK, WellMade, BufferAt
  <2>1. CASE u = t
    <3>1. c.sent <= Len(c.mem)
      BY <1>4
    <3> QED
      BY <1>4, <1>8, <1>9, <2>1, <3>1, Zenon
  <2>2. CASE u # t
    BY <1>8, <1>9, <2>2, Zenon DEF Streamed, CommandsOK
  <2> QED
    BY <2>1, <2>2, Zenon
<1>12. None \notin Threads /\ SideOf \in [Threads -> Sides]
  BY StreamAssumption, Zenon
<1>13. mutex[s] = t
  BY <1>2, <1>5, Zenon DEF Streamed, MutexOK
<1>14. \A q \in Sides \ {s} : mutex[q] # t
  BY <1>2, <1>12 DEF Streamed, MutexOK
<1>15. \A q \in Sides \ {s} : mutex[q] # None => mutex[q] \in Threads /\ cmd'[mutex[q]] = cmd[mutex[q]]
  BY <1>1, <1>8, <1>14, Zenon DEF TypeOK
<1>16. MutexOK'
  <2>1. \A u \in Threads : pc'[u] = "sending" <=> mutex'[SideOf[u]] = u
    <3> SUFFICES ASSUME NEW u \in Threads
                 PROVE  pc'[u] = "sending" <=> mutex'[SideOf[u]] = u
      BY Zenon
    <3>1. pc[u] = "sending" <=> mutex[SideOf[u]] = u
      BY Zenon DEF Streamed, MutexOK
    <3>2. CASE u = t
      BY <1>2, <1>6, <1>9, <1>12, <3>2, Zenon
    <3>3. CASE u # t /\ SideOf[u] = s
      BY <1>6, <1>9, <1>12, <1>13, <3>1, <3>3, Zenon
    <3>4. CASE u # t /\ SideOf[u] # s
      BY <1>6, <1>9, <1>12, <3>1, <3>4, Zenon
    <3> QED
      BY <3>2, <3>3, <3>4, Zenon
  <2>2. \A q \in Sides : mutex'[q] # None => SideOf[mutex'[q]] = q
    BY <1>6, Zenon DEF Streamed, MutexOK
  <2>3. \A q \in Sides : mutex'[q] # None => log[q] # <<>> /\ log[q][Len(log[q])] = cmd'[mutex'[q]].mem
    BY <1>6, <1>15, SMTT(30) DEF Streamed, MutexOK
  <2> QED
    BY <1>5, <2>1, <2>2, <2>3, Zenon DEF MutexOK
<1>17. LogOK'
  BY <1>5, Zenon DEF Streamed, LogOK
<1>18. FlowOK'
  <2> SUFFICES ASSUME NEW q \in Sides
               PROVE  Unsent(q)' = Unsent(q)
    BY <1>5, Zenon DEF Streamed, FlowOK
  <2>1. CASE q = s
    <3>1. Unsent(q)' = 0
      BY <1>6, <2>1, Zenon DEF Unsent
    <3>2. PICK x \in Nat : x = Len(cmd[t].mem) /\ x = cmd[t].sent
      BY <1>1, <1>5, Zenon DEF TypeOK
    <3>3. Unsent(q) = x - x
      BY <1>12, <1>13, <2>1, <3>2, Zenon DEF Unsent
    <3> QED
      BY <3>1, <3>3
  <2>2. CASE q # s
    BY <1>6, <1>15, <2>2, Zenon DEF Unsent
  <2> QED
    BY <2>1, <2>2, Zenon
<1> QED
  BY <1>10, <1>11, <1>16, <1>17, <1>18, Zenon DEF Streamed

(* The dispatch thread of a side: what it changes, and what that leaves of  *)
(* the invariant to show.                                                   *)
LEMMA ReceiverStep ==
    ASSUME Streamed, NEW s \in Sides, UNCHANGED <<pc, cmd, made, mutex, pool, log, up>>,
           rx' \in [Sides -> [st : {"poll", "read"}, mem : Memory]],
           \A q \in Sides \ {s} : rx'[q] = rx[q] /\ got'[q] = got[q],
           stream' \in [Sides -> Memory],
           \A q \in Sides \ {Peer(s)} : stream'[q] = stream[q],
           got' \in [Sides -> Seq(Memory)],
           rx'[s].st = "poll" => rx'[s].mem = <<>>,
           Flow(log[Peer(s)], got'[s], rx'[s].mem, stream'[Peer(s)], Unsent(Peer(s)))
    PROVE  Streamed'
<1>1. /\ pc' = pc /\ cmd' = cmd /\ made' = made /\ mutex' = mutex /\ pool' = pool
      /\ log' = log /\ up' = up
  BY Zenon
<1>2. TypeOK'
  BY <1>1, Zenon DEF Streamed, TypeOK
<1>3. CommandsOK' /\ MutexOK' /\ LogOK'
  <2>1. CommandsOK'
    <3> SUFFICES ASSUME NEW u \in Threads
                 PROVE  /\ pc'[u] \in {"building", "built", "exiting", "sending"} =>
                              cmd'[u].mem # <<>> /\ WellMade(cmd'[u].mem)
                        /\ cmd'[u].sent <= Len(cmd'[u].mem)
                        /\ pc'[u] # "sending" => cmd'[u].sent = 0
      BY Zenon DEF CommandsOK, WellMade, BufferAt
    <3> QED
      BY <1>1, Zenon DEF Streamed, CommandsOK
  <2>2. MutexOK'
    BY <1>1, ZenonT(60) DEF Streamed, MutexOK
  <2>3. LogOK'
    <3> SUFFICES ASSUME NEW q \in Sides, NEW j \in 1 .. Len(log'[q])
                 PROVE  log'[q][j] # <<>> /\ WellMade(log'[q][j])
      BY Zenon DEF LogOK, WellMade, BufferAt
    <3> QED
      BY <1>1, ZenonT(60) DEF Streamed, LogOK
  <2> QED
    BY <2>1, <2>2, <2>3, Zenon
<1>4. \A q : Unsent(q)' = Unsent(q)
  BY <1>1, Zenon DEF Unsent
<1>5. FlowOK'
  <2> SUFFICES ASSUME NEW q \in Sides
               PROVE  /\ Flow(log[q], got'[Peer(q)], rx'[Peer(q)].mem, stream'[q], Unsent(q))
                      /\ rx'[q].st = "poll" => rx'[q].mem = <<>>
    BY <1>1, <1>4, Zenon DEF FlowOK
  <2>1. Flow(log[q], got[Peer(q)], rx[Peer(q)].mem, stream[q], Unsent(q))
        /\ (rx[q].st = "poll" => rx[q].mem = <<>>)
    BY Zenon DEF Streamed, FlowOK
  <2>2. CASE q = s
    BY <2>1, <2>2, PeerFacts, Zenon
  <2>3. CASE q # s
    <3>1. q = Peer(s) /\ Peer(q) = s
      BY <2>3 DEF Sides, Peer
    <3> QED
      BY <2>1, <2>3, <3>1, Zenon
  <2> QED
    BY <2>2, <2>3, Zenon
<1> QED
  BY <1>2, <1>3, <1>5, Zenon DEF Streamed

(* The dispatch thread polls and starts to receive a command.               *)
LEMMA PollStep ==
    ASSUME Streamed, NEW s \in Sides, Poll(s)
    PROVE  Streamed'
<1>1. TypeOK
  BY Zenon DEF Streamed
<1>2. rx[s].st = "poll" /\ UNCHANGED <<pc, cmd, made, mutex, pool, stream, got, log>>
  BY Zenon DEF Poll
<1>3. CASE up' = up \ {s} /\ UNCHANGED rx
  <2>1. up' \subseteq Sides
    BY <1>1, <1>3, Zenon DEF TypeOK
  <2> QED
    BY <1>2, <1>3, <2>1, EndStep, Zenon
<1>4. CASE rx' = [rx EXCEPT ![s].st = "read"] /\ UNCHANGED up
  <2>1. rx \in [Sides -> [st : {"poll", "read"}, mem : Memory]]
    BY <1>1, Zenon DEF TypeOK
  <2>2. /\ rx' \in [Sides -> [st : {"poll", "read"}, mem : Memory]]
        /\ rx'[s].st = "read" /\ rx'[s].mem = rx[s].mem
        /\ \A q \in Sides \ {s} : rx'[q] = rx[q]
    BY <1>4, <2>1, Zenon
  <2>3. stream' \in [Sides -> Memory] /\ got' \in [Sides -> Seq(Memory)]
    BY <1>1, <1>2, Zenon DEF TypeOK
  <2>4. Flow(log[Peer(s)], got'[s], rx'[s].mem, stream'[Peer(s)], Unsent(Peer(s)))
    BY <1>2, <2>2, PeerFacts, Zenon DEF Streamed, FlowOK
  <2>5. stream' = stream /\ got' = got /\ UNCHANGED <<pc, cmd, made, mutex, pool, log, up>>
    BY <1>2, <1>4, Zenon
  <2> QED
    BY <2>2, <2>3, <2>4, <2>5, ReceiverStep, Zenon
<1> QED
  BY <1>3, <1>4, Zenon DEF Poll

(* What is not sent yet is a number, and what is logged is well made.       *)
LEMMA StreamFacts ==
    ASSUME Streamed, NEW s \in Sides
    PROVE  /\ Unsent(s) \in Nat
           /\ \A j \in 1 .. Len(log[s]) : log[s][j] # <<>> /\ WellMade(log[s][j])
<1>1. TypeOK
  BY Zenon DEF Streamed
<1>2. Unsent(s) \in Nat
  <2>1. CASE mutex[s] = None
    BY <2>1, Zenon DEF Unsent
  <2>2. CASE mutex[s] # None
    <3>1. PICK t \in Threads : t = mutex[s]
      BY <1>1, <2>2, Zenon DEF TypeOK
    <3>2. cmd[t] \in [mem : Memory, sent : Nat]
      BY <1>1, Zenon DEF TypeOK
    <3>3. PICK x \in Nat, y \in Nat : x = Len(cmd[t].mem) /\ y = cmd[t].sent
      BY <3>2 DEF Memory
    <3>4. y <= x
      BY <3>3, Zenon DEF Streamed, CommandsOK
    <3>5. Unsent(s) = x - y
      BY <2>2, <3>1, <3>3, Zenon DEF Unsent
    <3> QED
      BY <3>4, <3>5
  <2> QED
    BY <2>1, <2>2, Zenon
<1> QED
  BY <1>2, Zenon DEF Streamed, LogOK

(* recv_socket: recv takes a piece, or the peer is gone.                    *)
LEMMA ReceiveStep ==
    ASSUME Streamed, NEW s \in Sides, Receive(s)
    PROVE  Streamed'
<1>1. TypeOK
  BY Zenon DEF Streamed
<1>2. rx[s].st = "read" /\ UNCHANGED <<pc, cmd, made, mutex, pool, got, log>>
  BY Zenon DEF Receive
<1>3. PICK p \in Sides : p = Peer(s) /\ Peer(p) = s
  BY PeerFacts, Zenon
<1>4. PICK a \in Memory, b \in Memory : a = rx[s].mem /\ b = stream[p]
  BY <1>1, Zenon DEF TypeOK
<1>5. CASE up' = up \ {s} /\ UNCHANGED <<rx, stream>>
  <2>1. up' \subseteq Sides
    BY <1>1, <1>5, Zenon DEF TypeOK
  <2> QED
    BY <1>2, <1>5, <2>1, EndStep, Zenon
<1>6. ASSUME NEW n \in 1 .. Expected(a) - Len(a), n <= Len(b),
             rx' = [rx EXCEPT ![s].mem = @ \o SubSeq(b, 1, n)],
             stream' = [stream EXCEPT ![p] = SubSeq(@, n + 1, Len(@))],
             UNCHANGED up
      PROVE  Streamed'
  <2>1. PICK c, d : c = SubSeq(b, 1, n) /\ d = SubSeq(b, n + 1, Len(b))
    BY Zenon
  <2>2. PICK L \in Seq(Memory), G \in Seq(Memory), r \in Nat : L = log[p] /\ G = got[s] /\ r = Unsent(p)
    BY <1>1, StreamFacts, Zenon DEF TypeOK
  <2>3. Flow(L, G, a, b, r)
    BY <1>3, <1>4, <2>2, Zenon DEF Streamed, FlowOK
  <2>4. \A j \in 1 .. Len(L) : L[j] # <<>> /\ WellMade(L[j])
    BY <2>2, StreamFacts, Zenon
  <2>5. Len(a) \in Nat /\ Len(b) \in Nat
    BY DEF Memory
  <2>6. n \in Int /\ n >= 1
    BY <1>6
  <2>7. n \in Nat /\ n \in 0 .. Len(b)
    BY <1>6, <2>5, <2>6
  <2>8. c \in Memory /\ d \in Memory
    BY <2>1, <2>7, Cut, Zenon
  <2>9. a \o b # <<>>
    <3>1. Len(a \o b) = Len(a) + Len(b)
      BY Joined, Zenon
    <3>2. Len(a \o b) >= 1
      BY <1>6, <2>5, <2>6, <3>1
    <3> QED
      BY <3>2
  <2>10. Expected(a) \in Nat
    <3>1. /\ Len(L[Len(G) + 1]) \in Nat /\ BaseSize \in Nat
          /\ Expected(a) = IF Len(a) < BaseSize THEN BaseSize ELSE Len(L[Len(G) + 1])
      BY <2>3, <2>4, <2>9, ExpectedSize
    <3> QED
      BY <3>1, Zenon
  <2>11. Len(a) + n <= Expected(a)
    BY <1>6, <2>5, <2>7, <2>10
  <2>12. Flow(L, G, a \o c, d, r)
    BY <1>6, <2>1, <2>3, <2>4, <2>6, <2>7, <2>11, FlowReceive, Zenon
  <2>13. a \o c \in Memory
    BY <2>8, Joined, Zenon
  <2>14. /\ rx' \in [Sides -> [st : {"poll", "read"}, mem : Memory]]
         /\ rx'[s].st = "read" /\ rx'[s].mem = a \o c
         /\ \A q \in Sides \ {s} : rx'[q] = rx[q]
    <3>1. rx \in [Sides -> [st : {"poll", "read"}, mem : Memory]]
      BY <1>1, Zenon DEF TypeOK
    <3>2. PICK x : x = [rx[s] EXCEPT !.mem = a \o c]
      BY Zenon
    <3>3. x \in [st : {"poll", "read"}, mem : Memory] /\ x.st = "read" /\ x.mem = a \o c
      BY <1>2, <2>13, <3>1, <3>2, Zenon
    <3>4. rx' = [rx EXCEPT ![s] = x]
      BY <1>4, <1>6, <2>1, <3>1, <3>2, Zenon
    <3> QED
      BY <3>1, <3>3, <3>4, Zenon
  <2>15. /\ stream' \in [Sides -> Memory] /\ stream'[p] = d
         /\ \A q \in Sides \ {p} : stream'[q] = stream[q]
    BY <1>1, <1>4, <1>6, <2>1, <2>8, Zenon DEF TypeOK
  <2>16. got' = got /\ got' \in [Sides -> Seq(Memory)] /\ UNCHANGED <<pc, cmd, made, mutex, pool, log, up>>
    BY <1>1, <1>2, <1>6, Zenon DEF TypeOK
  <2>17. Flow(log[Peer(s)], got'[s], rx'[s].mem, stream'[Peer(s)], Unsent(Peer(s)))
    BY <1>3, <2>2, <2>12, <2>14, <2>15, <2>16, Zenon
  <2> QED
    BY <1>3, <2>14, <2>15, <2>16, <2>17, ReceiverStep, Zenon
<1> QED
  BY <1>3, <1>4, <1>5, <1>6, Zenon DEF Receive

(* A command that is whole is dispatched.                                   *)
LEMMA DispatchStep ==
    ASSUME Streamed, NEW s \in Sides, Dispatch(s)
    PROVE  Streamed'
<1>1. TypeOK
  BY Zenon DEF Streamed
<1>2. PICK p \in Sides : p = Peer(s) /\ Peer(p) = s
  BY PeerFacts, Zenon
<1>3. PICK a \in Memory, b \in Memory : a = rx[s].mem /\ b = stream[p]
  BY <1>1, Zenon DEF TypeOK
<1>4. PICK L \in Seq(Memory), G \in Seq(Memory), r \in Nat : L = log[p] /\ G = got[s] /\ r = Unsent(p)
  BY <1>1, StreamFacts, Zenon DEF TypeOK
<1>5. /\ Len(a) >= BaseSize /\ Len(a) >= Expected(a)
      /\ got' = [got EXCEPT ![s] = Append(G, a)]
      /\ rx' = [rx EXCEPT ![s] = [st |-> "poll", mem |-> <<>>]]
      /\ stream' = stream
      /\ UNCHANGED <<pc, cmd, made, mutex, pool, log, up>>
  BY <1>1, <1>3, <1>4, Zenon DEF Dispatch, TypeOK
<1>6. Flow(L, G, a, b, r)
  BY <1>2, <1>3, <1>4, Zenon DEF Streamed, FlowOK
<1>7. \A j \in 1 .. Len(L) : L[j] # <<>> /\ WellMade(L[j])
  BY <1>4, StreamFacts, Zenon
<1>8. Flow(L, Append(G, a), <<>>, b, r)
  BY <1>5, <1>6, <1>7, FlowDispatch, Zenon
<1>9. PICK x \in [st : {"poll", "read"}, mem : Memory] : x = [st |-> "poll", mem |-> <<>>] /\ x.mem = <<>>
  <2>1. <<>> \in Memory
    BY DEF Memory
  <2>2. [st |-> "poll", mem |-> <<>>] \in [st : {"poll", "read"}, mem : Memory]
    BY <2>1, Zenon
  <2> QED
    BY <2>2, Zenon
<1>10. /\ rx' \in [Sides -> [st : {"poll", "read"}, mem : Memory]]
       /\ rx'[s].mem = <<>> /\ \A q \in Sides \ {s} : rx'[q] = rx[q]
  BY <1>1, <1>5, <1>9, Zenon DEF TypeOK
<1>11. Append(G, a) \in Seq(Memory)
  BY SMTT(30)
<1>12. /\ got' \in [Sides -> Seq(Memory)] /\ got'[s] = Append(G, a)
       /\ \A q \in Sides \ {s} : got'[q] = got[q]
  BY <1>1, <1>5, <1>11, Zenon DEF TypeOK
<1>13. stream' \in [Sides -> Memory]
  BY <1>1, <1>5, Zenon DEF TypeOK
<1>14. Flow(log[Peer(s)], got'[s], rx'[s].mem, stream'[Peer(s)], Unsent(Peer(s)))
  BY <1>2, <1>3, <1>4, <1>5, <1>8, <1>10, <1>12, Zenon
<1>15. \A q \in Sides \ {Peer(s)} : stream'[q] = stream[q]
  BY <1>5, Zenon
<1>16. UNCHANGED <<pc, cmd, made, mutex, pool, log, up>>
  BY <1>5, Zenon
<1> QED
  BY <1>10, <1>12, <1>13, <1>14, <1>15, <1>16, ReceiverStep, Zenon

-----------------------------------------------------------------------------
(* Every step keeps the invariant.                                          *)
LEMMA StreamedStep == Streamed /\ [Next]_vars => Streamed'
<1> SUFFICES ASSUME Streamed, [Next]_vars
             PROVE  Streamed'
  BY Zenon
<1>1. ASSUME NEW t \in Threads, NEW size \in StructSizes, NEW region \in RegionSizes,
             Build(t, size, region)
      PROVE  Streamed'
  BY <1>1, BuildStep, Zenon
<1>2. ASSUME NEW t \in Threads, NEW len \in BufferSizes, Attach(t, len)
      PROVE  Streamed'
  BY <1>2, AttachStep, Zenon
<1>3. ASSUME NEW t \in Threads, Sender(t)
      PROVE  Streamed'
  BY <1>3, ExitStep, LockStep, SendStep, SentStep, Zenon DEF Sender
<1>4. ASSUME NEW s \in Sides, Dispatcher(s)
      PROVE  Streamed'
  BY <1>4, PollStep, ReceiveStep, DispatchStep, Zenon DEF Dispatcher
<1>5. ASSUME NEW s \in Sides, End(s)
      PROVE  Streamed'
  <2>1. up' \subseteq Sides
    BY <1>5, Zenon DEF End, Streamed, TypeOK
  <2> QED
    BY <1>5, <2>1, EndStep, Zenon DEF End
<1>6. CASE UNCHANGED vars
  <2>1. up' \subseteq Sides
    BY <1>6, Zenon DEF vars, Streamed, TypeOK
  <2> QED
    BY <1>6, <2>1, EndStep, Zenon DEF vars
<1> QED
  BY <1>1, <1>2, <1>3, <1>4, <1>5, <1>6, Zenon DEF Next

(* Commands, stream and locks agree at all times.                           *)
THEOREM StreamKeepsCommands == Spec => []Streamed
<1>1. Init => Streamed
  BY StreamedInit, Zenon
<1>2. Streamed /\ [Next]_vars => Streamed'
  BY StreamedStep, Zenon
<1> QED
  BY <1>1, <1>2, PTL DEF Spec

(* The commands a side dispatches are those its peer has sent, whole and in *)
(* the order of send_mutex (socket_send_command, socket_receive_command).   *)
THEOREM CommandsArrive == Spec => []CommandsArriveWhole
<1>1. Streamed => CommandsArriveWhole
  <2> SUFFICES ASSUME Streamed, NEW s \in Sides
               PROVE  /\ Len(got[s]) <= Len(log[Peer(s)])
                      /\ got[s] = SubSeq(log[Peer(s)], 1, Len(got[s]))
    BY Zenon DEF CommandsArriveWhole
  <2>1. PICK p \in Sides : p = Peer(s) /\ Peer(p) = s
    BY PeerFacts, Zenon
  <2>2. PICK L \in Seq(Memory), G \in Seq(Memory) : L = log[p] /\ G = got[s]
    BY Zenon DEF Streamed, TypeOK
  <2>3. Len(G) <= Len(L) /\ \A j \in 1 .. Len(G) : G[j] = L[j]
    BY <2>1, <2>2, ZenonT(60) DEF Streamed, FlowOK, Flow
  <2> PICK n \in Nat : n = Len(G)
    BY LenProperties, Zenon
  <2>4. PICK H : n = Len(G) /\ H = SubSeq(L, 1, n)
    BY Zenon
  <2>5. \A j \in 1 .. n : j \in 1 .. Len(L)
    BY <2>3, <2>4
  <2>6. \A j \in 1 .. n : L[j] \in Memory
    BY <2>5, ElementOfSeq, ZenonT(60)
  <2>7. H \in Seq(Memory) /\ Len(H) = n /\ \A j \in 1 .. n : H[j] = L[j]
    BY <2>4, <2>6, SubSeqProperties
  <2>8. G = H
    BY <2>3, <2>4, <2>7, SeqEqual, Zenon
  <2> QED
    BY <2>1, <2>2, <2>3, <2>4, <2>8, Zenon
<1> QED
  BY <1>1, StreamKeepsCommands, PTL

(* The id of a buffer leads the receiver to the data the sender attached    *)
(* (socket_attach_buffer, socket_get_buffer).                               *)
THEOREM BuffersArrive == Spec => []BuffersReadBack
<1>1. Streamed => BuffersReadBack
  <2> SUFFICES ASSUME Streamed, NEW s \in Sides, NEW j \in DOMAIN got[s],
                      NEW k \in DOMAIN Base(got[s][j]).ids
               PROVE  GetBuffer(got[s][j], Base(got[s][j]).ids[k], Base(got[s][j]).lens[k])
                        = [i \in 1 .. Base(got[s][j]).lens[k] |-> Unit(got[s][j][1].of, k, i)]
    BY Zenon DEF BuffersReadBack
  <2> PICK g : g = got[s][j]
    BY Zenon
  <2>1. PICK p \in Sides : p = Peer(s) /\ Peer(p) = s
    BY PeerFacts, Zenon
  <2>2. PICK L \in Seq(Memory), G \in Seq(Memory) : L = log[p] /\ G = got[s]
    BY Zenon DEF Streamed, TypeOK
  <2>3. j \in 1 .. Len(G) /\ g = G[j]
    BY <2>2, SMTT(30)
  <2>4. g = L[j] /\ j \in 1 .. Len(L) /\ g \in Memory
    <3>1. Len(G) <= Len(L) /\ \A i \in 1 .. Len(G) : G[i] = L[i]
      BY <2>1, <2>2, ZenonT(60) DEF Streamed, FlowOK, Flow
    <3>2. j \in 1 .. Len(L)
      BY <2>3, <3>1
    <3> QED
      BY <2>3, <3>1, <3>2, SMTT(30)
  <2>5. g # <<>> /\ WellMade(g)
    BY <2>2, <2>4, Zenon DEF Streamed, LogOK
  <2>6. g[1] \in Units /\ Len(g) \in Nat
    BY <2>4, <2>5 DEF Memory
  <2>7. PICK b \in Bases : b = Base(g)
    BY <2>6, Zenon DEF Units, Base
  <2>8. k \in 1 .. Len(b.ids) /\ Len(b.lens) = Len(b.ids)
    BY <2>5, <2>7, SMTT(60) DEF WellMade, Bases
  <2>9. PICK x \in Nat, y \in Nat, z \in Nat : x = b.ids[k] /\ y = b.lens[k] /\ z = b.seek
    BY <2>7, <2>8, SMTT(60) DEF Bases
  <2>10. /\ x + y <= z /\ z <= Len(g)
         /\ \A i \in 1 .. y : g[x + i] = Unit(g[1].of, k, i)
    BY <2>5, <2>7, <2>8, <2>9, Zenon DEF WellMade, BufferAt
  <2>11. SubSeq(g, x + 1, x + y) = [i \in 1 .. y |-> Unit(g[1].of, k, i)]
    <3>1. PICK c : c = SubSeq(g, x + 1, x + y)
      BY Zenon
    <3>2. c \in Seq(Units) /\ Len(c) = y /\ \A i \in 1 .. y : c[i] = g[x + i]
      <4>1. PICK e \in Nat : e = Len(g) /\ z <= e
        BY <2>6, <2>10, Zenon
      <4>2. x + y <= e
        BY <2>10, <4>1
      <4>3. x + y <= Len(g)
        BY <4>1, <4>2, Zenon
      <4> QED
        BY <2>4, <3>1, <4>3, Cutting, ZenonT(60)
    <3>3. c \in [1 .. y -> Units]
      BY <3>2, LenProperties, Zenon
    <3> QED
      BY <2>10, <3>1, <3>2, <3>3, Zenon
  <2> QED
    BY <2>7, <2>9, <2>11, Zenon DEF GetBuffer
<1> QED
  BY <1>1, StreamKeepsCommands, PTL
=============================================================================
