--------------------------- MODULE ShmBlockProofs ---------------------------
(***************************************************************************)
(* Proofs about ShmBlock, for every number of threads, every block and all  *)
(* sizes that FittingRegions and FreshBlock admit: regions stay in the half *)
(* of their side, and a region is valid for a lap of the allocator.         *)
(***************************************************************************)
EXTENDS ShmBlock, TLAPS

(* The largest region a command may have.                                   *)
Region == Largest + Header

Cmd == [thr : Threads, lo : Nat, since : 0 .. Half, len : Nat, st : {"built", "sent", "held"}]

(* The region of c lies in the half of side e.                              *)
InPlace(e, c) ==
    /\ Start(e) <= c.lo /\ c.lo + c.len <= Limit(e)
    /\ c.len <= Region

(* Where the offset k is, seen from c: behind c and what was reserved since *)
(* (no wrap), or so that c, what was reserved since less what lies before   *)
(* k, and one more region did not fit (a wrap).                             *)
Lap(k, c) ==
    \/ c.since >= Half
    \/ k = c.lo + c.len + c.since
    \/ c.lo + c.len + c.since + Region >= Half + k

(* d was reserved after c: its place, seen from c, as the offset was then.  *)
After(c, d) ==
    \/ c.since >= Half
    \/ /\ c.since >= d.since + d.len
       /\ \/ d.lo + d.len = c.lo + c.len + (c.since - d.since)
          \/ c.lo + c.len + (c.since - d.since) + Region >= Half + d.lo + d.len

(* The invariant of one side, with offset k and commands L.                 *)
SideOK(e, k, L) ==
    /\ k \in Nat /\ Start(e) <= k /\ k + Region < Word
    /\ L \subseteq Cmd
    /\ \A c \in L : c.len # 0 => InPlace(e, c) /\ Lap(k, c)
    /\ \A c, d \in L : c # d /\ c.len # 0 /\ d.len # 0 => After(c, d) \/ After(d, c)

IInv ==
    /\ cur \in [Sides -> Nat] /\ live \in [Sides -> SUBSET Cmd]
    /\ \A e \in Sides : SideOK(e, cur[e], live[e])

-----------------------------------------------------------------------------
(* The numbers the proofs use: Half, Region and the limits of the sides.    *)
LEMMA Numbers ==
    ASSUME FittingRegions, FreshBlock
    PROVE  /\ Half \in Nat /\ BlockSize \in Nat /\ Word \in Nat /\ 2 * BlockSize < Word
           /\ Half + Half <= BlockSize
           /\ Header \in Nat \ {0} /\ Region \in Nat /\ Region < Half
           /\ \A s \in DataSizes : s \in Nat /\ s + Header <= Region
           /\ \A g \in GuestOffsets : g \in Nat /\ g + Region < Word
           /\ \A e \in Sides : /\ Start(e) \in Nat /\ Limit(e) \in Nat
                               /\ Start(e) + Half <= Limit(e) /\ Limit(e) <= BlockSize
<1>1. /\ BlockSize \in Nat /\ Word \in Nat /\ 2 * BlockSize < Word /\ Header \in Nat \ {0}
      /\ Half \in Nat /\ Half + Half <= BlockSize
  BY BlockAssumption DEF Half
<1>2. Largest \in DataSizes /\ \A r \in DataSizes : r <= Largest
  BY BlockAssumption, Zenon DEF Largest
<1>3. DataSizes \subseteq Nat /\ GuestOffsets \subseteq Nat
  BY BlockAssumption
<1>4. /\ Region \in Nat /\ Region < Half
      /\ \A s \in DataSizes : s \in Nat /\ s + Header <= Region
  BY <1>1, <1>2, <1>3 DEF Region, FittingRegions
<1>5. \A g \in GuestOffsets : g \in Nat /\ g + Region < Word
  BY <1>1, <1>2, <1>3 DEF Region, FreshBlock
<1>6. \A e \in Sides : /\ Start(e) \in Nat /\ Limit(e) \in Nat
                       /\ Start(e) + Half <= Limit(e) /\ Limit(e) <= BlockSize
  BY <1>1 DEF Sides, Start, Limit
<1> QED  BY <1>1, <1>4, <1>5, <1>6

(* An offset below the size of the word is not changed by the wrap of the   *)
(* word.                                                                    *)
LEMMA NoWordWrap ==
    ASSUME NEW a \in Nat, NEW w \in Nat, a < w
    PROVE  a % w = a
OBVIOUS

(* reserve_param_block: the region it returns, and where the offset goes.   *)
LEMMA ReservedRegion ==
    ASSUME FittingRegions, FreshBlock, NEW e \in Sides, NEW k \in Nat, NEW n \in Nat,
           Start(e) <= k, k + Region < Word, n <= Region, n # 0
    PROVE  LET lo == Reserve(e, k, n) IN
           /\ lo \in Nat /\ Start(e) <= lo /\ lo + n <= Limit(e)
           /\ Advance(lo, n) = lo + n /\ lo + n + Region < Word
           /\ \/ lo = k
              \/ lo = Start(e) /\ k + n >= Limit(e)
<1> USE Numbers
<1>1. k + n \in Nat /\ k + n < Word
  OBVIOUS
<1>2. (k + n) % Word = k + n
  BY <1>1, NoWordWrap, SMTT(60)
<1> DEFINE lo == Reserve(e, k, n)
<1>3. \/ lo = k /\ k + n < Limit(e)
      \/ lo = Start(e) /\ k + n >= Limit(e)
  BY <1>1, <1>2 DEF Reserve
<1>4. lo \in Nat /\ Start(e) <= lo /\ lo + n <= Limit(e)
  BY <1>3
<1>5. lo + n \in Nat /\ lo + n + Region < Word
  BY <1>4
<1>6. lo + n < Word
  BY <1>4, <1>5
<1>7. Advance(lo, n) = lo + n
  BY <1>5, <1>6, NoWordWrap, Zenon DEF Advance
<1> QED  BY <1>3, <1>4, <1>5, <1>7

(* The age of a command after a reservation of n bytes.                     *)
LEMMA AgeGrows ==
    ASSUME FittingRegions, FreshBlock, NEW c \in Cmd, NEW n \in Nat
    PROVE  LET d == Older(c, n) IN
           /\ d \in Cmd /\ d.lo = c.lo /\ d.len = c.len /\ d.thr = c.thr /\ d.st = c.st
           /\ \/ d.since = c.since + n
              \/ d.since >= Half
BY Numbers DEF Older, Cmd

(* A reservation of n bytes at lo keeps what Lap says of an older command,  *)
(* and puts the new one after it.                                           *)
LEMMA LapStep ==
    ASSUME FittingRegions, FreshBlock, NEW e \in Sides, NEW k \in Nat, NEW n \in Nat,
           Start(e) <= k, k + Region < Word, n <= Region, n # 0,
           NEW c \in Cmd, InPlace(e, c), Lap(k, c),
           NEW d \in Cmd, d.lo = Reserve(e, k, n), d.len = n, d.since = 0
    PROVE  /\ Lap(d.lo + n, Older(c, n))
           /\ After(Older(c, n), d)
<1> DEFINE b == Older(c, n)
           lo == Reserve(e, k, n)
<1>1. /\ lo \in Nat
      /\ \/ lo = k
         \/ lo = Start(e) /\ k + n >= Limit(e)
  BY ReservedRegion
<1>2. /\ b \in Cmd /\ b.lo = c.lo /\ b.len = c.len
      /\ b.since = c.since + n \/ b.since >= Half
  BY AgeGrows
<1>3. c.lo \in Nat /\ c.len \in Nat /\ c.since \in Nat /\ b.since \in Nat
  BY <1>2 DEF Cmd
<1>4. d.lo = lo /\ d.len = n /\ d.since = 0
  OBVIOUS
<1>5. Half \in Nat /\ Region \in Nat /\ Start(e) \in Nat /\ Limit(e) >= Start(e) + Half /\ Limit(e) \in Nat
  BY Numbers
<1> SUFFICES Lap(lo + n, b) /\ After(b, d)
  BY <1>4
<1> HIDE DEF b, lo
<1>6. CASE b.since >= Half
  BY <1>6 DEF Lap, After
<1>7. CASE b.since < Half /\ b.since = c.since + n
  <2>1. c.since < Half
    BY <1>3, <1>5, <1>7
  <2>2. \/ lo + n = c.lo + c.len + (c.since + n)
        \/ c.lo + c.len + (c.since + n) + Region >= Half + (lo + n)
    <3>1. CASE lo = k
      BY <2>1, <3>1, <1>3, <1>5 DEF Lap
    <3>2. CASE lo = Start(e) /\ k + n >= Limit(e)
      BY <2>1, <3>2, <1>3, <1>5 DEF Lap
    <3> QED  BY <1>1, <3>1, <3>2
  <2>3. Lap(lo + n, b)
    BY <2>2, <1>2, <1>7 DEF Lap
  <2>4. b.since >= d.since + d.len /\ b.since - d.since = c.since + n
    BY <1>3, <1>4, <1>7
  <2>5. \/ d.lo + d.len = b.lo + b.len + (b.since - d.since)
        \/ b.lo + b.len + (b.since - d.since) + Region >= Half + d.lo + d.len
    BY <2>2, <2>4, <1>1, <1>2, <1>3, <1>4, <1>5
  <2> QED  BY <2>3, <2>4, <2>5 DEF After
<1> QED  BY <1>2, <1>3, <1>5, <1>6, <1>7

(* Two commands age together.                                               *)
LEMMA AfterStep ==
    ASSUME FittingRegions, FreshBlock, NEW c \in Cmd, NEW d \in Cmd, NEW n \in Nat,
           d.len # 0, After(c, d)
    PROVE  After(Older(c, n), Older(d, n))
<1> DEFINE b == Older(c, n)
           a == Older(d, n)
<1> USE Numbers
<1>1. /\ b \in Cmd /\ b.lo = c.lo /\ b.len = c.len
      /\ a \in Cmd /\ a.lo = d.lo /\ a.len = d.len
  BY AgeGrows, Zenon
<1>2. /\ c.since \in Nat /\ d.since \in Nat /\ d.len \in Nat
      /\ c.lo \in Nat /\ c.len \in Nat /\ d.lo \in Nat
  BY DEF Cmd
<1>3. /\ b.since = IF c.since + n < Half THEN c.since + n ELSE Half
      /\ a.since = IF d.since + n < Half THEN d.since + n ELSE Half
  BY DEF Older, Cmd
<1>4. CASE c.since + n >= Half
  BY <1>2, <1>3, <1>4 DEF After
<1>5. CASE c.since + n < Half
  <2>1. c.since >= d.since + d.len
    BY <1>2, <1>5 DEF After
  <2>2. b.since = c.since + n /\ a.since = d.since + n
    BY <1>2, <1>3, <1>5, <2>1
  <2>3. b.since - a.since = c.since - d.since
    BY <1>2, <2>2
  <2> QED  BY <1>1, <1>2, <1>5, <2>1, <2>2, <2>3 DEF After
<1> QED  BY <1>2, <1>4, <1>5

-----------------------------------------------------------------------------
(* What the operations do to the invariant of a side.  A new region is      *)
(* placed after all that are in use.                                        *)
LEMMA ReserveKeepsSide ==
    ASSUME FittingRegions, FreshBlock, NEW e \in Sides, NEW k, NEW L, SideOK(e, k, L),
           NEW n \in Nat, n <= Region, n # 0,
           NEW d \in Cmd, d.lo = Reserve(e, k, n), d.len = n, d.since = 0
    PROVE  SideOK(e, Advance(d.lo, n), {Older(c, n) : c \in L} \cup {d})
<1> DEFINE M == {Older(c, n) : c \in L} \cup {d}
<1>1. k \in Nat /\ Start(e) <= k /\ k + Region < Word /\ L \subseteq Cmd
  BY DEF SideOK
<1>2. /\ d.lo \in Nat /\ Start(e) <= d.lo /\ d.lo + n <= Limit(e)
      /\ Advance(d.lo, n) = d.lo + n /\ d.lo + n + Region < Word
  BY <1>1, ReservedRegion
<1>3. Half \in Nat /\ Region \in Nat /\ Start(e) \in Nat /\ Limit(e) \in Nat /\ Word \in Nat
  BY Numbers
<1>4. \A c \in L : /\ Older(c, n) \in Cmd /\ Older(c, n).lo = c.lo /\ Older(c, n).len = c.len
  BY <1>1, AgeGrows
<1>5. d.lo + n \in Nat /\ Start(e) <= d.lo + n
  BY <1>2, <1>3
<1>6. \A c \in L : c.len # 0 => Lap(d.lo + n, Older(c, n)) /\ After(Older(c, n), d)
  BY <1>1, LapStep DEF SideOK
<1>7. \A c \in M : c.len # 0 => InPlace(e, c) /\ Lap(d.lo + n, c)
  <2>1. ASSUME NEW c \in L, Older(c, n).len # 0
        PROVE  InPlace(e, Older(c, n)) /\ Lap(d.lo + n, Older(c, n))
    BY <2>1, <1>4, <1>6 DEF SideOK, InPlace
  <2>2. InPlace(e, d) /\ Lap(d.lo + n, d)
    BY <1>2, <1>3 DEF InPlace, Lap
  <2> QED  BY <2>1, <2>2
<1>8. \A x, y \in M : x # y /\ x.len # 0 /\ y.len # 0 => After(x, y) \/ After(y, x)
  <2>1. ASSUME NEW b \in L, NEW c \in L, Older(b, n) # Older(c, n),
               Older(b, n).len # 0, Older(c, n).len # 0
        PROVE  After(Older(b, n), Older(c, n)) \/ After(Older(c, n), Older(b, n))
    <3>1. b # c /\ b.len # 0 /\ c.len # 0 /\ b \in Cmd /\ c \in Cmd
      BY <2>1, <1>1, <1>4
    <3>2. After(b, c) \/ After(c, b)
      BY <3>1 DEF SideOK
    <3> QED  BY <3>1, <3>2, AfterStep
  <2>2. ASSUME NEW c \in L, Older(c, n).len # 0
        PROVE  After(Older(c, n), d)
    BY <2>2, <1>4, <1>6
  <2> QED  BY <2>1, <2>2
<1> QED  BY <1>2, <1>4, <1>5, <1>7, <1>8 DEF SideOK

(* A command without a region leaves offset and regions as they are.        *)
LEMMA EmptyKeepsSide ==
    ASSUME FittingRegions, FreshBlock, NEW e \in Sides, NEW k, NEW L, SideOK(e, k, L),
           NEW d \in Cmd, d.len = 0
    PROVE  SideOK(e, k, {Older(c, 0) : c \in L} \cup {d})
<1>1. \A c \in L : Older(c, 0) = c
  <2> SUFFICES ASSUME NEW c \in L PROVE Older(c, 0) = c
    OBVIOUS
  <2>1. c \in Cmd /\ c.since \in 0 .. Half /\ Half \in Nat
    BY Numbers DEF SideOK, Cmd
  <2>2. (IF c.since + 0 < Half THEN c.since + 0 ELSE Half) = c.since
    BY <2>1
  <2> QED  BY <2>1, <2>2 DEF Older, Cmd
<1>2. {Older(c, 0) : c \in L} = L
  BY <1>1
<1> QED  BY <1>2 DEF SideOK

(* Sending or receiving a command changes its state only.                   *)
LEMMA StateKeepsSide ==
    ASSUME NEW e \in Sides, NEW k, NEW L, SideOK(e, k, L), NEW c \in L,
           NEW d \in Cmd, d.lo = c.lo, d.len = c.len, d.since = c.since
    PROVE  SideOK(e, k, (L \ {c}) \cup {d})
<1>1. \A b \in L : /\ After(b, c) => After(b, d)
                   /\ After(c, b) => After(d, b)
  BY DEF After
<1>2. c.len # 0 => InPlace(e, d) /\ Lap(k, d)
  BY DEF SideOK, InPlace, Lap
<1>3. \A x, y \in (L \ {c}) \cup {d} :
          x # y /\ x.len # 0 /\ y.len # 0 => After(x, y) \/ After(y, x)
  BY <1>1 DEF SideOK
<1> QED  BY <1>2, <1>3 DEF SideOK

(* Freeing a command removes it.                                            *)
LEMMA FreeKeepsSide ==
    ASSUME NEW e \in Sides, NEW k, NEW L, SideOK(e, k, L), NEW c
    PROVE  SideOK(e, k, L \ {c})
BY DEF SideOK

-----------------------------------------------------------------------------
(* The invariant holds initially, and each operation on a side keeps it.    *)
LEMMA InvInit ==
    ASSUME FittingRegions, FreshBlock, Init
    PROVE  IInv
<1>1. PICK g \in GuestOffsets : cur = [e \in Sides |-> IF e = "guest" THEN g ELSE Half]
  BY DEF Init
<1>2. live = [e \in Sides |-> {}]
  BY DEF Init
<1>3. /\ g \in Nat /\ g + Region < Word /\ Half \in Nat /\ Half + Region < Word
  BY Numbers
<1>4. \A e \in Sides : cur[e] \in Nat /\ Start(e) <= cur[e] /\ cur[e] + Region < Word
  BY <1>1, <1>3 DEF Sides, Start
<1>5. \A e \in Sides : SideOK(e, cur[e], live[e])
  BY <1>2, <1>4 DEF SideOK
<1> QED  BY <1>1, <1>2, <1>3, <1>5 DEF IInv

(* An operation that replaces the offset and the commands of one side keeps *)
(* the invariant when the new ones satisfy it.                              *)
LEMMA SideStep ==
    ASSUME IInv, NEW e \in Sides, NEW k \in Nat, NEW L \in SUBSET Cmd, SideOK(e, k, L),
           cur' = [cur EXCEPT ![e] = k], live' = [live EXCEPT ![e] = L]
    PROVE  IInv'
<1>1. \A f \in Sides : /\ cur'[f] = IF f = e THEN k ELSE cur[f]
                       /\ live'[f] = IF f = e THEN L ELSE live[f]
  BY DEF IInv
<1>2. \A f \in Sides : SideOK(f, cur'[f], live'[f])
  BY <1>1 DEF IInv
<1>3. cur' \in [Sides -> Nat] /\ live' \in [Sides -> SUBSET Cmd]
  BY DEF IInv
<1> QED  BY <1>2, <1>3 DEF IInv, SideOK, InPlace

(* command_channel_shm_new_command.                                         *)
LEMMA NewCommandStep ==
    ASSUME FittingRegions, FreshBlock, IInv, NEW e \in Sides, NEW t \in Threads,
           NEW s \in DataSizes, NewCommand(e, t, s)
    PROVE  IInv'
<1> DEFINE n  == s + Header
           lo == Reserve(e, cur[e], n)
           c  == [thr |-> t, lo |-> IF s = 0 THEN 0 ELSE lo, since |-> 0,
                  len |-> IF s = 0 THEN 0 ELSE n, st |-> "built"]
<1>1. SideOK(e, cur[e], live[e]) /\ cur[e] \in Nat
  BY DEF IInv
<1>2. n \in Nat /\ n # 0 /\ n <= Region /\ Half \in Nat
  BY Numbers
<1>3. lo \in Nat /\ Advance(lo, n) \in Nat
  BY <1>1, <1>2, ReservedRegion, Numbers DEF SideOK
<1>4. c \in Cmd
  BY <1>2, <1>3 DEF Cmd
<1>5. CASE s = 0
  <2> DEFINE L == {Older(d, 0) : d \in live[e]} \cup {c}
  <2>1. cur' = [cur EXCEPT ![e] = cur[e]] /\ live' = [live EXCEPT ![e] = L]
    BY <1>5 DEF NewCommand, IInv
  <2>2. SideOK(e, cur[e], L)
    BY <1>1, <1>4, <1>5, EmptyKeepsSide
  <2>3. L \in SUBSET Cmd
    BY <2>2 DEF SideOK
  <2> HIDE DEF L
  <2> QED  BY <1>1, <2>1, <2>2, <2>3, SideStep, Zenon
<1>6. CASE s # 0
  <2> DEFINE L == {Older(d, n) : d \in live[e]} \cup {c}
             k == Advance(lo, n)
  <2>1. cur' = [cur EXCEPT ![e] = k] /\ live' = [live EXCEPT ![e] = L]
    BY <1>6 DEF NewCommand
  <2>2. c.lo = lo /\ c.len = n /\ c.since = 0
    BY <1>6
  <2>3. SideOK(e, k, L)
    <3>1. n \in Nat /\ n <= Region /\ n # 0 /\ c \in Cmd /\ c.lo = Reserve(e, cur[e], n)
      BY <1>2, <1>4, <2>2
    <3> HIDE DEF c, n
    <3>2. SideOK(e, Advance(c.lo, n), L)
      BY <1>1, <3>1, <2>2, ReserveKeepsSide, SMTT(60)
    <3> QED  BY <3>2, <2>2
  <2>4. L \in SUBSET Cmd /\ k \in Nat
    BY <2>3, <1>3 DEF SideOK
  <2> HIDE DEF L, k
  <2> QED  BY <2>1, <2>3, <2>4, SideStep, Zenon
<1> QED  BY <1>5, <1>6

(* Sending and receiving: attach_buffer, send_command, receive_command.     *)
LEMMA RestateStep ==
    ASSUME IInv, NEW e \in Sides, NEW c \in live[e], NEW q \in {"sent", "held"},
           live' = [live EXCEPT ![e] = (@ \ {c}) \cup {[c EXCEPT !.st = q]}], UNCHANGED cur
    PROVE  IInv'
<1> DEFINE d == [c EXCEPT !.st = q]
           L == (live[e] \ {c}) \cup {d}
<1>1. SideOK(e, cur[e], live[e]) /\ cur[e] \in Nat /\ c \in Cmd
  BY DEF IInv
<1>2. d \in Cmd /\ d.lo = c.lo /\ d.len = c.len /\ d.since = c.since
  BY <1>1 DEF Cmd
<1>3. cur' = [cur EXCEPT ![e] = cur[e]] /\ live' = [live EXCEPT ![e] = L]
  BY DEF IInv
<1> HIDE DEF d
<1>4. SideOK(e, cur[e], L)
  BY <1>1, <1>2, StateKeepsSide
<1>5. L \in SUBSET Cmd
  BY <1>4 DEF SideOK
<1> HIDE DEF L
<1> QED  BY <1>1, <1>3, <1>4, <1>5, SideStep, Zenon

(* command_channel_free_command.                                            *)
LEMMA FreeStep ==
    ASSUME IInv, NEW e \in Sides, NEW c \in live[e],
           live' = [live EXCEPT ![e] = @ \ {c}], UNCHANGED cur
    PROVE  IInv'
<1> DEFINE L == live[e] \ {c}
<1>1. SideOK(e, cur[e], live[e]) /\ cur[e] \in Nat /\ L \in SUBSET Cmd
  BY DEF IInv
<1>2. cur' = [cur EXCEPT ![e] = cur[e]] /\ live' = [live EXCEPT ![e] = L]
  BY DEF IInv
<1>3. SideOK(e, cur[e], L)
  BY <1>1, FreeKeepsSide, SMTT(60)
<1> HIDE DEF L
<1> QED  BY <1>1, <1>2, <1>3, SideStep, Zenon

(* Every step of a call keeps the invariant.                                *)
LEMMA InvStep ==
    ASSUME FittingRegions, FreshBlock, IInv, [Next]_vars
    PROVE  IInv'
<1>0. "guest" \in Sides /\ "worker" \in Sides
  BY DEF Sides
<1>1. ASSUME NEW e \in Sides, NEW t, AttachAndSend(e, t)
      PROVE  IInv'
  BY <1>1, RestateStep, Zenon DEF AttachAndSend
<1>2. ASSUME NEW e \in Sides, NEW t, Receive(e, t)
      PROVE  IInv'
  BY <1>2, RestateStep, Zenon DEF Receive
<1>3. ASSUME NEW e \in Sides, NEW t, FreeCommand(e, t)
      PROVE  IInv'
  BY <1>3, FreeStep, Zenon DEF FreeCommand
<1>4. ASSUME NEW t \in Threads, SendCall(t)
      PROVE  IInv'
  BY <1>4, <1>0, <1>1 DEF SendCall
<1>5. ASSUME NEW t \in Threads, HandleRet(t)
      PROVE  IInv'
  BY <1>5, <1>0, <1>2 DEF HandleRet
<1>6. ASSUME NEW t \in Threads, FreeRet(t)
      PROVE  IInv'
  BY <1>6, <1>0, <1>3 DEF FreeRet
<1>7. ASSUME NEW t \in Threads, HandleCall(t)
      PROVE  IInv'
  BY <1>7, <1>0, <1>2 DEF HandleCall
<1>8. ASSUME NEW t \in Threads, SendRet(t)
      PROVE  IInv'
  BY <1>8, <1>0, <1>1 DEF SendRet
<1>9. ASSUME NEW t \in Threads, FreeCall(t)
      PROVE  IInv'
  BY <1>9, <1>0, <1>3 DEF FreeCall
<1>10. ASSUME NEW t \in Threads, NEW s \in DataSizes, BuildCall(t, s)
       PROVE  IInv'
  BY <1>10, <1>0, NewCommandStep DEF BuildCall
<1>11. ASSUME NEW t \in Threads, NEW s \in DataSizes, BuildRet(t, s)
       PROVE  IInv'
  BY <1>11, <1>0, NewCommandStep DEF BuildRet
<1>12. CASE UNCHANGED vars
  BY <1>12 DEF vars, IInv, SideOK, InPlace
<1> QED  BY <1>4, <1>5, <1>6, <1>7, <1>8, <1>9, <1>10, <1>11, <1>12 DEF Next

(* The invariant gives the first property ...                               *)
LEMMA InvRegions ==
    ASSUME FittingRegions, FreshBlock, IInv
    PROVE  RegionsInHalf
<1>1. \A e \in Sides : \A c \in live[e] : c.len # 0 => Start(e) <= c.lo /\ c.lo + c.len <= Limit(e)
  BY DEF IInv, SideOK, InPlace
<1> QED  BY <1>1 DEF RegionsInHalf, Sides, Start, Limit

(* ... and the second: of two regions that share bytes, the younger was     *)
(* reserved after the older and a wrap.                                     *)
LEMMA InvLap ==
    ASSUME FittingRegions, FreshBlock, IInv
    PROVE  ValidForALap
<1> SUFFICES ASSUME NEW e \in Sides, NEW c \in live[e], NEW d \in live[e],
                    c # d, Overlap(c, d), d.since <= c.since
             PROVE  c.since + c.len + Region > Half
  <2>1. Largest \in Nat /\ Header \in Nat
    BY BlockAssumption, Zenon DEF Largest
  <2>2. \A e \in Sides : \A c \in live[e] :
            /\ c.since \in Nat /\ c.len \in Nat
            /\ c.since + c.len + Largest + Header = c.since + c.len + Region
    BY <2>1, Numbers DEF IInv, Cmd, Region
  <2> QED  BY <2>2 DEF ValidForALap
<1>1. /\ c \in Cmd /\ d \in Cmd /\ SideOK(e, cur[e], live[e])
      /\ c.len # 0 /\ d.len # 0
      /\ c.lo + Header < d.lo + d.len /\ d.lo + Header < c.lo + c.len
  BY DEF IInv, Overlap
<1>2. After(c, d) \/ After(d, c)
  BY <1>1 DEF SideOK
<1>3. /\ c.lo \in Nat /\ c.len \in Nat /\ c.since \in Nat
      /\ d.lo \in Nat /\ d.len \in Nat /\ d.since \in Nat
      /\ Half \in Nat /\ Region \in Nat /\ Header \in Nat \ {0}
  BY <1>1, Numbers DEF Cmd
<1>4. CASE c.since >= Half
  BY <1>1, <1>3, <1>4
<1>5. CASE c.since < Half
  <2>1. d.since < Half
    BY <1>3, <1>5
  <2>2. ~After(d, c)
    BY <1>1, <1>3, <2>1 DEF After
  <2>3. \/ d.lo + d.len = c.lo + c.len + (c.since - d.since)
        \/ c.lo + c.len + (c.since - d.since) + Region >= Half + d.lo + d.len
    BY <1>2, <2>2, <1>3, <1>5 DEF After
  <2>4. c.since >= d.since + d.len
    BY <1>2, <2>2, <1>3, <1>5 DEF After
  <2>5. d.lo + d.len # c.lo + c.len + (c.since - d.since)
    BY <1>1, <1>3, <2>4
  <2>6. c.lo < d.lo + d.len
    BY <1>1, <1>3
  <2> QED  BY <2>3, <2>5, <2>6, <1>3
<1> QED  BY <1>3, <1>4, <1>5

-----------------------------------------------------------------------------
(* For every number of threads, every block and every set of sizes that     *)
(* leave room in a half, reserve_param_block keeps the regions of each side *)
(* in its own half.                                                         *)
THEOREM RegionsStayInHalf ==
    ASSUME FittingRegions, FreshBlock
    PROVE  Spec => []RegionsInHalf
<1>1. Init => IInv
  BY InvInit
<1>2. IInv /\ [Next]_vars => IInv'
  BY InvStep
<1>3. IInv => RegionsInHalf
  BY InvRegions
<1> QED  BY <1>1, <1>2, <1>3, PTL DEF Spec

(* Two commands in use share bytes only when the regions reserved since the *)
(* older one, with its own and one that did not fit, exceed the half: a     *)
(* buffer of get_buffer stays valid for a lap of the allocator.             *)
THEOREM RegionsValidForALap ==
    ASSUME FittingRegions, FreshBlock
    PROVE  Spec => []ValidForALap
<1>1. Init => IInv
  BY InvInit
<1>2. IInv /\ [Next]_vars => IInv'
  BY InvStep
<1>3. IInv => ValidForALap
  BY InvLap
<1> QED  BY <1>1, <1>2, <1>3, PTL DEF Spec
=============================================================================
