------------------------- MODULE GuestConnectProofs -------------------------
(***************************************************************************)
(* Proofs about GuestConnect, for every number of applications, VMs,        *)
(* workers, migrations and deaths: a worker has one guest, the blocks of    *)
(* two workers are apart, and a migration finds the block of its worker.    *)
(***************************************************************************)
EXTENDS GuestConnect, FiniteSetTheorems, SequenceTheorems, TLAPS

AppRec ==
    [st : {"new", "mapped", "connecting", "connected", "running", "exited"}, vm : Vms,
     block : Nat \cup {None}, port : Nat, tries : Nat, init : BOOLEAN]
AskRec ==
    [st : {"none", "dialed", "sent", "answered"}, kind : {"new", "migrate"}, port : Nat]
MgrRec ==
    [st : {"pool", "idle", "accepted", "received", "responded", "gone", "faulted"},
     peer : Apps \cup {None}, id : Nat, assigned : Nat, pool : Nat]
WorkerRec ==
    [st : {"none", "forked", "listening", "accepted", "running", "exited"},
     calls : Seq(Apps), peer : Apps \cup {None}, base : Int \cup {None}]

TypeOK ==
    /\ handed \in [Vms -> Nat]
    /\ app \in [Apps -> AppRec] /\ ask \in [Apps -> AskRec]
    /\ calls \in Seq(Apps)
    /\ mgr \in MgrRec
    /\ worker \in [Ports -> WorkerRec]

(* An application has a block once it is mapped, and a port once the answer *)
(* to its first request is taken.                                           *)
Early == {"new", "mapped", "connecting"}

AppsOK ==
    \A a \in Apps :
        /\ app[a].st # "new" => app[a].block \in Nat
        /\ app[a].st \in {"new", "mapped"} => app[a].port = 0
        /\ ask[a].st # "none" /\ ask[a].kind = "new" => app[a].port = 0

(* The request the manager serves stays as it is until the answer.          *)
MgrOK ==
    /\ mgr.st \in {"accepted", "received"} => mgr.peer \in Apps
    /\ mgr.st = "received" => ask[mgr.peer].st = "sent"
    /\ mgr.id # 0

(* worker_id is above every port given out, until the answer is out and it  *)
(* is that port; a manager that ends gives out no more.                     *)
Issued(q) == q < mgr.id \/ (q = mgr.id /\ mgr.st \in {"responded", "gone"})

Answered(a) == ask[a].st = "answered"

PortsIssued ==
    \A a \in Apps : /\ Issued(app[a].port)
                    /\ Answered(a) => ask[a].port # 0 /\ Issued(ask[a].port)

(* A port is given to one application.                                      *)
PortsApart ==
    \A a, b \in Apps : a # b =>
        /\ app[a].port # 0 => app[a].port # app[b].port
        /\ Answered(a) => ask[a].port # app[b].port
        /\ Answered(a) /\ Answered(b) => ask[a].port # ask[b].port

(* The guest of a worker, and who waits for it to accept.                   *)
Serves(p, a) == a \in Apps /\ app[a].port = p /\ app[a].st \notin Early

GuestOK(p) ==
    /\ \/ worker[p].calls = <<>>
       \/ /\ worker[p].peer = None
          /\ \E a \in Apps : worker[p].calls = <<a>> /\ Serves(p, a)
    /\ worker[p].peer # None => Serves(p, worker[p].peer)
    /\ worker[p].st \in {"accepted", "running"} => worker[p].peer # None
    /\ worker[p].st = "running" =>
         worker[p].base = BaseOf(app[worker[p].peer].vm, app[worker[p].peer].block)

IInv ==
    /\ TypeOK /\ AppsOK /\ MgrOK /\ PortsIssued /\ PortsApart
    /\ \A p \in Ports : GuestOK(p)

-----------------------------------------------------------------------------
(* The constants.                                                           *)
LEMMA Constants ==
    /\ None \notin Apps /\ None \notin Nat
    /\ MaxPort \in Nat /\ Ports \subseteq Nat /\ 0 \notin Ports
    /\ BlockSize \in Nat /\ GuestShm \in Nat
    /\ \A v \in Vms : v \in Nat /\ v # 0
<1>1. Cardinality(Apps) \in Nat
  BY ConnectAssumption, FS_CardinalityType, Zenon
<1>2. MaxPort \in Nat
  BY <1>1, ConnectAssumption DEF MaxPort
<1>3. None \notin Apps /\ None \notin Nat
  BY ConnectAssumption, Zenon
<1>4. /\ BlockSize \in Nat /\ GuestShm \in Nat
      /\ \A v \in Vms : v \in Nat /\ v # 0
  BY ConnectAssumption DEF Vms
<1> QED  BY <1>2, <1>3, <1>4 DEF Ports

(* The invariant holds initially.                                           *)
LEMMA InvInit == Init => IInv
<1> SUFFICES ASSUME Init PROVE IInv
  BY Zenon
<1>1. PICK vm \in Placements :
        app = [a \in Apps |-> [st |-> "new", vm |-> vm[a], block |-> None, port |-> 0,
                               tries |-> 0, init |-> FALSE]]
  BY Zenon DEF Init
<1>2. \A a \in Apps : vm[a] \in Vms
  BY ConnectAssumption, Zenon DEF Vms
<1>3. /\ app \in [Apps -> AppRec]
      /\ \A a \in Apps : app[a].st = "new" /\ app[a].port = 0
  BY <1>1, <1>2, Zenon DEF AppRec
<1>4. /\ ask \in [Apps -> AskRec] /\ \A a \in Apps : ask[a].st = "none"
  BY Zenon DEF Init, AskRec, NotAsking
<1>5. mgr \in MgrRec /\ mgr.st = "pool" /\ mgr.id = 1
  BY ConnectAssumption DEF Init, MgrRec
<1>6. /\ worker \in [Ports -> WorkerRec]
      /\ \A p \in Ports : worker[p].st = "none" /\ worker[p].calls = <<>> /\ worker[p].peer = None
  BY EmptySeq, Zenon DEF Init, WorkerRec, NoWorker
<1>7. calls \in Seq(Apps) /\ handed \in [Vms -> Nat]
  <2>1. PICK n \in Earlier : handed = [v \in Vms |-> n * BlockSize]
    BY Zenon DEF Init
  <2>2. n * BlockSize \in Nat
    BY ConnectAssumption
  <2> QED  BY <2>1, <2>2, EmptySeq, Zenon DEF Init
<1>8. TypeOK
  BY <1>3, <1>4, <1>5, <1>6, <1>7, Zenon DEF TypeOK
<1>9. AppsOK /\ PortsApart
  BY <1>3, <1>4, Zenon DEF AppsOK, PortsApart, Answered
<1>10. MgrOK /\ PortsIssued
  BY <1>3, <1>4, <1>5 DEF MgrOK, PortsIssued, Issued, Answered
<1>11. \A p \in Ports : GuestOK(p)
  BY <1>6, Zenon DEF GuestOK
<1> QED  BY <1>8, <1>9, <1>10, <1>11, Zenon DEF IInv
-----------------------------------------------------------------------------
(* An application that has left the start-up keeps its port and its block,  *)
(* so it stays the guest of its worker.                                     *)
LEMMA GuestsStay ==
    ASSUME \A p \in Ports : GuestOK(p), worker' = worker,
           \A a \in Apps : app[a].st \notin Early =>
               /\ app'[a].st \notin Early /\ app'[a].port = app[a].port
               /\ app'[a].vm = app[a].vm /\ app'[a].block = app[a].block
    PROVE  \A p \in Ports : GuestOK(p)'
<1> SUFFICES ASSUME NEW p \in Ports PROVE GuestOK(p)'
  BY Zenon
<1>1. \A a : Serves(p, a) => /\ Serves(p, a)'
                             /\ app'[a].vm = app[a].vm /\ app'[a].block = app[a].block
  BY Zenon DEF Serves
<1>2. GuestOK(p)
  BY Zenon
<1> QED  BY <1>1, <1>2, Zenon DEF GuestOK

(* A step of application a alone: it gets its block, exits, fails to        *)
(* connect, or sends the init command.                                      *)
LEMMA AppStep ==
    ASSUME IInv, NEW a \in Apps, NEW r \in AppRec, app' = [app EXCEPT ![a] = r],
           r.port = app[a].port, r.vm = app[a].vm, r.st # "new" => r.block \in Nat,
           app[a].st \notin Early => r.st \notin Early /\ r.block = app[a].block,
           r.st \in {"new", "mapped"} => r.port = 0,
           handed' \in [Vms -> Nat], UNCHANGED <<ask, calls, mgr, worker>>
    PROVE  IInv'
<1>1. TypeOK /\ AppsOK /\ MgrOK /\ PortsIssued /\ PortsApart /\ app \in [Apps -> AppRec]
  BY Zenon DEF IInv, TypeOK
<1>2. /\ app' \in [Apps -> AppRec] /\ app'[a] = r
      /\ \A b \in Apps : b # a => app'[b] = app[b]
  BY <1>1, Zenon
<1>3. \A b \in Apps : app'[b].port = app[b].port
  BY <1>2, Zenon
<1>4. TypeOK'
  BY <1>1, <1>2, Zenon DEF TypeOK
<1>5. AppsOK'
  BY <1>1, <1>2, Zenon DEF AppsOK
<1>6. MgrOK'
  BY <1>1, Zenon DEF MgrOK
<1>7. PortsIssued'
  BY <1>1, <1>3, Zenon DEF PortsIssued, Issued, Answered
<1>8. PortsApart'
  BY <1>1, <1>3 DEF PortsApart, Answered
<1>9. \A p \in Ports : GuestOK(p)'
  <2>1. \A b \in Apps : app[b].st \notin Early =>
               /\ app'[b].st \notin Early /\ app'[b].port = app[b].port
               /\ app'[b].vm = app[b].vm /\ app'[b].block = app[b].block
    BY <1>2, <1>3, Zenon
  <2>2. \A p \in Ports : GuestOK(p)
    BY Zenon DEF IInv
  <2> QED  BY <2>1, <2>2, GuestsStay, Zenon
<1> QED  BY <1>4, <1>5, <1>6, <1>7, <1>8, <1>9, Zenon DEF IInv

(* An application exits.                                                    *)
LEMMA ExitStep ==
    ASSUME IInv, NEW a \in Apps, app[a].st # "new", Exits(a),
           UNCHANGED <<handed, ask, calls, mgr, worker>>
    PROVE  IInv'
<1> DEFINE r == [app[a] EXCEPT !.st = "exited"]
<1>1. app[a] \in AppRec /\ app[a].block \in Nat /\ handed \in [Vms -> Nat] /\ app \in [Apps -> AppRec]
  BY Zenon DEF IInv, TypeOK, AppsOK
<1>2. /\ r \in AppRec /\ r.port = app[a].port /\ r.vm = app[a].vm /\ r.block = app[a].block
      /\ r.st = "exited"
  BY <1>1, Zenon DEF AppRec
<1>3. app' = [app EXCEPT ![a] = r]
  BY <1>1, Zenon DEF Exits
<1> HIDE DEF r
<1>4. r.st \notin Early /\ r.st \notin {"new", "mapped"} /\ r.block \in Nat /\ handed' \in [Vms -> Nat]
  BY <1>1, <1>2, Zenon DEF Early
<1> QED  BY <1>2, <1>3, <1>4, AppStep, Zenon

(* A request goes on its way, without an answer.                            *)
LEMMA AskStep ==
    ASSUME IInv, NEW a \in Apps, NEW r \in AskRec, ask' = [ask EXCEPT ![a] = r],
           r.st # "answered", r.st # "none" /\ r.kind = "new" => app[a].port = 0,
           ~(mgr.st = "received" /\ mgr.peer = a),
           calls' \in Seq(Apps), UNCHANGED <<handed, app, mgr, worker>>
    PROVE  IInv'
<1>1. TypeOK /\ AppsOK /\ MgrOK /\ PortsIssued /\ PortsApart /\ ask \in [Apps -> AskRec]
  BY Zenon DEF IInv, TypeOK
<1>2. /\ ask' \in [Apps -> AskRec] /\ ask'[a] = r
      /\ \A b \in Apps : b # a => ask'[b] = ask[b]
  BY <1>1, Zenon
<1>3. TypeOK'
  BY <1>1, <1>2, Zenon DEF TypeOK
<1>4. AppsOK'
  BY <1>1, <1>2, Zenon DEF AppsOK
<1>5. MgrOK'
  BY <1>1, <1>2, Zenon DEF MgrOK
<1>6. \A b \in Apps : Answered(b)' => Answered(b) /\ ask'[b] = ask[b]
  BY <1>2, Zenon DEF Answered
<1>7. PortsIssued'
  BY <1>1, <1>6, Zenon DEF PortsIssued, Issued
<1>8. PortsApart'
  BY <1>1, <1>6 DEF PortsApart
<1>9. \A p \in Ports : GuestOK(p)'
  BY GuestsStay, Zenon DEF IInv
<1> QED  BY <1>3, <1>4, <1>5, <1>7, <1>8, <1>9, Zenon DEF IInv
-----------------------------------------------------------------------------
(* The steps of an application, one lemma each where more than the lemmas   *)
(* above is needed.                                                         *)
LEMMA RequestShmStep ==
    ASSUME IInv, NEW a \in Apps, RequestShm(a)
    PROVE  IInv'
<1> DEFINE v == app[a].vm
           r == [app[a] EXCEPT !.st = "mapped", !.block = NextBlock(handed[v])]
<1>1. /\ app[a] \in AppRec /\ app \in [Apps -> AppRec] /\ handed \in [Vms -> Nat]
      /\ v \in Vms /\ app[a].port = 0 /\ app[a].st = "new"
  BY Zenon DEF IInv, TypeOK, AppsOK, AppRec, RequestShm
<1>2. NextBlock(handed[v]) \in Nat /\ HandedOn(handed[v]) \in Nat
  BY <1>1, Constants DEF NextBlock, HandedOn
<1>3. /\ r \in AppRec /\ r.port = app[a].port /\ r.vm = app[a].vm /\ r.block \in Nat
      /\ r.st = "mapped"
  BY <1>1, <1>2, Zenon DEF AppRec
<1>4. app' = [app EXCEPT ![a] = r] /\ UNCHANGED <<ask, calls, mgr, worker>>
  BY <1>1, Zenon DEF RequestShm
<1>5. handed' \in [Vms -> Nat]
  BY <1>1, <1>2, Zenon DEF RequestShm
<1> HIDE DEF r
<1>6. app[a].st \in Early
  BY <1>1, Zenon DEF Early
<1> QED  BY <1>1, <1>3, <1>4, <1>5, <1>6, AppStep, Zenon

(* A request for a worker: a new application or a migration.                *)
LEMMA DialStep ==
    ASSUME IInv, NEW a \in Apps, NEW kind \in {"new", "migrate"}, Dial(a, kind),
           app[a].st # "new", kind = "new" => app[a].port = 0,
           UNCHANGED <<handed, mgr, worker>>
    PROVE  IInv'
<1>1. CASE ~Listening
  BY <1>1, ExitStep, Zenon DEF Dial
<1>2. CASE Listening
  <2> DEFINE r == [st |-> "dialed", kind |-> kind, port |-> 0]
  <2>1. r \in AskRec /\ r.st = "dialed" /\ r.kind = kind
    BY Zenon DEF AskRec
  <2>2. ask' = [ask EXCEPT ![a] = r] /\ calls' = Append(calls, a) /\ UNCHANGED app /\ ask[a].st = "none"
    BY <1>2, Zenon DEF Dial
  <2>3. calls' \in Seq(Apps) /\ ~(mgr.st = "received" /\ mgr.peer = a)
    BY <2>2, AppendProperties, Zenon DEF IInv, TypeOK, MgrOK
  <2> HIDE DEF r
  <2> QED  BY <2>1, <2>2, <2>3, AskStep, Zenon
<1> QED  BY <1>1, <1>2, Zenon

(* The request is sent to the manager.                                      *)
LEMMA SendRequestStep ==
    ASSUME IInv, NEW a \in Apps, SendRequest(a)
    PROVE  IInv'
<1> DEFINE r == [ask[a] EXCEPT !.st = "sent"]
<1>1. ask[a] \in AskRec /\ ask \in [Apps -> AskRec] /\ ask[a].st = "dialed" /\ calls \in Seq(Apps)
  BY Zenon DEF IInv, TypeOK, SendRequest
<1>2. r \in AskRec /\ r.st = "sent" /\ r.kind = ask[a].kind
  BY <1>1, Zenon DEF AskRec
<1>3. ask' = [ask EXCEPT ![a] = r] /\ UNCHANGED <<handed, app, calls, mgr, worker>>
  BY <1>1, Zenon DEF SendRequest
<1>4. /\ ask[a].kind = "new" => app[a].port = 0
      /\ ~(mgr.st = "received" /\ mgr.peer = a)
  BY <1>1, Zenon DEF IInv, AppsOK, MgrOK
<1> HIDE DEF r
<1> QED  BY <1>1, <1>2, <1>3, <1>4, AskStep, Zenon

(* conn_vm_socket: a is the only application with its port, and was not     *)
(* there before, so the worker's listen queue is empty.                     *)
LEMMA ConnectStep ==
    ASSUME IInv, NEW a \in Apps, Connect(a)
    PROVE  IInv'
<1> DEFINE p == app[a].port
<1>1. /\ TypeOK /\ AppsOK /\ MgrOK /\ PortsIssued /\ PortsApart
      /\ app[a] \in AppRec /\ app \in [Apps -> AppRec] /\ handed \in [Vms -> Nat]
      /\ worker \in [Ports -> WorkerRec]
  BY Zenon DEF IInv, TypeOK
<1>2. /\ app[a].st = "connecting" /\ app[a].block \in Nat
      /\ UNCHANGED <<handed, ask, calls, mgr>>
  BY <1>1, Zenon DEF Connect, PortToDial, AppsOK
<1>3. CASE ~Accepting(worker[p])
  <2> DEFINE q == IF Tried(app[a].tries) < MaxTries THEN "connecting" ELSE "exited"
             r == [app[a] EXCEPT !.tries = Tried(@), !.st = q]
  <2>1. app[a].tries \in Nat /\ Tried(app[a].tries) \in Nat
    BY <1>1 DEF AppRec, Tried
  <2>2. /\ r \in AppRec /\ r.port = p /\ r.vm = app[a].vm /\ r.block = app[a].block
        /\ r.st \in {"connecting", "exited"}
    BY <1>1, <2>1, Zenon DEF AppRec
  <2>3. app' = [app EXCEPT ![a] = r] /\ UNCHANGED worker
    BY <1>1, <1>2, <1>3, Zenon DEF Connect, PortToDial
  <2> HIDE DEF r
  <2>4. app[a].st \in Early /\ r.st \notin {"new", "mapped"}
    BY <1>2, <2>2, Zenon DEF Early
  <2> QED  BY <1>1, <1>2, <2>2, <2>3, <2>4, AppStep, Zenon
<1>4. CASE Accepting(worker[p])
  <2> DEFINE r == [app[a] EXCEPT !.st = "connected", !.tries = 0]
  <2>1. /\ r \in AppRec /\ r.port = p /\ r.vm = app[a].vm /\ r.block = app[a].block
        /\ r.st = "connected"
    BY <1>1, Zenon DEF AppRec
  <2>2. /\ app' = [app EXCEPT ![a] = r]
        /\ worker' = [worker EXCEPT ![p].calls = Append(@, a)]
    BY <1>1, <1>2, <1>4, Zenon DEF Connect, PortToDial
  <2> HIDE DEF r
  <2>3. /\ app' \in [Apps -> AppRec] /\ app'[a] = r
        /\ \A b \in Apps : b # a => app'[b] = app[b]
    BY <1>1, <2>1, <2>2, Zenon
  <2>4. \A b \in Apps : app'[b].port = app[b].port
    BY <2>1, <2>3, Zenon
  <2>5. ASSUME p \in Ports
        PROVE  worker[p].calls = <<>> /\ worker[p].peer = None
    <3>1. GuestOK(p)
      BY <2>5, Zenon DEF IInv
    <3>2. \A b : ~Serves(p, b)
      <4> SUFFICES ASSUME NEW b, Serves(p, b) PROVE FALSE
        BY Zenon
      <4>1. b \in Apps /\ app[b].port = app[a].port /\ b # a /\ app[a].port # 0
        BY <1>2, <2>5, Constants, Zenon DEF Serves, Early
      <4> QED  BY <4>1, <1>1, Zenon DEF PortsApart
    <3> QED  BY <3>1, <3>2, Zenon DEF GuestOK
  <2>6. ASSUME p \in Ports
        PROVE  worker'[p] = [worker[p] EXCEPT !.calls = <<a>>]
    BY <2>2, <2>5, <2>6, <1>1
  <2>7. \A q \in Ports : q # p => worker'[q] = worker[q]
    BY <2>2, <1>1, Zenon
  <2>8. worker' \in [Ports -> WorkerRec]
    <3>1. ASSUME p \in Ports PROVE [worker[p] EXCEPT !.calls = <<a>>] \in WorkerRec
      <4>1. <<a>> \in Seq(Apps) /\ worker[p] \in WorkerRec
        BY <3>1, <1>1
      <4> QED  BY <4>1, Zenon DEF WorkerRec
    <3>2. CASE p \in Ports
      BY <3>1, <3>2, <2>2, <2>6, <1>1, Zenon
    <3>3. CASE p \notin Ports
      BY <3>3, <2>2, <1>1, Zenon
    <3> QED  BY <3>2, <3>3, Zenon
  <2>9. TypeOK'
    BY <1>1, <1>2, <2>3, <2>8, Zenon DEF TypeOK
  <2>10. AppsOK'
    BY <1>1, <1>2, <2>1, <2>3, Zenon DEF AppsOK
  <2>11. MgrOK' /\ PortsIssued'
    BY <1>1, <1>2, <2>4, Zenon DEF MgrOK, PortsIssued, Issued, Answered
  <2>12. PortsApart'
    BY <1>1, <1>2, <2>4 DEF PortsApart, Answered
  <2>13. \A q \in Ports : GuestOK(q)'
    <3> SUFFICES ASSUME NEW q \in Ports PROVE GuestOK(q)'
      BY Zenon
    <3>1. /\ \A b : Serves(q, b) => /\ Serves(q, b)'
                                    /\ app'[b].vm = app[b].vm /\ app'[b].block = app[b].block
          /\ q = p => Serves(q, a)'
      BY <1>2, <2>1, <2>3, <2>4, Zenon DEF Serves, Early
    <3>2. GuestOK(q)
      BY Zenon DEF IInv
    <3>3. CASE q = p
      <4>1. /\ worker'[q].calls = <<a>> /\ worker'[q].peer = None
            /\ worker'[q].st = worker[q].st /\ worker[q].peer = None
        BY <3>3, <2>5, <2>6, <1>1, Zenon DEF WorkerRec
      <4> QED  BY <4>1, <3>1, <3>2, <3>3, Zenon DEF GuestOK
    <3>4. CASE q # p
      BY <3>1, <3>2, <3>4, <2>7, Zenon DEF GuestOK
    <3> QED  BY <3>3, <3>4, Zenon
  <2> QED  BY <2>9, <2>10, <2>11, <2>12, <2>13, Zenon DEF IInv
<1> QED  BY <1>3, <1>4, Zenon
(* The INITIALIZE_API command is sent.                                      *)
LEMMA SendInitStep ==
    ASSUME IInv, NEW a \in Apps, SendInit(a)
    PROVE  IInv'
<1> DEFINE r == [app[a] EXCEPT !.st = "running", !.init = TRUE]
<1>1. /\ app[a] \in AppRec /\ app \in [Apps -> AppRec] /\ handed \in [Vms -> Nat]
      /\ app[a].st = "connected" /\ app[a].block \in Nat
  BY Zenon DEF IInv, TypeOK, AppsOK, SendInit
<1>2. /\ r \in AppRec /\ r.port = app[a].port /\ r.vm = app[a].vm /\ r.block = app[a].block
      /\ r.st = "running"
  BY <1>1, Zenon DEF AppRec
<1>3. app' = [app EXCEPT ![a] = r] /\ UNCHANGED <<handed, ask, calls, mgr, worker>>
  BY <1>1, Zenon DEF SendInit
<1> HIDE DEF r
<1>4. r.st \notin Early /\ r.st \notin {"new", "mapped"} /\ r.block \in Nat /\ handed' \in [Vms -> Nat]
  BY <1>1, <1>2, <1>3, Zenon DEF Early
<1> QED  BY <1>2, <1>3, <1>4, AppStep, Zenon

(* The application takes the port of the answer, which no other has.        *)
LEMMA TakeAnswerStep ==
    ASSUME IInv, NEW a \in Apps, TakeAnswer(a)
    PROVE  IInv'
<1>1. /\ TypeOK /\ AppsOK /\ MgrOK /\ PortsIssued /\ PortsApart
      /\ app[a] \in AppRec /\ app \in [Apps -> AppRec] /\ ask \in [Apps -> AskRec]
      /\ calls \in Seq(Apps) /\ ask[a] \in AskRec
  BY Zenon DEF IInv, TypeOK
<1>2. /\ app[a].st \notin {"new", "exited"} /\ ask[a].st = "answered"
      /\ ask' = [ask EXCEPT ![a] = NotAsking]
      /\ UNCHANGED <<handed, calls, mgr, worker>>
  BY Zenon DEF TakeAnswer, Alive
<1>3. /\ ask' \in [Apps -> AskRec] /\ ask'[a].st = "none"
      /\ \A b \in Apps : b # a => ask'[b] = ask[b]
  BY <1>1, <1>2, Zenon DEF NotAsking, AskRec
<1>4. CASE ask[a].kind # "new"
  <2>1. app' = app /\ NotAsking \in AskRec /\ NotAsking.st = "none"
    BY <1>4, Zenon DEF TakeAnswer, NotAsking, AskRec
  <2>2. ~(mgr.st = "received" /\ mgr.peer = a)
    BY <1>1, <1>2, Zenon DEF MgrOK
  <2> QED  BY <1>1, <1>2, <2>1, <2>2, AskStep, Zenon
<1>5. CASE ask[a].kind = "new"
  <2> DEFINE r == [app[a] EXCEPT !.st = "connecting", !.port = ask[a].port]
  <2>1. /\ r \in AppRec /\ r.port = ask[a].port /\ r.block = app[a].block /\ r.st = "connecting"
    BY <1>1, Zenon DEF AppRec, AskRec
  <2>2. app' = [app EXCEPT ![a] = r]
    BY <1>1, <1>5, Zenon DEF TakeAnswer
  <2> HIDE DEF r
  <2>3. /\ app' \in [Apps -> AppRec] /\ app'[a] = r
        /\ \A b \in Apps : b # a => app'[b] = app[b]
    BY <1>1, <2>1, <2>2, Zenon
  <2>4. app[a].port = 0
    BY <1>1, <1>2, <1>5, Zenon DEF AppsOK
  <2>5. TypeOK'
    BY <1>1, <1>2, <1>3, <2>3, Zenon DEF TypeOK
  <2>6. AppsOK'
    BY <1>1, <1>2, <1>3, <2>1, <2>3 DEF AppsOK
  <2>7. MgrOK'
    BY <1>1, <1>2, <1>3, Zenon DEF MgrOK
  <2>8. PortsIssued'
    <3>1. Issued(ask[a].port)
      BY <1>1, <1>2, Zenon DEF PortsIssued, Answered
    <3> QED  BY <3>1, <1>1, <1>2, <1>3, <2>1, <2>3, ZenonT(60) DEF PortsIssued, Issued, Answered
  <2>9. PortsApart'
    <3>1. Answered(a)
      BY <1>2, Zenon DEF Answered
    <3>2. \A b \in Apps : Answered(b)' => b # a /\ Answered(b) /\ ask'[b] = ask[b]
      BY <1>3, Zenon DEF Answered
    <3> QED  BY <3>1, <3>2, <1>1, <2>1, <2>3 DEF PortsApart
  <2>10. \A p \in Ports : GuestOK(p)'
    <3> SUFFICES ASSUME NEW p \in Ports PROVE GuestOK(p)'
      BY Zenon
    <3>1. \A b : Serves(p, b) => /\ Serves(p, b)'
                                 /\ app'[b].vm = app[b].vm /\ app'[b].block = app[b].block
      BY <2>3, <2>4, Constants, Zenon DEF Serves
    <3>2. GuestOK(p)
      BY Zenon DEF IInv
    <3> QED  BY <3>1, <3>2, <1>2, Zenon DEF GuestOK
  <2> QED  BY <2>5, <2>6, <2>7, <2>8, <2>9, <2>10, Zenon DEF IInv
<1> QED  BY <1>4, <1>5, Zenon

-----------------------------------------------------------------------------
(* A worker that is not running changes its state only; p may be a port     *)
(* beyond the bound of the model, which has no worker.                      *)
LEMMA WorkerStStep ==
    ASSUME TypeOK, \A p \in Ports : GuestOK(p), NEW p, NEW q \in {"forked", "listening", "exited"},
           worker' = [worker EXCEPT ![p].st = q], UNCHANGED app
    PROVE  worker' \in [Ports -> WorkerRec] /\ \A o \in Ports : GuestOK(o)'
<1>1. worker \in [Ports -> WorkerRec]
  BY Zenon DEF TypeOK
<1>2. \A o \in Ports : /\ worker[o] \in WorkerRec
                       /\ worker'[o] = IF o = p THEN [worker[o] EXCEPT !.st = q] ELSE worker[o]
  BY <1>1, Zenon
<1>3. \A o \in Ports : /\ worker'[o] \in WorkerRec
                       /\ worker'[o].calls = worker[o].calls /\ worker'[o].peer = worker[o].peer
                       /\ \/ worker'[o] = worker[o]
                          \/ worker'[o].st \in {"forked", "listening", "exited"}
  <2> SUFFICES ASSUME NEW o \in Ports
               PROVE  /\ worker'[o] \in WorkerRec
                      /\ worker'[o].calls = worker[o].calls /\ worker'[o].peer = worker[o].peer
                      /\ \/ worker'[o] = worker[o]
                         \/ worker'[o].st \in {"forked", "listening", "exited"}
    BY Zenon
  <2>1. CASE o # p
    BY <2>1, <1>2, Zenon
  <2>2. CASE o = p
    <3>1. worker[o] \in WorkerRec /\ worker'[o] = [worker[o] EXCEPT !.st = q]
      BY <2>2, <1>2, Zenon
    <3>2. worker'[o] \in WorkerRec /\ worker'[o].st = q
      BY <3>1 DEF WorkerRec
    <3>3. worker'[o].calls = worker[o].calls /\ worker'[o].peer = worker[o].peer
      BY <3>1 DEF WorkerRec
    <3> QED  BY <3>2, <3>3, Zenon
  <2> QED  BY <2>1, <2>2, Zenon
<1>4. worker' \in [Ports -> WorkerRec]
  BY <1>1, <1>3, Zenon
<1>5. ASSUME NEW o \in Ports PROVE GuestOK(o)'
  <2>1. GuestOK(o)
    BY Zenon
  <2>2. \A b : Serves(o, b)' <=> Serves(o, b)
    BY Zenon DEF Serves
  <2>3. worker'[o].calls = worker[o].calls /\ worker'[o].peer = worker[o].peer
    BY <1>3, Zenon
  <2>4. CASE worker'[o] = worker[o]
    BY <2>1, <2>2, <2>4, Zenon DEF GuestOK
  <2>5. CASE worker'[o].st \in {"forked", "listening", "exited"}
    BY <2>1, <2>2, <2>3, <2>5, Zenon DEF GuestOK
  <2> QED  BY <2>4, <2>5, <1>3, Zenon
<1> QED  BY <1>4, <1>5, Zenon

(* A fork, which may fail.                                                  *)
LEMMA ForkedStep ==
    ASSUME TypeOK, \A p \in Ports : GuestOK(p), NEW p, Forked(p), UNCHANGED app
    PROVE  worker' \in [Ports -> WorkerRec] /\ \A o \in Ports : GuestOK(o)'
<1>1. CASE worker' = [worker EXCEPT ![p].st = "forked"]
  BY <1>1, WorkerStStep, Zenon
<1>2. CASE worker' = [worker EXCEPT ![p].st = "exited"]
  BY <1>2, WorkerStStep, Zenon
<1> QED  BY <1>1, <1>2, Zenon DEF Forked
(* A step that leaves the applications and their requests alone.            *)
LEMMA OthersStep ==
    ASSUME IInv, UNCHANGED <<handed, app, ask>>, calls' \in Seq(Apps), mgr' \in MgrRec,
           worker' \in [Ports -> WorkerRec], \A p \in Ports : GuestOK(p)', MgrOK',
           \A q \in Nat : Issued(q) => Issued(q)'
    PROVE  IInv'
<1>1. TypeOK /\ AppsOK /\ PortsIssued /\ PortsApart /\ app \in [Apps -> AppRec] /\ ask \in [Apps -> AskRec]
  BY Zenon DEF IInv, TypeOK
<1>2. TypeOK'
  BY <1>1, Zenon DEF TypeOK
<1>3. AppsOK' /\ PortsApart'
  BY <1>1, Zenon DEF AppsOK, PortsApart, Answered
<1>4. \A a \in Apps : app[a].port \in Nat /\ ask[a].port \in Nat
  BY <1>1, Zenon DEF AppRec, AskRec
<1>5. \A a \in Apps : Answered(a)' <=> Answered(a)
  BY Zenon DEF Answered
<1>6. PortsIssued'
  BY <1>1, <1>4, <1>5, Zenon DEF PortsIssued
<1> QED  BY <1>2, <1>3, <1>6, Zenon DEF IInv

(* The manager.                                                             *)
LEMMA SpawnPoolStep ==
    ASSUME IInv, SpawnPool
    PROVE  IInv'
<1>1. /\ TypeOK /\ MgrOK /\ mgr \in MgrRec /\ calls \in Seq(Apps) /\ \A p \in Ports : GuestOK(p)
      /\ worker \in [Ports -> WorkerRec]
  BY Zenon DEF IInv, TypeOK
<1>2. mgr.st = "pool" /\ UNCHANGED <<handed, app, ask, calls>>
  BY Zenon DEF SpawnPool
<1>3. mgr' \in MgrRec /\ mgr'.id = mgr.id /\ mgr'.st \in {"pool", "idle"}
  BY <1>1, <1>2 DEF SpawnPool, MgrRec
<1>4. MgrOK' /\ \A q \in Nat : Issued(q) => Issued(q)'
  BY <1>1, <1>2, <1>3, Zenon DEF MgrOK, Issued
<1>5. worker' \in [Ports -> WorkerRec] /\ \A p \in Ports : GuestOK(p)'
  <2>1. CASE PoolOpen(mgr)
    BY <1>1, <1>2, <2>1, ForkedStep, Zenon DEF SpawnPool
  <2>2. CASE ~PoolOpen(mgr)
    <3>1. worker' = worker
      BY <2>2, Zenon DEF SpawnPool
    <3> QED  BY <1>1, <1>2, <3>1, GuestsStay, Zenon
  <2> QED  BY <2>1, <2>2, Zenon
<1> QED  BY <1>1, <1>2, <1>3, <1>4, <1>5, OthersStep, Zenon

(* The manager accepts a connection.                                        *)
LEMMA AcceptStep ==
    ASSUME IInv, Accept
    PROVE  IInv'
<1>1. /\ MgrOK /\ mgr \in MgrRec /\ calls \in Seq(Apps) /\ \A p \in Ports : GuestOK(p)
      /\ worker \in [Ports -> WorkerRec]
  BY Zenon DEF IInv, TypeOK
<1>2. /\ mgr.st = "idle" /\ calls # <<>> /\ calls' = Tail(calls)
      /\ mgr' = [mgr EXCEPT !.st = "accepted", !.peer = Head(calls)]
      /\ UNCHANGED <<handed, app, ask, worker>>
  BY Zenon DEF Accept
<1>3. Head(calls) \in Apps /\ calls' \in Seq(Apps)
  BY <1>1, <1>2, HeadTailProperties, Zenon
<1>4. mgr' \in MgrRec /\ mgr'.id = mgr.id /\ mgr'.st = "accepted" /\ mgr'.peer \in Apps
  BY <1>1, <1>2, <1>3, Zenon DEF MgrRec
<1>5. MgrOK' /\ \A q \in Nat : Issued(q) => Issued(q)'
  BY <1>1, <1>2, <1>4, Zenon DEF MgrOK, Issued
<1>6. \A p \in Ports : GuestOK(p)'
  BY <1>1, <1>2, GuestsStay, Zenon
<1> QED  BY <1>1, <1>2, <1>3, <1>4, <1>5, <1>6, OthersStep, Zenon

(* The manager receives a request, or finds its peer gone.                  *)
LEMMA ReceiveStep ==
    ASSUME IInv, Receive
    PROVE  IInv'
<1>1. /\ MgrOK /\ mgr \in MgrRec /\ calls \in Seq(Apps) /\ \A p \in Ports : GuestOK(p)
      /\ worker \in [Ports -> WorkerRec]
  BY Zenon DEF IInv, TypeOK
<1>2. mgr.st = "accepted" /\ UNCHANGED <<handed, app, ask, calls, worker>>
  BY Zenon DEF Receive
<1>3. PICK q \in {"received", "faulted", "gone"} :
        mgr' = [mgr EXCEPT !.st = q] /\ (q = "received" => ask[mgr.peer].st = "sent")
  BY Zenon DEF Receive
<1>4. mgr' \in MgrRec /\ mgr'.id = mgr.id /\ mgr'.st = q /\ mgr'.peer = mgr.peer
  BY <1>1, <1>3, Zenon DEF MgrRec
<1>5. MgrOK' /\ \A k \in Nat : Issued(k) => Issued(k)'
  BY <1>1, <1>2, <1>3, <1>4, Zenon DEF MgrOK, Issued
<1>6. \A p \in Ports : GuestOK(p)'
  BY <1>1, <1>2, GuestsStay, Zenon
<1> QED  BY <1>1, <1>2, <1>4, <1>5, <1>6, OthersStep, Zenon

(* The worker is forked after the answer, and worker_id moves on.           *)
LEMMA ForkStep ==
    ASSUME IInv, Fork
    PROVE  IInv'
<1>1. /\ TypeOK /\ MgrOK /\ mgr \in MgrRec /\ calls \in Seq(Apps) /\ \A p \in Ports : GuestOK(p)
  BY Zenon DEF IInv, TypeOK
<1>2. mgr.st = "responded" /\ mgr' = NextId(mgr) /\ UNCHANGED <<handed, app, ask, calls>>
  BY Zenon DEF Fork
<1>3. mgr' \in MgrRec /\ mgr'.id = mgr.id + 1 /\ mgr'.st = "idle" /\ mgr.id \in Nat
  <2>1. PICK k \in Nat : mgr' = [mgr EXCEPT !.st = "idle", !.id = mgr.id + 1, !.assigned = k]
    <3>1. mgr.assigned \in Nat
      BY <1>1, Zenon DEF MgrRec
    <3>2. (IF mgr.pool > 0 THEN mgr.assigned + 1 ELSE mgr.assigned) \in Nat
      BY <3>1
    <3> QED  BY <1>2, <3>2, Zenon DEF NextId
  <2>2. mgr.id \in Nat
    BY <1>1, Zenon DEF MgrRec
  <2>3. PICK n \in Nat : n = mgr.id + 1
    BY <2>2
  <2>4. mgr' = [mgr EXCEPT !.st = "idle", !.id = n, !.assigned = k]
    BY <2>1, <2>3, Zenon
  <2>5. mgr' \in MgrRec
    BY <1>1, <2>4, Zenon DEF MgrRec
  <2>6. mgr'.id = n /\ mgr'.st = "idle"
    BY <1>1, <2>4, Zenon DEF MgrRec
  <2> QED  BY <2>2, <2>3, <2>5, <2>6, Zenon
<1>4. MgrOK' /\ \A q \in Nat : Issued(q) => Issued(q)'
  BY <1>1, <1>2, <1>3 DEF MgrOK, Issued
<1>5. PICK p : Forked(p)
  BY Zenon DEF Fork
<1>6. worker' \in [Ports -> WorkerRec] /\ \A o \in Ports : GuestOK(o)'
  BY <1>1, <1>2, <1>5, ForkedStep, Zenon
<1> QED  BY <1>1, <1>2, <1>3, <1>4, <1>6, OthersStep, Zenon
(* The answer gives out worker_id, which nobody has.                        *)
LEMMA RespondStep ==
    ASSUME IInv, Respond
    PROVE  IInv'
<1> DEFINE a == mgr.peer
<1>1. /\ TypeOK /\ AppsOK /\ MgrOK /\ PortsIssued /\ PortsApart
      /\ mgr \in MgrRec /\ calls \in Seq(Apps) /\ ask \in [Apps -> AskRec]
      /\ \A p \in Ports : GuestOK(p) /\ worker \in [Ports -> WorkerRec]
  BY Zenon DEF IInv, TypeOK
<1>2. /\ mgr.st = "received" /\ UNCHANGED <<handed, app, calls, worker>>
      /\ a \in Apps /\ ask[a].st = "sent" /\ mgr.id \in Nat /\ mgr.id # 0
  BY <1>1, Zenon DEF Respond, MgrOK, MgrRec
<1>3. \A p \in Ports : GuestOK(p)'
  BY <1>1, <1>2, GuestsStay, Zenon
<1>4. CASE mgr' = [mgr EXCEPT !.st = "gone"] /\ UNCHANGED ask
  <2>1. mgr' \in MgrRec /\ mgr'.id = mgr.id /\ mgr'.st = "gone"
    BY <1>1, <1>4, Zenon DEF MgrRec
  <2>2. MgrOK' /\ \A q \in Nat : Issued(q) => Issued(q)'
    BY <1>1, <1>2, <2>1, Zenon DEF MgrOK, Issued
  <2>3. worker' \in [Ports -> WorkerRec]
    BY <1>1, <1>2, Zenon DEF TypeOK
  <2> QED  BY <1>1, <1>2, <1>3, <1>4, <2>1, <2>2, <2>3, OthersStep, Zenon
<1>5. CASE /\ ask' = [ask EXCEPT ![a].st = "answered", ![a].port = mgr.id]
           /\ mgr' = [mgr EXCEPT !.st = "responded", !.peer = None]
  <2> DEFINE r == [ask[a] EXCEPT !.st = "answered", !.port = mgr.id]
  <2>1. r \in AskRec /\ r.st = "answered" /\ r.port = mgr.id /\ r.kind = ask[a].kind
    BY <1>1, <1>2, Zenon DEF AskRec
  <2>2. ask' = [ask EXCEPT ![a] = r]
    BY <1>1, <1>2, <1>5, Zenon
  <2> HIDE DEF r
  <2>3. /\ ask' \in [Apps -> AskRec] /\ ask'[a] = r
        /\ \A b \in Apps : b # a => ask'[b] = ask[b]
    BY <1>1, <1>2, <2>1, <2>2, Zenon
  <2>4. mgr' \in MgrRec /\ mgr'.id = mgr.id /\ mgr'.st = "responded"
    BY <1>1, <1>5, Zenon DEF MgrRec
  <2>5. TypeOK'
    BY <1>1, <1>2, <2>3, <2>4, Zenon DEF TypeOK
  <2>6. AppsOK'
    BY <1>1, <1>2, <2>1, <2>3, Zenon DEF AppsOK
  <2>7. MgrOK'
    BY <1>2, <2>4, Zenon DEF MgrOK
  <2>8. \A b \in Apps : /\ app[b].port < mgr.id
                        /\ Answered(b) => ask[b].port # 0 /\ ask[b].port < mgr.id
    BY <1>1, <1>2, Zenon DEF PortsIssued, Issued
  <2>9. /\ \A b \in Apps : Answered(b)' => b = a \/ (Answered(b) /\ ask'[b] = ask[b])
        /\ ask'[a].port = mgr.id
    BY <2>1, <2>3, Zenon DEF Answered
  <2>10. PortsIssued'
    BY <1>2, <2>4, <2>8, <2>9, Zenon DEF PortsIssued, Issued
  <2>11. \A b \in Apps : app[b].port # mgr.id /\ (Answered(b) => ask[b].port # mgr.id)
    <3>1. \A b \in Apps : app[b].port \in Nat /\ ask[b].port \in Nat
      BY <1>1, Zenon DEF TypeOK, AppRec, AskRec
    <3> QED  BY <3>1, <2>8, <1>2
  <2>12. PortsApart'
    BY <1>1, <1>2, <2>9, <2>11 DEF PortsApart
  <2> QED  BY <1>3, <2>5, <2>6, <2>7, <2>10, <2>12, Zenon DEF IInv
<1> QED  BY <1>4, <1>5, Zenon DEF Respond

-----------------------------------------------------------------------------
(* The workers.                                                             *)
LEMMA WorkerKeeps ==
    ASSUME IInv, UNCHANGED <<handed, app, ask, calls, mgr>>,
           worker' \in [Ports -> WorkerRec], \A p \in Ports : GuestOK(p)'
    PROVE  IInv'
<1>1. MgrOK' /\ mgr' \in MgrRec /\ calls' \in Seq(Apps) /\ \A q \in Nat : Issued(q) => Issued(q)'
  BY Zenon DEF IInv, TypeOK, MgrOK, Issued
<1> QED  BY <1>1, OthersStep, Zenon

(* A worker starts to listen or exits.                                      *)
LEMMA WorkerEndsStep ==
    ASSUME IInv, NEW p \in Ports, NEW q \in {"forked", "listening", "exited"},
           worker' = [worker EXCEPT ![p].st = q], UNCHANGED <<handed, app, ask, calls, mgr>>
    PROVE  IInv'
<1>1. TypeOK /\ \A o \in Ports : GuestOK(o)
  BY Zenon DEF IInv
<1>2. worker' \in [Ports -> WorkerRec] /\ \A o \in Ports : GuestOK(o)'
  BY <1>1, WorkerStStep, Zenon
<1> QED  BY <1>2, WorkerKeeps, Zenon

(* The worker accepts its guest, the only one that called.                  *)
LEMMA AcceptGuestStep ==
    ASSUME IInv, NEW p \in Ports, AcceptGuest(p)
    PROVE  IInv'
<1>1. /\ worker \in [Ports -> WorkerRec] /\ worker[p] \in WorkerRec /\ GuestOK(p)
  BY Zenon DEF IInv, TypeOK
<1>2. /\ worker[p].calls # <<>>
      /\ worker' = [worker EXCEPT ![p].st = "accepted", ![p].peer = Head(worker[p].calls),
                                  ![p].calls = Tail(@)]
      /\ UNCHANGED <<handed, app, ask, calls, mgr>>
  BY Zenon DEF AcceptGuest
<1>3. PICK a \in Apps : worker[p].calls = <<a>> /\ Serves(p, a)
  BY <1>1, <1>2, Zenon DEF GuestOK
<1>4. Head(worker[p].calls) = a /\ Tail(worker[p].calls) = <<>>
  BY <1>3
<1> DEFINE r == [worker[p] EXCEPT !.st = "accepted", !.peer = a, !.calls = <<>>]
<1>5. worker' = [worker EXCEPT ![p] = r]
  BY <1>1, <1>2, <1>4, Zenon
<1>6. r \in WorkerRec /\ r.st = "accepted" /\ r.peer = a /\ r.calls = <<>>
  <2>1. <<>> \in Seq(Apps)
    BY EmptySeq, Zenon
  <2> QED  BY <1>1, <2>1, Zenon DEF WorkerRec
<1> HIDE DEF r
<1>7. /\ worker' \in [Ports -> WorkerRec] /\ worker'[p] = r
      /\ \A o \in Ports : o # p => worker'[o] = worker[o]
  BY <1>1, <1>5, <1>6, Zenon
<1>8. ASSUME NEW o \in Ports PROVE GuestOK(o)'
  <2>1. \A b : Serves(o, b)' <=> Serves(o, b)
    BY <1>2, Zenon DEF Serves
  <2>2. CASE o = p
    <3>1. worker'[o].st = "accepted" /\ worker'[o].peer = a /\ worker'[o].calls = <<>> /\ a # None
      BY <2>2, <1>6, <1>7, Constants, Zenon
    <3>2. Serves(o, a)'
      BY <2>1, <2>2, <1>3, Zenon
    <3> QED  BY <3>1, <3>2, Zenon DEF GuestOK
  <2>3. CASE o # p
    BY <2>1, <2>3, <1>2, <1>7, Zenon DEF GuestOK, IInv
  <2> QED  BY <2>2, <2>3, Zenon
<1> QED  BY <1>2, <1>7, <1>8, WorkerKeeps, Zenon
(* The init command tells the worker where the block of its guest is.       *)
LEMMA HandleInitStep ==
    ASSUME IInv, NEW p \in Ports, HandleInit(p)
    PROVE  IInv'
<1> DEFINE a == worker[p].peer
           base == BaseOf(app[a].vm, app[a].block)
<1>1. /\ worker \in [Ports -> WorkerRec] /\ worker[p] \in WorkerRec /\ GuestOK(p)
      /\ worker[p].st = "accepted" /\ app \in [Apps -> AppRec] /\ AppsOK
      /\ UNCHANGED <<handed, app, ask, calls, mgr>>
  BY Zenon DEF IInv, TypeOK, HandleInit
<1>2. CASE worker' = [worker EXCEPT ![p].st = "exited"]
  BY <1>1, <1>2, WorkerEndsStep, Zenon
<1>3. CASE worker' = [worker EXCEPT ![p].st = "running", ![p].base = base]
  <2>1. a \in Apps /\ app[a].st \notin Early /\ a # None /\ Serves(p, a)
    BY <1>1, Zenon DEF GuestOK, Serves
  <2>2. app[a].vm \in Vms /\ app[a].block \in Nat
    BY <1>1, <2>1, Zenon DEF AppsOK, AppRec, Early
  <2>3. base \in Int
    BY <2>2, Constants DEF BaseOf
  <2> DEFINE r == [worker[p] EXCEPT !.st = "running", !.base = base]
  <2>4. worker' = [worker EXCEPT ![p] = r]
    BY <1>1, <1>3, Zenon
  <2> HIDE DEF base
  <2>5. /\ r \in WorkerRec /\ r.st = "running" /\ r.peer = a /\ r.calls = worker[p].calls
        /\ r.base = base
    BY <1>1, <2>3, Zenon DEF WorkerRec
  <2> HIDE DEF r
  <2>6. /\ worker' \in [Ports -> WorkerRec] /\ worker'[p] = r
        /\ \A o \in Ports : o # p => worker'[o] = worker[o]
    BY <1>1, <2>4, <2>5, Zenon
  <2>7. ASSUME NEW o \in Ports PROVE GuestOK(o)'
    <3>1. \A b : Serves(o, b)' <=> Serves(o, b)
      BY <1>1, Zenon DEF Serves
    <3>2. CASE o = p
      <4>1. /\ worker'[o].peer = a /\ worker'[o].calls = worker[o].calls
            /\ worker'[o].base = BaseOf(app[a].vm, app[a].block)
        BY <3>2, <2>5, <2>6, Zenon DEF base
      <4> QED  BY <4>1, <3>1, <3>2, <1>1, <2>1, Zenon DEF GuestOK
    <3>3. CASE o # p
      BY <3>1, <3>3, <1>1, <2>6, Zenon DEF GuestOK, IInv
    <3> QED  BY <3>2, <3>3, Zenon
  <2> QED  BY <1>1, <2>6, <2>7, WorkerKeeps, Zenon
<1> QED  BY <1>2, <1>3, Zenon DEF HandleInit

(* Every step of an application, of the manager and of a worker keeps the   *)
(* invariant.                                                               *)
LEMMA GuestStep ==
    ASSUME IInv, NEW a \in Apps,
           RequestShm(a) \/ StartMigration(a) \/ Guest(a) \/ AppEnds(a)
    PROVE  IInv'
<1>1. app[a].st = "mapped" => app[a].port = 0
  BY Zenon DEF IInv, AppsOK
<1>2. CASE NewApplication(a)
  BY <1>1, <1>2, DialStep, Zenon DEF NewApplication
<1>3. CASE StartMigration(a)
  BY <1>3, DialStep, Zenon DEF StartMigration
<1>4. CASE ManagerLost(a) \/ AppEnds(a)
  BY <1>4, ExitStep, Zenon DEF ManagerLost, AppEnds, Alive
<1>5. CASE WorkerLost(a)
  BY <1>5, ExitStep, Zenon DEF WorkerLost
<1> QED  BY <1>2, <1>3, <1>4, <1>5, RequestShmStep, SendRequestStep, TakeAnswerStep,
            ConnectStep, SendInitStep, Zenon DEF Guest

(* The manager ends.                                                        *)
LEMMA ManagerDiesStep ==
    ASSUME IInv, ManagerDies
    PROVE  IInv'
<1>1. mgr \in MgrRec /\ worker \in [Ports -> WorkerRec] /\ calls \in Seq(Apps) /\ MgrOK
  BY Zenon DEF IInv, TypeOK
<1>2. /\ mgr' \in MgrRec /\ mgr'.st = "gone" /\ mgr'.id = mgr.id
      /\ UNCHANGED <<handed, app, ask, calls, worker>>
  BY <1>1, Zenon DEF ManagerDies, MgrRec
<1>3. MgrOK'
  BY <1>1, <1>2, Zenon DEF MgrOK
<1>4. \A q \in Nat : Issued(q) => Issued(q)'
  BY <1>2, Zenon DEF Issued
<1>5. \A p \in Ports : GuestOK(p)'
  BY <1>2, GuestsStay, Zenon DEF IInv
<1> QED  BY <1>1, <1>2, <1>3, <1>4, <1>5, OthersStep, Zenon

(* The steps of the manager.                                                *)
LEMMA ManagerStep ==
    ASSUME IInv, Manager \/ ManagerDies
    PROVE  IInv'
BY SpawnPoolStep, AcceptStep, ReceiveStep, RespondStep, ForkStep, ManagerDiesStep, Zenon DEF Manager

(* The steps of a worker.                                                   *)
LEMMA WorkerStep ==
    ASSUME IInv, NEW p \in Ports, Worker(p) \/ WorkerDies(p)
    PROVE  IInv'
<1>1. CASE Listen(p)
  BY <1>1, WorkerEndsStep, Zenon DEF Listen
<1>2. CASE HangUp(p)
  BY <1>2, WorkerEndsStep, Zenon DEF HangUp
<1>3. CASE WorkerDies(p)
  BY <1>3, WorkerEndsStep, Zenon DEF WorkerDies
<1> QED  BY <1>1, <1>2, <1>3, AcceptGuestStep, HandleInitStep, Zenon DEF Worker

(* Every step.                                                              *)
LEMMA InvStep ==
    ASSUME IInv, [Next]_vars
    PROVE  IInv'
<1>1. CASE UNCHANGED vars
  <2>1. UNCHANGED <<handed, app, ask, calls, mgr, worker>>
    BY <1>1, Zenon DEF vars
  <2>2. worker' \in [Ports -> WorkerRec] /\ \A p \in Ports : GuestOK(p)
    BY <2>1, Zenon DEF IInv, TypeOK
  <2>3. \A p \in Ports : GuestOK(p)'
    BY <2>1, <2>2, GuestsStay, Zenon
  <2> QED  BY <2>1, <2>2, <2>3, WorkerKeeps, Zenon
<1> QED  BY <1>1, GuestStep, ManagerStep, WorkerStep, Zenon DEF Next

-----------------------------------------------------------------------------
(* The manager gives a port to one application only, and nobody waits for   *)
(* a worker that has its guest.                                             *)
THEOREM WorkersHaveOneGuest == Spec => []OneGuestPerWorker
<1>1. Init => IInv
  BY InvInit, Zenon
<1>2. IInv /\ [Next]_vars => IInv'
  BY InvStep, Zenon
<1>3. IInv => OneGuestPerWorker
  <2> SUFFICES ASSUME IInv, NEW p \in Ports
               PROVE  /\ Cardinality({a \in Apps : app[a].port = p}) <= 1
                      /\ worker[p].peer # None => app[worker[p].peer].port = p /\ worker[p].calls = <<>>
    BY Zenon DEF OneGuestPerWorker
  <2>1. GuestOK(p) /\ PortsApart /\ p # 0
    BY Constants, Zenon DEF IInv
  <2>2. worker[p].peer # None => app[worker[p].peer].port = p /\ worker[p].calls = <<>>
    BY <2>1, Zenon DEF GuestOK, Serves
  <2> DEFINE S == {a \in Apps : app[a].port = p}
  <2>3. \A a, b \in S : a = b
    BY <2>1, Zenon DEF PortsApart
  <2>4. ASSUME S = {}
        PROVE  Cardinality(S) <= 1
    BY <2>4, FS_EmptySet
  <2>5. ASSUME S # {}
        PROVE  Cardinality(S) <= 1
    <3>1. PICK a : S = {a}
      BY <2>3, <2>5, Zenon
    <3>2. Cardinality({a}) = 1
      BY FS_Singleton, Zenon
    <3> QED  BY <3>1, <3>2
  <2>6. Cardinality(S) <= 1
    BY <2>4, <2>5, ZenonT(60)
  <2> QED  BY <2>2, <2>6, Zenon
<1> QED  BY <1>1, <1>2, <1>3, PTL DEF Spec

-----------------------------------------------------------------------------
(* Workers of different applications work on different bytes, as long as    *)
(* the driver of a VM has not handed out more than the VM's memory; and a   *)
(* migration finds the block of its worker in the manager's registry.  The  *)
(* first joins the invariant above with one about the driver, the second    *)
(* with one about worker_info and a count of the requests to be answered.   *)

(* The driver's blocks: each lies in the memory of its VM, and while that   *)
(* suffices, those of one VM are apart.                                     *)
Mapped(a) == app[a].st # "new"

DriverOK ==
    \A a \in Apps : Mapped(a) =>
        /\ app[a].block \in Nat /\ app[a].block + BlockSize <= GuestShm
        /\ handed[app[a].vm] <= GuestShm =>
             /\ app[a].block + BlockSize <= handed[app[a].vm]
             /\ \A b \in Apps : b # a /\ Mapped(b) /\ app[b].vm = app[a].vm =>
                  \/ app[a].block + BlockSize <= app[b].block
                  \/ app[b].block + BlockSize <= app[a].block

(* Only IOCTL_REQUEST_SHM hands out blocks.                                 *)
LEMMA DriverFrame ==
    ASSUME IInv, [Next]_vars, \A a \in Apps : ~RequestShm(a)
    PROVE  /\ handed' = handed
           /\ \A a \in Apps : /\ Mapped(a)' <=> Mapped(a)
                              /\ app'[a].vm = app[a].vm /\ app'[a].block = app[a].block
<1> DEFINE Same == \A b \in Apps : /\ Mapped(b)' <=> Mapped(b)
                                   /\ app'[b].vm = app[b].vm /\ app'[b].block = app[b].block
<1>1. app \in [Apps -> AppRec]
  BY Zenon DEF IInv, TypeOK
<1>2. ASSUME app' = app PROVE Same
  BY <1>2, Zenon DEF Mapped
<1>3. ASSUME NEW a \in Apps, Mapped(a), Exits(a) PROVE Same
  BY <1>1, <1>3, Zenon DEF Exits, Mapped, AppRec
<1>4. ASSUME NEW a \in Apps, StartMigration(a) \/ NewApplication(a)
      PROVE  Same /\ handed' = handed
  BY <1>2, <1>3, <1>4, Zenon DEF StartMigration, NewApplication, Dial, Mapped
<1>5. ASSUME NEW a \in Apps, ManagerLost(a) \/ WorkerLost(a) \/ AppEnds(a)
      PROVE  Same /\ handed' = handed
  BY <1>3, <1>5, Zenon DEF ManagerLost, WorkerLost, AppEnds, Alive, Mapped
<1>6. ASSUME NEW a \in Apps, SendRequest(a)
      PROVE  Same /\ handed' = handed
  BY <1>2, <1>6, Zenon DEF SendRequest
<1>7. ASSUME NEW a \in Apps, TakeAnswer(a)
      PROVE  Same /\ handed' = handed
  BY <1>1, <1>7, Zenon DEF TakeAnswer, Alive, Mapped, AppRec
<1>8. ASSUME NEW a \in Apps, Connect(a)
      PROVE  Same /\ handed' = handed
  <2>1. app[a].st = "connecting" /\ handed' = handed /\ app[a] \in AppRec
    BY <1>1, <1>8, Zenon DEF Connect, PortToDial
  <2>2. PICK q \in {"connecting", "connected", "exited"} :
          app'[a].st = q /\ app'[a].vm = app[a].vm /\ app'[a].block = app[a].block
    <3>1. CASE Accepting(worker[app[a].port])
      BY <1>1, <1>8, <2>1, <3>1, SMTT(60) DEF Connect, PortToDial, AppRec
    <3>2. CASE ~Accepting(worker[app[a].port])
      BY <1>1, <1>8, <2>1, <3>2, SMTT(60) DEF Connect, PortToDial, AppRec
    <3> QED  BY <3>1, <3>2, Zenon
  <2>3. \A b \in Apps : b # a => app'[b] = app[b]
    BY <1>1, <1>8, Zenon DEF Connect, PortToDial
  <2> QED  BY <2>1, <2>2, <2>3, Zenon DEF Mapped
<1>9. ASSUME NEW a \in Apps, SendInit(a)
      PROVE  Same /\ handed' = handed
  BY <1>1, <1>9, ZenonT(60) DEF SendInit, Mapped, AppRec
<1>10. ASSUME Manager \/ ManagerDies
       PROVE  Same /\ handed' = handed
  BY <1>2, <1>10, Zenon DEF Manager, ManagerDies, SpawnPool, Accept, Receive, Respond, Fork
<1>11. ASSUME NEW p \in Ports, Worker(p) \/ WorkerDies(p)
       PROVE  Same /\ handed' = handed
  BY <1>2, <1>11, Zenon DEF Worker, WorkerDies, Listen, AcceptGuest, HandleInit, HangUp
<1>12. ASSUME UNCHANGED vars
       PROVE  Same /\ handed' = handed
  BY <1>2, <1>12, Zenon DEF vars
<1> HIDE DEF Same
<1>13. Same /\ handed' = handed
  BY <1>4, <1>5, <1>6, <1>7, <1>8, <1>9, <1>10, <1>11, <1>12, ZenonT(60) DEF Next, Guest
<1> QED  BY <1>13, Zenon DEF Same

(* Every step keeps the blocks of the driver apart.                         *)
LEMMA DriverStep ==
    ASSUME IInv, DriverOK, [Next]_vars
    PROVE  DriverOK'
<1>1. CASE \A a \in Apps : ~RequestShm(a)
  BY <1>1, DriverFrame, Zenon DEF DriverOK
<1>2. ASSUME NEW a \in Apps, RequestShm(a)
      PROVE  DriverOK'
  <2> DEFINE v == app[a].vm
  <2>1. /\ app \in [Apps -> AppRec] /\ app[a] \in AppRec /\ handed \in [Vms -> Nat]
        /\ v \in Vms /\ handed[v] \in Nat /\ app[a].st = "new"
        /\ BlockSize \in Nat \ {0} /\ GuestShm \in Nat /\ BlockSize <= GuestShm
    BY <1>2, ConnectAssumption, Zenon DEF IInv, TypeOK, AppRec, RequestShm
  <2>2. /\ app'[a].st = "mapped" /\ app'[a].vm = v /\ app'[a].block = NextBlock(handed[v])
        /\ \A b \in Apps : b # a => app'[b] = app[b]
    BY <1>2, <2>1, Zenon DEF RequestShm, AppRec
  <2>3. /\ handed'[v] = handed[v] + BlockSize
        /\ \A w \in Vms : w # v => handed'[w] = handed[w]
    BY <1>2, <2>1, Zenon DEF RequestShm, HandedOn
  <2>4. /\ app'[a].block \in Nat /\ app'[a].block + BlockSize <= GuestShm
        /\ handed'[v] <= GuestShm => app'[a].block = handed[v]
    BY <2>1, <2>2, <2>3 DEF NextBlock
  <2>5. \A b \in Apps : b # a /\ Mapped(b) => Mapped(b)' /\ app[b].vm \in Vms
    BY <2>1, <2>2, Zenon DEF Mapped, AppRec
  <2>6. \A b \in Apps : b # a /\ Mapped(b)' => Mapped(b)
    BY <2>2, Zenon DEF Mapped
  <2>7. ASSUME NEW b \in Apps, b # a, Mapped(b), app[b].vm = v, handed'[v] <= GuestShm
        PROVE  app[b].block \in Nat /\ app[b].block + BlockSize <= handed[v]
    <3>1. handed[v] <= GuestShm
      BY <2>1, <2>3, <2>7, SMTT(60)
    <3> QED  BY <3>1, <2>7, Zenon DEF DriverOK
  <2> SUFFICES ASSUME NEW c \in Apps, Mapped(c)'
               PROVE  /\ app'[c].block \in Nat /\ app'[c].block + BlockSize <= GuestShm
                      /\ handed'[app'[c].vm] <= GuestShm =>
                           /\ app'[c].block + BlockSize <= handed'[app'[c].vm]
                           /\ \A b \in Apps : b # c /\ Mapped(b)' /\ app'[b].vm = app'[c].vm =>
                                \/ app'[c].block + BlockSize <= app'[b].block
                                \/ app'[b].block + BlockSize <= app'[c].block
    BY Zenon DEF DriverOK
  <2>8. CASE c = a
    BY <2>1, <2>2, <2>3, <2>4, <2>6, <2>7, <2>8, SMTT(60)
  <2>9. CASE c # a /\ app[c].vm = v
    <3>1. app'[c] = app[c] /\ Mapped(c) /\ app[c].block \in Nat /\ app[c].block + BlockSize <= GuestShm
      BY <2>2, <2>6, <2>9, Zenon DEF DriverOK
    <3> SUFFICES ASSUME handed'[v] <= GuestShm
                 PROVE  /\ app[c].block + BlockSize <= handed'[v]
                        /\ \A b \in Apps : b # c /\ Mapped(b)' /\ app'[b].vm = v =>
                             \/ app[c].block + BlockSize <= app'[b].block
                             \/ app'[b].block + BlockSize <= app[c].block
      BY <3>1, <2>9, Zenon
    <3>2. app[c].block + BlockSize <= handed[v] /\ handed[v] <= GuestShm
      BY <2>1, <2>3, <2>7, <2>9, <3>1, SMTT(60)
    <3>3. app[c].block + BlockSize <= handed'[v]
      BY <2>1, <2>3, <3>1, <3>2, SMTT(60)
    <3>4. ASSUME NEW b \in Apps, b # c, Mapped(b)', app'[b].vm = v
          PROVE  \/ app[c].block + BlockSize <= app'[b].block
                 \/ app'[b].block + BlockSize <= app[c].block
      <4>1. CASE b = a
        BY <4>1, <2>4, <3>2, Zenon
      <4>2. CASE b # a
        BY <4>2, <3>4, <2>2, <2>6, <2>9, <3>1, <3>2, Zenon DEF DriverOK
      <4> QED  BY <4>1, <4>2, Zenon
    <3> QED  BY <3>3, <3>4, Zenon
  <2>10. CASE c # a /\ app[c].vm # v
    <3>1. app'[c] = app[c] /\ Mapped(c) /\ handed'[app[c].vm] = handed[app[c].vm]
      BY <2>2, <2>3, <2>5, <2>6, <2>10, Zenon
    <3>2. \A b \in Apps : b # c /\ Mapped(b)' /\ app'[b].vm = app[c].vm =>
             Mapped(b) /\ app'[b] = app[b]
      BY <2>2, <2>6, <2>10, Zenon
    <3> QED  BY <3>1, <3>2, Zenon DEF DriverOK
  <2> QED  BY <2>8, <2>9, <2>10, Zenon
<1> QED  BY <1>1, <1>2, Zenon

(* The memory of one VM ends where that of the next begins, at the latest.  *)
LEMMA VmsApart ==
    ASSUME NEW v \in Nat, NEW w \in Nat, NEW g \in Nat, v < w
    PROVE  (v - 1) * g + g <= (w - 1) * g
<1>1. PICK k \in Nat : w = v + 1 + k
  <2>1. w - v - 1 \in Nat /\ w = v + 1 + (w - v - 1)
    OBVIOUS
  <2> QED  BY <2>1, Zenon
<1>2. k * g \in Nat
  OBVIOUS
<1>3. (w - 1) * g = (v - 1) * g + g + k * g
  BY <1>1
<1> QED  BY <1>2, <1>3

(* Two running workers share bytes only when the driver of a VM has handed  *)
(* out more than its memory.                                                *)
THEOREM BlocksOfWorkersApart == Spec => []BlocksApart
<1>1. Init => IInv
  BY InvInit, Zenon
<1>2. IInv /\ [Next]_vars => IInv'
  BY InvStep, Zenon
<1>3. Init => DriverOK
  BY DEF Init, DriverOK, Mapped
<1>4. IInv /\ DriverOK /\ [Next]_vars => DriverOK'
  BY DriverStep, Zenon
<1>5. IInv /\ DriverOK => BlocksApart
  <2> SUFFICES ASSUME IInv, DriverOK, NEW p \in Ports, NEW q \in Ports, p # q,
                      worker[p].st = "running", worker[q].st = "running",
                      worker[p].base < worker[q].base + BlockSize,
                      worker[q].base < worker[p].base + BlockSize
               PROVE  /\ app[worker[p].peer].vm = app[worker[q].peer].vm
                      /\ handed[app[worker[p].peer].vm] > GuestShm
    BY Zenon DEF BlocksApart
  <2> DEFINE a == worker[p].peer
             b == worker[q].peer
             v == app[a].vm
             w == app[b].vm
             x == app[a].block
             y == app[b].block
  <2>1. ASSUME NEW o \in Ports, worker[o].st = "running"
        PROVE  /\ Serves(o, worker[o].peer)
               /\ worker[o].base = BaseOf(app[worker[o].peer].vm, app[worker[o].peer].block)
    BY <2>1, Zenon DEF IInv, GuestOK
  <2>2. Serves(p, a) /\ Serves(q, b) /\ worker[p].base = BaseOf(v, x) /\ worker[q].base = BaseOf(w, y)
    BY <2>1, Zenon
  <2>3. a \in Apps /\ b \in Apps /\ a # b /\ Mapped(a) /\ Mapped(b)
    BY <2>2, Zenon DEF Serves, Mapped, Early
  <2>4. /\ v \in Vms /\ w \in Vms /\ v \in Nat /\ w \in Nat /\ handed[v] \in Nat
        /\ BlockSize \in Nat /\ GuestShm \in Nat
    BY <2>3, Constants, Zenon DEF IInv, TypeOK, AppRec
  <2>5. worker[p].base = (v - 1) * GuestShm + x /\ worker[q].base = (w - 1) * GuestShm + y
    BY <2>2, Zenon DEF BaseOf
  <2>6. /\ x \in Nat /\ y \in Nat /\ x + BlockSize <= GuestShm /\ y + BlockSize <= GuestShm
        /\ v = w /\ handed[v] <= GuestShm => x + BlockSize <= y \/ y + BlockSize <= x
    BY <2>3, ZenonT(60) DEF DriverOK
  <2>7. PICK i \in Int, j \in Int : i = (v - 1) * GuestShm /\ j = (w - 1) * GuestShm
    BY <2>4
  <2>8. (v < w => i + GuestShm <= j) /\ (w < v => j + GuestShm <= i) /\ (v = w => i = j)
    <3>1. \A m, n \in Nat : m < n => (m - 1) * GuestShm + GuestShm <= (n - 1) * GuestShm
      BY <2>4, VmsApart, Zenon
    <3>2. v < w => (v - 1) * GuestShm + GuestShm <= (w - 1) * GuestShm
      BY <3>1, <2>4, Zenon
    <3>3. w < v => (w - 1) * GuestShm + GuestShm <= (v - 1) * GuestShm
      BY <3>1, <2>4, Zenon
    <3> QED  BY <3>2, <3>3, <2>7, Zenon
  <2>9. i + x < j + y + BlockSize /\ j + y < i + x + BlockSize
    BY <2>5, <2>7, Zenon
  <2> HIDE DEF a, b, v, w, x, y
  <2>10. v = w
    <3>1. ~(v < w)
      <4> SUFFICES ASSUME i + GuestShm <= j PROVE FALSE
        BY <2>8, Zenon
      <4> QED  BY <2>4, <2>6, <2>9, SMTT(60)
    <3>2. ~(w < v)
      <4> SUFFICES ASSUME j + GuestShm <= i PROVE FALSE
        BY <2>8, Zenon
      <4> QED  BY <2>4, <2>6, <2>9
    <3> QED  BY <3>1, <3>2, <2>4, SMTT(60)
  <2>11. handed[v] > GuestShm
    BY <2>4, <2>6, <2>8, <2>9, <2>10, SMTT(60)
  <2> QED  BY <2>10, <2>11, Zenon DEF a, b, v, w
<1> QED  BY <1>1, <1>2, <1>3, <1>4, <1>5, PTL DEF Spec

-----------------------------------------------------------------------------
(* The registry of the manager, worker_info.  The port q was given to a by  *)
(* the answer to its first request, taken or not.                           *)
Owns(a, q) ==
    \/ q # 0 /\ app[a].port = q
    \/ Answered(a) /\ ask[a].kind = "new" /\ ask[a].port = q

(* The requests still to be answered: the first one of an application that  *)
(* has no port, made or not, and those for a migration.                     *)
Outstanding == {a \in Apps : ~Answered(a) /\ (app[a].port = 0 \/ ask[a].kind = "migrate")}

RequestsOK ==
    \A a \in Apps :
        /\ app[a].st \in {"connecting", "connected", "running"} => app[a].port # 0
        /\ ask[a].st # "none" /\ ask[a].kind = "new" => app[a].st # "new"
        /\ ask[a].kind = "migrate" => app[a].port # 0

(* The ports that are given out and the requests that may still ask for one *)
(* are no more than the applications and migrations there are.              *)
Given == IF mgr.st = "responded" THEN mgr.id ELSE mgr.id - 1

PortsSuffice == Given + Cardinality(Outstanding) + budget.migrations <= Cardinality(Apps) + MaxMigrations

Registry ==
    /\ info \in [Ports -> Nat \cup {None}] /\ budget \in [migrations : Nat, deaths : Nat]
    /\ RequestsOK /\ PortsSuffice
    /\ \A a \in Apps, q \in Nat : Owns(a, q) => q \in Ports /\ info[q] = app[a].block
    /\ mgr.st = "received" /\ ask[mgr.peer].kind = "new" =>
          mgr.id \in Ports /\ info[mgr.id] = app[mgr.peer].block
    /\ mgr.st # "faulted"

(* The counts are numbers.                                                  *)
LEMMA Counts ==
    ASSUME IInv, Registry
    PROVE  /\ IsFiniteSet(Outstanding) /\ Cardinality(Outstanding) \in Nat
           /\ Cardinality(Apps) \in Nat /\ MaxMigrations \in Nat /\ PoolSize \in Nat \ {0}
           /\ Given \in Int /\ mgr.id \in Nat /\ mgr.id # 0 /\ budget.migrations \in Nat
<1>1. IsFiniteSet(Apps)
  BY ConnectAssumption, Zenon
<1>2. IsFiniteSet(Outstanding)
  BY <1>1, FS_Subset, Zenon DEF Outstanding
<1>3. Cardinality(Outstanding) \in Nat /\ Cardinality(Apps) \in Nat
  BY <1>1, <1>2, FS_CardinalityType, Zenon
<1>4. mgr.id \in Nat /\ mgr.id # 0
  BY Zenon DEF IInv, TypeOK, MgrRec, MgrOK
<1>5. Given \in Int
  BY <1>4 DEF Given
<1> QED  BY <1>2, <1>3, <1>4, <1>5, ConnectAssumption, Zenon DEF Registry

(* The registry is empty initially.                                         *)
LEMMA RegistryInit ==
    ASSUME Init
    PROVE  Registry
<1>1. \A a \in Apps : app[a].st = "new" /\ app[a].port = 0
  BY DEF Init
<1>2. \A a \in Apps : ask[a].st = "none" /\ ask[a].kind = "new"
  BY Zenon DEF Init, NotAsking
<1>3. mgr.st = "pool" /\ mgr.id = 1
  BY DEF Init
<1>4. info \in [Ports -> Nat \cup {None}] /\ budget \in [migrations : Nat, deaths : Nat]
      /\ budget.migrations = MaxMigrations
  BY ConnectAssumption, Zenon DEF Init
<1>5. Outstanding = Apps
  BY <1>1, <1>2, Zenon DEF Outstanding, Answered
<1>6. PortsSuffice
  <2>1. Cardinality(Apps) \in Nat /\ MaxMigrations \in Nat
    BY ConnectAssumption, FS_CardinalityType, Zenon
  <2> QED  BY <1>3, <1>4, <1>5, <2>1, SMTT(60) DEF PortsSuffice, Given
<1>7. RequestsOK /\ \A a \in Apps, q \in Nat : ~Owns(a, q)
  BY <1>1, <1>2, Zenon DEF RequestsOK, Owns, Answered
<1> QED  BY <1>3, <1>4, <1>6, <1>7, Zenon DEF Registry

(* A step that gives out no port: the applications keep theirs, and the     *)
(* requests stay as they are.                                               *)
LEMMA RegistryKeeps ==
    ASSUME IInv, Registry, info' = info, ask' = ask,
           budget' \in [migrations : Nat, deaths : Nat], budget'.migrations <= budget.migrations,
           \A b \in Apps :
              /\ app'[b].port = app[b].port
              /\ app[b].st # "new" => app'[b].st # "new" /\ app'[b].block = app[b].block
              /\ app'[b].st \in {"connecting", "connected", "running"} => app[b].port # 0,
           \/ mgr' = mgr
           \/ Given' <= Given /\ Given' \in Int /\ mgr'.st \notin {"received", "faulted"}
    PROVE  Registry'
<1>1. RequestsOK /\ PortsSuffice
  BY Zenon DEF Registry
<1>2. RequestsOK'
  BY <1>1, Zenon DEF RequestsOK
<1>3. Outstanding' = Outstanding
  BY Zenon DEF Outstanding, Answered
<1>4. PortsSuffice'
  <2>1. Given' <= Given /\ Given' \in Int
    BY Counts DEF Given
  <2>2. budget'.migrations \in Nat
    BY Zenon
  <2>3. PICK c, x, y, z : c = Cardinality(Outstanding) /\ x = Given /\ y = budget.migrations
                          /\ z = Cardinality(Apps) + MaxMigrations
    BY Zenon
  <2>4. c \in Nat /\ x \in Int /\ y \in Nat /\ z \in Int /\ x + c + y <= z
    BY <1>1, <2>3, Counts, SMTT(60) DEF PortsSuffice
  <2>5. Given' + c + budget'.migrations <= z
    BY <2>1, <2>2, <2>3, <2>4, SMTT(60)
  <2> QED  BY <1>3, <2>3, <2>5, Zenon DEF PortsSuffice
<1>5. ASSUME NEW a \in Apps, NEW q \in Nat, Owns(a, q)'
      PROVE  q \in Ports /\ info'[q] = app'[a].block
  <2>1. Owns(a, q)
    BY <1>5, Zenon DEF Owns, Answered
  <2>2. app[a].st # "new"
    BY <1>1, <2>1, Zenon DEF Owns, Answered, RequestsOK, IInv, AppsOK
  <2> QED  BY <2>1, <2>2, Zenon DEF Registry
<1>6. ASSUME mgr'.st = "received", ask'[mgr'.peer].kind = "new"
      PROVE  mgr'.id \in Ports /\ info'[mgr'.id] = app'[mgr'.peer].block
  <2>1. mgr' = mgr
    BY <1>6, Zenon
  <2>2. mgr.peer \in Apps /\ app[mgr.peer].st # "new"
    BY <1>1, <1>6, <2>1, Zenon DEF IInv, MgrOK, RequestsOK
  <2> QED  BY <1>6, <2>1, <2>2, Zenon DEF Registry
<1>7. mgr'.st # "faulted"
  BY Zenon DEF Registry
<1> QED  BY <1>2, <1>4, <1>5, <1>6, <1>7, Zenon DEF Registry

(* A request is made or goes on its way.                                    *)
LEMMA RegistryAsk ==
    ASSUME IInv, Registry, NEW a \in Apps, NEW r \in AskRec, ask' = [ask EXCEPT ![a] = r],
           UNCHANGED <<app, mgr, info>>, ~Answered(a), r.st # "answered",
           r.kind = "new" => app[a].port = 0 /\ app[a].st # "new",
           r.kind = "migrate" => app[a].port # 0, ask[a].st = "none" \/ r.kind = ask[a].kind,
           budget' \in [migrations : Nat, deaths : Nat], budget'.migrations <= budget.migrations,
           a \in Outstanding \/ budget'.migrations + 1 <= budget.migrations
    PROVE  Registry'
<1>1. RequestsOK /\ PortsSuffice /\ ask \in [Apps -> AskRec]
  BY Zenon DEF Registry, IInv, TypeOK
<1>2. ask'[a] = r /\ \A b \in Apps : b # a => ask'[b] = ask[b]
  BY <1>1, Zenon
<1>3. RequestsOK'
  BY <1>1, <1>2, Zenon DEF RequestsOK
<1>4. \A b \in Apps : Answered(b)' <=> Answered(b)
  BY <1>2, Zenon DEF Answered
<1>5. Outstanding' \subseteq Outstanding \cup {a}
  BY <1>2, <1>4, Zenon DEF Outstanding
<1>6. PortsSuffice'
  <2>1. /\ IsFiniteSet(Outstanding \cup {a})
        /\ Cardinality(Outstanding \cup {a}) =
             IF a \in Outstanding THEN Cardinality(Outstanding) ELSE Cardinality(Outstanding) + 1
    BY Counts, FS_AddElement, Zenon
  <2>2. Cardinality(Outstanding') \in Nat /\ Cardinality(Outstanding') <= Cardinality(Outstanding \cup {a})
    BY <1>5, <2>1, FS_Subset, FS_CardinalityType, Zenon
  <2>3. PICK c, d, x, y, z : /\ c = Cardinality(Outstanding) /\ d = Cardinality(Outstanding')
                             /\ x = Given /\ y = budget.migrations
                             /\ z = Cardinality(Apps) + MaxMigrations
    BY Zenon
  <2>4. c \in Nat /\ d \in Nat /\ x \in Int /\ y \in Nat /\ z \in Int /\ x + c + y <= z
    BY <1>1, <2>2, <2>3, Counts, SMTT(60) DEF PortsSuffice
  <2>5. d <= c \/ (d <= c + 1 /\ budget'.migrations + 1 <= y)
    BY <2>1, <2>2, <2>3, Zenon
  <2>6. budget'.migrations \in Nat /\ budget'.migrations <= y
    BY <2>3, Zenon
  <2>7. x + d + budget'.migrations <= z
    BY <2>4, <2>5, <2>6, SMTT(60)
  <2>8. Given' = Given
    BY Zenon DEF Given
  <2> QED  BY <2>3, <2>7, <2>8, Zenon DEF PortsSuffice
<1>7. ASSUME NEW b \in Apps, NEW q \in Nat, Owns(b, q)'
      PROVE  q \in Ports /\ info'[q] = app'[b].block
  <2>1. Owns(b, q)
    BY <1>2, <1>4, <1>7, Zenon DEF Owns, Answered
  <2> QED  BY <2>1, Zenon DEF Registry
<1>8. ASSUME mgr'.st = "received", ask'[mgr'.peer].kind = "new"
      PROVE  mgr'.id \in Ports /\ info'[mgr'.id] = app'[mgr'.peer].block
  <2>1. mgr.peer \in Apps /\ ask[mgr.peer].st = "sent"
    BY <1>8, Zenon DEF IInv, MgrOK
  <2>2. ask[mgr.peer].kind = "new"
    BY <1>2, <1>8, <2>1, Zenon
  <2> QED  BY <1>8, <2>2, Zenon DEF Registry
<1>9. mgr'.st # "faulted" /\ info' \in [Ports -> Nat \cup {None}]
  BY Zenon DEF Registry
<1> QED  BY <1>3, <1>6, <1>7, <1>8, <1>9, Zenon DEF Registry

(* The application takes the port it was given.                             *)
LEMMA RegistryTake ==
    ASSUME IInv, Registry, NEW a \in Apps, TakeAnswer(a)
    PROVE  Registry'
<1>1. RequestsOK /\ PortsSuffice /\ ask \in [Apps -> AskRec] /\ app \in [Apps -> AppRec]
  BY Zenon DEF Registry, IInv, TypeOK
<1>2. /\ app[a].st \notin {"new", "exited"} /\ Answered(a)
      /\ ask' = [ask EXCEPT ![a] = NotAsking] /\ UNCHANGED <<mgr, info, budget>>
  BY Zenon DEF TakeAnswer, Alive, Answered
<1>3. /\ ask'[a].st = "none" /\ ask'[a].kind = "new" /\ \A b \in Apps : b # a => ask'[b] = ask[b]
  BY <1>1, <1>2, Zenon DEF NotAsking
<1>4. \A b \in Apps : b # a => app'[b] = app[b]
  BY <1>1, Zenon DEF TakeAnswer
<1>5. /\ app'[a].block = app[a].block /\ app'[a].st # "new" /\ app'[a].port # 0
      /\ \/ app'[a].port = app[a].port
         \/ ask[a].kind = "new" /\ app'[a].port = ask[a].port
  <2>1. CASE ask[a].kind = "new"
    <3>1. /\ app'[a].block = app[a].block /\ app'[a].st = "connecting"
          /\ app'[a].port = ask[a].port
      BY <1>1, <2>1, Zenon DEF TakeAnswer, AppRec
    <3>2. ask[a].port # 0
      BY <1>2, Zenon DEF IInv, PortsIssued
    <3> QED  BY <2>1, <3>1, <3>2, Zenon
  <2>2. CASE ask[a].kind # "new"
    <3>1. app' = app /\ ask[a].kind = "migrate"
      BY <1>1, <2>2, Zenon DEF TakeAnswer, AskRec
    <3> QED  BY <1>1, <1>2, <3>1, Zenon DEF RequestsOK
  <2> QED  BY <2>1, <2>2, Zenon
<1>6. RequestsOK'
  BY <1>1, <1>3, <1>4, <1>5, Zenon DEF RequestsOK
<1>7. Outstanding' = Outstanding
  BY <1>2, <1>3, <1>4, <1>5, ZenonT(60) DEF Outstanding, Answered
<1>8. PortsSuffice'
  BY <1>1, <1>2, <1>7, Zenon DEF PortsSuffice, Given
<1>9. ASSUME NEW b \in Apps, NEW q \in Nat, Owns(b, q)'
      PROVE  q \in Ports /\ info'[q] = app'[b].block
  <2>1. Owns(b, q)
    BY <1>2, <1>3, <1>4, <1>5, <1>9, Zenon DEF Owns, Answered
  <2> QED  BY <1>2, <1>4, <1>5, <2>1, SMTT(60) DEF Registry
<1>10. ASSUME mgr'.st = "received", ask'[mgr'.peer].kind = "new"
       PROVE  mgr'.id \in Ports /\ info'[mgr'.id] = app'[mgr'.peer].block
  <2>1. mgr.peer \in Apps /\ mgr.peer # a
    BY <1>2, <1>10, Zenon DEF IInv, MgrOK, Answered
  <2> QED  BY <1>2, <1>3, <1>4, <1>10, <2>1, SMTT(60) DEF Registry
<1>11. mgr'.st # "faulted" /\ info' \in [Ports -> Nat \cup {None}]
       /\ budget' \in [migrations : Nat, deaths : Nat]
  BY <1>2, Zenon DEF Registry
<1> QED  BY <1>6, <1>8, <1>9, <1>10, <1>11, Zenon DEF Registry

(* As long as a request is outstanding there is a port for it.              *)
LEMMA PortLeft ==
    ASSUME IInv, Registry, NEW a \in Outstanding, mgr.st # "responded"
    PROVE  mgr.id \in Ports
<1>1. Cardinality(Outstanding) # 0
  BY Counts, FS_EmptySet, Zenon
<1>2. PICK c, n, x, y, z : /\ c = Cardinality(Outstanding) /\ n = Cardinality(Apps)
                           /\ x = mgr.id /\ y = budget.migrations /\ z = MaxMigrations
  BY Zenon
<1>3. x - 1 + c + y <= n + z
  BY <1>2, Zenon DEF Registry, PortsSuffice, Given
<1>4. c \in Nat \ {0} /\ n \in Nat /\ x \in Nat \ {0} /\ y \in Nat /\ z \in Nat /\ PoolSize \in Nat
  BY <1>1, <1>2, Counts, Zenon
<1>5. x <= n + z + PoolSize /\ 1 <= x
  BY <1>3, <1>4
<1>6. n + z + PoolSize \in Nat
  BY <1>4
<1> QED  BY <1>2, <1>4, <1>5, <1>6, SMTT(60) DEF Ports, MaxPort

(* The manager takes a request: the first one of an application is          *)
(* registered under a port nobody has, a migration finds its block.         *)
LEMMA RegistryReceive ==
    ASSUME IInv, Registry, Receive
    PROVE  Registry'
<1>1. PICK a : a = mgr.peer
  BY Zenon
<1>2. /\ mgr.st = "accepted" /\ a \in Apps /\ mgr \in MgrRec
      /\ UNCHANGED <<app, ask, budget>> /\ app[a] \in AppRec /\ ask[a] \in AskRec
  BY <1>1, Zenon DEF Receive, IInv, MgrOK, TypeOK
<1>3. RequestsOK /\ PortsSuffice /\ info \in [Ports -> Nat \cup {None}]
      /\ budget' \in [migrations : Nat, deaths : Nat]
  BY <1>2, Zenon DEF Registry
<1>4. CASE mgr' = [mgr EXCEPT !.st = "gone"] /\ UNCHANGED info
  <2>1. mgr'.st = "gone" /\ Given' = Given
    BY <1>2, <1>4, Zenon DEF Given, MgrRec
  <2>2. Given' <= Given /\ Given' \in Int
    BY <2>1, Counts, SMTT(60)
  <2>3. budget'.migrations <= budget.migrations
    BY <1>2, Counts, SMTT(60)
  <2>4. \A b \in Apps : app[b].st \in {"connecting", "connected", "running"} => app[b].port # 0
    BY <1>3, Zenon DEF RequestsOK
  <2> QED  BY <1>2, <1>3, <1>4, <2>1, <2>2, <2>3, <2>4, RegistryKeeps, Zenon
<1>5. ASSUME ask[a].st = "sent", mgr' = [mgr EXCEPT !.st = "received"],
             info' \in [Ports -> Nat \cup {None}],
             \A b \in Apps, q \in Nat : Owns(b, q) => info'[q] = info[q],
             ask[a].kind = "new" => mgr.id \in Ports /\ info'[mgr.id] = app[a].block
      PROVE  Registry'
  <2>1. mgr'.st = "received" /\ mgr'.peer = a /\ mgr'.id = mgr.id
    BY <1>1, <1>2, <1>5, Zenon DEF MgrRec
  <2>2. RequestsOK' /\ PortsSuffice'
    BY <1>2, <1>3, <2>1, Zenon DEF RequestsOK, PortsSuffice, Given, Outstanding, Answered
  <2>3. ASSUME NEW b \in Apps, NEW q \in Nat, Owns(b, q)'
        PROVE  q \in Ports /\ info'[q] = app'[b].block
    <3>1. Owns(b, q)
      BY <1>2, <2>3, Zenon DEF Owns, Answered
    <3> QED  BY <1>2, <1>5, <3>1, Zenon DEF Registry
  <2> QED  BY <1>2, <1>3, <1>5, <2>1, <2>2, <2>3, ZenonT(60) DEF Registry
<1>6. CASE ask[a].st = "sent" /\ ask[a].kind = "new"
  <2>1. /\ mgr' = [mgr EXCEPT !.st = "received"]
        /\ info' = [info EXCEPT ![mgr.id] = app[a].block]
    BY <1>1, <1>6, Zenon DEF Receive, InfoKey
  <2>2. a \in Outstanding
    BY <1>2, <1>6, Zenon DEF Outstanding, Answered, IInv, AppsOK
  <2>3. mgr.id \in Ports
    BY <1>2, <2>2, PortLeft, Zenon
  <2>4. app[a].block \in Nat \cup {None}
    BY <1>2, Zenon DEF AppRec
  <2>5. info' \in [Ports -> Nat \cup {None}] /\ info'[mgr.id] = app[a].block
    BY <1>3, <2>1, <2>3, <2>4, Zenon
  <2>6. ASSUME NEW b \in Apps, NEW q \in Nat, Owns(b, q)
        PROVE  info'[q] = info[q]
    <3>1. q \in Ports
      BY <2>6, Zenon DEF Registry
    <3>2. q < mgr.id
      BY <1>2, <2>6, Zenon DEF Owns, IInv, PortsIssued, Issued
    <3>3. q # mgr.id
      BY <3>2, Counts, SMTT(60)
    <3> QED  BY <1>3, <2>1, <3>1, <3>3, Zenon
  <2> QED  BY <1>5, <1>6, <2>1, <2>3, <2>5, <2>6, ZenonT(60)
<1>7. CASE ask[a].st = "sent" /\ ask[a].kind = "migrate"
  <2>1. app[a].port \in Nat /\ app[a].port # 0 /\ app[a].block \in Nat
    BY <1>2, <1>3, <1>7, Zenon DEF RequestsOK, AppRec, IInv, AppsOK
  <2>2. info[app[a].port] = app[a].block
    BY <1>2, <2>1, Zenon DEF Registry, Owns
  <2>3. info[app[a].port] # None
    BY <2>1, <2>2, Constants, Zenon
  <2>4. mgr' = [mgr EXCEPT !.st = "received"] /\ UNCHANGED info
    BY <1>1, <1>7, <2>3, Zenon DEF Receive
  <2> QED  BY <1>3, <1>5, <1>7, <2>4, Zenon
<1> QED  BY <1>1, <1>2, <1>4, <1>6, <1>7, Zenon DEF Receive

(* The manager answers: one request less, one port more.                    *)
LEMMA RegistryRespond ==
    ASSUME IInv, Registry, Respond
    PROVE  Registry'
<1>1. PICK a : a = mgr.peer
  BY Zenon
<1>2. /\ mgr.st = "received" /\ a \in Apps /\ mgr \in MgrRec /\ ask[a].st = "sent"
      /\ UNCHANGED <<app, info, budget>> /\ ask[a] \in AskRec /\ ask \in [Apps -> AskRec]
  BY <1>1, Zenon DEF Respond, IInv, MgrOK, TypeOK
<1>3. RequestsOK /\ PortsSuffice /\ info' \in [Ports -> Nat \cup {None}]
      /\ budget' \in [migrations : Nat, deaths : Nat]
  BY <1>2, Zenon DEF Registry
<1>4. CASE mgr' = [mgr EXCEPT !.st = "gone"] /\ UNCHANGED ask
  <2>1. mgr'.st = "gone" /\ Given' = Given
    BY <1>2, <1>4, Zenon DEF Given, MgrRec
  <2>2. Given' <= Given /\ Given' \in Int
    BY <2>1, Counts
  <2>3. budget'.migrations <= budget.migrations
    BY <1>2, Counts
  <2>4. \A b \in Apps : app[b].st \in {"connecting", "connected", "running"} => app[b].port # 0
    BY <1>3, Zenon DEF RequestsOK
  <2> QED  BY <1>2, <1>3, <1>4, <2>1, <2>2, <2>3, <2>4, RegistryKeeps, Zenon
<1>5. CASE /\ ask' = [ask EXCEPT ![a].st = "answered", ![a].port = mgr.id]
           /\ mgr' = [mgr EXCEPT !.st = "responded", !.peer = None]
  <2>1. mgr'.st = "responded" /\ mgr'.id = mgr.id
    BY <1>2, <1>5, Zenon DEF MgrRec
  <2>2. /\ ask'[a].st = "answered" /\ ask'[a].kind = ask[a].kind /\ ask'[a].port = mgr.id
        /\ \A b \in Apps : b # a => ask'[b] = ask[b]
    BY <1>2, <1>5, Zenon DEF AskRec
  <2>3. RequestsOK'
    BY <1>2, <1>3, <2>2, Zenon DEF RequestsOK
  <2>4. a \in Outstanding
    BY <1>2, Zenon DEF Outstanding, Answered, IInv, AppsOK, AskRec
  <2>5. Outstanding' = Outstanding \ {a}
    BY <1>2, <2>2, Zenon DEF Outstanding, Answered
  <2>6. Cardinality(Outstanding') = Cardinality(Outstanding) - 1
    BY <2>4, <2>5, Counts, FS_RemoveElement, Zenon
  <2>7. PortsSuffice'
    <3>1. Given' = mgr.id /\ Given = mgr.id - 1 /\ budget' = budget
      BY <1>2, <2>1, Zenon DEF Given
    <3>2. PICK c, x, y, z : /\ c = Cardinality(Outstanding) /\ z = Cardinality(Apps) + MaxMigrations
                            /\ x = mgr.id /\ y = budget.migrations
      BY Zenon
    <3>3. x - 1 + c + y <= z /\ c \in Nat /\ x \in Nat /\ y \in Nat /\ z \in Nat
      BY <1>3, <3>1, <3>2, Counts, SMTT(60) DEF PortsSuffice
    <3>4. x + (c - 1) + y <= z
      BY <3>3
    <3> QED  BY <2>6, <3>1, <3>2, <3>4, Zenon DEF PortsSuffice
  <2>8. ASSUME NEW b \in Apps, NEW q \in Nat, Owns(b, q)'
        PROVE  q \in Ports /\ info'[q] = app'[b].block
    <3>1. Owns(b, q) \/ (b = a /\ q = mgr.id /\ ask[a].kind = "new")
      BY <1>2, <2>2, <2>8, Zenon DEF Owns, Answered
    <3> QED  BY <1>1, <1>2, <3>1, Zenon DEF Registry
  <2> QED  BY <1>3, <2>1, <2>3, <2>7, <2>8, Zenon DEF Registry
<1> QED  BY <1>1, <1>4, <1>5, Zenon DEF Respond

(* A step of an application that makes no request and takes no answer.      *)
LEMMA RegistryApp ==
    ASSUME IInv, Registry, NEW a \in Apps, NEW r \in AppRec, app' = [app EXCEPT ![a] = r],
           r.port = app[a].port, app[a].st # "new" => r.st # "new" /\ r.block = app[a].block,
           r.st \in {"connecting", "connected", "running"} => app[a].port # 0,
           UNCHANGED <<ask, mgr, info>>,
           budget' \in [migrations : Nat, deaths : Nat], budget'.migrations <= budget.migrations
    PROVE  Registry'
<1>1. app \in [Apps -> AppRec] /\ RequestsOK
  BY Zenon DEF IInv, TypeOK, Registry
<1>2. app'[a] = r /\ \A b \in Apps : b # a => app'[b] = app[b]
  BY <1>1, Zenon
<1>3. \A b \in Apps :
              /\ app'[b].port = app[b].port
              /\ app[b].st # "new" => app'[b].st # "new" /\ app'[b].block = app[b].block
              /\ app'[b].st \in {"connecting", "connected", "running"} => app[b].port # 0
  BY <1>1, <1>2, Zenon DEF RequestsOK
<1> QED  BY <1>3, RegistryKeeps, Zenon

(* An application exits.                                                    *)
LEMMA RegistryExit ==
    ASSUME IInv, Registry, NEW a \in Apps, Exits(a), UNCHANGED <<ask, mgr, info>>,
           budget' \in [migrations : Nat, deaths : Nat], budget'.migrations <= budget.migrations
    PROVE  Registry'
<1>1. app[a] \in AppRec /\ app \in [Apps -> AppRec]
  BY Zenon DEF IInv, TypeOK
<1>2. PICK r : r = [app[a] EXCEPT !.st = "exited"]
  BY Zenon
<1>3. r \in AppRec /\ r.port = app[a].port /\ r.block = app[a].block /\ r.st = "exited"
  BY <1>1, <1>2, Zenon DEF AppRec
<1>4. app' = [app EXCEPT ![a] = r]
  BY <1>1, <1>2, Zenon DEF Exits
<1> QED  BY <1>3, <1>4, RegistryApp, Zenon

(* Every step of an application keeps the registry right ...                *)
LEMMA RegistryGuest ==
    ASSUME IInv, Registry, NEW a \in Apps,
           RequestShm(a) \/ StartMigration(a) \/ Guest(a) \/ AppEnds(a)
    PROVE  Registry'
<1>t. /\ app[a] \in AppRec /\ app \in [Apps -> AppRec] /\ ask[a] \in AskRec /\ ask \in [Apps -> AskRec]
      /\ budget \in [migrations : Nat, deaths : Nat] /\ RequestsOK
  BY Zenon DEF IInv, TypeOK, Registry
<1>b. budget.migrations \in Nat /\ budget.migrations <= budget.migrations
  BY <1>t
<1>1. CASE RequestShm(a)
  <2>1. PICK r : r = [app[a] EXCEPT !.st = "mapped", !.block = NextBlock(handed[app[a].vm])]
    BY Zenon
  <2>2. app' = [app EXCEPT ![a] = r] /\ UNCHANGED <<ask, mgr, info, budget>> /\ app[a].st = "new"
    BY <1>1, <1>t, <2>1, Zenon DEF RequestShm
  <2>3. app'[a] \in AppRec
    BY <1>1, GuestStep, Zenon DEF IInv, TypeOK
  <2>4. r \in AppRec
    BY <1>t, <2>2, <2>3, Zenon
  <2>5. r.port = app[a].port /\ r.st = "mapped"
    BY <1>t, <2>1, Zenon DEF AppRec
  <2> QED  BY <1>t, <1>b, <2>2, <2>4, <2>5, RegistryApp, Zenon
<1>2. CASE SendInit(a)
  <2>1. PICK r : r = [app[a] EXCEPT !.st = "running", !.init = TRUE]
    BY Zenon
  <2>2. app' = [app EXCEPT ![a] = r] /\ UNCHANGED <<ask, mgr, info, budget>> /\ app[a].st = "connected"
    BY <1>2, <1>t, <2>1, Zenon DEF SendInit
  <2>3. /\ r \in AppRec /\ r.port = app[a].port /\ r.block = app[a].block /\ r.st = "running"
        /\ app[a].port # 0
    BY <1>t, <2>1, <2>2, Zenon DEF AppRec, RequestsOK
  <2> QED  BY <1>t, <1>b, <2>2, <2>3, RegistryApp, Zenon
<1>3. CASE Connect(a)
  <2>1. /\ app[a].st = "connecting" /\ UNCHANGED <<ask, mgr, info, budget>> /\ app[a].port # 0
    BY <1>3, <1>t, Zenon DEF Connect, PortToDial, RequestsOK
  <2>2. PICK r : /\ app' = [app EXCEPT ![a] = r] /\ r.port = app[a].port
                 /\ r.block = app[a].block /\ r.st # "new"
    <3>1. CASE Accepting(worker[app[a].port])
      <4>1. PICK r : r = [app[a] EXCEPT !.st = "connected", !.tries = 0]
        BY Zenon
      <4>2. app' = [app EXCEPT ![a] = r]
        BY <1>3, <1>t, <3>1, <4>1, Zenon DEF Connect, PortToDial
      <4>3. r.port = app[a].port /\ r.block = app[a].block /\ r.st # "new"
        BY <1>t, <4>1, Zenon DEF AppRec
      <4> QED  BY <4>2, <4>3, Zenon
    <3>2. CASE ~Accepting(worker[app[a].port])
      <4>1. PICK s : s = IF Tried(app[a].tries) < MaxTries THEN "connecting" ELSE "exited"
        BY Zenon
      <4>2. PICK r : r = [app[a] EXCEPT !.tries = Tried(@), !.st = s]
        BY Zenon
      <4>3. app' = [app EXCEPT ![a] = r]
        BY <1>3, <1>t, <2>1, <3>2, <4>1, <4>2, ZenonT(60) DEF Connect, PortToDial
      <4>4. r.port = app[a].port /\ r.block = app[a].block /\ r.st = s
        BY <1>t, <4>2, Zenon DEF AppRec
      <4>5. s # "new"
        BY <4>1, Zenon
      <4> QED  BY <4>3, <4>4, <4>5, Zenon
    <3> QED  BY <3>1, <3>2, Zenon
  <2>3. app'[a] \in AppRec
    BY <1>3, GuestStep, Zenon DEF Guest, IInv, TypeOK
  <2>4. r \in AppRec
    BY <1>t, <2>2, <2>3, Zenon
  <2> QED  BY <1>t, <1>b, <2>1, <2>2, <2>4, RegistryApp, Zenon
<1>4. CASE ManagerLost(a) \/ WorkerLost(a)
  BY <1>4, <1>t, <1>b, RegistryExit, Zenon DEF ManagerLost, WorkerLost
<1>5. CASE AppEnds(a)
  <2>1. budget' \in [migrations : Nat, deaths : Nat] /\ budget'.migrations = budget.migrations
    BY <1>5, <1>t DEF AppEnds
  <2> QED  BY <1>5, <1>b, <2>1, RegistryExit, Zenon DEF AppEnds
<1>6. ASSUME NEW kind \in {"new", "migrate"}, Dial(a, kind), UNCHANGED <<mgr, info>>,
             kind = "new" => app[a].st = "mapped" /\ budget' = budget,
             kind = "migrate" => /\ app[a].st = "running" /\ budget.migrations > 0
                                 /\ budget' = [budget EXCEPT !.migrations = @ - 1]
      PROVE  Registry'
  <2>1. /\ budget' \in [migrations : Nat, deaths : Nat] /\ budget'.migrations <= budget.migrations
        /\ kind = "migrate" => budget'.migrations + 1 <= budget.migrations
    BY <1>6, <1>t, SMTT(60)
  <2>2. CASE ~Listening
    BY <1>6, <2>1, <2>2, RegistryExit, Zenon DEF Dial
  <2>3. CASE Listening
    <3>1. PICK r \in AskRec : r = [st |-> "dialed", kind |-> kind, port |-> 0]
      BY Zenon DEF AskRec
    <3>2. ask' = [ask EXCEPT ![a] = r] /\ app' = app /\ ask[a].st = "none"
      BY <1>6, <2>3, <3>1, Zenon DEF Dial
    <3>3. ~Answered(a) /\ r.st # "answered" /\ r.kind = kind
      BY <3>1, <3>2, Zenon DEF Answered
    <3>4. /\ kind = "new" => app[a].port = 0 /\ app[a].st # "new"
          /\ kind = "migrate" => app[a].port # 0
      BY <1>6, <1>t, Zenon DEF IInv, AppsOK, RequestsOK
    <3>5. kind = "new" => a \in Outstanding
      BY <3>3, <3>4, Zenon DEF Outstanding
    <3>6. a \in Outstanding \/ budget'.migrations + 1 <= budget.migrations
      BY <2>1, <3>5, Zenon
    <3> QED  BY <1>6, <2>1, <3>2, <3>3, <3>4, <3>6, RegistryAsk, Zenon
  <2> QED  BY <2>2, <2>3, Zenon
<1>7. CASE NewApplication(a) \/ StartMigration(a)
  BY <1>6, <1>7, Zenon DEF NewApplication, StartMigration
<1>8. CASE SendRequest(a)
  <2>1. PICK r : r = [ask[a] EXCEPT !.st = "sent"]
    BY Zenon
  <2>2. ask' = [ask EXCEPT ![a] = r] /\ UNCHANGED <<app, mgr, info, budget>> /\ ask[a].st = "dialed"
    BY <1>8, <1>t, <2>1, Zenon DEF SendRequest
  <2>3. r \in AskRec /\ r.st = "sent" /\ r.kind = ask[a].kind
    BY <1>t, <2>1, Zenon DEF AskRec
  <2>4. /\ r.kind = "new" => app[a].port = 0 /\ app[a].st # "new"
        /\ r.kind = "migrate" => app[a].port # 0
    BY <1>t, <2>2, <2>3, Zenon DEF IInv, AppsOK, RequestsOK
  <2>5. ~Answered(a) /\ a \in Outstanding
    BY <1>t, <2>2, <2>3, <2>4, Zenon DEF Answered, Outstanding, AskRec
  <2> QED  BY <1>t, <1>b, <2>2, <2>3, <2>4, <2>5, RegistryAsk, ZenonT(60)
<1>9. CASE TakeAnswer(a)
  BY <1>9, RegistryTake, Zenon
<1> QED  BY <1>1, <1>2, <1>3, <1>4, <1>5, <1>7, <1>8, <1>9, ZenonT(60) DEF Guest

(* ... and so does every other one.                                         *)
LEMMA RegistryStep ==
    ASSUME IInv, Registry, [Next]_vars
    PROVE  Registry'
<1>t. /\ budget \in [migrations : Nat, deaths : Nat] /\ RequestsOK /\ mgr \in MgrRec
      /\ mgr.id \in Nat /\ Given \in Int
  BY Counts, Zenon DEF IInv, TypeOK, Registry
<1>k. ASSUME UNCHANGED <<app, ask, info>>, budget' \in [migrations : Nat, deaths : Nat],
             budget'.migrations = budget.migrations,
             \/ mgr' = mgr
             \/ Given' = Given /\ mgr'.st \notin {"received", "faulted"}
             \/ Given' <= Given /\ Given' \in Int /\ mgr'.st = "gone"
      PROVE  Registry'
  <2>1. \A b \in Apps : app[b].st \in {"connecting", "connected", "running"} => app[b].port # 0
    BY <1>t, Zenon DEF RequestsOK
  <2>2. budget'.migrations <= budget.migrations /\ Given <= Given
    BY <1>t, <1>k, SMTT(60)
  <2> QED  BY <1>k, <1>t, <2>1, <2>2, RegistryKeeps, Zenon
<1>f. ASSUME NEW p, Forked(p)
      PROVE  budget' \in [migrations : Nat, deaths : Nat] /\ budget'.migrations = budget.migrations
  BY <1>t, <1>f, SMTT(60) DEF Forked
<1>1. CASE SpawnPool
  <2>1. UNCHANGED <<app, ask, info>> /\ mgr.st = "pool"
    BY <1>1, Zenon DEF SpawnPool
  <2>2. mgr'.id = mgr.id /\ mgr'.st \in {"pool", "idle"}
    BY <1>1, <1>t, Zenon DEF SpawnPool, MgrRec
  <2>3. Given' = Given
    BY <2>1, <2>2, Zenon DEF Given
  <2>4. budget' \in [migrations : Nat, deaths : Nat] /\ budget'.migrations = budget.migrations
    BY <1>1, <1>t, <1>f, Zenon DEF SpawnPool
  <2> QED  BY <1>k, <2>1, <2>2, <2>3, <2>4, Zenon
<1>2. CASE Accept
  <2>1. UNCHANGED <<app, ask, info, budget>> /\ mgr.st = "idle"
    BY <1>2, Zenon DEF Accept
  <2>2. mgr'.id = mgr.id /\ mgr'.st = "accepted"
    BY <1>2, <1>t, Zenon DEF Accept, MgrRec
  <2>3. Given' = Given
    BY <2>1, <2>2, Zenon DEF Given
  <2> QED  BY <1>k, <1>t, <2>1, <2>2, <2>3, Zenon
<1>3. CASE Fork
  <2>1. UNCHANGED <<app, ask, info>> /\ mgr.st = "responded" /\ mgr' = NextId(mgr)
    BY <1>3, Zenon DEF Fork
  <2>2. mgr'.id = mgr.id + 1 /\ mgr'.st = "idle"
    BY <2>1, <1>t, Zenon DEF NextId, MgrRec
  <2>3. Given' = Given
    BY <1>t, <2>1, <2>2, SMTT(60) DEF Given
  <2>4. budget' \in [migrations : Nat, deaths : Nat] /\ budget'.migrations = budget.migrations
    BY <1>3, <1>f, Zenon DEF Fork
  <2> QED  BY <1>k, <2>1, <2>2, <2>3, <2>4, Zenon
<1>4. CASE Manager
  BY <1>1, <1>2, <1>3, <1>4, RegistryReceive, RegistryRespond, Zenon DEF Manager
<1>5. ASSUME NEW p \in Ports, Worker(p)
      PROVE  Registry'
  BY <1>5, <1>k, <1>t, Zenon DEF Worker, Listen, AcceptGuest, HandleInit, HangUp
<1>6. ASSUME NEW p \in Ports, WorkerDies(p)
      PROVE  Registry'
  <2>1. budget' \in [migrations : Nat, deaths : Nat] /\ budget'.migrations = budget.migrations
    BY <1>6, <1>t DEF WorkerDies
  <2> QED  BY <1>6, <1>k, <2>1, Zenon DEF WorkerDies
<1>7. CASE ManagerDies
  <2>1. budget' \in [migrations : Nat, deaths : Nat] /\ budget'.migrations = budget.migrations
    BY <1>7, <1>t DEF ManagerDies
  <2>2. mgr'.st = "gone" /\ mgr'.id = mgr.id
    BY <1>7, <1>t, Zenon DEF ManagerDies, MgrRec
  <2>3. Given' <= Given /\ Given' \in Int
    BY <1>t, <2>2, SMTT(60) DEF Given
  <2> QED  BY <1>7, <1>k, <2>1, <2>2, <2>3, Zenon DEF ManagerDies
<1>8. CASE UNCHANGED vars
  BY <1>8, <1>k, <1>t, Zenon DEF vars
<1> QED  BY <1>4, <1>5, <1>6, <1>7, <1>8, RegistryGuest, Zenon DEF Next

(* worker_info of the manager holds, for every port a migration request can *)
(* name, the block of the application that has the port, for any number of  *)
(* applications, migrations and deaths: the manager never stops on an       *)
(* unknown port.  It says nothing of the worker the migration forks, to     *)
(* which nothing connects.                                                  *)
THEOREM MigrationFindsItsBlock == Spec => []MigrationFindsBlock
<1>1. Init => IInv /\ Registry
  BY InvInit, RegistryInit, Zenon
<1>2. IInv /\ Registry /\ [Next]_vars => IInv' /\ Registry'
  BY InvStep, RegistryStep, Zenon
<1>3. IInv /\ Registry => MigrationFindsBlock
  <2> SUFFICES ASSUME IInv, Registry, NEW a \in Apps, app[a].port # 0
               PROVE  info[app[a].port] = app[a].block
    BY Zenon DEF Registry, MigrationFindsBlock
  <2>1. app[a].port \in Nat
    BY Zenon DEF IInv, TypeOK, AppRec
  <2> QED  BY <2>1, Zenon DEF Registry, Owns
<1> QED  BY <1>1, <1>2, <1>3, PTL DEF Spec
=============================================================================
