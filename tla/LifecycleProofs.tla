-------------------------- MODULE LifecycleProofs --------------------------
(* Descriptors and device info of one runtime: proofs about Lifecycle, for *)
(* any number of descriptors.                                              *)
EXTENDS Lifecycle, WellFoundedInduction, TLAPS

\* A program without bad habits; without this OwnDescriptors fails (see
\* Lifecycle_faults).
Careful == Habits = {}

Commands == {"request", "length", "rest"}
Events == {"evsend", "evread"}

\* Who has a number has what it refers to.
Ours ==
  /\ \A n \in theirs : table[n] = "file"
  /\ \A end \in Ends : backend[end] > 0 /\ ~closed => table[backend[end]] = KindOf(end)

\* A connection attempt is the first for its socket, and the new socket is its
\* own until it is stored or closed.
Attempt ==
  /\ pc # "reclose"
  /\ InConnect => backend[which] <= 0 /\ ~closed
  /\ pc \in {"setup", "select"} => sock # -1
  /\ pc \in {"setup", "select", "connected"} => sock = -1 \/ table[sock] = KindOf(which)

\* A handshake goes on over a connection only.
Connection ==
  /\ pc \in Commands => backend["fd"] > 0 /\ ~closed
  /\ pc \in Events => backend["evfd"] > 0 /\ ~closed

LInv == TypeOK /\ Ours /\ Attempt /\ Connection

USE DEF Numbers, Ends, KindOf

LEMMA LowestIsFree == Free # {} => Lowest \in Free
<1> SUFFICES ASSUME Free # {} PROVE \E n \in Free : \A m \in Free : n <= m
  BY DEF Lowest
<1>1. Free \subseteq Nat
  BY NumberAssumption DEF Free
<1>2. \E n \in Free : \A m \in Free : ~(<<m, n>> \in OpToRel(<, Nat))
  BY <1>1, WFMin, NatLessThanWellFounded
<1>3. ASSUME NEW n \in Free, NEW m \in Free, ~(<<m, n>> \in OpToRel(<, Nat))
      PROVE  n <= m
  <2>1. ~(m < n)
    BY <1>1, <1>3 DEF OpToRel
  <2> QED
    BY <1>1, <2>1
<1> QED
  BY <1>2, <1>3

LEMMA InitLInv == Init => LInv
<1> SUFFICES ASSUME Init PROVE LInv
  OBVIOUS
<1> USE NumberAssumption DEF Init
<1>1. TypeOK
  <2>1. 0 \in Numbers
    OBVIOUS
  <2>2. table \in [Numbers -> {"free", "file", "command", "event"}] /\ theirs \subseteq Numbers
    BY <2>1, Zenon
  <2>3. backend \in [Ends -> Numbers \cup {-1}]
    BY DEF NoBackend
  <2>4. closed \in BOOLEAN /\ bound \in BOOLEAN /\ frame \in BOOLEAN /\ known \in BOOLEAN
    BY Zenon
  <2> QED
    BY <2>2, <2>3, <2>4 DEF TypeOK
<1>2. Ours
  <2>1. \A n \in theirs : table[n] = "file"
    <3>1. CASE ZeroFree
      BY <3>1
    <3>2. CASE ~ZeroFree
      BY <3>2
    <3> QED
      BY <3>1, <3>2
  <2>2. \A end \in Ends : ~(backend[end] > 0)
    BY DEF NoBackend
  <2> QED
    BY <2>1, <2>2 DEF Ours
<1>3. Attempt /\ Connection
  BY DEF Attempt, Connection, InConnect, Commands, Events
<1> QED
  BY <1>1, <1>2, <1>3 DEF LInv

\* The other thread takes numbers that are free and gives back its own.
LEMMA OthersKeepLInv ==
  ASSUME LInv, OpenFile \/ CloseFile
  PROVE  LInv'
<1> USE DEF LInv
<1>1. PICK n \in Numbers, s \in {"free", "file"} :
        /\ table' = [table EXCEPT ![n] = s]
        /\ table[n] \in {"free", "file"}
        /\ theirs' = IF s = "file" THEN theirs \cup {n} ELSE theirs \ {n}
  <2>1. CASE OpenFile
    BY <2>1, LowestIsFree DEF OpenFile, Free
  <2>2. CASE CloseFile
    BY <2>2 DEF CloseFile, Closed, TypeOK, Ours
  <2> QED
    BY <2>1, <2>2
<1>2. UNCHANGED <<backend, io, closed, sock, which, type, pc, rc, memory>>
  BY DEF OpenFile, CloseFile
<1>3. TypeOK'
  BY <1>1, <1>2 DEF TypeOK, memory
<1>4. Ours'
  BY <1>1, <1>2 DEF Ours, TypeOK
<1>5. Attempt' /\ Connection'
  BY <1>1, <1>2 DEF Attempt, Connection, InConnect, TypeOK
<1> QED
  BY <1>3, <1>4, <1>5

LEMMA ConnectKeepsLInv ==
  ASSUME Careful, LInv, (\E end \in Ends : Connect(end)) \/ Connecting
  PROVE  LInv'
<1> USE DEF LInv
<1>1. CASE \E end \in Ends : Connect(end)
  BY <1>1 DEF Connect, Sound, Careful, TypeOK, Ours, Attempt, Connection, InConnect,
              Commands, Events, memory
<1>2. CASE Socket
  <2>1. /\ pc = "socket" /\ pc' \in {"setup", "connected"}
        /\ UNCHANGED <<theirs, backend, io, closed, which, type, rc, memory>>
        /\ \/ /\ Free # {} /\ sock' = Lowest
              /\ table' = [table EXCEPT ![Lowest] = KindOf(which)]
           \/ sock' = -1 /\ pc' = "connected" /\ table' = table
    BY <1>2 DEF Socket
  <2>2. Free # {} => Lowest \in Numbers /\ table[Lowest] = "free"
    BY LowestIsFree DEF Free
  <2>3. TypeOK'
    BY <2>1, <2>2 DEF TypeOK, memory
  <2>4. Ours'
    <3>1. \A n \in Numbers : table[n] # "free" => table'[n] = table[n]
      BY <2>1, <2>2 DEF TypeOK
    <3>2. \A end \in Ends : backend[end] > 0 => backend[end] \in Numbers
      BY NumberAssumption DEF TypeOK
    <3> QED
      BY <2>1, <3>1, <3>2 DEF Ours, TypeOK
  <2>5. Attempt' /\ Connection'
    BY <2>1, <2>2, NumberAssumption DEF Attempt, Connection, InConnect, TypeOK, Commands, Events
  <2> QED
    BY <2>3, <2>4, <2>5
<1>3. CASE GiveUp /\ pc \in {"setup", "select"}
           /\ UNCHANGED <<theirs, backend, io, closed, which, type, rc, memory>>
  <2>1. sock \in Numbers /\ table[sock] = KindOf(which)
    BY <1>3 DEF Attempt, TypeOK
  <2>2. table' = [table EXCEPT ![sock] = "free"] /\ sock' = -1 /\ pc' = "connected"
    BY <1>3, <2>1 DEF GiveUp, Closed
  <2>3. TypeOK'
    BY <1>3, <2>1, <2>2 DEF TypeOK, memory
  <2>4. Ours'
    BY <1>3, <2>1, <2>2 DEF Ours, TypeOK, Attempt, InConnect
  <2>5. Attempt' /\ Connection'
    BY <1>3, <2>1, <2>2 DEF Attempt, Connection, InConnect, TypeOK, Commands, Events
  <2> QED
    BY <2>3, <2>4, <2>5
<1>4. CASE pc \in {"setup", "select"} /\ pc' \in {"select", "connected"}
           /\ UNCHANGED <<link, rc, memory>>
  BY <1>4 DEF TypeOK, Ours, Attempt, Connection, InConnect, Commands, Events, link, memory
<1>5. CASE Connected
  <2>1. /\ pc = "connected" /\ pc' = "idle"
        /\ backend' = [InitComm EXCEPT ![which] = IF sock > 0 THEN sock ELSE 0]
        /\ io' \in {0, io} /\ rc' \in {"ok", "fail"}
        /\ UNCHANGED <<table, theirs, closed, sock, which, type, memory>>
    BY <1>5 DEF Connected
  <2>2. /\ InitComm \in [Ends -> Numbers \cup {-1}]
        /\ \A end \in Ends : InitComm[end] > 0 => InitComm[end] = backend[end]
    BY NumberAssumption DEF InitComm, TypeOK
  <2>3. TypeOK'
    BY <2>1, <2>2, NumberAssumption DEF TypeOK, memory
  <2>4. Ours'
    BY <2>1, <2>2, NumberAssumption DEF Ours, TypeOK, Attempt
  <2>5. Attempt' /\ Connection'
    BY <2>1 DEF Attempt, Connection, InConnect, Commands, Events
  <2> QED
    BY <2>3, <2>4, <2>5
<1> QED
  BY <1>1, <1>2, <1>3, <1>4, <1>5 DEF Connecting, Setup, SelectReady, SelectFails, link

LEMMA HandshakeKeepsLInv ==
  ASSUME Careful, LInv, Handshake
  PROVE  LInv'
<1> USE DEF LInv
<1>1. \/ /\ pc = "idle" /\ pc' = "request" /\ backend["fd"] > 0 /\ ~closed
      \/ /\ pc = "idle" /\ pc' = "evsend" /\ backend["evfd"] > 0 /\ ~closed
      \/ pc \in Commands /\ pc' \in Commands \cup {"idle"}
      \/ pc \in Events /\ pc' \in Events \cup {"idle"}
  BY DEF Careful, Handshake, InitCommandRequest, Request, ReadLength, ReadRest, InitEvents,
         EventSend, EventRead, Usable, Works, Fails, Step, Return, Commands, Events
<1>2. /\ UNCHANGED <<table, theirs, backend, io, closed, sock, which, memory>>
      /\ type' \in {"none", "request", "ack", "fail"}
      /\ rc' \in {rc, "ok", "io_err", "check_code"}
  BY DEF TypeOK, Handshake, InitCommandRequest, Request, ReadLength, ReadRest, InitEvents,
         EventSend, EventRead, Works, Fails, Return, link
<1>3. TypeOK'
  BY <1>1, <1>2 DEF TypeOK, Commands, Events, memory
<1>4. Ours'
  BY <1>2 DEF Ours
<1>5. Attempt' /\ Connection'
  BY <1>1, <1>2 DEF Attempt, Connection, InConnect, Commands, Events
<1> QED
  BY <1>3, <1>4, <1>5

LEMMA RuntimeKeepsLInv ==
  ASSUME Careful, LInv, Runtime
  PROVE  LInv'
<1> USE DEF LInv
<1>1. pc' = pc /\ UNCHANGED <<theirs, sock, which, type>>
  BY DEF Runtime, PtpipClose, BindInit, BindConnect, LongAnswer, BindGetDeviceInfo,
         DeviceType, link
<1>2. pc = "idle"
  BY DEF Runtime, PtpipClose, BindInit, BindConnect, LongAnswer, BindGetDeviceInfo,
         DeviceType, Usable
<1>3. Attempt' /\ Connection'
  BY <1>1, <1>2 DEF Attempt, Connection, InConnect, Commands, Events
<1>4. CASE PtpipClose
  <2>1. backend # NoBackend /\ ~closed
    BY <1>4 DEF PtpipClose, Careful
  <2>2. PICK n \in [Ends -> Numbers \cup {-1}] :
          /\ \A end \in Ends : n[end] # -1 => n[end] = backend[end] /\ backend[end] # 0
          /\ table' = Closed(Closed(table, n["fd"]), n["evfd"])
    <3>1. InitComm = backend
      BY <2>1 DEF InitComm
    <3> DEFINE n == [end \in Ends |-> IF InitComm[end] = 0 THEN -1 ELSE InitComm[end]]
    <3>2. n \in [Ends -> Numbers \cup {-1}]
      BY <3>1 DEF TypeOK
    <3>3. \A end \in Ends : n[end] # -1 => n[end] = backend[end] /\ backend[end] # 0
      BY <3>1
    <3>4. table' = Closed(Closed(table, n["fd"]), n["evfd"])
      BY <1>4 DEF PtpipClose
    <3> QED
      BY <3>2, <3>3, <3>4
  <2>3. /\ table' \in [Numbers -> {"free", "file", "command", "event"}]
        /\ \A m \in Numbers : m \notin {n["fd"], n["evfd"]} => table'[m] = table[m]
    BY <2>2 DEF Closed, TypeOK
  <2>4. backend' = backend /\ closed' = TRUE /\ rc' = "ok" /\ UNCHANGED <<io, memory>>
    BY <1>4, <2>1 DEF PtpipClose, InitComm
  <2>5. TypeOK'
    BY <1>1, <2>3, <2>4 DEF TypeOK, memory
  <2>6. Ours'
    <3>1. ASSUME NEW m \in theirs PROVE m \notin {n["fd"], n["evfd"]}
      BY <2>1, <2>2, <3>1, NumberAssumption DEF Ours, TypeOK
    <3> QED
      BY <1>1, <2>3, <2>4, <3>1 DEF Ours, TypeOK
  <2> QED
    BY <1>3, <2>5, <2>6
<1>5. CASE BindInit
  <2>1. /\ backend' = NoBackend /\ io' = 1 /\ di' = "null" /\ size' = "default"
        /\ closed' = FALSE /\ heap' \in {heap, "freed"} /\ bound' = TRUE /\ rc' = "ok"
        /\ UNCHANGED <<table, frame, known>>
    BY <1>5 DEF BindInit, PtpInit
  <2>2. TypeOK'
    <3>1. /\ closed' \in BOOLEAN /\ bound' \in BOOLEAN
          /\ frame' \in BOOLEAN /\ known' \in BOOLEAN
      BY <2>1, Zenon DEF TypeOK
    <3>2. backend' \in [Ends -> Numbers \cup {-1}]
      BY <2>1 DEF NoBackend
    <3> QED
      BY <1>1, <2>1, <3>1, <3>2 DEF TypeOK
  <2>3. Ours'
    BY <1>1, <2>1 DEF Ours, NoBackend
  <2> QED
    BY <1>3, <2>2, <2>3
<1>6. CASE BindConnect \/ LongAnswer \/ BindGetDeviceInfo \/ DeviceType
  <2>1. UNCHANGED link
    BY <1>6 DEF BindConnect, LongAnswer, BindGetDeviceInfo, DeviceType
  <2>2. /\ rc' \in {rc, "out_of_mem", "ok", "fail", "io_err", "empty", "type"}
        /\ size' \in {size, "grown"} /\ di' \in {di, "heap"} /\ heap' \in {heap, "live"}
        /\ UNCHANGED <<bound, frame>>
    BY <1>6 DEF BindConnect, LongAnswer, BindGetDeviceInfo, DeviceType, memory
  <2>3. known' \in BOOLEAN
    BY <1>6, Zenon DEF TypeOK, BindConnect, LongAnswer, BindGetDeviceInfo, DeviceType, memory
  <2>4. TypeOK'
    BY <1>1, <2>1, <2>2, <2>3 DEF TypeOK, link
  <2>5. Ours'
    BY <2>1 DEF Ours, link
  <2> QED
    BY <1>3, <2>4, <2>5
<1> QED
  BY <1>4, <1>5, <1>6 DEF Runtime

LEMMA LInvAlways == ASSUME Careful PROVE Spec => []LInv
<1>1. LInv /\ UNCHANGED vars => LInv'
  BY DEF vars, link, memory, LInv, TypeOK, Ours, Attempt, Connection, InConnect
<1>2. LInv /\ [Next]_vars => LInv'
  BY <1>1, Careful, OthersKeepLInv, ConnectKeepsLInv, HandshakeKeepsLInv, RuntimeKeepsLInv
     DEF Next
<1> QED
  BY <1>2, InitLInv, PTL DEF Spec

\* However the other thread's files take the numbers that become free, the
\* runtime closes none of them, and its reads and writes go to its own
\* sockets (ip.c:86-252), for a program without bad habits.
THEOREM DescriptorsAreOwn == ASSUME Careful PROVE Spec => []OwnDescriptors
<1>1. LInv => OwnDescriptors
  BY DEF LInv, Ours, Connection, Commands, Events, OwnDescriptors
<1> QED
  BY <1>1, LInvAlways, PTL

-----------------------------------------------------------------------------
(* Device info, whatever the program's habits are.                         *)
DInv == di \in {"null", "heap"} /\ (di = "heap" => heap = "live")

\* The structure behind r->di is there: bind_init frees it and forgets it in
\* one, and only bind_get_device_info sets it (bind.c:21-31, 61-76).
THEOREM DeviceInfoLives == Spec => []DiAlive
<1>1. Init => DInv
  BY DEF Init, DInv
<1>2. ASSUME DInv, [Next]_vars PROVE DInv'
  <2> USE <1>2 DEF DInv
  <2>1. CASE OpenFile \/ CloseFile \/ (\E end \in Ends : Connect(end)) \/ Connecting
    BY <2>1 DEF OpenFile, CloseFile, Connect, Connecting, Socket, Setup, SelectReady,
                SelectFails, Connected, memory
  <2>2. CASE Handshake
    BY <2>2 DEF Handshake, InitCommandRequest, Request, ReadLength, ReadRest, InitEvents,
                EventSend, EventRead, Works, Fails, memory
  <2>3. CASE PtpipClose \/ BindConnect \/ LongAnswer \/ DeviceType
    BY <2>3 DEF PtpipClose, BindConnect, LongAnswer, DeviceType, memory
  <2>4. CASE BindInit \/ BindGetDeviceInfo
    BY <2>4 DEF BindInit, PtpInit, BindGetDeviceInfo
  <2>5. CASE UNCHANGED vars
    BY <2>5 DEF vars, memory
  <2> QED
    BY <2>1, <2>2, <2>3, <2>4, <2>5 DEF Next, Runtime
<1>3. DInv => DiAlive
  BY DEF DInv, DiAlive
<1> QED
  BY <1>1, <1>2, <1>3, PTL DEF Spec
=============================================================================
