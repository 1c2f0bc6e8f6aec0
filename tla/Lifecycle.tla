----------------------------- MODULE Lifecycle -----------------------------
(***************************************************************************)
(* What one runtime holds of its process: the two sockets of PTP/IP        *)
(* (ip.c, and the handshakes of operations.c), the buffer, and the device  *)
(* info behind r->di (lib.c, bind.c).  Another thread of the process opens *)
(* and closes files, which take the numbers that are free.                 *)
(*                                                                         *)
(* "io" stands for both kill switches: the code here sets them together.   *)
(***************************************************************************)
EXTENDS Integers

CONSTANTS MaxNumber,       \* bound: the highest descriptor
          ZeroFree,        \* BOOLEAN: the process runs without stdin
          HangsUp,         \* BOOLEAN: the camera may close in the handshake
          Habits           \* what the program does: see Sound

AllHabits == {"reconnects", "goesOn", "drops"}
ASSUME NumberAssumption == MaxNumber \in Nat \ {0}
ASSUME ChoiceAssumption == {ZeroFree, HangsUp} \subseteq BOOLEAN
ASSUME HabitsAssumption == Habits \subseteq AllHabits

VARIABLES
  table,     \* what each descriptor refers to
  theirs,    \* the numbers the other thread has open
  backend,   \* r->comm_backend: the numbers fd and evfd, or NoBackend
  io,        \* r->io_kill_switch
  closed,    \* the program has called ptpip_close since the last ptp_init
  pc, which, \* the call that is under way, and the socket it is for
  sock,      \* sockfd of ptpip_new_timeout_socket
  type,      \* of the packet at r->data in the handshake
  rc,        \* what the last call returned
  bound,     \* bind_initialized
  size,      \* r->data_length: "default" or "grown"
  di,        \* r->di: "null", "heap" or "stack"
  heap,      \* the structure bind.c allocates: "none", "live" or "freed"
  frame,     \* the function whose local structure r->di is runs
  known      \* what r->di points to has been parsed

link == <<table, theirs, backend, io, closed, sock, which, type>>
memory == <<bound, size, di, heap, frame, known>>
vars == <<link, pc, rc, memory>>

Numbers == 0..MaxNumber
Ends == {"fd", "evfd"}
KindOf(end) == IF end = "fd" THEN "command" ELSE "event"
NoBackend == [end \in Ends |-> -1]
\* calloc: both numbers are 0.
InitComm == IF backend = NoBackend THEN [end \in Ends |-> 0] ELSE backend

TypeOK ==
  /\ table \in [Numbers -> {"free", "file", "command", "event"}]
  /\ theirs \subseteq Numbers
  /\ backend \in [Ends -> Numbers \cup {-1}] /\ io \in {0, 1} /\ closed \in BOOLEAN
  /\ pc \in {"idle", "socket", "setup", "select", "reclose", "connected",
             "request", "length", "rest", "evsend", "evread"}
  /\ which \in Ends /\ sock \in Numbers \cup {-1}
  /\ type \in {"none", "request", "ack", "fail"}
  /\ rc \in {"ok", "fail", "io_err", "check_code", "out_of_mem", "empty", "type"}
  /\ bound \in BOOLEAN /\ size \in {"default", "grown"}
  /\ di \in {"null", "heap", "stack"} /\ heap \in {"none", "live", "freed"}
  /\ frame \in BOOLEAN /\ known \in BOOLEAN

\* After ptp_new, in a process that has stdin open.
Init ==
  /\ table = [n \in Numbers |-> IF n = 0 /\ ~ZeroFree THEN "file" ELSE "free"]
  /\ theirs = IF ZeroFree THEN {} ELSE {0}
  /\ backend = NoBackend /\ io = 1 /\ closed = FALSE
  /\ pc = "idle" /\ which = "fd" /\ sock = -1 /\ type = "none" /\ rc = "ok"
  /\ bound = FALSE /\ size = "default"
  /\ di = "null" /\ heap = "none" /\ frame = FALSE /\ known = FALSE

Free == {n \in Numbers : table[n] = "free"}
Lowest == CHOOSE n \in Free : \A m \in Free : n <= m
Closed(t, n) == IF n \in Numbers THEN [t EXCEPT ![n] = "free"] ELSE t

-----------------------------------------------------------------------------
(* The other thread.                                                       *)
OpenFile ==
  /\ Free # {}
  /\ table' = [table EXCEPT ![Lowest] = "file"] /\ theirs' = theirs \cup {Lowest}
  /\ UNCHANGED <<backend, io, closed, sock, which, type, pc, rc, memory>>

CloseFile ==
  /\ \E n \in theirs \ {0} : table' = Closed(table, n) /\ theirs' = theirs \ {n}
  /\ UNCHANGED <<backend, io, closed, sock, which, type, pc, rc, memory>>

-----------------------------------------------------------------------------
(* Connecting: ptpip_new_timeout_socket, step by step.                     *)

\* A sound program connects each socket once between two ptp_init.
Sound(end) == "reconnects" \in Habits \/ (backend[end] <= 0 /\ ~closed)

Connect(end) ==
  /\ pc = "idle" /\ Sound(end)
  /\ pc' = "socket" /\ which' = end
  /\ UNCHANGED <<table, theirs, backend, io, closed, sock, type, rc, memory>>

GiveUp == sock' = -1 /\ pc' = "connected" /\ table' = Closed(table, sock)

\* socket() takes the lowest free number, or fails.
Socket ==
  /\ pc = "socket"
  /\ \/ /\ Free # {}
        /\ sock' = Lowest /\ table' = [table EXCEPT ![Lowest] = KindOf(which)]
        /\ pc' = "setup"
     \/ sock' = -1 /\ pc' = "connected" /\ UNCHANGED table
  /\ UNCHANGED <<theirs, backend, io, closed, which, type, rc, memory>>

\* fcntl, inet_pton and connect; each of them may fail.
Setup ==
  /\ pc = "setup"
  /\ \/ pc' = "select" /\ UNCHANGED <<table, sock>>
     \/ GiveUp
  /\ UNCHANGED <<theirs, backend, io, closed, which, type, rc, memory>>

SelectReady ==
  /\ pc = "select" /\ pc' = "connected"
  /\ UNCHANGED <<link, rc, memory>>

\* Mutant: select waits until the camera answers.
SelectWaits ==
  /\ pc = "select" /\ io = 2 /\ GiveUp
  /\ UNCHANGED <<theirs, backend, io, closed, which, type, rc, memory>>

\* The connection is refused, or nothing comes for a second.
SelectFails ==
  /\ pc = "select" /\ GiveUp
  /\ UNCHANGED <<theirs, backend, io, closed, which, type, rc, memory>>

\* get_sock_error closes the socket; its caller does so again.
GetSockErrorFails ==
  /\ pc = "select"
  /\ table' = Closed(table, sock) /\ pc' = "reclose"
  /\ UNCHANGED <<theirs, backend, io, closed, sock, which, type, rc, memory>>

Reclose ==
  /\ pc = "reclose" /\ GiveUp
  /\ UNCHANGED <<theirs, backend, io, closed, which, type, rc, memory>>

\* Mutant: the events' socket is stored as the command socket.
ConnectedMixed ==
  /\ pc = "connected" /\ pc' = "idle"
  /\ backend' = [InitComm EXCEPT !["fd"] = IF sock > 0 THEN sock ELSE 0]
  /\ io' = IF sock > 0 /\ which = "fd" THEN 0 ELSE io
  /\ rc' = IF sock >= 0 THEN "ok" ELSE "fail"
  /\ UNCHANGED <<table, theirs, closed, sock, which, type, memory>>

\* ptpip_connect and ptpip_connect_events behind it: the number 0 is no
\* socket to them, and no error either.
Connected ==
  /\ pc = "connected" /\ pc' = "idle"
  /\ backend' = [InitComm EXCEPT ![which] = IF sock > 0 THEN sock ELSE 0]
  /\ io' = IF sock > 0 /\ which = "fd" THEN 0 ELSE io
  /\ rc' = IF sock >= 0 THEN "ok" ELSE "fail"
  /\ UNCHANGED <<table, theirs, closed, sock, which, type, memory>>

-----------------------------------------------------------------------------
(* The handshakes.  A sound program goes on after a connection only.       *)
Usable(end) == pc = "idle" /\ ("goesOn" \in Habits \/ (backend[end] > 0 /\ ~closed))

Step(from, to) == pc = from /\ pc' = to
Return(code) == pc' = "idle" /\ rc' = code

\* ptpip_cmd_write and ptpip_cmd_read, ptpip_event_send and ptpip_event_read:
\* nothing is done with the switch on, and any other call may fail too.
Works(from, to) == Step(from, to) /\ io = 0 /\ UNCHANGED <<link, rc, memory>>
Fails(from) == pc = from /\ Return("io_err") /\ UNCHANGED <<link, memory>>

InitCommandRequest ==
  /\ Usable("fd") /\ pc' = "request" /\ type' = "request"
  /\ UNCHANGED <<table, theirs, backend, io, closed, sock, which, rc, memory>>
Request == Works("request", "length") \/ Fails("request")
\* A read of nothing is as good as one of four bytes.
ReadLength == Works("length", "rest") \/ Fails("length")
\* When nothing is read, the packet at r->data is still the request.
ReadRest ==
  \/ /\ pc = "rest" /\ io = 0
     /\ \E t \in {"ack", "fail"} \cup (IF HangsUp THEN {type} ELSE {}) :
          type' = t /\ Return(IF t = "fail" THEN "check_code" ELSE "ok")
     /\ UNCHANGED <<table, theirs, backend, io, closed, sock, which, memory>>
  \/ Fails("rest")

InitEvents ==
  /\ Usable("evfd") /\ pc' = "evsend"
  /\ UNCHANGED <<link, rc, memory>>
EventSend == Works("evsend", "evread") \/ Fails("evsend")
\* Eight bytes of whatever packet.
EventRead ==
  \/ pc = "evread" /\ io = 0 /\ Return("ok") /\ UNCHANGED <<link, memory>>
  \/ Fails("evread")

\* ptpip_close leaves the numbers and the switches as they are.
PtpipClose ==
  /\ pc = "idle" /\ (Habits # {} \/ (backend # NoBackend /\ ~closed))
  /\ LET n(end) == IF InitComm[end] = 0 THEN -1 ELSE InitComm[end]
     IN  table' = Closed(Closed(table, n("fd")), n("evfd"))
  /\ backend' = InitComm /\ closed' = TRUE /\ rc' = "ok"
  /\ UNCHANGED <<theirs, io, sock, which, type, pc, memory>>

-----------------------------------------------------------------------------
(* The runtime.  ptp_init clears it and forgets the backend.               *)
PtpInit ==
  /\ backend' = NoBackend /\ io' = 1 /\ di' = "null" /\ size' = "default"
  /\ closed' = FALSE

\* Mutant: the structure is not cleared, as by ptp_reset alone.
BindInitResets ==
  /\ pc = "idle" /\ ("drops" \in Habits \/ closed \/ backend = NoBackend)
  /\ heap' = IF bound /\ di = "heap" THEN "freed" ELSE heap
  /\ backend' = NoBackend /\ io' = 1 /\ size' = "default" /\ closed' = FALSE
  /\ bound' = TRUE /\ rc' = "ok"
  /\ UNCHANGED <<table, theirs, sock, which, type, pc, frame, known, di>>

\* bind_init frees what an earlier one allocated.  A sound program has closed
\* its connection.
BindInit ==
  /\ pc = "idle" /\ ("drops" \in Habits \/ closed \/ backend = NoBackend)
  /\ heap' = IF bound /\ di = "heap" THEN "freed" ELSE heap
  /\ PtpInit
  /\ bound' = TRUE /\ rc' = "ok"
  /\ UNCHANGED <<table, theirs, sock, which, type, pc, frame, known>>

\* bind_connect refuses once the buffer has grown.
BindConnect ==
  /\ pc = "idle"
  /\ rc' \in (IF size # "default" THEN {"out_of_mem"} ELSE {"ok", "fail"})
  /\ UNCHANGED <<link, pc, memory>>

\* An answer that was longer than the buffer.
LongAnswer ==
  /\ Usable("fd") /\ io = 0 /\ size = "default" /\ size' = "grown"
  /\ UNCHANGED <<link, pc, rc, bound, di, heap, frame, known>>

\* bind_get_device_info allocates the structure first; the command may fail.
BindGetDeviceInfo ==
  /\ Usable("fd")
  /\ IF di = "null" THEN di' = "heap" /\ heap' = "live" ELSE UNCHANGED <<di, heap>>
  /\ \/ io = 0 /\ known' = TRUE /\ rc' = "ok"
     \/ known' = (di # "null" /\ known) /\ rc' = "io_err"
  /\ UNCHANGED <<link, pc, bound, size, frame>>

\* ptp_get_device_info into a local variable, and the end of its function.
GetDeviceInfo ==
  /\ Usable("fd") /\ io = 0
  /\ di' = "stack" /\ frame' = TRUE /\ known' = TRUE /\ rc' = "ok"
  /\ UNCHANGED <<link, pc, bound, size, heap>>
FunctionReturns ==
  /\ frame /\ frame' = FALSE
  /\ UNCHANGED <<link, pc, rc, bound, size, di, heap, known>>

\* ptp_device_type, ptp_check_opcode and ptp_check_prop.
DeviceType ==
  /\ pc = "idle"
  /\ rc' \in (IF di = "null" THEN {"empty"} ELSE IF known THEN {"type"} ELSE {"empty", "type"})
  /\ UNCHANGED <<link, pc, memory>>

-----------------------------------------------------------------------------
Connecting == Socket \/ Setup \/ SelectReady \/ SelectFails \/ Connected
Handshake ==
  \/ InitCommandRequest \/ Request \/ ReadLength \/ ReadRest
  \/ InitEvents \/ EventSend \/ EventRead
Runtime ==
  \/ PtpipClose \/ BindInit \/ BindConnect \/ LongAnswer \/ BindGetDeviceInfo \/ DeviceType

Next ==
  \/ OpenFile \/ CloseFile
  \/ \E end \in Ends : Connect(end)
  \/ Connecting \/ Handshake \/ Runtime

\* A connection attempt goes on: no step of it waits for the camera for
\* longer than the second of select.
Fairness ==
  WF_vars(Socket) /\ WF_vars(Setup) /\ WF_vars(SelectFails) /\ WF_vars(Connected)

Spec == Init /\ [][Next]_vars /\ Fairness

\* With what breaks OwnDescriptors and DiAlive: getsockopt fails, or r->di is
\* given a structure that does not last.
NextFaults == Next \/ GetSockErrorFails \/ Reclose \/ GetDeviceInfo \/ FunctionReturns
FaultSpec == Init /\ [][NextFaults]_vars

-----------------------------------------------------------------------------
(* Properties.                                                             *)

\* Descriptors: however the other thread's files take the numbers that become
\* free, the runtime closes none of them, and its reads and writes go to its
\* own sockets (ip.c:140-252).
OwnDescriptors ==
  /\ \A n \in theirs : table[n] = "file"
  /\ pc \in {"request", "length", "rest"} /\ io = 0 => table[backend["fd"]] = "command"
  /\ pc \in {"evsend", "evread"} /\ io = 0 => table[backend["evfd"]] = "event"

\* Device info: the structure that ptp_device_type would read is there
\* (bind.c:21-31 and 61-76, data.c:520, lib.c:298-361).
DiAlive == /\ di = "heap" => heap = "live"
           /\ di = "stack" => frame

\* Connecting: ptpip_connect and ptpip_connect_events return, whether the
\* camera answers or not (ip.c:86-158).
InConnect == pc \in {"socket", "setup", "select", "reclose", "connected"}
ConnectReturns == InConnect ~> ~InConnect

-----------------------------------------------------------------------------
(* What a reader of the code would expect and TLC refutes; see the README. *)

\* Every open socket of the runtime is one that ptpip_close will close.
NothingLost ==
  pc = "idle" => \A n \in Numbers : table[n] \in {"command", "event"} =>
                   \E end \in Ends : backend[end] = n

\* A handshake is told to have worked only when the camera accepted it.
AcceptedWhenTold == [][ReadRest /\ rc' = "ok" => type' = "ack"]_vars

\* The type of a device is told from device info that was received.
TypeKnown == [][DeviceType /\ rc' = "type" => known]_vars

\* ptp_connect can be asked for again and again.
BindConnects == rc # "out_of_mem"
=============================================================================
