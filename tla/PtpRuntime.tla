----------------------------- MODULE PtpRuntime -----------------------------
(***************************************************************************)
(* struct PtpRuntime shared by several threads: the recursive mutex, the   *)
(* two kill switches, the session and transaction counters and the single  *)
(* data buffer, with the functions of lib.c, operations.c, error.c and     *)
(* libusb.c that touch them.  One step is one access to shared state that  *)
(* no lock makes atomic with its neighbours.                               *)
(*                                                                         *)
(* A try of ptp_send ends in one of the outcomes of                        *)
(* ptp_receive_all_packets (read by read in UsbTransport): a response      *)
(* ("OK", "other" or the 0xffff "goodbye"), "ignored" or "ioerr".          *)
(***************************************************************************)
EXTENDS Naturals, FiniteSets

CONSTANTS Threads,       \* application threads that share the runtime
          NoThread,      \* owner of the free mutex
          Calls,         \* the calls the application makes
          Outcomes,      \* what may become of a try
          MaxCalls       \* bound: calls made in a behaviour

AllCalls == {"send", "sendData", "query", "info", "open", "abort", "quit",
             "connect", "disconnect", "event"}
Codes == {"OK", "other", "goodbye"}

ASSUME NoThreadAssumption == NoThread \notin Threads
ASSUME CallsAssumption == Calls \subseteq AllCalls
ASSUME OutcomesAssumption == Outcomes \subseteq Codes \cup {"ignored", "ioerr"}
ASSUME MaxCallsAssumption == MaxCalls \in Nat

VARIABLES
  owner, depth,          \* r->mutex
  opKill, ioKill,        \* r->operation_kill_switch, r->io_kill_switch
  transaction, session,  \* r->transaction, r->session
  data,                  \* what r->data holds
  wire,                  \* the command the camera has not answered
  pc, call, id, try, tmp, rc, parsed, \* per thread: locals of its call
  calls,                 \* history: calls begun
  used,                  \* history: <id, tid, session> of commands sent
  last,                  \* history: id of the last command sent
  closed                 \* history: id of the answered CloseSession of a quit

lock == <<owner, depth>>
kills == <<opKill, ioKill>>
ids == <<transaction, session>>
link == <<wire, used, last>>
locals == <<call, id, calls>>
results == <<try, tmp, rc, parsed>>
vars == <<owner, depth, opKill, ioKill, transaction, session, data, wire, pc,
          call, id, try, tmp, rc, parsed, calls, used, last, closed>>

IdleBus == [state |-> "idle", id |-> 0, tid |-> 0]
NoPacket == [kind |-> "none", id |-> 0, tid |-> 0, code |-> "none"]
Packet == [kind : {"none", "cmd", "data", "rsp", "event"}, id : 0..MaxCalls,
           tid : Nat, code : Codes \cup {"none"}]

SendPC == {"check", "lock", "recheck", "build", "write", "buildData",
           "writeData", "read", "latchIgnored", "unlockIgnored",
           "unlockFailed", "latchFailed", "load", "store", "finish"}
CallerPC == {"idle", "queryLock", "parse", "callerUnlock", "openSession",
             "openTransaction", "reportCheck", "reportLatch", "reportLock",
             "reportRecheck", "reportKillOp", "reportKillIo", "initKillIo",
             "initKillOp", "closeKillIo", "closeKillOp", "event"}

TypeOK ==
  /\ owner \in Threads \cup {NoThread}
  /\ depth \in Nat
  /\ opKill \in BOOLEAN
  /\ ioKill \in BOOLEAN
  /\ transaction \in Nat
  /\ session \in Nat
  /\ data \in Packet
  /\ wire \in [state : {"idle", "sent", "lost", "resent"},
               id : 0..MaxCalls, tid : Nat]
  /\ pc \in [Threads -> SendPC \cup CallerPC]
  /\ call \in [Threads -> AllCalls]
  /\ id \in [Threads -> 0..MaxCalls]
  /\ try \in [Threads -> {1, 2}]
  /\ tmp \in [Threads -> Nat]
  /\ rc \in [Threads -> {"ok", "check_code", "io_err"}]
  /\ parsed \in [Threads -> Packet]
  /\ calls \in 0..MaxCalls
  /\ used \subseteq [id : 0..MaxCalls, tid : Nat, session : Nat]
  /\ last \in 0..MaxCalls
  /\ closed \in 0..MaxCalls

-----------------------------------------------------------------------------
(* The fields ptp_init leaves behind, and those of a runtime that          *)
(* ptp_device_init and ptp_open_session have connected.                    *)
InitFields ==
  \/ opKill = TRUE /\ ioKill = TRUE /\ transaction = 0 /\ session = 0
  \/ opKill = FALSE /\ ioKill = FALSE /\ transaction = 1 /\ session = 1

Init ==
  /\ owner = NoThread /\ depth = 0
  /\ InitFields
  /\ data = NoPacket
  /\ wire = IdleBus
  /\ pc = [t \in Threads |-> "idle"]
  /\ call = [t \in Threads |-> "send"]
  /\ id = [t \in Threads |-> 0]
  /\ try = [t \in Threads |-> 1]
  /\ tmp = [t \in Threads |-> 0]
  /\ rc = [t \in Threads |-> "ok"]
  /\ parsed = [t \in Threads |-> NoPacket]
  /\ calls = 0 /\ used = {} /\ last = 0 /\ closed = 0

Goto(t, l) == pc' = [pc EXCEPT ![t] = l]

\* Mutant: the mutex lets everybody in.
AcquireFree(t) == owner' = t /\ depth' = depth + 1

\* PTHREAD_MUTEX_RECURSIVE: the owner may lock again.
Acquire(t) == /\ owner \in {NoThread, t}
              /\ owner' = t
              /\ depth' = depth + 1
Release(t) == /\ depth' = depth - 1
              /\ owner' = IF depth = 1 THEN NoThread ELSE owner

\* Mutant: ptp_report_error(0) forgets the kill switches.
AfterSendNoKill(c, r) ==
  IF c = "query" THEN IF r = "ok" THEN "parse" ELSE "callerUnlock"
  ELSE IF c = "info" /\ r = "ok" THEN "parse"
  ELSE IF c = "quit" THEN "callerUnlock"
  ELSE "idle"

\* Where the function that called ptp_send goes on with return code r.
AfterSend(c, r) ==
  IF c = "query" THEN IF r = "ok" THEN "parse" ELSE "callerUnlock"
  ELSE IF c = "info" /\ r = "ok" THEN "parse"
  ELSE IF c = "quit" THEN "reportKillOp"
  ELSE "idle"

Return(t, r) == /\ rc' = [rc EXCEPT ![t] = r]
                /\ Goto(t, AfterSend(call[t], r))

Entry(c) == CASE c \in {"send", "sendData", "info"} -> "check"
              [] c = "query" -> "queryLock"
              [] c = "open" -> "openSession"
              [] c \in {"abort", "quit"} -> "reportCheck"
              [] c = "connect" -> "initKillIo"
              [] c = "disconnect" -> "closeKillIo"
              [] c = "event" -> "event"

\* The application makes a call.  It connects a disconnected runtime only:
\* ptp_comm_init aborts the program otherwise.
Begin(t) ==
  /\ pc[t] = "idle"
  /\ calls < MaxCalls
  /\ calls' = calls + 1
  /\ \E c \in Calls : /\ c = "connect" => ioKill
                      /\ call' = [call EXCEPT ![t] = c]
                      /\ Goto(t, Entry(c))
  /\ id' = [id EXCEPT ![t] = calls + 1]
  /\ try' = [try EXCEPT ![t] = 1]
  /\ rc' = [rc EXCEPT ![t] = "ok"]
  /\ parsed' = [parsed EXCEPT ![t] = NoPacket]
  /\ UNCHANGED <<lock, kills, ids, data, link, tmp, closed>>

-----------------------------------------------------------------------------
(* ptp_send and ptp_send_data.                                             *)
CheckKill(t) ==
  /\ pc[t] = "check"
  /\ IF opKill THEN Return(t, "io_err") ELSE Goto(t, "lock") /\ UNCHANGED rc
  /\ UNCHANGED <<lock, kills, ids, data, link, locals, try, tmp, parsed, closed>>

Lock(t) ==
  /\ pc[t] = "lock"
  /\ Acquire(t)
  /\ Goto(t, "recheck")
  /\ UNCHANGED <<kills, ids, data, link, locals, results, closed>>

\* Mutant: the early return under the mutex keeps it locked.
RecheckKeepsLock(t) ==
  /\ pc[t] = "recheck"
  /\ IF opKill THEN Return(t, "io_err") ELSE Goto(t, "build") /\ UNCHANGED rc
  /\ UNCHANGED <<lock, kills, ids, data, link, locals, try, tmp, parsed, closed>>

RecheckKill(t) ==
  /\ pc[t] = "recheck"
  /\ IF opKill THEN Release(t) /\ Return(t, "io_err")
               ELSE Goto(t, "build") /\ UNCHANGED <<lock, rc>>
  /\ UNCHANGED <<kills, ids, data, link, locals, try, tmp, parsed, closed>>

\* ptp_new_cmd_packet puts the command and r->transaction into r->data.
Build(t) ==
  /\ pc[t] = "build"
  /\ data' = [kind |-> "cmd", id |-> id[t], tid |-> transaction, code |-> "none"]
  /\ Goto(t, "write")
  /\ UNCHANGED <<lock, kills, ids, link, locals, results, closed>>

\* A try ends with an I/O error: the first one leaves ptp_send through the
\* "else if (rc)" branch, the second one through "ignored again".
Fail(t) ==
  /\ ioKill \/ "ioerr" \in Outcomes
  /\ Goto(t, IF try[t] = 1 THEN "unlockFailed" ELSE "latchIgnored")
  /\ wire' = IdleBus
  /\ UNCHANGED <<data, used, last, try>>

\* ptp_send_packet sends what r->data holds.
Write(t) ==
  /\ pc[t] = "write"
  /\ \/ /\ ~ioKill
        /\ wire' = [state |-> IF try[t] = 1 THEN "sent" ELSE "resent",
                    id |-> data.id, tid |-> data.tid]
        /\ used' = used \cup {[id |-> data.id, tid |-> data.tid,
                               session |-> session]}
        /\ last' = data.id
        /\ Goto(t, IF call[t] = "sendData" THEN "buildData" ELSE "read")
        /\ UNCHANGED <<data, try>>
     \/ Fail(t)
  /\ UNCHANGED <<lock, kills, ids, locals, tmp, rc, parsed, closed>>

BuildData(t) ==
  /\ pc[t] = "buildData"
  /\ data' = [kind |-> "data", id |-> id[t], tid |-> transaction, code |-> "none"]
  /\ Goto(t, "writeData")
  /\ UNCHANGED <<lock, kills, ids, link, locals, results, closed>>

WriteData(t) ==
  /\ pc[t] = "writeData"
  /\ \/ ~ioKill /\ Goto(t, "read") /\ UNCHANGED <<data, link, try>>
     \/ Fail(t)
  /\ UNCHANGED <<lock, kills, ids, locals, tmp, rc, parsed, closed>>

\* ptp_receive_all_packets: the camera's answer, silence, or an error.
Answered(t) ==
  /\ ~ioKill
  /\ \E c \in Outcomes \cap Codes :
        data' = [kind |-> "rsp", id |-> wire.id, tid |-> wire.tid, code |-> c]
  /\ wire' = IdleBus
  /\ Goto(t, "load")
  /\ UNCHANGED <<used, last, try>>

\* Mutant: an ignored command is repeated for ever.
IgnoredAgain(t) ==
  /\ ~ioKill
  /\ "ignored" \in Outcomes
  /\ wire' = [wire EXCEPT !.state = "lost"]
  /\ Goto(t, "build")
  /\ UNCHANGED <<data, used, last, try>>

Ignored(t) ==
  /\ ~ioKill
  /\ "ignored" \in Outcomes
  /\ IF try[t] = 1
       THEN /\ wire' = [wire EXCEPT !.state = "lost"]
            /\ try' = [try EXCEPT ![t] = 2]
            /\ Goto(t, "build")
       ELSE /\ wire' = IdleBus
            /\ Goto(t, "latchIgnored")
            /\ UNCHANGED try
  /\ UNCHANGED <<data, used, last>>

Read(t) ==
  /\ pc[t] = "read"
  /\ Answered(t) \/ Ignored(t) \/ Fail(t)
  /\ UNCHANGED <<lock, kills, ids, locals, tmp, rc, parsed, closed>>

\* The second try failed: the switch is set, then the mutex is released.
LatchIgnored(t) ==
  /\ pc[t] = "latchIgnored"
  /\ opKill' = TRUE
  /\ Goto(t, "unlockIgnored")
  /\ UNCHANGED <<lock, ioKill, ids, data, link, locals, results, closed>>

UnlockIgnored(t) ==
  /\ pc[t] = "unlockIgnored"
  /\ Release(t)
  /\ Return(t, "io_err")
  /\ UNCHANGED <<kills, ids, data, link, locals, try, tmp, parsed, closed>>

\* The first try failed: the mutex is released, then the switch is set.
UnlockFailed(t) ==
  /\ pc[t] = "unlockFailed"
  /\ Release(t)
  /\ Goto(t, "latchFailed")
  /\ UNCHANGED <<kills, ids, data, link, locals, results, closed>>

LatchFailed(t) ==
  /\ pc[t] = "latchFailed"
  /\ opKill' = TRUE
  /\ Return(t, "io_err")
  /\ UNCHANGED <<lock, ioKill, ids, data, link, locals, try, tmp, parsed, closed>>

\* r->transaction++ is a load and a store: ptp_open_session writes the same
\* field without the mutex.
Load(t) ==
  /\ pc[t] = "load"
  /\ tmp' = [tmp EXCEPT ![t] = transaction]
  /\ Goto(t, "store")
  /\ UNCHANGED <<lock, kills, ids, data, link, locals, try, rc, parsed, closed>>

Store(t) ==
  /\ pc[t] = "store"
  /\ transaction' = tmp[t] + 1
  /\ Goto(t, "finish")
  /\ UNCHANGED <<lock, kills, session, data, link, locals, results, closed>>

\* ptp_check_rc on the packet in the buffer; what is not a response has no
\* particular code.
CheckRc(c) == IF c = "OK" THEN "ok"
              ELSE IF c = "goodbye" THEN "io_err" ELSE "check_code"
CodesIn(p) == IF p.kind = "rsp" THEN {p.code} ELSE Codes

Finish(t) ==
  /\ pc[t] = "finish"
  /\ \E c \in CodesIn(data) :
        /\ Return(t, CheckRc(c))
        /\ closed' = IF call[t] = "quit" /\ c = "OK" THEN id[t] ELSE closed
  /\ Release(t)
  /\ UNCHANGED <<kills, ids, data, link, locals, try, tmp, parsed>>

-----------------------------------------------------------------------------
(* "query": ptp_get_storage_ids, ptp_get_storage_info, ptp_get_object_     *)
(* handles and ptp_get_prop_desc parse the answer before they unlock.      *)
(* "info": ptp_get_device_info and ptp_get_object_info parse it after      *)
(* ptp_send has released the mutex.                                        *)
\* Mutant: the query does not lock around ptp_send and its parser.
QueryNoLock(t) ==
  /\ pc[t] = "queryLock"
  /\ Goto(t, "check")
  /\ UNCHANGED <<lock, kills, ids, data, link, locals, results, closed>>

QueryLock(t) ==
  /\ pc[t] = "queryLock"
  /\ Acquire(t)
  /\ Goto(t, "check")
  /\ UNCHANGED <<kills, ids, data, link, locals, results, closed>>

Parse(t) ==
  /\ pc[t] = "parse"
  /\ parsed' = [parsed EXCEPT ![t] = data]
  /\ Goto(t, IF call[t] = "query" THEN "callerUnlock" ELSE "idle")
  /\ UNCHANGED <<lock, kills, ids, data, link, locals, try, tmp, rc, closed>>

CallerUnlock(t) ==
  /\ pc[t] = "callerUnlock"
  /\ Release(t)
  /\ Goto(t, "idle")
  /\ UNCHANGED <<kills, ids, data, link, locals, results, closed>>

\* ptp_open_session changes both counters before ptp_send takes the mutex.
OpenSession(t) ==
  /\ pc[t] = "openSession"
  /\ session' = session + 1
  /\ Goto(t, "openTransaction")
  /\ UNCHANGED <<lock, kills, transaction, data, link, locals, results, closed>>

OpenTransaction(t) ==
  /\ pc[t] = "openTransaction"
  /\ transaction' = 0
  /\ Goto(t, "check")
  /\ UNCHANGED <<lock, kills, session, data, link, locals, results, closed>>

(* ptp_report_error: "abort" has a code, "quit" is code 0.                 *)
ReportCheck(t) ==
  /\ pc[t] = "reportCheck"
  /\ Goto(t, IF ioKill THEN "idle"
             ELSE IF call[t] = "abort" THEN "reportLatch" ELSE "reportLock")
  /\ UNCHANGED <<lock, kills, ids, data, link, locals, results, closed>>

ReportLatch(t) ==
  /\ pc[t] = "reportLatch"
  /\ opKill' = TRUE
  /\ Goto(t, "reportLock")
  /\ UNCHANGED <<lock, ioKill, ids, data, link, locals, results, closed>>

ReportLock(t) ==
  /\ pc[t] = "reportLock"
  /\ Acquire(t)
  /\ Goto(t, "reportRecheck")
  /\ UNCHANGED <<kills, ids, data, link, locals, results, closed>>

ReportRecheck(t) ==
  /\ pc[t] = "reportRecheck"
  /\ IF ioKill THEN Release(t) /\ Goto(t, "idle")
               ELSE /\ Goto(t, IF call[t] = "quit" THEN "check" ELSE "reportKillOp")
                    /\ UNCHANGED lock
  /\ UNCHANGED <<kills, ids, data, link, locals, results, closed>>

ReportKillOp(t) ==
  /\ pc[t] = "reportKillOp"
  /\ opKill' = TRUE
  /\ Goto(t, "reportKillIo")
  /\ UNCHANGED <<lock, ioKill, ids, data, link, locals, results, closed>>

ReportKillIo(t) ==
  /\ pc[t] = "reportKillIo"
  /\ ioKill' = TRUE
  /\ Goto(t, "callerUnlock")
  /\ UNCHANGED <<lock, opKill, ids, data, link, locals, results, closed>>

(* The ends of ptp_device_init and ptp_device_close: no mutex.             *)
InitKillIo(t) ==
  /\ pc[t] = "initKillIo"
  /\ ioKill' = FALSE
  /\ closed' = 0
  /\ Goto(t, "initKillOp")
  /\ UNCHANGED <<lock, opKill, ids, data, link, locals, results>>

InitKillOp(t) ==
  /\ pc[t] = "initKillOp"
  /\ opKill' = FALSE
  /\ Goto(t, "idle")
  /\ UNCHANGED <<lock, ioKill, ids, data, link, locals, results, closed>>

CloseKillIo(t) ==
  /\ pc[t] = "closeKillIo"
  /\ ioKill' = TRUE
  /\ Goto(t, "closeKillOp")
  /\ UNCHANGED <<lock, opKill, ids, data, link, locals, results, closed>>

CloseKillOp(t) ==
  /\ pc[t] = "closeKillOp"
  /\ opKill' = TRUE
  /\ Goto(t, "idle")
  /\ UNCHANGED <<lock, ioKill, ids, data, link, locals, results, closed>>

\* ptp_get_event reads the interrupt endpoint into r->data without the
\* mutex.  A positive count returns at once; only a time-out (0 bytes) goes
\* on to copy the buffer out.
GetEvent(t) ==
  /\ pc[t] = "event"
  /\ \/ /\ ioKill \/ "ioerr" \in Outcomes
        /\ UNCHANGED <<data, parsed>>
     \/ /\ ~ioKill
        /\ data' = [NoPacket EXCEPT !.kind = "event", !.id = id[t]]
        /\ UNCHANGED parsed
     \/ /\ ~ioKill
        /\ parsed' = [parsed EXCEPT ![t] = data]
        /\ UNCHANGED data
  /\ Goto(t, "idle")
  /\ UNCHANGED <<lock, kills, ids, link, locals, try, tmp, rc, closed>>

\* Bound: nothing more is called once MaxCalls calls have returned.
Terminated ==
  /\ calls = MaxCalls
  /\ \A t \in Threads : pc[t] = "idle"
  /\ UNCHANGED vars

SendStep(t) ==
  \/ CheckKill(t) \/ Lock(t) \/ RecheckKill(t) \/ Build(t) \/ Write(t)
  \/ BuildData(t) \/ WriteData(t) \/ Read(t) \/ LatchIgnored(t)
  \/ UnlockIgnored(t) \/ UnlockFailed(t) \/ LatchFailed(t) \/ Load(t)
  \/ Store(t) \/ Finish(t)

CallerStep(t) ==
  \/ QueryLock(t) \/ Parse(t) \/ CallerUnlock(t) \/ OpenSession(t)
  \/ OpenTransaction(t) \/ ReportCheck(t) \/ ReportLatch(t) \/ ReportLock(t)
  \/ ReportRecheck(t) \/ ReportKillOp(t) \/ ReportKillIo(t) \/ InitKillIo(t)
  \/ InitKillOp(t) \/ CloseKillIo(t) \/ CloseKillOp(t) \/ GetEvent(t)

Step(t) == SendStep(t) \/ CallerStep(t)

Next == (\E t \in Threads : Begin(t) \/ Step(t)) \/ Terminated

Spec == Init /\ [][Next]_vars

\* Every thread keeps running inside a call.  The mutex need not be fair:
\* the number of calls is finite.
FairSpec == Spec /\ \A t \in Threads : WF_vars(Step(t))

-----------------------------------------------------------------------------
(* Properties.                                                             *)

\* Levels of the mutex that the program text of t's call holds at its pc:
\* one inside ptp_send, one inside the function around it.
InExchange(t) == pc[t] \in {"recheck", "build", "write", "buildData",
  "writeData", "read", "latchIgnored", "unlockIgnored", "unlockFailed",
  "load", "store", "finish"}
InCaller(t) == \/ call[t] = "query" /\ pc[t] \in SendPC \cup {"parse"}
               \/ call[t] = "quit" /\ pc[t] \in SendPC
               \/ pc[t] \in {"reportRecheck", "reportKillOp", "reportKillIo",
                             "callerUnlock"}
Levels(t) == (IF InExchange(t) THEN 1 ELSE 0) + (IF InCaller(t) THEN 1 ELSE 0)

\* Every path through ptp_send, the locking queries and ptp_report_error
\* unlocks as often as it locked, and no thread holds what another owns.
MutexMatchesCalls ==
  /\ owner = NoThread <=> depth = 0
  /\ \A t \in Threads : Levels(t) = IF owner = t THEN depth ELSE 0

\* Two threads are never between building a command and taking its answer
\* at the same time: the buffer and the pipe belong to one exchange.
WireExclusion ==
  \A t, u \in Threads : InExchange(t) /\ InExchange(u) => t = u

\* A query that parses under the mutex parses the answer to its own command.
QueryReadsOwnAnswer ==
  \A t \in Threads : call[t] = "query" /\ parsed[t] # NoPacket =>
     parsed[t].kind = "rsp" /\ parsed[t].id = id[t]

\* The same of the calls that parse after ptp_send has unlocked.
InfoReadsOwnAnswer ==
  \A t \in Threads : call[t] = "info" /\ parsed[t] # NoPacket =>
     parsed[t].kind = "rsp" /\ parsed[t].id = id[t]

\* In one session no two calls use the same transaction id (a retry repeats
\* the id of its own call), also when calls fail and others follow.
FreshIds ==
  \A a, b \in used : a.tid = b.tid /\ a.session = b.session => a.id = b.id

\* The comment in ptp_open_session: an OpenSession carries transaction 0.
OpenTidZero ==
  \A t \in Threads : call[t] = "open" /\ wire.state # "idle" /\ wire.id = id[t]
                        => wire.tid = 0

\* After the camera has answered the CloseSession of ptp_report_error(0), it
\* hears no further command until the application connects again.
SessionStaysClosed == closed # 0 => last = closed

\* operation_kill_switch: once a command has failed, no other goes out.
FailureStopsCommands ==
  \A t \in Threads : pc[t] = "latchFailed" => wire.state = "idle"

\* What ptp_get_event copies to its caller is an event.
EventIsEvent ==
  \A t \in Threads : call[t] = "event" /\ parsed[t] # NoPacket =>
     parsed[t].kind = "event"

\* The camera sees the behaviour of one careful single-threaded initiator.
Bus == INSTANCE CommandBus WITH CommandIds <- 1..MaxCalls, bus <- wire
BusSpec == Bus!BusSpec

\* Every call returns: no deadlock and no lock left behind blocks a thread.
CallsReturn == \A t \in Threads : pc[t] # "idle" ~> pc[t] = "idle"
=============================================================================
