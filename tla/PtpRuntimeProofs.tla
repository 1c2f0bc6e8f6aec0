-------------------------- MODULE PtpRuntimeProofs --------------------------
(* What PtpRuntime guarantees for any number of threads and calls: the      *)
(* mutex, and what it buys, exchanges that are not mixed up.               *)
EXTENDS PtpRuntime, TLAPS

-----------------------------------------------------------------------------
(* Types and the mutex: MutexMatchesCalls is inductive together with       *)
(* TypeOK and PcMatchesCall; each needs the others (Release stays in Nat   *)
(* because the caller holds a level).                                      *)

\* The code a thread is in belongs to the call it made.
PcMatchesCall ==
  \A t \in Threads :
    /\ pc[t] # "idle" => call[t] \in Calls
    /\ pc[t] \in SendPC => call[t] \in {"send", "sendData", "query", "info",
                                       "open", "quit"}
    /\ pc[t] \in {"buildData", "writeData"} => call[t] = "sendData"
    /\ pc[t] = "queryLock" => call[t] = "query"
    /\ pc[t] = "parse" => call[t] \in {"query", "info"}
    /\ pc[t] \in {"openSession", "openTransaction"} => call[t] = "open"
    /\ pc[t] \in {"reportCheck", "reportLatch", "reportLock", "reportRecheck",
                  "reportKillOp", "reportKillIo"} => call[t] \in {"abort", "quit"}
    /\ pc[t] = "callerUnlock" => call[t] \in {"query", "abort", "quit"}
    /\ pc[t] \in {"initKillIo", "initKillOp"} => call[t] = "connect"
    /\ pc[t] \in {"closeKillIo", "closeKillOp"} => call[t] = "disconnect"
    /\ pc[t] = "event" => call[t] = "event"

IInv == TypeOK /\ PcMatchesCall /\ MutexMatchesCalls

LEMMA InitIInv == Init => IInv
<1> SUFFICES ASSUME Init PROVE IInv
  OBVIOUS
<1>1. TypeOK
  <2>1. NoPacket \in Packet /\ 0 \in 0..MaxCalls
    BY MaxCallsAssumption DEF NoPacket, Packet
  <2>2. IdleBus \in [state : {"idle", "sent", "lost", "resent"},
                    id : 0..MaxCalls, tid : Nat]
    BY MaxCallsAssumption DEF IdleBus
  <2>3. opKill \in BOOLEAN /\ ioKill \in BOOLEAN
    BY Zenon DEF Init, InitFields
  <2>4. transaction \in {0, 1} /\ session \in {0, 1}
    BY Zenon DEF Init, InitFields
  <2> QED
    BY <2>1, <2>2, <2>3, <2>4 DEF Init, TypeOK, AllCalls, CallerPC
<1>2. MutexMatchesCalls
  BY NoThreadAssumption
     DEF Init, MutexMatchesCalls, Levels, InExchange, InCaller, SendPC
<1>3. PcMatchesCall
  BY DEF Init, PcMatchesCall, SendPC
<1> QED
  BY <1>1, <1>2, <1>3 DEF IInv

\* A thread inside an exchange or inside a locking caller owns the mutex.
LEMMA Owns ==
  ASSUME IInv, NEW t \in Threads, InExchange(t) \/ InCaller(t)
  PROVE  owner = t /\ depth = Levels(t) /\ depth \in Nat \ {0}
BY DEF IInv, MutexMatchesCalls, Levels, TypeOK

\* Return stores a return code and continues in the caller.
LEMMA ReturnType ==
  ASSUME TypeOK, NEW t \in Threads, NEW r \in {"ok", "check_code", "io_err"},
         Return(t, r)
  PROVE  /\ rc' \in [Threads -> {"ok", "check_code", "io_err"}]
         /\ pc' \in [Threads -> SendPC \cup CallerPC]
<1>1. AfterSend(call[t], r) \in CallerPC
  BY DEF AfterSend, CallerPC
<1> QED
  BY <1>1 DEF TypeOK, Return, Goto

\* A try that fails leaves the link idle.
LEMMA FailType ==
  ASSUME TypeOK, NEW t \in Threads, Fail(t)
  PROVE  /\ wire' \in [state : {"idle", "sent", "lost", "resent"},
                       id : 0..MaxCalls, tid : Nat]
         /\ pc' \in [Threads -> SendPC \cup CallerPC]
         /\ UNCHANGED <<data, used, last, try>>
<1>1. IdleBus \in [state : {"idle", "sent", "lost", "resent"},
                  id : 0..MaxCalls, tid : Nat]
  BY MaxCallsAssumption DEF IdleBus
<1>2. (IF try[t] = 1 THEN "unlockFailed" ELSE "latchIgnored") \in SendPC
  BY DEF SendPC
<1> QED
  BY <1>1, <1>2 DEF TypeOK, Fail, Goto

LEMMA TypeStep ==
  ASSUME IInv, NEW t \in Threads, Begin(t) \/ Step(t)
  PROVE  TypeOK'
<1> USE DEF IInv, lock, kills, ids, link, locals, results
<1>1. ASSUME Begin(t) PROVE TypeOK'
  <2>1. 0 \in 0..MaxCalls /\ calls + 1 \in 0..MaxCalls
    BY <1>1, MaxCallsAssumption DEF Begin, TypeOK
  <2>2. NoPacket \in Packet
    BY <2>1 DEF NoPacket, Packet
  <2>3. \A c \in AllCalls : Entry(c) \in SendPC \cup CallerPC
    BY DEF Entry, AllCalls, SendPC, CallerPC
  <2> QED
    BY <1>1, <2>1, <2>2, <2>3, CallsAssumption DEF Begin, TypeOK, Goto
<1>2. ASSUME CheckKill(t) PROVE TypeOK'
  BY <1>2, ReturnType DEF CheckKill, TypeOK, Goto, SendPC
<1>3. ASSUME Lock(t) PROVE TypeOK'
  BY <1>3 DEF Lock, TypeOK, Goto, Acquire, SendPC
<1>4. ASSUME RecheckKill(t) PROVE TypeOK'
  <2>1. depth - 1 \in Nat /\ owner = t
    BY <1>4, Owns DEF RecheckKill, InExchange
  <2> QED
    BY <1>4, <2>1, ReturnType DEF RecheckKill, TypeOK, Goto, Release, SendPC
<1>5. ASSUME Build(t) PROVE TypeOK'
  <2>1. [kind |-> "cmd", id |-> id[t], tid |-> transaction, code |-> "none"] \in Packet
    BY DEF TypeOK, Packet
  <2> QED
    BY <1>5, <2>1 DEF Build, TypeOK, Goto, SendPC
<1>6. ASSUME Write(t) PROVE TypeOK'
  <2>1. CASE Fail(t)
    BY <1>6, <2>1, FailType DEF Write, TypeOK
  <2>2. CASE ~Fail(t)
    <3>1. data.id \in 0..MaxCalls /\ data.tid \in Nat
      BY DEF TypeOK, Packet
    <3> QED
      BY <1>6, <2>2, <3>1 DEF Write, TypeOK, Goto, SendPC
  <2> QED
    BY <2>1, <2>2
<1>7. ASSUME BuildData(t) PROVE TypeOK'
  <2>1. [kind |-> "data", id |-> id[t], tid |-> transaction, code |-> "none"] \in Packet
    BY DEF TypeOK, Packet
  <2> QED
    BY <1>7, <2>1 DEF BuildData, TypeOK, Goto, SendPC
<1>8. ASSUME WriteData(t) PROVE TypeOK'
  BY <1>8, FailType DEF WriteData, TypeOK, Goto, SendPC
<1>9. ASSUME Read(t) PROVE TypeOK'
  <2>1. CASE Fail(t)
    BY <1>9, <2>1, FailType DEF Read, TypeOK
  <2>2. CASE Answered(t)
    <3>1. \A c \in Codes : [kind |-> "rsp", id |-> wire.id, tid |-> wire.tid,
                            code |-> c] \in Packet
      BY DEF TypeOK, Packet
    <3>2. IdleBus \in [state : {"idle", "sent", "lost", "resent"},
                      id : 0..MaxCalls, tid : Nat]
      BY MaxCallsAssumption DEF IdleBus
    <3> QED
      BY <1>9, <2>2, <3>1, <3>2 DEF Answered, Read, TypeOK, Goto, SendPC
  <2>3. CASE Ignored(t)
    <3>1. IdleBus \in [state : {"idle", "sent", "lost", "resent"},
                      id : 0..MaxCalls, tid : Nat]
      BY MaxCallsAssumption DEF IdleBus
    <3>2. [wire EXCEPT !.state = "lost"]
             \in [state : {"idle", "sent", "lost", "resent"},
                 id : 0..MaxCalls, tid : Nat]
      BY DEF TypeOK
    <3> QED
      BY <1>9, <2>3, <3>1, <3>2 DEF Ignored, Read, TypeOK, Goto, SendPC
  <2> QED
    BY <1>9, <2>1, <2>2, <2>3 DEF Read
<1>10. ASSUME LatchIgnored(t) PROVE TypeOK'
  BY <1>10 DEF LatchIgnored, TypeOK, Goto, SendPC
<1>11. ASSUME UnlockIgnored(t) PROVE TypeOK'
  <2>1. depth - 1 \in Nat /\ owner = t
    BY <1>11, Owns DEF UnlockIgnored, InExchange
  <2> QED
    BY <1>11, <2>1, ReturnType DEF UnlockIgnored, TypeOK, Goto, Release, SendPC
<1>12. ASSUME UnlockFailed(t) PROVE TypeOK'
  <2>1. depth - 1 \in Nat /\ owner = t
    BY <1>12, Owns DEF UnlockFailed, InExchange
  <2> QED
    BY <1>12, <2>1 DEF UnlockFailed, TypeOK, Goto, Release, SendPC
<1>13. ASSUME LatchFailed(t) PROVE TypeOK'
  BY <1>13, ReturnType DEF LatchFailed, TypeOK, Goto, SendPC
<1>14. ASSUME Load(t) PROVE TypeOK'
  BY <1>14 DEF Load, TypeOK, Goto, SendPC
<1>15. ASSUME Store(t) PROVE TypeOK'
  BY <1>15 DEF Store, TypeOK, Goto, SendPC
<1>16. ASSUME Finish(t) PROVE TypeOK'
  <2>1. PICK c \in CodesIn(data) :
           /\ Return(t, CheckRc(c))
           /\ closed' = IF call[t] = "quit" /\ c = "OK" THEN id[t] ELSE closed
    BY <1>16 DEF Finish
  <2>2. CheckRc(c) \in {"ok", "check_code", "io_err"}
    BY DEF CheckRc
  <2>3. depth - 1 \in Nat /\ owner = t
    BY <1>16, Owns DEF Finish, InExchange
  <2>4. closed' \in 0..MaxCalls
    BY <2>1 DEF TypeOK
  <2> QED
    BY <1>16, <2>1, <2>2, <2>3, <2>4, ReturnType DEF Finish, Release, TypeOK
<1>17. ASSUME QueryLock(t) PROVE TypeOK'
  BY <1>17 DEF QueryLock, TypeOK, Goto, Acquire, SendPC, CallerPC
<1>18. ASSUME Parse(t) PROVE TypeOK'
  BY <1>18 DEF Parse, TypeOK, Goto, SendPC, CallerPC
<1>19. ASSUME CallerUnlock(t) PROVE TypeOK'
  <2>1. depth - 1 \in Nat /\ owner = t
    BY <1>19, Owns DEF CallerUnlock, InCaller
  <2> QED
    BY <1>19, <2>1 DEF CallerUnlock, TypeOK, Goto, Release, SendPC, CallerPC
<1>20. ASSUME OpenSession(t) PROVE TypeOK'
  BY <1>20 DEF OpenSession, TypeOK, Goto, SendPC, CallerPC
<1>21. ASSUME OpenTransaction(t) PROVE TypeOK'
  BY <1>21 DEF OpenTransaction, TypeOK, Goto, SendPC, CallerPC
<1>22. ASSUME ReportCheck(t) PROVE TypeOK'
  BY <1>22 DEF ReportCheck, TypeOK, Goto, SendPC, CallerPC
<1>23. ASSUME ReportLatch(t) PROVE TypeOK'
  BY <1>23 DEF ReportLatch, TypeOK, Goto, SendPC, CallerPC
<1>24. ASSUME ReportLock(t) PROVE TypeOK'
  BY <1>24 DEF ReportLock, TypeOK, Goto, Acquire, SendPC, CallerPC
<1>25. ASSUME ReportRecheck(t) PROVE TypeOK'
  <2>1. depth - 1 \in Nat /\ owner = t
    BY <1>25, Owns DEF ReportRecheck, InCaller
  <2> QED
    BY <1>25, <2>1 DEF ReportRecheck, TypeOK, Goto, Release, SendPC, CallerPC
<1>26. ASSUME ReportKillOp(t) PROVE TypeOK'
  BY <1>26 DEF ReportKillOp, TypeOK, Goto, SendPC, CallerPC
<1>27. ASSUME ReportKillIo(t) PROVE TypeOK'
  BY <1>27 DEF ReportKillIo, TypeOK, Goto, SendPC, CallerPC
<1>28. ASSUME InitKillIo(t) PROVE TypeOK'
  <2>1. 0 \in 0..MaxCalls
    BY MaxCallsAssumption
  <2> QED
    BY <1>28, <2>1 DEF InitKillIo, TypeOK, Goto, CallerPC
<1>29. ASSUME InitKillOp(t) PROVE TypeOK'
  BY <1>29 DEF InitKillOp, TypeOK, Goto, SendPC, CallerPC
<1>30. ASSUME CloseKillIo(t) PROVE TypeOK'
  BY <1>30 DEF CloseKillIo, TypeOK, Goto, SendPC, CallerPC
<1>31. ASSUME CloseKillOp(t) PROVE TypeOK'
  BY <1>31 DEF CloseKillOp, TypeOK, Goto, SendPC, CallerPC
<1>32. ASSUME GetEvent(t) PROVE TypeOK'
  <2>1. [NoPacket EXCEPT !.kind = "event", !.id = id[t]] \in Packet
    BY DEF NoPacket, Packet, TypeOK
  <2> QED
    BY <1>32, <2>1 DEF GetEvent, TypeOK, Goto, CallerPC
<1> QED
  BY <1>1, <1>2, <1>3, <1>4, <1>5, <1>6, <1>7, <1>8, <1>9, <1>10, <1>11,
     <1>12, <1>13, <1>14, <1>15, <1>16, <1>17, <1>18, <1>19, <1>20, <1>21,
     <1>22, <1>23, <1>24, <1>25, <1>26, <1>27, <1>28, <1>29, <1>30, <1>31,
     <1>32
     DEF Step, SendStep, CallerStep

LEMMA PcStep ==
  ASSUME IInv, NEW t \in Threads, Begin(t) \/ Step(t)
  PROVE  PcMatchesCall'
<1> USE DEF locals, Goto, SendPC, PcMatchesCall
<1> /\ pc \in [Threads -> SendPC \cup CallerPC]
    /\ call \in [Threads -> AllCalls]
    /\ PcMatchesCall
  BY DEF IInv, TypeOK
<1>1. ASSUME Begin(t) PROVE PcMatchesCall'
  BY <1>1, CallsAssumption DEF Begin, Entry, AllCalls
<1>2. ASSUME CheckKill(t) PROVE PcMatchesCall'
  BY <1>2 DEF CheckKill, Return, AfterSend
<1>3. ASSUME Lock(t) PROVE PcMatchesCall'
  BY <1>3 DEF Lock
<1>4. ASSUME RecheckKill(t) PROVE PcMatchesCall'
  BY <1>4 DEF RecheckKill, Return, AfterSend
<1>5. ASSUME Build(t) PROVE PcMatchesCall'
  BY <1>5 DEF Build
<1>6. ASSUME Write(t) PROVE PcMatchesCall'
  BY <1>6 DEF Write, Fail
<1>7. ASSUME BuildData(t) PROVE PcMatchesCall'
  BY <1>7 DEF BuildData
<1>8. ASSUME WriteData(t) PROVE PcMatchesCall'
  BY <1>8 DEF WriteData, Fail
<1>9. ASSUME Read(t) PROVE PcMatchesCall'
  BY <1>9 DEF Read, Answered, Ignored, Fail
<1>10. ASSUME LatchIgnored(t) PROVE PcMatchesCall'
  BY <1>10 DEF LatchIgnored
<1>11. ASSUME UnlockIgnored(t) PROVE PcMatchesCall'
  BY <1>11 DEF UnlockIgnored, Return, AfterSend
<1>12. ASSUME UnlockFailed(t) PROVE PcMatchesCall'
  BY <1>12 DEF UnlockFailed
<1>13. ASSUME LatchFailed(t) PROVE PcMatchesCall'
  BY <1>13 DEF LatchFailed, Return, AfterSend
<1>14. ASSUME Load(t) PROVE PcMatchesCall'
  BY <1>14 DEF Load
<1>15. ASSUME Store(t) PROVE PcMatchesCall'
  BY <1>15 DEF Store
<1>16. ASSUME Finish(t) PROVE PcMatchesCall'
  BY <1>16 DEF Finish, Return, AfterSend
<1>17. ASSUME QueryLock(t) PROVE PcMatchesCall'
  BY <1>17 DEF QueryLock
<1>18. ASSUME Parse(t) PROVE PcMatchesCall'
  BY <1>18 DEF Parse
<1>19. ASSUME CallerUnlock(t) PROVE PcMatchesCall'
  BY <1>19 DEF CallerUnlock
<1>20. ASSUME OpenSession(t) PROVE PcMatchesCall'
  BY <1>20 DEF OpenSession
<1>21. ASSUME OpenTransaction(t) PROVE PcMatchesCall'
  BY <1>21 DEF OpenTransaction
<1>22. ASSUME ReportCheck(t) PROVE PcMatchesCall'
  BY <1>22 DEF ReportCheck
<1>23. ASSUME ReportLatch(t) PROVE PcMatchesCall'
  BY <1>23 DEF ReportLatch
<1>24. ASSUME ReportLock(t) PROVE PcMatchesCall'
  BY <1>24 DEF ReportLock
<1>25. ASSUME ReportRecheck(t) PROVE PcMatchesCall'
  BY <1>25 DEF ReportRecheck
<1>26. ASSUME ReportKillOp(t) PROVE PcMatchesCall'
  BY <1>26 DEF ReportKillOp
<1>27. ASSUME ReportKillIo(t) PROVE PcMatchesCall'
  BY <1>27 DEF ReportKillIo
<1>28. ASSUME InitKillIo(t) PROVE PcMatchesCall'
  BY <1>28 DEF InitKillIo
<1>29. ASSUME InitKillOp(t) PROVE PcMatchesCall'
  BY <1>29 DEF InitKillOp
<1>30. ASSUME CloseKillIo(t) PROVE PcMatchesCall'
  BY <1>30 DEF CloseKillIo
<1>31. ASSUME CloseKillOp(t) PROVE PcMatchesCall'
  BY <1>31 DEF CloseKillOp
<1>32. ASSUME GetEvent(t) PROVE PcMatchesCall'
  BY <1>32 DEF GetEvent
<1> QED
  BY <1>1, <1>2, <1>3, <1>4, <1>5, <1>6, <1>7, <1>8, <1>9, <1>10, <1>11,
     <1>12, <1>13, <1>14, <1>15, <1>16, <1>17, <1>18, <1>19, <1>20, <1>21,
     <1>22, <1>23, <1>24, <1>25, <1>26, <1>27, <1>28, <1>29, <1>30, <1>31,
     <1>32
     DEF Step, SendStep, CallerStep

\* The three ways a step of t touches the mutex.
LEMMA KeepMutex ==
  ASSUME IInv, NEW t \in Threads, UNCHANGED lock, Levels(t)' = Levels(t),
         \A u \in Threads \ {t} : pc'[u] = pc[u] /\ call'[u] = call[u]
  PROVE  MutexMatchesCalls'
<1>1. \A u \in Threads \ {t} : Levels(u)' = Levels(u)
  BY DEF Levels, InExchange, InCaller
<1> QED
  BY <1>1 DEF IInv, MutexMatchesCalls, lock

LEMMA TakeMutex ==
  ASSUME IInv, NEW t \in Threads, Acquire(t), Levels(t)' = Levels(t) + 1,
         \A u \in Threads \ {t} : pc'[u] = pc[u] /\ call'[u] = call[u]
  PROVE  MutexMatchesCalls'
<1>1. \A u \in Threads \ {t} : Levels(u)' = Levels(u)
  BY DEF Levels, InExchange, InCaller
<1>2. Levels(t) = depth /\ depth \in Nat
  BY NoThreadAssumption DEF IInv, MutexMatchesCalls, Acquire, TypeOK
<1>3. \A u \in Threads \ {t} : Levels(u) = 0
  BY NoThreadAssumption DEF IInv, MutexMatchesCalls, Acquire
<1> QED
  BY <1>1, <1>2, <1>3, NoThreadAssumption DEF MutexMatchesCalls, Acquire

LEMMA GiveMutex ==
  ASSUME IInv, NEW t \in Threads, Release(t), Levels(t)' = Levels(t) - 1,
         InExchange(t) \/ InCaller(t),
         \A u \in Threads \ {t} : pc'[u] = pc[u] /\ call'[u] = call[u]
  PROVE  MutexMatchesCalls'
<1>1. \A u \in Threads \ {t} : Levels(u)' = Levels(u)
  BY DEF Levels, InExchange, InCaller
<1>2. owner = t /\ depth = Levels(t) /\ depth \in Nat \ {0}
  BY Owns
<1>3. \A u \in Threads \ {t} : Levels(u) = 0
  BY <1>2 DEF IInv, MutexMatchesCalls
<1> QED
  BY <1>1, <1>2, <1>3, NoThreadAssumption DEF MutexMatchesCalls, Release

LEMMA MutexStep ==
  ASSUME IInv, NEW t \in Threads, Begin(t) \/ Step(t)
  PROVE  MutexMatchesCalls'
<1> USE DEF lock, locals, Goto, Levels, InExchange, InCaller, SendPC
<1> /\ pc \in [Threads -> SendPC \cup CallerPC]
    /\ call \in [Threads -> AllCalls]
    /\ PcMatchesCall
  BY DEF IInv, TypeOK
<1>1. ASSUME Begin(t) PROVE MutexMatchesCalls'
  BY <1>1, KeepMutex, CallsAssumption DEF Begin, Entry, AllCalls
<1>2. ASSUME CheckKill(t) PROVE MutexMatchesCalls'
  BY <1>2, KeepMutex DEF CheckKill, Return, AfterSend
<1>3. ASSUME Lock(t) PROVE MutexMatchesCalls'
  BY <1>3, TakeMutex DEF Lock
<1>4. ASSUME RecheckKill(t) PROVE MutexMatchesCalls'
  <2>1. CASE opKill
    BY <1>4, <2>1, GiveMutex DEF RecheckKill, Return, AfterSend
  <2>2. CASE ~opKill
    BY <1>4, <2>2, KeepMutex DEF RecheckKill, Return, AfterSend
  <2> QED
    BY <2>1, <2>2
<1>5. ASSUME Build(t) PROVE MutexMatchesCalls'
  BY <1>5, KeepMutex DEF Build
<1>6. ASSUME Write(t) PROVE MutexMatchesCalls'
  BY <1>6, KeepMutex DEF Write, Fail
<1>7. ASSUME BuildData(t) PROVE MutexMatchesCalls'
  BY <1>7, KeepMutex DEF BuildData
<1>8. ASSUME WriteData(t) PROVE MutexMatchesCalls'
  BY <1>8, KeepMutex DEF WriteData, Fail
<1>9. ASSUME Read(t) PROVE MutexMatchesCalls'
  BY <1>9, KeepMutex DEF Read, Answered, Ignored, Fail
<1>10. ASSUME LatchIgnored(t) PROVE MutexMatchesCalls'
  BY <1>10, KeepMutex DEF LatchIgnored
<1>11. ASSUME UnlockIgnored(t) PROVE MutexMatchesCalls'
  BY <1>11, GiveMutex DEF UnlockIgnored, Return, AfterSend
<1>12. ASSUME UnlockFailed(t) PROVE MutexMatchesCalls'
  BY <1>12, GiveMutex DEF UnlockFailed
<1>13. ASSUME LatchFailed(t) PROVE MutexMatchesCalls'
  BY <1>13, KeepMutex DEF LatchFailed, Return, AfterSend
<1>14. ASSUME Load(t) PROVE MutexMatchesCalls'
  BY <1>14, KeepMutex DEF Load
<1>15. ASSUME Store(t) PROVE MutexMatchesCalls'
  BY <1>15, KeepMutex DEF Store
<1>16. ASSUME Finish(t) PROVE MutexMatchesCalls'
  BY <1>16, GiveMutex DEF Finish, Return, AfterSend
<1>17. ASSUME QueryLock(t) PROVE MutexMatchesCalls'
  BY <1>17, TakeMutex DEF QueryLock, PcMatchesCall
<1>18. ASSUME Parse(t) PROVE MutexMatchesCalls'
  BY <1>18, KeepMutex DEF Parse
<1>19. ASSUME CallerUnlock(t) PROVE MutexMatchesCalls'
  BY <1>19, GiveMutex DEF CallerUnlock
<1>20. ASSUME OpenSession(t) PROVE MutexMatchesCalls'
  BY <1>20, KeepMutex DEF OpenSession
<1>21. ASSUME OpenTransaction(t) PROVE MutexMatchesCalls'
  BY <1>21, KeepMutex DEF OpenTransaction, PcMatchesCall
<1>22. ASSUME ReportCheck(t) PROVE MutexMatchesCalls'
  BY <1>22, KeepMutex DEF ReportCheck
<1>23. ASSUME ReportLatch(t) PROVE MutexMatchesCalls'
  BY <1>23, KeepMutex DEF ReportLatch
<1>24. ASSUME ReportLock(t) PROVE MutexMatchesCalls'
  BY <1>24, TakeMutex DEF ReportLock
<1>25. ASSUME ReportRecheck(t) PROVE MutexMatchesCalls'
  <2>1. CASE ioKill
    BY <1>25, <2>1, GiveMutex DEF ReportRecheck
  <2>2. CASE ~ioKill
    BY <1>25, <2>2, KeepMutex DEF ReportRecheck
  <2> QED
    BY <2>1, <2>2
<1>26. ASSUME ReportKillOp(t) PROVE MutexMatchesCalls'
  BY <1>26, KeepMutex DEF ReportKillOp
<1>27. ASSUME ReportKillIo(t) PROVE MutexMatchesCalls'
  BY <1>27, KeepMutex DEF ReportKillIo
<1>28. ASSUME InitKillIo(t) PROVE MutexMatchesCalls'
  BY <1>28, KeepMutex DEF InitKillIo
<1>29. ASSUME InitKillOp(t) PROVE MutexMatchesCalls'
  BY <1>29, KeepMutex DEF InitKillOp
<1>30. ASSUME CloseKillIo(t) PROVE MutexMatchesCalls'
  BY <1>30, KeepMutex DEF CloseKillIo
<1>31. ASSUME CloseKillOp(t) PROVE MutexMatchesCalls'
  BY <1>31, KeepMutex DEF CloseKillOp
<1>32. ASSUME GetEvent(t) PROVE MutexMatchesCalls'
  BY <1>32, KeepMutex DEF GetEvent
<1> QED
  BY <1>1, <1>2, <1>3, <1>4, <1>5, <1>6, <1>7, <1>8, <1>9, <1>10, <1>11,
     <1>12, <1>13, <1>14, <1>15, <1>16, <1>17, <1>18, <1>19, <1>20, <1>21,
     <1>22, <1>23, <1>24, <1>25, <1>26, <1>27, <1>28, <1>29, <1>30, <1>31,
     <1>32
     DEF Step, SendStep, CallerStep

LEMMA NextIInv == IInv /\ [Next]_vars => IInv'
<1> SUFFICES ASSUME IInv, [Next]_vars PROVE IInv'
  OBVIOUS
<1>1. ASSUME NEW t \in Threads, Begin(t) \/ Step(t) PROVE IInv'
  BY <1>1, TypeStep, PcStep, MutexStep DEF IInv
<1>2. CASE UNCHANGED vars
  BY <1>2 DEF vars, IInv, TypeOK, PcMatchesCall, MutexMatchesCalls, Levels,
              InExchange, InCaller
<1> QED
  BY <1>1, <1>2 DEF Next, Terminated

\* The inductive invariant holds in every state of every behaviour.
THEOREM SpecIInv == Spec => []IInv
BY InitIInv, NextIInv, PTL DEF Spec

\* Every variable keeps its type, the depth of the mutex is never negative.
THEOREM TypeCorrect == Spec => []TypeOK
<1>1. IInv => TypeOK
  BY DEF IInv
<1> QED
  BY SpecIInv, <1>1, PTL

\* Locks and unlocks of every path of ptp_send, of the locking queries and
\* of ptp_report_error match.
THEOREM MutexBalanced == Spec => []MutexMatchesCalls
<1>1. IInv => MutexMatchesCalls
  BY DEF IInv
<1> QED
  BY SpecIInv, <1>1, PTL

\* One exchange at a time uses the buffer and the pipe.
THEOREM ExclusiveWire == Spec => []WireExclusion
<1>1. IInv => WireExclusion
  <2> SUFFICES ASSUME IInv, NEW t \in Threads, NEW u \in Threads,
                      InExchange(t), InExchange(u)
               PROVE  t = u
    BY DEF WireExclusion
  <2>1. owner = t /\ owner = u
    BY Owns
  <2> QED
    BY <2>1
<1> QED
  BY SpecIInv, <1>1, PTL

-----------------------------------------------------------------------------
(* What the mutex buys: exchanges that are not mixed up.                   *)

\* ptp_get_event is the one function that writes r->data without the mutex.
NoEvent == "event" \notin Calls

\* The command of t is with the camera.
Sent(t) == pc[t] \in {"buildData", "writeData", "read"}
Done(t) == pc[t] \in {"load", "store", "finish"}

ExchangeAt(t) ==
  /\ pc[t] # "idle" => id[t] # 0
  /\ pc[t] \in {"check", "lock", "recheck", "queryLock", "openSession",
               "openTransaction", "reportCheck", "reportLatch", "reportLock",
               "reportRecheck"} => try[t] = 1
  /\ InExchange(t) =>
        wire.state =
          IF Sent(t) THEN IF try[t] = 1 THEN "sent" ELSE "resent"
          ELSE IF pc[t] \in {"build", "write"} /\ try[t] = 2 THEN "lost"
          ELSE "idle"
  /\ pc[t] = "write" => data.id = id[t]
  /\ Sent(t) => wire.id = id[t] /\ last = id[t]
  /\ pc[t] \in {"build", "write"} /\ try[t] = 2 => wire.id = id[t]
  /\ Done(t) => last = id[t]
  /\ Done(t) \/ (pc[t] = "parse" /\ call[t] = "query") =>
        data.kind = "rsp" /\ data.id = id[t]

EInv == /\ \A t \in Threads : ExchangeAt(t)
        /\ (\A t \in Threads : ~InExchange(t)) => wire.state = "idle"

LEMMA InitEInv == Init => EInv
BY DEF Init, EInv, ExchangeAt, InExchange, Sent, Done, IdleBus

\* While t holds the mutex no other thread is inside what it protects.
LEMMA OthersOut ==
  ASSUME IInv, NEW t \in Threads, NEW u \in Threads \ {t},
         InExchange(t) \/ InCaller(t)
  PROVE  ~InExchange(u) /\ ~InCaller(u)
BY Owns

\* A step of t leaves the exchange of another thread alone.
LEMMA OthersKeep ==
  ASSUME IInv, EInv, NEW t \in Threads, NEW u \in Threads \ {t},
         pc'[u] = pc[u], call'[u] = call[u], id'[u] = id[u], try'[u] = try[u],
         UNCHANGED <<wire, data, last>> \/ InExchange(t)
  PROVE  ExchangeAt(u)'
<1>1. CASE InExchange(t)
  <2>1. ~InExchange(u) /\ ~InCaller(u)
    BY <1>1, OthersOut
  <2> QED
    BY <2>1 DEF EInv, ExchangeAt, InExchange, InCaller, Sent, Done
<1>2. CASE UNCHANGED <<wire, data, last>>
  BY <1>2 DEF EInv, ExchangeAt, InExchange, Sent, Done
<1> QED
  BY <1>1, <1>2

\* The pipe stays idle when a thread leaves its exchange with it idle.
LEMMA IdleKeep ==
  ASSUME IInv, EInv, NEW t \in Threads, UNCHANGED wire,
         \A u \in Threads \ {t} : pc'[u] = pc[u],
         InExchange(t) => wire.state = "idle" \/ InExchange(t)'
  PROVE  (\A u \in Threads : ~InExchange(u))' => wire'.state = "idle"
<1> SUFFICES ASSUME \A u \in Threads : ~InExchange(u)' PROVE wire.state = "idle"
  OBVIOUS
<1>1. CASE InExchange(t)
  BY <1>1
<1>2. CASE ~InExchange(t)
  BY <1>2 DEF EInv, InExchange
<1> QED
  BY <1>1, <1>2

LEMMA EStep ==
  ASSUME IInv, EInv, NoEvent, NEW t \in Threads, Begin(t) \/ Step(t)
  PROVE  EInv'
<1> USE DEF locals, link, Goto, InExchange, Sent, Done
<1>a. /\ pc \in [Threads -> SendPC \cup CallerPC] /\ call \in [Threads -> AllCalls]
      /\ id \in [Threads -> 0..MaxCalls] /\ try \in [Threads -> {1, 2}]
      /\ calls \in 0..MaxCalls
      /\ wire \in [state : {"idle", "sent", "lost", "resent"},
                  id : 0..MaxCalls, tid : Nat]
  BY DEF IInv, TypeOK
<1>b. PcMatchesCall /\ ExchangeAt(t)
  BY DEF IInv, EInv
<1> DEFINE Idle == (\A u \in Threads : ~InExchange(u)) => wire.state = "idle"
           Frame == /\ UNCHANGED <<wire, data, last>> \/ InExchange(t)
                    /\ \A u \in Threads \ {t} :
                         /\ pc'[u] = pc[u] /\ call'[u] = call[u]
                         /\ id'[u] = id[u] /\ try'[u] = try[u]
<1>c. SUFFICES ExchangeAt(t)' /\ Idle' /\ Frame
  BY OthersKeep DEF EInv
<1>1. ASSUME Begin(t) PROVE ExchangeAt(t)' /\ Idle' /\ Frame
  <2>1. Frame
    BY <1>1, <1>a DEF Begin, Entry, results
  <2>2. Idle'
    BY <1>1, <1>a, <1>b, <2>1, IdleKeep DEF Begin, Entry, ExchangeAt
  <2>3. PICK c \in AllCalls : pc' = [pc EXCEPT ![t] = Entry(c)]
    BY <1>1, CallsAssumption DEF Begin
  <2>4. pc'[t] \in {"check", "queryLock", "openSession", "reportCheck",
                   "initKillIo", "closeKillIo", "event"}
    BY <1>a, <2>3 DEF Entry, AllCalls
  <2>5. try'[t] = 1 /\ id'[t] # 0
    BY <1>1, <1>a, MaxCallsAssumption DEF Begin
  <2>6. ExchangeAt(t)'
    BY <2>4, <2>5 DEF ExchangeAt
  <2> QED
    BY <2>1, <2>2, <2>6
<1>2. ASSUME CheckKill(t) PROVE ExchangeAt(t)' /\ Idle' /\ Frame
  <2>1. Frame
    BY <1>2, <1>a DEF CheckKill, Return, AfterSend, results
  <2>2. Idle'
    BY <1>2, <1>a, <1>b, <2>1, IdleKeep DEF CheckKill, Return, AfterSend, ExchangeAt
  <2>3. ExchangeAt(t)'
    BY <1>2, <1>a, <1>b DEF CheckKill, Return, AfterSend, ExchangeAt, results
  <2> QED
    BY <2>1, <2>2, <2>3
<1>3. ASSUME Lock(t) PROVE ExchangeAt(t)' /\ Idle' /\ Frame
  <2>1. Frame
    BY <1>3, <1>a DEF Lock, results
  <2>2. Idle'
    BY <1>3, <1>a, <1>b, <2>1, IdleKeep DEF Lock, ExchangeAt
  <2>3. wire.state = "idle"
    <3>1. ~InExchange(t)
      BY <1>3 DEF Lock
    <3>2. \A u \in Threads \ {t} : ~InExchange(u)
      BY <1>3, Owns, NoThreadAssumption DEF Lock, Acquire
    <3> QED
      BY <3>1, <3>2 DEF EInv
  <2>4. ExchangeAt(t)'
    BY <1>3, <1>a, <1>b, <2>3 DEF Lock, ExchangeAt, results
  <2> QED
    BY <2>1, <2>2, <2>4
<1>4. ASSUME RecheckKill(t) PROVE ExchangeAt(t)' /\ Idle' /\ Frame
  <2>1. Frame
    BY <1>4, <1>a DEF RecheckKill, Return, AfterSend, results
  <2>2. Idle'
    BY <1>4, <1>a, <1>b, <2>1, IdleKeep DEF RecheckKill, Return, AfterSend, ExchangeAt
  <2>3. ExchangeAt(t)'
    BY <1>4, <1>a, <1>b DEF RecheckKill, Return, AfterSend, ExchangeAt, results
  <2> QED
    BY <2>1, <2>2, <2>3
<1>5. ASSUME Build(t) PROVE ExchangeAt(t)' /\ Idle' /\ Frame
  <2>1. Frame
    BY <1>5, <1>a DEF Build, results
  <2>2. Idle'
    BY <1>5, <1>a, <1>b, <2>1, IdleKeep DEF Build, ExchangeAt
  <2>3. ExchangeAt(t)'
    BY <1>5, <1>a, <1>b DEF Build, ExchangeAt, results
  <2> QED
    BY <2>1, <2>2, <2>3
<1>6. ASSUME Write(t) PROVE ExchangeAt(t)' /\ Idle' /\ Frame
  <2>1. Frame
    BY <1>6, <1>a DEF Write, Fail, IdleBus, results
  <2>2. Idle'
    BY <1>6, <1>a, <1>b, <2>1, IdleKeep DEF Write, Fail, IdleBus, ExchangeAt
  <2>3. ExchangeAt(t)'
    BY <1>6, <1>a, <1>b DEF Write, Fail, IdleBus, ExchangeAt, results
  <2> QED
    BY <2>1, <2>2, <2>3
<1>7. ASSUME BuildData(t) PROVE ExchangeAt(t)' /\ Idle' /\ Frame
  <2>1. Frame
    BY <1>7, <1>a DEF BuildData, results
  <2>2. Idle'
    BY <1>7, <1>a, <1>b, <2>1, IdleKeep DEF BuildData, ExchangeAt
  <2>3. ExchangeAt(t)'
    BY <1>7, <1>a, <1>b DEF BuildData, ExchangeAt, results
  <2> QED
    BY <2>1, <2>2, <2>3
<1>8. ASSUME WriteData(t) PROVE ExchangeAt(t)' /\ Idle' /\ Frame
  <2>1. Frame
    BY <1>8, <1>a DEF WriteData, Fail, IdleBus, results
  <2>2. Idle'
    BY <1>8, <1>a, <1>b, <2>1, IdleKeep DEF WriteData, Fail, IdleBus, ExchangeAt
  <2>3. ExchangeAt(t)'
    BY <1>8, <1>a, <1>b DEF WriteData, Fail, IdleBus, ExchangeAt, results
  <2> QED
    BY <2>1, <2>2, <2>3
<1>9. ASSUME Read(t) PROVE ExchangeAt(t)' /\ Idle' /\ Frame
  <2>1. Frame
    BY <1>9, <1>a DEF Read, Answered, Ignored, Fail, IdleBus, results
  <2>2. Idle'
    BY <1>9, <1>a, <1>b, <2>1, IdleKeep DEF Read, Answered, Ignored, Fail, IdleBus, ExchangeAt
  <2>3. ExchangeAt(t)'
    <3>1. CASE Answered(t)
      BY <1>9, <1>a, <1>b, <3>1 DEF Read, Answered, IdleBus, ExchangeAt, results
    <3>2. CASE Ignored(t)
      <4>1. CASE try[t] = 1
        BY <1>9, <1>a, <1>b, <3>2, <4>1 DEF Read, Ignored, IdleBus, ExchangeAt, results
      <4>2. CASE try[t] = 2
        BY <1>9, <1>a, <1>b, <3>2, <4>2 DEF Read, Ignored, IdleBus, ExchangeAt, results
      <4> QED
        BY <1>a, <4>1, <4>2
    <3>3. CASE Fail(t)
      BY <1>9, <1>a, <1>b, <3>3 DEF Read, Fail, IdleBus, ExchangeAt, results
    <3> QED
      BY <1>9, <3>1, <3>2, <3>3 DEF Read
  <2> QED
    BY <2>1, <2>2, <2>3
<1>10. ASSUME LatchIgnored(t) PROVE ExchangeAt(t)' /\ Idle' /\ Frame
  <2>1. Frame
    BY <1>10, <1>a DEF LatchIgnored, results
  <2>2. Idle'
    BY <1>10, <1>a, <1>b, <2>1, IdleKeep DEF LatchIgnored, ExchangeAt
  <2>3. ExchangeAt(t)'
    BY <1>10, <1>a, <1>b DEF LatchIgnored, ExchangeAt, results
  <2> QED
    BY <2>1, <2>2, <2>3
<1>11. ASSUME UnlockIgnored(t) PROVE ExchangeAt(t)' /\ Idle' /\ Frame
  <2>1. Frame
    BY <1>11, <1>a DEF UnlockIgnored, Return, AfterSend, results
  <2>2. Idle'
    BY <1>11, <1>a, <1>b, <2>1, IdleKeep DEF UnlockIgnored, Return, AfterSend, ExchangeAt
  <2>3. ExchangeAt(t)'
    BY <1>11, <1>a, <1>b DEF UnlockIgnored, Return, AfterSend, ExchangeAt, results
  <2> QED
    BY <2>1, <2>2, <2>3
<1>12. ASSUME UnlockFailed(t) PROVE ExchangeAt(t)' /\ Idle' /\ Frame
  <2>1. Frame
    BY <1>12, <1>a DEF UnlockFailed, results
  <2>2. Idle'
    BY <1>12, <1>a, <1>b, <2>1, IdleKeep DEF UnlockFailed, ExchangeAt
  <2>3. ExchangeAt(t)'
    BY <1>12, <1>a, <1>b DEF UnlockFailed, ExchangeAt, results
  <2> QED
    BY <2>1, <2>2, <2>3
<1>13. ASSUME LatchFailed(t) PROVE ExchangeAt(t)' /\ Idle' /\ Frame
  <2>1. Frame
    BY <1>13, <1>a DEF LatchFailed, Return, AfterSend, results
  <2>2. Idle'
    BY <1>13, <1>a, <1>b, <2>1, IdleKeep DEF LatchFailed, Return, AfterSend, ExchangeAt
  <2>3. ExchangeAt(t)'
    BY <1>13, <1>a, <1>b DEF LatchFailed, Return, AfterSend, ExchangeAt, results
  <2> QED
    BY <2>1, <2>2, <2>3
<1>14. ASSUME Load(t) PROVE ExchangeAt(t)' /\ Idle' /\ Frame
  <2>1. Frame
    BY <1>14, <1>a DEF Load, results
  <2>2. Idle'
    BY <1>14, <1>a, <1>b, <2>1, IdleKeep DEF Load, ExchangeAt
  <2>3. ExchangeAt(t)'
    BY <1>14, <1>a, <1>b DEF Load, ExchangeAt, results
  <2> QED
    BY <2>1, <2>2, <2>3
<1>15. ASSUME Store(t) PROVE ExchangeAt(t)' /\ Idle' /\ Frame
  <2>1. Frame
    BY <1>15, <1>a DEF Store, results
  <2>2. Idle'
    BY <1>15, <1>a, <1>b, <2>1, IdleKeep DEF Store, ExchangeAt
  <2>3. ExchangeAt(t)'
    BY <1>15, <1>a, <1>b DEF Store, ExchangeAt, results
  <2> QED
    BY <2>1, <2>2, <2>3
<1>16. ASSUME Finish(t) PROVE ExchangeAt(t)' /\ Idle' /\ Frame
  <2>1. Frame
    BY <1>16, <1>a DEF Finish, Return, AfterSend, results
  <2>2. Idle'
    BY <1>16, <1>a, <1>b, <2>1, IdleKeep DEF Finish, Return, AfterSend, ExchangeAt
  <2>3. ExchangeAt(t)'
    BY <1>16, <1>a, <1>b DEF Finish, Return, AfterSend, ExchangeAt, results
  <2> QED
    BY <2>1, <2>2, <2>3
<1>17. ASSUME QueryLock(t) PROVE ExchangeAt(t)' /\ Idle' /\ Frame
  <2>1. Frame
    BY <1>17, <1>a DEF QueryLock, results
  <2>2. Idle'
    BY <1>17, <1>a, <1>b, <2>1, IdleKeep DEF QueryLock, ExchangeAt
  <2>3. ExchangeAt(t)'
    BY <1>17, <1>a, <1>b DEF QueryLock, ExchangeAt, results
  <2> QED
    BY <2>1, <2>2, <2>3
<1>18. ASSUME Parse(t) PROVE ExchangeAt(t)' /\ Idle' /\ Frame
  <2>1. Frame
    BY <1>18, <1>a DEF Parse, results
  <2>2. Idle'
    BY <1>18, <1>a, <1>b, <2>1, IdleKeep DEF Parse, ExchangeAt
  <2>3. ExchangeAt(t)'
    BY <1>18, <1>a, <1>b DEF Parse, ExchangeAt, results
  <2> QED
    BY <2>1, <2>2, <2>3
<1>19. ASSUME CallerUnlock(t) PROVE ExchangeAt(t)' /\ Idle' /\ Frame
  <2>1. Frame
    BY <1>19, <1>a DEF CallerUnlock, results
  <2>2. Idle'
    BY <1>19, <1>a, <1>b, <2>1, IdleKeep DEF CallerUnlock, ExchangeAt
  <2>3. ExchangeAt(t)'
    BY <1>19, <1>a, <1>b DEF CallerUnlock, ExchangeAt, results
  <2> QED
    BY <2>1, <2>2, <2>3
<1>20. ASSUME OpenSession(t) PROVE ExchangeAt(t)' /\ Idle' /\ Frame
  <2>1. Frame
    BY <1>20, <1>a DEF OpenSession, results
  <2>2. Idle'
    BY <1>20, <1>a, <1>b, <2>1, IdleKeep DEF OpenSession, ExchangeAt
  <2>3. ExchangeAt(t)'
    BY <1>20, <1>a, <1>b DEF OpenSession, ExchangeAt, results
  <2> QED
    BY <2>1, <2>2, <2>3
<1>21. ASSUME OpenTransaction(t) PROVE ExchangeAt(t)' /\ Idle' /\ Frame
  <2>1. Frame
    BY <1>21, <1>a DEF OpenTransaction, results
  <2>2. Idle'
    BY <1>21, <1>a, <1>b, <2>1, IdleKeep DEF OpenTransaction, ExchangeAt
  <2>3. ExchangeAt(t)'
    BY <1>21, <1>a, <1>b DEF OpenTransaction, ExchangeAt, results
  <2> QED
    BY <2>1, <2>2, <2>3
<1>22. ASSUME ReportCheck(t) PROVE ExchangeAt(t)' /\ Idle' /\ Frame
  <2>1. Frame
    BY <1>22, <1>a DEF ReportCheck, results
  <2>2. Idle'
    BY <1>22, <1>a, <1>b, <2>1, IdleKeep DEF ReportCheck, ExchangeAt
  <2>3. ExchangeAt(t)'
    BY <1>22, <1>a, <1>b DEF ReportCheck, ExchangeAt, results
  <2> QED
    BY <2>1, <2>2, <2>3
<1>23. ASSUME ReportLatch(t) PROVE ExchangeAt(t)' /\ Idle' /\ Frame
  <2>1. Frame
    BY <1>23, <1>a DEF ReportLatch, results
  <2>2. Idle'
    BY <1>23, <1>a, <1>b, <2>1, IdleKeep DEF ReportLatch, ExchangeAt
  <2>3. ExchangeAt(t)'
    BY <1>23, <1>a, <1>b DEF ReportLatch, ExchangeAt, results
  <2> QED
    BY <2>1, <2>2, <2>3
<1>24. ASSUME ReportLock(t) PROVE ExchangeAt(t)' /\ Idle' /\ Frame
  <2>1. Frame
    BY <1>24, <1>a DEF ReportLock, results
  <2>2. Idle'
    BY <1>24, <1>a, <1>b, <2>1, IdleKeep DEF ReportLock, ExchangeAt
  <2>3. ExchangeAt(t)'
    BY <1>24, <1>a, <1>b DEF ReportLock, ExchangeAt, results
  <2> QED
    BY <2>1, <2>2, <2>3
<1>25. ASSUME ReportRecheck(t) PROVE ExchangeAt(t)' /\ Idle' /\ Frame
  <2>1. Frame
    BY <1>25, <1>a DEF ReportRecheck, results
  <2>2. Idle'
    BY <1>25, <1>a, <1>b, <2>1, IdleKeep DEF ReportRecheck, ExchangeAt
  <2>3. ExchangeAt(t)'
    BY <1>25, <1>a, <1>b DEF ReportRecheck, ExchangeAt, results
  <2> QED
    BY <2>1, <2>2, <2>3
<1>26. ASSUME ReportKillOp(t) PROVE ExchangeAt(t)' /\ Idle' /\ Frame
  <2>1. Frame
    BY <1>26, <1>a DEF ReportKillOp, results
  <2>2. Idle'
    BY <1>26, <1>a, <1>b, <2>1, IdleKeep DEF ReportKillOp, ExchangeAt
  <2>3. ExchangeAt(t)'
    BY <1>26, <1>a, <1>b DEF ReportKillOp, ExchangeAt, results
  <2> QED
    BY <2>1, <2>2, <2>3
<1>27. ASSUME ReportKillIo(t) PROVE ExchangeAt(t)' /\ Idle' /\ Frame
  <2>1. Frame
    BY <1>27, <1>a DEF ReportKillIo, results
  <2>2. Idle'
    BY <1>27, <1>a, <1>b, <2>1, IdleKeep DEF ReportKillIo, ExchangeAt
  <2>3. ExchangeAt(t)'
    BY <1>27, <1>a, <1>b DEF ReportKillIo, ExchangeAt, results
  <2> QED
    BY <2>1, <2>2, <2>3
<1>28. ASSUME InitKillIo(t) PROVE ExchangeAt(t)' /\ Idle' /\ Frame
  <2>1. Frame
    BY <1>28, <1>a DEF InitKillIo, results
  <2>2. Idle'
    BY <1>28, <1>a, <1>b, <2>1, IdleKeep DEF InitKillIo, ExchangeAt
  <2>3. ExchangeAt(t)'
    BY <1>28, <1>a, <1>b DEF InitKillIo, ExchangeAt, results
  <2> QED
    BY <2>1, <2>2, <2>3
<1>29. ASSUME InitKillOp(t) PROVE ExchangeAt(t)' /\ Idle' /\ Frame
  <2>1. Frame
    BY <1>29, <1>a DEF InitKillOp, results
  <2>2. Idle'
    BY <1>29, <1>a, <1>b, <2>1, IdleKeep DEF InitKillOp, ExchangeAt
  <2>3. ExchangeAt(t)'
    BY <1>29, <1>a, <1>b DEF InitKillOp, ExchangeAt, results
  <2> QED
    BY <2>1, <2>2, <2>3
<1>30. ASSUME CloseKillIo(t) PROVE ExchangeAt(t)' /\ Idle' /\ Frame
  <2>1. Frame
    BY <1>30, <1>a DEF CloseKillIo, results
  <2>2. Idle'
    BY <1>30, <1>a, <1>b, <2>1, IdleKeep DEF CloseKillIo, ExchangeAt
  <2>3. ExchangeAt(t)'
    BY <1>30, <1>a, <1>b DEF CloseKillIo, ExchangeAt, results
  <2> QED
    BY <2>1, <2>2, <2>3
<1>31. ASSUME CloseKillOp(t) PROVE ExchangeAt(t)' /\ Idle' /\ Frame
  <2>1. Frame
    BY <1>31, <1>a DEF CloseKillOp, results
  <2>2. Idle'
    BY <1>31, <1>a, <1>b, <2>1, IdleKeep DEF CloseKillOp, ExchangeAt
  <2>3. ExchangeAt(t)'
    BY <1>31, <1>a, <1>b DEF CloseKillOp, ExchangeAt, results
  <2> QED
    BY <2>1, <2>2, <2>3
<1>32. ASSUME GetEvent(t) PROVE ExchangeAt(t)' /\ Idle' /\ Frame
  BY <1>32, <1>b DEF GetEvent, PcMatchesCall, NoEvent
<1> QED
  BY <1>1, <1>2, <1>3, <1>4, <1>5, <1>6, <1>7, <1>8, <1>9, <1>10, <1>11,
     <1>12, <1>13, <1>14, <1>15, <1>16, <1>17, <1>18, <1>19, <1>20, <1>21,
     <1>22, <1>23, <1>24, <1>25, <1>26, <1>27, <1>28, <1>29, <1>30, <1>31,
     <1>32
     DEF Step, SendStep, CallerStep

LEMMA NextEInv == NoEvent /\ IInv /\ EInv /\ [Next]_vars => EInv'
<1> SUFFICES ASSUME NoEvent, IInv, EInv, [Next]_vars PROVE EInv'
  OBVIOUS
<1>1. ASSUME NEW t \in Threads, Begin(t) \/ Step(t) PROVE EInv'
  BY <1>1, EStep
<1>2. CASE UNCHANGED vars
  BY <1>2 DEF vars, EInv, ExchangeAt, InExchange, Sent, Done
<1> QED
  BY <1>1, <1>2 DEF Next, Terminated

LEMMA SpecEInv == ASSUME NoEvent PROVE Spec => []EInv
BY InitEInv, NextEInv, SpecIInv, NoEvent, PTL DEF Spec

-----------------------------------------------------------------------------
(* Which step of a thread writes which variable.                           *)
LEMMA Footprint ==
  ASSUME NEW t \in Threads, Begin(t) \/ Step(t)
  PROVE  /\ parsed' = parsed \/ Begin(t) \/ Parse(t) \/ GetEvent(t)
         /\ UNCHANGED locals \/ Begin(t)
         /\ UNCHANGED <<used, last>> \/ Write(t)
         /\ closed' = closed \/ Finish(t) \/ InitKillIo(t)
         /\ ioKill' = ioKill \/ ReportKillIo(t) \/ InitKillIo(t) \/ CloseKillIo(t)
         /\ opKill' = opKill \/ LatchIgnored(t) \/ LatchFailed(t) \/ ReportLatch(t)
              \/ ReportKillOp(t) \/ InitKillOp(t) \/ CloseKillOp(t)
         /\ transaction' = transaction \/ Store(t) \/ OpenTransaction(t)
         /\ session' = session \/ OpenSession(t)
         /\ tmp' = tmp \/ Load(t)
         /\ wire' = wire \/ Write(t) \/ WriteData(t) \/ Read(t)
         /\ data' = data \/ Build(t) \/ BuildData(t) \/ Read(t) \/ GetEvent(t)
<1> USE DEF lock, kills, ids, link, locals, results
<1>1. CASE Begin(t)
  BY <1>1 DEF Begin
<1>2. CASE SendStep(t)
  BY <1>2 DEF SendStep, CheckKill, Lock, RecheckKill, Build, Write, BuildData,
       WriteData, Read, LatchIgnored, UnlockIgnored, UnlockFailed, LatchFailed,
       Load, Store, Finish, Fail, Answered, Ignored, Return
<1>3. CASE CallerStep(t)
  BY <1>3 DEF CallerStep, QueryLock, Parse, CallerUnlock, OpenSession,
       OpenTransaction, ReportCheck, ReportLatch, ReportLock, ReportRecheck,
       ReportKillOp, ReportKillIo, InitKillIo, InitKillOp, CloseKillIo,
       CloseKillOp, GetEvent
<1> QED
  BY <1>1, <1>2, <1>3 DEF Step

\* A step of t moves no other thread.
LEMMA OneMoves ==
  ASSUME IInv, NEW t \in Threads, Begin(t) \/ Step(t), NEW u \in Threads \ {t}
  PROVE  pc'[u] = pc[u] /\ try'[u] = try[u]
<1> USE DEF IInv, TypeOK, Goto, Return, results
<1>1. CASE Begin(t)
  BY <1>1 DEF Begin
<1>2. CASE SendStep(t)
  BY <1>2 DEF SendStep, CheckKill, Lock, RecheckKill, Build, Write, BuildData,
       WriteData, Read, LatchIgnored, UnlockIgnored, UnlockFailed, LatchFailed,
       Load, Store, Finish, Fail, Answered, Ignored
<1>3. CASE CallerStep(t)
  BY <1>3 DEF CallerStep, QueryLock, Parse, CallerUnlock, OpenSession,
       OpenTransaction, ReportCheck, ReportLatch, ReportLock, ReportRecheck,
       ReportKillOp, ReportKillIo, InitKillIo, InitKillOp, CloseKillIo,
       CloseKillOp, GetEvent
<1> QED
  BY <1>1, <1>2, <1>3 DEF Step

-----------------------------------------------------------------------------
(* Queries.  The step that matters is Parse: EInv says whose answer the    *)
(* buffer holds while a query is at its parser.                            *)
LEMMA NextQuery ==
  NoEvent /\ IInv /\ EInv /\ QueryReadsOwnAnswer /\ [Next]_vars
     => QueryReadsOwnAnswer'
<1> SUFFICES ASSUME NoEvent, IInv, EInv, QueryReadsOwnAnswer, [Next]_vars
             PROVE  QueryReadsOwnAnswer'
  OBVIOUS
<1> USE DEF QueryReadsOwnAnswer
<1>1. ASSUME NEW t \in Threads, Begin(t) \/ Step(t) PROVE QueryReadsOwnAnswer'
  <2>1. CASE Begin(t)
    BY <2>1 DEF Begin, IInv, TypeOK
  <2>2. CASE Parse(t)
    BY <2>2 DEF Parse, IInv, TypeOK, EInv, ExchangeAt, locals
  <2>3. CASE GetEvent(t)
    BY <2>3 DEF GetEvent, IInv, PcMatchesCall, NoEvent
  <2>4. CASE parsed' = parsed /\ ~Begin(t)
    BY <1>1, <2>4, Footprint DEF locals
  <2> QED
    BY <1>1, <2>1, <2>2, <2>3, <2>4, Footprint
<1>2. CASE UNCHANGED vars
  BY <1>2 DEF vars
<1> QED
  BY <1>1, <1>2 DEF Next, Terminated

\* What a locking query parses is the answer to its own command.
THEOREM QueryOwnAnswer ==
  ASSUME NoEvent PROVE Spec => []QueryReadsOwnAnswer
<1>1. Init => QueryReadsOwnAnswer
  BY DEF Init, QueryReadsOwnAnswer
<1> QED
  BY <1>1, NextQuery, SpecIInv, SpecEInv, NoEvent, PTL DEF Spec

-----------------------------------------------------------------------------
(* Shutdown.  From the answer to CloseSession on, either the closing       *)
(* thread still owns the mutex or io_kill_switch stops every write.        *)
SInv == closed # 0 => /\ last = closed
                      /\ ioKill \/ \E t \in Threads :
                           pc[t] \in {"reportKillOp", "reportKillIo"}

LEMMA NextSInv == NoEvent /\ IInv /\ EInv /\ SInv /\ [Next]_vars => SInv'
<1> SUFFICES ASSUME NoEvent, IInv, EInv, SInv, [Next]_vars PROVE SInv'
  OBVIOUS
<1> USE DEF SInv
<1>1. ASSUME NEW t \in Threads, Begin(t) \/ Step(t) PROVE SInv'
  <2>1. CASE Finish(t)
    <3>1. CASE closed' = closed
      <4>1. pc[t] # "reportKillOp" /\ pc[t] # "reportKillIo"
        BY <2>1 DEF Finish
      <4>2. UNCHANGED <<ioKill, last>>
        BY <2>1 DEF Finish, kills, link
      <4> QED
        BY <1>1, <3>1, <4>1, <4>2, OneMoves
    <3>2. CASE closed' # closed
      <4>1. call[t] = "quit" /\ closed' = id[t] /\ last' = last
        BY <2>1, <3>2 DEF Finish, link
      <4>2. last = id[t]
        BY <2>1 DEF EInv, ExchangeAt, Done, Finish
      <4>3. pc'[t] = "reportKillOp"
        BY <2>1, <4>1 DEF Finish, Return, AfterSend, Goto, IInv, TypeOK
      <4> QED
        BY <4>1, <4>2, <4>3
    <3> QED
      BY <3>1, <3>2
  <2>2. CASE InitKillIo(t)
    BY <2>2 DEF InitKillIo
  <2>3. CASE Write(t)
    <3>1. CASE UNCHANGED last
      BY <1>1, <2>3, <3>1, OneMoves DEF Write, kills
    <3>2. CASE ~UNCHANGED last
      <4>1. ~ioKill /\ closed' = closed /\ pc[t] = "write"
        BY <2>3, <3>2 DEF Write, Fail
      <4>2. \A u \in Threads : pc[u] \notin {"reportKillOp", "reportKillIo"}
        BY <4>1, OthersOut DEF InExchange, InCaller
      <4> QED
        BY <4>1, <4>2
    <3> QED
      BY <3>1, <3>2
  <2>4. CASE ReportKillIo(t)
    BY <2>4 DEF ReportKillIo, ids, link
  <2>5. CASE ReportKillOp(t)
    BY <2>5 DEF ReportKillOp, Goto, ids, link, IInv, TypeOK
  <2>6. CASE CloseKillIo(t)
    BY <2>6 DEF CloseKillIo, ids, link
  <2>7. CASE /\ ~Finish(t) /\ ~InitKillIo(t) /\ ~Write(t) /\ ~ReportKillIo(t)
             /\ ~ReportKillOp(t) /\ ~CloseKillIo(t)
    <3>1. UNCHANGED <<closed, last, ioKill>>
      BY <1>1, <2>7, Footprint
    <3>2. pc[t] \notin {"reportKillOp", "reportKillIo"}
      BY <1>1, <2>7 DEF Begin, Step, SendStep, CallerStep, CheckKill, Lock,
         RecheckKill, Build, BuildData, WriteData, Read, LatchIgnored,
         UnlockIgnored, UnlockFailed, LatchFailed, Load, Store, QueryLock,
         Parse, CallerUnlock, OpenSession, OpenTransaction, ReportCheck,
         ReportLatch, ReportLock, ReportRecheck, InitKillOp, CloseKillOp,
         GetEvent
    <3> QED
      BY <1>1, <3>1, <3>2, OneMoves
  <2> QED
    BY <2>1, <2>2, <2>3, <2>4, <2>5, <2>6, <2>7
<1>2. CASE UNCHANGED vars
  BY <1>2 DEF vars
<1> QED
  BY <1>1, <1>2 DEF Next, Terminated

\* ptp_report_error(0): nothing follows an answered CloseSession.
THEOREM ClosedStaysClosed ==
  ASSUME NoEvent PROVE Spec => []SessionStaysClosed
<1>1. Init => SInv
  BY DEF Init, SInv
<1>2. SInv => SessionStaysClosed
  BY DEF SInv, SessionStaysClosed
<1> QED
  BY <1>1, <1>2, NextSInv, SpecIInv, SpecEInv, NoEvent, PTL DEF Spec

-----------------------------------------------------------------------------
(* The pipe, when nobody reopens the session: r->transaction changes only  *)
(* in an exchange, so a command keeps its id until it is answered.         *)
NoOpen == "open" \notin Calls

TidAt(t) ==
  /\ pc[t] = "write" => data.tid = transaction
  /\ Sent(t) => wire.tid = transaction
  /\ pc[t] \in {"build", "write"} /\ try[t] = 2 => wire.tid = transaction
  /\ pc[t] = "store" => tmp[t] = transaction

TInv == /\ \A t \in Threads : TidAt(t)
        /\ wire.state = "idle" => wire = IdleBus

LEMMA NextTInv ==
  NoEvent /\ NoOpen /\ IInv /\ EInv /\ TInv /\ [Next]_vars => TInv'
<1> SUFFICES ASSUME NoEvent, NoOpen, IInv, EInv, TInv, [Next]_vars PROVE TInv'
  OBVIOUS
<1> USE DEF Sent
<1>1. ASSUME NEW t \in Threads, Begin(t) \/ Step(t) PROVE TInv'
  <2>a. /\ pc \in [Threads -> SendPC \cup CallerPC] /\ try \in [Threads -> {1, 2}]
        /\ tmp \in [Threads -> Nat] /\ TidAt(t) /\ PcMatchesCall
        /\ wire \in [state : {"idle", "sent", "lost", "resent"},
                    id : 0..MaxCalls, tid : Nat]
    BY DEF IInv, TypeOK, TInv
  <2>b. ~GetEvent(t) /\ ~OpenTransaction(t)
    BY <2>a DEF GetEvent, OpenTransaction, PcMatchesCall, NoEvent, NoOpen
  <2>1. ASSUME NEW u \in Threads \ {t} PROVE TidAt(u)'
    <3>1. pc'[u] = pc[u] /\ try'[u] = try[u] /\ tmp'[u] = tmp[u]
      BY <1>1, <2>a, OneMoves, Footprint DEF Load
    <3>2. CASE InExchange(t)
      BY <3>1, <3>2, OthersOut DEF TidAt, InExchange
    <3>3. CASE ~InExchange(t)
      BY <1>1, <2>b, <3>1, <3>3, Footprint
         DEF TInv, TidAt, InExchange, Store, Write, WriteData, Read, Build, BuildData
    <3> QED
      BY <3>2, <3>3
  <2>2. TidAt(t)'
    <3> USE DEF Goto, ids, link, results
    <3>1. CASE Build(t)
      BY <2>a, <3>1 DEF Build, TidAt
    <3>2. CASE Write(t)
      BY <2>a, <3>2 DEF Write, Fail, TidAt
    <3>3. CASE BuildData(t)
      BY <2>a, <3>3 DEF BuildData, TidAt
    <3>4. CASE WriteData(t)
      BY <2>a, <3>4 DEF WriteData, Fail, TidAt
    <3>5. CASE Read(t)
      <4>1. pc[t] = "read" /\ transaction' = transaction
        BY <3>5 DEF Read
      <4>2. CASE Answered(t)
        BY <2>a, <4>1, <4>2 DEF Answered, TidAt
      <4>3. CASE Ignored(t)
        BY <2>a, <4>1, <4>3 DEF Ignored, TidAt
      <4>4. CASE Fail(t)
        BY <2>a, <4>1, <4>4 DEF Fail, TidAt
      <4> QED
        BY <3>5, <4>2, <4>3, <4>4 DEF Read
    <3>6. CASE Load(t)
      BY <2>a, <3>6 DEF Load, TidAt
    <3>7. CASE Store(t)
      BY <2>a, <3>7 DEF Store, TidAt
    <3>8. CASE RecheckKill(t)
      BY <2>a, <3>8 DEF RecheckKill, Return, AfterSend, TidAt, EInv, ExchangeAt
    <3>9. CASE /\ ~Build(t) /\ ~Write(t) /\ ~BuildData(t) /\ ~WriteData(t)
               /\ ~Read(t) /\ ~Load(t) /\ ~Store(t) /\ ~RecheckKill(t)
      BY <1>1, <2>a, <2>b, <3>9, CallsAssumption
         DEF TidAt, Begin, Entry, AllCalls, Step, SendStep, CallerStep, Return,
             AfterSend, CheckKill, Lock, LatchIgnored, UnlockIgnored,
             UnlockFailed, LatchFailed, Finish, QueryLock, Parse, CallerUnlock,
             OpenSession, ReportCheck, ReportLatch, ReportLock, ReportRecheck,
             ReportKillOp, ReportKillIo, InitKillIo, InitKillOp, CloseKillIo,
             CloseKillOp
    <3> QED
      BY <3>1, <3>2, <3>3, <3>4, <3>5, <3>6, <3>7, <3>8, <3>9
  <2>3. wire'.state = "idle" => wire' = IdleBus
    <3>1. CASE wire' = wire
      BY <3>1 DEF TInv
    <3>2. CASE Write(t)
      BY <3>1, <3>2 DEF Write, Fail
    <3>3. CASE WriteData(t)
      BY <3>1, <3>3 DEF WriteData, Fail, link
    <3>4. CASE Read(t)
      BY <2>a, <3>4 DEF Read, Answered, Ignored, Fail
    <3> QED
      BY <1>1, <3>1, <3>2, <3>3, <3>4, Footprint
  <2> QED
    BY <2>1, <2>2, <2>3 DEF TInv
<1>2. CASE UNCHANGED vars
  BY <1>2 DEF vars, TInv, TidAt
<1> QED
  BY <1>1, <1>2 DEF Next, Terminated

LEMMA SpecTInv == ASSUME NoEvent, NoOpen PROVE Spec => []TInv
<1>1. Init => TInv
  BY DEF Init, TInv, TidAt, Sent
<1> QED
  BY <1>1, NextTInv, SpecIInv, SpecEInv, NoEvent, NoOpen, PTL DEF Spec

LEMMA BusStep ==
  IInv /\ EInv /\ TInv /\ [Next]_vars => [Bus!BusNext]_wire
<1> SUFFICES ASSUME IInv, EInv, TInv, [Next]_vars, wire' # wire
             PROVE  Bus!BusNext
  OBVIOUS
<1> USE DEF Bus!BusNext, Bus!Issue, Bus!Answer, Bus!Ignore, Bus!Reissue,
        Bus!GiveUp, Bus!IdleBus, IdleBus
<1>1. PICK t \in Threads : Write(t) \/ WriteData(t) \/ Read(t)
  BY Footprint DEF Next, Terminated, vars
<1>2. /\ ExchangeAt(t) /\ TidAt(t) /\ try[t] \in {1, 2} /\ id[t] \in 0..MaxCalls
      /\ wire \in [state : {"idle", "sent", "lost", "resent"},
                  id : 0..MaxCalls, tid : Nat]
      /\ transaction \in Nat
  BY DEF EInv, TInv, IInv, TypeOK
<1>3. CASE Fail(t) /\ (Write(t) \/ WriteData(t) \/ Read(t))
  BY <1>2, <1>3 DEF Fail, TInv
<1>4. CASE Write(t) /\ ~Fail(t)
  <2>1. /\ wire' = [state |-> IF try[t] = 1 THEN "sent" ELSE "resent",
                    id |-> id[t], tid |-> transaction]
        /\ id[t] # 0
    BY <1>2, <1>4 DEF Write, ExchangeAt, TidAt
  <2>2. CASE try[t] = 1
    <3>1. wire.state = "idle"
      BY <1>2, <1>4, <2>2 DEF Write, ExchangeAt, InExchange, Sent
    <3>2. id[t] \in 1..MaxCalls
      BY <1>2, <2>1, MaxCallsAssumption
    <3>3. wire' \in [state : {"sent"}, id : 1..MaxCalls, tid : Nat]
      BY <1>2, <2>1, <2>2, <3>2
    <3> QED
      BY <3>1, <3>3
  <2>3. CASE try[t] = 2
    <3>1. wire.state = "lost" /\ wire.id = id[t] /\ wire.tid = transaction
      BY <1>2, <1>4, <2>3 DEF Write, ExchangeAt, TidAt, InExchange, Sent
    <3>2. wire' = [wire EXCEPT !.state = "resent"]
      BY <1>2, <2>1, <2>3, <3>1
    <3> QED
      BY <3>1, <3>2
  <2> QED
    BY <1>2, <2>2, <2>3
<1>5. CASE Read(t) /\ Answered(t)
  BY <1>2, <1>5 DEF Read, Answered, ExchangeAt, InExchange, Sent
<1>6. CASE Read(t) /\ Ignored(t)
  BY <1>2, <1>6 DEF Read, Ignored, ExchangeAt, InExchange, Sent
<1>7. CASE WriteData(t) /\ ~Fail(t)
  BY <1>7 DEF WriteData, link
<1> QED
  BY <1>1, <1>3, <1>4, <1>5, <1>6, <1>7 DEF Read

\* The camera sees one careful single-threaded initiator.
THEOREM ImplementsBus ==
  ASSUME NoEvent, NoOpen PROVE Spec => BusSpec
<1>1. Init => Bus!BusInit
  BY DEF Init, Bus!BusInit, Bus!IdleBus, IdleBus
<1> QED
  BY <1>1, BusStep, SpecIInv, SpecEInv, SpecTInv, NoEvent, NoOpen, PTL
     DEF Spec, BusSpec, Bus!BusSpec

-----------------------------------------------------------------------------
(* Fresh ids on one session.  With no reconnection and no first-try I/O    *)
(* error, a command that was given up leaves operation_kill_switch set     *)
(* before the mutex is free, so its id is the last one sent.               *)
OneSession == "connect" \notin Calls /\ "disconnect" \notin Calls
NoIoErr == "ioerr" \notin Outcomes

\* Past the recheck of operation_kill_switch.
Past(t) == pc[t] \in {"build", "write", "buildData", "writeData", "read",
                     "load", "store"}
\* The command of t carries the current transaction id and has been sent.
Current(t) == \/ Sent(t) \/ pc[t] \in {"latchIgnored", "load", "store"}
              \/ pc[t] \in {"build", "write"} /\ try[t] = 2

KillOrder == /\ ioKill => opKill
             /\ \A t \in Threads :
                  /\ pc[t] = "reportKillIo" => opKill
                  /\ Past(t) => ~ioKill
                  /\ pc[t] \notin {"unlockFailed", "latchFailed"}
IdsBounded == \A e \in used : e.session = session /\ e.tid <= transaction
CurrentId == \A e \in used : e.tid = transaction =>
                \/ \E t \in Threads : Current(t) /\ e.id = id[t]
                \/ opKill /\ \A t \in Threads : ~Past(t)
FInv == KillOrder /\ IdsBounded /\ CurrentId /\ FreshIds

\* Under these assumptions the calls that could disturb the ids are absent.
LEMMA Absent ==
  ASSUME NoEvent, NoOpen, OneSession, NoIoErr, IInv, KillOrder,
         NEW t \in Threads
  PROVE  /\ ~OpenSession(t) /\ ~OpenTransaction(t) /\ ~InitKillIo(t)
         /\ ~InitKillOp(t) /\ ~CloseKillIo(t) /\ ~CloseKillOp(t)
         /\ ~GetEvent(t) /\ ~UnlockFailed(t) /\ ~LatchFailed(t)
         /\ Past(t) => ~Fail(t)
<1>1. PcMatchesCall
  BY DEF IInv
<1> QED
  BY <1>1 DEF PcMatchesCall, NoEvent, NoOpen, OneSession, NoIoErr, KillOrder,
     Past, Fail, OpenSession, OpenTransaction, InitKillIo, InitKillOp,
     CloseKillIo, CloseKillOp, GetEvent, UnlockFailed, LatchFailed

\* How a step changes Past and Current of its own thread.
LEMMA OwnMove ==
  ASSUME NoEvent, NoOpen, OneSession, NoIoErr, IInv, KillOrder,
         NEW t \in Threads, Begin(t) \/ Step(t)
  PROVE  /\ Past(t)' => Past(t) \/ (RecheckKill(t) /\ ~opKill)
         /\ Current(t) => \/ Current(t)' \/ LatchIgnored(t) \/ Store(t)
         /\ pc'[t] = "reportKillIo" => ReportKillOp(t)
         /\ pc'[t] \notin {"unlockFailed", "latchFailed"}
<1> USE DEF Past, Current, Sent, Goto, Return, AfterSend, results, locals
<1>1. /\ pc \in [Threads -> SendPC \cup CallerPC] /\ try \in [Threads -> {1, 2}]
      /\ PcMatchesCall /\ pc[t] \notin {"unlockFailed", "latchFailed"}
  BY DEF IInv, TypeOK, KillOrder
<1>2. CASE Begin(t)
  BY <1>1, <1>2, CallsAssumption DEF Begin, Entry, AllCalls
<1>3. CASE SendStep(t)
  <2>1. CASE Read(t)
    BY <1>1, <2>1, Absent DEF Read, Answered, Ignored
  <2>2. CASE Write(t)
    BY <1>1, <2>2, Absent DEF Write
  <2>3. CASE WriteData(t)
    BY <1>1, <2>3, Absent DEF WriteData
  <2>4. CASE ~Read(t) /\ ~Write(t) /\ ~WriteData(t)
    BY <1>1, <1>3, <2>4 DEF SendStep, CheckKill, Lock, RecheckKill, Build,
       BuildData, LatchIgnored, UnlockIgnored, UnlockFailed, LatchFailed, Load,
       Store, Finish
  <2> QED
    BY <2>1, <2>2, <2>3, <2>4
<1>4. CASE CallerStep(t)
  BY <1>1, <1>4 DEF CallerStep, QueryLock, Parse, CallerUnlock, OpenSession,
       OpenTransaction, ReportCheck, ReportLatch, ReportLock, ReportRecheck,
       ReportKillOp, ReportKillIo, InitKillIo, InitKillOp, CloseKillIo,
       CloseKillOp, GetEvent
<1> QED
  BY <1>2, <1>3, <1>4 DEF Step

LEMMA KillOrderStep ==
  ASSUME NoEvent, NoOpen, OneSession, NoIoErr, IInv, KillOrder,
         NEW t \in Threads, Begin(t) \/ Step(t)
  PROVE  KillOrder'
<1>1. opKill => opKill'
  BY Footprint, Absent DEF LatchIgnored, LatchFailed, ReportLatch, ReportKillOp
<1>2. ioKill' = ioKill \/ ReportKillIo(t)
  BY Footprint, Absent
<1>3. ioKill' => opKill'
  BY <1>1, <1>2 DEF KillOrder, ReportKillIo
<1>4. ASSUME NEW u \in Threads, pc'[u] = "reportKillIo" PROVE opKill'
  <2>1. CASE u = t
    BY <1>4, <2>1, OwnMove DEF ReportKillOp
  <2>2. CASE u # t
    BY <1>1, <1>4, <2>2, OneMoves DEF KillOrder
  <2> QED
    BY <2>1, <2>2
<1>5. ASSUME NEW u \in Threads, Past(u)' PROVE ~ioKill'
  <2>1. CASE ReportKillIo(t)
    <3>1. u # t
      BY <1>5, <2>1 DEF ReportKillIo, Past, Goto, IInv, TypeOK
    <3>2. ~InExchange(u)
      BY <2>1, <3>1, OthersOut DEF ReportKillIo, InCaller
    <3> QED
      BY <1>5, <3>1, <3>2, OneMoves DEF Past, InExchange
  <2>2. CASE ioKill' = ioKill
    <3>1. CASE u = t
      BY <1>5, <2>2, <3>1, OwnMove DEF KillOrder
    <3>2. CASE u # t
      BY <1>5, <2>2, <3>2, OneMoves DEF KillOrder, Past
    <3> QED
      BY <3>1, <3>2
  <2> QED
    BY <1>2, <2>1, <2>2
<1>6. ASSUME NEW u \in Threads PROVE pc'[u] \notin {"unlockFailed", "latchFailed"}
  BY <1>6, OwnMove, OneMoves DEF KillOrder
<1> QED
  BY <1>3, <1>4, <1>5, <1>6 DEF KillOrder

LEMMA IdsStep ==
  ASSUME NoEvent, NoOpen, OneSession, NoIoErr, IInv, EInv, TInv, FInv,
         NEW t \in Threads, Begin(t) \/ Step(t)
  PROVE  IdsBounded' /\ CurrentId' /\ FreshIds'
<1>a. KillOrder /\ IdsBounded /\ CurrentId /\ FreshIds
  BY DEF FInv
<1>b. session' = session
  BY <1>a, Footprint, Absent
<1>c. /\ \A e \in used : e.tid \in Nat
      /\ transaction \in Nat
  BY DEF IInv, TypeOK
\* The thread that owns the current id is the one in the exchange.
<1>d. ASSUME NEW u \in Threads, Current(u) PROVE InExchange(u)
  BY <1>d DEF Current, Sent, InExchange
<1>1. CASE Store(t)
  <2>1. transaction' = transaction + 1 /\ used' = used
    BY <1>1 DEF Store, TInv, TidAt, link
  <2>2. \A e \in used' : e.tid < transaction'
    BY <1>a, <1>c, <2>1 DEF IdsBounded
  <2> QED
    BY <1>a, <1>b, <1>c, <2>1, <2>2 DEF IdsBounded, CurrentId, FreshIds
<1>2. CASE Write(t)
  <2>1. Past(t) /\ ~Fail(t)
    BY <1>2, <1>a, Absent DEF Write, Past
  <2>2. /\ used' = used \cup {[id |-> id[t], tid |-> transaction,
                              session |-> session]}
        /\ transaction' = transaction
    BY <1>2, <2>1 DEF Write, EInv, ExchangeAt, TInv, TidAt, ids
  <2>3. ASSUME NEW e \in used, e.tid = transaction PROVE e.id = id[t]
    <3>1. PICK u \in Threads : Current(u) /\ e.id = id[u]
      BY <1>a, <2>1, <2>3 DEF CurrentId
    <3>2. u = t
      BY <1>d, <2>1, <3>1, OthersOut DEF Past, InExchange
    <3> QED
      BY <3>1, <3>2
  <2>4. Current(t)' /\ id' = id
    BY <1>2, <2>1 DEF Write, Current, Sent, Goto, locals, IInv, TypeOK
  <2>5. IdsBounded'
    BY <1>a, <1>b, <1>c, <2>2 DEF IdsBounded
  <2>6. CurrentId'
    BY <2>2, <2>3, <2>4 DEF CurrentId
  <2>7. FreshIds'
    BY <1>a, <2>2, <2>3 DEF FreshIds
  <2> QED
    BY <2>5, <2>6, <2>7
<1>3. CASE ~Store(t) /\ ~Write(t)
  <2>1. UNCHANGED <<transaction, session, used>>
    BY <1>3, <1>a, <1>b, Footprint, Absent
  <2>2. IdsBounded' /\ FreshIds'
    BY <1>a, <2>1 DEF IdsBounded, FreshIds
  <2>3. opKill => opKill'
    BY <1>a, Footprint, Absent DEF LatchIgnored, LatchFailed, ReportLatch, ReportKillOp
  <2>4. ASSUME NEW e \in used, e.tid = transaction
        PROVE  \/ \E u \in Threads : Current(u)' /\ e.id = id'[u]
               \/ opKill' /\ \A u \in Threads : ~Past(u)'
    <3>1. CASE opKill /\ \A u \in Threads : ~Past(u)
      <4>1. ~Past(t)'
        BY <1>a, <3>1, OwnMove
      <4>2. \A u \in Threads \ {t} : ~Past(u)'
        BY <3>1, OneMoves DEF Past
      <4> QED
        BY <2>3, <3>1, <4>1, <4>2
    <3>2. ASSUME NEW u \in Threads, Current(u), e.id = id[u]
          PROVE  \/ \E v \in Threads : Current(v)' /\ e.id = id'[v]
                 \/ opKill' /\ \A v \in Threads : ~Past(v)'
      <4>1. ~Begin(u)
        BY <3>2 DEF Current, Sent, Begin
      <4>2. id'[u] = id[u]
        BY <4>1, Footprint DEF locals, Begin, IInv, TypeOK
      <4>3. CASE u # t
        BY <3>2, <4>2, <4>3, OneMoves DEF Current, Sent
      <4>4. CASE u = t /\ Current(t)'
        BY <3>2, <4>2, <4>4
      <4>5. CASE u = t /\ LatchIgnored(t)
        <5>1. opKill' /\ ~Past(t)'
          BY <4>5 DEF LatchIgnored, Past, Goto, IInv, TypeOK
        <5>2. \A v \in Threads \ {t} : ~Past(v)'
          BY <4>5, OthersOut, OneMoves DEF LatchIgnored, Past, InExchange
        <5> QED
          BY <5>1, <5>2
      <4> QED
        BY <1>3, <1>a, <3>2, <4>3, <4>4, <4>5, OwnMove
    <3> QED
      BY <1>a, <2>4, <3>1, <3>2 DEF CurrentId
  <2>5. CurrentId'
    BY <2>1, <2>4 DEF CurrentId
  <2> QED
    BY <2>2, <2>5
<1> QED
  BY <1>1, <1>2, <1>3

LEMMA NextFInv ==
  /\ NoEvent /\ NoOpen /\ OneSession /\ NoIoErr
  /\ IInv /\ EInv /\ TInv /\ FInv /\ [Next]_vars
  => FInv'
<1> SUFFICES ASSUME NoEvent, NoOpen, OneSession, NoIoErr, IInv, EInv, TInv,
                    FInv, [Next]_vars
             PROVE  FInv'
  OBVIOUS
<1>1. ASSUME NEW t \in Threads, Begin(t) \/ Step(t) PROVE FInv'
  BY <1>1, KillOrderStep, IdsStep DEF FInv
<1>2. CASE UNCHANGED vars
  BY <1>2 DEF vars, FInv, KillOrder, IdsBounded, CurrentId, FreshIds, Past,
              Current, Sent
<1> QED
  BY <1>1, <1>2 DEF Next, Terminated

\* No two calls of a session share a transaction id, however many threads
\* call and whichever commands the camera ignores.
THEOREM IdsAreFresh ==
  ASSUME NoEvent, NoOpen, OneSession, NoIoErr PROVE Spec => []FreshIds
<1>1. Init => FInv
  BY DEF Init, InitFields, FInv, KillOrder, IdsBounded, CurrentId, FreshIds, Past
<1>2. FInv => FreshIds
  BY DEF FInv
<1> QED
  BY <1>1, <1>2, NextFInv, SpecIInv, SpecEInv, SpecTInv, NoEvent, NoOpen,
     OneSession, NoIoErr, PTL DEF Spec
=============================================================================
