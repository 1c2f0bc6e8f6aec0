----------------------------- MODULE UsbDevice -----------------------------
(***************************************************************************)
(* The life of the libusb handle: listing, opening, ptp_device_init and    *)
(* ptp_device_close in one thread, bulk transfers in others.  Every        *)
(* libusb call may fail; a handle is what libusb_open returns.             *)
(***************************************************************************)
EXTENDS Naturals

CONSTANTS Manager,     \* the thread that opens and closes the device
          Workers,     \* threads that send commands
          NoOne,       \* the mutex is free
          Reopens,     \* BOOLEAN: ptp_device_open while a connection is active
          MaxHandles   \* bound: handles opened

ASSUME UsbThreadsAssumption == Manager \notin Workers
                               /\ NoOne \notin Workers \cup {Manager}
ASSUME UsbBoundsAssumption == Reopens \in BOOLEAN /\ MaxHandles \in Nat

VARIABLES
  place,    \* per thread
  call,     \* what the manager is doing: "list", "open", "init" or "close"
  owner,    \* holder of r->mutex
  ioKill,   \* r->io_kill_switch
  opKill,   \* r->operation_kill_switch
  listed,   \* a device entry is known
  handle,   \* backend->handle, 0 before the first libusb_open
  state,    \* of each handle: "unused", "open", "claimed" or "closed"
  using     \* per worker: handle of its transfer, or 0

deviceVars == <<place, call, owner, ioKill, opKill, listed, handle, state, using>>

Threads == Workers \cup {Manager}
Handles == 1..MaxHandles

DeviceTypeOK ==
  /\ place \in [Threads -> {"idle", "lock", "listing", "check", "open", "detach",
                         "claim", "enableIo", "enableOp", "stopOp", "release",
                         "free", "recheck", "checkIo", "submit", "transfer"}]
  /\ call \in {"list", "open", "init", "close"}
  /\ owner \in Threads \cup {NoOne}
  /\ ioKill \in BOOLEAN /\ opKill \in BOOLEAN /\ listed \in BOOLEAN
  /\ handle \in 0..MaxHandles
  /\ state \in [Handles -> {"unused", "open", "claimed", "closed"}]
  /\ using \in [Workers -> 0..MaxHandles]

DeviceInit ==
  /\ place = [t \in Threads |-> "idle"] /\ call = "list" /\ owner = NoOne
  /\ ioKill = TRUE /\ opKill = TRUE /\ listed = FALSE
  /\ handle = 0 /\ state = [h \in Handles |-> "unused"]
  /\ using = [w \in Workers |-> 0]

At(t, l) == place[t] = l
Go(t, l) == place' = [place EXCEPT ![t] = l]
Mark(h, s) == state' = [state EXCEPT ![h] = s]
Acquire(t) == owner = NoOne /\ owner' = t
Release == owner' = NoOne

-----------------------------------------------------------------------------
(* The manager.                                                            *)

\* ptpusb_device_list and ptp_device_init panic on an active connection.
CallList(c) ==
  /\ At(Manager, "idle") /\ c \in {"list", "init"} /\ ioKill
  /\ call' = c /\ Go(Manager, "lock")
  /\ UNCHANGED <<owner, ioKill, opKill, listed, handle, state, using>>

ListLock ==
  /\ At(Manager, "lock") /\ call \in {"list", "init"}
  /\ Acquire(Manager) /\ Go(Manager, "listing")
  /\ UNCHANGED <<call, ioKill, opKill, listed, handle, state, using>>

\* Mutant: the early return of an empty bus keeps the mutex.
ListDevicesLeak ==
  /\ At(Manager, "listing")
  /\ listed' \in BOOLEAN
  /\ owner' = IF listed' THEN NoOne ELSE owner
  /\ Go(Manager, IF call = "init" /\ listed' THEN "open" ELSE "idle")
  /\ UNCHANGED <<call, ioKill, opKill, handle, state, using>>

\* Every return of ptpusb_device_list releases the mutex.
ListDevices ==
  /\ At(Manager, "listing")
  /\ listed' \in BOOLEAN
  /\ Release
  /\ Go(Manager, IF call = "init" /\ listed' THEN "open" ELSE "idle")
  /\ UNCHANGED <<call, ioKill, opKill, handle, state, using>>

CallOpen ==
  /\ At(Manager, "idle") /\ listed /\ (ioKill \/ Reopens)
  /\ call' = "open" /\ Go(Manager, "lock")
  /\ UNCHANGED <<owner, ioKill, opKill, listed, handle, state, using>>

OpenLock ==
  /\ At(Manager, "lock") /\ call = "open"
  /\ owner \in {NoOne, Manager} /\ owner' = Manager
  /\ Go(Manager, "check")
  /\ UNCHANGED <<call, ioKill, opKill, listed, handle, state, using>>

\* On an active connection the function returns with the mutex locked.
OpenCheck ==
  /\ At(Manager, "check")
  /\ Go(Manager, IF ioKill THEN "open" ELSE "idle")
  /\ UNCHANGED <<call, owner, ioKill, opKill, listed, handle, state, using>>

\* ptp_device_open releases the mutex, ptp_device_init does not hold it.
Return == /\ Go(Manager, "idle")
          /\ owner' = IF call = "open" THEN NoOne ELSE owner

LibusbOpen ==
  /\ At(Manager, "open")
  /\ \/ /\ Return /\ UNCHANGED <<handle, state>>
     \/ \E h \in Handles :
          /\ state[h] = "unused" /\ \A g \in 1..(h - 1) : state[g] # "unused"
          /\ handle' = h /\ Mark(h, "open")
          /\ Go(Manager, "detach") /\ UNCHANGED owner
  /\ UNCHANGED <<call, ioKill, opKill, listed, using>>

\* A failure leaves the handle open.
AutoDetach ==
  /\ At(Manager, "detach")
  /\ Return \/ (Go(Manager, "claim") /\ UNCHANGED owner)
  /\ UNCHANGED <<call, ioKill, opKill, listed, handle, state, using>>

\* Mutant: a refused claim is reported and otherwise ignored.
ClaimIgnored ==
  /\ At(Manager, "claim")
  /\ \/ Mark(handle, "closed")
     \/ /\ \A h \in Handles : state[h] # "claimed"
        /\ Mark(handle, "claimed")
  /\ Go(Manager, "enableIo") /\ UNCHANGED owner
  /\ UNCHANGED <<call, ioKill, opKill, listed, handle, using>>

\* The kernel grants an interface to one handle at a time.
Claim ==
  /\ At(Manager, "claim")
  /\ \/ Return /\ Mark(handle, "closed")
     \/ /\ \A h \in Handles : state[h] # "claimed"
        /\ Mark(handle, "claimed")
        /\ Go(Manager, "enableIo") /\ UNCHANGED owner
  /\ UNCHANGED <<call, ioKill, opKill, listed, handle, using>>

EnableIo ==
  /\ At(Manager, "enableIo") /\ Go(Manager, "enableOp")
  /\ ioKill' = FALSE
  /\ UNCHANGED <<call, owner, opKill, listed, handle, state, using>>

EnableOp ==
  /\ At(Manager, "enableOp") /\ Return
  /\ opKill' = FALSE
  /\ UNCHANGED <<call, ioKill, listed, handle, state, using>>

\* ptp_device_close, without the mutex, on a handle that was opened.
CloseDevice ==
  /\ At(Manager, "idle") /\ handle # 0 /\ state[handle] = "claimed"
  /\ call' = "close" /\ Go(Manager, "stopOp")
  /\ ioKill' = TRUE
  /\ UNCHANGED <<owner, opKill, listed, handle, state, using>>

StopOp ==
  /\ At(Manager, "stopOp") /\ Go(Manager, "release")
  /\ opKill' = TRUE
  /\ UNCHANGED <<call, owner, ioKill, listed, handle, state, using>>

ReleaseInterface ==
  /\ At(Manager, "release")
  /\ \/ Go(Manager, "idle") /\ UNCHANGED state
     \/ Go(Manager, "free") /\ Mark(handle, "open")
  /\ UNCHANGED <<call, owner, ioKill, opKill, listed, handle, using>>

FreeHandle ==
  /\ At(Manager, "free") /\ Go(Manager, "idle")
  /\ Mark(handle, "closed")
  /\ UNCHANGED <<call, owner, ioKill, opKill, listed, handle, using>>

-----------------------------------------------------------------------------
(* A worker: ptp_send around one bulk transfer.                            *)
Send(w) ==
  /\ At(w, "idle") /\ ~opKill /\ Go(w, "lock")
  /\ UNCHANGED <<call, owner, ioKill, opKill, listed, handle, state, using>>

SendLock(w) ==
  /\ At(w, "lock") /\ Acquire(w) /\ Go(w, "recheck")
  /\ UNCHANGED <<call, ioKill, opKill, listed, handle, state, using>>

Leave(w) == Go(w, "idle") /\ Release

Recheck(w) ==
  /\ At(w, "recheck")
  /\ IF opKill THEN Leave(w) ELSE Go(w, "checkIo") /\ UNCHANGED owner
  /\ UNCHANGED <<call, ioKill, opKill, listed, handle, state, using>>

CheckIo(w) ==
  /\ At(w, "checkIo")
  /\ IF ioKill THEN Leave(w) ELSE Go(w, "submit") /\ UNCHANGED owner
  /\ UNCHANGED <<call, ioKill, opKill, listed, handle, state, using>>

Submit(w) ==
  /\ At(w, "submit") /\ Go(w, "transfer")
  /\ using' = [using EXCEPT ![w] = handle]
  /\ UNCHANGED <<call, owner, ioKill, opKill, listed, handle, state>>

Transferred(w) ==
  /\ At(w, "transfer") /\ Leave(w)
  /\ using' = [using EXCEPT ![w] = 0]
  /\ UNCHANGED <<call, ioKill, opKill, listed, handle, state>>

Manage == \/ \E c \in {"list", "init"} : CallList(c)
          \/ ListLock \/ ListDevices \/ CallOpen \/ OpenLock \/ OpenCheck
          \/ LibusbOpen \/ AutoDetach \/ Claim \/ EnableIo \/ EnableOp
          \/ CloseDevice \/ StopOp \/ ReleaseInterface \/ FreeHandle

Work(w) == Send(w) \/ SendLock(w) \/ Recheck(w) \/ CheckIo(w) \/ Submit(w)
           \/ Transferred(w)

DeviceNext == Manage \/ (\E w \in Workers : Work(w))

DeviceSpec == DeviceInit /\ [][DeviceNext]_deviceVars

-----------------------------------------------------------------------------
(* Properties.                                                             *)

\* The I/O switch is off only while the current handle owns the interface:
\* every failure on the way there and every way out leaves it on.
ActiveMeansClaimed == ~ioKill => handle # 0 /\ state[handle] = "claimed"

\* No function of the backend returns with the mutex locked.
MutexReleased == \A t \in Threads : place[t] = "idle" => owner # t

\* README: "Thread-safe".  No transfer runs on a handle that was given up.
TransferOnClaimed ==
  \A w \in Workers : place[w] = "transfer" => state[using[w]] = "claimed"
=============================================================================
