----------------------------- MODULE EosRemote -----------------------------
(***************************************************************************)
(* The front end of an EOS camera (bind.c, generic.c, liveview.c) works by *)
(* sequences of commands: a picture, a bulb exposure, live view.  Every    *)
(* command may be refused or fail, and each sequence has its own way to    *)
(* notice.  Other threads poll the camera between any two commands.        *)
(***************************************************************************)
EXTENDS Naturals, Sequences

CONSTANTS Pollers,    \* the other threads
          Kinds,      \* kinds of live view ptp_liveview_type may find
          Modes,      \* white balance modes
          MaxCalls    \* bound: calls of the front end

Front == "front_end"
ASSUME PollersAssumption == Front \notin Pollers
ASSUME KindsAssumption == Kinds \subseteq {"EOS", "ML_BMP", "ML", "NONE"}
ASSUME ModesAssumption == Modes \subseteq Nat
ASSUME BoundAssumption == MaxCalls \in Nat

Threads == Pollers \cup {Front}

VARIABLES
  buttons,   \* camera: parts of the shutter held down, 1 half and 2 full
  shots,     \* camera: exposures begun
  settings,  \* camera: its properties
  kind,      \* result of ptp_liveview_type
  kill,      \* operation_kill_switch
  code,      \* what ptp_get_return_code finds in r->data
  pc,        \* where each thread is
  call,      \* the front end's call
  step,      \* its command
  x,         \* what its last command returned
  calls,     \* calls so far
  mine,      \* history: r->data holds what the front end's command left
  trusted,   \* history: it did at every test of this call
  held,      \* history: the shutter was fully down when the call began
  told,      \* history: the last call of each group and what it returned
  sure,      \* history: exposures the front end knows of
  maybe      \* history: exposures it cannot know of

camera == <<buttons, shots, settings>>
history == <<mine, trusted, held, told, sure, maybe>>
locals == <<call, step, x, calls>>
vars == <<camera, kind, kill, code, pc, locals, history>>

-----------------------------------------------------------------------------
(* Commands and sequences.                                                 *)

Command(type, on, value) == [type |-> type, on |-> on, value |-> value]
On(m)     == Command("press", "shutter", m)       \* RemoteReleaseOn
Off(m)    == Command("release", "shutter", m)     \* RemoteReleaseOff
Set(p, v) == Command("set", p, v)                 \* SetDevicePropValueEx
Other(c)  == Command("other", c, 0)

Call(name, value) == [name |-> name, value |-> value]
Calls == {Call(n, 0) : n \in {"pre_take_picture", "take_picture", "bulb_start",
                              "bulb_stop", "cancel_af", "init_liveview",
                              "deinit_liveview", "mirror_up", "mirror_down"}}
         \cup {Call("white_balance", m) : m \in Modes}

\* The EOS set-up; the ML BMP case falls through into it.
Viewfinder == <<Set("VF_Output", 3), Set("CaptureDestination", 4)>>

\* Mutant: the ML BMP case ends with its own command.
InitLiveviewBreaks ==
  CASE kind = "EOS"    -> Viewfinder
    [] kind = "ML_BMP" -> <<Other("LiveBmpRam")>>
    [] OTHER           -> <<>>

InitLiveview ==
  CASE kind = "EOS"    -> Viewfinder
    [] kind = "ML_BMP" -> <<Other("LiveBmpRam")>> \o Viewfinder
    [] OTHER           -> <<>>
DeinitLiveview ==
  IF kind = "EOS" THEN <<Set("CaptureDestination", 2), Other("PCHDDCapacity")>>
                  ELSE <<>>

Picture == <<On(2), Off(2), Off(1)>>

Commands(c) ==
  CASE c.name = "pre_take_picture" -> <<On(1)>>
    [] c.name = "take_picture"     -> Picture
    [] c.name = "bulb_start"       -> <<On(1), On(2)>>
    [] c.name = "bulb_stop"        -> <<Off(2), Off(1)>>
    [] c.name = "cancel_af"        -> <<Other("AfCancel")>>
    [] c.name = "init_liveview"    -> InitLiveview
    [] c.name = "deinit_liveview"  -> DeinitLiveview
    [] c.name = "mirror_up"        -> <<Set("VF_Output", 3)>>
    [] c.name = "mirror_down"      -> <<Set("VF_Output", 0)>>
    [] OTHER -> <<Set("WhiteBalance", c.value), Set("EVFWBMode", c.value)>>

\* What live view returns where it has no command to send.
Nothing(c) == IF kind = "NONE" THEN "PTP_RUNTIME_ERR" ELSE "PTP_OK"

Group(c) == CASE c.name \in {"pre_take_picture", "take_picture",
                             "bulb_start", "bulb_stop"} -> "shutter"
              [] c.name \in {"init_liveview", "deinit_liveview",
                             "mirror_up", "mirror_down"} -> "view"
              [] c.name = "white_balance" -> "white"
              [] OTHER -> "focus"
Groups == {"shutter", "view", "white", "focus"}

NoCall == Call("none", 0)
Codes == {"ok", "refused", "command"}
Results == {"PTP_OK", "PTP_CHECK_CODE", "PTP_IO_ERR", "PTP_RUNTIME_ERR"}
Running == "running"

TypeOK ==
  /\ buttons \subseteq {1, 2} /\ shots \in 0..MaxCalls
  /\ settings \in [{"VF_Output", "CaptureDestination", "WhiteBalance", "EVFWBMode"} -> Nat]
  /\ kind \in Kinds /\ kill \in BOOLEAN /\ code \in Codes
  /\ pc \in [Threads -> {"idle", "send", "wire", "latch", "test"}]
  /\ \A t \in Pollers : pc[t] # "test"
  /\ call \in Calls \cup {NoCall} /\ step \in 1..3 /\ x \in Results
  /\ calls \in 0..MaxCalls
  /\ mine \in BOOLEAN /\ trusted \in BOOLEAN /\ held \in BOOLEAN
  /\ told \in [Groups -> [call : Calls \cup {NoCall},
                          result : Results \cup {Running}, trusted : BOOLEAN]]
  /\ sure \in 0..MaxCalls /\ maybe \in 0..MaxCalls

\* A session is open: r->data holds an answer.
Init ==
  /\ buttons = {} /\ shots = 0
  /\ settings \in {[VF_Output |-> 0, CaptureDestination |-> 2,
                    WhiteBalance |-> m, EVFWBMode |-> m] : m \in Modes}
  /\ kind \in Kinds /\ kill = FALSE /\ code = "ok"
  /\ pc = [t \in Threads |-> "idle"]
  /\ call = NoCall /\ step = 1 /\ x = "PTP_OK" /\ calls = 0
  /\ mine = TRUE /\ trusted = TRUE /\ held = FALSE
  /\ told = [g \in Groups |-> [call |-> NoCall, result |-> "PTP_OK", trusted |-> TRUE]]
  /\ sure = 0 /\ maybe = 0

-----------------------------------------------------------------------------
(* The front end's calls.                                                  *)

Note(c, result, tr) ==
  told' = [told EXCEPT ![Group(c)] = [call |-> c, result |-> result, trusted |-> tr]]

Exposes(c) == c.name \in {"take_picture", "bulb_start"}

\* What the front end makes of a call that returned: with the shutter held
\* down from before there is no new exposure.
Count(c, result) ==
  LET new == Exposes(c) /\ ~held
  IN  /\ sure' = IF new /\ result = "PTP_OK" THEN sure + 1 ELSE sure
      /\ maybe' = IF new /\ result # "PTP_OK" THEN maybe + 1 ELSE maybe

Begin(c) ==
  /\ pc[Front] = "idle" /\ calls < MaxCalls
  /\ calls' = calls + 1 /\ call' = c /\ step' = 1
  /\ trusted' = TRUE /\ held' = (2 \in buttons)
  /\ \/ /\ Commands(c) = <<>>
        /\ x' = Nothing(c) /\ Note(c, Nothing(c), TRUE)
        /\ UNCHANGED pc
     \/ /\ Commands(c) # <<>>
        /\ pc' = [pc EXCEPT ![Front] = "send"]
        /\ Note(c, Running, TRUE)
        /\ UNCHANGED x
  /\ UNCHANGED <<camera, kind, kill, code, mine, sure, maybe>>

\* The bindings test ptp_get_return_code, the library functions test what
\* ptp_send returned, and ptp_set_generic_property tests nothing in between.
ByCode == {"bulb_start", "bulb_stop", "cancel_af"}
Untested == {"white_balance"}

\* Mutant: the bindings' test everywhere.
StopsByCode(c) == code # "ok"

\* Mutant: the first return code of a bulb call is not looked at.
StopsLater(c) ==
  CASE c.name \in ByCode   -> step = Len(Commands(c)) /\ code # "ok"
    [] c.name \in Untested -> FALSE
    [] OTHER               -> x # "PTP_OK"

Stops(c) == CASE c.name \in ByCode   -> code # "ok"
              [] c.name \in Untested -> FALSE
              [] OTHER               -> x # "PTP_OK"

Result(c) == IF Stops(c) /\ c.name \in ByCode THEN "PTP_CHECK_CODE" ELSE x

\* After a command the mutex is free again: others may have used r->data.
Test ==
  /\ pc[Front] = "test"
  /\ trusted' = (trusted /\ (mine \/ call.name \notin ByCode))
  /\ \/ /\ ~Stops(call) /\ step < Len(Commands(call))
        /\ step' = step + 1 /\ pc' = [pc EXCEPT ![Front] = "send"]
        /\ UNCHANGED <<told, sure, maybe>>
     \/ /\ Stops(call) \/ step = Len(Commands(call))
        /\ pc' = [pc EXCEPT ![Front] = "idle"]
        /\ Note(call, Result(call), trusted') /\ Count(call, Result(call))
        /\ UNCHANGED step
  /\ UNCHANGED <<camera, kind, kill, code, call, x, calls, mine, held>>

-----------------------------------------------------------------------------
(* ptp_send and ptp_send_data, by any thread.                              *)

Poll(t) ==
  /\ t # Front /\ pc[t] = "idle"
  /\ pc' = [pc EXCEPT ![t] = "send"]
  /\ UNCHANGED <<camera, kind, kill, code, locals, history>>

Send(t) ==
  /\ pc[t] = "send" /\ ~kill /\ \A u \in Threads : pc[u] # "wire"
  /\ pc' = [pc EXCEPT ![t] = "wire"]
  /\ code' = "command" /\ mine' = (t = Front)
  /\ UNCHANGED <<camera, kind, kill, locals, trusted, held, told, sure, maybe>>

Return(t, rc) ==
  \/ t = Front /\ x' = rc /\ pc' = [pc EXCEPT ![t] = "test"]
  \/ t # Front /\ UNCHANGED x /\ pc' = [pc EXCEPT ![t] = "idle"]

SendKilled(t) ==
  /\ pc[t] = "send" /\ kill
  /\ Return(t, "PTP_IO_ERR")
  /\ UNCHANGED <<camera, kind, kill, code, call, step, calls, history>>

\* The camera: a button that is down stays down when it is pressed again.
Execute(c) ==
  /\ buttons' = CASE c.type = "press"   -> buttons \cup {c.value}
                  [] c.type = "release" -> buttons \ {c.value}
                  [] OTHER              -> buttons
  /\ shots' = IF c = On(2) /\ 2 \notin buttons THEN shots + 1 ELSE shots
  /\ settings' = IF c.type = "set" THEN [settings EXCEPT ![c.on] = c.value]
                                   ELSE settings

Executes(t) ==
  \/ t = Front /\ Execute(Commands(call)[step])
  \/ t # Front /\ UNCHANGED camera

\* The command, or its second try, is executed and answered.
AnswerOk(t) ==
  /\ pc[t] = "wire" /\ code' = "ok"
  /\ Executes(t) /\ Return(t, "PTP_OK")
  /\ UNCHANGED <<kind, kill, call, step, calls, history>>

\* It is refused; the first try may have been executed without an answer.
Refuse(t) ==
  /\ pc[t] = "wire" /\ code' = "refused"
  /\ Executes(t) \/ UNCHANGED camera
  /\ Return(t, "PTP_CHECK_CODE")
  /\ UNCHANGED <<kind, kill, call, step, calls, history>>

\* The pipe fails; the mutex is free before the switch is set.
Fail(t) ==
  /\ pc[t] = "wire" /\ pc' = [pc EXCEPT ![t] = "latch"]
  /\ Executes(t) \/ UNCHANGED camera
  /\ UNCHANGED <<kind, kill, code, locals, history>>

\* Latch follows a failure; after a second try the mutex is still held.
Latch(t) ==
  /\ pc[t] = "latch" \/ pc[t] = "wire"
  /\ (pc[t] = "wire" /\ Executes(t)) \/ UNCHANGED camera
  /\ kill' = TRUE /\ Return(t, "PTP_IO_ERR")
  /\ UNCHANGED <<kind, code, call, step, calls, history>>

Exchange(t) == Poll(t) \/ Send(t) \/ SendKilled(t) \/ AnswerOk(t) \/ Refuse(t)
               \/ Fail(t) \/ Latch(t)

Next == (\E c \in Calls : Begin(c)) \/ Test \/ \E t \in Threads : Exchange(t)

Spec == Init /\ [][Next]_vars

-----------------------------------------------------------------------------
(* Properties.                                                             *)

\* A caller that is told a picture was taken or a bulb exposure ended finds the
\* shutter released, whatever was refused or repeated before.  For bulb
\* this is up to the return code still being that of its own command.
Over == {"take_picture", "bulb_stop"}
ReleasedWhenTold ==
  LET l == told["shutter"]
  IN  l.call.name \in Over /\ l.result = "PTP_OK" /\ l.trusted => buttons = {}

\* The exposures a front end knows of did happen, and no refusal, failure
\* or second try makes one that no call of its stands for.
Between(low, n, high) == low <= n /\ n <= high
ShotsTold ==
  LET running == told["shutter"].result = Running /\ Exposes(call) /\ ~held
  IN  Between(sure, shots, sure + maybe + (IF running THEN 1 ELSE 0))

\* Live view that was set up shows on the computer, and taking it down gives
\* the pictures back to the card.
LiveviewTold ==
  LET l == told["view"]
      is(p, v) == settings[p] = v
  IN  l.result = "PTP_OK" =>
        CASE l.call.name = "init_liveview" /\ kind \in {"EOS", "ML_BMP"} ->
               is("VF_Output", 3) /\ is("CaptureDestination", 4)
          [] l.call.name = "deinit_liveview" /\ kind = "EOS" ->
               is("CaptureDestination", 2)
          [] OTHER -> TRUE

-----------------------------------------------------------------------------
(* Not so.                                                                 *)

\* bind_bulb_stop says there is no error: the shutter is released.  Not so
\* when another thread's answer is in r->data at the test.
BulbStopTold ==
  LET l == told["shutter"]
  IN  l.call.name = "bulb_stop" /\ l.result = "PTP_OK" => buttons = {}

\* cl_ops.h: with ptp_take_picture "a picture will be taken".  Not so when an
\* earlier call left the shutter down.
PictureTaken ==
  [][told["shutter"].result = Running /\ told'["shutter"].result = "PTP_OK"
       /\ call.name = "take_picture" => ~held]_vars

\* Live view is taken down as it was set up.  Not so with ML BMP.
LiveviewTakenDown ==
  LET l == told["view"]
  IN  l.call.name = "deinit_liveview" /\ l.result = "PTP_OK"
        => settings["CaptureDestination"] = 2

\* White balance is set when the caller is told so.  Not so when the first
\* of the two commands is refused.
WhiteBalanceTold ==
  LET l == told["white"]
  IN  l.call.name = "white_balance" /\ l.result = "PTP_OK" =>
        settings["WhiteBalance"] = l.call.value /\ settings["EVFWBMode"] = l.call.value
=============================================================================
