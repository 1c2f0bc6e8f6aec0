-------------------------- MODULE EosRemoteProofs --------------------------
(* What the front end of an EOS camera tells its caller: proofs about      *)
(* EosRemote, for any threads that poll and any number of calls.           *)
EXTENDS EosRemote, SequenceTheorems, TLAPS

\* What a command leaves behind in the camera.
InEffect(c) ==
  /\ c.type = "release" => c.value \notin buttons
  /\ c.type = "set" => settings[c.on] = c.value

Busy == pc[Front] # "idle"

\* One exchange is on the wire; r->data is that command's, and its owner's.
Wires ==
  \A t \in Threads : pc[t] = "wire" =>
    /\ code = "command" /\ (mine <=> t = Front)
    /\ \A u \in Threads : pc[u] = "wire" => u = t

\* An "ok" of the front end's own which is not what its command returned is
\* from the command before, and the switch stopped this one.
Own == pc[Front] = "test" /\ mine /\ code = "ok" /\ x # "PTP_OK" => kill

\* A call is running while, and only while, the front end is busy with it.
\* Where the result of ptp_send is tested no other thread's answer matters.
Calling ==
  /\ Busy => /\ call \in Calls /\ step \in 1..Len(Commands(call))
             /\ told[Group(call)].result = Running
             /\ call.name \notin ByCode => trusted
  /\ \A g \in Groups : told[g].result = Running => Busy /\ Group(call) = g
  /\ \A g \in Groups : told[g].call.name \notin ByCode => told[g].trusted
  /\ \A g \in Groups : told[g].call \in Calls => Group(told[g].call) = g

\* The switch stops this command and all that follow: the result is no PTP_OK.
Stopped == kill /\ (pc[Front] = "send" \/ (pc[Front] = "test" /\ x # "PTP_OK"))

\* The commands before this one are in effect, or the call will fail; and this
\* one when it has returned PTP_OK.
Acknowledged ==
  Busy /\ call.name \notin Untested /\ trusted =>
    /\ Stopped \/ \A j \in 1..step - 1 : InEffect(Commands(call)[j])
    /\ pc[Front] = "test" /\ x = "PTP_OK" => InEffect(Commands(call)[step])

\* After a call that has returned PTP_OK all its commands stay in effect until
\* the next call of its group.
Told ==
  \A g \in Groups :
    told[g].call \in Calls /\ told[g].call.name \notin Untested
      /\ told[g].result = "PTP_OK" /\ told[g].trusted =>
        \A j \in 1..Len(Commands(told[g].call)) : InEffect(Commands(told[g].call)[j])

\* The command of a call that begins an exposure.
Fire(c) == IF c.name = "take_picture" THEN 1 ELSE 2

New == Busy /\ Exposes(call) /\ ~held
Before == step < Fire(call) \/ (step = Fire(call) /\ pc[Front] \in {"send", "wire"})
After == step > Fire(call) \/ (step = Fire(call) /\ pc[Front] = "test" /\ x = "PTP_OK")

\* An exposure counts from its command on, for the front end from its end on.
Counted ==
  /\ sure <= shots
  /\ shots <= sure + maybe + (IF New /\ ~Before THEN 1 ELSE 0)
  /\ New /\ Before => 2 \notin buttons
  /\ New /\ After => sure < shots
  /\ Busy /\ Exposes(call) /\ held /\ step <= Fire(call) => 2 \in buttons

\* Every exposure belongs to a call.
Bounded == sure + maybe + (IF New THEN 1 ELSE 0) <= calls

RInv == /\ TypeOK /\ Wires /\ Own /\ Calling
        /\ Acknowledged /\ Told /\ Counted /\ Bounded

-----------------------------------------------------------------------------
(* The sequences of commands.                                              *)

Props == {"VF_Output", "CaptureDestination", "WhiteBalance", "EVFWBMode"}

\* What the sequence s of call c has in common with all others: a group has its
\* own buttons and properties, no command undoes one before it, and there is one
\* full press in a call that exposes, with nothing but a half press before it, and
\* nothing after it in a bulb exposure.
Orderly(c, s) ==
  /\ Len(s) \in 0..3 /\ (s = <<>> <=> Len(s) = 0)
  /\ Exposes(c) => Fire(c) \in 1..Len(s)
  /\ c.name = "bulb_start" => Fire(c) = Len(s)
  /\ \A j \in 1..Len(s) :
       /\ s[j].type \in {"press", "release"} => Group(c) = "shutter"
       /\ s[j].type = "press" => s[j] = On(s[j].value) /\ s[j].value \in {1, 2}
       /\ s[j].type = "set" =>
            /\ s[j].on \in Props /\ s[j].value \in Nat
            /\ Group(c) = IF s[j].on \in {"VF_Output", "CaptureDestination"}
                            THEN "view" ELSE "white"
       /\ s[j] = On(2) <=> Exposes(c) /\ j = Fire(c)
       /\ Exposes(c) /\ j < Fire(c) => s[j] = On(1)
       /\ \A i \in 1..j - 1 :
            /\ s[j].type = "press" => s[i].type # "release"
            /\ s[j].type = "set" /\ s[i].type = "set" => s[i].on # s[j].on

LEMMA CallNames ==
  ASSUME NEW c \in Calls
  PROVE  /\ c.name \in {"pre_take_picture", "take_picture", "bulb_start", "bulb_stop",
                        "cancel_af", "init_liveview", "deinit_liveview", "mirror_up",
                        "mirror_down", "white_balance"}
         /\ c.name = "white_balance" => c.value \in Nat
         /\ Group(c) \in Groups
         /\ Exposes(c) => Group(c) = "shutter"
  BY ModesAssumption DEF Calls, Call, Group, Groups, Exposes

LEMMA OneAndTwo ==
  ASSUME NEW D, NEW s \in Seq(D), Len(s) = 1, NEW t \in Seq(D), Len(t) = 2
  PROVE  /\ Len(s \o t) = 3
         /\ (s \o t)[1] = s[1] /\ (s \o t)[2] = t[1] /\ (s \o t)[3] = t[2]
<1>1. /\ Len(s \o t) = Len(s) + Len(t)
      /\ \A i \in 1..Len(s) + Len(t) :
           (s \o t)[i] = IF i <= Len(s) THEN s[i] ELSE t[i - Len(s)]
  BY ConcatProperties
<1>2. /\ (s \o t)[1] = s[1] /\ (s \o t)[2] = t[2 - 1] /\ (s \o t)[3] = t[3 - 1]
  BY <1>1
<1> QED
  BY <1>1, <1>2

LEMMA CommandsOrderly ==
  ASSUME NEW c \in Calls, kind \in Kinds
  PROVE  Orderly(c, Commands(c))
<1> USE DEF On, Off, Set, Other, Command, Group, Exposes, Fire, Props
<1>0. kind \in {"EOS", "ML_BMP", "ML", "NONE"}
  BY KindsAssumption
<1>1. CASE c.name = "pre_take_picture"
  <2>1. Commands(c) = <<On(1)>>
    BY <1>1 DEF Commands
  <2> QED
    BY <1>1, <2>1 DEF Orderly
<1>2. CASE c.name = "take_picture"
  <2>1. Commands(c) = <<On(2), Off(2), Off(1)>>
    BY <1>2 DEF Commands, Picture
  <2> QED
    BY <1>2, <2>1 DEF Orderly
<1>3. CASE c.name = "bulb_start"
  <2>1. Commands(c) = <<On(1), On(2)>>
    BY <1>3 DEF Commands
  <2> QED
    BY <1>3, <2>1 DEF Orderly
<1>4. CASE c.name = "bulb_stop"
  <2>1. Commands(c) = <<Off(2), Off(1)>>
    BY <1>4 DEF Commands
  <2> QED
    BY <1>4, <2>1 DEF Orderly
<1>5. CASE c.name = "cancel_af"
  <2>1. Commands(c) = <<Other("AfCancel")>>
    BY <1>5 DEF Commands
  <2> QED
    BY <1>5, <2>1 DEF Orderly
<1>6. CASE c.name = "init_liveview"
  <2>1. Commands(c) = InitLiveview
    BY <1>6 DEF Commands
  <2>2. CASE kind = "EOS"
    <3>1. Commands(c) = <<Set("VF_Output", 3), Set("CaptureDestination", 4)>>
      BY <2>1, <2>2 DEF InitLiveview, Viewfinder
    <3> QED
      BY <1>6, <3>1 DEF Orderly
  <2>3. CASE kind = "ML_BMP"
    <3> DEFINE a == <<Other("LiveBmpRam")>>
    <3>1. Commands(c) = a \o Viewfinder
      BY <2>1, <2>3 DEF InitLiveview
    <3>2. /\ a \in Seq({a[1]}) /\ Len(a) = 1 /\ a[1] = Other("LiveBmpRam")
      OBVIOUS
    <3>3. /\ Viewfinder \in Seq({Viewfinder[1], Viewfinder[2]}) /\ Len(Viewfinder) = 2
          /\ Viewfinder[1] = Set("VF_Output", 3) /\ Viewfinder[2] = Set("CaptureDestination", 4)
      BY DEF Viewfinder
    <3> DEFINE D == {a[1], Viewfinder[1], Viewfinder[2]}
    <3>4. a \in Seq(D) /\ Viewfinder \in Seq(D)
      BY <3>2, <3>3
    <3> HIDE DEF a
    <3>5. /\ Len(Commands(c)) = 3
          /\ Commands(c)[1] = Other("LiveBmpRam")
          /\ Commands(c)[2] = Set("VF_Output", 3)
          /\ Commands(c)[3] = Set("CaptureDestination", 4)
      BY <3>1, <3>2, <3>3, <3>4, OneAndTwo
    <3> QED
      BY <1>6, <3>5 DEF Orderly
  <2>4. CASE kind \notin {"EOS", "ML_BMP"}
    <3>1. Commands(c) = <<>>
      BY <2>1, <2>4, <1>0 DEF InitLiveview
    <3> QED
      BY <1>6, <3>1 DEF Orderly
  <2> QED
    BY <2>2, <2>3, <2>4
<1>7. CASE c.name = "deinit_liveview"
  <2>1. Commands(c) = DeinitLiveview
    BY <1>7 DEF Commands
  <2>2. CASE kind = "EOS"
    <3>1. Commands(c) = <<Set("CaptureDestination", 2), Other("PCHDDCapacity")>>
      BY <2>1, <2>2 DEF DeinitLiveview
    <3> QED
      BY <1>7, <3>1 DEF Orderly
  <2>3. CASE kind # "EOS"
    <3>1. Commands(c) = <<>>
      BY <2>1, <2>3 DEF DeinitLiveview
    <3> QED
      BY <1>7, <3>1 DEF Orderly
  <2> QED
    BY <2>2, <2>3
<1>8. CASE c.name = "mirror_up"
  <2>1. Commands(c) = <<Set("VF_Output", 3)>>
    BY <1>8 DEF Commands
  <2> QED
    BY <1>8, <2>1 DEF Orderly
<1>9. CASE c.name = "mirror_down"
  <2>1. Commands(c) = <<Set("VF_Output", 0)>>
    BY <1>9 DEF Commands
  <2> QED
    BY <1>9, <2>1 DEF Orderly
<1>10. CASE c.name = "white_balance"
  <2>1. Commands(c) = <<Set("WhiteBalance", c.value), Set("EVFWBMode", c.value)>>
    BY <1>10 DEF Commands
  <2>2. c.value \in Nat
    BY <1>10, CallNames
  <2> QED
    BY <1>10, <2>1, <2>2 DEF Orderly
<1> QED
  BY CallNames, <1>1, <1>2, <1>3, <1>4, <1>5, <1>6, <1>7, <1>8, <1>9, <1>10

-----------------------------------------------------------------------------
(* What a step does not touch.                                             *)

LEMMA SameCommands ==
  ASSUME UNCHANGED kind PROVE \A c : Commands(c)' = Commands(c)
  BY DEF Commands, InitLiveview, DeinitLiveview

LEMMA SameCall ==
  ASSUME NEW c, UNCHANGED kind, call' = c PROVE Commands(call)' = Commands(c)
  BY DEF Commands, InitLiveview, DeinitLiveview

LEMMA SameTold ==
  ASSUME NEW g, NEW c, UNCHANGED kind, told'[g].call = c
  PROVE  Commands(told[g].call)' = Commands(c)
  BY DEF Commands, InitLiveview, DeinitLiveview

\* A command leaves its own effect, and takes none from a command before it or
\* from one of another group.
LEMMA OneUndoesNone ==
  ASSUME NEW c \in Calls, NEW k \in 1..Len(Commands(c)),
         kind \in Kinds, settings \in [Props -> Nat],
         Execute(Commands(c)[k]), UNCHANGED kind
  PROVE  /\ InEffect(Commands(c)[k])'
         /\ \A j \in 1..k - 1 : InEffect(Commands(c)[j]) => InEffect(Commands(c)[j])'
         /\ \A d \in Calls : Group(d) # Group(c) =>
              \A j \in 1..Len(Commands(d)) :
                InEffect(Commands(d)[j]) => InEffect(Commands(d)[j])'
<1> DEFINE m == Commands(c)[k]
<1>1. Orderly(c, Commands(c)) /\ \A d \in Calls : Orderly(d, Commands(d))
  BY CommandsOrderly
<1>2. \A d : Commands(d)' = Commands(d)
  BY SameCommands
<1>3. /\ m.type = "press" => m.value \in {1, 2}
      /\ m.type = "set" => m.on \in Props /\ m.value \in Nat
  BY <1>1 DEF Orderly
<1>4. /\ m.type = "release" => buttons' = buttons \ {m.value} /\ settings' = settings
      /\ m.type = "press" => buttons' = buttons \cup {m.value} /\ settings' = settings
      /\ m.type = "set" => buttons' = buttons /\ settings' = [settings EXCEPT ![m.on] = m.value]
      /\ m.type \notin {"press", "release", "set"} => buttons' = buttons /\ settings' = settings
  BY DEF Execute
<1>5. /\ m.type = "release" => m.value \notin buttons'
      /\ m.type = "set" => settings'[m.on] = m.value
  BY <1>3, <1>4
<1>6. ASSUME NEW n, n.type = "set" => n.on \in Props,
             m.type = "press" => n.type # "release",
             m.type = "set" /\ n.type = "set" => n.on # m.on
      PROVE  /\ n.type = "release" /\ n.value \notin buttons => n.value \notin buttons'
             /\ n.type = "set" => settings'[n.on] = settings[n.on]
  BY <1>3, <1>4, <1>6
<1>7. ASSUME NEW j \in 1..k - 1, InEffect(Commands(c)[j])
      PROVE  InEffect(Commands(c)[j])'
  <2>1. /\ Commands(c)[j].type = "set" => Commands(c)[j].on \in Props
        /\ m.type = "press" => Commands(c)[j].type # "release"
        /\ m.type = "set" /\ Commands(c)[j].type = "set" => Commands(c)[j].on # m.on
    BY <1>1 DEF Orderly
  <2> QED
    BY <1>2, <1>6, <1>7, <2>1 DEF InEffect
<1>8. ASSUME NEW d \in Calls, Group(d) # Group(c), NEW j \in 1..Len(Commands(d)),
             InEffect(Commands(d)[j])
      PROVE  InEffect(Commands(d)[j])'
  <2> DEFINE n == Commands(d)[j]
  <2>1. /\ n.type \in {"press", "release"} => Group(d) = "shutter"
        /\ n.type = "set" => n.on \in Props
        /\ n.type = "set" => Group(d) = IF n.on \in {"VF_Output", "CaptureDestination"}
                                          THEN "view" ELSE "white"
    BY <1>1 DEF Orderly
  <2>2. /\ m.type \in {"press", "release"} => Group(c) = "shutter"
        /\ m.type = "set" => Group(c) = IF m.on \in {"VF_Output", "CaptureDestination"}
                                          THEN "view" ELSE "white"
    BY <1>1 DEF Orderly
  <2>3. /\ m.type = "press" => n.type # "release"
        /\ m.type = "set" /\ n.type = "set" => n.on # m.on
    BY <1>8, <2>1, <2>2
  <2> QED
    BY <1>2, <1>6, <1>8, <2>1, <2>3 DEF InEffect
<1> QED
  BY <1>2, <1>5, <1>7, <1>8 DEF InEffect

\* Only the command that exposes begins an exposure; up to it the shutter is
\* pressed and never released.
LEMMA OneExposes ==
  ASSUME NEW c \in Calls, NEW k \in 1..Len(Commands(c)),
         kind \in Kinds, buttons \subseteq {1, 2}, settings \in [Props -> Nat], shots \in Nat,
         Execute(Commands(c)[k])
  PROVE  /\ buttons' \subseteq {1, 2} /\ settings' \in [Props -> Nat]
         /\ shots' = IF Exposes(c) /\ k = Fire(c) /\ 2 \notin buttons
                       THEN shots + 1 ELSE shots
         /\ Exposes(c) /\ k < Fire(c) => (2 \in buttons' <=> 2 \in buttons)
         /\ Exposes(c) /\ k = Fire(c) => 2 \in buttons'
<1> DEFINE m == Commands(c)[k]
<1>1. Orderly(c, Commands(c))
  BY CommandsOrderly
<1>2. /\ m.type = "press" => m.value \in {1, 2}
      /\ m.type = "set" => m.on \in Props /\ m.value \in Nat
      /\ m = On(2) <=> Exposes(c) /\ k = Fire(c)
      /\ Exposes(c) /\ k < Fire(c) => m = On(1)
  BY <1>1 DEF Orderly
<1>3. /\ On(1).type = "press" /\ On(1).value = 1
      /\ On(2).type = "press" /\ On(2).value = 2
  BY DEF On, Command
<1>4. buttons' \subseteq {1, 2}
  BY <1>2 DEF Execute
<1>5. settings' \in [Props -> Nat]
  BY <1>2 DEF Execute
<1>6. shots' = IF m = On(2) /\ 2 \notin buttons THEN shots + 1 ELSE shots
  BY DEF Execute
<1>7. m.type = "press" => buttons' = buttons \cup {m.value}
  BY DEF Execute
<1> QED
  BY <1>2, <1>3, <1>4, <1>5, <1>6, <1>7

-----------------------------------------------------------------------------
(* The steps of other threads and of the front end's own exchanges.        *)

LEMMA OthersKeep ==
  ASSUME RInv, pc'[Front] = pc[Front], kill => kill',
         UNCHANGED <<camera, kind, locals, trusted, held, told, sure, maybe>>
  PROVE  (Calling /\ Acknowledged /\ Told /\ Counted /\ Bounded)'
<1> USE DEF camera, locals
<1>1. \A c : Commands(c)' = Commands(c)
  BY SameCommands
<1>2. Commands(call)' = Commands(call)
  BY SameCall
<1>3. \A g \in Groups : Commands(told[g].call)' = Commands(told[g].call)
  BY SameTold
<1>4. Busy' = Busy
  BY DEF Busy
<1>5. Calling'
  BY <1>2, <1>4 DEF RInv, Calling
<1>6. Acknowledged'
  BY <1>2, <1>4 DEF RInv, Acknowledged, InEffect, Stopped
<1>7. Told'
  BY <1>3 DEF RInv, Told, InEffect
<1>8. Counted' /\ Bounded'
  BY <1>4 DEF RInv, Counted, Bounded, New, Before, After
<1> QED
  BY <1>5, <1>6, <1>7, <1>8

\* The front end on its way from a command's guard to its return code: the
\* command is executed once at most, and is when the code is PTP_OK.
LEMMA FrontGoes ==
  ASSUME RInv, Busy, pc[Front] # "test", pc'[Front] \in {"wire", "latch", "test"},
         \/ pc[Front] = "wire" /\ pc'[Front] # "wire" /\ Execute(Commands(call)[step])
         \/ UNCHANGED camera /\ ~(pc'[Front] = "test" /\ x' = "PTP_OK"),
         pc'[Front] = "wire" => pc[Front] = "send",
         pc[Front] = "send" => UNCHANGED camera,
         pc[Front] = "send" /\ kill => pc'[Front] = "test" /\ x' # "PTP_OK",
         kill => kill',
         UNCHANGED <<kind, call, step, calls, trusted, held, told, sure, maybe>>
  PROVE  (Calling /\ Acknowledged /\ Told /\ Counted /\ Bounded)'
<1> DEFINE runs == Execute(Commands(call)[step])
<1>1. /\ call \in Calls /\ step \in 1..Len(Commands(call)) /\ Len(Commands(call)) \in 0..3
      /\ Fire(call) \in Nat
      /\ told[Group(call)].result = Running
  BY CommandsOrderly DEF RInv, TypeOK, Calling, Orderly, Fire
<1>2. kind \in Kinds /\ buttons \subseteq {1, 2} /\ settings \in [Props -> Nat] /\ shots \in Nat
  BY DEF RInv, TypeOK, Props
<1>3. Commands(call)' = Commands(call)
  BY SameCall
<1>4. \A g \in Groups : Commands(told[g].call)' = Commands(told[g].call)
  BY SameTold
<1>5. Busy'
  BY DEF Busy
<1>6. Calling'
  BY <1>3, <1>5 DEF RInv, Calling
<1>7. /\ runs => InEffect(Commands(call)[step])'
      /\ \A j \in 1..step - 1 : InEffect(Commands(call)[j]) => InEffect(Commands(call)[j])'
  <2>1. CASE runs
    BY <1>1, <1>2, <1>3, <2>1, OneUndoesNone DEF InEffect
  <2>2. CASE UNCHANGED camera /\ ~runs
    BY <1>3, <2>2 DEF InEffect, camera
  <2> QED
    BY <2>1, <2>2
<1>8. Acknowledged'
  BY <1>3, <1>5, <1>7 DEF RInv, Acknowledged, Stopped
<1>9. Told'
  <2> SUFFICES ASSUME NEW g \in Groups,
                      told[g].call \in Calls, told[g].call.name \notin Untested,
                      told[g].result = "PTP_OK", told[g].trusted,
                      NEW j \in 1..Len(Commands(told[g].call))
               PROVE  InEffect(Commands(told[g].call)[j])'
    BY <1>4 DEF Told
  <2>1. InEffect(Commands(told[g].call)[j])
    BY DEF RInv, Told
  <2>2. Group(told[g].call) # Group(call)
    <3>1. \A h \in Groups : told[h].call \in Calls => Group(told[h].call) = h
      BY DEF RInv, Calling
    <3>2. Group(told[g].call) = g
      BY <3>1
    <3> QED
      BY <1>1, <3>2 DEF Running
  <2>3. CASE runs
    BY <1>1, <1>2, <1>4, <2>1, <2>2, <2>3, OneUndoesNone, SameCommands DEF InEffect
  <2>4. CASE UNCHANGED camera
    BY <1>4, <2>1, <2>4 DEF InEffect, camera
  <2> QED
    BY <2>3, <2>4
<1>10. runs =>
         /\ shots' = IF Exposes(call) /\ step = Fire(call) /\ 2 \notin buttons
                       THEN shots + 1 ELSE shots
         /\ Exposes(call) /\ step < Fire(call) => (2 \in buttons' <=> 2 \in buttons)
         /\ Exposes(call) /\ step = Fire(call) => 2 \in buttons'
  BY <1>1, <1>2, OneExposes
<1>11. UNCHANGED camera => buttons' = buttons /\ shots' = shots
  BY DEF camera
<1>12. sure \in Nat /\ maybe \in Nat
  BY DEF RInv, TypeOK
<1>13. Counted'
  <2> HIDE DEF runs
  <2>1. Counted /\ step \in Nat /\ (New' <=> New)
    BY <1>1, <1>5 DEF RInv, New, Busy
  <2>2. CASE pc[Front] = "wire" /\ pc'[Front] # "wire" /\ runs
    <3>1. /\ step <= Fire(call) => Before
          /\ step > Fire(call) => After /\ ~Before /\ After' /\ ~Before'
          /\ step < Fire(call) => Before' /\ ~After'
          /\ step = Fire(call) => ~Before'
      BY <1>1, <2>1, <2>2 DEF Before, After
    <3>2. CASE step < Fire(call)
      BY <1>1, <1>2, <1>5, <1>10, <1>12, <2>1, <2>2, <3>1, <3>2 DEF Counted, New, Busy
    <3>3. CASE step = Fire(call)
      BY <1>1, <1>2, <1>5, <1>10, <1>12, <2>1, <2>2, <3>1, <3>3 DEF Counted, New, Busy
    <3>4. CASE step > Fire(call)
      BY <1>1, <1>2, <1>5, <1>10, <1>12, <2>1, <2>2, <3>1, <3>4 DEF Counted, New, Busy
    <3> QED
      BY <1>1, <2>1, <3>2, <3>3, <3>4
  <2>3. CASE UNCHANGED camera /\ ~(pc'[Front] = "test" /\ x' = "PTP_OK")
    <3>1. (After' => After) /\ (Before' => Before)
      BY <1>1, <2>1, <2>3 DEF Before, After
    <3> QED
      BY <1>1, <1>2, <1>5, <1>11, <1>12, <2>1, <2>3, <3>1 DEF Counted, New, Busy
  <2> QED
    BY <2>2, <2>3 DEF runs
<1>14. Bounded'
  BY <1>5 DEF RInv, Bounded, New
<1> QED
  BY <1>6, <1>8, <1>9, <1>13, <1>14

\* The bounds of TypeOK on what is counted.
LEMMA CountsBounded ==
  ASSUME Counted', Bounded', shots' \in Nat, sure' \in Nat, maybe' \in Nat,
         calls' \in 0..MaxCalls
  PROVE  shots' \in 0..MaxCalls /\ sure' \in 0..MaxCalls /\ maybe' \in 0..MaxCalls
<1> DEFINE new == IF New' THEN 1 ELSE 0
           begun == IF New' /\ ~Before' THEN 1 ELSE 0
<1>1. new \in Nat /\ begun \in Nat /\ begun <= new
  <2>1. CASE New'
    <3>1. new = 1 /\ begun \in {0, 1}
      BY <2>1, Zenon
    <3> QED
      BY <3>1
  <2>2. CASE ~New'
    <3>1. new = 0 /\ begun = 0
      BY <2>2, Zenon
    <3> QED
      BY <3>1
  <2> QED
    BY <2>1, <2>2, Zenon
<1>2. /\ sure' <= shots'
      /\ shots' <= sure' + maybe' + begun
      /\ sure' + maybe' + new <= calls'
  BY DEF Counted, Bounded
<1>3. ASSUME NEW a \in Nat, NEW b \in Nat, NEW s \in Nat, NEW m \in Nat, NEW h \in Nat,
             b <= a, s <= h, h <= s + m + b, NEW n \in 0..MaxCalls, s + m + a <= n
      PROVE  h \in 0..MaxCalls /\ s \in 0..MaxCalls /\ m \in 0..MaxCalls
  BY <1>3, BoundAssumption
<1> HIDE DEF new, begun
<1> QED
  BY <1>1, <1>2, <1>3

\* The camera's side of an exchange.
LEMMA CameraTyped ==
  ASSUME RInv, NEW t \in Threads, pc[t] = "wire", Executes(t) \/ UNCHANGED camera
  PROVE  buttons' \subseteq {1, 2} /\ settings' \in [Props -> Nat] /\ shots' \in Nat
<1>1. buttons \subseteq {1, 2} /\ settings \in [Props -> Nat] /\ shots \in Nat /\ kind \in Kinds
  BY DEF RInv, TypeOK, Props
<1>2. CASE UNCHANGED camera
  BY <1>1, <1>2 DEF camera
<1>3. CASE t = Front /\ Execute(Commands(call)[step])
  <2>1. call \in Calls /\ step \in 1..Len(Commands(call))
    BY <1>3 DEF RInv, Calling, Busy
  <2>2. shots' \in {shots, shots + 1}
    BY <1>1, <1>3, <2>1, OneExposes
  <2> QED
    BY <1>1, <1>3, <2>1, <2>2, OneExposes
<1> QED
  BY <1>2, <1>3 DEF Executes

\* Everything of TypeOK an exchange may disturb.
LEMMA ExchangeTyped ==
  ASSUME RInv, Counted', Bounded',
         buttons' \subseteq {1, 2}, settings' \in [Props -> Nat], shots' \in Nat,
         UNCHANGED <<kind, call, step, calls, trusted, held, told, sure, maybe>>,
         kill' \in BOOLEAN, mine' \in BOOLEAN, code' \in Codes, x' \in Results,
         NEW t \in Threads, NEW p \in {"idle", "send", "wire", "latch", "test"},
         pc' = [pc EXCEPT ![t] = p], t # Front => p # "test"
  PROVE  TypeOK'
<1>1. pc' \in [Threads -> {"idle", "send", "wire", "latch", "test"}]
      /\ \A u \in Pollers : pc'[u] # "test"
  BY PollersAssumption DEF RInv, TypeOK, Threads
<1>2. sure' \in Nat /\ maybe' \in Nat /\ calls' \in 0..MaxCalls
  BY DEF RInv, TypeOK
<1>3. shots' \in 0..MaxCalls /\ sure' \in 0..MaxCalls /\ maybe' \in 0..MaxCalls
  BY <1>2, CountsBounded
<1>4. /\ trusted' \in BOOLEAN /\ held' \in BOOLEAN
      /\ told' \in [Groups -> [call : Calls \cup {NoCall},
                               result : Results \cup {Running}, trusted : BOOLEAN]]
      /\ kind' \in Kinds
      /\ call' \in Calls \cup {NoCall} /\ step' \in 1..3
  BY DEF RInv, TypeOK
<1> QED
  BY <1>1, <1>2, <1>3, <1>4 DEF TypeOK, Props

LEMMA ReturnMoves ==
  ASSUME NEW t \in Threads, NEW rc \in Results, Return(t, rc), x \in Results
  PROVE  /\ x' \in Results
         /\ pc' = [pc EXCEPT ![t] = IF t = Front THEN "test" ELSE "idle"]
         /\ t = Front => x' = rc
         /\ t # Front => x' = x
  BY DEF Return

\* Wherever the wire is left it is free, and no "ok" is mistaken.
LEMMA LeavesWire ==
  ASSUME RInv, NEW t \in Threads, NEW p \in {"idle", "latch", "test"},
         pc' = [pc EXCEPT ![t] = p], mine' = mine, code' = code \/ pc[t] = "wire"
  PROVE  Wires'
<1>1. pc \in [Threads -> {"idle", "send", "wire", "latch", "test"}]
  BY DEF RInv, TypeOK
<1>2. \A u \in Threads : pc'[u] = "wire" => pc[u] = "wire" /\ u # t
  BY <1>1
<1>3. CASE pc[t] = "wire"
  BY <1>2, <1>3 DEF RInv, Wires
<1>4. CASE code' = code
  BY <1>2, <1>4 DEF RInv, Wires
<1> QED
  BY <1>3, <1>4

LEMMA ExchangeKeeps ==
  ASSUME RInv, NEW t \in Threads, Exchange(t)
  PROVE  RInv'
<1> USE DEF locals, history
<1>0. /\ pc \in [Threads -> {"idle", "send", "wire", "latch", "test"}]
      /\ Front \in Threads /\ x \in Results /\ kill \in BOOLEAN /\ mine \in BOOLEAN
      /\ code \in Codes
      /\ buttons \subseteq {1, 2} /\ settings \in [Props -> Nat] /\ shots \in Nat
  BY DEF RInv, TypeOK, Threads, Props
<1>1. CASE Poll(t)
  <2>1. /\ t # Front /\ pc' = [pc EXCEPT ![t] = "send"]
        /\ UNCHANGED <<camera, kind, kill, code, locals, history>>
    BY <1>1 DEF Poll
  <2>2. (Calling /\ Acknowledged /\ Told /\ Counted /\ Bounded)'
    BY <1>0, <2>1, OthersKeep
  <2>3. TypeOK'
    BY <1>0, <2>1, <2>2, ExchangeTyped DEF camera
  <2>4. Wires' /\ Own'
    BY <1>0, <2>1 DEF RInv, Wires, Own
  <2> QED
    BY <2>2, <2>3, <2>4 DEF RInv
<1>2. CASE Send(t)
  <2>1. /\ pc[t] = "send" /\ kill = FALSE /\ \A u \in Threads : pc[u] # "wire"
        /\ pc' = [pc EXCEPT ![t] = "wire"]
        /\ code' = "command"
        /\ UNCHANGED <<camera, kind, kill, locals, trusted, held, told, sure, maybe>>
    BY <1>0, <1>2 DEF Send
  <2>2. mine' = (t = Front) /\ mine' \in BOOLEAN
    BY <1>2 DEF Send
  <2>3. (Calling /\ Acknowledged /\ Told /\ Counted /\ Bounded)'
    <3>1. CASE t = Front
      BY <1>0, <2>1, <3>1, FrontGoes DEF Busy
    <3>2. CASE t # Front
      BY <1>0, <2>1, <3>2, OthersKeep
    <3> QED
      BY <3>1, <3>2
  <2>4. TypeOK'
    BY <1>0, <2>1, <2>2, <2>3, ExchangeTyped DEF camera, Codes
  <2>5. Wires' /\ Own'
    BY <1>0, <2>1, <2>2 DEF Wires, Own
  <2> QED
    BY <2>3, <2>4, <2>5 DEF RInv
<1>3. CASE SendKilled(t)
  <2>1. /\ pc[t] = "send" /\ kill /\ Return(t, "PTP_IO_ERR")
        /\ UNCHANGED <<camera, kind, kill, code, call, step, calls, history>>
    BY <1>3 DEF SendKilled
  <2>2. /\ x' \in Results
        /\ pc' = [pc EXCEPT ![t] = IF t = Front THEN "test" ELSE "idle"]
        /\ t = Front => x' = "PTP_IO_ERR"
        /\ t # Front => x' = x
    BY <1>0, <2>1, ReturnMoves DEF Results
  <2>3. (Calling /\ Acknowledged /\ Told /\ Counted /\ Bounded)'
    <3>1. CASE t = Front
      BY <1>0, <2>1, <2>2, <3>1, FrontGoes DEF Busy
    <3>2. CASE t # Front
      BY <1>0, <2>1, <2>2, <3>2, OthersKeep
    <3> QED
      BY <3>1, <3>2
  <2>4. TypeOK'
    BY <1>0, <2>1, <2>2, <2>3, ExchangeTyped DEF camera
  <2>5. Wires'
    BY <1>0, <2>1, <2>2, LeavesWire
  <2>6. Own'
    BY <1>0, <2>1, <2>2 DEF RInv, Own
  <2> QED
    BY <2>3, <2>4, <2>5, <2>6 DEF RInv
<1>4. CASE AnswerOk(t)
  <2>1. /\ pc[t] = "wire" /\ code' = "ok" /\ Executes(t) /\ Return(t, "PTP_OK")
        /\ UNCHANGED <<kind, kill, call, step, calls, history>>
    BY <1>4 DEF AnswerOk
  <2>2. /\ x' \in Results
        /\ pc' = [pc EXCEPT ![t] = IF t = Front THEN "test" ELSE "idle"]
        /\ t = Front => x' = "PTP_OK"
        /\ t # Front => x' = x
    BY <1>0, <2>1, ReturnMoves DEF Results
  <2>3. (Calling /\ Acknowledged /\ Told /\ Counted /\ Bounded)'
    <3>1. CASE t = Front
      BY <1>0, <2>1, <2>2, <3>1, FrontGoes DEF Busy, Executes
    <3>2. CASE t # Front
      BY <1>0, <2>1, <2>2, <3>2, OthersKeep DEF Executes
    <3> QED
      BY <3>1, <3>2
  <2>4. TypeOK'
    BY <1>0, <2>1, <2>2, <2>3, ExchangeTyped, CameraTyped DEF Codes
  <2>5. Wires'
    BY <1>0, <2>1, <2>2, LeavesWire
  <2>6. Own'
    BY <1>0, <2>1, <2>2 DEF RInv, Own, Wires
  <2> QED
    BY <2>3, <2>4, <2>5, <2>6 DEF RInv
<1>5. CASE Refuse(t)
  <2>1. /\ pc[t] = "wire" /\ code' = "refused" /\ (Executes(t) \/ UNCHANGED camera)
        /\ Return(t, "PTP_CHECK_CODE")
        /\ UNCHANGED <<kind, kill, call, step, calls, history>>
    BY <1>5 DEF Refuse
  <2>2. /\ x' \in Results
        /\ pc' = [pc EXCEPT ![t] = IF t = Front THEN "test" ELSE "idle"]
        /\ t = Front => x' = "PTP_CHECK_CODE"
        /\ t # Front => x' = x
    BY <1>0, <2>1, ReturnMoves DEF Results
  <2>3. (Calling /\ Acknowledged /\ Told /\ Counted /\ Bounded)'
    <3>1. CASE t = Front
      BY <1>0, <2>1, <2>2, <3>1, FrontGoes DEF Busy, Executes
    <3>2. CASE t # Front
      BY <1>0, <2>1, <2>2, <3>2, OthersKeep DEF Executes
    <3> QED
      BY <3>1, <3>2
  <2>4. TypeOK'
    BY <1>0, <2>1, <2>2, <2>3, ExchangeTyped, CameraTyped DEF Codes
  <2>5. Wires'
    BY <1>0, <2>1, <2>2, LeavesWire
  <2>6. Own'
    BY <2>1 DEF Own
  <2> QED
    BY <2>3, <2>4, <2>5, <2>6 DEF RInv
<1>6. CASE Fail(t)
  <2>1. /\ pc[t] = "wire" /\ pc' = [pc EXCEPT ![t] = "latch"]
        /\ (Executes(t) \/ UNCHANGED camera)
        /\ UNCHANGED <<kind, kill, code, locals, history>>
    BY <1>6 DEF Fail
  <2>2. (Calling /\ Acknowledged /\ Told /\ Counted /\ Bounded)'
    <3>1. CASE t = Front
      BY <1>0, <2>1, <3>1, FrontGoes DEF Busy, Executes
    <3>2. CASE t # Front
      BY <1>0, <2>1, <3>2, OthersKeep DEF Executes
    <3> QED
      BY <3>1, <3>2
  <2>3. TypeOK'
    BY <1>0, <2>1, <2>2, ExchangeTyped, CameraTyped
  <2>4. Wires'
    BY <1>0, <2>1, LeavesWire
  <2>5. Own'
    BY <1>0, <2>1 DEF RInv, Own
  <2> QED
    BY <2>2, <2>3, <2>4, <2>5 DEF RInv
<1>7. CASE Latch(t)
  <2>1. /\ pc[t] = "latch" \/ pc[t] = "wire"
        /\ (pc[t] = "wire" /\ Executes(t)) \/ UNCHANGED camera
        /\ kill' = TRUE /\ Return(t, "PTP_IO_ERR")
        /\ UNCHANGED <<kind, code, call, step, calls, history>>
    BY <1>7 DEF Latch
  <2>2. /\ x' \in Results
        /\ pc' = [pc EXCEPT ![t] = IF t = Front THEN "test" ELSE "idle"]
        /\ t = Front => x' = "PTP_IO_ERR"
        /\ t # Front => x' = x
    BY <1>0, <2>1, ReturnMoves DEF Results
  <2>3. (Calling /\ Acknowledged /\ Told /\ Counted /\ Bounded)'
    <3>1. CASE t = Front
      BY <1>0, <2>1, <2>2, <3>1, FrontGoes DEF Busy, Executes
    <3>2. CASE t # Front
      BY <1>0, <2>1, <2>2, <3>2, OthersKeep DEF Executes
    <3> QED
      BY <3>1, <3>2
  <2>4. buttons' \subseteq {1, 2} /\ settings' \in [Props -> Nat] /\ shots' \in Nat
    BY <1>0, <2>1, CameraTyped DEF camera
  <2>5. TypeOK'
    BY <1>0, <2>1, <2>2, <2>3, <2>4, ExchangeTyped
  <2>6. Wires'
    BY <1>0, <2>1, <2>2, LeavesWire
  <2>7. Own'
    BY <2>1 DEF Own
  <2> QED
    BY <2>3, <2>5, <2>6, <2>7 DEF RInv
<1> QED
  BY <1>1, <1>2, <1>3, <1>4, <1>5, <1>6, <1>7 DEF Exchange

-----------------------------------------------------------------------------
(* The front end's own steps.                                              *)

LEMMA InitRInv == Init => RInv
<1> SUFFICES ASSUME Init PROVE RInv
  OBVIOUS
<1> USE DEF Init
<1>1. pc \in [Threads -> {"idle", "send", "wire", "latch", "test"}]
      /\ \A t \in Threads : pc[t] = "idle"
  OBVIOUS
<1>2. Front \in Threads /\ Pollers \subseteq Threads /\ ~Busy
  BY <1>1 DEF Threads, Busy
<1>3. settings \in [Props -> Nat]
  BY ModesAssumption DEF Props
<1> DEFINE first == [call |-> NoCall, result |-> "PTP_OK", trusted |-> TRUE]
<1>4. first \in [call : Calls \cup {NoCall}, result : Results \cup {Running}, trusted : BOOLEAN]
  BY DEF Results
<1>5. told = [g \in Groups |-> first]
  OBVIOUS
<1>6. first.call = NoCall /\ first.result # Running /\ first.trusted
  BY DEF Running
<1> HIDE DEF first
<1>7. told \in [Groups -> [call : Calls \cup {NoCall},
                           result : Results \cup {Running}, trusted : BOOLEAN]]
      /\ \A g \in Groups : told[g] = first
  BY <1>4, <1>5
<1>8. NoCall \notin Calls
  BY DEF NoCall, Call, Calls
<1>9. TypeOK
  <2>1. kill \in BOOLEAN /\ mine \in BOOLEAN /\ trusted \in BOOLEAN /\ held \in BOOLEAN
    BY Zenon
  <2>2. /\ buttons \subseteq {1, 2} /\ shots \in 0..MaxCalls /\ calls \in 0..MaxCalls
        /\ sure \in 0..MaxCalls /\ maybe \in 0..MaxCalls /\ step \in 1..3
    BY BoundAssumption
  <2>3. kind \in Kinds /\ code \in Codes /\ call \in Calls \cup {NoCall} /\ x \in Results
    BY DEF Codes, Results
  <2>4. \A t \in Pollers : pc[t] # "test"
    BY <1>1, <1>2
  <2> HIDE DEF Init
  <2> QED
    BY <1>1, <1>3, <1>7, <2>1, <2>2, <2>3, <2>4 DEF TypeOK, Props
<1>10. Wires /\ Own
  BY <1>1, <1>2 DEF Wires, Own
<1>11. Calling
  BY <1>2, <1>6, <1>7, <1>8 DEF Calling
<1>12. Acknowledged
  BY <1>2 DEF Acknowledged
<1>13. Told
  BY <1>6, <1>7, <1>8 DEF Told
<1>14. Counted /\ Bounded
  BY <1>2 DEF Counted, Bounded, New
<1> QED
  BY <1>9, <1>10, <1>11, <1>12, <1>13, <1>14 DEF RInv

\* What Note leaves of the calls of other groups.
LEMMA NoteOne ==
  ASSUME NEW c \in Calls, NEW result \in Results \cup {Running}, NEW tr \in BOOLEAN,
         Note(c, result, tr), TypeOK
  PROVE  /\ told' \in [Groups -> [call : Calls \cup {NoCall},
                                  result : Results \cup {Running}, trusted : BOOLEAN]]
         /\ told'[Group(c)] = [call |-> c, result |-> result, trusted |-> tr]
         /\ \A g \in Groups \ {Group(c)} : told'[g] = told[g]
<1>1. Group(c) \in Groups
  BY CallNames
<1>2. told \in [Groups -> [call : Calls \cup {NoCall},
                           result : Results \cup {Running}, trusted : BOOLEAN]]
  BY DEF TypeOK
<1> DEFINE n == [call |-> c, result |-> result, trusted |-> tr]
<1>3. n \in [call : Calls \cup {NoCall}, result : Results \cup {Running}, trusted : BOOLEAN]
  OBVIOUS
<1>4. told' = [told EXCEPT ![Group(c)] = n]
  BY DEF Note
<1> HIDE DEF n
<1>5. /\ told' \in [Groups -> [call : Calls \cup {NoCall},
                               result : Results \cup {Running}, trusted : BOOLEAN]]
      /\ told'[Group(c)] = n
      /\ \A g \in Groups \ {Group(c)} : told'[g] = told[g]
  BY <1>1, <1>2, <1>3, <1>4
<1> QED
  BY <1>5 DEF n

\* The other groups' calls stay as they were told while the camera does.
LEMMA OtherGroups ==
  ASSUME RInv, NEW c \in Calls, NEW result \in Results \cup {Running}, NEW tr \in BOOLEAN,
         Note(c, result, tr), UNCHANGED <<camera, kind>>,
         result = "PTP_OK" /\ tr /\ c.name \notin Untested =>
           \A j \in 1..Len(Commands(c)) : InEffect(Commands(c)[j])
  PROVE  Told'
<1>1. /\ told'[Group(c)] = [call |-> c, result |-> result, trusted |-> tr]
      /\ \A g \in Groups \ {Group(c)} : told'[g] = told[g]
  BY NoteOne DEF RInv
<1>2. told'[Group(c)].call = c /\ told'[Group(c)].result = result
      /\ (told'[Group(c)].trusted <=> tr)
  BY <1>1
<1> SUFFICES ASSUME NEW g \in Groups,
                    told'[g].call \in Calls, told'[g].call.name \notin Untested,
                    told'[g].result = "PTP_OK", told'[g].trusted,
                    NEW j \in 1..Len(Commands(told[g].call)')
             PROVE  InEffect(Commands(told[g].call)[j])'
  BY DEF Told
<1>3. CASE g = Group(c)
  <2>1. Commands(told[g].call)' = Commands(c)
    BY <1>2, <1>3, SameTold
  <2>2. InEffect(Commands(c)[j])
    BY <1>2, <1>3, <2>1
  <2> QED
    BY <2>1, <2>2 DEF InEffect, camera
<1>4. CASE g # Group(c)
  <2>1. Commands(told[g].call)' = Commands(told[g].call)
    BY <1>1, <1>4, SameTold
  <2>2. told'[g] = told[g]
    BY <1>1, <1>4
  <2>3. InEffect(Commands(told[g].call)[j])
    BY <2>1, <2>2 DEF RInv, Told
  <2> QED
    BY <2>1, <2>3 DEF InEffect, camera
<1> QED
  BY <1>3, <1>4

LEMMA BeginKeeps ==
  ASSUME RInv, NEW c \in Calls, Begin(c)
  PROVE  RInv'
<1>1. /\ ~Busy /\ calls < MaxCalls /\ calls' = calls + 1 /\ call' = c /\ step' = 1
      /\ UNCHANGED <<camera, kind, kill, code, mine, sure, maybe>>
  BY DEF Begin, Busy
<1>2. trusted' /\ trusted' \in BOOLEAN /\ (held' <=> 2 \in buttons) /\ held' \in BOOLEAN
  <2>1. trusted' = TRUE /\ held' = (2 \in buttons)
    BY DEF Begin
  <2>2. trusted'
    BY <2>1, Zenon
  <2>3. trusted' \in BOOLEAN
    BY <2>1, Zenon
  <2>4. held' <=> 2 \in buttons
    BY <2>1, Zenon
  <2>5. held' \in BOOLEAN
    <3>1. CASE 2 \in buttons
      BY <2>1, <3>1
    <3>2. CASE 2 \notin buttons
      BY <2>1, <3>2
    <3> QED
      BY <3>1, <3>2
  <2> QED
    BY <2>2, <2>3, <2>4, <2>5, Zenon
<1>3. Orderly(c, Commands(c)) /\ Commands(call)' = Commands(c) /\ Group(c) \in Groups
  BY <1>1, CommandsOrderly, CallNames, SameCall DEF RInv, TypeOK
<1>4. /\ pc \in [Threads -> {"idle", "send", "wire", "latch", "test"}] /\ Front \in Threads
      /\ calls \in 0..MaxCalls /\ shots \in Nat /\ sure \in Nat /\ maybe \in Nat
      /\ x \in Results
  BY DEF RInv, TypeOK, Threads
<1>5. /\ ~New /\ sure <= shots /\ shots <= sure + maybe /\ sure + maybe <= calls
  <2>1. ~New
    BY <1>1 DEF New
  <2> QED
    BY <1>4, <2>1 DEF RInv, Counted, Bounded
<1>6. \/ /\ Commands(c) = <<>> /\ ~Busy' /\ pc' = pc
         /\ x' = Nothing(c) /\ x' \in Results /\ Note(c, Nothing(c), TRUE)
      \/ /\ Commands(c) # <<>> /\ pc' = [pc EXCEPT ![Front] = "send"] /\ pc'[Front] = "send"
         /\ Note(c, Running, TRUE) /\ x' = x
  BY <1>1, <1>4 DEF Begin, Busy, Nothing, Results
<1> DEFINE result == IF Commands(c) = <<>> THEN Nothing(c) ELSE Running
<1>7. Note(c, result, TRUE) /\ result \in Results \cup {Running}
  BY <1>6 DEF Nothing, Results
<1>8. Commands(c) = <<>> => result # Running
  BY DEF Nothing, Running
<1>9. Commands(c) # <<>> => result = Running /\ result # "PTP_OK"
  BY DEF Running
<1> HIDE DEF result
<1>10. /\ told' \in [Groups -> [call : Calls \cup {NoCall},
                                result : Results \cup {Running}, trusted : BOOLEAN]]
       /\ told'[Group(c)] = [call |-> c, result |-> result, trusted |-> TRUE]
       /\ \A g \in Groups \ {Group(c)} : told'[g] = told[g]
  BY <1>7, NoteOne DEF RInv
<1>11. /\ pc'[Front] # "test" /\ pc'[Front] \in {"idle", "send"}
       /\ (Busy' <=> Commands(c) # <<>>)
       /\ \A u \in Threads : u # Front => pc'[u] = pc[u]
       /\ pc' \in [Threads -> {"idle", "send", "wire", "latch", "test"}]
  BY <1>1, <1>4, <1>6 DEF Busy
<1>12. Wires' /\ Own'
  BY <1>1, <1>4, <1>11 DEF RInv, Wires, Own
<1>13. Calling'
  <2>1. told'[Group(c)].call = c /\ told'[Group(c)].result = result /\ told'[Group(c)].trusted
    BY <1>10
  <2>2. \A g \in Groups : told[g].result # Running
    BY <1>1 DEF RInv, Calling
  <2>3. Busy' => step' \in 1..Len(Commands(c))
    BY <1>1, <1>3, <1>11 DEF Orderly
  <2>4. Busy' => /\ call' \in Calls /\ step' \in 1..Len(Commands(call)')
                 /\ told'[Group(call')].result = Running
                 /\ call'.name \notin ByCode => trusted'
    BY <1>1, <1>2, <1>3, <1>9, <1>11, <2>1, <2>3
  <2>5. \A g \in Groups : told'[g].result = Running => Busy' /\ Group(call') = g
    BY <1>1, <1>8, <1>10, <1>11, <2>1, <2>2
  <2>6. \A g \in Groups : told[g].call.name \notin ByCode => told[g].trusted
    BY DEF RInv, Calling
  <2>7. \A g \in Groups : told'[g].call.name \notin ByCode => told'[g].trusted
    BY <1>10, <2>1, <2>6
  <2>8. \A g \in Groups : told'[g].call \in Calls => Group(told'[g].call) = g
    BY <1>10, <2>1 DEF RInv, Calling
  <2> QED
    BY <2>4, <2>5, <2>7, <2>8 DEF Calling
<1>14. Acknowledged'
  BY <1>1, <1>11 DEF Acknowledged
<1>15. Told'
  <2>1. result = "PTP_OK" => Len(Commands(c)) = 0
    BY <1>3, <1>9 DEF Orderly
  <2> QED
    <3>1. \A j \in 1..Len(Commands(c)) : result # "PTP_OK" \/ InEffect(Commands(c)[j])
      BY <2>1
    <3>2. TRUE \in BOOLEAN
      OBVIOUS
    <3>3. UNCHANGED <<camera, kind>>
      BY <1>1
    <3> QED
      BY <1>7, <3>1, <3>2, <3>3, OtherGroups, Zenon
<1>16. Counted'
  <2>1. Busy' /\ Exposes(c) => Before' /\ ~After'
    <3>1. Busy' => pc'[Front] = "send"
      BY <1>11 DEF Busy
    <3>2. Fire(c) \in {1, 2} /\ Fire(call') = Fire(c) /\ step' = 1
      BY <1>1 DEF Fire
    <3> QED
      BY <3>1, <3>2 DEF Before, After
  <2> QED
    BY <1>1, <1>2, <1>4, <1>5, <2>1 DEF Counted, New, camera
<1>17. Bounded'
  BY <1>1, <1>4, <1>5 DEF Bounded
<1>18. TypeOK'
  <2>1. shots' \in Nat /\ sure' \in Nat /\ maybe' \in Nat /\ calls' \in 0..MaxCalls
    BY <1>1, <1>4, BoundAssumption DEF camera
  <2>2. shots' \in 0..MaxCalls /\ sure' \in 0..MaxCalls /\ maybe' \in 0..MaxCalls
    BY <1>16, <1>17, <2>1, CountsBounded
  <2>3. \A t \in Pollers : pc'[t] # "test"
    BY <1>11, PollersAssumption DEF RInv, TypeOK, Threads
  <2>4. /\ buttons' \subseteq {1, 2} /\ settings' \in [Props -> Nat]
        /\ kind' \in Kinds /\ kill' \in BOOLEAN /\ code' \in Codes /\ mine' \in BOOLEAN
    BY <1>1 DEF RInv, TypeOK, Props, camera
  <2>5. x' \in Results
    BY <1>4, <1>6, Zenon
  <2>6. call' \in Calls \cup {NoCall} /\ step' \in 1..3
    BY <1>1
  <2>7. trusted' \in BOOLEAN /\ held' \in BOOLEAN
    BY <1>2, Zenon
  <2>8. told' \in [Groups -> [call : Calls \cup {NoCall},
                              result : Results \cup {Running}, trusted : BOOLEAN]]
    BY <1>10
  <2>9. pc' \in [Threads -> {"idle", "send", "wire", "latch", "test"}]
    BY <1>11
  <2> QED
    BY <2>1, <2>2, <2>3, <2>4, <2>5, <2>6, <2>7, <2>8, <2>9 DEF TypeOK, Props
<1> QED
  BY <1>12, <1>13, <1>14, <1>15, <1>16, <1>17, <1>18 DEF RInv

LEMMA TestKeeps ==
  ASSUME RInv, Test
  PROVE  RInv'
<1>1. /\ pc[Front] = "test" /\ Busy
      /\ UNCHANGED <<camera, kind, kill, code, call, x, calls, mine, held>>
  BY DEF Test, Busy
<1>2. (trusted' <=> trusted /\ (mine \/ call.name \notin ByCode)) /\ trusted' \in BOOLEAN
  BY DEF Test
<1>3. /\ call \in Calls /\ step \in 1..Len(Commands(call)) /\ Orderly(call, Commands(call))
      /\ told[Group(call)].result = Running
      /\ Group(call) \in Groups
  BY <1>1, CommandsOrderly, CallNames DEF RInv, TypeOK, Calling
<1>4. call.name \notin ByCode => trusted
  BY <1>1 DEF RInv, Calling
<1>5. /\ pc \in [Threads -> {"idle", "send", "wire", "latch", "test"}] /\ Front \in Threads
      /\ calls \in 0..MaxCalls /\ shots \in Nat /\ sure \in Nat /\ maybe \in Nat
      /\ x \in Results /\ step \in Nat /\ Len(Commands(call)) \in 0..3
      /\ Fire(call) \in Nat
  BY <1>3 DEF RInv, TypeOK, Threads, Orderly, Fire
<1>6. Commands(call)' = Commands(call)
  BY <1>1, SameCall
\* A test that is passed, of the front end's own return code, was of PTP_OK.
<1>7. ~Stops(call) /\ call.name \notin Untested /\ trusted' => x = "PTP_OK" \/ kill
  BY <1>1, <1>2 DEF Stops, RInv, Own
<1>8. CASE ~Stops(call) /\ step < Len(Commands(call)) /\ step' = step + 1
           /\ pc' = [pc EXCEPT ![Front] = "send"] /\ UNCHANGED <<told, sure, maybe>>
  <2>1. /\ pc'[Front] = "send" /\ Busy' /\ \A u \in Threads : u # Front => pc'[u] = pc[u]
        /\ pc' \in [Threads -> {"idle", "send", "wire", "latch", "test"}]
        /\ step' \in 1..Len(Commands(call)) /\ step' \in 1..3
    <3>1. step' \in 1..Len(Commands(call)) /\ step' \in 1..3
      <4>1. step \in 1..Len(Commands(call)) /\ step < Len(Commands(call)) /\ step' = step + 1
        BY <1>3, <1>8
      <4>2. ASSUME NEW n \in 0..3, NEW k \in 1..n, k < n
            PROVE  k + 1 \in 1..n /\ k + 1 \in 1..3
        BY <4>2
      <4> QED
        BY <1>5, <4>1, <4>2
    <3> QED
      BY <1>5, <1>8, <3>1 DEF Busy
  <2>2. Wires' /\ Own'
    BY <1>1, <1>5, <2>1 DEF RInv, Wires, Own
  <2>3. Calling'
    BY <1>1, <1>2, <1>3, <1>6, <1>8, <2>1 DEF RInv, Calling
  <2>4. Acknowledged'
    <3>1. SUFFICES ASSUME call.name \notin Untested, trusted'
                   PROVE  Stopped' \/ \A j \in 1..step : InEffect(Commands(call)[j])'
      BY <1>1, <1>5, <1>8, <2>1 DEF Acknowledged
    <3>2. /\ Stopped \/ \A j \in 1..step - 1 : InEffect(Commands(call)[j])
          /\ x = "PTP_OK" => InEffect(Commands(call)[step])
      BY <1>1, <1>2, <3>1 DEF RInv, Acknowledged
    <3>3. Stopped' <=> kill
      BY <1>1, <2>1 DEF Stopped
    <3>4. CASE kill
      BY <3>3, <3>4
    <3>5. CASE ~kill
      <4>1. x = "PTP_OK" /\ ~Stopped
        BY <1>7, <1>8, <3>1, <3>5 DEF Stopped
      <4>2. \A j \in 1..step : InEffect(Commands(call)[j])
        BY <1>5, <3>2, <4>1
      <4> QED
        BY <1>1, <1>6, <4>2 DEF InEffect, camera
    <3> QED
      BY <3>4, <3>5
  <2>5. Told'
    <3>1. \A g \in Groups : Commands(told[g].call)' = Commands(told[g].call)
      BY <1>1, <1>8, SameTold
    <3> QED
      BY <1>1, <1>8, <3>1 DEF RInv, Told, InEffect, camera
  <2>6. Counted'
    <3>1. /\ New' <=> New
          /\ Before' => Before
      BY <1>1, <1>5, <1>8, <2>1 DEF New, Before, Busy
    <3>2. Exposes(call) /\ After' => After
      <4>1. CASE call.name = "take_picture"
        <5>1. x = "PTP_OK"
          BY <1>8, <4>1 DEF Stops, ByCode, Untested
        <5> QED
          BY <1>1, <1>5, <1>8, <2>1, <5>1 DEF After
      <4>2. CASE call.name = "bulb_start"
        <5>1. step < Fire(call)
          BY <1>3, <1>8, <4>2 DEF Orderly
        <5> QED
          BY <1>1, <1>5, <1>8, <2>1, <5>1 DEF After
      <4> QED
        BY <4>1, <4>2 DEF Exposes
    <3> QED
      BY <1>1, <1>5, <1>8, <2>1, <3>1, <3>2 DEF RInv, Counted, New, camera
  <2>7. Bounded'
    BY <1>1, <1>8, <2>1 DEF RInv, Bounded, New
  <2>8. TypeOK'
    <3>1. \A t \in Pollers : pc'[t] # "test"
      BY <2>1, PollersAssumption DEF RInv, TypeOK, Threads
    <3>2. /\ buttons' \subseteq {1, 2} /\ settings' \in [Props -> Nat] /\ shots' \in 0..MaxCalls
          /\ kind' \in Kinds /\ kill' \in BOOLEAN /\ code' \in Codes /\ mine' \in BOOLEAN
          /\ held' \in BOOLEAN /\ calls' \in 0..MaxCalls /\ x' \in Results
          /\ call' \in Calls \cup {NoCall}
      BY <1>1 DEF RInv, TypeOK, Props, camera
    <3>3. /\ told' \in [Groups -> [call : Calls \cup {NoCall},
                                   result : Results \cup {Running}, trusted : BOOLEAN]]
          /\ sure' \in 0..MaxCalls /\ maybe' \in 0..MaxCalls
      BY <1>8 DEF RInv, TypeOK
    <3> QED
      BY <1>2, <2>1, <3>1, <3>2, <3>3 DEF TypeOK, Props
  <2> QED
    BY <2>2, <2>3, <2>4, <2>5, <2>6, <2>7, <2>8 DEF RInv
<1>9. CASE /\ Stops(call) \/ step = Len(Commands(call))
           /\ pc' = [pc EXCEPT ![Front] = "idle"]
           /\ Note(call, Result(call), trusted') /\ Count(call, Result(call))
           /\ UNCHANGED step
  <2>1. /\ pc'[Front] = "idle" /\ ~Busy' /\ \A u \in Threads : u # Front => pc'[u] = pc[u]
        /\ pc' \in [Threads -> {"idle", "send", "wire", "latch", "test"}]
    BY <1>5, <1>9 DEF Busy
  <2>2. Result(call) \in Results /\ Result(call) # Running
    BY <1>5 DEF Result, Results, Running
  <2>3. Result(call) = "PTP_OK" => ~(Stops(call) /\ call.name \notin Untested) /\ x = "PTP_OK"
    BY DEF Result, Stops
  <2>4. /\ told' \in [Groups -> [call : Calls \cup {NoCall},
                                 result : Results \cup {Running}, trusted : BOOLEAN]]
        /\ told'[Group(call)] = [call |-> call, result |-> Result(call), trusted |-> trusted']
        /\ \A g \in Groups \ {Group(call)} : told'[g] = told[g]
    <3>1. \A c \in Calls, r \in Results \cup {Running}, tr \in BOOLEAN :
            Note(c, r, tr) =>
              /\ told' \in [Groups -> [call : Calls \cup {NoCall},
                                       result : Results \cup {Running}, trusted : BOOLEAN]]
              /\ told'[Group(c)] = [call |-> c, result |-> r, trusted |-> tr]
              /\ \A g \in Groups \ {Group(c)} : told'[g] = told[g]
      BY NoteOne DEF RInv
    <3> QED
      BY <1>2, <1>3, <1>9, <2>2, <3>1
  <2>5. Wires' /\ Own'
    BY <1>1, <1>5, <2>1 DEF RInv, Wires, Own
  <2>6. Calling'
    <3>1. /\ told'[Group(call)].call = call /\ told'[Group(call)].result # Running
          /\ told'[Group(call)].trusted <=> trusted'
      BY <2>2, <2>4
    <3>2. \A g \in Groups : told'[g].result # Running
      BY <2>4, <3>1 DEF RInv, Calling
    <3>3. \A g \in Groups : told[g].call.name \notin ByCode => told[g].trusted
      BY DEF RInv, Calling
    <3>4. call.name \notin ByCode => told'[Group(call)].trusted
      BY <1>2, <1>4, <3>1
    <3>5. \A g \in Groups : told'[g].call.name \notin ByCode => told'[g].trusted
      BY <2>4, <3>1, <3>3, <3>4
    <3>6. \A g \in Groups : told'[g].call \in Calls => Group(told'[g].call) = g
      BY <2>4, <3>1 DEF RInv, Calling
    <3> QED
      BY <2>1, <3>2, <3>5, <3>6 DEF Calling
  <2>7. Acknowledged'
    BY <2>1 DEF Acknowledged
  <2>8. Told'
    <3>1. ASSUME Result(call) = "PTP_OK", trusted', call.name \notin Untested
          PROVE  \A j \in 1..Len(Commands(call)) : InEffect(Commands(call)[j])
      <4>1. x = "PTP_OK" /\ step = Len(Commands(call)) /\ ~Stopped /\ trusted
        BY <1>1, <1>2, <1>9, <2>3, <3>1 DEF Stopped
      <4>2. /\ \A j \in 1..step - 1 : InEffect(Commands(call)[j])
            /\ InEffect(Commands(call)[step])
        BY <1>1, <3>1, <4>1 DEF RInv, Acknowledged
      <4> QED
        BY <1>5, <4>1, <4>2
    <3>2. \A c \in Calls, r \in Results \cup {Running}, tr \in BOOLEAN :
            /\ Note(c, r, tr)
            /\ r = "PTP_OK" /\ tr /\ c.name \notin Untested =>
                 \A j \in 1..Len(Commands(c)) : InEffect(Commands(c)[j])
            => Told'
      BY <1>1, OtherGroups
    <3> QED
      BY <1>2, <1>3, <1>9, <2>2, <3>1, <3>2
  <2>9. Counted' /\ Bounded'
    <3>1. ~New' /\ (New <=> Exposes(call) /\ ~held)
      BY <1>1, <2>1 DEF New
    <3>2. CASE New
      <4>1. Result(call) = "PTP_OK" => After
        BY <1>1, <1>3, <1>5, <1>9, <2>3, <3>1, <3>2
           DEF After, Exposes, Fire, Untested, Orderly
      <4>2. \/ Result(call) = "PTP_OK" /\ sure' = sure + 1 /\ maybe' = maybe
            \/ Result(call) # "PTP_OK" /\ sure' = sure /\ maybe' = maybe + 1
        BY <1>9, <3>1, <3>2 DEF Count
      <4> QED
        BY <1>1, <1>5, <2>1, <3>1, <3>2, <4>1, <4>2 DEF RInv, Counted, Bounded, camera
    <3>3. CASE ~New
      <4>1. sure' = sure /\ maybe' = maybe
        BY <1>9, <3>1, <3>3 DEF Count
      <4> QED
        BY <1>1, <1>5, <2>1, <3>1, <3>3, <4>1 DEF RInv, Counted, Bounded, camera
    <3> QED
      BY <3>2, <3>3
  <2>10. TypeOK'
    <3>1. \A t \in Pollers : pc'[t] # "test"
      BY <2>1, PollersAssumption DEF RInv, TypeOK, Threads
    <3>2. /\ buttons' \subseteq {1, 2} /\ settings' \in [Props -> Nat] /\ shots' \in Nat
          /\ kind' \in Kinds /\ kill' \in BOOLEAN /\ code' \in Codes /\ mine' \in BOOLEAN
          /\ held' \in BOOLEAN /\ calls' \in 0..MaxCalls /\ x' \in Results
          /\ call' \in Calls \cup {NoCall} /\ step' \in 1..3
      BY <1>1, <1>9 DEF RInv, TypeOK, Props, camera
    <3>3. sure' \in Nat /\ maybe' \in Nat
      BY <1>5, <1>9 DEF Count
    <3>4. shots' \in 0..MaxCalls /\ sure' \in 0..MaxCalls /\ maybe' \in 0..MaxCalls
      BY <2>9, <3>2, <3>3, CountsBounded
    <3> QED
      BY <1>2, <2>1, <2>4, <3>1, <3>2, <3>4 DEF TypeOK, Props
  <2> QED
    BY <2>5, <2>6, <2>7, <2>8, <2>9, <2>10 DEF RInv
<1> QED
  BY <1>8, <1>9 DEF Test

LEMMA NextRInv == RInv /\ [Next]_vars => RInv'
<1> SUFFICES ASSUME RInv, [Next]_vars PROVE RInv'
  OBVIOUS
<1>1. CASE \E c \in Calls : Begin(c)
  BY <1>1, BeginKeeps
<1>2. CASE Test
  BY <1>2, TestKeeps
<1>3. CASE \E t \in Threads : Exchange(t)
  BY <1>3, ExchangeKeeps
<1>4. CASE UNCHANGED vars
  <2>1. /\ \A c : Commands(c)' = Commands(c)
        /\ Commands(call)' = Commands(call)
        /\ \A g : Commands(told[g].call)' = Commands(told[g].call)
    BY <1>4, SameCommands, SameCall, SameTold DEF vars, locals, history
  <2>2. TypeOK' /\ Wires' /\ Own'
    BY <1>4 DEF RInv, TypeOK, Wires, Own, vars, camera, locals, history
  <2>3. (Calling /\ Acknowledged /\ Told /\ Counted /\ Bounded)'
    BY <1>4, OthersKeep DEF vars, camera, locals, history
  <2> QED
    BY <2>2, <2>3 DEF RInv
<1> QED
  BY <1>1, <1>2, <1>3, <1>4 DEF Next

LEMMA RInvAlways == Spec => []RInv
  BY InitRInv, NextRInv, PTL DEF Spec

-----------------------------------------------------------------------------
(* What follows.                                                           *)

\* The state of every thread, of the camera and of the front end is one.
THEOREM RemoteTypeCorrect == Spec => []TypeOK
<1>1. RInv => TypeOK
  BY DEF RInv
<1> QED
  BY <1>1, RInvAlways, PTL

\* A call that returned PTP_OK is in effect, all of it, until the next call of
\* its group: a binding's as far as it tested its own return codes, white
\* balance excepted, which tests nothing.
THEOREM CallsInEffect == Spec => []Told
<1>1. RInv => Told
  BY DEF RInv
<1> QED
  BY <1>1, RInvAlways, PTL

\* A caller that is told a picture was taken or a bulb exposure ended finds the
\* shutter released.
THEOREM ShutterReleased == Spec => []ReleasedWhenTold
<1>1. RInv => ReleasedWhenTold
  <2> SUFFICES ASSUME RInv,
                      told["shutter"].call.name \in Over,
                      told["shutter"].result = "PTP_OK", told["shutter"].trusted
               PROVE  buttons = {}
    BY DEF ReleasedWhenTold
  <2> DEFINE c == told["shutter"].call
  <2>1. c \in Calls /\ buttons \subseteq {1, 2} /\ kind \in Kinds
    <3>1. "shutter" \in Groups /\ "none" \notin Over
      BY DEF Groups, Over
    <3>2. c \in Calls \cup {NoCall}
      BY <3>1 DEF RInv, TypeOK
    <3> QED
      BY <3>1, <3>2 DEF RInv, TypeOK, NoCall, Call
  <2>2. \A j \in 1..Len(Commands(c)) : InEffect(Commands(c)[j])
    BY <2>1 DEF RInv, Told, Groups, Over, Untested
  <2>3. /\ c.name = "take_picture" => Commands(c) = <<On(2), Off(2), Off(1)>>
        /\ c.name = "bulb_stop" => Commands(c) = <<Off(2), Off(1)>>
    BY DEF Commands, Picture
  <2>4. InEffect(Off(1)) /\ InEffect(Off(2))
    <3>1. CASE c.name = "take_picture"
      <4>1. Len(Commands(c)) = 3 /\ Commands(c)[2] = Off(2) /\ Commands(c)[3] = Off(1)
        BY <2>3, <3>1
      <4> QED
        BY <2>2, <4>1
    <3>2. CASE c.name = "bulb_stop"
      <4>1. Len(Commands(c)) = 2 /\ Commands(c)[1] = Off(2) /\ Commands(c)[2] = Off(1)
        BY <2>3, <3>2
      <4> QED
        BY <2>2, <4>1
    <3> QED
      BY <3>1, <3>2 DEF Over
  <2>5. 1 \notin buttons /\ 2 \notin buttons
    BY <2>4 DEF InEffect, Off, Command
  <2> QED
    BY <2>1, <2>5
<1> QED
  BY <1>1, RInvAlways, PTL

\* Refusals, failures, second tries and other threads neither take an exposure
\* from the front end's count nor add one no call stands for.
THEOREM ExposuresCounted == Spec => []ShotsTold
<1>1. RInv => ShotsTold
  <2> SUFFICES ASSUME RInv PROVE ShotsTold
    OBVIOUS
  <2> DEFINE running == told["shutter"].result = Running /\ Exposes(call) /\ ~held
  <2>1. New <=> running
    <3>1. "shutter" \in Groups
      BY DEF Groups
    <3>2. ASSUME New PROVE running
      BY <3>2, CallNames DEF RInv, Calling, New
    <3>3. ASSUME running PROVE New
      BY <3>1, <3>3 DEF RInv, Calling, New
    <3> QED
      BY <3>2, <3>3
  <2>2. sure \in Nat /\ maybe \in Nat /\ shots \in Nat
    BY DEF RInv, TypeOK
  <2>3. sure <= shots /\ (running => shots <= sure + maybe + 1)
        /\ (~running => shots <= sure + maybe + 0)
    BY <2>1, <2>2 DEF RInv, Counted
  <2> QED
    BY <2>3 DEF ShotsTold, Between
<1> QED
  BY <1>1, RInvAlways, PTL

\* Live view that was set up shows on the computer, and taking it down gives
\* the pictures back to the card, whatever was refused in between.
THEOREM LiveviewAsTold == Spec => []LiveviewTold
<1>1. RInv => LiveviewTold
  <2> DEFINE c == told["view"].call
  <2> SUFFICES ASSUME RInv, told["view"].result = "PTP_OK"
               PROVE  /\ c.name = "init_liveview" /\ kind \in {"EOS", "ML_BMP"} =>
                           InEffect(Set("VF_Output", 3)) /\ InEffect(Set("CaptureDestination", 4))
                      /\ c.name = "deinit_liveview" /\ kind = "EOS" =>
                           InEffect(Set("CaptureDestination", 2))
    BY DEF LiveviewTold, InEffect, Set, Command
  <2>1. "view" \in Groups /\ c \in Calls \cup {NoCall}
    BY DEF RInv, TypeOK, Groups
  <2>2. ASSUME c.name \in {"init_liveview", "deinit_liveview"}
        PROVE  \A j \in 1..Len(Commands(c)) : InEffect(Commands(c)[j])
    <3>1. c \in Calls /\ c.name \notin ByCode /\ c.name \notin Untested
      BY <2>1, <2>2 DEF NoCall, Call, ByCode, Untested
    <3>2. told["view"].trusted
      BY <2>1, <3>1 DEF RInv, Calling
    <3> QED
      BY <2>1, <3>1, <3>2 DEF RInv, Told
  <2>3. CASE c.name = "init_liveview" /\ kind = "EOS"
    <3>1. Commands(c) = <<Set("VF_Output", 3), Set("CaptureDestination", 4)>>
      BY <2>3 DEF Commands, InitLiveview, Viewfinder
    <3>2. /\ Len(Commands(c)) = 2 /\ Commands(c)[1] = Set("VF_Output", 3)
          /\ Commands(c)[2] = Set("CaptureDestination", 4)
      BY <3>1
    <3> QED
      BY <2>2, <2>3, <3>2
  <2>4. CASE c.name = "init_liveview" /\ kind = "ML_BMP"
    <3> DEFINE a == <<Other("LiveBmpRam")>>
               D == {a[1], Viewfinder[1], Viewfinder[2]}
    <3>1. Commands(c) = a \o Viewfinder
      BY <2>4 DEF Commands, InitLiveview
    <3>2. /\ Len(Viewfinder) = 2 /\ Viewfinder[1] = Set("VF_Output", 3)
          /\ Viewfinder[2] = Set("CaptureDestination", 4)
      BY DEF Viewfinder
    <3>3. a \in Seq(D) /\ Viewfinder \in Seq(D) /\ Len(a) = 1
      BY DEF Viewfinder
    <3> HIDE DEF a
    <3>4. /\ Len(Commands(c)) = 3 /\ Commands(c)[2] = Set("VF_Output", 3)
          /\ Commands(c)[3] = Set("CaptureDestination", 4)
      BY <3>1, <3>2, <3>3, OneAndTwo
    <3> QED
      BY <2>2, <2>4, <3>4
  <2>5. CASE c.name = "deinit_liveview" /\ kind = "EOS"
    <3>1. Commands(c) = <<Set("CaptureDestination", 2), Other("PCHDDCapacity")>>
      BY <2>5 DEF Commands, DeinitLiveview
    <3>2. Len(Commands(c)) = 2 /\ Commands(c)[1] = Set("CaptureDestination", 2)
      BY <3>1
    <3> QED
      BY <2>2, <2>5, <3>2
  <2> QED
    BY <2>3, <2>4, <2>5
<1> QED
  BY <1>1, RInvAlways, PTL
=============================================================================
