---------------------------- MODULE MCEosEvents ----------------------------
(* Instances of EosEvents for TLC.                                         *)
EXTENDS EosEvents, TLC

\* iso 400, and 500, whose data 640 has too; shutter bulb and 30 s.
MCReadings == "iso" :> {88, 91} @@ "shutter_speed" :> {12, 16}
              @@ "mirror" :> {0, 3} @@ "other" :> {1, 2}
MCOffers == "iso" :> {<<>>, <<91>>, <<88, 91>>} @@ "shutter_speed" :> {}
MCCounts == "iso" :> {1, 2} @@ "shutter_speed" :> {}
MCSizes == "iso" :> {4} @@ "shutter_speed" :> {4}
MCWishes == "iso" :> {400, 500} @@ "shutter_speed" :> {3000000}
MCOthers == {ObjectAdded}
AllOthers == {Info, Unknown, RequestTransfer, ObjectAdded}
=============================================================================
