------------------------------ MODULE PicCustody ------------------------------
(***************************************************************************)
(* What the capture session promises about the gateway's shared PIC: it     *)
(* asks for capture settings only while somebody owes their restoration,    *)
(* and the debt is discharged only after the stock settings were asked back.*)
(* The PIC has what was asked of it, as long as the gateway is not deaf (a  *)
(* command that stays in a buffer, another client that takes the UART       *)
(* channel).  A slip (a killed process) loses the debt, not the settings.   *)
(***************************************************************************)
VARIABLES owed, asked, pic, slipped, deaf

Init == owed = FALSE /\ asked = "stock" /\ pic = "stock" /\ ~slipped /\ ~deaf

\* The debt is taken, and again as often as a restoration could not be confirmed.
Borrow    == owed' = TRUE /\ UNCHANGED <<asked, slipped>>
Configure == owed' = TRUE /\ asked' = "capture" /\ UNCHANGED slipped
PutBack   == asked' = "stock" /\ (pic' = "stock" \/ deaf') /\ UNCHANGED <<owed, slipped>>
Discharge == (asked = "stock" \/ slipped) /\ owed' = FALSE /\ UNCHANGED <<asked, slipped>>
Slip      == slipped' = TRUE /\ owed' \in BOOLEAN /\ UNCHANGED asked

\* The PIC turns to capture only when asked to, and back to stock at any restoration.
Obeys == pic' \in {pic, asked, "stock"} \/ deaf'

Next ==
  /\ Borrow \/ Configure \/ PutBack \/ Discharge \/ Slip
  /\ Obeys
  /\ deaf => deaf'

Spec == Init /\ [][Next]_<<owed, asked, pic, slipped, deaf>>
=============================================================================
