--------------------------- MODULE AssetLifecycle ---------------------------
(***************************************************************************)
(* What the media library promises about one asset and the rows that show  *)
(* it, without requests, blobs or file names.                              *)
(*                                                                         *)
(* An asset is "absent", "present" (its row exists and its file can be     *)
(* read) or "bereft" (the row exists, the file is gone).  Assets appear    *)
(* present, one at a time.  Whole groups may disappear in one step, and    *)
(* then nothing shows any of them afterwards and no slider showed one.     *)
(* A bereft asset may be repaired by a new file.                           *)
(***************************************************************************)
CONSTANTS MediaId, Slider, Entity, NONE, GONE

VARIABLES
  status,     \* asset -> "absent", "present" or "bereft"
  ref         \* referencing row -> asset, NONE, or GONE

avars == <<status, ref>>

Live == {m \in MediaId : status[m] # "absent"}

Init ==
  /\ status = [m \in MediaId |-> "absent"]
  /\ ref = [e \in Entity |-> GONE]

Add(m) ==
  /\ status[m] = "absent"
  /\ \A e \in Entity : ref[e] # m
  /\ status' = [status EXCEPT ![m] = "present"]
  /\ UNCHANGED ref

Lose(m) ==
  /\ status[m] = "present"
  /\ status' = [status EXCEPT ![m] = "bereft"]
  /\ UNCHANGED ref

Repair(m) ==
  /\ status[m] = "bereft"
  /\ status' = [status EXCEPT ![m] = "present"]
  /\ UNCHANGED ref

Remove(gone) ==
  /\ \A e \in Slider : ref[e] \notin gone
  /\ status' = [m \in MediaId |-> IF m \in gone THEN "absent" ELSE status[m]]
  /\ ref' = [e \in Entity |-> IF ref[e] \in gone THEN NONE ELSE ref[e]]

Point(e, m) ==
  /\ m \in Live \/ (m = NONE /\ e \notin Slider) \/ m = GONE
  /\ ref' = [ref EXCEPT ![e] = m]
  /\ UNCHANGED status

Next ==
  \/ \E m \in MediaId : Add(m) \/ Lose(m) \/ Repair(m)
  \/ \E gone \in SUBSET MediaId : Remove(gone)
  \/ \E e \in Entity, m \in MediaId \cup {NONE, GONE} : Point(e, m)

Spec == Init /\ [][Next]_avars
=============================================================================
