--------------------------- MODULE FileLifecycle ----------------------------
(***************************************************************************)
(* What documents and attachments promise about an uploaded file and the   *)
(* row that names it, without requests.                                    *)
(*                                                                         *)
(* A name is "new" until it is generated; "filed" when the store has the   *)
(* file and no row names it; "present" when a row does; "bereft" when the  *)
(* row has lost its file; "gone" when neither is left.  Files and rows     *)
(* come and go one at a time, but that several rows may be deleted in one  *)
(* statement.  A row is born with its file, a file that is gone never      *)
(* comes back, and its name is never used again.                           *)
(***************************************************************************)
CONSTANT File

VARIABLE status

Init == status = [f \in File |-> "new"]

Become(f, from, to) == status[f] = from /\ status' = [status EXCEPT ![f] = to]

Store(f)  == Become(f, "new", "filed")
Record(f) == Become(f, "filed", "present")
Lose(f)   == Become(f, "present", "bereft") \/ Become(f, "filed", "gone")

\* The rows of these files are deleted.
Drop(F) ==
  /\ \A f \in F : status[f] \in {"present", "bereft"}
  /\ status' = [f \in File |-> IF f \notin F THEN status[f]
                               ELSE IF status[f] = "present" THEN "filed" ELSE "gone"]

Next == \/ \E f \in File : Store(f) \/ Record(f) \/ Lose(f)
        \/ \E F \in SUBSET File : Drop(F)

Spec == Init /\ [][Next]_status
=============================================================================
