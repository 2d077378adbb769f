----------------------------- MODULE ItemUploads -----------------------------
(***************************************************************************)
(* What the spool of src/src/blob_retrieval.py promises the run loops that *)
(* stage items in it, whatever its thread, its retries and its crashes do: *)
(* an item that was staged stays, its upload ends well or badly, what      *)
(* ended badly may be taken up again, and what ended well is never undone. *)
(***************************************************************************)
CONSTANT Items

VARIABLE upload

Init == upload = [i \in Items |-> "absent"]

Stage(i) ==
    /\ upload[i] = "absent"
    /\ upload' = [upload EXCEPT ![i] = "pending"]

End(i) ==
    /\ upload[i] = "pending"
    /\ \E end \in {"uploaded", "failed"} : upload' = [upload EXCEPT ![i] = end]

\* A resume takes up all that failed.
TakeUpAgain == upload' = [i \in Items |-> IF upload[i] = "failed" THEN "pending" ELSE upload[i]]

Next == TakeUpAgain \/ \E i \in Items : Stage(i) \/ End(i)

Spec == Init /\ [][Next]_upload
=============================================================================
