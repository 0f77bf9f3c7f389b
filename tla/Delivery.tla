------------------------------- MODULE Delivery -------------------------------
(***************************************************************************)
(* What a transfer promises to its two users.  The file is saved once, and *)
(* whole; the sender is told so only afterwards, if at all; and it is      *)
(* saved, unless somebody cancels.  Cancelling takes back what is on its   *)
(* way to the sender, but not the file.                                    *)
(***************************************************************************)

CONSTANT Page

VARIABLES
  saved,         \* what the recipient has: "missing" or "intact"
  acknowledged,  \* the sender is told, or about to be
  cancelled      \* the pages on which the transfer has been cancelled

vars == <<saved, acknowledged, cancelled>>

Init == saved = "missing" /\ acknowledged = FALSE /\ cancelled = {}

Save == saved = "missing" /\ saved' = "intact" /\ UNCHANGED <<acknowledged, cancelled>>

Acknowledge ==
  /\ saved = "intact" /\ ~acknowledged /\ acknowledged' = TRUE
  /\ UNCHANGED <<saved, cancelled>>

\* The message has been heard, or is lost.
Heard == acknowledged /\ acknowledged' = FALSE /\ UNCHANGED <<saved, cancelled>>

Cancel(p) ==
  /\ p \notin cancelled /\ cancelled' = cancelled \cup {p}
  /\ acknowledged' => acknowledged
  /\ UNCHANGED saved

Next == Save \/ Acknowledge \/ Heard \/ \E p \in Page : Cancel(p)

Spec == Init /\ [][Next]_vars /\ WF_vars(cancelled = {} /\ Save)
===============================================================================
