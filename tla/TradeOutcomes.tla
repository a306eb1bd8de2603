-------------------------- MODULE TradeOutcomes --------------------------
(***************************************************************************)
(* What the settlement service promises of the trades it is given, without *)
(* queue, retries or connection: a trade is dropped at once or accepted;   *)
(* an accepted trade gets at most one outcome and keeps it.  "submitted"   *)
(* is only said of a trade that this very submission has settled; one that *)
(* is skipped or dropped will never be settled by the service.  No more is *)
(* promised of one that "failed": it may have settled, or settle later.    *)
(***************************************************************************)
CONSTANTS Jobs, Keys, KeyOf, Other, Nobody

VARIABLES fate,     \* job -> what the service has said of it
          settler   \* key -> who has settled the trade

vars == <<fate, settler>>

Init ==
  /\ fate = [j \in Jobs |-> "unread"]
  /\ settler = [k \in Keys |-> Nobody]

Take(j, to) ==
  /\ fate[j] = "unread"
  /\ to \in {"dropped", "accepted"}
  /\ fate' = [fate EXCEPT ![j] = to]
  /\ UNCHANGED settler

Report(j, outcome) ==
  /\ fate[j] = "accepted"
  /\ \/ outcome = "submitted" /\ settler[KeyOf[j]] = j
     \/ outcome = "skipped" /\ settler[KeyOf[j]] # j
     \/ outcome = "failed"
  /\ fate' = [fate EXCEPT ![j] = outcome]
  /\ UNCHANGED settler

Settle(k, by) ==
  /\ settler[k] = Nobody
  /\ by # Other => KeyOf[by] = k /\ fate[by] \in {"accepted", "failed"}
  /\ settler' = [settler EXCEPT ![k] = by]
  /\ UNCHANGED fate

Next ==
  \/ \E j \in Jobs : \/ \E to \in {"dropped", "accepted"} : Take(j, to)
                     \/ \E o \in {"submitted", "skipped", "failed"} : Report(j, o)
  \/ \E k \in Keys, by \in Jobs \cup {Other} : Settle(k, by)

Spec == Init /\ [][Next]_vars
=============================================================================
