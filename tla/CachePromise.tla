---------------------------- MODULE CachePromise ----------------------------
(***************************************************************************)
(* What the cache promises for video bids, as if each were stored by        *)
(* itself: a bid is held back or sent, it is sent once, it is answered once *)
(* after that, and what joins the auction then has its own key.  In which   *)
(* batches bids travel, and what becomes of the others of a batch, cannot   *)
(* be told; a bid may be held for ever, but never be lost.                  *)
(***************************************************************************)
CONSTANTS Bids, None

VARIABLES
  stage,  \* of each bid: "new", "held", "sent", "added" or "discarded"
  key     \* its cache key, or None

vars == <<stage, key>>

At(where) == {b \in Bids : stage[b] = where}

Init ==
  /\ stage = [b \in Bids |-> "new"]
  /\ key = [b \in Bids |-> None]

(* A bid that needs no key joins the auction, or is turned down, at once. *)
Skip(b) ==
  /\ stage[b] = "new"
  /\ \E how \in {"added", "discarded"} : stage' = [stage EXCEPT ![b] = how]
  /\ UNCHANGED key

(* Bids that are held, with those of taken that are new, are sent, or some. *)
Send(taken) ==
  /\ taken \subseteq At("new")
  /\ \E sent \in SUBSET (taken \cup At("held")) :
       stage' = [b \in Bids |-> IF b \in sent THEN "sent"
                                ELSE IF b \in taken THEN "held" ELSE stage[b]]
  /\ UNCHANGED key

(* Bids that were sent are answered for, and some of them are stored. *)
Answer ==
  \E done \in SUBSET At("sent") : \E stored \in SUBSET done :
    /\ stage' = [b \in Bids |-> IF b \in stored THEN "added"
                                ELSE IF b \in done THEN "discarded" ELSE stage[b]]
    /\ key' = [b \in Bids |-> IF b \in stored THEN b ELSE key[b]]

Next ==
  \/ \E b \in Bids : Skip(b) \/ Send({b})
  \/ Send({})
  \/ Answer

Spec == Init /\ [][Next]_vars
=============================================================================
