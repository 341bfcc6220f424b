--------------------------- MODULE AuctionPromise ---------------------------
(***************************************************************************)
(* What an auction promises the page that asked for it, whatever bidders,  *)
(* caches and modules do.  An auction waits for a set of bidder requests,  *)
(* and for the bids that are still being stored in the video cache.  It    *)
(* closes in the very step that leaves nothing to wait for, or when its    *)
(* time is up, whichever comes first, and hands its bids to the page once. *)
(***************************************************************************)

CONSTANTS
  Awaited,   \* the bidder requests the auction waits for
  Storable   \* the bids that may have to be stored before they are added

VARIABLES
  phase,     \* "idle", "open", "closed" or "reported"
  waiting,   \* bidder requests that have not finished
  storing    \* bids whose storage is pending

vars == <<phase, waiting, storing>>

Init ==
  /\ phase = "idle"
  /\ waiting = Awaited
  /\ storing = {}

(* The auction starts, or finds that there is nobody to ask. *)
Start ==
  /\ phase = "idle"
  /\ UNCHANGED storing
  /\ \/ phase' = "open" /\ UNCHANGED waiting
     \/ phase' = "closed" /\ waiting' = {}

(* A bidder finishes, or a bid enters or leaves storage. *)
Advance ==
  /\ phase # "idle"
  /\ waiting' \in SUBSET waiting
  /\ storing' \in SUBSET Storable
  /\ <<waiting', storing'>> # <<waiting, storing>>
  /\ phase' = IF phase = "open" /\ waiting' = {} /\ storing' = {}
              THEN "closed" ELSE phase

TimeUp ==
  /\ phase = "open"
  /\ phase' = "closed"
  /\ UNCHANGED <<waiting, storing>>

Report ==
  /\ phase = "closed"
  /\ phase' = "reported"
  /\ UNCHANGED <<waiting, storing>>

Next == Start \/ Advance \/ TimeUp \/ Report

(* What never happens ... *)
Safety == Init /\ [][Next]_vars

(* ... and what happens in the end. *)
Spec == Safety /\ WF_vars(TimeUp) /\ WF_vars(Report)
=============================================================================
