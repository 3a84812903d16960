--------------------------- MODULE AtomicDelivery ---------------------------
(***************************************************************************)
(* What the server promises one device, as if each operation were a single *)
(* step on a single table: a call of the northbound API changes the        *)
(* configuration, a download is a snapshot of it that leaves out nothing   *)
(* the device lacks, and the device is told that there is nothing new only *)
(* when there is not.  Webconfig, where each of these is a sequence of     *)
(* database calls that others interleave with, is shown to implement it.   *)
(***************************************************************************)
EXTENDS Integers

CONSTANTS Subdocs,  \* the sub-documents the device may be sent
          Posted    \* the versions a POST may carry

VARIABLES wanted,   \* the version of each it should have, 0 for none
          offer,    \* the versions a download under way brings, 0 for none
          held,     \* the versions the device has
          inSync    \* does it present the root version of a cloud at rest?

deliveryVars == <<wanted, offer, held, inSync>>

Nothing == [s \in Subdocs |-> 0]
Behind  == {s \in Subdocs : wanted[s] \notin {0, held[s]}}
Offered == {s \in Subdocs : offer[s] # 0}

Init == /\ wanted = Nothing
        /\ offer = Nothing
        /\ held = Nothing
        /\ inSync = FALSE

-----------------------------------------------------------------------------
\* a version the device has never had and no download under way brings
Post(s, v) ==
    /\ v > wanted[s] /\ v > offer[s] /\ v > held[s]
    /\ wanted' = [wanted EXCEPT ![s] = v]
    /\ inSync' = FALSE
    /\ UNCHANGED <<offer, held>>

\* a DELETE, an expiry, or a change outside Subdocs
Withdraw(S) ==
    /\ wanted' = [s \in Subdocs |-> IF s \in S THEN 0 ELSE wanted[s]]
    /\ inSync' \in {inSync, FALSE}
    /\ UNCHANGED <<offer, held>>

\* the configuration comes to rest under the root version the device has
Settle ==
    /\ Behind = {}
    /\ inSync' = TRUE
    /\ UNCHANGED <<wanted, offer, held>>

\* a download takes what it brings in one look at the configuration
Offer(S) ==
    /\ offer = Nothing
    /\ S # {}
    /\ Behind \subseteq S
    /\ \A s \in S : wanted[s] # 0
    /\ offer' = [s \in Subdocs |-> IF s \in S THEN wanted[s] ELSE 0]
    /\ UNCHANGED <<wanted, held, inSync>>

\* the device applies S, all of the download, a part of it or, when it is
\* lost, nothing; only the whole brings a new root version with it
Deliver(S) ==
    /\ offer # Nothing
    /\ held' = [s \in Subdocs |-> IF s \in S THEN offer[s] ELSE held[s]]
    /\ offer' = Nothing
    /\ inSync' \in BOOLEAN
    /\ S # Offered => inSync' = inSync
    /\ inSync' => Behind' = {}
    /\ UNCHANGED wanted

Next == \/ \E s \in Subdocs, v \in Posted : Post(s, v)
        \/ \E S \in SUBSET Subdocs : Withdraw(S) \/ Offer(S)
        \/ \E S \in SUBSET Offered : Deliver(S)
        \/ Settle

Spec == Init /\ [][Next]_deliveryVars

-----------------------------------------------------------------------------
\* what follows: the device has nothing newer than what is under way, nor
\* that anything newer than what is wanted
NeverAhead ==
    \A s \in Subdocs : /\ wanted[s] # 0 => wanted[s] >= offer[s] /\ wanted[s] >= held[s]
                       /\ offer[s] # 0 => offer[s] >= held[s]
=============================================================================
