----------------------------- MODULE StatusFeed -----------------------------
(***************************************************************************)
(* What the status announcements of the bridge promise an operator,        *)
(* independently of how the reconnection loop keeps its flags.  During one *)
(* outage there is at most one "lost" and at most one "rejected", "lost"   *)
(* comes first, and "reconnected" is said only when the link is back and   *)
(* only as the answer to something announced before.                       *)
(***************************************************************************)
EXTENDS Integers

VARIABLES
    link,   \* "never" connected yet, "up", or "down" after having been up
    told,   \* the last announcement made
    beat    \* flips with every announcement, so that repeating one is a step

vars == <<link, told, beat>>

TypeOK ==
    /\ link \in {"never", "up", "down"}
    /\ told \in {"nothing", "lost", "rejected", "reconnected"}
    /\ beat \in {0, 1}

Init == link = "never" /\ told = "nothing" /\ beat = 0

Announce(text) == told' = text /\ beat' = 1 - beat

Connect ==
    /\ link # "up"
    /\ link' = "up"
    /\ IF told \in {"lost", "rejected"}
       THEN Announce("reconnected")
       ELSE UNCHANGED <<told, beat>>

Drop ==
    /\ link = "up"
    /\ link' = "down"
    /\ UNCHANGED <<told, beat>>

AnnounceLoss ==
    /\ link = "down"
    /\ told \in {"nothing", "reconnected"}
    /\ Announce("lost")
    /\ UNCHANGED link

AnnounceRejection ==
    /\ \/ link = "never" /\ told = "nothing"
       \/ link = "down" /\ told = "lost"
    /\ Announce("rejected")
    /\ UNCHANGED link

Next == Connect \/ Drop \/ AnnounceLoss \/ AnnounceRejection

Spec == Init /\ [][Next]_vars
=============================================================================
