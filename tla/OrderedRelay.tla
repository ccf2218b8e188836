---------------------------- MODULE OrderedRelay ----------------------------
(***************************************************************************)
(* What the chat relay promises a reader of a Discord channel: through     *)
(* each channel mapping, the messages of one sender appear in the order    *)
(* they were said, none of them twice.  It may leave messages out, and it  *)
(* promises nothing about the order between two senders.                   *)
(***************************************************************************)
EXTENDS Naturals, Sequences

CONSTANTS Senders, Targets

VARIABLES
    heard,   \* the senders of the messages read from WoW, in order
    shown    \* the deliveries made: [n |-> index in heard, target |-> mapping]

vars == <<heard, shown>>

Init == heard = <<>> /\ shown = <<>>

Hear(s) ==
    /\ heard' = Append(heard, s)
    /\ UNCHANGED shown

\* Message n may still go through mapping t.
InOrder(n, t) ==
    \A k \in DOMAIN shown :
        shown[k].target = t /\ heard[shown[k].n] = heard[n] => shown[k].n < n

Show(n, t) ==
    /\ InOrder(n, t)
    /\ shown' = Append(shown, [n |-> n, target |-> t])
    /\ UNCHANGED heard

Next ==
    \/ \E s \in Senders : Hear(s)
    \/ \E n \in DOMAIN heard, t \in Targets : Show(n, t)

Spec == Init /\ [][Next]_vars
=============================================================================
