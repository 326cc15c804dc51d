--------------------------- MODULE MessagePassing ---------------------------
(***************************************************************************)
(* What rendezvous.h promises its users, without tables, locks or          *)
(* callbacks: under each key one message passes from one producer to one   *)
(* consumer, whichever comes first; further calls under the key are        *)
(* refused, and after an abort nobody waits for ever.                      *)
(***************************************************************************)
CONSTANTS Key, Sender, Receiver, Empty

VARIABLES
    aborted,   \* "no" or "yes"
    skey,      \* Sender -> its key
    sent,      \* Sender -> "idle", "sent" or "refused"
    rkey,      \* Receiver -> its key
    asked,     \* Receiver -> "idle", "asked", or how it was answered
    got        \* Receiver -> the message it got, or Empty

vars == <<aborted, skey, sent, rkey, asked, got>>

Init ==
    /\ aborted = "no"
    /\ skey \in [Sender -> Key] /\ rkey \in [Receiver -> Key]
    /\ sent = [s \in Sender |-> "idle"]
    /\ asked = [r \in Receiver |-> "idle"]
    /\ got = [r \in Receiver |-> Empty]

(* The first message under a key is accepted.                              *)
Accept(s) ==
    /\ sent[s] = "idle" /\ aborted = "no"
    /\ \A t \in Sender : skey[t] = skey[s] => sent[t] # "sent"
    /\ sent' = [sent EXCEPT ![s] = "sent"]
    /\ UNCHANGED <<aborted, skey, rkey, asked, got>>

Refuse(s) ==
    /\ sent[s] = "idle"
    /\ \/ aborted = "yes"
       \/ \E t \in Sender : skey[t] = skey[s] /\ sent[t] = "sent"
    /\ sent' = [sent EXCEPT ![s] = "refused"]
    /\ UNCHANGED <<aborted, skey, rkey, asked, got>>

Ask(r) ==
    /\ asked[r] = "idle"
    /\ asked' = [asked EXCEPT ![r] = "asked"]
    /\ UNCHANGED <<aborted, skey, sent, rkey, got>>

(* The message goes to one of those who asked for it.                      *)
Deliver(r) ==
    /\ asked[r] = "asked"
    /\ \A q \in Receiver : rkey[q] = rkey[r] => asked[q] # "delivered"
    /\ \E s \in Sender :
          /\ sent[s] = "sent" /\ skey[s] = rkey[r]
          /\ got' = [got EXCEPT ![r] = s]
    /\ asked' = [asked EXCEPT ![r] = "delivered"]
    /\ UNCHANGED <<aborted, skey, sent, rkey>>

(* A receiver is turned away only when another one asked under its key, or *)
(* after an abort.                                                         *)
TurnAway(r) ==
    /\ asked[r] = "asked"
    /\ \/ aborted = "yes"
       \/ \E q \in Receiver \ {r} : rkey[q] = rkey[r] /\ asked[q] # "idle"
    /\ asked' = [asked EXCEPT ![r] = "turned_away"]
    /\ UNCHANGED <<aborted, skey, sent, rkey, got>>

Abort ==
    /\ aborted = "no" /\ aborted' = "yes"
    /\ UNCHANGED <<skey, sent, rkey, asked, got>>

Next ==
    \/ \E s \in Sender : Accept(s) \/ Refuse(s)
    \/ \E r \in Receiver : Ask(r) \/ Deliver(r) \/ TurnAway(r)
    \/ Abort

Spec == Init /\ [][Next]_vars
=============================================================================
