----------------------------- MODULE LoginCapture -----------------------------
(***************************************************************************)
(* What every honeypot server that logs logins promises about its log,     *)
(* whatever protocol it speaks: while a peer is connected the server       *)
(* reads what the peer offers, and may log as a login a pair of            *)
(* credentials this very peer has offered by then; nothing is invented,    *)
(* nothing is taken from another peer, nothing is logged after the         *)
(* connection is over and what was logged stays.                           *)
(***************************************************************************)
EXTENDS Naturals, Sequences

CONSTANT Peers

VARIABLES
    phase,     \* of a peer: "none", "open" or "lost"
    offered,   \* the pairs of credentials that may be read in what has come of it
    captured   \* the credentials logged about it, in order

captureVars == <<phase, offered, captured>>

CaptureInit ==
    /\ phase = [c \in Peers |-> "none"]
    /\ offered = [c \in Peers |-> {}]
    /\ captured = [c \in Peers |-> <<>>]

Admit(c) ==
    /\ phase[c] = "none"
    /\ phase' = [phase EXCEPT ![c] = "open"]
    /\ UNCHANGED <<offered, captured>>

\* One input of the peer is handled: at most one login is logged.
Handle(c) ==
    /\ phase[c] = "open"
    /\ phase'[c] \in {"open", "lost"}
    /\ LET before == offered[c]  after == offered'[c]
           old == captured[c]    new == captured'[c]
       IN  /\ before \subseteq after
           /\ new = old \/ \E x \in after : new = Append(old, x)
    /\ \A d \in Peers \ {c} :
          <<phase'[d], offered'[d], captured'[d]>> = <<phase[d], offered[d], captured[d]>>

CaptureNext == \E c \in Peers : Admit(c) \/ Handle(c)

CaptureSpec == CaptureInit /\ [][CaptureNext]_captureVars
===============================================================================
