---------------------------- MODULE UpdateSession ----------------------------
(***************************************************************************)
(* What the OTA service of ECU6 promises, without requests, keys, timers or *)
(* counters: a new software version appears only at the end of a session   *)
(* that was authorised, opened, filled, checked and offered, in this order, *)
(* and the image it stands for is the one that was checked.  Losing the    *)
(* authorisation, or any refusal, gives the image up.                      *)
(***************************************************************************)
EXTENDS Integers, Sequences

CONSTANTS
    Block,          \* what an image is made of
    Capacity,       \* most blocks an image may have
    LastVersion     \* after this version comes version 1 again

VARIABLES
    phase,
    image,          \* blocks received in the open session
    version

svars == <<phase, image, version>>

Phases == {"closed", "authorised", "open", "checked", "offered", "installed"}

NextVersion(v) == IF v >= LastVersion THEN 1 ELSE v + 1

Init == phase = "closed" /\ image = << >> /\ version = 1

Authorise ==
    /\ phase = "closed"
    /\ phase' = "authorised"
    /\ UNCHANGED <<image, version>>

\* A running session may be started over.
Open ==
    /\ phase # "closed"
    /\ phase' = "open" /\ image' = << >>
    /\ UNCHANGED version

Receive ==
    /\ phase = "open"
    /\ image' \in Seq(Block)
    /\ Len(image) <= Len(image') /\ Len(image') <= Capacity
    /\ \A i \in 1 .. Len(image) : image'[i] = image[i]
    /\ UNCHANGED <<phase, version>>

Check ==
    /\ phase = "open"
    /\ phase' = "checked"
    /\ UNCHANGED <<image, version>>

Offer ==
    /\ phase = "checked"
    /\ phase' = "offered"
    /\ UNCHANGED <<image, version>>

Install ==
    /\ phase = "offered"
    /\ phase' = "installed"
    /\ version' = NextVersion(version)
    /\ UNCHANGED image

GiveUp ==
    /\ phase # "closed"
    /\ phase' \in {"closed", "authorised"} /\ image' = << >>
    /\ UNCHANGED version

Next == Authorise \/ Open \/ Receive \/ Check \/ Offer \/ Install \/ GiveUp

Spec == Init /\ [][Next]_svars

=============================================================================
