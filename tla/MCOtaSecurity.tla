---------------------------- MODULE MCOtaSecurity ----------------------------
(***************************************************************************)
(* OtaSecurity with two-bit bytes: the low two bits of the code's masks,   *)
(* payload bytes from MCData, and every value of the byte each command     *)
(* interprets.                                                             *)
(***************************************************************************)
EXTENDS OtaSecurity, Bitwise

CONSTANT MCData

\* Exclusive or, tabulated: TLC evaluates a constant once.
XorTable == [p \in Byte \X Byte |-> p[1] ^^ p[2]]
MCXor(a, b) == XorTable[<<a, b>>]

Plain(cmd, args) ==
    [cmd : {cmd}, seq : {0}, arg : args, auth : {0},
     data : {[i \in 1 .. PayloadMax |-> 0]}]

MCRequests ==
    UNION {Plain(cmd, {0}) : cmd \in {"START", "ACTIVATE", "ABORT",
                                      "REQUEST_SEED", "UNKNOWN"}}
    \cup Plain("SEND_KEY", Byte)
    \cup Plain("END", Byte)
    \cup {r \in [cmd : {"DATA"}, seq : {1}, arg : Byte, auth : Byte,
                 data : [1 .. PayloadMax -> MCData \cup {0}]] :
             \A i \in 1 .. PayloadMax :
                 r.data[i] # 0 <=> i <= r.arg /\ r.arg <= PayloadMax}

=============================================================================
