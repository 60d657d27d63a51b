------------------------------ MODULE UartReceive ------------------------------
(***************************************************************************)
(* The receive callback of src/Sources/drivers/uart.c.  The driver is      *)
(* external: it receives into the byte it was given, calls back, and goes  *)
(* on only if the callback has given it another.  Nothing in the program   *)
(* starts a reception; here one was started at the first byte.             *)
(***************************************************************************)
EXTENDS Integers

CONSTANTS
    BUFFER_SIZE,        \* 256
    IndexMod            \* 2^8: bufferIdx is a uint8_t

BufferAssumption ==
    /\ BUFFER_SIZE \in Nat /\ BUFFER_SIZE > 2
    /\ IndexMod \in Nat /\ IndexMod >= BUFFER_SIZE

Bytes == {"none", "other", "newline"}
Places == 0 .. BUFFER_SIZE - 1

VARIABLES
    buffer,
    bufferIdx,
    target,             \* where the driver puts the next byte
    receiving           \* whether it still does

vars == <<buffer, bufferIdx, target, receiving>>

-----------------------------------------------------------------------------
\* A definition named Faulty... is the one below it with a plausible mistake;
\* nothing uses it but the mutation runs.
FaultyLastPlace == BUFFER_SIZE

LastPlace == BUFFER_SIZE - 2

GoOn(byte) == byte # "newline" /\ bufferIdx # LastPlace

\* A byte arrives and rxCallback looks at it.
Receive(byte) ==
    /\ receiving
    /\ buffer' = [buffer EXCEPT ![target] = byte]
    /\ \/ /\ GoOn(buffer'[bufferIdx])
          /\ bufferIdx' = (bufferIdx + 1) % IndexMod
          /\ target' = bufferIdx'
          /\ UNCHANGED receiving
       \/ /\ ~GoOn(buffer'[bufferIdx])
          /\ receiving' = FALSE
          /\ UNCHANGED <<bufferIdx, target>>

Init ==
    /\ buffer = [i \in Places |-> "none"]
    /\ bufferIdx = 0 /\ target = 0
    /\ receiving = TRUE

Next == \E byte \in Bytes \ {"none"} : Receive(byte)

Spec == Init /\ [][Next]_vars

-----------------------------------------------------------------------------
\* The state of the callback: the index is the driver's target, what lies before
\* it was received and is no newline, a newline ended the reception, and the
\* last byte of the buffer stays free for the end of the string.
TypeOK ==
    /\ buffer \in [Places -> Bytes]
    /\ bufferIdx \in Places /\ target = bufferIdx
    /\ receiving \in BOOLEAN
    /\ \A i \in Places : i < bufferIdx => buffer[i] = "other"
    /\ buffer[BUFFER_SIZE - 1] = "none"
    /\ (\E i \in Places : buffer[i] = "newline") => ~receiving

\* The index neither leaves the buffer nor wraps in its eight bits: the driver
\* never gets a place that has been received into already.
NothingOverwritten ==
    [][\A i \in Places : buffer[i] # "none" => buffer'[i] = buffer[i]]_vars

================================================================================
