---------------------------- MODULE ModbusClient ----------------------------
(***************************************************************************)
(* The PLC client (ModbusTcpClient): connect2 and the two requests. Bytes  *)
(* are numbers below 2^w, a register holds two. A request has the header   *)
(* of six bytes and then, where the protocol has the unit, the function:   *)
(* the code writes the function over the unit it has put there. The PLC is *)
(* external and takes frames as the protocol defines them; an answer is    *)
(* assumed to come in one piece.                                           *)
(***************************************************************************)
EXTENDS Integers, Sequences

CONSTANTS PlcBytes,     \* bytes of addresses, counts and values
          MaxStartups   \* bound: calls of WSAStartup

ASSUME ModbusAssumption ==
    PlcBytes \subseteq Nat /\ 0 \in PlcBytes /\ MaxStartups \in Nat \ {0}

VARIABLES socket,    \* m_socket: invalid or open
          startups,  \* WSAStartup without its WSACleanup
          registers, \* of the PLC, by the two bytes of their address
          asked,     \* the call that is being made
          frame,     \* what was sent from byte 6 on
          result     \* what the last request returned

modVars == <<socket, startups, registers, asked, frame, result>>

ReadCode == 3
WriteCode == 6
Words == PlcBytes \X PlcBytes
ZeroWord == <<0, 0>>

ModInit ==
    /\ socket = "invalid" /\ startups = 0
    /\ registers = [a \in Words |-> ZeroWord]
    /\ asked = "nothing" /\ frame = << >> /\ result = "none"

(* A socket that is still open is lost; a failed socket() alone cleans up *)
connect2 ==
    /\ asked = "nothing" /\ startups < MaxStartups
    /\ \/ socket' = "open" /\ startups' = startups + 1
       \/ socket' = "invalid" /\ startups' = startups + 1
       \/ socket' = "invalid" /\ UNCHANGED startups
    /\ UNCHANGED <<registers, asked, frame, result>>

(* Twelve bytes are sent: the last of them stays 0 *)
readHoldingRegisters ==
    /\ asked = "nothing" /\ socket = "open"
    /\ \E start, count \in Words :
        frame' = <<ReadCode, start[1], start[2], count[1], count[2], 0>>
    /\ asked' = "read"
    /\ UNCHANGED <<socket, startups, registers, result>>

writeSingleRegister ==
    /\ asked = "nothing" /\ socket = "open"
    /\ \E address, value \in Words :
        frame' = <<WriteCode, address[1], address[2], value[1], value[2]>>
    /\ asked' = "write"
    /\ UNCHANGED <<socket, startups, registers, result>>

-----------------------------------------------------------------------------
(* The PLC: unit, function, data. It knows the two functions, answers others, a
   count of 0 or above 125 and a write that is too short with an exception. *)
FrameFunction == frame[2]
FrameWrites == FrameFunction = WriteCode /\ Len(frame) = 6
Exception(code) == code + 128

(* Byte 7 of the answer. A read whose data ends in 0 asks for a count that is a
   multiple of 256, which is 0 or too high. *)
AnswerFunction == IF FrameWrites THEN WriteCode ELSE Exception(FrameFunction)

Succeeds(call) == AnswerFunction = IF call = "read" THEN ReadCode ELSE WriteCode

(* A call ends with the answer, or with an error when the connection breaks *)
Answered ==
    /\ asked # "nothing"
    /\ registers' = IF FrameWrites
                    THEN [registers EXCEPT ![<<frame[3], frame[4]>>] = <<frame[5], frame[6]>>]
                    ELSE registers
    /\ result' = IF Succeeds(asked) THEN "true" ELSE "false"
    /\ asked' = "nothing" /\ frame' = << >>
    /\ UNCHANGED <<socket, startups>>

Broken ==
    /\ asked # "nothing"
    /\ result' = "false"
    /\ asked' = "nothing" /\ frame' = << >>
    /\ UNCHANGED <<socket, startups, registers>>

(* The destructor closes the socket and cleans nothing up; a new client *)
NewClient ==
    /\ asked = "nothing"
    /\ socket' = "invalid" /\ result' = "none"
    /\ UNCHANGED <<startups, registers, asked, frame>>

ModNext ==
    connect2 \/ readHoldingRegisters \/ writeSingleRegister \/ Answered \/ Broken \/ NewClient

ModSpec == ModInit /\ [][ModNext]_modVars

-----------------------------------------------------------------------------
(* Types; whatever is asked, and although a read may write a register, the PLC
   answers no request with the function that was asked for. *)
ModTypeOK ==
    /\ socket \in {"invalid", "open"} /\ startups \in 0 .. MaxStartups
    /\ registers \in [Words -> Words]
    /\ asked \in {"nothing", "read", "write"}
    /\ (asked = "nothing") = (frame = << >>)
    /\ frame # << >> => Len(frame) \in {5, 6} /\ frame[1] \in {ReadCode, WriteCode}
    /\ result \in {"none", "false"}
=============================================================================
