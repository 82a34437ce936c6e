---------------------------- MODULE W5100Status ----------------------------
(***************************************************************************)
(* The statuses of a W5100 socket (Sn_SR of Ethernet/utility/w5100.h), the *)
(* commands of Sn_CR and what they do, and what the network does.          *)
(*                                                                         *)
(* The chip is hardware; nothing under Ethernet/ implements it.  What it   *)
(* does with a command, and what it does on its own, is read off the       *)
(* driver: the codes of w5100.h and the waiting loops of socket.c,         *)
(* ASocket.cpp and AClient.cpp.                                            *)
(***************************************************************************)
EXTENDS Integers

CONSTANT MaxSock            \* MAX_SOCK_NUM, the number of hardware sockets

\* SOCKET is an unsigned byte and 255 means "none".
ASSUME MaxSockAssumption == MaxSock \in 1 .. 254

Sock == 0 .. MaxSock - 1

Status == { "CLOSED", "INIT", "LISTEN", "SYNSENT", "SYNRECV", "ESTABLISHED",
            "FIN_WAIT", "CLOSING", "TIME_WAIT", "CLOSE_WAIT", "LAST_ACK", "UDP" }

\* The modes initTCP() and initUDP() ask for.
Protocol == { "TCP", "UDP" }

-----------------------------------------------------------------------------
(* Commands of the driver. *)

\* The status OPEN gives a closed socket, by the mode written to Sn_MR.
OpenStatus(protocol) == IF protocol = "TCP" THEN "INIT" ELSE "UDP"

\* The statuses in which SEND has something to do.
Sendable == { "ESTABLISHED", "CLOSE_WAIT", "UDP" }

\* The status that command cmd (not OPEN) leaves; a command that makes no sense in
\* the status the socket is in has no effect.
AfterCommand(cmd, status) ==
  CASE cmd = "CLOSE" -> "CLOSED"
    [] cmd = "LISTEN"  /\ status = "INIT"        -> "LISTEN"
    [] cmd = "CONNECT" /\ status = "INIT"        -> "SYNSENT"
    [] cmd = "DISCON"  /\ status = "ESTABLISHED" -> "FIN_WAIT"
    [] cmd = "DISCON"  /\ status = "CLOSE_WAIT"  -> "LAST_ACK"
    [] OTHER -> status

\* Is a SEND under way after command cmd, if it was (busy) or was not before?
AfterSending(cmd, status, busy) ==
  CASE cmd = "CLOSE" -> FALSE
    [] cmd = "SEND" /\ status \in Sendable -> TRUE
    [] OTHER -> busy

-----------------------------------------------------------------------------
\* The status changes the network brings about: handshakes, the peer's FIN, an ACK of
\* our FIN, and a reset or a retransmission timeout, which close the socket.  A closed
\* socket, one that is only INIT, and a UDP socket do not move by themselves.
NetStep ==
  { << "LISTEN", "SYNRECV" >>,       << "SYNRECV", "ESTABLISHED" >>,
    << "SYNSENT", "ESTABLISHED" >>,  << "ESTABLISHED", "CLOSE_WAIT" >>,
    << "FIN_WAIT", "CLOSING" >>,     << "FIN_WAIT", "TIME_WAIT" >>,
    << "CLOSING", "TIME_WAIT" >> }
  \cup ({ "SYNSENT", "SYNRECV", "ESTABLISHED", "FIN_WAIT", "CLOSING",
          "TIME_WAIT", "CLOSE_WAIT", "LAST_ACK" } \X { "CLOSED" })
=============================================================================
