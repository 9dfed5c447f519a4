---------------------------- MODULE SendContract ----------------------------
(***************************************************************************)
(* What a caller of GatewaySerialTransport._send_m2n may rely on, whatever *)
(* the other threads, the gateway and the USB cable do: a call is answered *)
(* by exactly one SendOutcome, the answer is never revised, and no single  *)
(* step of the system answers two calls.  GatewaySend implements this.     *)
(***************************************************************************)
CONSTANT Senders

VARIABLE call      \* call[t]: "idle", "open", or the code of its outcome

Codes == {"SUCCESS", "REJECTED", "TIMEOUT", "USB_ERROR"}

Init == call = [t \in Senders |-> "idle"]

Begin(t) ==
  /\ call[t] = "idle"
  /\ call' = [call EXCEPT ![t] = "open"]

Answer(t) ==
  /\ call[t] = "open"
  /\ \E c \in Codes : call' = [call EXCEPT ![t] = c]

Finish(t) ==
  /\ call[t] \in Codes
  /\ call' = [call EXCEPT ![t] = "idle"]

Next == \E t \in Senders : Begin(t) \/ Answer(t) \/ Finish(t)

Spec == Init /\ [][Next]_call
=============================================================================
