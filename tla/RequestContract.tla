-------------------------- MODULE RequestContract ---------------------------
(***************************************************************************)
(* What a caller of GatewayService.send_and_wait_with_retries may rely on: *)
(* a call makes at least one and at most MaxAttempts attempts, one after   *)
(* the other; it fails only after the last of them; and it succeeds only   *)
(* with a reply that some device gave to a request of the same device and  *)
(* opcode.  RequestReply implements this.                                  *)
(***************************************************************************)
EXTENDS Integers

CONSTANTS Callers, Keys, MaxAttempts

VARIABLES
  phase,     \* phase[t]: "idle", "open", "replied" or "failed"
  asked,     \* asked[t]: the device and opcode of t's current or last call
  attempts,  \* attempts[t]: attempts made by t's open call
  replies    \* keys for which some device has given a reply

vars == <<phase, asked, attempts, replies>>

Init ==
  /\ phase = [t \in Callers |-> "idle"]
  /\ asked \in [Callers -> Keys]
  /\ attempts = [t \in Callers |-> 0]
  /\ replies = {}

Begin(t) ==
  /\ phase[t] = "idle"
  /\ phase' = [phase EXCEPT ![t] = "open"]
  /\ \E k \in Keys : asked' = [asked EXCEPT ![t] = k]
  /\ UNCHANGED <<attempts, replies>>

Attempt(t) ==
  /\ phase[t] = "open"
  /\ attempts[t] < MaxAttempts
  /\ attempts' = [attempts EXCEPT ![t] = @ + 1]
  /\ UNCHANGED <<phase, asked, replies>>

Succeed(t) ==
  /\ phase[t] = "open"
  /\ attempts[t] > 0
  /\ asked[t] \in replies
  /\ phase' = [phase EXCEPT ![t] = "replied"]
  /\ UNCHANGED <<asked, attempts, replies>>

Fail(t) ==
  /\ phase[t] = "open"
  /\ attempts[t] = MaxAttempts
  /\ phase' = [phase EXCEPT ![t] = "failed"]
  /\ UNCHANGED <<asked, attempts, replies>>

Return(t) ==
  /\ phase[t] \in {"replied", "failed"}
  /\ phase' = [phase EXCEPT ![t] = "idle"]
  /\ attempts' = [attempts EXCEPT ![t] = 0]
  /\ UNCHANGED <<asked, replies>>

\* A call that does not wait for its reply: nothing is promised to it.
Cast(t) ==
  /\ phase[t] = "idle"
  /\ \E k \in Keys : asked' = [asked EXCEPT ![t] = k]
  /\ UNCHANGED <<phase, attempts, replies>>

DeviceReplies(k) ==
  /\ replies' = replies \cup {k}
  /\ UNCHANGED <<phase, asked, attempts>>

Next ==
  \/ \E t \in Callers :
       Begin(t) \/ Attempt(t) \/ Succeed(t) \/ Fail(t) \/ Return(t) \/ Cast(t)
  \/ \E k \in Keys : DeviceReplies(k)

Spec == Init /\ [][Next]_vars
=============================================================================
