--------------------------- MODULE DigestPromise ---------------------------
(***************************************************************************)
(* What the daily digest promises about each account and local date,       *)
(* whatever happens to the invocations that send it: attempts are counted  *)
(* before they are used and are limited, each one puts at most one message *)
(* into the chat, none is started once the delivery is known as sent, and  *)
(* it becomes known as sent only when a message is in the chat.            *)
(***************************************************************************)
EXTENDS Naturals

CONSTANTS Keys, MaxAttempts

VARIABLES attempts, status, messages

promise == <<attempts, status, messages>>

PromiseInit ==
  /\ attempts = [k \in Keys |-> 0]
  /\ status = [k \in Keys |-> "none"]
  /\ messages = [k \in Keys |-> [n \in 1..MaxAttempts |-> 0]]

\* An attempt is used: counted, and the delivery is pending.
BeginAttempt(k) ==
  /\ status[k] # "sent"
  /\ attempts[k] < MaxAttempts
  /\ attempts' = [attempts EXCEPT ![k] = @ + 1]
  /\ status' = [status EXCEPT ![k] = "pending"]
  /\ UNCHANGED messages

\* A counted attempt puts its message into the chat.
Deliver(k) ==
  /\ \E n \in 1..attempts[k] :
       /\ messages[k][n] = 0
       /\ messages' = [messages EXCEPT ![k][n] = 1]
  /\ UNCHANGED <<attempts, status>>

\* The outcome of some attempt is written, possibly late.
Conclude(k) ==
  /\ attempts[k] > 0
  /\ \E s \in {"failed", "sent"} :
       /\ s = "sent" => \E n \in 1..attempts[k] : messages[k][n] = 1
       /\ status' = [status EXCEPT ![k] = s]
  /\ UNCHANGED <<attempts, messages>>

PromiseNext == \E k \in Keys : BeginAttempt(k) \/ Deliver(k) \/ Conclude(k)

PromiseSpec == PromiseInit /\ [][PromiseNext]_promise
=============================================================================
