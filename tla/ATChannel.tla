------------------------------- MODULE ATChannel -------------------------------
(***************************************************************************)
(* What the AT channel promises the drivers that share it: commands and    *)
(* answers in strict alternation, each answer to the client that asked.    *)
(* There is no mutex, no serial line and no URC here: ATSockets and        *)
(* N2xxSockets implement this specification with those.                    *)
(***************************************************************************)
CONSTANTS
  Clients,    \* who may use the channel
  Commands,   \* what they may ask
  None        \* no command

VARIABLES
  waiting,    \* per client: the command it waits to hear about
  request,    \* the command the modem has not answered
  reply       \* an answer is under way

vars == <<waiting, request, reply>>

Init ==
  /\ waiting = [c \in Clients |-> None]
  /\ request = None
  /\ reply = FALSE

\* A client asks, and waits: nobody else may be waiting then.
Ask(c, q) ==
  /\ \A d \in Clients : waiting[d] = None
  /\ request = None /\ ~reply
  /\ waiting' = [waiting EXCEPT ![c] = q]
  /\ request' = q
  /\ UNCHANGED reply

\* The modem deals with the request; its answer may get lost.
Answer ==
  /\ request # None
  /\ request' = None
  /\ reply' \in BOOLEAN
  /\ UNCHANGED waiting

\* The client takes the answer, or has waited for it long enough.
Hear(c) ==
  /\ waiting[c] # None
  /\ request = None
  /\ waiting' = [waiting EXCEPT ![c] = None]
  /\ reply' = FALSE
  /\ UNCHANGED request

\* It has heard, and asks on in the same step.
HearAndAsk(c, q) ==
  /\ waiting[c] # None
  /\ request = None
  /\ waiting' = [waiting EXCEPT ![c] = q]
  /\ request' = q
  /\ reply' = FALSE

Next ==
  \/ \E c \in Clients : Hear(c)
  \/ \E c \in Clients, q \in Commands : Ask(c, q) \/ HearAndAsk(c, q)
  \/ Answer

Spec == Init /\ [][Next]_vars
================================================================================
