--------------------------- MODULE CourierDelivery ---------------------------
(***************************************************************************)
(* What a stream courier promises for the messages handed to its Send:     *)
(* a message waits until it is written to a connection, it is written once *)
(* at most, and it is thrown away only after the owner deleted the courier.*)
(* BarbaCourierStream is shown to implement this specification.            *)
(***************************************************************************)
EXTENDS Naturals

CONSTANT Message      \* the messages (tunnelled IP packets) ever handed to Send

VARIABLES
  status,             \* where each message is in its life
  sentCount,          \* how many successful socket writes contained it
  disposing           \* has Delete been called?

vars == <<status, sentCount, disposing>>

Status == {"new", "pending", "sent", "dropped"}

TypeOK ==
  /\ status \in [Message -> Status]
  /\ sentCount \in [Message -> Nat]
  /\ disposing \in BOOLEAN

Init ==
  /\ status = [m \in Message |-> "new"]
  /\ sentCount = [m \in Message |-> 0]
  /\ disposing = FALSE

\* The status map after every message of S went to status st.
Become(S, st) == [m \in Message |-> IF m \in S THEN st ELSE status[m]]

Accept(m) ==
  /\ status[m] = "new"
  /\ status' = Become({m}, "pending")
  /\ UNCHANGED <<sentCount, disposing>>

\* One packet carries a non-empty set of pending messages.
Transmit(S) ==
  /\ S # {}
  /\ \A m \in S : status[m] = "pending"
  /\ status' = Become(S, "sent")
  /\ sentCount' = [m \in Message |-> IF m \in S THEN sentCount[m] + 1 ELSE sentCount[m]]
  /\ UNCHANGED disposing

Discard(S) ==
  /\ disposing
  /\ \A m \in S : status[m] = "pending"
  /\ status' = Become(S, "dropped")
  /\ UNCHANGED <<sentCount, disposing>>

Delete ==
  /\ disposing' = TRUE
  /\ UNCHANGED <<status, sentCount>>

Next ==
  \/ \E m \in Message : Accept(m)
  \/ \E S \in SUBSET Message : Transmit(S) \/ Discard(S)
  \/ Delete

Spec == Init /\ [][Next]_vars
=============================================================================
