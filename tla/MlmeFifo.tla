------------------------------ MODULE MlmeFifo ------------------------------
(***************************************************************************)
(* What the MLME ring of common/mlme.c gives its callers: a first-in       *)
(* first-out channel for as long as the messages waiting and the one in    *)
(* the handler's hands fit its entries.  One message more is accepted all  *)
(* the same and spoils the channel: what is taken, or already held, may be *)
(* any message, but as many are handed out as were accepted, and when the  *)
(* last one is done the channel is sound again.                            *)
(***************************************************************************)
EXTENDS Naturals, Sequences

CONSTANTS
    Capacity,   \* the entries of the ring
    Msgs,       \* the messages
    NoMsg       \* "the handler holds no element"

VARIABLES
    queue,      \* accepted messages, oldest first
    elem,       \* the message being performed, or NoMsg
    spoiled     \* a message was accepted beyond the capacity

vars == <<queue, elem, spoiled>>

Init == queue = << >> /\ elem = NoMsg /\ spoiled = FALSE

\* The messages that need an entry.
InUse == Len(queue) + (IF elem = NoMsg THEN 0 ELSE 1)

\* A message for which the enqueuer gets TRUE.
Accept(m) ==
    /\ queue' = Append(queue, m)
    /\ spoiled' = (spoiled \/ InUse >= Capacity)
    /\ elem' = elem \/ (spoiled' /\ elem # NoMsg /\ elem' = m)

\* The handler takes the oldest message ...
Take ==
    /\ elem = NoMsg
    /\ queue # << >>
    /\ queue' = Tail(queue)
    /\ elem' \in IF spoiled THEN Msgs ELSE {Head(queue)}
    /\ UNCHANGED spoiled

\* ... and is done with it.
Done ==
    /\ elem # NoMsg
    /\ elem' = NoMsg
    /\ spoiled' = (spoiled /\ queue # << >>)
    /\ UNCHANGED queue

\* The queue is torn down with whatever it holds; nothing is promised of an
\* element still in the handler's hands.
Destroy == queue' = << >> /\ elem' = NoMsg /\ spoiled' = FALSE

Next == (\E m \in Msgs : Accept(m)) \/ Take \/ Done \/ Destroy

Spec == Init /\ [][Next]_vars
=============================================================================
