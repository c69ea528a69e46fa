-------------------------------- MODULE FifoLink --------------------------------
(***************************************************************************)
(* What a BSSAP connection promises: the messages of one connection, which *)
(* are numbered, arrive in order and none twice.  A message may find no    *)
(* room when it is sent; once under way it arrives, save that the last     *)
(* ones are lost when the connection dies.                                 *)
(***************************************************************************)
EXTENDS Naturals

CONSTANTS
    FlCons,     \* the connections
    FlMsgs      \* the numbers of messages, from 1
VARIABLES
    chan,       \* the numbers under way on each connection, whose order is that of the channel
    got         \* the number that arrived last on each
flVars == <<chan, got>>

FlInit == chan = [c \in FlCons |-> {}] /\ got = [c \in FlCons |-> 0]

\* The first message opens the connection, or is refused.
Open(c) ==
    /\ chan[c] = {}
    /\ \E first \in {{1}, {}} : chan' = [chan EXCEPT ![c] = first]
    /\ got' = [got EXCEPT ![c] = 0]
\* A number may be skipped: a message that finds no room is refused.
Put(c) ==
    \E m \in FlMsgs :
        /\ m > got[c] /\ \A x \in chan[c] : m > x
        /\ chan' = [chan EXCEPT ![c] = @ \cup {m}] /\ UNCHANGED got
\* The first that is under way arrives.
Get(c) ==
    \E m \in chan[c] :
        /\ \A x \in chan[c] : m <= x
        /\ got' = [got EXCEPT ![c] = m] /\ chan' = [chan EXCEPT ![c] = @ \ {m}]
Die(c) ==
    \E kept \in SUBSET chan[c] :
        /\ \A x \in kept, y \in chan[c] \ kept : x < y
        /\ chan' = [chan EXCEPT ![c] = kept] /\ UNCHANGED got
\* With the link below, every connection dies.
Break == chan' = [c \in FlCons |-> {}] /\ UNCHANGED got

FlNext == Break \/ \E c \in FlCons : Open(c) \/ Put(c) \/ Get(c) \/ Die(c)
FlSpec == FlInit /\ [][FlNext]_flVars
=============================================================================
