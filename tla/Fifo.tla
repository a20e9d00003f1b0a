-------------------------------- MODULE Fifo --------------------------------
(***************************************************************************)
(* What the keyboard's queue promises: characters are delivered in the     *)
(* order in which they were typed, each to one reader, and a character is  *)
(* accepted whenever fewer than Capacity are waiting.  Each one that is    *)
(* typed changes typed, so that a refusal is a step too.                   *)
(***************************************************************************)
EXTENDS Naturals, Sequences

CONSTANTS Char, Reader, Capacity

VARIABLES
    queue,     \* the characters typed and not yet read
    delivered, \* delivered[r]: the last character that r has read
    typed      \* the parity of the number of characters typed

fifo == <<queue, delivered, typed>>

FifoInit == queue = <<>> /\ delivered \in [Reader -> Char] /\ typed = 0

Put(c) ==
    /\ Len(queue) < Capacity
    /\ queue' = Append(queue, c)
    /\ typed' = 1 - typed
    /\ UNCHANGED delivered

Refuse ==
    /\ Len(queue) = Capacity
    /\ typed' = 1 - typed
    /\ UNCHANGED <<queue, delivered>>

Get(r) ==
    /\ queue # <<>>
    /\ queue' = Tail(queue)
    /\ delivered' = [delivered EXCEPT ![r] = Head(queue)]
    /\ UNCHANGED typed

FifoNext == (\E c \in Char : Put(c)) \/ Refuse \/ (\E r \in Reader : Get(r))

FifoSpec == FifoInit /\ [][FifoNext]_fifo
=============================================================================
