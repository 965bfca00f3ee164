-------------------------------- MODULE Fifo --------------------------------
(***************************************************************************)
(* What components/queue promises: a bounded first-in first-out queue.     *)
(* Nothing is said of slots or indices.  The caller sees two things: the   *)
(* value the last call returned and the variable it passed to receive an   *)
(* item, which a pop that finds nothing leaves alone.                      *)
(***************************************************************************)
EXTENDS Naturals, Sequences

CONSTANTS Items, Capacity, NoItem

VARIABLES contents, returned, item_ref

vars == <<contents, returned, item_ref>>

Init ==
    /\ contents = <<>>
    /\ returned = FALSE
    /\ item_ref = NoItem

Push(item) ==
    /\ Len(contents) < Capacity
    /\ contents' = Append(contents, item)
    /\ returned' = TRUE
    /\ UNCHANGED item_ref

RefusePush ==
    /\ Len(contents) = Capacity
    /\ returned' = FALSE
    /\ UNCHANGED <<contents, item_ref>>

PopItem ==
    /\ contents # <<>>
    /\ item_ref' = Head(contents)
    /\ contents' = Tail(contents)
    /\ returned' = TRUE

PopNothing ==
    /\ contents = <<>>
    /\ returned' = FALSE
    /\ UNCHANGED <<contents, item_ref>>

Next ==
    \/ \E item \in Items : Push(item)
    \/ RefusePush
    \/ PopItem
    \/ PopNothing

Spec == Init /\ [][Next]_vars
=============================================================================
