------------------------------- MODULE Mailbox -------------------------------
(***************************************************************************)
(* What components/channel promises its users (channel.h:12-75), with no   *)
(* counter, lock or wait in sight: a bounded mailbox reached through       *)
(* handles, whose storage lives exactly as long as a handle is open.       *)
(***************************************************************************)
EXTENDS Naturals, Sequences

CONSTANTS
    Senders,        \* the handles that can put
    FirstSender,    \* the one that comes with the mailbox
    Receiver,       \* the handle that takes
    Items, NoItem, Capacity

VARIABLES
    box,        \* the items put and not yet taken
    open,       \* the handles that may be used
    storage,    \* "none", "allocated" or "released"
    result      \* what the last take obtained, NoItem when empty-handed

vars == <<box, open, storage, result>>

Init ==
    /\ box = <<>>
    /\ open = {}
    /\ storage = "none"
    /\ result = NoItem

Create ==
    /\ storage = "none"
    /\ storage' = "allocated"
    /\ open' = {Receiver, FirstSender}
    /\ UNCHANGED <<box, result>>

Put(s, item) ==
    /\ s \in open
    /\ Len(box) < Capacity
    /\ box' = Append(box, item)
    /\ UNCHANGED <<open, storage, result>>

Take ==
    /\ Receiver \in open
    /\ box # <<>>
    /\ result' = Head(box)
    /\ box' = Tail(box)
    /\ UNCHANGED <<open, storage>>

\* A take that gives up does so only while there is nothing to take.
GiveUp ==
    /\ Receiver \in open
    /\ box = <<>>
    /\ result' = NoItem
    /\ UNCHANGED <<box, open, storage>>

Share(s, clone) ==
    /\ s \in open
    /\ clone \notin open
    /\ open' = open \cup {clone}
    /\ UNCHANGED <<box, storage, result>>

Close(handle) ==
    /\ handle \in open
    /\ open' = open \ {handle}
    /\ UNCHANGED <<box, storage, result>>

\* The storage goes when no handle can reach it, and it goes once.
Release ==
    /\ storage = "allocated"
    /\ open = {}
    /\ storage' = "released"
    /\ UNCHANGED <<box, open, result>>

Next ==
    \/ Create
    \/ \E s \in Senders, item \in Items : Put(s, item)
    \/ Take
    \/ GiveUp
    \/ \E s, clone \in Senders : Share(s, clone)
    \/ \E handle \in Senders \cup {Receiver} : Close(handle)
    \/ Release

Spec == Init /\ [][Next]_vars
=============================================================================
