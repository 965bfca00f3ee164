------------------------------ MODULE FrameList ------------------------------
(***************************************************************************)
(* What components/stack-sample promises: a list of frames that grows at   *)
(* the end, as long as there is room, and is read back from the front.     *)
(* Nothing is said of offsets or of the buffer that holds the strings.     *)
(***************************************************************************)
EXTENDS Naturals, Sequences

CONSTANTS
    Frames,     \* what a frame read back may be
    MaxDepth, NoFrame

VARIABLES
    frames,     \* the frames added, the leaf of the stack first
    returned,   \* the value of the last attempt to add one
    at,         \* how many frames the iterator has passed
    frame       \* the last frame read through it

vars == <<frames, returned, at, frame>>

Init ==
    /\ frames = <<>>
    /\ returned = FALSE
    /\ at = 0
    /\ frame = NoFrame

Clear ==
    /\ frames' = <<>>
    /\ UNCHANGED <<returned, at, frame>>

Add(f) ==
    /\ Len(frames) < MaxDepth
    /\ frames' = Append(frames, f)
    /\ returned' = TRUE
    /\ UNCHANGED <<at, frame>>

\* A frame there is no room for leaves no trace.
Refuse ==
    /\ returned' = FALSE
    /\ UNCHANGED <<frames, at, frame>>

Rewind ==
    /\ at' = 0
    /\ UNCHANGED <<frames, returned, frame>>

Read ==
    /\ at < Len(frames)
    /\ frame' = frames[at + 1]
    /\ UNCHANGED <<frames, returned, at>>

Advance ==
    /\ at < Len(frames)
    /\ at' = at + 1
    /\ UNCHANGED <<frames, returned, frame>>

Next == Clear \/ (\E f \in Frames : Add(f)) \/ Refuse \/ Rewind \/ Read \/ Advance

Spec == Init /\ [][Next]_vars
=============================================================================
