----------------------------- MODULE StackSample -----------------------------
(***************************************************************************)
(* components/stack-sample: a stack serialised into one fixed-size struct. *)
(* Strings are packed into a buffer and found again through the offset and *)
(* the length kept for each frame.  A string is its text and its length;   *)
(* its characters are told apart by the text and their position in it.     *)
(***************************************************************************)
EXTENDS Naturals, Sequences

CONSTANTS
    Texts,          \* what strings may say
    Lengths,        \* how long they may be
    Lines,          \* line numbers
    MaxDepth,       \* datadog_php_stack_sample_max_depth
    BufferSize,     \* sizeof(sample->buffer)
    Nul,            \* the character '\0'
    NoFrame         \* nothing was read yet

ASSUME SizesAssumption ==
    /\ MaxDepth \in Nat /\ BufferSize \in Nat \ {0}
    /\ Lengths \subseteq Nat
ASSUME NulAssumption == Nul \notin Texts \X Nat

VARIABLES
    depth, buffer_len,
    function_off, function_len,     \* one entry for each depth, and one more
    file_off, file_len,
    lineno,
    buffer,
    returned,       \* what the last try_add returned
    it_depth,       \* the iterator of the sample
    frame           \* the last frame read through it

arrays == <<function_off, function_len, file_off, file_len, lineno>>
sample == <<depth, buffer_len, arrays, buffer>>
vars == <<sample, returned, it_depth, frame>>

Strings == [text : Texts, len : Lengths]
StackFrames == [function : Strings, file : Strings, lineno : Lines]

Depths == 0..MaxDepth
Positions == 0..(BufferSize - 1)
Char(string, i) == <<string.text, i>>
Chars == (Texts \X Nat) \cup {Nul}
Spelled(string) == [i \in 1..string.len |-> Char(string, i - 1)]

TypeOK ==
    /\ depth \in Depths
    /\ buffer_len \in 1..BufferSize
    /\ function_off \in [Depths -> Positions]
    /\ function_len \in [Depths -> 0..BufferSize]
    /\ file_off \in [Depths -> Positions]
    /\ file_len \in [Depths -> 0..BufferSize]
    /\ lineno \in [Depths -> Lines \cup {0}]
    /\ buffer \in [Positions -> Chars]
    /\ returned \in BOOLEAN
    /\ it_depth \in Depths

-----------------------------------------------------------------------------
(* stack_sample_default_ctor: memset, and the empty string at position 0 *)
Zeros == [d \in Depths |-> 0]

Init ==
    /\ depth = 0
    /\ buffer_len = 1
    /\ function_off = Zeros /\ function_len = Zeros
    /\ file_off = Zeros /\ file_len = Zeros
    /\ lineno = Zeros
    /\ buffer = [p \in Positions |-> Nul]
    /\ returned = FALSE
    /\ it_depth = 0
    /\ frame = NoFrame

Ctor ==
    /\ depth' = 0
    /\ buffer_len' = 1
    /\ function_off' = Zeros /\ function_len' = Zeros
    /\ file_off' = Zeros /\ file_len' = Zeros
    /\ lineno' = Zeros
    /\ buffer' = [p \in Positions |-> Nul]
    /\ UNCHANGED <<returned, it_depth, frame>>

-----------------------------------------------------------------------------
(* try_add_string, on a buffer that is filled up to `len' *)

\* Bug variant: no room is asked for the terminator.
FitsExactly(len, string) == string.len = 0 \/ len + string.len <= BufferSize

Fits(len, string) == string.len = 0 \/ len + string.len + 1 <= BufferSize

Offset(len, string) == IF string.len = 0 THEN 0 ELSE len

\* Bug variant: no terminator is left between two strings.
LenPacked(len, string) == len + string.len

LenAfter(len, string) == IF string.len = 0 THEN len ELSE len + string.len + 1

Copy(buf, len, string) ==
    [p \in Positions |->
        IF p \in len..(len + string.len - 1) THEN Char(string, p - len) ELSE buf[p]]

(* datadog_php_stack_sample_try_add *)

TryAddTooDeep ==
    /\ depth >= MaxDepth
    /\ returned' = FALSE
    /\ UNCHANGED <<sample, it_depth, frame>>

TryAddNoFunction(f) ==
    /\ depth < MaxDepth
    /\ ~Fits(buffer_len, f.function)
    /\ returned' = FALSE
    /\ UNCHANGED <<sample, it_depth, frame>>

\* The function is in the buffer and in the arrays when the file is refused.
StoreFunction(f) ==
    /\ depth < MaxDepth
    /\ Fits(buffer_len, f.function)
    /\ function_off' = [function_off EXCEPT ![depth] = Offset(buffer_len, f.function)]
    /\ function_len' = [function_len EXCEPT ![depth] = f.function.len]

\* Bug variant: the frame is counted before its file was stored.
TryAddNoFileCounted(f) ==
    /\ StoreFunction(f)
    /\ ~Fits(LenAfter(buffer_len, f.function), f.file)
    /\ buffer' = Copy(buffer, buffer_len, f.function)
    /\ buffer_len' = LenAfter(buffer_len, f.function)
    /\ depth' = depth + 1
    /\ returned' = FALSE
    /\ UNCHANGED <<file_off, file_len, lineno, it_depth, frame>>

TryAddNoFile(f) ==
    /\ StoreFunction(f)
    /\ ~Fits(LenAfter(buffer_len, f.function), f.file)
    /\ buffer' = Copy(buffer, buffer_len, f.function)
    /\ buffer_len' = LenAfter(buffer_len, f.function)
    /\ returned' = FALSE
    /\ UNCHANGED <<depth, file_off, file_len, lineno, it_depth, frame>>

TryAdd(f) ==
    LET len == LenAfter(buffer_len, f.function)
    IN  /\ StoreFunction(f)
        /\ Fits(len, f.file)
        /\ file_off' = [file_off EXCEPT ![depth] = Offset(len, f.file)]
        /\ file_len' = [file_len EXCEPT ![depth] = f.file.len]
        /\ buffer' = Copy(Copy(buffer, buffer_len, f.function), len, f.file)
        /\ buffer_len' = LenAfter(len, f.file)
        /\ lineno' = [lineno EXCEPT ![depth] = f.lineno]
        /\ depth' = depth + 1
        /\ returned' = TRUE
        /\ UNCHANGED <<it_depth, frame>>

-----------------------------------------------------------------------------
(* The iterator, as datadog_php_recorder_add uses it: a frame is asked for,
   and next is called, only while the iterator is valid. *)

IteratorCtor ==
    /\ it_depth' = 0
    /\ UNCHANGED <<sample, returned, frame>>

IteratorValid == it_depth < depth

View(off, len) == [i \in 1..len |-> buffer[off + i - 1]]
FrameAt(d) == [function |-> View(function_off[d], function_len[d]),
               file |-> View(file_off[d], file_len[d]),
               lineno |-> lineno[d]]

IteratorFrame ==
    /\ IteratorValid
    /\ frame' = FrameAt(it_depth)
    /\ UNCHANGED <<sample, returned, it_depth>>

IteratorNext ==
    /\ IteratorValid
    /\ it_depth' = it_depth + 1
    /\ UNCHANGED <<sample, returned, frame>>

Next ==
    \/ Ctor
    \/ TryAddTooDeep
    \/ \E f \in StackFrames : TryAddNoFunction(f) \/ TryAddNoFile(f) \/ TryAdd(f)
    \/ IteratorCtor
    \/ IteratorFrame
    \/ IteratorNext

Spec == Init /\ [][Next]_vars

-----------------------------------------------------------------------------
(* Every string of a frame that was added is inside the used part of the
   buffer and still followed by its terminator, whatever was added, or refused
   halfway, after it. *)
Terminated(off, len) == off + len < buffer_len /\ buffer[off + len] = Nul
StringsTerminated == \A d \in 0..(depth - 1) :
    /\ Terminated(function_off[d], function_len[d])
    /\ Terminated(file_off[d], file_len[d])

(* The part of the buffer that is not used yet is all zeros: try_add_string
   writes no terminator but relies on it. *)
RestIsZero == \A p \in Positions : p >= buffer_len => buffer[p] = Nul

(* A frame reads back as it was added, in its place, and an add that fails
   after it stored half of the frame changes none that was there. *)
Abstract == INSTANCE FrameList WITH
    Frames <- {[function |-> Spelled(f.function), file |-> Spelled(f.file),
                lineno |-> f.lineno] : f \in StackFrames},
    frames <- [i \in 1..depth |-> FrameAt(i - 1)],
    at <- it_depth
ImplementsFrameList == Abstract!Spec
=============================================================================
