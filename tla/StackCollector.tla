--------------------------- MODULE StackCollector ---------------------------
(***************************************************************************)
(* profiling/stack-collector: the walk over the engine's call frames, from *)
(* the running function to its callers, that fills a stack sample.         *)
(* An iteration of the loop is a step.  A name is formatted to             *)
(* module|class::function; only its length and its text matter here.       *)
(***************************************************************************)
EXTENDS Naturals, Sequences, FiniteSets

CONSTANTS
    Calls,          \* the call frames (zend_execute_data) there may be
    MaxCalls,       \* bound on the length of their chain
    NameSize,       \* sizeof buffer, the room for a formatted name
    PhpText,        \* the text of "<php>"
    Texts, Lengths, Lines, MaxDepth, BufferSize, Nul, NoFrame

VARIABLES
    stack,          \* the chain the walk started from
    execute_data,   \* what is left of it
    walk_depth,     \* the local `depth'
    walking,
    depth, buffer_len, function_off, function_len,
    file_off, file_len, lineno, buffer, returned,
    it_depth, frame     \* the sample's iterator: nothing reads it here

S == INSTANCE StackSample

sample == <<depth, buffer_len, function_off, function_len,
            file_off, file_len, lineno, buffer, returned,
            it_depth, frame>>
vars == <<stack, execute_data, walk_depth, walking, sample>>

(* Any sizes will do that have room for the empty string and for "<php>". *)
ASSUME SizesAssumption ==
    /\ MaxDepth \in Nat /\ BufferSize \in Nat \ {0}
    /\ NameSize \in Nat /\ NameSize > 5
    /\ Lengths \subseteq Nat
ASSUME TextsAssumption == PhpText \in Texts /\ Nul \notin Texts \X Nat

(* A user function has no module, an internal one neither file nor opline;
   a dummy frame has no function at all. *)
ASSUME CallsAssumption ==
    \A c \in Calls :
        /\ c.func \in {"none", "internal", "user"}
        /\ c.text \in Texts
        /\ {c.module, c.class, c.name} \subseteq Nat
        /\ c.file \in S!Strings
        /\ c.lineno \in Lines

Chains == UNION {[1..n -> Calls] : n \in 0..MaxCalls}

TypeOK ==
    /\ stack \in Seq(Calls)
    /\ execute_data \in Seq(Calls)
    /\ walk_depth \in 0..MaxDepth
    /\ walking \in BOOLEAN
    /\ S!TypeOK
    /\ \A d \in DOMAIN function_len : function_len[d] < NameSize

Init ==
    /\ stack = <<>>
    /\ execute_data = <<>>
    /\ walk_depth = 0
    /\ walking = FALSE
    /\ S!Init

-----------------------------------------------------------------------------
Empty == [text |-> PhpText, len |-> 0]
Php == [text |-> PhpText, len |-> 5]

FormattedLen(c) ==
    (IF c.func = "internal" /\ c.module # 0 THEN c.module + 1 ELSE 0)
        + (IF c.class # 0 THEN c.class + 2 ELSE 0)
        + c.name

File(c) == IF c.func = "user" THEN c.file ELSE Empty

\* Bug variant: a truncated name is not noticed.
SkippedUnbounded(c) ==
    \/ c.func = "none"
    \/ FormattedLen(c) = 0 /\ File(c).len = 0

(* The two `continue' statements, and the frame without a function. *)
Skipped(c) ==
    \/ c.func = "none"
    \/ FormattedLen(c) >= NameSize
    \/ FormattedLen(c) = 0 /\ File(c).len = 0

(* The lineno is 0 too when a user function has no opline yet. *)
FrameOf(c) ==
    [function |-> IF FormattedLen(c) = 0 THEN Php
                  ELSE [text |-> c.text, len |-> FormattedLen(c)],
     file |-> File(c),
     lineno |-> IF c.func = "user" THEN c.lineno ELSE 0]

(* datadog_php_stack_collect: constructs the sample and starts the walk. *)
Collect(chain) ==
    /\ ~walking
    /\ S!Ctor
    /\ stack' = chain
    /\ execute_data' = chain
    /\ walk_depth' = 0
    /\ walking' = TRUE

InLoop == walking /\ walk_depth < MaxDepth /\ execute_data # <<>>

\* Bug variant: a skipped frame counts as one of the sample's.
SkipCounts ==
    /\ InLoop
    /\ Skipped(Head(execute_data))
    /\ execute_data' = Tail(execute_data)
    /\ walk_depth' = walk_depth + 1
    /\ UNCHANGED <<stack, walking, sample>>

Skip ==
    /\ InLoop
    /\ Skipped(Head(execute_data))
    /\ execute_data' = Tail(execute_data)
    /\ UNCHANGED <<stack, walk_depth, walking, sample>>

Add ==
    /\ InLoop
    /\ ~Skipped(Head(execute_data))
    /\ S!TryAdd(FrameOf(Head(execute_data)))
    /\ execute_data' = Tail(execute_data)
    /\ walk_depth' = walk_depth + 1
    /\ UNCHANGED <<stack, walking>>

TryAddFails(f) == S!TryAddNoFunction(f) \/ S!TryAddNoFile(f)

\* Bug variant: the walk goes on after a frame that found no room.
BreakContinues ==
    /\ InLoop
    /\ ~Skipped(Head(execute_data))
    /\ TryAddFails(FrameOf(Head(execute_data)))
    /\ execute_data' = Tail(execute_data)
    /\ UNCHANGED <<stack, walk_depth, walking>>

Break ==
    /\ InLoop
    /\ ~Skipped(Head(execute_data))
    /\ TryAddFails(FrameOf(Head(execute_data)))
    /\ walking' = FALSE
    /\ UNCHANGED <<stack, execute_data, walk_depth>>

LoopEnds ==
    /\ walking
    /\ ~InLoop
    /\ walking' = FALSE
    /\ UNCHANGED <<stack, execute_data, walk_depth, sample>>

Next ==
    \/ \E chain \in Chains : Collect(chain)
    \/ Skip
    \/ Add
    \/ Break
    \/ LoopEnds

Spec == Init /\ [][Next]_vars

-----------------------------------------------------------------------------
(* The frames that the loop does not skip, and how many of them are above one. *)
Eligible == {p \in DOMAIN stack : ~Skipped(stack[p])}
Rank(p) == Cardinality({q \in Eligible : q < p})

Decoded(f) == [function |-> S!Spelled(f.function),
               file |-> S!Spelled(f.file),
               lineno |-> f.lineno]

(* The sample is the top of the stack: the frames next to the running function,
   in order and with none left out between two of them but those the loop skips
   on purpose.  A frame that found no room never lets a smaller caller of it
   into the sample, although one would fit. *)
TopOfStack ==
    /\ depth <= Cardinality(Eligible)
    /\ \A p \in Eligible :
          Rank(p) < depth => S!FrameAt(Rank(p)) = Decoded(FrameOf(stack[p]))

(* The walk ends early for want of room only: frames that are skipped take none
   of the depth, and the partial frame of a failed try_add is behind them. *)
NothingLeftOut ==
    ~walking =>
        \/ depth = Cardinality(Eligible)
        \/ depth = MaxDepth
        \/ \E p \in Eligible :
              /\ Rank(p) = depth
              /\ LET f == FrameOf(stack[p])
                 IN  ~S!Fits(buffer_len, f.function) \/ ~S!Fits(buffer_len, f.file)
=============================================================================
