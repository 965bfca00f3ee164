------------------------ MODULE StackCollectorProofs ------------------------
(* Proofs about StackCollector, for call chains of any length and of any     *)
(* call frames, every depth and every size of the buffer: the sample is the  *)
(* top of the stack.  What the sample itself does is cited from              *)
(* StackSampleProofs, for strings of every length.                           *)
EXTENDS StackCollector, FiniteSetTheorems, TLAPS

SP == INSTANCE StackSampleProofs WITH Lengths <- Nat, Lines <- Lines \cup {0}

\* How many frames the walk has left behind, and which of them it did not skip.
Walked == Len(stack) - Len(execute_data)
Seen == {p \in Eligible : p <= Walked}

(* What is left of the chain is its end; each frame that was seen and not
   skipped is one of the sample's. *)
WalkOK ==
    /\ walk_depth = depth
    /\ Len(execute_data) <= Len(stack)
    /\ \A k \in 1..Len(execute_data) : execute_data[k] = stack[Walked + k]
    /\ depth = Cardinality(Seen)

Inv == TypeOK /\ SP!Inv /\ WalkOK /\ TopOfStack /\ NothingLeftOut

-----------------------------------------------------------------------------
(* What StackSampleProofs assumes of its constants holds of these. *)
LEMMA SampleAssumptions == SP!SizesAssumption /\ SP!NulAssumption
BY SizesAssumption, TextsAssumption DEF SP!SizesAssumption, SP!NulAssumption

(* The sample of the walk and that of the proofs are the same sample. *)
LEMMA SameSample ==
    /\ S!Init => SP!Init
    /\ S!Ctor => SP!Ctor
    /\ \A f : S!TryAdd(f) => SP!TryAdd(f)
    /\ \A f : S!TryAddNoFile(f) => SP!TryAddNoFile(f)
    /\ \A d : S!FrameAt(d) = SP!FrameAt(d)
    /\ \A string : S!Spelled(string) = SP!Spelled(string)
    /\ SP!TypeOK => S!TypeOK
<1>1. S!Zeros = SP!Zeros /\ S!Depths = SP!Depths /\ S!Positions = SP!Positions
  BY DEF S!Zeros, SP!Zeros, S!Depths, SP!Depths, S!Positions, SP!Positions
<1>2. (S!Init => SP!Init) /\ (S!Ctor => SP!Ctor)
  BY <1>1 DEF S!Init, SP!Init, S!Ctor, SP!Ctor
<1>3. \A f : S!StoreFunction(f) => SP!StoreFunction(f)
  BY DEF S!StoreFunction, SP!StoreFunction, S!Fits, SP!Fits, S!Offset, SP!Offset
<1>4. \A f : S!TryAdd(f) => SP!TryAdd(f)
  BY <1>1, <1>3
  DEF S!TryAdd, SP!TryAdd, S!Fits, SP!Fits, S!Offset, SP!Offset, S!LenAfter, SP!LenAfter,
      S!Copy, SP!Copy, S!Char, SP!Char
<1>5. \A f : S!TryAddNoFile(f) => SP!TryAddNoFile(f)
  BY <1>1, <1>3
  DEF S!TryAddNoFile, SP!TryAddNoFile, S!Fits, SP!Fits, S!LenAfter, SP!LenAfter,
      S!Copy, SP!Copy, S!Char, SP!Char
<1>6. \A d : S!FrameAt(d) = SP!FrameAt(d)
  BY DEF S!FrameAt, SP!FrameAt, S!View, SP!View
<1>7. \A string : S!Spelled(string) = SP!Spelled(string)
  BY DEF S!Spelled, SP!Spelled, S!Char, SP!Char
<1>8. SP!TypeOK => S!TypeOK
  <2>1. S!Chars = SP!Chars /\ (Lines \cup {0}) \cup {0} = Lines \cup {0}
    BY DEF S!Chars, SP!Chars
  <2> QED
    BY <1>1, <2>1 DEF S!TypeOK, SP!TypeOK
<1> QED
  BY <1>2, <1>4, <1>5, <1>6, <1>7, <1>8

(* A frame that is not skipped has a name that fits, or the name "<php>". *)
LEMMA FrameOfType ==
    ASSUME NEW c \in Calls, ~Skipped(c)
    PROVE  FrameOf(c) \in SP!StackFrames /\ FrameOf(c).function.len < NameSize
<1>1. /\ c.text \in Texts /\ c.module \in Nat /\ c.class \in Nat /\ c.name \in Nat
      /\ c.file \in S!Strings /\ c.lineno \in Lines
  BY CallsAssumption
<1>2. FormattedLen(c) \in Nat /\ FormattedLen(c) < NameSize
  BY <1>1, SizesAssumption DEF FormattedLen, Skipped
<1>3. S!Strings \subseteq SP!Strings
  BY SizesAssumption DEF S!Strings, SP!Strings
<1>4. File(c) \in SP!Strings
  BY <1>1, <1>3, TextsAssumption DEF File, Empty, SP!Strings
<1>5. FrameOf(c).function \in SP!Strings /\ FrameOf(c).function.len < NameSize
  BY <1>1, <1>2, SizesAssumption, TextsAssumption DEF FrameOf, Php, SP!Strings
<1> QED
  BY <1>1, <1>4, <1>5 DEF FrameOf, SP!StackFrames

-----------------------------------------------------------------------------
(* Ranks number the eligible frames of a chain from the top. *)
LEMMA RankType ==
    ASSUME stack \in Seq(Calls)
    PROVE  /\ Eligible \subseteq Nat
           /\ IsFiniteSet(Eligible) /\ Cardinality(Eligible) \in Nat
           /\ \A p \in Nat : /\ IsFiniteSet({q \in Eligible : q < p})
                             /\ Rank(p) \in Nat
<1>1. Len(stack) \in Nat /\ Eligible \subseteq 1..Len(stack)
  BY DEF Eligible
<1>2. IsFiniteSet(Eligible) /\ Cardinality(Eligible) \in Nat
  <2>1. IsFiniteSet(1..Len(stack))
    BY <1>1, FS_Interval
  <2>2. IsFiniteSet(Eligible)
    BY <1>1, <2>1, FS_Subset
  <2> QED
    BY <2>2, FS_CardinalityType
<1>3. ASSUME NEW p \in Nat
      PROVE  IsFiniteSet({q \in Eligible : q < p}) /\ Rank(p) \in Nat
  BY <1>2, FS_Subset, FS_CardinalityType DEF Rank
<1> QED
  BY <1>1, <1>2, <1>3

LEMMA RankGrows ==
    ASSUME stack \in Seq(Calls), NEW p \in Eligible, NEW q \in Eligible, p < q
    PROVE  Rank(p) + 1 <= Rank(q)
<1> DEFINE above(n) == {r \in Eligible : r < n}
<1>1. /\ p \in Nat /\ q \in Nat /\ Eligible \subseteq Nat
      /\ IsFiniteSet(above(p)) /\ IsFiniteSet(above(q))
  BY RankType
<1>2. p \notin above(p) /\ above(p) \cup {p} \subseteq above(q)
  <2>1. ~(p < p) /\ \A r \in Eligible : r < p => r < q
    BY <1>1
  <2> QED
    BY <2>1
<1>3. Cardinality(above(p) \cup {p}) = Cardinality(above(p)) + 1
  BY <1>1, <1>2, FS_AddElement
<1>4. Cardinality(above(p) \cup {p}) <= Cardinality(above(q))
  BY <1>1, <1>2, FS_Subset
<1> QED
  BY <1>3, <1>4 DEF Rank

LEMMA RankInjective ==
    ASSUME stack \in Seq(Calls), NEW p \in Eligible, NEW q \in Eligible, Rank(p) = Rank(q)
    PROVE  p = q
<1>1. p \in Nat /\ q \in Nat /\ Rank(p) \in Nat /\ Rank(q) \in Nat
  BY RankType
<1>2. ~(p < q) /\ ~(q < p)
  BY <1>1, RankGrows
<1> QED
  BY <1>1, <1>2

(* The frame the walk has arrived at: its place in the chain, and what leaving
   it behind does to the frames that were seen. *)
LEMMA AtHead ==
    ASSUME Inv, InLoop, stack' = stack, NEW n, n = Walked + 1
    PROVE  /\ n \in DOMAIN stack /\ n \in Nat
           /\ Head(execute_data) = stack[n] /\ stack[n] \in Calls
           /\ Tail(execute_data) \in Seq(Calls)
           /\ Seen = {q \in Eligible : q < n} /\ Rank(n) = depth
           /\ IsFiniteSet(Seen) /\ n \notin Seen /\ Eligible' = Eligible
           /\ (n \in Eligible <=> ~Skipped(stack[n]))
           /\ execute_data' = Tail(execute_data) =>
                /\ Walked' = n
                /\ Len(execute_data') <= Len(stack')
                /\ \A k \in 1..Len(execute_data') : execute_data'[k] = stack'[Walked' + k]
                /\ Seen' = IF n \in Eligible THEN Seen \cup {n} ELSE Seen
<1>1. /\ stack \in Seq(Calls) /\ execute_data \in Seq(Calls) /\ execute_data # <<>>
      /\ Len(execute_data) <= Len(stack)
      /\ \A k \in 1..Len(execute_data) : execute_data[k] = stack[Walked + k]
      /\ depth = Cardinality(Seen)
  BY DEF Inv, TypeOK, WalkOK, InLoop
<1>2. /\ Len(stack) \in Nat /\ Len(execute_data) \in Nat /\ Len(execute_data) > 0
      /\ Walked = Len(stack) - Len(execute_data) /\ Walked \in Nat
      /\ DOMAIN stack = 1..Len(stack)
  BY <1>1 DEF Walked
<1>3. n \in DOMAIN stack /\ n \in Nat
  BY <1>2
<1>4. Head(execute_data) = stack[n] /\ stack[n] \in Calls
  <2>1. Head(execute_data) = execute_data[1] /\ 1 \in 1..Len(execute_data)
    BY <1>1, <1>2
  <2> QED
    BY <2>1, <1>1, <1>3
<1>5. /\ Tail(execute_data) \in Seq(Calls)
      /\ Len(Tail(execute_data)) = Len(execute_data) - 1
      /\ \A k \in 1..Len(Tail(execute_data)) : Tail(execute_data)[k] = execute_data[k + 1]
  BY <1>1
<1>6. Eligible \subseteq Nat /\ IsFiniteSet(Eligible) /\ Eligible' = Eligible
  BY <1>1, RankType DEF Eligible
<1>7. Seen = {q \in Eligible : q < n} /\ n \notin Seen /\ IsFiniteSet(Seen)
  <2>1. \A q \in Eligible : q <= Walked <=> q < n
    BY <1>2, <1>6
  <2>2. Seen = {q \in Eligible : q < n} /\ n \notin Seen
    BY <2>1, <1>3 DEF Seen
  <2> QED
    BY <2>2, <1>6, FS_Subset
<1>8. Rank(n) = depth
  BY <1>1, <1>7 DEF Rank
<1>9. n \in Eligible <=> ~Skipped(stack[n])
  BY <1>3 DEF Eligible
<1>10. ASSUME execute_data' = Tail(execute_data)
       PROVE  /\ Walked' = n
              /\ Len(execute_data') <= Len(stack')
              /\ \A k \in 1..Len(execute_data') : execute_data'[k] = stack'[Walked' + k]
              /\ Seen' = IF n \in Eligible THEN Seen \cup {n} ELSE Seen
  <2>1. Walked' = n /\ Len(execute_data') <= Len(stack')
    BY <1>2, <1>5, <1>10 DEF Walked
  <2>2. ASSUME NEW k \in 1..Len(execute_data')
        PROVE  execute_data'[k] = stack'[Walked' + k]
    <3>1. k + 1 \in 1..Len(execute_data) /\ Walked + (k + 1) = n + k
      BY <1>2, <1>5, <1>10
    <3> QED
      BY <3>1, <2>1, <1>1, <1>5, <1>10
  <2>3. Seen' = {q \in Eligible : q <= n}
    BY <2>1, <1>6 DEF Seen
  <2>4. Seen' = IF n \in Eligible THEN Seen \cup {n} ELSE Seen
    <3>1. \A q \in Eligible : q <= n <=> q < n \/ q = n
      BY <1>3, <1>6
    <3> QED
      BY <2>3, <3>1, <1>7
  <2> QED
    BY <2>1, <2>2, <2>4
<1> QED
  BY <1>3, <1>4, <1>5, <1>6, <1>7, <1>8, <1>9, <1>10

-----------------------------------------------------------------------------
(* An empty sample is the top of every chain. *)
Fresh ==
    /\ stack \in Seq(Calls) /\ execute_data = stack
    /\ depth = 0 /\ walk_depth = 0
    /\ function_len = S!Zeros

LEMMA FreshSample == Fresh => WalkOK /\ TopOfStack
<1> SUFFICES ASSUME Fresh PROVE WalkOK /\ TopOfStack
  OBVIOUS
<1> USE DEF Fresh
<1>1. Len(stack) \in Nat /\ Walked = 0
  BY DEF Walked
<1>2. Seen = {}
  BY <1>1 DEF Seen, Eligible
<1>3. \A k \in 1..Len(execute_data) : execute_data[k] = stack[Walked + k]
  BY <1>1
<1>4. Cardinality(Eligible) \in Nat /\ \A p \in Eligible : Rank(p) \in Nat
  BY RankType
<1>5. TopOfStack
  BY <1>4 DEF TopOfStack
<1> QED
  BY <1>1, <1>2, <1>3, <1>5, FS_EmptySet DEF WalkOK

LEMMA FreshType == Fresh /\ SP!Inv /\ walking \in BOOLEAN => TypeOK
<1> SUFFICES ASSUME Fresh, SP!Inv, walking \in BOOLEAN PROVE TypeOK
  OBVIOUS
<1>1. S!TypeOK
  BY SameSample DEF SP!Inv
<1>2. 0 \in 0..MaxDepth /\ 0 < NameSize
  BY SizesAssumption
<1>3. \A d \in DOMAIN function_len : function_len[d] < NameSize
  BY <1>2 DEF Fresh, S!Zeros
<1> QED
  BY <1>1, <1>2, <1>3 DEF TypeOK, Fresh

LEMMA InitInv == Init => Inv
<1> SUFFICES ASSUME Init PROVE Inv
  OBVIOUS
<1>1. SP!Inv
  BY SameSample, SampleAssumptions, SP!InitInv DEF Init
<1>2. Fresh /\ walking = FALSE /\ stack = <<>>
  BY DEF Init, S!Init, Fresh
<1>3. depth = Cardinality(Eligible)
  <2>1. Eligible = {}
    BY <1>2 DEF Eligible
  <2> QED
    BY <1>2, <2>1, FS_EmptySet DEF Fresh
<1> QED
  BY <1>1, <1>2, <1>3, FreshSample, FreshType DEF Inv, NothingLeftOut

(* datadog_php_stack_collect begins. *)
LEMMA CollectInv ==
    ASSUME Inv, NEW chain \in Chains, Collect(chain)
    PROVE  Inv'
<1>1. SP!Inv'
  BY SameSample, SampleAssumptions, SP!CtorInv DEF Inv, Collect
<1>2. Fresh' /\ walking' = TRUE
  BY DEF Collect, S!Ctor, Chains, Fresh, S!Zeros, S!Depths
<1>3. Fresh' => WalkOK' /\ TopOfStack'
  BY FreshSample, PTL
<1>4. Fresh' /\ SP!Inv' /\ (walking \in BOOLEAN)' => TypeOK'
  BY FreshType, PTL
<1> QED
  BY <1>1, <1>2, <1>3, <1>4 DEF Inv, NothingLeftOut

(* A step that leaves the sample as it is, or writes behind its last frame. *)
LEMMA FramesKept ==
    ASSUME Inv, UNCHANGED <<stack, depth>>,
           \A d \in 0..(depth - 1) : SP!FrameAt(d)' = SP!FrameAt(d)
    PROVE  TopOfStack'
<1>1. Eligible' = Eligible /\ \A p : Rank(p)' = Rank(p)
  BY DEF Eligible, Rank
<1>2. \A p \in Eligible : Rank(p) \in Nat
  BY RankType DEF Inv, TypeOK
<1>3. depth \in Nat
  BY SizesAssumption DEF Inv, TypeOK, S!TypeOK, S!Depths
<1>4. ASSUME NEW p \in Eligible, Rank(p) < depth
      PROVE  S!FrameAt(Rank(p))' = Decoded(FrameOf(stack[p]))
  <2>1. Rank(p) \in 0..(depth - 1)
    BY <1>2, <1>3, <1>4
  <2>2. S!FrameAt(Rank(p))' = S!FrameAt(Rank(p))
    <3>1. \A d : S!FrameAt(d)' = SP!FrameAt(d)'
      BY DEF S!FrameAt, SP!FrameAt, S!View, SP!View
    <3> QED
      BY <2>1, <3>1, <1>1, SameSample
  <2> QED
    BY <2>2, <1>4 DEF Inv, TopOfStack
<1>5. (\A p \in Eligible : Rank(p) < depth =>
          S!FrameAt(Rank(p)) = Decoded(FrameOf(stack[p])))'
  BY <1>1, <1>4 DEF Decoded, S!Spelled, S!Char, FrameOf, Php, File, Empty, FormattedLen
<1> QED
  BY <1>1, <1>5 DEF Inv, TopOfStack

(* The sample is not touched: by a frame that is skipped, by a name that finds
   no room, by the end of the loop. *)
LEMMA SampleKept ==
    ASSUME Inv, UNCHANGED <<stack, sample>>
    PROVE  /\ SP!Inv' /\ S!TypeOK' /\ TopOfStack'
           /\ depth' = depth /\ buffer_len' = buffer_len
           /\ \A d \in DOMAIN function_len' : function_len'[d] < NameSize
<1>1. UNCHANGED <<depth, buffer_len, function_off, function_len, file_off, file_len,
                  lineno, buffer, returned, it_depth, frame>>
  BY DEF sample
<1>2. SP!Inv' /\ S!TypeOK'
  BY <1>1
  DEF Inv, TypeOK, SP!Inv, SP!TypeOK, S!TypeOK, SP!StringsTerminated, SP!Terminated, SP!RestIsZero
<1>3. TopOfStack'
  BY <1>1, FramesKept DEF SP!FrameAt, SP!View
<1> QED
  BY <1>1, <1>2, <1>3 DEF Inv, TypeOK

LEMMA SkipInv == ASSUME Inv, Skip PROVE Inv'
<1> DEFINE n == Walked + 1
<1>1. InLoop /\ stack' = stack /\ execute_data' = Tail(execute_data)
  BY DEF Skip
<1>2. /\ Skipped(stack[n]) /\ n \notin Eligible
      /\ Tail(execute_data) \in Seq(Calls)
      /\ Len(execute_data') <= Len(stack')
      /\ \A k \in 1..Len(execute_data') : execute_data'[k] = stack'[Walked' + k]
      /\ Seen' = Seen
  BY <1>1, AtHead DEF Skip
<1>3. /\ SP!Inv' /\ S!TypeOK' /\ TopOfStack' /\ depth' = depth
      /\ \A d \in DOMAIN function_len' : function_len'[d] < NameSize
  BY SampleKept DEF Skip
<1>4. TypeOK'
  BY <1>1, <1>2, <1>3 DEF Inv, TypeOK, Skip
<1>5. WalkOK'
  BY <1>2, <1>3 DEF Inv, WalkOK, Skip
<1>6. NothingLeftOut'
  BY DEF NothingLeftOut, Skip, InLoop
<1> QED
  BY <1>3, <1>4, <1>5, <1>6 DEF Inv

(* The frame that is added is the eligible one of rank depth, and the only one:
   those above it have the smaller ranks and keep their places. *)
LEMMA AddInv == ASSUME Inv, Add PROVE Inv'
<1> DEFINE n == Walked + 1
           f == FrameOf(stack[n])
<1>1. InLoop /\ stack' = stack /\ execute_data' = Tail(execute_data)
  BY DEF Add
<1>2. /\ n \in Nat /\ Head(execute_data) = stack[n] /\ stack[n] \in Calls
      /\ ~Skipped(stack[n]) /\ n \in Eligible /\ Rank(n) = depth
      /\ Tail(execute_data) \in Seq(Calls)
      /\ IsFiniteSet(Seen) /\ n \notin Seen
      /\ Len(execute_data') <= Len(stack')
      /\ \A k \in 1..Len(execute_data') : execute_data'[k] = stack'[Walked' + k]
      /\ Seen' = Seen \cup {n}
  BY <1>1, AtHead DEF Add
<1>3. f \in SP!StackFrames /\ f.function.len < NameSize
  BY <1>2, FrameOfType
<1>4. S!TryAdd(f) /\ SP!TryAdd(f)
  BY <1>2, SameSample DEF Add
<1> HIDE DEF n, f
<1>5. /\ SP!Inv' /\ depth \in Nat /\ depth' = depth + 1
      /\ \A d \in 0..(depth - 1) : SP!FrameAt(d)' = SP!FrameAt(d)
      /\ \A d \in Nat : d = depth =>
             SP!FrameAt(d)' = [function |-> SP!Spelled(f.function),
                               file |-> SP!Spelled(f.file), lineno |-> f.lineno]
  BY <1>3, <1>4, SampleAssumptions, SP!AddStep DEF Inv
<1>6. stack \in Seq(Calls) /\ depth = Cardinality(Seen) /\ Eligible' = Eligible
      /\ \A p : Rank(p)' = Rank(p)
  BY <1>1 DEF Inv, TypeOK, WalkOK, Eligible, Rank
<1>7. TypeOK'
  <2>1. S!TypeOK'
    BY <1>5, SameSample
    DEF SP!Inv, S!TypeOK, SP!TypeOK, S!Positions, SP!Positions, S!Depths, SP!Depths,
        S!Chars, SP!Chars
  <2>2. \A d \in DOMAIN function_len' : function_len'[d] < NameSize
    BY <1>3, <1>4 DEF S!TryAdd, S!StoreFunction, Inv, TypeOK, S!TypeOK
  <2>3. walk_depth' \in 0..MaxDepth
    BY <1>1, <1>5, SizesAssumption DEF Add, InLoop, Inv, WalkOK
  <2> QED
    BY <1>2, <2>1, <2>2, <2>3, <1>1 DEF Inv, TypeOK, Add
<1>8. depth' = Cardinality(Seen')
  BY <1>2, <1>5, <1>6, FS_AddElement
<1>9. WalkOK'
  BY <1>2, <1>5, <1>8 DEF Inv, WalkOK, Add
<1>10. depth' <= Cardinality(Eligible)
  <2>1. IsFiniteSet(Eligible) /\ Seen' \subseteq Eligible
    BY <1>2, <1>6, RankType DEF Seen
  <2> QED
    BY <1>8, <2>1, FS_Subset
<1>11. ASSUME NEW p \in Eligible, NEW d \in Nat, d = Rank(p), d < depth'
       PROVE  SP!FrameAt(d)' = Decoded(FrameOf(stack[p]))
  <2>1. CASE d = depth
    <3>1. p = n
      BY <1>2, <1>6, <1>11, <2>1, RankInjective
    <3>2. Decoded(f) = Decoded(FrameOf(stack[p]))
      BY <3>1 DEF f
    <3>3. SP!FrameAt(d)' = Decoded(f)
      BY <1>5, <2>1, SameSample DEF Decoded
    <3> QED
      BY <3>2, <3>3
  <2>2. CASE d < depth
    <3>1. d \in 0..(depth - 1)
      BY <1>5, <2>2
    <3>2. SP!FrameAt(d) = Decoded(FrameOf(stack[p]))
      BY <1>11, <2>2, SameSample DEF Inv, TopOfStack
    <3> QED
      BY <1>5, <3>1, <3>2
  <2> QED
    BY <1>5, <1>11, <2>1, <2>2
<1>12. TopOfStack'
  <2>1. ASSUME NEW p \in Eligible, Rank(p) < depth'
        PROVE  S!FrameAt(Rank(p))' = Decoded(FrameOf(stack[p]))
    <3>1. Rank(p) \in Nat
      BY <1>6, RankType
    <3>2. \A d \in Nat : d = Rank(p) => SP!FrameAt(d)' = Decoded(FrameOf(stack[p]))
      BY <1>11, <2>1
    <3>3. \A d : S!FrameAt(d)' = SP!FrameAt(d)'
      BY DEF S!FrameAt, SP!FrameAt, S!View, SP!View
    <3> QED
      BY <1>6, <3>1, <3>2, <3>3
  <2>2. (\A p \in Eligible : Rank(p) < depth =>
            S!FrameAt(Rank(p)) = Decoded(FrameOf(stack[p])))'
    BY <1>1, <1>6, <2>1
    DEF Decoded, S!Spelled, S!Char, FrameOf, Php, File, Empty, FormattedLen
  <2> QED
    BY <1>6, <1>10, <2>2 DEF TopOfStack
<1>13. NothingLeftOut'
  BY DEF NothingLeftOut, Add, InLoop
<1> QED
  BY <1>5, <1>7, <1>9, <1>12, <1>13 DEF Inv

(* A frame that finds no room is the eligible one of rank depth: it witnesses
   that there was none, whichever of its two strings did not fit. *)
LEMMA BreakInv == ASSUME Inv, Break PROVE Inv'
<1> DEFINE n == Walked + 1
           f == FrameOf(stack[n])
<1>1. InLoop /\ stack' = stack /\ execute_data' = execute_data
      /\ walk_depth' = walk_depth /\ walking' = FALSE
  BY DEF Break
<1>2. /\ Head(execute_data) = stack[n] /\ stack[n] \in Calls
      /\ ~Skipped(stack[n]) /\ n \in Eligible /\ Rank(n) = depth
  BY <1>1, AtHead DEF Break
<1>3. f \in SP!StackFrames /\ f.function.len < NameSize
  BY <1>2, FrameOfType
<1>4. S!TryAddNoFunction(f) \/ S!TryAddNoFile(f)
  BY <1>2 DEF Break, TryAddFails
<1>5. Eligible' = Eligible /\ (\A p : Rank(p)' = Rank(p)) /\ Seen' = Seen /\ Walked' = Walked
  BY <1>1 DEF Eligible, Rank, Seen, Walked
<1> HIDE DEF n, f
<1>6. /\ SP!Inv' /\ S!TypeOK' /\ TopOfStack' /\ depth' = depth
      /\ \A d \in DOMAIN function_len' : function_len'[d] < NameSize
      /\ ~S!Fits(buffer_len', f.function) \/ ~S!Fits(buffer_len', f.file)
  <2>1. CASE S!TryAddNoFunction(f)
    <3>1. UNCHANGED <<stack, depth, buffer_len, function_off, function_len, file_off,
                      file_len, lineno, buffer, it_depth, frame>>
          /\ returned' = FALSE /\ ~S!Fits(buffer_len, f.function)
      BY <1>1, <2>1 DEF S!TryAddNoFunction, S!sample, S!arrays
    <3>2. SP!Inv' /\ S!TypeOK'
      BY <3>1
      DEF Inv, TypeOK, SP!Inv, SP!TypeOK, S!TypeOK, SP!StringsTerminated, SP!Terminated, SP!RestIsZero
    <3>3. TopOfStack'
      BY <3>1, FramesKept DEF SP!FrameAt, SP!View
    <3> QED
      BY <3>1, <3>2, <3>3 DEF Inv, TypeOK
  <2>2. CASE S!TryAddNoFile(f)
    <3>1. SP!TryAddNoFile(f)
      BY <2>2, SameSample
    <3>2. SP!Inv' /\ \A d \in 0..(depth - 1) : SP!FrameAt(d)' = SP!FrameAt(d)
      BY <1>3, <3>1, SampleAssumptions, SP!NoFileStep DEF Inv
    <3>3. depth' = depth /\ buffer_len' = S!LenAfter(buffer_len, f.function)
          /\ function_len' = [function_len EXCEPT ![depth] = f.function.len]
          /\ ~S!Fits(S!LenAfter(buffer_len, f.function), f.file)
      BY <2>2 DEF S!TryAddNoFile, S!StoreFunction
    <3>4. TopOfStack'
      BY <1>1, <3>2, <3>3, FramesKept
    <3>5. S!TypeOK'
      BY <3>2, SameSample
      DEF SP!Inv, S!TypeOK, SP!TypeOK, S!Positions, SP!Positions, S!Depths, SP!Depths,
          S!Chars, SP!Chars
    <3>6. \A d \in DOMAIN function_len' : function_len'[d] < NameSize
      BY <1>3, <3>3 DEF Inv, TypeOK, S!TypeOK
    <3> QED
      BY <3>2, <3>3, <3>4, <3>5, <3>6
  <2> QED
    BY <1>4, <2>1, <2>2
<1>7. TypeOK'
  BY <1>1, <1>6 DEF Inv, TypeOK
<1>8. WalkOK'
  BY <1>1, <1>5, <1>6 DEF Inv, WalkOK
<1>9. NothingLeftOut'
  <2> SUFFICES ASSUME NEW m, m = n
               PROVE  NothingLeftOut'
    OBVIOUS
  <2>1. m \in Eligible' /\ Rank(m)' = depth'
    BY <1>2, <1>5, <1>6
  <2>2. (~S!Fits(buffer_len, FrameOf(stack[m]).function)
          \/ ~S!Fits(buffer_len, FrameOf(stack[m]).file))'
    BY <1>1, <1>6
    DEF f, S!Fits, FrameOf, Php, File, Empty, FormattedLen
  <2> QED
    BY <2>1, <2>2 DEF NothingLeftOut
<1> QED
  BY <1>6, <1>7, <1>8, <1>9 DEF Inv

(* The loop ends with the chain, when all that is eligible was seen, or at the
   depth that a sample has room for. *)
LEMMA LoopEndsInv == ASSUME Inv, LoopEnds PROVE Inv'
<1>1. UNCHANGED <<stack, execute_data, walk_depth, sample>> /\ walking' = FALSE
  BY DEF LoopEnds
<1>2. /\ SP!Inv' /\ S!TypeOK' /\ TopOfStack' /\ depth' = depth
      /\ \A d \in DOMAIN function_len' : function_len'[d] < NameSize
  BY <1>1, SampleKept
<1>3. TypeOK'
  BY <1>1, <1>2 DEF Inv, TypeOK
<1>4. WalkOK'
  BY <1>1, <1>2 DEF Inv, WalkOK, Walked, Seen, Eligible
<1>5. Eligible' = Eligible
  BY <1>1 DEF Eligible
<1>6. depth = Cardinality(Eligible) \/ depth = MaxDepth
  <2>1. CASE execute_data = <<>>
    <3>1. Len(stack) \in Nat /\ Walked = Len(stack)
      BY <2>1 DEF Inv, TypeOK, Walked
    <3>2. Seen = Eligible
      BY <3>1 DEF Seen, Eligible, Inv, TypeOK
    <3> QED
      BY <3>2 DEF Inv, WalkOK
  <2>2. CASE ~(walk_depth < MaxDepth)
    BY <2>2, SizesAssumption DEF Inv, TypeOK, WalkOK
  <2> QED
    BY <2>1, <2>2 DEF LoopEnds, InLoop
<1>7. NothingLeftOut'
  BY <1>2, <1>5, <1>6 DEF NothingLeftOut
<1> QED
  BY <1>2, <1>3, <1>4, <1>7 DEF Inv

LEMMA NextInv == Inv /\ [Next]_vars => Inv'
<1> SUFFICES ASSUME Inv, [Next]_vars PROVE Inv'
  OBVIOUS
<1>1. ASSUME NEW chain \in Chains, Collect(chain) PROVE Inv'
  BY <1>1, CollectInv
<1>2. CASE Skip
  BY <1>2, SkipInv
<1>3. CASE Add
  BY <1>3, AddInv
<1>4. CASE Break
  BY <1>4, BreakInv
<1>5. CASE LoopEnds
  BY <1>5, LoopEndsInv
<1>6. CASE UNCHANGED vars
  <2>1. UNCHANGED <<stack, execute_data, walk_depth, walking, sample>>
    BY <1>6 DEF vars
  <2>2. /\ SP!Inv' /\ S!TypeOK' /\ TopOfStack' /\ depth' = depth /\ buffer_len' = buffer_len
        /\ \A d \in DOMAIN function_len' : function_len'[d] < NameSize
    BY <2>1, SampleKept
  <2>3. TypeOK'
    BY <2>1, <2>2 DEF Inv, TypeOK
  <2>4. WalkOK'
    BY <2>1, <2>2 DEF Inv, WalkOK, Walked, Seen, Eligible
  <2>5. Eligible' = Eligible /\ \A p : Rank(p)' = Rank(p)
    BY <2>1 DEF Eligible, Rank
  <2>6. NothingLeftOut'
    BY <2>1, <2>2, <2>5 DEF Inv, NothingLeftOut, S!Fits
  <2> QED
    BY <2>2, <2>3, <2>4, <2>6 DEF Inv
<1> QED
  BY <1>1, <1>2, <1>3, <1>4, <1>5, <1>6 DEF Next

-----------------------------------------------------------------------------
(* stack-collector.c:12-100, for every chain of call frames: the local depth
   stays the sample's, so that the loop never asks for a frame too deep, and a
   name in the sample is always shorter than the buffer it was formatted in. *)
THEOREM WalkKeepsTypes == Spec => []TypeOK
<1>1. Inv => TypeOK
  BY DEF Inv
<1> QED
  BY <1>1, InitInv, NextInv, PTL DEF Spec

(* stack-collector.c:12-100, for every chain of call frames: the sample holds
   the frames next to the running function, in their order, and none is left
   out between two of them but those the loop skips on purpose. *)
THEOREM SampleIsTopOfStack == Spec => []TopOfStack
<1>1. Inv => TopOfStack
  BY DEF Inv
<1> QED
  BY <1>1, InitInv, NextInv, PTL DEF Spec

(* stack-collector.c:13 and 89-92, for every chain of call frames: a walk that
   ended early had the deepest sample, or a frame too long for the buffer. *)
THEOREM WalkEndsForRoomOnly == Spec => []NothingLeftOut
<1>1. Inv => NothingLeftOut
  BY DEF Inv
<1> QED
  BY <1>1, InitInv, NextInv, PTL DEF Spec
=============================================================================
