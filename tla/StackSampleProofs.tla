-------------------------- MODULE StackSampleProofs --------------------------
(* Proofs about StackSample, for every depth, every size of the buffer and   *)
(* all strings: what was stored stays readable, and the sample implements    *)
(* FrameList.                                                                *)
EXTENDS StackSample, TLAPS

(* A new string is written behind all others, and needs a zero behind itself:
   that is the empty string's place and all of the unused part. *)
Inv ==
    /\ TypeOK
    /\ StringsTerminated
    /\ RestIsZero
    /\ buffer[0] = Nul

\* The two buffers hold the same characters below position n.
Agree(new, old, n) == \A p \in Positions : p < n => new[p] = old[p]

\* The buffer is zero from position n on.
ZeroFrom(buf, n) == \A p \in Positions : p >= n => buf[p] = Nul

\* The string is in the buffer at its offset, with its terminator, below n.
Stored(buf, off, string, n) ==
    /\ off \in Positions
    /\ string.len \in 0..BufferSize
    /\ off + string.len < n
    /\ buf[off + string.len] = Nul
    /\ \A i \in 1..string.len : buf[off + i - 1] = Char(string, i - 1)

-----------------------------------------------------------------------------
(* try_add_string: what it does to a buffer that is zero from `len' on. *)
LEMMA CopyStores ==
    ASSUME NEW buf \in [Positions -> Chars], NEW len \in 1..BufferSize,
           NEW string \in Strings,
           Fits(len, string), ZeroFrom(buf, len), buf[0] = Nul
    PROVE  /\ Copy(buf, len, string) \in [Positions -> Chars]
           /\ LenAfter(len, string) \in 1..BufferSize
           /\ LenAfter(len, string) >= len
           /\ Agree(Copy(buf, len, string), buf, len)
           /\ ZeroFrom(Copy(buf, len, string), LenAfter(len, string))
           /\ Copy(buf, len, string)[0] = Nul
           /\ Stored(Copy(buf, len, string), Offset(len, string), string,
                     LenAfter(len, string))
<1> DEFINE new == Copy(buf, len, string)
<1>0. /\ BufferSize \in Nat \ {0} /\ len \in Nat /\ len >= 1 /\ len <= BufferSize
      /\ string.len \in Nat /\ string.text \in Texts /\ 0 \in Positions
  <2>1. string.len \in Lengths /\ string.text \in Texts
    BY DEF Strings
  <2>2. BufferSize \in Nat \ {0} /\ Lengths \subseteq Nat
    BY SizesAssumption
  <2>3. string.len \in Nat
    BY <2>1, <2>2
  <2>4. 0 \in Positions
    BY <2>2 DEF Positions
  <2>5. len \in Nat /\ len >= 1 /\ len <= BufferSize
    BY <2>2
  <2> QED
    BY <2>1, <2>2, <2>3, <2>4, <2>5
<1>1. ASSUME NEW p \in Positions
      PROVE  /\ p \in len..(len + string.len - 1) => new[p] = Char(string, p - len)
             /\ p \notin len..(len + string.len - 1) => new[p] = buf[p]
  BY DEF Copy
<1>2. new \in [Positions -> Chars]
  <2>1. ASSUME NEW p \in Positions, p \in len..(len + string.len - 1)
        PROVE  Char(string, p - len) \in Chars
    BY <2>1, <1>0 DEF Char, Chars, Positions
  <2> QED
    BY <2>1 DEF Copy
<1>3. /\ LenAfter(len, string) \in 1..BufferSize
      /\ LenAfter(len, string) >= len
      /\ LenAfter(len, string) >= len + string.len
  BY <1>0 DEF Fits, LenAfter
<1>4. Agree(new, buf, len)
  BY <1>0, <1>1 DEF Agree, Positions
<1>5. ZeroFrom(new, LenAfter(len, string))
  BY <1>0, <1>1, <1>3 DEF ZeroFrom, Positions
<1>6. new[0] = Nul
  BY <1>0, <1>4 DEF Agree
<1>7. Stored(new, Offset(len, string), string, LenAfter(len, string))
  <2>1. CASE string.len = 0
    BY <2>1, <1>0, <1>6 DEF Stored, Offset, LenAfter
  <2>2. CASE string.len # 0
    <3>1. len + string.len + 1 <= BufferSize
      BY <2>2 DEF Fits
    <3>2. len \in Positions /\ len + string.len \in Positions
      BY <3>1, <1>0 DEF Positions
    <3>3. new[len + string.len] = Nul
      BY <3>2, <1>0, <1>1 DEF ZeroFrom
    <3>4. ASSUME NEW i \in 1..string.len
          PROVE  new[len + i - 1] = Char(string, i - 1)
      <4>1. /\ len + i - 1 \in Positions
            /\ len + i - 1 \in len..(len + string.len - 1)
            /\ (len + i - 1) - len = i - 1
        BY <3>1, <1>0 DEF Positions
      <4> QED
        BY <4>1, <1>1
    <3> QED
      BY <2>2, <3>1, <3>2, <3>3, <3>4, <1>0 DEF Stored, Offset, LenAfter
  <2> QED
    BY <2>1, <2>2
<1> QED
  BY <1>2, <1>3, <1>4, <1>5, <1>6, <1>7

(* What is written behind a stored string leaves it as it is. *)
LEMMA StoredKept ==
    ASSUME NEW old, NEW new, NEW off, NEW string, NEW n \in Nat, NEW m \in Nat,
           Stored(old, off, string, n), Agree(new, old, n), n <= m, m <= BufferSize
    PROVE  Stored(new, off, string, m)
<1>1. BufferSize \in Nat /\ off \in Nat /\ string.len \in Nat /\ off + string.len < n
  BY SizesAssumption DEF Stored, Positions
<1>2. off + string.len \in Positions
  BY <1>1 DEF Positions
<1>3. ASSUME NEW i \in 1..string.len
      PROVE  off + i - 1 \in Positions /\ off + i - 1 < n
  BY <1>1 DEF Positions
<1> QED
  BY <1>1, <1>2, <1>3 DEF Stored, Agree

-----------------------------------------------------------------------------
LEMMA InitInv == Init => Inv
<1> SUFFICES ASSUME Init PROVE Inv
  OBVIOUS
<1>1. /\ MaxDepth \in Nat /\ BufferSize \in Nat \ {0}
      /\ 0 \in Positions /\ 0 \in Depths /\ 0 \in 0..BufferSize
      /\ 1 \in 1..BufferSize
  BY SizesAssumption DEF Positions, Depths
<1>2. TypeOK
  <2>1. /\ Zeros \in [Depths -> Positions]
        /\ Zeros \in [Depths -> 0..BufferSize]
        /\ Zeros \in [Depths -> Lines \cup {0}]
    BY <1>1 DEF Zeros
  <2>2. buffer \in [Positions -> Chars]
    BY DEF Init, Chars
  <2> QED
    BY <1>1, <2>1, <2>2 DEF Init, TypeOK
<1>3. StringsTerminated
  BY DEF Init, StringsTerminated
<1>4. RestIsZero /\ buffer[0] = Nul
  BY <1>1 DEF Init, RestIsZero
<1> QED
  BY <1>2, <1>3, <1>4 DEF Inv

(* A frame that was added stays where it is and reads as it did, when a step
   only writes behind the used part of the buffer. *)
LEMMA FrameKept ==
    ASSUME Inv, NEW d \in 0..(depth - 1),
           Agree(buffer', buffer, buffer_len),
           buffer_len' \in 1..BufferSize, buffer_len' >= buffer_len,
           function_off'[d] = function_off[d], function_len'[d] = function_len[d],
           file_off'[d] = file_off[d], file_len'[d] = file_len[d],
           lineno'[d] = lineno[d]
    PROVE  /\ Terminated(function_off[d], function_len[d])'
           /\ Terminated(file_off[d], file_len[d])'
           /\ FrameAt(d)' = FrameAt(d)
<1>1. /\ BufferSize \in Nat /\ buffer_len \in Nat /\ buffer_len' \in Nat
      /\ buffer_len <= BufferSize /\ d \in Depths
  BY SizesAssumption DEF Inv, TypeOK, Depths
<1>2. /\ function_off[d] \in Nat /\ function_len[d] \in Nat
      /\ file_off[d] \in Nat /\ file_len[d] \in Nat
  BY <1>1, SizesAssumption DEF Inv, TypeOK, Positions
<1>3. /\ function_off[d] + function_len[d] < buffer_len
      /\ buffer[function_off[d] + function_len[d]] = Nul
      /\ file_off[d] + file_len[d] < buffer_len
      /\ buffer[file_off[d] + file_len[d]] = Nul
  BY DEF Inv, StringsTerminated, Terminated
<1>4. ASSUME NEW off \in Nat, NEW length \in Nat, off + length < buffer_len
      PROVE  /\ buffer'[off + length] = buffer[off + length]
             /\ \A i \in 1..length : buffer'[off + i - 1] = buffer[off + i - 1]
  <2>1. off + length \in Positions
    BY <1>1, <1>4 DEF Positions
  <2>2. ASSUME NEW i \in 1..length
        PROVE  off + i - 1 \in Positions /\ off + i - 1 < buffer_len
    BY <1>1, <1>4 DEF Positions
  <2> QED
    BY <2>1, <2>2, <1>4 DEF Agree
<1>5. Terminated(function_off[d], function_len[d])'
  <2>1. buffer'[function_off[d] + function_len[d]] = Nul
    BY <1>2, <1>3, <1>4
  <2>2. function_off[d] + function_len[d] < buffer_len'
    BY <1>1, <1>2, <1>3
  <2> QED
    BY <2>1, <2>2 DEF Terminated
<1>6. Terminated(file_off[d], file_len[d])'
  <2>1. buffer'[file_off[d] + file_len[d]] = Nul
    BY <1>2, <1>3, <1>4
  <2>2. file_off[d] + file_len[d] < buffer_len'
    BY <1>1, <1>2, <1>3
  <2> QED
    BY <2>1, <2>2 DEF Terminated
<1>7. View(function_off[d], function_len[d])' = View(function_off[d], function_len[d])
  BY <1>2, <1>3, <1>4 DEF View
<1>8. View(file_off[d], file_len[d])' = View(file_off[d], file_len[d])
  BY <1>2, <1>3, <1>4 DEF View
<1> QED
  BY <1>5, <1>6, <1>7, <1>8 DEF FrameAt

-----------------------------------------------------------------------------
(* The function of the frame behind the last one, whether its file fits too. *)
LEMMA FunctionStored ==
    ASSUME Inv, NEW f \in StackFrames, StoreFunction(f)
    PROVE  LET buf == Copy(buffer, buffer_len, f.function)
               len == LenAfter(buffer_len, f.function)
           IN  /\ buf \in [Positions -> Chars]
               /\ len \in 1..BufferSize
               /\ len >= buffer_len
               /\ Agree(buf, buffer, buffer_len)
               /\ ZeroFrom(buf, len)
               /\ buf[0] = Nul
               /\ Stored(buf, function_off'[depth], f.function, len)
               /\ function_len'[depth] = f.function.len
               /\ function_off' \in [Depths -> Positions]
               /\ function_len' \in [Depths -> 0..BufferSize]
               /\ depth \in Depths /\ depth + 1 \in Depths
               /\ \A d \in Depths : d # depth =>
                      function_off'[d] = function_off[d]
                        /\ function_len'[d] = function_len[d]
<1>1. f.function \in Strings
  BY DEF StackFrames
<1>2. /\ buffer \in [Positions -> Chars] /\ buffer_len \in 1..BufferSize
      /\ Fits(buffer_len, f.function) /\ ZeroFrom(buffer, buffer_len)
      /\ buffer[0] = Nul
  BY DEF Inv, TypeOK, RestIsZero, ZeroFrom, StoreFunction
<1>3. depth \in Depths /\ depth + 1 \in Depths
  BY SizesAssumption DEF Inv, TypeOK, Depths, StoreFunction
<1>4. /\ function_off'[depth] = Offset(buffer_len, f.function)
      /\ function_len'[depth] = f.function.len
  BY <1>3 DEF Inv, TypeOK, StoreFunction
<1>5. /\ Copy(buffer, buffer_len, f.function) \in [Positions -> Chars]
      /\ LenAfter(buffer_len, f.function) \in 1..BufferSize
      /\ LenAfter(buffer_len, f.function) >= buffer_len
      /\ Agree(Copy(buffer, buffer_len, f.function), buffer, buffer_len)
      /\ ZeroFrom(Copy(buffer, buffer_len, f.function), LenAfter(buffer_len, f.function))
      /\ Copy(buffer, buffer_len, f.function)[0] = Nul
      /\ Stored(Copy(buffer, buffer_len, f.function),
                Offset(buffer_len, f.function), f.function,
                LenAfter(buffer_len, f.function))
  BY <1>1, <1>2, CopyStores
<1>6. Offset(buffer_len, f.function) \in Positions /\ f.function.len \in 0..BufferSize
  BY <1>5 DEF Stored
<1>7. /\ function_off' \in [Depths -> Positions]
      /\ function_len' \in [Depths -> 0..BufferSize]
      /\ \A d \in Depths : d # depth =>
             function_off'[d] = function_off[d] /\ function_len'[d] = function_len[d]
  BY <1>3, <1>6 DEF Inv, TypeOK, StoreFunction
<1> QED
  BY <1>3, <1>4, <1>5, <1>7

(* What an add that stored the function and refused the file leaves behind. *)
LEMMA NoFileStep ==
    ASSUME Inv, NEW f \in StackFrames, TryAddNoFile(f)
    PROVE  Inv' /\ \A d \in 0..(depth - 1) : FrameAt(d)' = FrameAt(d)
<1>1. StoreFunction(f)
  BY DEF TryAddNoFile
<1>2. /\ buffer' = Copy(buffer, buffer_len, f.function)
      /\ buffer_len' = LenAfter(buffer_len, f.function)
      /\ returned' = FALSE
      /\ UNCHANGED <<depth, file_off, file_len, lineno, it_depth, frame>>
  BY DEF TryAddNoFile
<1>3. /\ buffer' \in [Positions -> Chars]
      /\ buffer_len' \in 1..BufferSize /\ buffer_len' >= buffer_len
      /\ Agree(buffer', buffer, buffer_len)
      /\ ZeroFrom(buffer', buffer_len') /\ buffer'[0] = Nul
      /\ function_off' \in [Depths -> Positions]
      /\ function_len' \in [Depths -> 0..BufferSize]
      /\ \A d \in Depths : d # depth =>
             function_off'[d] = function_off[d] /\ function_len'[d] = function_len[d]
  BY <1>1, <1>2, FunctionStored
<1>4. ASSUME NEW d \in 0..(depth - 1)
      PROVE  /\ Terminated(function_off[d], function_len[d])'
             /\ Terminated(file_off[d], file_len[d])'
             /\ FrameAt(d)' = FrameAt(d)
  <2>1. d \in Depths /\ d # depth
    BY SizesAssumption DEF Inv, TypeOK, Depths
  <2> QED
    BY <2>1, <1>2, <1>3, FrameKept
<1>5. TypeOK'
  BY <1>2, <1>3 DEF Inv, TypeOK
<1>6. StringsTerminated'
  BY <1>2, <1>4 DEF StringsTerminated
<1>7. RestIsZero' /\ buffer'[0] = Nul
  BY <1>3 DEF RestIsZero, ZeroFrom
<1> QED
  BY <1>4, <1>5, <1>6, <1>7 DEF Inv

(* A frame that was added follows the others and reads as it was given. *)
LEMMA AddStep ==
    ASSUME Inv, NEW f \in StackFrames, TryAdd(f)
    PROVE  /\ Inv'
           /\ depth \in Nat /\ depth' = depth + 1
           /\ \A d \in 0..(depth - 1) : FrameAt(d)' = FrameAt(d)
           /\ \A d \in Nat : d = depth =>
                  FrameAt(d)' = [function |-> Spelled(f.function),
                                 file |-> Spelled(f.file),
                                 lineno |-> f.lineno]
<1> DEFINE buf == Copy(buffer, buffer_len, f.function)
           len == LenAfter(buffer_len, f.function)
<1>0. /\ f.file \in Strings /\ f.lineno \in Lines
      /\ MaxDepth \in Nat /\ BufferSize \in Nat /\ depth \in Nat
  BY SizesAssumption DEF StackFrames, Inv, TypeOK, Depths
<1>1. /\ StoreFunction(f) /\ Fits(len, f.file)
      /\ file_off' = [file_off EXCEPT ![depth] = Offset(len, f.file)]
      /\ file_len' = [file_len EXCEPT ![depth] = f.file.len]
      /\ buffer' = Copy(buf, len, f.file)
      /\ buffer_len' = LenAfter(len, f.file)
      /\ lineno' = [lineno EXCEPT ![depth] = f.lineno]
      /\ depth' = depth + 1
      /\ returned' = TRUE
      /\ UNCHANGED <<it_depth, frame>>
  BY DEF TryAdd
<1>2. /\ buf \in [Positions -> Chars]
      /\ len \in 1..BufferSize /\ len >= buffer_len
      /\ Agree(buf, buffer, buffer_len)
      /\ ZeroFrom(buf, len) /\ buf[0] = Nul
      /\ Stored(buf, function_off'[depth], f.function, len)
      /\ function_len'[depth] = f.function.len
      /\ function_off' \in [Depths -> Positions]
      /\ function_len' \in [Depths -> 0..BufferSize]
      /\ depth \in Depths /\ depth + 1 \in Depths
      /\ \A d \in Depths : d # depth =>
             function_off'[d] = function_off[d] /\ function_len'[d] = function_len[d]
  BY <1>1, FunctionStored
<1>3. /\ buffer' \in [Positions -> Chars]
      /\ buffer_len' \in 1..BufferSize /\ buffer_len' >= len
      /\ Agree(buffer', buf, len)
      /\ ZeroFrom(buffer', buffer_len') /\ buffer'[0] = Nul
      /\ Stored(buffer', Offset(len, f.file), f.file, buffer_len')
  <2> HIDE DEF buf, len
  <2> QED
    BY <1>0, <1>1, <1>2, CopyStores
<1> HIDE DEF buf, len
<1>4. /\ file_off'[depth] = Offset(len, f.file) /\ file_len'[depth] = f.file.len
      /\ lineno'[depth] = f.lineno
      /\ file_off' \in [Depths -> Positions]
      /\ file_len' \in [Depths -> 0..BufferSize]
      /\ lineno' \in [Depths -> Lines \cup {0}]
      /\ \A d \in Depths : d # depth =>
             /\ file_off'[d] = file_off[d] /\ file_len'[d] = file_len[d]
             /\ lineno'[d] = lineno[d]
  <2>1. Offset(len, f.file) \in Positions /\ f.file.len \in 0..BufferSize
    BY <1>3 DEF Stored
  <2> QED
    BY <2>1, <1>0, <1>1, <1>2 DEF Inv, TypeOK
<1>5. /\ Agree(buffer', buffer, buffer_len) /\ buffer_len' >= buffer_len
      /\ buffer_len \in Nat /\ buffer_len' \in Nat
  <2>1. buffer_len \in Nat /\ buffer_len' \in Nat /\ len \in Nat
    BY <1>0, <1>2, <1>3 DEF Inv, TypeOK
  <2>2. buffer_len' >= buffer_len
    BY <2>1, <1>2, <1>3
  <2>3. ASSUME NEW p \in Positions, p < buffer_len
        PROVE  buffer'[p] = buffer[p]
    <3>1. p < len
      BY <2>1, <2>3, <1>0, <1>2 DEF Positions
    <3> QED
      BY <2>3, <3>1, <1>2, <1>3 DEF Agree
  <2> QED
    BY <2>1, <2>2, <2>3 DEF Agree
<1>6. /\ Stored(buffer', function_off'[depth], f.function, buffer_len')
      /\ Stored(buffer', file_off'[depth], f.file, buffer_len')
  <2>1. len \in Nat /\ len <= buffer_len' /\ buffer_len' \in Nat /\ buffer_len' <= BufferSize
    BY <1>0, <1>2, <1>3
  <2> QED
    BY <2>1, <1>2, <1>3, <1>4, StoredKept
<1>7. ASSUME NEW d \in 0..(depth - 1)
      PROVE  /\ Terminated(function_off[d], function_len[d])'
             /\ Terminated(file_off[d], file_len[d])'
             /\ FrameAt(d)' = FrameAt(d)
  <2>1. d \in Depths /\ d # depth
    BY <1>0, <1>2 DEF Depths
  <2> QED
    BY <2>1, <1>2, <1>3, <1>4, <1>5, FrameKept
<1>8. ASSUME NEW d \in Nat, d = depth
      PROVE  /\ Terminated(function_off[d], function_len[d])'
             /\ Terminated(file_off[d], file_len[d])'
             /\ FrameAt(d)' = [function |-> Spelled(f.function),
                               file |-> Spelled(f.file),
                               lineno |-> f.lineno]
  <2>1. /\ function_len'[d] = f.function.len /\ file_len'[d] = f.file.len
        /\ lineno'[d] = f.lineno
        /\ Stored(buffer', function_off'[d], f.function, buffer_len')
        /\ Stored(buffer', file_off'[d], f.file, buffer_len')
    BY <1>2, <1>4, <1>6, <1>8
  <2>2. Terminated(function_off[d], function_len[d])'
    BY <2>1 DEF Stored, Terminated
  <2>3. Terminated(file_off[d], file_len[d])'
    BY <2>1 DEF Stored, Terminated
  <2>4. View(function_off[d], function_len[d])' = Spelled(f.function)
    BY <2>1 DEF Stored, View, Spelled
  <2>5. View(file_off[d], file_len[d])' = Spelled(f.file)
    BY <2>1 DEF Stored, View, Spelled
  <2> QED
    BY <2>1, <2>2, <2>3, <2>4, <2>5 DEF FrameAt
<1>9. TypeOK'
  BY <1>1, <1>2, <1>3, <1>4 DEF Inv, TypeOK
<1>10. StringsTerminated'
  <2> SUFFICES ASSUME NEW d \in 0..(depth' - 1)
               PROVE  /\ Terminated(function_off[d], function_len[d])'
                      /\ Terminated(file_off[d], file_len[d])'
    BY DEF StringsTerminated
  <2>1. d \in 0..(depth - 1) \/ (d \in Nat /\ d = depth)
    BY <1>0, <1>1
  <2> QED
    BY <2>1, <1>7, <1>8
<1>11. RestIsZero' /\ buffer'[0] = Nul
  BY <1>3 DEF RestIsZero, ZeroFrom
<1> QED
  BY <1>0, <1>1, <1>7, <1>8, <1>9, <1>10, <1>11 DEF Inv

(* The other steps write nothing behind the zero at position 0. *)
LEMMA CtorInv == ASSUME Inv, Ctor PROVE Inv'
<1>1. /\ MaxDepth \in Nat /\ BufferSize \in Nat \ {0}
      /\ 0 \in Positions /\ 0 \in Depths /\ 0 \in 0..BufferSize
      /\ 1 \in 1..BufferSize
  BY SizesAssumption DEF Positions, Depths
<1>2. TypeOK'
  <2>1. /\ Zeros \in [Depths -> Positions]
        /\ Zeros \in [Depths -> 0..BufferSize]
        /\ Zeros \in [Depths -> Lines \cup {0}]
    BY <1>1 DEF Zeros
  <2>2. buffer' \in [Positions -> Chars]
    BY DEF Ctor, Chars
  <2> QED
    BY <1>1, <2>1, <2>2 DEF Ctor, Inv, TypeOK
<1>3. StringsTerminated'
  BY DEF Ctor, StringsTerminated
<1>4. RestIsZero' /\ buffer'[0] = Nul
  BY <1>1 DEF Ctor, RestIsZero
<1> QED
  BY <1>2, <1>3, <1>4 DEF Inv

LEMMA SampleKept ==
    ASSUME Inv, UNCHANGED sample, returned' \in BOOLEAN, it_depth' \in Depths
    PROVE  Inv' /\ \A d \in Depths : FrameAt(d)' = FrameAt(d)
<1>1. UNCHANGED <<depth, buffer_len, function_off, function_len,
                  file_off, file_len, lineno, buffer>>
  BY DEF sample, arrays
<1> QED
  BY <1>1 DEF Inv, TypeOK, StringsTerminated, RestIsZero, Terminated, FrameAt, View

LEMMA NextInv == Inv /\ [Next]_vars => Inv'
<1> SUFFICES ASSUME Inv, [Next]_vars PROVE Inv'
  OBVIOUS
<1>0. depth \in Depths /\ it_depth \in Depths /\ returned \in BOOLEAN /\ 0 \in Depths
  BY SizesAssumption DEF Inv, TypeOK, Depths
<1>1. CASE Ctor
  BY <1>1, CtorInv
<1>2. CASE TryAddTooDeep
  BY <1>0, <1>2, SampleKept DEF TryAddTooDeep
<1>3. ASSUME NEW f \in StackFrames, TryAddNoFunction(f) PROVE Inv'
  BY <1>0, <1>3, SampleKept DEF TryAddNoFunction
<1>4. ASSUME NEW f \in StackFrames, TryAddNoFile(f) PROVE Inv'
  BY <1>4, NoFileStep
<1>5. ASSUME NEW f \in StackFrames, TryAdd(f) PROVE Inv'
  BY <1>5, AddStep
<1>6. CASE IteratorCtor
  BY <1>0, <1>6, SampleKept DEF IteratorCtor
<1>7. CASE IteratorFrame
  BY <1>0, <1>7, SampleKept DEF IteratorFrame
<1>8. CASE IteratorNext
  <2>1. it_depth + 1 \in Depths
    BY <1>0, <1>8, SizesAssumption DEF IteratorNext, IteratorValid, Depths
  <2> QED
    BY <1>0, <1>8, <2>1, SampleKept DEF IteratorNext
<1>9. CASE UNCHANGED vars
  BY <1>0, <1>9, SampleKept DEF vars
<1> QED
  BY <1>1, <1>2, <1>3, <1>4, <1>5, <1>6, <1>7, <1>8, <1>9 DEF Next

(* stack-sample.c, for every depth, every size of the buffer and all strings:
   whatever is added, refused or refused halfway, the strings of the frames
   that were added stay inside the used part of the buffer, terminated. *)
THEOREM StringsStayTerminated == Spec => [](TypeOK /\ StringsTerminated)
<1>1. Init => Inv
  BY InitInv
<1>2. Inv /\ [Next]_vars => Inv'
  BY NextInv
<1>3. Inv => TypeOK /\ StringsTerminated
  BY DEF Inv
<1> QED
  BY <1>1, <1>2, <1>3, PTL DEF Spec

-----------------------------------------------------------------------------
Read == [i \in 1..depth |-> FrameAt(i - 1)]

LEMMA ReadLength == ASSUME Inv PROVE depth \in Nat /\ Len(Read) = depth
<1>1. depth \in Nat
  BY SizesAssumption DEF Inv, TypeOK, Depths
<1> QED
  BY <1>1 DEF Read

(* Frames that read as they did make up the same list. *)
LEMMA SameRead ==
    ASSUME Inv, depth' = depth, \A d \in 0..(depth - 1) : FrameAt(d)' = FrameAt(d)
    PROVE  Read' = Read
<1>1. depth \in Nat
  BY ReadLength
<1>2. ASSUME NEW i \in 1..depth PROVE FrameAt(i - 1)' = FrameAt(i - 1)
  BY <1>1
<1> QED
  BY <1>2 DEF Read

LEMMA AddAppends ==
    ASSUME Inv, NEW f \in StackFrames, TryAdd(f)
    PROVE  Read' = Append(Read, [function |-> Spelled(f.function),
                                 file |-> Spelled(f.file), lineno |-> f.lineno])
<1> DEFINE g == [function |-> Spelled(f.function),
                 file |-> Spelled(f.file), lineno |-> f.lineno]
<1>1. depth \in Nat /\ depth' = depth + 1 /\ Len(Read) = depth
  BY AddStep, ReadLength
<1>2. ASSUME NEW i \in 1..(depth + 1)
      PROVE  FrameAt(i - 1)' = IF i = depth + 1 THEN g ELSE FrameAt(i - 1)
  <2>1. CASE i = depth + 1
    BY <2>1, <1>1, AddStep
  <2>2. CASE i # depth + 1
    BY <2>2, <1>1, AddStep
  <2> QED
    BY <2>1, <2>2
<1>3. Read' = [i \in 1..(depth + 1) |-> FrameAt(i - 1)']
  BY <1>1 DEF Read
<1>4. Append(Read, g) = [i \in 1..(depth + 1) |-> IF i = depth + 1 THEN g ELSE Read[i]]
  BY <1>1 DEF Read
<1>5. ASSUME NEW i \in 1..(depth + 1), i # depth + 1
      PROVE  Read[i] = FrameAt(i - 1)
  BY <1>1, <1>5 DEF Read
<1> QED
  BY <1>2, <1>3, <1>4, <1>5

(* components/stack-sample is a list of frames: offsets, lengths, the packing
   of strings and what a failed add leaves in the buffer never show in what is
   read back. *)
THEOREM SampleImplementsFrameList == Spec => ImplementsFrameList
<1>1. Init => Abstract!Init
  BY DEF Init, Abstract!Init
<1>2. Inv /\ [Next]_vars => [Abstract!Next]_(Abstract!vars)
  <2> SUFFICES ASSUME Inv, [Next]_vars
               PROVE  [Abstract!Next]_(Abstract!vars)
    OBVIOUS
  <2>0. depth \in Nat /\ Len(Read) = depth
    BY ReadLength
  <2>1. CASE Ctor
    BY <2>1 DEF Ctor, Abstract!Next, Abstract!Clear
  <2>2. ASSUME UNCHANGED sample
        PROVE  Read' = Read
    BY <2>2 DEF sample, arrays, Read, FrameAt, View
  <2>3. CASE TryAddTooDeep
    BY <2>2, <2>3 DEF TryAddTooDeep, Read, Abstract!Next, Abstract!Refuse
  <2>4. ASSUME NEW f \in StackFrames, TryAddNoFunction(f)
        PROVE  Abstract!Next
    BY <2>2, <2>4 DEF TryAddNoFunction, Read, Abstract!Next, Abstract!Refuse
  <2>5. ASSUME NEW f \in StackFrames, TryAddNoFile(f)
        PROVE  Abstract!Next
    <3>1. Read' = Read
      BY <2>5, NoFileStep, SameRead DEF TryAddNoFile
    <3> QED
      BY <2>5, <3>1 DEF TryAddNoFile, Read, Abstract!Next, Abstract!Refuse
  <2>6. ASSUME NEW f \in StackFrames, TryAdd(f)
        PROVE  Abstract!Next
    <3> DEFINE g == [function |-> Spelled(f.function),
                     file |-> Spelled(f.file), lineno |-> f.lineno]
    <3>1. Read' = Append(Read, g)
      BY <2>6, AddAppends
    <3>2. Len(Read) < MaxDepth
      BY <2>0, <2>6 DEF TryAdd, StoreFunction
    <3>3. returned' = TRUE /\ UNCHANGED <<it_depth, frame>>
      BY <2>6 DEF TryAdd
    <3>4. Abstract!Add(g)
      BY <3>1, <3>2, <3>3 DEF Read, Abstract!Add
    <3> QED
      BY <3>4 DEF Abstract!Next
  <2>7. CASE IteratorCtor
    BY <2>2, <2>7 DEF IteratorCtor, Read, Abstract!Next, Abstract!Rewind
  <2>8. CASE IteratorFrame
    <3>1. it_depth \in Nat /\ it_depth + 1 \in 1..depth
      BY <2>0, <2>8, SizesAssumption
         DEF IteratorFrame, IteratorValid, Inv, TypeOK, Depths
    <3>2. Read[it_depth + 1] = FrameAt(it_depth)
      BY <3>1 DEF Read
    <3> QED
      BY <2>0, <2>2, <2>8, <3>1, <3>2
         DEF IteratorFrame, IteratorValid, Read, Abstract!Next, Abstract!Read
  <2>9. CASE IteratorNext
    BY <2>0, <2>2, <2>9
       DEF IteratorNext, IteratorValid, Read, Abstract!Next, Abstract!Advance
  <2>10. CASE UNCHANGED vars
    BY <2>2, <2>10 DEF vars, Read, Abstract!vars
  <2> QED
    BY <2>1, <2>3, <2>4, <2>5, <2>6, <2>7, <2>8, <2>9, <2>10 DEF Next
<1> QED
  BY <1>1, <1>2, InitInv, NextInv, PTL DEF Spec, ImplementsFrameList, Abstract!Spec
=============================================================================
