-------------------------- MODULE ActivationProofs --------------------------
(* Proofs about Activation and its two parts.                              *)
(* Once, for every set of callers and any number of lives of the once: at  *)
(* most one caller is inside the mutex, and what once.h says of the        *)
(* routine is what once.c does.                                            *)
(* Arena, for every width of its integers, every block it is made of and   *)
(* every sequence of requests: what it hands out is sound.                 *)
(* The routine itself, for all values of the settings: whoever returns     *)
(* finds them as the environment has them.                                 *)
EXTENDS Activation, TLAPS

(* The mutex holds the callers between its two operations, one at a time. *)
MutualExclusion ==
    /\ mutex = {c \in Callers : at[c] \in Locked}
    /\ \A c, d \in Callers : at[c] \in Locked /\ at[d] \in Locked => c = d

(* Whoever may run the routine has read the flag as false inside the lock and
   the flag is still false; whoever is past the routine relies on it being set. *)
FlagTells ==
    \A c \in Callers :
        /\ at[c] \in {"routine", "store"} => ~initialized
        /\ at[c] \in {"unlock", "returned"} => initialized

NobodyInside == ~constructed => \A c \in Callers : at[c] = "out"

OnceInv == OnceTypeOK /\ MutualExclusion /\ FlagTells /\ NobodyInside

-----------------------------------------------------------------------------
LEMMA OnceInitInv == OnceInit => OnceInv
BY DEF OnceInit, OnceInv, OnceTypeOK, MutualExclusion, FlagTells, NobodyInside,
       Places, Locked

(* A caller that moves changes its own place only. *)
LEMMA MovesOne ==
    ASSUME OnceTypeOK, NEW c \in Callers, NEW from, NEW to \in Places,
           Moves(c, from, to)
    PROVE  /\ at' \in [Callers -> Places]
           /\ at[c] = from /\ at'[c] = to
           /\ \A d \in Callers : d # c => at'[d] = at[d]
BY DEF OnceTypeOK, Moves

(* Constructor and destructor: no caller is anywhere but outside. *)
LEMMA LifeInv ==
    ASSUME OnceInv, Ctor \/ CtorFails \/ Dtor
    PROVE  OnceInv'
<1>1. \A c \in Callers : at[c] = "out"
  BY DEF OnceInv, NobodyInside, Ctor, CtorFails, Dtor
<1>2. at' = at /\ mutex' = mutex /\ initialized' \in BOOLEAN /\ constructed' \in BOOLEAN
  BY DEF Ctor, CtorFails, Dtor, OnceInv, OnceTypeOK
<1>3. OnceTypeOK' /\ MutualExclusion'
  BY <1>2 DEF OnceInv, OnceTypeOK, MutualExclusion
<1>4. FlagTells' /\ NobodyInside'
  BY <1>1, <1>2 DEF FlagTells, NobodyInside
<1> QED
  BY <1>3, <1>4 DEF OnceInv

(* One step of one caller.  The routine is entered under the lock only, so
   that the flag cannot change between its second reading and the store. *)
LEMMA CallerInv ==
    ASSUME OnceInv, NEW c \in Callers,
           Call(c) \/ Inside(c) \/ Routine(c) \/ GoOn(c)
    PROVE  OnceInv'
<1> USE DEF OnceInv
<1>0. constructed
  BY DEF NobodyInside, Call, Inside, Load, Lock, Check, Routine, Store, Unlock, GoOn, Moves
<1>1. CASE Call(c)
  <2>1. "load" \in Places
    BY DEF Places
  <2>2. OnceTypeOK' /\ at[c] = "out" /\ at'[c] = "load" /\ \A d \in Callers : d # c => at'[d] = at[d]
    BY <1>1, <2>1, MovesOne DEF Call, OnceTypeOK
  <2> QED
    BY <1>0, <1>1, <2>2 DEF Call, MutualExclusion, FlagTells, NobodyInside, Locked
<1>2. CASE Load(c)
  <2>1. PICK to \in {"returned", "lock"} : Moves(c, "load", to) /\ (to = "returned" <=> initialized)
    BY <1>2 DEF Load
  <2>2. to \in Places
    BY <2>1 DEF Places
  <2>3. OnceTypeOK' /\ at[c] = "load" /\ at'[c] = to /\ \A d \in Callers : d # c => at'[d] = at[d]
    BY <1>2, <2>1, <2>2, MovesOne DEF Load, OnceTypeOK
  <2> QED
    BY <1>0, <1>2, <2>1, <2>3 DEF Load, MutualExclusion, FlagTells, NobodyInside, Locked
<1>3. CASE Lock(c)
  <2>1. "check" \in Places
    BY DEF Places
  <2>2. OnceTypeOK' /\ at[c] = "lock" /\ at'[c] = "check" /\ \A d \in Callers : d # c => at'[d] = at[d]
    BY <1>3, <2>1, MovesOne DEF Lock, OnceTypeOK
  <2>3. \A d \in Callers : at[d] \notin Locked
    BY <1>3 DEF Lock, MutualExclusion
  <2> QED
    BY <1>0, <1>3, <2>2, <2>3 DEF Lock, MutualExclusion, FlagTells, NobodyInside, Locked
<1>4. CASE Check(c)
  <2>1. PICK to \in {"unlock", "routine"} : Moves(c, "check", to) /\ (to = "unlock" <=> initialized)
    BY <1>4 DEF Check
  <2>2. to \in Places
    BY <2>1 DEF Places
  <2>3. OnceTypeOK' /\ at[c] = "check" /\ at'[c] = to /\ \A d \in Callers : d # c => at'[d] = at[d]
    BY <1>4, <2>1, <2>2, MovesOne DEF Check, OnceTypeOK
  <2> QED
    BY <1>0, <1>4, <2>1, <2>3 DEF Check, MutualExclusion, FlagTells, NobodyInside, Locked
<1>5. CASE Routine(c)
  <2>1. "store" \in Places
    BY DEF Places
  <2>2. OnceTypeOK' /\ at[c] = "routine" /\ at'[c] = "store" /\ \A d \in Callers : d # c => at'[d] = at[d]
    BY <1>5, <2>1, MovesOne DEF Routine, OnceTypeOK
  <2> QED
    BY <1>0, <1>5, <2>2 DEF Routine, MutualExclusion, FlagTells, NobodyInside, Locked
<1>6. CASE Store(c)
  <2>1. "unlock" \in Places
    BY DEF Places
  <2>2. OnceTypeOK' /\ at[c] = "store" /\ at'[c] = "unlock" /\ \A d \in Callers : d # c => at'[d] = at[d]
    BY <1>6, <2>1, MovesOne DEF Store, OnceTypeOK
  <2>3. MutualExclusion' /\ NobodyInside'
    BY <1>0, <1>6, <2>2 DEF Store, MutualExclusion, NobodyInside, Locked
  <2>4. \A d \in Callers : at'[d] \notin {"routine", "store"}
    BY <2>2 DEF MutualExclusion, Locked
  <2> QED
    BY <1>6, <2>2, <2>3, <2>4 DEF Store, FlagTells
<1>7. CASE Unlock(c)
  <2>1. "returned" \in Places
    BY DEF Places
  <2>2. OnceTypeOK' /\ at[c] = "unlock" /\ at'[c] = "returned" /\ \A d \in Callers : d # c => at'[d] = at[d]
    BY <1>7, <2>1, MovesOne DEF Unlock, OnceTypeOK
  <2> QED
    BY <1>0, <1>7, <2>2 DEF Unlock, MutualExclusion, FlagTells, NobodyInside, Locked
<1>8. CASE GoOn(c)
  <2>1. "out" \in Places
    BY DEF Places
  <2>2. OnceTypeOK' /\ at[c] = "returned" /\ at'[c] = "out" /\ \A d \in Callers : d # c => at'[d] = at[d]
    BY <1>8, <2>1, MovesOne DEF GoOn, OnceTypeOK
  <2> QED
    BY <1>0, <1>8, <2>2 DEF GoOn, MutualExclusion, FlagTells, NobodyInside, Locked
<1> QED
  BY <1>1, <1>2, <1>3, <1>4, <1>5, <1>6, <1>7, <1>8 DEF Inside

LEMMA OnceNextInv == OnceInv /\ [OnceNext]_onceVars => OnceInv'
<1> SUFFICES ASSUME OnceInv, [OnceNext]_onceVars PROVE OnceInv'
  OBVIOUS
<1>1. CASE UNCHANGED onceVars
  BY <1>1 DEF onceVars, OnceInv, OnceTypeOK, MutualExclusion, FlagTells, NobodyInside
<1>2. CASE OnceNext
  BY <1>2, LifeInv, CallerInv DEF OnceNext
<1> QED
  BY <1>1, <1>2

(* In once.c, for any set of threads, at most one is inside the mutex, the
   routine is entered only while the flag is false, and no caller is past it
   before the flag is set. *)
THEOREM OnceInvariant == OnceSpec => []OnceInv
<1> QED
  BY OnceInitInv, OnceNextInv, PTL DEF OnceSpec

-----------------------------------------------------------------------------
(* What each caller looks like to the users of the once. *)
LEMMA CallerBarMoves ==
    ASSUME OnceTypeOK, NEW c \in Callers, NEW from, NEW to \in Places,
           Moves(c, from, to)
    PROVE  LET Seen(p) == IF p \in {"out", "returned"} THEN p ELSE "in"
           IN  /\ CallerBar[c] = Seen(from)
               /\ CallerBar' = [CallerBar EXCEPT ![c] = Seen(to)]
BY MovesOne DEF CallerBar, Moves, OnceTypeOK

LEMMA InitPromise == OnceInit => Promise!Init
BY DEF OnceInit, Promise!Init, RoutineBar, CallerBar

LEMMA LifePromise ==
    ASSUME OnceInv, Ctor \/ CtorFails \/ Dtor
    PROVE  [Promise!Next]_Promise!vars
<1>1. \A c \in Callers : at[c] = "out"
  BY DEF OnceInv, NobodyInside, Ctor, CtorFails, Dtor
<1>2. CallerBar' = CallerBar /\ \A c \in Callers : CallerBar[c] = "out"
  BY <1>1 DEF CallerBar, Ctor, CtorFails, Dtor
<1>3. CASE Ctor
  <2>1. RoutineBar = "none" /\ RoutineBar' = "due"
    BY <1>1, <1>3 DEF Ctor, RoutineBar
  <2> QED
    BY <1>2, <2>1 DEF Promise!Next, Promise!Construct
<1>4. CASE CtorFails
  <2>1. RoutineBar' = RoutineBar
    BY <1>4 DEF CtorFails, RoutineBar
  <2> QED
    BY <1>2, <2>1 DEF Promise!vars
<1>5. CASE Dtor
  <2>1. RoutineBar # "none" /\ RoutineBar' = "none"
    BY <1>5 DEF Dtor, RoutineBar
  <2> QED
    BY <1>2, <2>1 DEF Promise!Next, Promise!Destruct
<1> QED
  BY <1>3, <1>4, <1>5

LEMMA CallerPromise ==
    ASSUME OnceInv, NEW c \in Callers,
           Call(c) \/ Inside(c) \/ Routine(c) \/ GoOn(c)
    PROVE  [Promise!Next]_Promise!vars
<1> USE DEF OnceInv
<1>0. constructed /\ constructed'
  BY DEF NobodyInside, Call, Inside, Load, Lock, Check, Routine, Store, Unlock, GoOn, Moves
<1>1. CASE Call(c)
  <2>0. "load" \in Places
    BY DEF Places
  <2>1. at[c] = "out" /\ at'[c] = "load" /\ \A d \in Callers : d # c => at'[d] = at[d]
    BY <1>1, <2>0, MovesOne DEF Call
  <2>2. CallerBar[c] = "out" /\ CallerBar' = [CallerBar EXCEPT ![c] = "in"]
    BY <1>1, <2>0, CallerBarMoves DEF Call
  <2>3. RoutineBar # "none" /\ RoutineBar' = RoutineBar
    BY <1>0, <1>1, <2>1 DEF Call, RoutineBar
  <2> QED
    BY <2>2, <2>3 DEF Promise!Next, Promise!Enter
<1>2. CASE Load(c) /\ initialized
  <2>0. "returned" \in Places /\ Moves(c, "load", "returned")
    BY <1>2 DEF Load, Places
  <2>1. at[c] = "load" /\ at'[c] = "returned" /\ \A d \in Callers : d # c => at'[d] = at[d]
    BY <2>0, MovesOne
  <2>2. CallerBar[c] = "in" /\ CallerBar' = [CallerBar EXCEPT ![c] = "returned"]
    BY <2>0, CallerBarMoves
  <2>3. RoutineBar = "run" /\ RoutineBar' = RoutineBar
    BY <1>0, <1>2, <2>1 DEF Load, RoutineBar, FlagTells
  <2> QED
    BY <2>2, <2>3 DEF Promise!Next, Promise!Return
<1>3. CASE Load(c) /\ ~initialized
  <2>0. "lock" \in Places /\ Moves(c, "load", "lock")
    BY <1>3 DEF Load, Places
  <2>1. at[c] = "load" /\ at'[c] = "lock" /\ \A d \in Callers : d # c => at'[d] = at[d]
    BY <2>0, MovesOne
  <2>2. CallerBar' = CallerBar
    BY <2>1 DEF CallerBar
  <2>3. RoutineBar' = RoutineBar
    BY <1>0, <1>3, <2>1 DEF Load, RoutineBar
  <2> QED
    BY <2>2, <2>3 DEF Promise!vars
<1>4. CASE Lock(c)
  <2>0. "check" \in Places /\ Moves(c, "lock", "check")
    BY <1>4 DEF Lock, Places
  <2>1. at[c] = "lock" /\ at'[c] = "check" /\ \A d \in Callers : d # c => at'[d] = at[d]
    BY <2>0, MovesOne
  <2>2. CallerBar' = CallerBar
    BY <2>1 DEF CallerBar
  <2>3. RoutineBar' = RoutineBar
    BY <1>0, <1>4, <2>1 DEF Lock, RoutineBar
  <2> QED
    BY <2>2, <2>3 DEF Promise!vars
<1>5. CASE Check(c) /\ initialized
  <2>0. "unlock" \in Places /\ Moves(c, "check", "unlock")
    BY <1>5 DEF Check, Places
  <2>1. at[c] = "check" /\ at'[c] = "unlock" /\ \A d \in Callers : d # c => at'[d] = at[d]
    BY <2>0, MovesOne
  <2>2. CallerBar' = CallerBar
    BY <2>1 DEF CallerBar
  <2>3. RoutineBar' = RoutineBar
    BY <1>0, <1>5, <2>1 DEF Check, RoutineBar
  <2> QED
    BY <2>2, <2>3 DEF Promise!vars
<1>6. CASE Check(c) /\ ~initialized
  <2>0. "routine" \in Places /\ Moves(c, "check", "routine")
    BY <1>6 DEF Check, Places
  <2>1. at[c] = "check" /\ at'[c] = "routine" /\ \A d \in Callers : d # c => at'[d] = at[d]
    BY <2>0, MovesOne
  <2>2. CallerBar[c] = "in" /\ CallerBar' = CallerBar
    BY <2>1 DEF CallerBar
  <2>3. \A d \in Callers : at[d] \notin {"routine", "store"}
    BY <2>1 DEF MutualExclusion, Locked
  <2>4. RoutineBar = "due" /\ RoutineBar' = "running"
    BY <1>0, <1>6, <2>1, <2>3 DEF Check, RoutineBar
  <2> QED
    BY <2>2, <2>4 DEF Promise!Next, Promise!Begin
<1>7. CASE Routine(c)
  <2>0. "store" \in Places /\ Moves(c, "routine", "store")
    BY <1>7 DEF Routine, Places
  <2>1. at[c] = "routine" /\ at'[c] = "store" /\ \A d \in Callers : d # c => at'[d] = at[d]
    BY <2>0, MovesOne
  <2>2. CallerBar' = CallerBar
    BY <2>1 DEF CallerBar
  <2>3. \A d \in Callers : at'[d] # "routine"
    BY <2>1 DEF MutualExclusion, Locked
  <2>4. RoutineBar = "running" /\ RoutineBar' = "run"
    BY <1>0, <2>1, <2>3 DEF RoutineBar
  <2> QED
    BY <2>2, <2>4 DEF Promise!Next, Promise!End
<1>8. CASE Store(c)
  <2>0. "unlock" \in Places /\ Moves(c, "store", "unlock")
    BY <1>8 DEF Store, Places
  <2>1. at[c] = "store" /\ at'[c] = "unlock" /\ \A d \in Callers : d # c => at'[d] = at[d]
    BY <2>0, MovesOne
  <2>2. CallerBar' = CallerBar
    BY <2>1 DEF CallerBar
  <2>3. \A d \in Callers : at[d] # "routine" /\ at'[d] # "routine"
    BY <2>1 DEF MutualExclusion, Locked
  <2>4. RoutineBar = "run" /\ RoutineBar' = "run"
    BY <1>0, <1>8, <2>1, <2>3 DEF Store, RoutineBar
  <2> QED
    BY <2>2, <2>4 DEF Promise!vars
<1>9. CASE Unlock(c)
  <2>0. "returned" \in Places /\ Moves(c, "unlock", "returned")
    BY <1>9 DEF Unlock, Places
  <2>1. at[c] = "unlock" /\ at'[c] = "returned" /\ \A d \in Callers : d # c => at'[d] = at[d]
    BY <2>0, MovesOne
  <2>2. CallerBar[c] = "in" /\ CallerBar' = [CallerBar EXCEPT ![c] = "returned"]
    BY <2>0, CallerBarMoves
  <2>3. initialized /\ \A d \in Callers : at[d] # "routine"
    BY <2>1 DEF FlagTells
  <2>4. RoutineBar = "run" /\ RoutineBar' = RoutineBar
    BY <1>0, <1>9, <2>1, <2>3 DEF Unlock, RoutineBar
  <2> QED
    BY <2>2, <2>4 DEF Promise!Next, Promise!Return
<1>10. CASE GoOn(c)
  <2>0. "out" \in Places /\ Moves(c, "returned", "out")
    BY <1>10 DEF GoOn, Places
  <2>1. at[c] = "returned" /\ at'[c] = "out" /\ \A d \in Callers : d # c => at'[d] = at[d]
    BY <2>0, MovesOne
  <2>2. CallerBar[c] = "returned" /\ CallerBar' = [CallerBar EXCEPT ![c] = "out"]
    BY <2>0, CallerBarMoves
  <2>3. RoutineBar' = RoutineBar
    BY <1>0, <1>10, <2>1 DEF GoOn, RoutineBar
  <2> QED
    BY <2>2, <2>3 DEF Promise!Next, Promise!GoOn
<1> QED
  BY <1>1, <1>2, <1>3, <1>4, <1>5, <1>6, <1>7, <1>8, <1>9, <1>10 DEF Inside

LEMMA NextPromise == OnceInv /\ [OnceNext]_onceVars => [Promise!Next]_Promise!vars
<1> SUFFICES ASSUME OnceInv, [OnceNext]_onceVars
             PROVE  [Promise!Next]_Promise!vars
  OBVIOUS
<1>1. CASE UNCHANGED onceVars
  BY <1>1 DEF onceVars, Promise!vars, RoutineBar, CallerBar
<1>2. CASE OnceNext
  BY <1>2, LifePromise, CallerPromise DEF OnceNext
<1> QED
  BY <1>1, <1>2

(* once.c keeps the promise of once.h:27-30 for any set of threads and any
   number of constructions: the routine is run once in each, and nobody
   returns before it is done. *)
THEOREM OnceImplementsPromise == OnceSpec => ImplementsPromise
<1> QED
  BY OnceInitInv, OnceNextInv, InitPromise, NextPromise, PTL
  DEF OnceSpec, ImplementsPromise, Promise!Spec


-----------------------------------------------------------------------------
(* The arena fills the rest of its block, and has handed out nothing beyond
   its offset. *)
Bump ==
    /\ made => /\ NewFits
               /\ start = buffer.base + HeaderDiff + HeaderSize
               /\ capacity = buffer.len - HeaderSize - HeaderDiff
               /\ offset <= capacity
               /\ \A k \in DOMAIN blocks : Ends(blocks[k]) <= start + offset
    /\ ~made => blocks = << >>

ArenaInv == ArenaTypeOK /\ Bump /\ BlocksSound

-----------------------------------------------------------------------------
(* What align_diff computes: the least distance to an aligned address. *)
LEMMA AlignDiffAligns ==
    ASSUME NEW ptr \in Nat, NEW align \in Aligns
    PROVE  /\ AlignDiff(ptr, align) \in 0..(align - 1)
           /\ (ptr + AlignDiff(ptr, align)) % align = 0
<1>1. CASE align = 8
  <2>1. (-ptr) % 8 \in 0..7
    OBVIOUS
  <2>2. (ptr + ((-ptr) % 8)) % 8 = 0
    OBVIOUS
  <2> QED
    BY <1>1, <2>1, <2>2 DEF AlignDiff
<1>2. CASE align = 16
  <2>1. (-ptr) % 16 \in 0..15
    OBVIOUS
  <2>2. (ptr + ((-ptr) % 16)) % 16 = 0
    OBVIOUS
  <2> QED
    BY <1>2, <2>1, <2>2 DEF AlignDiff
<1> QED
  BY <1>1, <1>2 DEF Aligns, HeaderAlign, StrAlign, MaxAlign

LEMMA HeaderDiffSmall ==
    ASSUME buffer \in Buffers
    PROVE  /\ buffer.base \in Nat /\ buffer.len \in 0..(Word - 1)
           /\ HeaderDiff \in 0..7
           /\ (buffer.base + HeaderDiff) % 8 = 0
BY BuffersAssumption, AlignDiffAligns DEF HeaderDiff, HeaderAlign, Aligns

(* The 32-bit sum of the offset and the distance is never cut off: the header
   is as long as the greatest alignment, and lies below the offset. *)
LEMMA AlignedNotCutOff ==
    ASSUME ArenaInv, made, NEW align \in Aligns
    PROVE  /\ Aligned(align) = offset + AlignDiff(start + offset, align)
           /\ Aligned(align) \in Nat /\ offset <= Aligned(align)
           /\ (start + Aligned(align)) % align = 0
<1> DEFINE d == AlignDiff(start + offset, align)
<1>1. start \in Nat /\ offset \in Nat /\ capacity \in Nat
  BY WordAssumption DEF ArenaInv, ArenaTypeOK
<1>2. d \in 0..(align - 1) /\ ((start + offset) + d) % align = 0
  BY <1>1, AlignDiffAligns
<1>3. align \in {8, 16}
  BY DEF Aligns, HeaderAlign, StrAlign, MaxAlign
<1>4. offset <= capacity /\ capacity <= Word - 1 - 16
  <2>1. buffer.len \in 0..(Word - 1) /\ HeaderDiff \in 0..7
    BY HeaderDiffSmall DEF ArenaInv, ArenaTypeOK
  <2> QED
    BY <2>1, WordAssumption DEF ArenaInv, Bump, HeaderSize
<1>5. d \in Nat /\ offset + d \in 0..(Word - 1)
  BY <1>1, <1>2, <1>3, <1>4, WordAssumption
<1>6. Aligned(align) = offset + d
  <2>1. \A x \in 0..(Word - 1) : x % Word = x
    BY WordAssumption
  <2> QED
    BY <1>5, <2>1 DEF Aligned
<1>7. (start + offset) + d = start + (offset + d)
  BY <1>1, <1>5
<1> HIDE DEF d
<1>8. Aligned(align) \in Nat /\ offset <= Aligned(align)
  BY <1>1, <1>5, <1>6
<1>9. (start + Aligned(align)) % align = 0
  BY <1>2, <1>6, <1>7
<1> QED
  BY <1>6, <1>8, <1>9 DEF d

-----------------------------------------------------------------------------
(* A block of memory that holds no arena. *)
LEMMA NothingMade ==
    ASSUME buffer \in Buffers, made = FALSE, start = 0, offset = 0, capacity = 0, blocks = << >>
    PROVE  ArenaInv
<1>1. 0 \in Nat /\ 0 \in 0..(Word - 1) /\ << >> \in Seq(Blocks)
  BY WordAssumption
<1>2. ArenaTypeOK
  BY <1>1 DEF ArenaTypeOK
<1>3. Bump
  BY DEF Bump
<1>4. BlocksSound
  BY DEF BlocksSound
<1> QED
  BY <1>2, <1>3, <1>4 DEF ArenaInv

LEMMA ArenaInitInv == ArenaInit => ArenaInv
BY NothingMade DEF ArenaInit

LEMMA HeaderSums ==
    ASSUME NEW base \in Nat, NEW len \in 0..(Word - 1), NEW d \in 0..7, d + 16 <= len
    PROVE  /\ len - 16 - d \in 0..(Word - 1)
           /\ base <= base + d /\ base + d + 16 <= base + len
           /\ base + d + 16 \in Nat
BY WordAssumption

(* A block that is long enough for its header holds it, and the rest is the
   capacity. *)
LEMMA HeaderInside ==
    ASSUME buffer \in Buffers, NewFits
    PROVE  /\ Header \in Blocks
           /\ Header.at % Header.align = 0 /\ Header.need <= Header.size
           /\ buffer.base <= Header.at /\ Ends(Header) <= buffer.base + buffer.len
           /\ Ends(Header) = buffer.base + HeaderDiff + HeaderSize
           /\ Ends(Header) \in Nat
           /\ buffer.len - HeaderSize - HeaderDiff \in 0..(Word - 1)
<1>1. /\ buffer.base \in Nat /\ buffer.len \in 0..(Word - 1)
      /\ HeaderDiff \in 0..7 /\ (buffer.base + HeaderDiff) % 8 = 0
  BY HeaderDiffSmall
<1>2. HeaderDiff + 16 <= buffer.len
  BY DEF NewFits, HeaderSize
<1>3. /\ Header.at = buffer.base + HeaderDiff /\ Header.size = 16
      /\ Header.align = 8 /\ Header.need = 16
  BY DEF Header, HeaderSize, HeaderAlign
<1>4. Header \in Blocks
  <2>1. HeaderDiff \in Nat /\ buffer.base + HeaderDiff \in Nat
    BY <1>1
  <2> QED
    BY <2>1 DEF Header, Blocks, HeaderSize, HeaderAlign, Aligns
<1>5. Ends(Header) = buffer.base + HeaderDiff + 16
  BY <1>3 DEF Ends
<1>6. /\ buffer.len - 16 - HeaderDiff \in 0..(Word - 1)
      /\ buffer.base <= buffer.base + HeaderDiff
      /\ buffer.base + HeaderDiff + 16 <= buffer.base + buffer.len
      /\ buffer.base + HeaderDiff + 16 \in Nat
  BY <1>1, <1>2, HeaderSums
<1>7. Header.at % Header.align = 0 /\ Header.need <= Header.size
  BY <1>1, <1>3
<1> QED
  BY <1>3, <1>4, <1>5, <1>6, <1>7 DEF HeaderSize

(* A new arena, and one that was reset, has handed out its header only. *)
LEMMA HeaderSound ==
    ASSUME buffer \in Buffers, NewFits, buffer' = buffer, blocks' = <<Header>>,
           made' = TRUE, start' = buffer.base + HeaderDiff + HeaderSize,
           capacity' = buffer.len - HeaderSize - HeaderDiff, offset' = 0
    PROVE  ArenaInv'
<1>1. start' = Ends(Header) /\ start' \in Nat /\ capacity' \in 0..(Word - 1)
  BY HeaderInside
<1>2. 0 \in 0..(Word - 1) /\ capacity' >= 0 /\ start' + 0 = start'
  BY <1>1, WordAssumption
<1>3. ArenaTypeOK'
  BY <1>1, <1>2, HeaderInside DEF ArenaTypeOK
<1>4. Bump'
  <2>1. NewFits' /\ HeaderDiff' = HeaderDiff
    BY DEF NewFits, HeaderDiff
  <2>2. \A k \in DOMAIN blocks' : Ends(blocks'[k]) <= start' + offset'
    BY <1>1, <1>2
  <2> QED
    BY <1>2, <2>1, <2>2 DEF Bump
<1>5. BlocksSound'
  BY HeaderInside DEF BlocksSound
<1> QED
  BY <1>3, <1>4, <1>5 DEF ArenaInv

(* An object that is handed out begins behind all earlier ones. *)
LEMMA ReserveInv ==
    ASSUME ArenaInv, NEW size \in Nat, NEW align \in Aligns, NEW need \in Nat,
           need <= size, Reserve(size, align, need)
    PROVE  ArenaInv'
<1> DEFINE addr == start + Aligned(align)
           sz == AtLeastOne(size)
           new == [at |-> addr, size |-> sz, align |-> align, need |-> need]
<1>0. made /\ made' /\ UNCHANGED <<buffer, start, capacity>>
  BY DEF Reserve, ArenaInv, ArenaTypeOK
<1>1. /\ Aligned(align) \in Nat /\ offset <= Aligned(align)
      /\ addr % align = 0
  BY <1>0, AlignedNotCutOff
<1>2. sz \in Nat /\ sz >= 1 /\ need <= sz
  BY DEF AtLeastOne
<1>3. Aligned(align) + sz <= capacity /\ offset' = Aligned(align) + sz
  BY DEF Reserve, Fits
<1>4. /\ buffer.base \in Nat /\ buffer.len \in 0..(Word - 1) /\ HeaderDiff \in 0..7
      /\ start = buffer.base + HeaderDiff + 16 /\ capacity = buffer.len - 16 - HeaderDiff
      /\ start \in Nat /\ offset \in Nat /\ capacity \in Nat /\ capacity <= Word - 1
  BY <1>0, HeaderDiffSmall, WordAssumption DEF ArenaInv, ArenaTypeOK, Bump, HeaderSize
<1>5. blocks' = Append(blocks, new)
  BY DEF Reserve
<1> HIDE DEF addr, sz
<1>6. addr \in Nat /\ addr = start + Aligned(align)
  BY <1>1, <1>4 DEF addr
<1>7. new \in Blocks
  BY <1>2, <1>6 DEF Blocks
<1>8. /\ blocks \in Seq(Blocks) /\ blocks' \in Seq(Blocks)
      /\ DOMAIN blocks' = DOMAIN blocks \cup {Len(blocks) + 1}
      /\ Len(blocks) + 1 \notin DOMAIN blocks
      /\ \A k \in DOMAIN blocks : blocks'[k] = blocks[k]
      /\ blocks'[Len(blocks) + 1] = new
  BY <1>5, <1>7 DEF ArenaInv, ArenaTypeOK
<1>9. ArenaTypeOK'
  <2>1. offset' \in 0..(Word - 1)
    BY <1>1, <1>2, <1>3, <1>4, WordAssumption
  <2> QED
    BY <1>0, <1>8, <2>1 DEF ArenaInv, ArenaTypeOK
<1>10. \A k \in DOMAIN blocks : Ends(blocks[k]) \in Nat /\ Ends(blocks[k]) <= addr
  <2>1. \A k \in DOMAIN blocks : blocks[k] \in Blocks /\ Ends(blocks[k]) <= start + offset
    BY <1>0, <1>8 DEF ArenaInv, Bump
  <2> QED
    BY <1>1, <1>4, <1>6, <2>1 DEF Blocks, Ends
<1>11. Ends(new) = addr + sz /\ addr + sz = start + offset' /\ Ends(new) <= buffer.base + buffer.len
  BY <1>1, <1>2, <1>3, <1>4, <1>6 DEF Ends
<1>12. Bump'
  <2>1. NewFits' /\ HeaderDiff' = HeaderDiff
    BY <1>0 DEF ArenaInv, Bump, NewFits, HeaderDiff
  <2>2. \A k \in DOMAIN blocks' : Ends(blocks'[k]) <= start' + offset'
    <3>1. start' + offset' = Ends(new) /\ addr <= Ends(new) /\ Ends(new) \in Nat
      BY <1>0, <1>2, <1>6, <1>11
    <3> QED
      BY <1>6, <1>8, <1>10, <3>1
  <2> QED
    BY <1>0, <1>3, <1>4, <2>1, <2>2 DEF Bump, HeaderSize
<1>13. BlocksSound'
  <2>1. ASSUME NEW k \in DOMAIN blocks'
        PROVE  /\ blocks'[k].at % blocks'[k].align = 0
               /\ blocks'[k].need <= blocks'[k].size
               /\ buffer.base <= blocks'[k].at
               /\ Ends(blocks'[k]) <= buffer.base + buffer.len
    <3>1. CASE k \in DOMAIN blocks
      <4>1. blocks'[k] = blocks[k]
        BY <1>8, <3>1
      <4> QED
        BY <3>1, <4>1 DEF ArenaInv, BlocksSound
    <3>2. CASE k = Len(blocks) + 1
      <4>1. blocks'[k] = new
        BY <1>8, <3>2
      <4>2. new.at = addr /\ new.align = align /\ new.need = need /\ new.size = sz
        OBVIOUS
      <4>3. addr % align = 0
        BY <1>1 DEF addr
      <4>4. buffer.base <= addr
        BY <1>1, <1>4, <1>6
      <4> QED
        BY <1>2, <1>11, <4>1, <4>2, <4>3, <4>4
    <3> QED
      BY <1>8, <3>1, <3>2
  <2>2. ASSUME NEW k \in DOMAIN blocks', NEW l \in DOMAIN blocks', k # l
        PROVE  Ends(blocks'[k]) <= blocks'[l].at \/ Ends(blocks'[l]) <= blocks'[k].at
    <3>0. new.at = addr
      OBVIOUS
    <3>1. CASE k \in DOMAIN blocks /\ l \in DOMAIN blocks
      <4>1. Ends(blocks[k]) <= blocks[l].at \/ Ends(blocks[l]) <= blocks[k].at
        BY <2>2, <3>1 DEF ArenaInv, BlocksSound
      <4> QED
        BY <1>8, <3>1, <4>1
    <3>2. CASE k \in DOMAIN blocks /\ l = Len(blocks) + 1
      BY <1>8, <1>10, <3>0, <3>2
    <3>3. CASE k = Len(blocks) + 1 /\ l \in DOMAIN blocks
      BY <1>8, <1>10, <3>0, <3>3
    <3> QED
      BY <1>8, <2>2, <3>1, <3>2, <3>3
  <2> QED
    BY <1>0, <2>1, <2>2 DEF BlocksSound, Ends
<1> QED
  BY <1>9, <1>12, <1>13 DEF ArenaInv

(* One more byte for the null of a string: no size of a string is cut off. *)
LEMMA StrSizeWhole ==
    ASSUME NEW size \in Sizes
    PROVE  size \in Nat /\ StrSize(size) = size + 1
<1>1. size \in 0..(Word - 2)
  BY SizesAssumption
<1>2. size + 1 \in 0..(Word - 1)
  BY <1>1, WordAssumption
<1>3. \A x \in 0..(Word - 1) : x % Word = x
  BY WordAssumption
<1> QED
  BY <1>1, <1>2, <1>3 DEF StrSize

LEMMA ArenaNextInv == ArenaInv /\ [ArenaNext]_arenaVars => ArenaInv'
<1> SUFFICES ASSUME ArenaInv, [ArenaNext]_arenaVars PROVE ArenaInv'
  OBVIOUS
<1>1. CASE UNCHANGED arenaVars
  BY <1>1 DEF arenaVars, ArenaInv, ArenaTypeOK, Bump, BlocksSound, NewFits, HeaderDiff
<1>2. CASE New
  BY <1>2, HeaderSound DEF New, ArenaInv, ArenaTypeOK
<1>3. CASE Reset
  BY <1>3, HeaderSound DEF Reset, ArenaInv, ArenaTypeOK, Bump
<1>4. CASE Wipe
  <2>1. /\ buffer' \in Buffers /\ made' = FALSE /\ start' = 0
        /\ offset' = 0 /\ capacity' = 0 /\ blocks' = << >>
    BY <1>4 DEF Wipe, ArenaInv, ArenaTypeOK
  <2>2. 0 \in Nat /\ 0 \in 0..(Word - 1) /\ << >> \in Seq(Blocks)
    BY WordAssumption
  <2>3. ArenaTypeOK'
    BY <2>1, <2>2 DEF ArenaTypeOK
  <2>4. Bump' /\ BlocksSound'
    BY <2>1 DEF Bump, BlocksSound
  <2> QED
    BY <2>3, <2>4 DEF ArenaInv
<1>5. ASSUME NEW size \in Sizes, AllocStr(size)
      PROVE  ArenaInv'
  <2>1. CASE size = 0
    BY <1>1, <1>5, <2>1 DEF AllocStr
  <2>2. CASE size # 0
    BY <1>5, <2>2, StrSizeWhole, ReserveInv DEF AllocStr, Aligns
  <2> QED
    BY <2>1, <2>2
<1>6. ASSUME NEW size \in Sizes, NEW align \in Aligns, Alloc(size, align)
      PROVE  ArenaInv'
  BY <1>6, StrSizeWhole, ReserveInv DEF Alloc
<1>7. CASE NewFails \/ \E size \in Sizes : NoRoomStr(size) \/ \E align \in Aligns : NoRoom(size, align)
  BY <1>1, <1>7 DEF NewFails, NoRoomStr, NoRoom
<1> QED
  BY <1>1, <1>2, <1>3, <1>4, <1>5, <1>6, <1>7 DEF ArenaNext

(* arena.c hands out aligned objects with room for what is written to them,
   inside the block, clear of each other and of the header: for every block,
   every width and every sequence of requests. *)
THEOREM ArenaSound == ArenaSpec => []BlocksSound
<1>1. ArenaInv => BlocksSound
  BY DEF ArenaInv
<1> QED
  BY <1>1, ArenaInitInv, ArenaNextInv, PTL DEF ArenaSpec


-----------------------------------------------------------------------------
(* Where the callers may be tells how far the routine is. *)
RoutineTells ==
    /\ initialized /\ constructed => step = "done"
    /\ \A c \in Callers : at[c] \in {"store", "unlock", "returned"} => step = "done"

(* The copies that were made are those of the texts that were found. *)
Copied(n) == env[Settings[n]] = Text(environ[Settings[n]])
CpuCopied ==
    env[CpuField] = IF environ[CpuTime] = Unset THEN Text(environ[CpuOld]) ELSE environ[CpuTime]

CopiesMade ==
    /\ step = "getenvs" => i <= Len(Settings) /\ \A n \in 1..(i - 1) : Copied(n)
    /\ step \in {"cpu", "cpu old", "config"} => \A n \in DOMAIN Settings : Copied(n)
    /\ step = "idle" => i = 1
    /\ step = "cpu old" => environ[CpuTime] = Unset
    /\ step = "config" => CpuCopied

ConfigTells ==
    /\ step # "done" => config.profiling_enabled = FALSE
    /\ step = "done" /\ config.profiling_enabled => AsInEnviron

ActivationInv ==
    OnceInv /\ ArenaInv /\ SettingTypeOK /\ RoutineTells /\ CopiesMade /\ ConfigTells

-----------------------------------------------------------------------------
(* The names of the settings are different, and none is that of CPU time. *)
LEMMA NamesDiffer ==
    /\ Len(Settings) = 9 /\ DOMAIN Settings = 1..9
    /\ Plain = {"DD_AGENT_HOST", "DD_ENV", "DD_PROFILING_ENABLED",
                "DD_PROFILING_LOG_LEVEL", "DD_SERVICE", "DD_TAGS",
                "DD_TRACE_AGENT_PORT", "DD_TRACE_AGENT_URL", "DD_VERSION"}
    /\ \A n \in 1..9 : Settings[n] \in Plain
    /\ \A m, n \in 1..9 : Settings[m] = Settings[n] => m = n
<1>1. Len(Settings) = 9 /\ DOMAIN Settings = 1..9
  BY DEF Settings
<1>2. /\ Settings[1] = "DD_AGENT_HOST" /\ Settings[2] = "DD_ENV"
      /\ Settings[3] = "DD_PROFILING_ENABLED" /\ Settings[4] = "DD_PROFILING_LOG_LEVEL"
      /\ Settings[5] = "DD_SERVICE" /\ Settings[6] = "DD_TAGS"
      /\ Settings[7] = "DD_TRACE_AGENT_PORT" /\ Settings[8] = "DD_TRACE_AGENT_URL"
      /\ Settings[9] = "DD_VERSION"
  BY DEF Settings
<1>3. \A n \in 1..9 : n = 1 \/ n = 2 \/ n = 3 \/ n = 4 \/ n = 5 \/ n = 6 \/ n = 7 \/ n = 8 \/ n = 9
  OBVIOUS
<1>4. Plain = {"DD_AGENT_HOST", "DD_ENV", "DD_PROFILING_ENABLED",
               "DD_PROFILING_LOG_LEVEL", "DD_SERVICE", "DD_TAGS",
               "DD_TRACE_AGENT_PORT", "DD_TRACE_AGENT_URL", "DD_VERSION"}
  BY <1>1, <1>2, <1>3 DEF Plain
<1>5. \A n \in 1..9 : Settings[n] \in Plain
  BY <1>1 DEF Plain
<1>6. \A m, n \in 1..9 : Settings[m] = Settings[n] => m = n
  BY <1>2, <1>3
<1> QED
  BY <1>1, <1>4, <1>5, <1>6

LEMMA CpuNamesDiffer ==
    /\ CpuTime \in Names /\ CpuOld \in Names /\ CpuTime # CpuOld
    /\ CpuTime \notin Plain /\ CpuOld \notin Plain
    /\ CpuField \in Fields /\ CpuField \notin Plain
    /\ Plain \subseteq Names /\ Plain \subseteq Fields
BY NamesDiffer DEF Names, Cpu, CpuTime, CpuOld, Fields, CpuField

LEMMA LevelType ==
    \A text : LevelDetect(text) \in {Unknown} \cup {Levels[l] : l \in DOMAIN Levels}
BY DEF LevelDetect, Levels

(* A value that was found has a length that the arena may be asked for. *)
LEMMA LengthType ==
    ASSUME NEW name \in Names, NEW found \in Found(name), found # Unset
    PROVE  found \in Values[name] /\ TextLength[found] \in Sizes
BY ValuesAssumption DEF Found

(* What a look-up changes of the environment that was seen. *)
LEMMA LooksUp ==
    ASSUME SettingTypeOK, NEW name \in Names, NEW found \in Found(name), Looks(name, found)
    PROVE  /\ DOMAIN environ' = Names
           /\ \A n \in Names : environ'[n] \in Found(n)
           /\ environ'[name] = found
           /\ \A n \in Names : n # name => environ'[n] = environ[n]
BY DEF SettingTypeOK, Looks

-----------------------------------------------------------------------------
(* The steps of the routine leave the once as it is, those of the once leave
   the routine as it is. *)
LEMMA OnceSteps == [Next]_vars => [OnceNext]_onceVars
<1> SUFFICES ASSUME [Next]_vars PROVE [OnceNext]_onceVars
  OBVIOUS
<1>1. CASE Startup \/ Shutdown
  BY <1>1 DEF Startup, Shutdown, OnceNext
<1>2. CASE RoutineStep
  BY <1>2
  DEF RoutineStep, FirstActivate, Setting, CpuTimeSetting, CpuOldSetting, CpuSetting,
      ConfigCtor, NoConfig
<1>3. CASE \E c \in Callers : OnceStep(c) \/ RoutineReturns(c)
  BY <1>3 DEF OnceStep, RoutineReturns, OnceNext
<1>4. CASE UNCHANGED vars
  BY <1>4 DEF vars
<1> QED
  BY <1>1, <1>2, <1>3, <1>4 DEF Next

LEMMA EndpointSizeType == ASSUME SettingTypeOK PROVE EndpointSize \in Nat
<1>1. \A name \in Plain : env[name] # "" => TextLength[env[name]] \in Nat
  <2>1. \A name \in Plain : \A text \in Values[name] : TextLength[text] \in Sizes
    BY ValuesAssumption, CpuNamesDiffer
  <2>2. Sizes \subseteq Nat
    BY SizesAssumption
  <2> QED
    BY <2>1, <2>2 DEF SettingTypeOK
<1>2. TextLength[Host] \in Nat /\ TextLength[Port] \in Nat
  BY <1>1, DefaultsAssumption, NamesDiffer DEF Host, Port, OrElse
<1> QED
  BY <1>2 DEF EndpointSize

LEMMA AtSetting ==
    ASSUME SettingTypeOK, CopiesMade, step = "getenvs"
    PROVE  i \in 1..9 /\ Settings[i] \in Plain /\ Settings[i] \in Names
<1>1. i \in 1..(Len(Settings) + 1) /\ i <= Len(Settings)
  BY DEF SettingTypeOK, CopiesMade
<1>2. i \in 1..9
  <2>1. Len(Settings) = 9
    BY NamesDiffer
  <2> QED
    BY <1>1, <2>1
<1> QED
  BY <1>2, NamesDiffer, CpuNamesDiffer

(* The arena is used for the copies and for the endpoint only. *)
LEMMA ArenaSteps == ActivationInv /\ [Next]_vars => ArenaInv'
<1> SUFFICES ASSUME ActivationInv, [Next]_vars PROVE ArenaInv'
  OBVIOUS
<1> USE DEF ActivationInv
<1>1. ASSUME [ArenaNext]_arenaVars PROVE ArenaInv'
  BY <1>1, ArenaNextInv
<1>2. CASE Startup \/ Shutdown
  BY <1>1, <1>2 DEF Startup, Shutdown, ArenaNext
<1>3. CASE FirstActivate
  BY <1>1, <1>3 DEF FirstActivate, ArenaNext
<1>4. ASSUME NEW name \in Names, NEW found \in Found(name),
             Copy(found) \/ NoVal(found) \/ NoMem(found)
      PROVE  ArenaInv'
  <2>1. found # Unset => TextLength[found] \in Sizes
    BY LengthType
  <2> QED
    BY <1>1, <1>4, <2>1 DEF Copy, NoVal, NoMem, ArenaNext
<1>5. CASE Setting
  <2>1. Settings[i] \in Names
    BY <1>5, AtSetting DEF Setting
  <2> QED
    BY <1>4, <1>5, <2>1 DEF Setting
<1>6. CASE CpuTimeSetting
  BY <1>4, <1>6, CpuNamesDiffer DEF CpuTimeSetting, CpuSetting
<1>7. CASE CpuOldSetting
  BY <1>4, <1>7, CpuNamesDiffer DEF CpuOldSetting, CpuSetting
<1>8. CASE ConfigCtor
  <2>1. UNCHANGED arenaVars \/ Alloc(EndpointSize, MaxAlign)
    BY <1>8 DEF ConfigCtor, EndpointIs, NoRoom
  <2>2. CASE Alloc(EndpointSize, MaxAlign)
    BY <2>2, EndpointSizeType, ReserveInv DEF Alloc, Aligns
  <2> QED
    BY <1>1, <2>1, <2>2
<1>9. CASE NoConfig \/ (\E c \in Callers : OnceStep(c) \/ RoutineReturns(c)) \/ UNCHANGED vars
  BY <1>1, <1>9 DEF NoConfig, OnceStep, RoutineReturns, vars
<1> QED
  BY <1>2, <1>3, <1>5, <1>6, <1>7, <1>8, <1>9 DEF Next, RoutineStep

-----------------------------------------------------------------------------
(* While the routine is not done nobody is past it, nor is the flag set. *)
LEMMA RoutineTellsKept == ActivationInv /\ [Next]_vars => RoutineTells'
<1> SUFFICES ASSUME ActivationInv, [Next]_vars PROVE RoutineTells'
  OBVIOUS
<1> USE DEF ActivationInv
<1>1. CASE Startup \/ Shutdown
  <2>1. \A c \in Callers : at[c] = "out"
    BY <1>1 DEF Startup, Shutdown, Ctor, CtorFails, Dtor, OnceInv, NobodyInside
  <2> QED
    BY <1>1, <2>1 DEF Startup, Shutdown, Ctor, CtorFails, Dtor, RoutineTells
<1>2. CASE RoutineStep
  <2>1. step # "done" /\ UNCHANGED onceVars
    BY <1>2
    DEF RoutineStep, FirstActivate, Setting, CpuTimeSetting, CpuOldSetting, CpuSetting,
        ConfigCtor, NoConfig
  <2> QED
    BY <2>1 DEF onceVars, RoutineTells
<1>3. ASSUME NEW c \in Callers, OnceStep(c)
      PROVE  RoutineTells'
  <2>1. step' = step /\ (Call(c) \/ Inside(c) \/ GoOn(c))
    BY <1>3 DEF OnceStep, settingVars
  <2>2. CASE step = "done"
    BY <2>1, <2>2 DEF RoutineTells
  <2>3. CASE step # "done"
    <3>1. ~initialized /\ \A d \in Callers : at[d] \notin {"store", "unlock", "returned"}
      BY <2>1, <2>3 DEF RoutineTells, OnceInv, NobodyInside, Call, Inside, Load, Lock, Check,
                        Store, Unlock, GoOn, Moves
    <3>2. initialized' = initialized
      BY <2>1, <3>1 DEF Call, Inside, Load, Lock, Check, Store, Unlock, GoOn, Moves
    <3>3. at'[c] \in {"load", "lock", "check", "routine"}
          /\ \A d \in Callers : d # c => at'[d] = at[d]
      BY <2>1, <3>1 DEF Call, Inside, Load, Lock, Check, Store, Unlock, GoOn, Moves,
                        OnceInv, OnceTypeOK
    <3> QED
      BY <3>1, <3>2, <3>3 DEF RoutineTells
  <2> QED
    BY <2>2, <2>3
<1>4. ASSUME NEW c \in Callers, RoutineReturns(c)
      PROVE  RoutineTells'
  BY <1>4 DEF RoutineReturns, settingVars, RoutineTells
<1>5. CASE UNCHANGED vars
  BY <1>5 DEF vars, onceVars, settingVars, RoutineTells
<1> QED
  BY <1>1, <1>2, <1>3, <1>4, <1>5 DEF Next

(* A step that touches neither the settings nor the arena. *)
LEMMA SettingsUntouched ==
    ASSUME ActivationInv, UNCHANGED <<arenaVars, settingVars>>
    PROVE  SettingTypeOK' /\ CopiesMade' /\ ConfigTells'
<1>1. UNCHANGED <<step, i, environ, env, config>>
  BY DEF settingVars
<1>2. SettingTypeOK'
  BY <1>1 DEF ActivationInv, SettingTypeOK
<1>3. CopiesMade'
  BY <1>1 DEF ActivationInv, CopiesMade, Copied, CpuCopied
<1>4. AsInEnviron' = AsInEnviron
  <2>1. UNCHANGED <<buffer, made, start, offset, capacity, blocks>>
    BY DEF arenaVars
  <2> QED
    BY <1>1, <2>1
    DEF AsInEnviron, Fits, Aligned, EndpointSize, Host, Port
<1>5. ConfigTells'
  BY <1>1, <1>4 DEF ActivationInv, ConfigTells
<1> QED
  BY <1>2, <1>3, <1>5

(* The statics are initialised. *)
LEMMA SettingsReset ==
    ASSUME step' = "idle", i' = 1, environ' = [name \in Names |-> Unset],
           env' = NoSettings, config' = DefaultConfig
    PROVE  SettingTypeOK' /\ CopiesMade' /\ ConfigTells'
<1>1. SettingTypeOK'
  <2>1. step' \in Steps
    BY DEF Steps
  <2>2. i' \in 1..(Len(Settings) + 1)
    <3>1. Len(Settings) = 9
      BY NamesDiffer
    <3> QED
      BY <3>1
  <2>3. DOMAIN environ' = Names /\ \A name \in Names : environ'[name] \in Found(name)
    BY DEF Found
  <2>4. DOMAIN env' = Fields /\ \A f \in Fields : env'[f] = ""
    BY DEF NoSettings
  <2>5. config'.log_level \in {Unknown} \cup {Levels[l] : l \in DOMAIN Levels}
    BY DEF DefaultConfig, Levels
  <2> QED
    BY <2>1, <2>2, <2>3, <2>4, <2>5, CpuNamesDiffer DEF SettingTypeOK
<1>2. CopiesMade'
  BY DEF CopiesMade
<1>3. ConfigTells'
  BY DEF ConfigTells, DefaultConfig
<1> QED
  BY <1>1, <1>2, <1>3

LEMMA FirstActivateKept ==
    ASSUME ActivationInv, FirstActivate
    PROVE  SettingTypeOK' /\ CopiesMade' /\ ConfigTells'
<1>1. /\ step = "idle" /\ step' \in {"getenvs", "failed"} /\ config' = DefaultConfig
      /\ i' = i /\ environ' = environ /\ env' = env
  BY DEF FirstActivate
<1>2. i = 1 /\ Len(Settings) = 9
  BY <1>1, NamesDiffer DEF ActivationInv, CopiesMade
<1>3. step' \in Steps
  BY <1>1 DEF Steps
<1>4. /\ DOMAIN config' = DOMAIN DefaultConfig
      /\ config'.log_level \in {Unknown} \cup {Levels[l] : l \in DOMAIN Levels}
  BY <1>1 DEF DefaultConfig, Levels
<1>5. SettingTypeOK'
  BY <1>1, <1>3, <1>4 DEF ActivationInv, SettingTypeOK
<1>6. CopiesMade'
  <2>1. i' <= Len(Settings) /\ \A n \in 1..(i' - 1) : Copied(n)'
    BY <1>1, <1>2
  <2>2. step' \notin {"cpu", "cpu old", "config", "idle"}
    BY <1>1
  <2> QED
    BY <2>1, <2>2 DEF CopiesMade
<1>7. ConfigTells'
  BY <1>1 DEF ConfigTells, DefaultConfig
<1> QED
  BY <1>5, <1>6, <1>7

(* One turn of the loop: the copies made before stay, the names being
   different, and the new one is that of what was found. *)
LEMMA SettingKept ==
    ASSUME ActivationInv, Setting
    PROVE  SettingTypeOK' /\ CopiesMade' /\ ConfigTells'
<1> USE DEF ActivationInv
<1>1. /\ step = "getenvs" /\ config' = config
      /\ i \in 1..9 /\ Settings[i] \in Plain /\ Settings[i] \in Names
  BY AtSetting DEF Setting
<1>2. PICK found \in Found(Settings[i]) :
        /\ Looks(Settings[i], found)
        /\ \/ /\ env' = [env EXCEPT ![Settings[i]] = Text(found)]
              /\ AfterSetting
           \/ step' = "failed" /\ i' = i /\ env' = env
  BY DEF Setting, Copy, NoVal, Text
<1>3. /\ DOMAIN environ' = Names /\ \A n \in Names : environ'[n] \in Found(n)
      /\ environ'[Settings[i]] = found
      /\ \A n \in Names : n # Settings[i] => environ'[n] = environ[n]
  BY <1>1, <1>2, LooksUp
<1>4. Len(Settings) = 9 /\ DOMAIN Settings = 1..9
  BY NamesDiffer
<1>5. ConfigTells'
  <2>1. step' # "done"
    BY <1>2 DEF AfterSetting
  <2> QED
    BY <1>1, <2>1 DEF ConfigTells
<1>6. CASE env' = [env EXCEPT ![Settings[i]] = Text(found)] /\ AfterSetting
  <2>1. /\ i' = i + 1 /\ step' \in {"cpu", "getenvs"}
        /\ step' = "getenvs" => i # 9
        /\ step' = "cpu" => i = 9
    BY <1>4, <1>6 DEF AfterSetting
  <2>2. /\ DOMAIN env' = Fields /\ env'[Settings[i]] = Text(found)
        /\ \A f \in Fields : f # Settings[i] => env'[f] = env[f]
    BY <1>1, <1>6, CpuNamesDiffer DEF SettingTypeOK
  <2>3. Text(found) \in Values[Settings[i]] \cup {""}
    BY DEF Text, Found
  <2>4. SettingTypeOK'
    <3>1. step' \in Steps
      BY <2>1 DEF Steps
    <3>2. i' \in 1..(Len(Settings) + 1)
      BY <1>1, <1>4, <2>1
    <3>3. \A name \in Plain : env'[name] \in Values[name] \cup {""}
      BY <2>2, <2>3, CpuNamesDiffer DEF SettingTypeOK
    <3>4. env'[CpuField] = env[CpuField]
      BY <1>1, <2>2, CpuNamesDiffer
    <3> QED
      BY <1>1, <1>3, <2>2, <3>1, <3>2, <3>3, <3>4 DEF SettingTypeOK
  <2>5. \A n \in 1..i : Copied(n)'
    <3>1. ASSUME NEW n \in 1..i, n # i
          PROVE  Copied(n)'
      <4>1. n \in 1..(i - 1) /\ n \in 1..9
        BY <1>1, <3>1
      <4>2. /\ Settings[n] # Settings[i]
            /\ Settings[n] \in Names /\ Settings[n] \in Fields
        BY <1>1, <3>1, <4>1, NamesDiffer, CpuNamesDiffer
      <4>3. env[Settings[n]] = Text(environ[Settings[n]])
        BY <1>1, <4>1 DEF CopiesMade, Copied
      <4> QED
        BY <1>3, <2>2, <4>2, <4>3 DEF Copied, Text
    <3> QED
      BY <1>3, <2>2, <3>1 DEF Copied, Text
  <2>6. CopiesMade'
    <3>1. (i + 1) - 1 = i
      BY <1>1
    <3>2. step' = "getenvs" => i' <= Len(Settings) /\ \A n \in 1..(i' - 1) : Copied(n)'
      BY <1>1, <1>4, <2>1, <2>5, <3>1
    <3>3. step' = "cpu" => \A n \in DOMAIN Settings : Copied(n)'
      BY <1>4, <2>1, <2>5
    <3> QED
      BY <2>1, <3>2, <3>3 DEF CopiesMade
  <2> QED
    BY <1>5, <2>4, <2>6
<1>7. CASE step' = "failed" /\ i' = i /\ env' = env
  <2>1. SettingTypeOK'
    BY <1>1, <1>3, <1>7 DEF SettingTypeOK, Steps
  <2> QED
    BY <1>5, <1>7, <2>1 DEF CopiesMade
<1> QED
  BY <1>2, <1>6, <1>7

(* The copies of the settings stay while the variables of CPU time are looked
   up, and while nothing else is. *)
LEMMA PlainCopiesKept ==
    ASSUME ActivationInv, step \in {"cpu", "cpu old"},
           \A n \in Plain : environ'[n] = environ[n] /\ env'[n] = env[n]
    PROVE  \A n \in DOMAIN Settings : Copied(n)'
<1>1. \A n \in DOMAIN Settings : Copied(n)
  BY DEF ActivationInv, CopiesMade
<1>2. \A n \in DOMAIN Settings : Settings[n] \in Plain
  BY DEF Plain
<1> QED
  BY <1>1, <1>2 DEF Copied, Text

(* What a look-up of a variable of CPU time leaves behind. *)
LEMMA CpuSettingKept ==
    ASSUME ActivationInv, NEW name \in Cpu, NEW otherwise \in {"cpu old", "config"},
           step \in {"cpu", "cpu old"}, CpuSetting(name, otherwise)
    PROVE  /\ SettingTypeOK' /\ ConfigTells'
           /\ \A n \in DOMAIN Settings : Copied(n)'
           /\ environ'[name] \in Found(name)
           /\ \A n \in Names : n # name => environ'[n] = environ[n]
           /\ \/ environ'[name] # Unset /\ env'[CpuField] = environ'[name] /\ step' = "config"
              \/ environ'[name] = Unset /\ env'[CpuField] = "" /\ step' = otherwise
              \/ step' = "failed"
<1> USE DEF ActivationInv
<1>1. name \in Names /\ name \notin Plain /\ name \in {CpuTime, CpuOld}
  BY CpuNamesDiffer DEF Cpu
<1>2. PICK found \in Found(name) :
        /\ Looks(name, found)
        /\ \/ Copy(found) /\ env' = [env EXCEPT ![CpuField] = found] /\ step' = "config"
           \/ NoVal(found) /\ env' = [env EXCEPT ![CpuField] = ""] /\ step' = otherwise
           \/ NoMem(found) /\ env' = [env EXCEPT ![CpuField] = ""] /\ step' = "failed"
  BY DEF CpuSetting
<1>3. /\ DOMAIN environ' = Names /\ \A n \in Names : environ'[n] \in Found(n)
      /\ environ'[name] = found
      /\ \A n \in Names : n # name => environ'[n] = environ[n]
  BY <1>1, <1>2, LooksUp
<1>4. /\ DOMAIN env' = Fields
      /\ \A f \in Fields : f # CpuField => env'[f] = env[f]
      /\ \/ found # Unset /\ env'[CpuField] = found /\ step' = "config"
         \/ found = Unset /\ env'[CpuField] = "" /\ step' = otherwise
         \/ env'[CpuField] = "" /\ step' = "failed"
  BY <1>2, CpuNamesDiffer DEF SettingTypeOK, Copy, NoVal
<1>5. \A n \in Plain : environ'[n] = environ[n] /\ env'[n] = env[n]
  BY <1>1, <1>3, <1>4, CpuNamesDiffer
<1>6. \A n \in DOMAIN Settings : Copied(n)'
  BY <1>5, PlainCopiesKept
<1>7. i' = i /\ config' = config /\ step' \in {"cpu old", "config", "failed"}
  BY <1>4 DEF CpuSetting
<1>8. SettingTypeOK'
  <2>1. step' \in Steps
    BY <1>7 DEF Steps
  <2>2. \A n \in Plain : env'[n] \in Values[n] \cup {""}
    BY <1>5 DEF SettingTypeOK
  <2>3. env'[CpuField] \in Values[CpuTime] \cup Values[CpuOld] \cup {""}
    BY <1>1, <1>4 DEF Found
  <2> QED
    BY <1>3, <1>4, <1>7, <2>1, <2>2, <2>3 DEF SettingTypeOK
<1>9. ConfigTells'
  BY <1>7 DEF ConfigTells
<1> QED
  BY <1>3, <1>4, <1>6, <1>8, <1>9

(* The documented variable is looked up first, the older one when it is not
   set, and the field has the value of the one that counts. *)
LEMMA CpuKept ==
    ASSUME ActivationInv, CpuTimeSetting \/ CpuOldSetting
    PROVE  SettingTypeOK' /\ CopiesMade' /\ ConfigTells'
<1>1. CASE CpuTimeSetting
  <2>1. /\ SettingTypeOK' /\ ConfigTells'
        /\ \A n \in DOMAIN Settings : Copied(n)'
        /\ \/ environ'[CpuTime] # Unset /\ env'[CpuField] = environ'[CpuTime] /\ step' = "config"
           \/ environ'[CpuTime] = Unset /\ step' = "cpu old"
           \/ step' = "failed"
    BY <1>1, CpuSettingKept DEF CpuTimeSetting, Cpu
  <2>2. step' = "config" => CpuCopied'
    BY <2>1 DEF CpuCopied
  <2> QED
    BY <2>1, <2>2 DEF CopiesMade
<1>2. CASE CpuOldSetting
  <2>1. /\ SettingTypeOK' /\ ConfigTells'
        /\ \A n \in DOMAIN Settings : Copied(n)'
        /\ environ'[CpuTime] = environ[CpuTime] /\ environ[CpuTime] = Unset
        /\ \/ env'[CpuField] = Text(environ'[CpuOld]) /\ step' = "config"
           \/ step' = "failed"
    BY <1>2, CpuSettingKept, CpuNamesDiffer
    DEF CpuOldSetting, Cpu, Text, ActivationInv, CopiesMade
  <2>2. step' = "config" => CpuCopied'
    BY <2>1 DEF CpuCopied, Text
  <2> QED
    BY <2>1, <2>2 DEF CopiesMade
<1> QED
  BY <1>1, <1>2

(* The configuration is made of the copies, and those are what was found. *)
LEMMA ConfigCtorKept ==
    ASSUME ActivationInv, ConfigCtor
    PROVE  SettingTypeOK' /\ CopiesMade' /\ ConfigTells'
<1> USE DEF ActivationInv
<1>1. /\ step = "config" /\ step' = "done"
      /\ i' = i /\ environ' = environ /\ env' = env
  BY DEF ConfigCtor
<1>2. PICK endpoint : EndpointIs(endpoint) /\ config' = Configured(endpoint)
  BY DEF ConfigCtor
<1>3. \A n \in Plain : env[n] = Text(environ[n])
  BY <1>1 DEF CopiesMade, Copied, Plain
<1>4. /\ config'.profiling_enabled = IsBooleanTrue(env["DD_PROFILING_ENABLED"])
      /\ config'.cpu = IsBooleanTrue(env[CpuField])
      /\ config'.log_level = LevelDetect(env["DD_PROFILING_LOG_LEVEL"])
      /\ config'.endpoint = endpoint
      /\ config'.env = env["DD_ENV"] /\ config'.service = env["DD_SERVICE"]
      /\ config'.tags = env["DD_TAGS"] /\ config'.version = env["DD_VERSION"]
      /\ DOMAIN config' = DOMAIN DefaultConfig
  BY <1>2 DEF Configured, DefaultConfig
<1>5. SettingTypeOK'
  BY <1>1, <1>4, LevelType DEF SettingTypeOK, Steps
<1>6. CopiesMade'
  BY <1>1 DEF CopiesMade
<1>7. Host = OrElse(Text(environ["DD_AGENT_HOST"]), DefaultHost)
      /\ Port = OrElse(Text(environ["DD_TRACE_AGENT_PORT"]), DefaultPort)
  BY <1>3, NamesDiffer DEF Host, Port
<1>8. env[CpuField] = IF environ[CpuTime] = Unset THEN Text(environ[CpuOld]) ELSE environ[CpuTime]
  BY <1>1 DEF CopiesMade, CpuCopied
<1>9. \/ endpoint = IF Text(environ["DD_TRACE_AGENT_URL"]) # ""
                    THEN <<Text(environ["DD_TRACE_AGENT_URL"])>> ELSE HostPort(Host, Port)
      \/ endpoint = DefaultEndpoint /\ ~Fits(EndpointSize, MaxAlign) /\ UNCHANGED arenaVars
  <2>1. env["DD_TRACE_AGENT_URL"] = Text(environ["DD_TRACE_AGENT_URL"])
    BY <1>3, NamesDiffer
  <2> QED
    BY <1>2, <2>1 DEF EndpointIs, NoRoom
<1>10. UNCHANGED arenaVars => Fits(EndpointSize, MaxAlign)' = Fits(EndpointSize, MaxAlign)
  BY <1>1 DEF arenaVars, Fits, Aligned, EndpointSize, Host, Port
<1>11. config'.profiling_enabled => AsInEnviron'
  <2> SUFFICES ASSUME config'.profiling_enabled PROVE AsInEnviron'
    OBVIOUS
  <2>1. Text(environ["DD_PROFILING_ENABLED"]) \in {"1", "on", "yes", "true"}
    BY <1>3, <1>4, NamesDiffer DEF IsBooleanTrue
  <2>2. /\ config'.log_level = LevelDetect(Text(environ["DD_PROFILING_LOG_LEVEL"]))
        /\ config'.env = Text(environ["DD_ENV"]) /\ config'.service = Text(environ["DD_SERVICE"])
        /\ config'.tags = Text(environ["DD_TAGS"]) /\ config'.version = Text(environ["DD_VERSION"])
    BY <1>3, <1>4, NamesDiffer
  <2>3. config'.cpu = IsBooleanTrue(IF environ[CpuTime] = Unset THEN Text(environ[CpuOld])
                                    ELSE environ[CpuTime])
    BY <1>4, <1>8
  <2>4. \/ config'.endpoint =
             IF Text(environ["DD_TRACE_AGENT_URL"]) # ""
             THEN <<Text(environ["DD_TRACE_AGENT_URL"])>>
             ELSE HostPort(OrElse(Text(environ["DD_AGENT_HOST"]), DefaultHost),
                           OrElse(Text(environ["DD_TRACE_AGENT_PORT"]), DefaultPort))
        \/ config'.endpoint = DefaultEndpoint /\ ~Fits(EndpointSize, MaxAlign)'
    BY <1>4, <1>7, <1>9, <1>10
  <2> QED
    BY <1>1, <2>1, <2>2, <2>3, <2>4 DEF AsInEnviron
<1>12. ConfigTells'
  BY <1>1, <1>11 DEF ConfigTells
<1> QED
  BY <1>5, <1>6, <1>12

LEMMA NoConfigKept ==
    ASSUME ActivationInv, NoConfig
    PROVE  SettingTypeOK' /\ CopiesMade' /\ ConfigTells'
<1>1. /\ step' = "done" /\ i' = i /\ environ' = environ /\ env' = env
      /\ config' = [config EXCEPT !.profiling_enabled = FALSE]
  BY DEF NoConfig
<1>2. DOMAIN config = DOMAIN DefaultConfig /\ "profiling_enabled" \in DOMAIN config
  BY DEF ActivationInv, SettingTypeOK, DefaultConfig
<1>3. /\ config'.profiling_enabled = FALSE /\ config'.log_level = config.log_level
      /\ DOMAIN config' = DOMAIN config
  BY <1>1, <1>2
<1>4. SettingTypeOK'
  BY <1>1, <1>3 DEF ActivationInv, SettingTypeOK, Steps
<1>5. CopiesMade' /\ ConfigTells'
  BY <1>1, <1>3 DEF CopiesMade, ConfigTells
<1> QED
  BY <1>4, <1>5

-----------------------------------------------------------------------------
LEMMA ActivationInitInv == Init => ActivationInv
<1> SUFFICES ASSUME Init PROVE ActivationInv
  OBVIOUS
<1>1. OnceInv /\ ArenaInv
  BY OnceInitInv, ArenaInitInv DEF Init
<1>2. RoutineTells
  BY DEF Init, OnceInit, RoutineTells
<1>3. SettingTypeOK
  <2>1. i \in 1..(Len(Settings) + 1)
    <3>1. Len(Settings) = 9
      BY NamesDiffer
    <3> QED
      BY <3>1 DEF Init
  <2>2. DOMAIN environ = Names /\ \A name \in Names : environ[name] \in Found(name)
    BY DEF Init, Found
  <2>3. DOMAIN env = Fields /\ \A f \in Fields : env[f] = ""
    BY DEF Init, NoSettings
  <2>4. config.log_level \in {Unknown} \cup {Levels[l] : l \in DOMAIN Levels}
    BY DEF Init, DefaultConfig, Levels
  <2> QED
    BY <2>1, <2>2, <2>3, <2>4, CpuNamesDiffer DEF Init, SettingTypeOK, Steps
<1>4. CopiesMade /\ ConfigTells
  BY DEF Init, CopiesMade, ConfigTells, DefaultConfig
<1> QED
  BY <1>1, <1>2, <1>3, <1>4 DEF ActivationInv

LEMMA ActivationNextInv == ActivationInv /\ [Next]_vars => ActivationInv'
<1> SUFFICES ASSUME ActivationInv, [Next]_vars PROVE ActivationInv'
  OBVIOUS
<1>1. OnceInv'
  BY OnceSteps, OnceNextInv DEF ActivationInv
<1>2. ArenaInv' /\ RoutineTells'
  BY ArenaSteps, RoutineTellsKept
<1>3. SettingTypeOK' /\ CopiesMade' /\ ConfigTells'
  <2>1. CASE Startup
    BY <2>1, SettingsReset, SettingsUntouched DEF Startup
  <2>2. CASE Shutdown \/ (\E c \in Callers : OnceStep(c) \/ RoutineReturns(c)) \/ UNCHANGED vars
    BY <2>2, SettingsUntouched DEF Shutdown, OnceStep, RoutineReturns, vars
  <2>3. CASE RoutineStep
    BY <2>3, FirstActivateKept, SettingKept, CpuKept, ConfigCtorKept, NoConfigKept
    DEF RoutineStep
  <2> QED
    BY <2>1, <2>2, <2>3 DEF Next
<1> QED
  BY <1>1, <1>2, <1>3 DEF ActivationInv

(* env.c and config.c, for all values that the settings may have and every
   block the arena is made of: the copies and the configuration have the types
   that the routine, once and arena rely on, in every life of the process. *)
THEOREM ActivationKeepsTypes == Spec => []TypeOK
<1>1. ActivationInv => TypeOK
  BY DEF ActivationInv, OnceInv, ArenaInv, TypeOK
<1> QED
  BY <1>1, ActivationInitInv, ActivationNextInv, PTL DEF Spec

(* The arena of the first activation (datadog-profiling.c): whatever the
   look-ups find and however they fill it, the copies and the endpoint are
   aligned, inside the static buffer and clear of each other. *)
THEOREM ActivationArenaSound == Spec => []BlocksSound
<1>1. ActivationInv => BlocksSound
  BY DEF ActivationInv, ArenaInv
<1> QED
  BY <1>1, ActivationInitInv, ActivationNextInv, PTL DEF Spec

(* first_activate_once with its routine, for any set of threads: the settings
   are read once in each life, and nobody goes on before that is done. *)
THEOREM ActivationImplementsPromise == Spec => ImplementsPromise
<1>1. Init => OnceInit
  BY DEF Init
<1>2. Spec => OnceSpec
  BY <1>1, OnceSteps, PTL DEF Spec, OnceSpec
<1> QED
  BY <1>2, OnceImplementsPromise

(* env.c:78-166 and config.c:89-106, for all values of the settings and any
   set of threads: whoever returns from the once with the profiler on finds
   each setting as the environment has it, or the profiler off because one of
   them found no room. *)
THEOREM SettingsAreKept == Spec => []SettingsKept
<1>1. ActivationInv => SettingsKept
  BY DEF ActivationInv, RoutineTells, ConfigTells, SettingsKept
<1> QED
  BY <1>1, ActivationInitInv, ActivationNextInv, PTL DEF Spec
=============================================================================
