-------------------------------- MODULE Arena --------------------------------
(***************************************************************************)
(* components/arena: bump allocation inside a block of memory that its     *)
(* user provides.  The arena object itself sits at the aligned start of    *)
(* the block.  offset, capacity and sizes are uint32_t, pointers and the   *)
(* sums that the code does in size_t or ptrdiff_t are not cut off.         *)
(***************************************************************************)
EXTENDS Integers, Sequences

CONSTANTS
    Word,           \* 2^32: uint32_t counts modulo this
    Buffers,        \* the blocks an arena may be made of
    Sizes           \* the sizes its user asks for

(* The length of a block is a uint32_t. *)
ASSUME WordAssumption == Word \in Nat /\ Word > 0
ASSUME BuffersAssumption == Buffers \subseteq [base : Nat, len : 0..(Word - 1)]

(* alloc_str adds one to the size in 32 bits: no string is 4 GiB long. *)
ASSUME SizesAssumption == Sizes \subseteq 0..(Word - 2)

VARIABLES
    buffer,         \* the block of memory
    made,           \* it holds an arena
    start, offset, capacity,
    blocks          \* the arena object and what was handed out, in order: an
                    \* address that is handed out twice is there twice

arenaVars == <<buffer, made, start, offset, capacity, blocks>>

-----------------------------------------------------------------------------
\* sizeof and _Alignof on the platforms the package is built for
HeaderSize == 16
HeaderAlign == 8
StrAlign == 8
MaxAlign == 16
Aligns == {HeaderAlign, StrAlign, MaxAlign}

(* (~ptr + 1) & (align - 1): the low bits of -ptr, for a power of two. *)
AlignDiff(ptr, align) == (-ptr) % align

(* at: its address; size: what was reserved; need: what its user writes *)
Blocks == [at : Nat, size : Nat, align : Aligns, need : Nat]

ArenaTypeOK ==
    /\ buffer \in Buffers
    /\ made \in BOOLEAN
    /\ start \in Nat /\ offset \in 0..(Word - 1) /\ capacity \in 0..(Word - 1)
    /\ blocks \in Seq(Blocks)

ArenaInit ==
    /\ buffer \in Buffers
    /\ made = FALSE
    /\ start = 0 /\ offset = 0 /\ capacity = 0
    /\ blocks = << >>

-----------------------------------------------------------------------------
HeaderDiff == AlignDiff(buffer.base, HeaderAlign)

\* Bug variant: any block is long enough.
NewFitsUnchecked == buffer.len # 0

NewFits == buffer.len # 0 /\ HeaderDiff + HeaderSize <= buffer.len

Header == [at |-> buffer.base + HeaderDiff, size |-> HeaderSize,
           align |-> HeaderAlign, need |-> HeaderSize]

(* datadog_php_arena_new *)
New ==
    /\ NewFits
    /\ made' = TRUE
    /\ offset' = 0
    /\ capacity' = buffer.len - HeaderSize - HeaderDiff
    /\ start' = buffer.base + HeaderDiff + HeaderSize
    /\ blocks' = <<Header>>
    /\ UNCHANGED buffer

NewFails == ~NewFits /\ UNCHANGED arenaVars

(* datadog_php_arena_alloc: the aligned offset is a sum of two uint32_t, its
   comparison with the capacity is not. *)
AtLeastOne(size) == IF size = 0 THEN 1 ELSE size
Aligned(align) == (offset + AlignDiff(start + offset, align)) % Word

Fits(size, align) == Aligned(align) + AtLeastOne(size) <= capacity

Reserve(size, align, need) ==
    /\ made
    /\ Fits(size, align)
    /\ offset' = Aligned(align) + AtLeastOne(size)
    /\ blocks' = Append(blocks,
         [at |-> start + Aligned(align), size |-> AtLeastOne(size),
          align |-> align, need |-> need])
    /\ UNCHANGED <<buffer, made, start, capacity>>

Alloc(size, align) == Reserve(size, align, size)

NoRoom(size, align) == made /\ ~Fits(size, align) /\ UNCHANGED arenaVars

\* Bug variant: no room for the null byte.
StrSizeNoNull(size) == size

(* datadog_php_arena_alloc_str: the empty string needs no memory; any other
   is copied, with a null byte at its end. *)
StrSize(size) == (size + 1) % Word

AllocStr(size) ==
    IF size = 0 THEN UNCHANGED arenaVars
                ELSE Reserve(StrSize(size), StrAlign, size + 1)

NoRoomStr(size) == size # 0 /\ NoRoom(StrSize(size), StrAlign)

(* datadog_php_arena_reset: what was handed out is invalid. *)
Reset ==
    /\ made
    /\ offset' = 0
    /\ blocks' = <<Header>>
    /\ UNCHANGED <<buffer, made, start, capacity>>

(* Its user overwrites the block of memory, arena and all. *)
Wipe ==
    /\ made' = FALSE
    /\ start' = 0 /\ offset' = 0 /\ capacity' = 0
    /\ blocks' = << >>
    /\ UNCHANGED buffer

ArenaNext ==
    \/ New \/ NewFails \/ Reset \/ Wipe
    \/ \E size \in Sizes :
          \/ AllocStr(size) \/ NoRoomStr(size)
          \/ \E align \in Aligns : Alloc(size, align) \/ NoRoom(size, align)

ArenaSpec == ArenaInit /\ [][ArenaNext]_arenaVars

-----------------------------------------------------------------------------
Ends(b) == b.at + b.size

(* Whatever is asked for in whatever order, up to the last byte of the block:
   every object is aligned, has room for what its user writes, lies inside the
   block, and overlaps neither another object, be it one of the same size at
   the same address, nor the arena's own header. *)
BlocksSound ==
    \A k \in DOMAIN blocks : LET b == blocks[k] IN
        /\ b.at % b.align = 0
        /\ b.need <= b.size
        /\ buffer.base <= b.at /\ Ends(b) <= buffer.base + buffer.len
        /\ \A l \in DOMAIN blocks \ {k} :
              Ends(b) <= blocks[l].at \/ Ends(blocks[l]) <= b.at
=============================================================================
