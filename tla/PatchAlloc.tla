----------------------------- MODULE PatchAlloc -----------------------------
(***************************************************************************)
(* How the host lays a patch out (host/hw_patch.c): each region of memory  *)
(* gets a piece of the content memory, and is split into blocks that the   *)
(* content addressable memory of the FPGA can match, powers of two aligned *)
(* on their size.  Addresses and sizes are in bytes, the registers in      *)
(* words of two bytes.                                                     *)
(***************************************************************************)
EXTENDS Integers, Sequences, FiniteSets, FiniteSetsExt

CONSTANTS
    Regions,             \* the regions a user may ask for: [base, size] in bytes
    MaxRegions,          \* bound on their number
    Words,               \* 2^23 words of memory
    PATCH_CONTENT_SIZE,  \* 16 * 1024 bytes
    PATCH_NUM_BLOCKS     \* 64

ASSUME SizesAssumption ==
    /\ Words \in Nat \ {0}
    /\ PATCH_NUM_BLOCKS \in Nat \ {0}
    /\ PATCH_CONTENT_SIZE \in Nat \ {0} /\ PATCH_CONTENT_SIZE % 2 = 0
\* Regions lie in the memory and start at a whole word: HWPatch_AllocRegion
\* copies bytes to words, so an odd base would put each into the wrong half.
ASSUME RegionsAssumption ==
    \A r \in Regions : /\ r.base \in Nat /\ r.size \in Nat
                       /\ r.base % 2 = 0 /\ r.base + r.size <= 2 * Words

VARIABLES
    patch,    \* [blocks: the CAM blocks in use; contentSize]
    work,     \* [base, size, offset]: what is left of the region allocated
    regions,  \* the regions allocated, with the start of their content
    exited    \* out of space, or of blocks: exit(1)

allocVars == <<patch, work, regions, exited>>

ContentWords == PATCH_CONTENT_SIZE \div 2
NoWork == [base |-> 0, size |-> 0, offset |-> 0]

\* HWPatch_Init
AllocInit ==
    /\ patch = [blocks |-> <<>>, contentSize |-> 0]
    /\ work = NoWork /\ regions = <<>> /\ exited = FALSE

AllocReset ==
    /\ patch' = [blocks |-> <<>>, contentSize |-> 0]
    /\ work' = NoWork /\ regions' = <<>> /\ exited' = FALSE

RoundUp(size) == size + (size % 2)

\* blockOffset, a 16-bit register of which the hardware keeps as many bits as
\* there are content words: 13.
BlockOffset(contentBase, base) == ((contentBase - base) \div 2) % ContentWords

AllocRegion(r) ==
    /\ work.size = 0 /\ ~ exited /\ Len(regions) < MaxRegions
    /\ LET size == RoundUp(r.size) IN
         IF patch.contentSize + size > PATCH_CONTENT_SIZE
           THEN exited' = TRUE /\ UNCHANGED <<patch, work, regions>>
           ELSE /\ work' = [base |-> r.base, size |-> size,
                            offset |-> BlockOffset(patch.contentSize, r.base)]
                /\ patch' = [patch EXCEPT !.contentSize = @ + size]
                /\ regions' = Append(regions, [base |-> r.base, size |-> size,
                                               content |-> patch.contentSize])
                /\ UNCHANGED exited

\* 0x7fffffff shifted right, for blocks no larger than the memory may be.
BlockMasks == {0, 1, 3, 7, 15, 31, 63, 127, 255, 511, 1023, 2047, 4095, 8191,
               16383, 32767, 65535, 131071, 262143, 524287, 1048575, 2097151,
               4194303, 8388607}

\* The largest mask of low bits that is inside the region and clear in its base:
\* (mask & base) = 0 says that the base is a multiple of mask + 1.
\* Mutant: the base is not looked at.
BlockMaskUnaligned(base, size) ==
    Max({m \in BlockMasks : m < size})
BlockMask(base, size) ==
    Max({m \in BlockMasks : m < size /\ base % (m + 1) = 0})

\* One turn of the loop.
EmitBlock ==
    /\ work.size > 0 /\ ~ exited
    /\ LET mask == BlockMask(work.base, work.size) IN
         IF Len(patch.blocks) >= PATCH_NUM_BLOCKS
           THEN exited' = TRUE /\ UNCHANGED <<patch, work>>
           ELSE /\ patch' = [patch EXCEPT !.blocks =
                               Append(@, [addr |-> work.base \div 2,
                                          mask |-> mask \div 2,
                                          offset |-> work.offset])]
                /\ work' = [work EXCEPT !.base = @ + mask + 1,
                                        !.size = @ - (mask + 1)]
                /\ UNCHANGED exited
    /\ UNCHANGED regions

AllocNext == EmitBlock \/ \E r \in Regions : AllocRegion(r)
AllocSpec == AllocInit /\ [][AllocNext]_allocVars

-----------------------------------------------------------------------------
(* Properties *)

\* A CAM entry matches an address when they agree outside the mask.
EntryMatches(entry, w) == w \div (entry.mask + 1) = entry.addr \div (entry.mask + 1)

WordsOf(r) == r.base \div 2 .. (r.base + r.size) \div 2 - 1
\* Where overlapping regions meet, the first one counts.
RegionOf(w) == Min({i \in DOMAIN regions : w \in WordsOf(regions[i])})
InRegion(w) == \E i \in DOMAIN regions : w \in WordsOf(regions[i])
ContentOf(r, w) == r.content \div 2 + w - r.base \div 2

\* When a region is done, the blocks match exactly the words of the regions, no
\* word of a region twice, and a matching block's offset leads to the word's own
\* content (hw_patch.c:97-102, 113-127).
BlocksCover ==
    (work.size = 0 /\ ~ exited) =>
        \A w \in 0 .. Words - 1 :
            LET hits == {i \in DOMAIN patch.blocks : EntryMatches(patch.blocks[i], w)} IN
            /\ Cardinality(hits) = Cardinality({i \in DOMAIN regions : w \in WordsOf(regions[i])})
            /\ InRegion(w) =>
                 (patch.blocks[Min(hits)].offset + w) % ContentWords
                   = ContentOf(regions[RegionOf(w)], w)
=============================================================================
