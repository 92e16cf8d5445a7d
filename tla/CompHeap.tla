------------------------------ MODULE CompHeap ------------------------------
(***************************************************************************)
(* The compile-time heap, src/core/comp_heap.cpp, as its callers use it:   *)
(* comp_heap_alloc, comp_heap_alloc_global_member, comp_heap_dealloc and   *)
(* comp_heap_leak.  (The garbage collector has no caller in the program    *)
(* and is not part of this module.)                                        *)
(*                                                                         *)
(* Addresses are byte offsets from core->heap.memory.  A bitmap is the set *)
(* of the offsets of its marked slots.  A free list is the sequence of its *)
(* entries from the head; the code keeps the link to the next entry in the *)
(* entry's own memory, which is intact as long as NoOverlap holds.         *)
(***************************************************************************)
EXTENDS Integers, Sequences, FiniteSets

CONSTANTS
  MinSize,          \* COMP_HEAP_MIN_ALLOCATION_SIZE: 16
  NumLists,         \* array_count(core->heap.freelists): 14
  ClassSize,        \* size of the entries of each list: MinSize << k
  ReuseLimit,       \* largest total served from a list: 18
  Reserve,          \* core->heap.reserve
  CommitIncrement,  \* core->heap.commit_increment
  Grain,            \* bound: slices are leaked at multiples of this offset
  Requests          \* the allocations the callers make: [size, align, hdr]

Classes == 0 .. NumLists - 1

MaxFreelistSize == 2 * ClassSize[NumLists - 1]

\* Slots are a power of two wide, and list k holds entries of MinSize << k.
ASSUME ClassAssumption ==
  /\ MinSize \in Nat \ {0}
  /\ NumLists \in Nat \ {0, 1, 2}
  /\ ClassSize \in [Classes -> Nat \ {0}]
  /\ ClassSize[0] = MinSize
  /\ \A k \in Classes : k > 0 => ClassSize[k] = 2 * ClassSize[k - 1]
  /\ \A j, k \in Classes : j <= k => ClassSize[k] % ClassSize[j] = 0

\* calc_commit_increment and calc_memory_reserve round to whole increments.
ASSUME SizeAssumption ==
  /\ CommitIncrement \in Nat \ {0} /\ CommitIncrement % MinSize = 0
  /\ Reserve \in Nat \ {0} /\ Reserve % CommitIncrement = 0
  /\ ReuseLimit \in Nat /\ ReuseLimit < 2 * MinSize

\* Alignments are powers of two: below a slot they divide it, else they are
\* whole slots.
ASSUME RequestAssumption ==
  /\ Requests \subseteq [size : Nat, align : Nat \ {0}, hdr : BOOLEAN]
  /\ \A r \in Requests : IF r.align <= MinSize THEN MinSize % r.align = 0
                                               ELSE r.align % MinSize = 0

VARIABLES
  used,       \* first byte past the allocated part of the heap
  commit,     \* first byte past the committed part
  lists,      \* freelists
  begin,      \* begin_bitmap
  header,     \* header_bitmap
  leak,       \* leak_bitmap
  blocks,     \* what the callers hold: [start, size, hdr]
  reply       \* outcome of the last call

vars == <<used, commit, lists, begin, header, leak, blocks, reply>>

-----------------------------------------------------------------------------
\* (a + n - 1) & ~(n - 1)
RoundUp(a, n) == IF a % n = 0 THEN a ELSE a + n - (a % n)

SlotOf(a) == a - (a % MinSize)

HeaderBytes(hdr) == IF hdr THEN MinSize ELSE 0

\* The bytes a call for `size` bytes really allocates.
Served(size, hdr) == IF size = 0 /\ ~hdr THEN 1 ELSE size

Payload(b) == b.start + HeaderBytes(b.hdr)

BlockEnd(b) == RoundUp(Payload(b) + Served(b.size, b.hdr), MinSize)

\* A block's whole extent, and the object its holder sees.
Extent(b) == [at |-> b.start, size |-> BlockEnd(b) - b.start]

Object(b) == [at |-> Payload(b), size |-> Served(b.size, b.hdr)]

\* Two extents share no byte.
Apart(x, y) == x.at + x.size <= y.at \/ y.at + y.size <= x.at

-----------------------------------------------------------------------------
\* comp_heap_add_to_freelist splits a range into one entry per set bit of its
\* size, smallest first, then into entries of MaxFreelistSize, which all go
\* to the last list.
SmallEntries(at, size, k) ==
  IF (size \div ClassSize[k]) % 2 = 1
  THEN << [at |-> at + (size % ClassSize[k]), size |-> ClassSize[k]] >>
  ELSE << >>

\* Mutant: what is left after the last list's bit is dropped.
LargeEntriesDropped(at, size) == << >>

LargeEntries(at, size) ==
  LET n == size \div MaxFreelistSize
  IN  [j \in 1 .. n |-> [at |-> at + size - j * MaxFreelistSize,
                         size |-> MaxFreelistSize]]

AddToFreelist(ls, at, size) ==
  [k \in Classes |->
     (IF k = NumLists - 1 THEN LargeEntries(at, size) ELSE << >>)
       \o SmallEntries(at, size, k) \o ls[k]]

\* The assertions of comp_heap_add_to_freelist: the second loop finds a
\* remainder below MaxFreelistSize when the size is not whole slots.
CanAddToFreelist(at, size) == at % MinSize = 0 /\ size >= MinSize /\ size % MinSize = 0

Failed ==
  /\ reply' = [op |-> "assert"]
  /\ UNCHANGED <<used, commit, lists, begin, header, leak, blocks>>

-----------------------------------------------------------------------------
\* The list a total of `n` bytes is served from: the smallest that fits.
ClassOf(n) == CHOOSE k \in Classes :
                ClassSize[k] >= n /\ \A j \in Classes : ClassSize[j] >= n => k <= j

Total(r) == Served(r.size, r.hdr) + HeaderBytes(r.hdr)

CanReuse(r) ==
  /\ r.align <= MinSize
  /\ Total(r) <= ReuseLimit
  /\ lists[ClassOf(Total(r))] # << >>

\* Where a request lands when memory is taken from the end of the heap.
Unaligned(r) == used + HeaderBytes(r.hdr)

\* Mutant: the requested alignment is ignored.
AlignedNever(r) == Unaligned(r)

Aligned(r) == RoundUp(Unaligned(r), r.align)

Start(r) == Aligned(r) - HeaderBytes(r.hdr)

\* Mutant: the end of the allocation is not rounded up to a slot.
NewUsedUnrounded(r) == Aligned(r) + Served(r.size, r.hdr)

NewUsed(r) == RoundUp(Aligned(r) + Served(r.size, r.hdr), MinSize)

\* The assertions of comp_heap_mark_bitmap_bit on the begin bit and, for a
\* global member, the header bit.
CanMark(r, start) == start \notin begin /\ (r.hdr => start \notin header)

Mark(r, start) ==
  /\ begin' = begin \cup {start}
  /\ header' = IF r.hdr THEN header \cup {start} ELSE header
  /\ blocks' = blocks \cup {[start |-> start, size |-> r.size, hdr |-> r.hdr]}
  /\ reply' = [op |-> "alloc", at |-> start + HeaderBytes(r.hdr)]

\* comp_heap_alloc_internal, served from a free list.  ReuseLimit < 2*MinSize
\* leaves no remainder of a slot or more to split off.
AllocReuse(r) ==
  LET k == ClassOf(Total(r))
      start == Head(lists[k]).at
  IN  /\ CanReuse(r)
      /\ IF CanMark(r, start)
         THEN /\ lists' = [lists EXCEPT ![k] = Tail(lists[k])]
              /\ Mark(r, start)
              /\ UNCHANGED <<used, commit, leak>>
         ELSE Failed

\* comp_heap_alloc_internal, served from the end of the heap.
AllocBump(r) ==
  /\ ~CanReuse(r)
  /\ NewUsed(r) <= Reserve
  /\ IF CanMark(r, Start(r))
     THEN /\ commit' = IF NewUsed(r) <= commit THEN commit
                       ELSE RoundUp(NewUsed(r), CommitIncrement)
          /\ used' = NewUsed(r)
          /\ lists' = IF Unaligned(r) = Aligned(r) THEN lists
                      ELSE AddToFreelist(lists, Unaligned(r), Aligned(r) - Unaligned(r))
          /\ Mark(r, Start(r))
          /\ UNCHANGED leak
     ELSE Failed

\* comp_heap_ensure_commit fails: past the reservation, or the operating
\* system refuses to commit more.
AllocFail(r) ==
  /\ ~CanReuse(r)
  /\ NewUsed(r) > commit
  /\ reply' = [op |-> "alloc", at |-> 0]
  /\ UNCHANGED <<used, commit, lists, begin, header, leak, blocks>>

-----------------------------------------------------------------------------
\* comp_heap_dealloc, called with the size the block was allocated with.
DeallocEnd(b) == b.start + Served(b.size, b.hdr)

\* The block is the last one: no whole slot lies above it.
\* Mutant: a slot above it is overlooked.
IsTopLoose(end) == used - end <= MinSize

IsTop(end) == used - end < MinSize

Dealloc(b) ==
  /\ ~b.hdr
  /\ LET end == DeallocEnd(b)
         top == IsTop(end)
     IN  IF b.start \notin begin \/ b.start \in header \/ b.start \in leak
            \/ (~top /\ ~CanAddToFreelist(b.start, end - b.start))
         THEN Failed
         ELSE /\ begin' = begin \ {b.start}
              /\ blocks' = blocks \ {b}
              /\ IF top
                 THEN used' = b.start /\ UNCHANGED lists
                 ELSE /\ lists' = AddToFreelist(lists, b.start, end - b.start)
                      /\ UNCHANGED used
              /\ reply' = [op |-> "dealloc"]
              /\ UNCHANGED <<commit, header, leak>>

-----------------------------------------------------------------------------
\* comp_heap_find_header: the nearest allocation begin at or below an address.
\* Mutant: the slot of the address itself is masked out.
NearestBelow(a) ==
  CHOOSE s \in begin \cup {0} : s < a /\ \A t \in begin : t < a => t <= s

NearestBegin(a) == CHOOSE s \in begin : s <= a /\ \A t \in begin : t <= a => t <= s

\* The size comp_heap_alloc_global_member stored in the header at s.
StoredSize(s) == (CHOOSE b \in blocks : b.start = s /\ b.hdr).size

\* The slots comp_heap_mark_bitmap_bits marks for a range.
SlotsOf(at, size) == {s \in SlotOf(at) .. at + size - 1 : s % MinSize = 0}

LeakReply(ok) == reply' = [op |-> "leak", ok |-> ok]

\* Mutant: only the slots of the given range are marked.
LeakRange(a, n) ==
  /\ UNCHANGED <<used, commit, lists, begin, header, blocks>>
  /\ LeakReply(TRUE)
  /\ leak' = IF a < used /\ NearestBegin(SlotOf(a)) \in header
             THEN leak \cup SlotsOf(a, n) ELSE leak

\* comp_heap_leak of n bytes at address a.
Leak(a, n) ==
  LET s == NearestBegin(SlotOf(a))
      at == s + MinSize
      size == StoredSize(s)
  IN  /\ UNCHANGED <<used, commit, lists, begin, header, blocks>>
      /\ IF a >= used \/ SlotOf(a) \in leak \/ s \notin header
         THEN LeakReply(TRUE) /\ UNCHANGED leak
         ELSE IF at + size <= a \/ at + size > a + n
              THEN LeakReply(FALSE) /\ UNCHANGED leak
              ELSE LeakReply(TRUE) /\ leak' = leak \cup SlotsOf(at, size)

-----------------------------------------------------------------------------
\* comp_heap_init
Init ==
  /\ used = MinSize
  /\ commit = CommitIncrement
  /\ lists = [k \in Classes |-> << >>]
  /\ begin = {} /\ header = {} /\ leak = {}
  /\ blocks = {}
  /\ reply = [op |-> "init"]

\* The evaluator leaks whole values and non-empty slices of them.  What a call does
\* depends on the slot it begins in and on whether it reaches the end of the
\* object, so that slices of whole Grains are enough.
Cuts(b) == {i \in 0 .. b.size : i % Grain = 0 \/ i = b.size}

LeakObject(b) == \E i, j \in Cuts(b) : i < j /\ Leak(Payload(b) + i, j - i)

\* A failed assertion ends the program.
Next ==
  /\ reply.op # "assert"
  /\ \/ \E r \in Requests : AllocReuse(r)
     \/ \E r \in Requests : AllocBump(r)
     \/ \E r \in Requests : AllocFail(r)
     \/ \E b \in blocks : Dealloc(b)
     \/ \E b \in blocks : LeakObject(b)

Spec == Init /\ [][Next]_vars

-----------------------------------------------------------------------------
Entries == [at : Nat, size : Nat]

\* Blocks and list entries start on a slot, and an entry is at least as large
\* as its list's class.
Slotted ==
  /\ \A b \in blocks : b.start % MinSize = 0
  /\ \A k \in Classes : \A i \in DOMAIN lists[k] :
       lists[k][i].at % MinSize = 0 /\ lists[k][i].size >= ClassSize[k]

\* The shape of the heap's state: the type of every field, with the bitmaps
\* and the end of the heap on slots, the commit in whole increments and a
\* live global member behind every header bit.
TypeOK ==
  /\ used \in Nat /\ used % MinSize = 0 /\ used >= MinSize
  /\ commit \in Nat /\ commit % CommitIncrement = 0
  /\ used <= commit /\ commit <= Reserve
  /\ lists \in [Classes -> Seq(Entries)]
  /\ begin \subseteq Nat /\ header \subseteq begin /\ leak \subseteq Nat
  /\ \A s \in begin \cup leak : s % MinSize = 0
  /\ blocks \subseteq [start : Nat, size : Nat, hdr : BOOLEAN]
  /\ \A s \in header : \E b \in blocks : b.start = s /\ b.hdr
  /\ Slotted

Inside(x) == x.at >= MinSize /\ x.at + x.size <= used

\* No two entries of the lists share a byte.
ListsApart(ls) ==
  \A j, k \in Classes : \A m \in DOMAIN ls[j] : \A n \in DOMAIN ls[k] :
    j # k \/ m # n => Apart(ls[j][m], ls[k][n])

\* No entry of the lists shares a byte with x.
ListsApartFrom(ls, x) ==
  \A k \in Classes : \A i \in DOMAIN ls[k] : Apart(ls[k][i], x)

\* Live blocks and free-list entries are inside the used part of the heap,
\* and no two of them share a byte: no memory is handed out twice, and no
\* link of a free list is overwritten by an object (comp_heap_alloc_internal,
\* comp_heap_dealloc, comp_heap_add_to_freelist).
NoOverlap ==
  /\ \A b \in blocks : Inside(Extent(b))
  /\ \A k \in Classes : \A i \in DOMAIN lists[k] : Inside(lists[k][i])
  /\ \A b, c \in blocks : b # c => Apart(Extent(b), Extent(c))
  /\ ListsApart(lists)
  /\ \A b \in blocks : ListsApartFrom(lists, Extent(b))

Covers(x, a) == x.at <= a /\ a < x.at + x.size

\* Every used slot past the null slot belongs to a live block or to a free
\* list: no interleaving of allocations and deallocations loses memory.
NothingLost ==
  \A a \in SlotsOf(MinSize, used - MinSize) :
    \/ \E b \in blocks : Covers(Extent(b), a)
    \/ \E k \in Classes : \E i \in DOMAIN lists[k] : Covers(lists[k][i], a)

\* comp_heap_find_header of any payload slot of a live block finds that
\* block's first slot, and a header there exactly when the block has one.
HeaderFound ==
  \A b \in blocks : \A s \in SlotsOf(Payload(b), b.size) :
    /\ NearestBegin(s) = b.start
    /\ b.start \in header <=> b.hdr

\* A global member is leaked as a whole or not at all, and nothing that is
\* not a live global member is ever marked as leaked.
LeakWhole ==
  \A s \in leak : \E b \in blocks :
    /\ b.hdr
    /\ s \in SlotsOf(Payload(b), b.size)
    /\ SlotsOf(Payload(b), b.size) \subseteq leak

\* comp_heap_leak succeeds for every range that lies within a live object,
\* whole or in part: its comment calls only a range that is "not entirely
\* contained" in the allocation out of bounds.
LeakAcceptsContained == reply.op = "leak" => reply.ok

\* The heap as its callers see it.
Contract == INSTANCE HeapContract WITH objects <- {Object(b) : b \in blocks}

\* The heap implements its contract: aligned, disjoint objects in range.
ContractSpec == Contract!Spec
=============================================================================
