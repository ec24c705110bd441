------------------------------- MODULE Arena --------------------------------
(***************************************************************************)
(* The arena allocator (arena/arena.c): a list of blocks, newest first,    *)
(* of which the first is carved up.  Every request is filled by its        *)
(* caller, which knows only the address it got and the size it asked for.  *)
(***************************************************************************)
EXTENDS Heap

CONSTANTS
  Header,      \* sizeof(qas_arena_block)
  MinBlock     \* QAS_ARENA_MIN_BLOCK

ASSUME ArenaAssumption == Header \in 1 .. WordMax /\ MinBlock \in 1 .. WordMax

VARIABLES
  arena,    \* qas_arena
  handed,   \* history: storage handed out and not given back, with its contents
  failed    \* history: whether the last call failed

arenaVars == <<chunks, bytes, arena, handed, failed>>

EmptyArena(size) == [blocks |-> <<>>, default |-> size, total |-> 0]

\* qas_arena_init_sized.
InitSized(size) == EmptyArena(IF size < MinBlock THEN MinBlock ELSE size)

BlockChunk(b) == Chunk(b.data - Header, Header + b.capacity)
Blocks        == {arena.blocks[k] : k \in DOMAIN arena.blocks}

IsPowerOfTwo(x) == x # 0 /\ \E k \in 0 .. x : x = 2 ^ k

AlignUp(value, align) ==
  IF value > WordMax - (align - 1) THEN Null
  ELSE ((value + align - 1) \div align) * align

\* Fault: the padding before an aligned address is not part of what must fit.
CarveUnpadded(b, size, align) ==
  LET at == AlignUp(b.data + b.used, align)
  IN IF at = Null \/ size > b.capacity - b.used THEN Null ELSE at

\* carve: where an aligned request goes in a block, or NULL.
Carve(b, size, align) ==
  LET at  == AlignUp(b.data + b.used, align)
      pad == at - b.data - b.used
  IN IF at = Null \/ pad > b.capacity - b.used \/ size > b.capacity - b.used - pad
     THEN Null ELSE at

Bumped(b, at, size) == [b EXCEPT !.used = at + size - b.data]

\* Fault: a new block has no room for padding.
WorstExact(size, align) == size

\* What a request takes at most, behind any address.
Worst(size, align) == size + (align - 1)

BlockSize(size, align) ==
  IF Worst(size, align) > arena.default THEN Worst(size, align) ELSE arena.default

\* No memory is asked for: the alignment is wrong or a size passes the word.
Refused(size, align) ==
  \/ ~IsPowerOfTwo(align)
  \/ size > WordMax - (align - 1)
  \/ BlockSize(size, align) > WordMax - Header

\* The head block has room for the request.
HeadFits(size, align) ==
  IsPowerOfTwo(align) /\ arena.blocks # <<>> /\ Carve(arena.blocks[1], size, align) # Null

Fail == failed' = TRUE /\ UNCHANGED <<chunks, bytes, arena, handed>>

\* The caller gets an address and fills what it asked for.
Handed(memory, at, align, s) ==
  /\ bytes' = Stored(memory, at, s)
  /\ handed' = handed \cup {[owner |-> "arena", at |-> at, align |-> align, bytes |-> s,
                             room |-> Len(s)]}
  /\ failed' = FALSE

FromHead(size, align, s) ==
  LET b  == arena.blocks[1]
      at == Carve(b, size, align)
  IN /\ HeadFits(size, align)
     /\ arena' = [arena EXCEPT !.blocks[1] = Bumped(b, at, size)]
     /\ Handed(bytes, at, align, s) /\ UNCHANGED chunks

FromNewBlock(size, align, s) ==
  /\ ~HeadFits(size, align) /\ ~Refused(size, align)
  /\ \E p \in Places(Header + BlockSize(size, align), chunks) :
       LET b  == [data |-> p + Header, capacity |-> BlockSize(size, align), used |-> 0]
           at == Carve(b, size, align)
           with(c) == [arena EXCEPT !.blocks = <<c>> \o @, !.total = Wrap(@ + b.capacity)]
       IN /\ chunks' = chunks \cup {BlockChunk(b)}
          /\ IF at = Null
             THEN arena' = with(b) /\ failed' = TRUE /\ UNCHANGED <<bytes, handed>>
             ELSE arena' = with(Bumped(b, at, size)) /\ Handed(bytes, at, align, s)

\* qas_arena_alloc for a caller that stores s; without a block there may be no
\* memory for one.
Alloc(size, align, s) ==
  \/ FromHead(size, align, s)
  \/ FromNewBlock(size, align, s)
  \/ ~HeadFits(size, align) /\ Fail

\* Fault: the size of an array wraps.
ArrayTooLong(count, elem) == FALSE

TooLong(count, elem) == elem # 0 /\ count > WordMax \div elem

AllocArray(count, elem, align, s) ==
  IF TooLong(count, elem) THEN Fail ELSE Alloc(Wrap(count * elem), align, s)

\* qas_arena_strdup_span: a copy with a final NUL.
StrDup(s) == Alloc(Wrap(Len(s) + 1), 1, s \o <<0>>)

\* Fault: a disposed arena goes on carving its last block.
ArenaDisposeKeeps ==
  /\ chunks' = chunks \ {BlockChunk(b) : b \in Blocks}
  /\ arena' = [arena EXCEPT !.total = 0]
  /\ handed' = {h \in handed : h.owner # "arena"}
  /\ failed' = FALSE /\ UNCHANGED bytes

\* Everything the arena handed out goes back at once.
ArenaDispose ==
  /\ chunks' = chunks \ {BlockChunk(b) : b \in Blocks}
  /\ arena' = EmptyArena(arena.default)
  /\ handed' = {h \in handed : h.owner # "arena"}
  /\ failed' = FALSE /\ UNCHANGED bytes
=============================================================================
