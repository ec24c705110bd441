------------------------------ MODULE Storage -------------------------------
(***************************************************************************)
(* An arena and a byte buffer on one heap under calls in any order, among  *)
(* them the collecting of directive arguments in a buffer and their copy   *)
(* into the arena (parser/parser.c, parse_directive_args).                 *)
(***************************************************************************)
EXTENDS Buffer

CONSTANTS
  BlockSizes,     \* default block sizes the arena is initialized with
  Sizes, Aligns,  \* requests made of the arena
  Counts,         \* lengths asked of the buffer
  Offsets,        \* places patched
  ArgSize,        \* sizeof(qas_dir_arg)
  Field, Number,  \* the width of an integer and a value
  MaxCalls        \* bound on the calls made

ASSUME StorageAssumption ==
  /\ BlockSizes \subseteq Nat /\ Sizes \subseteq 0 .. WordMax /\ Aligns \subseteq 0 .. WordMax
  /\ Counts \subseteq 0 .. WordMax /\ Offsets \subseteq 0 .. WordMax /\ ArgSize \in 1 .. WordMax
  /\ Field \in 1 .. WordMax /\ Number \in Nat /\ MaxCalls \in Nat

VARIABLE calls   \* calls made so far

vars == <<chunks, bytes, arena, handed, failed, buf, log, calls>>

\* Callers store bytes that tell the calls apart.
Mark(n) == [i \in 1 .. n |-> 1 + (calls % (Base - 1))]

Request(size, align) == Alloc(size, align, Mark(size)) /\ UNCHANGED bufVars

Array(count, align) == AllocArray(count, ArgSize, align, Mark(count * ArgSize)) /\ UNCHANGED bufVars

\* The argument array of a directive is copied from the buffer.
CopyArgs ==
  /\ buf.len > 0 /\ buf.len % ArgSize = 0
  /\ AllocArray(buf.len \div ArgSize, ArgSize, ArgSize, Load(bytes, buf.data, buf.len))
  /\ UNCHANGED bufVars

Duplicate(n) == StrDup(Mark(n)) /\ UNCHANGED bufVars

\* The caller frees bytes it took.
CallerFree ==
  \E h \in handed :
    /\ h.owner = "caller"
    /\ chunks' = chunks \ {Chunk(h.at, h.room)} /\ handed' = handed \ {h}
    /\ failed' = FALSE /\ UNCHANGED <<bytes, arena, buf, log>>

ArenaCall ==
  \/ \E size \in Sizes, align \in Aligns : Request(size, align)
  \/ \E count \in Counts : Array(count, ArgSize)
  \/ CopyArgs
  \/ \E n \in Counts : n < MinBlock /\ Duplicate(n)
  \/ ArenaDispose /\ UNCHANGED bufVars

BufferCall ==
  \/ \E n \in Counts : BufReserve(n) \/ BufZeros(n)
  \/ BufAppend(Mark(ArgSize))
  \/ BufInteger(Number, Field)
  \/ \E offset \in Offsets : BufPatch(offset, Number, Field)
  \/ BufTake \/ BufDispose

Init ==
  /\ HeapInit /\ buf = EmptyBuf /\ log = <<>> /\ handed = {} /\ failed = FALSE /\ calls = 0
  /\ \E size \in BlockSizes : arena = InitSized(size)

Next ==
  /\ calls < MaxCalls /\ calls' = calls + 1
  /\ ArenaCall \/ BufferCall \/ CallerFree

Spec == Init /\ [][Next]_vars

-----------------------------------------------------------------------------

ArenaChunks  == {BlockChunk(b) : b \in Blocks}
CallerChunks == {Chunk(h.at, h.room) : h \in {g \in handed : g.owner = "caller"}}

StorageOK ==
  /\ \A c \in chunks : c.at > 0 /\ c.len > 0 /\ Ends(c) <= WordMax
  /\ bytes \in [0 .. WordMax -> 0 .. Base - 1]
  /\ \A b \in Blocks : b.used \in 0 .. b.capacity
  /\ buf.len \in 0 .. buf.cap /\ buf.cap \in 0 .. WordMax
  /\ failed \in BOOLEAN /\ calls \in 0 .. MaxCalls

\* Storage handed out keeps what its owner stored in it, aligned and whole in
\* live memory, whatever is allocated, grown, patched or freed elsewhere
\* (arena.c:104, parser.c:449, buf.c:176).
HandedIntact ==
  \A h \in handed :
    /\ \E c \in chunks : c.at <= h.at /\ h.at + Len(h.bytes) <= Ends(c)
    /\ Load(bytes, h.at, Len(h.bytes)) = h.bytes
    /\ h.at % h.align = 0

\* The buffer holds the bytes written to it in their order, through every
\* growth and patch (buf.c:57, 118, 156).
BufferHoldsLog == Load(bytes, buf.data, buf.len) = log

\* What was stored is found again, in the buffer and wherever storage was
\* handed out, however the two share the heap.
ContentsKept == HandedIntact /\ BufferHoldsLog

\* Every chunk of the heap has one owner and every owner its chunks: nothing
\* leaks, nothing is freed twice, nothing freed is still in use (arena.c:60,
\* buf.c:176).
OwnedOnce ==
  /\ chunks = ArenaChunks \cup BufChunks(buf) \cup CallerChunks
  /\ Cardinality(chunks) = Len(arena.blocks) + Cardinality(BufChunks(buf))
                           + Cardinality({h \in handed : h.owner = "caller"})
  /\ \A c, d \in chunks : c # d => Apart(c, d)

\* A call that fails leaves everything as it was; above all no block is made
\* into which its request does not fit (arena.c:152, buf.h:52).
FailuresChangeNothing == [][failed' => UNCHANGED <<chunks, bytes, arena, buf, handed>>]_vars
=============================================================================
