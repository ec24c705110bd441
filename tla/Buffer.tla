------------------------------- MODULE Buffer -------------------------------
(***************************************************************************)
(* The growable byte buffer (buf/buf.c) on the heap it shares with the     *)
(* arena.  A byte has Base values.                                         *)
(***************************************************************************)
EXTENDS Arena

CONSTANTS
  FirstCap,   \* the first capacity, 64 bytes
  Base        \* 256, scaled down

ASSUME BufferAssumption == FirstCap \in 1 .. WordMax /\ Base \in Nat /\ Base > 1

VARIABLES
  buf,   \* qas_buf
  log    \* history: the bytes that were written, one after the other

bufVars == <<buf, log>>

EmptyBuf == [data |-> Null, len |-> 0, cap |-> 0]

BufChunks(b) == IF b.data = Null THEN {} ELSE {Chunk(b.data, b.cap)}

HasRoom(n) == n <= buf.cap - buf.len

Needed(n)    == Wrap(buf.len + n)
TooMany(n)   == Needed(n) < buf.len

\* Fault: a doubling that wraps is used as it is.
NewCapWraps(n) ==
  LET cap[c \in 0 .. WordMax] ==
        IF c >= Needed(n) THEN c ELSE IF Wrap(2 * c) <= c THEN Wrap(2 * c) ELSE cap[Wrap(2 * c)]
  IN cap[IF buf.cap = 0 THEN FirstCap ELSE buf.cap]

\* Doubled until it is enough, or what is needed where doubling wraps.
NewCap(n) ==
  LET cap[c \in 0 .. WordMax] ==
        IF c >= Needed(n) THEN c ELSE IF Wrap(2 * c) < c THEN Needed(n) ELSE cap[Wrap(2 * c)]
  IN cap[IF buf.cap = 0 THEN FirstCap ELSE buf.cap]

\* Where realloc may put the buffer: where it is, if there is room behind it, or
\* in a place free so far.
NewPlaces(n) ==
  Places(NewCap(n), chunks)
  \cup ({buf.data} \cap Places(NewCap(n), chunks \ BufChunks(buf)))

Done == failed' = FALSE /\ UNCHANGED <<arena, handed>>

BufFail == failed' = TRUE /\ UNCHANGED <<chunks, bytes, arena, handed, buf, log>>

\* qas_buf_reserve for n bytes, into which s is stored then; s is what the
\* caller means to store, the history.
Extend(n, s, meant) ==
  \/ /\ HasRoom(n)
     /\ bytes' = Stored(bytes, buf.data + buf.len, s)
     /\ buf' = [buf EXCEPT !.len = @ + Len(s)]
     /\ log' = log \o meant /\ Done /\ UNCHANGED chunks
  \/ /\ ~HasRoom(n) /\ ~TooMany(n)
     /\ \E p \in NewPlaces(n) :
          /\ chunks' = (chunks \ BufChunks(buf)) \cup {Chunk(p, NewCap(n))}
          /\ bytes' = Stored(Stored(bytes, p, Load(bytes, buf.data, buf.len)), p + buf.len, s)
          /\ buf' = [data |-> p, len |-> buf.len + Len(s), cap |-> NewCap(n)]
     /\ log' = log \o meant /\ Done
  \/ ~HasRoom(n) /\ BufFail

\* Fault: the bytes of a value come out in the wrong order.
LittleEndianReversed(value, n) == [i \in 1 .. n |-> (value \div Base ^ (n - i)) % Base]

\* The value loses its lowest byte at every step.
LittleEndian(value, n) ==
  LET rest[i \in 0 .. n] == IF i = 0 THEN value ELSE rest[i - 1] \div Base
  IN [i \in 1 .. n |-> rest[i - 1] % Base]

\* What byte i + 1 counts for, and the number that bytes spell, lowest first.
Weight(n) == LET w[i \in 0 .. n] == IF i = 0 THEN 1 ELSE Base * w[i - 1] IN w

Spells(s, n, value) ==
  LET sum[i \in 0 .. n] == IF i = 0 THEN 0 ELSE sum[i - 1] + s[i] * Weight(n)[i - 1]
  IN sum[n] = value % Weight(n)[n]

Spelled(value, n) == CHOOSE s \in [1 .. n -> 0 .. Base - 1] : Spells(s, n, value)

Zeros(n) == [i \in 1 .. n |-> 0]

BufReserve(n)         == Extend(n, <<>>, <<>>)
BufAppend(s)          == Extend(Len(s), s, s)
BufZeros(n)           == Extend(n, Zeros(n), Zeros(n))
BufInteger(value, n)  == Extend(n, LittleEndian(value, n), Spelled(value, n))

PatchOK(offset, n) == Wrap(offset + n) >= offset /\ Wrap(offset + n) <= buf.len

\* qas_buf_patch_u32le.
BufPatch(offset, value, n) ==
  IF PatchOK(offset, n)
  THEN /\ bytes' = Stored(bytes, buf.data + offset, LittleEndian(value, n))
       /\ log' = [i \in DOMAIN log |-> IF i \in offset + 1 .. offset + n
                                       THEN Spelled(value, n)[i - offset] ELSE log[i]]
       /\ Done /\ UNCHANGED <<chunks, buf>>
  ELSE BufFail

\* qas_buf_take for a caller that wants the bytes.
BufTake ==
  /\ handed' = IF buf.data = Null THEN handed
               ELSE handed \cup {[owner |-> "caller", at |-> buf.data, align |-> 1, bytes |-> log,
                                  room |-> buf.cap]}
  /\ buf' = EmptyBuf /\ log' = <<>> /\ failed' = FALSE
  /\ UNCHANGED <<chunks, bytes, arena>>

\* qas_buf_dispose, and qas_buf_take for a caller that does not.
BufDispose ==
  /\ chunks' = chunks \ BufChunks(buf)
  /\ buf' = EmptyBuf /\ log' = <<>> /\ Done
  /\ UNCHANGED bytes
=============================================================================
