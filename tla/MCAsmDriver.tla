---------------------------- MODULE MCAsmDriver -----------------------------
(***************************************************************************)
(* Instances of AsmDriver small enough for TLC.                            *)
(***************************************************************************)
EXTENDS AsmMeaning, TLC

CONSTANTS a, b

Absent           == [mode |-> "none", width |-> 0, sym |-> a, add |-> 0]
Constant(w)      == [mode |-> "value", width |-> w, sym |-> a, add |-> 0]
SymRef(m, w, s, n)  == [mode |-> m, width |-> w, sym |-> s, add |-> n]

MCSym     == {a, b}

\* call s
Call(s) == [head |-> 1, disp |-> Absent, imm |-> SymRef("rel", 4, s, 0)]
\* cmp dword ptr [rip + s + 1], imm32
CmpRip(s) == [head |-> 2, disp |-> SymRef("rip", 4, s, 1), imm |-> Constant(4)]
\* mov qword ptr [rip + s], t
MovRipSym(s, t) == [head |-> 3, disp |-> SymRef("rip", 4, s, 0),
                    imm |-> SymRef("abs", 4, t, 2)]
\* add ax, s: a symbol in a 16-bit immediate has no encoding
AddShort(s) == [head |-> 2, disp |-> Absent, imm |-> SymRef("abs", 2, s, 0)]

SymArg(s)  == [kind |-> "sym", sym |-> s, len |-> 0]
IntArg     == [kind |-> "int", sym |-> a, len |-> 0]
WideArg    == [kind |-> "wide", sym |-> a, len |-> 0]
StrArg(n)  == [kind |-> "string", sym |-> a, len |-> n]
EscArg(n)  == [kind |-> "escape", sym |-> a, len |-> n]

Ints(w, args)    == [dir |-> "ints", width |-> w, args |-> args]
Strings(w, args) == [dir |-> "strings", width |-> w, args |-> args]
Globl(args)      == [dir |-> "globl", width |-> 0, args |-> args]

\* Everything a correct source may refer to a symbol with.
RefInsns == {Call(s) : s \in MCSym} \cup {CmpRip(a)} \cup {MovRipSym(a, b)}
RefArgs  == {Ints(8, <<SymArg(s)>>) : s \in MCSym}
            \cup {Ints(4, <<IntArg, SymArg(a)>>)}
            \cup {Globl(<<SymArg(s)>>) : s \in MCSym}

\* Sources with mistakes of every kind the handlers tell apart.
ErrInsns == {Call(a), AddShort(a)}
ErrArgs  == {Ints(1, <<WideArg, SymArg(a), IntArg>>), Ints(8, <<WideArg>>),
             Ints(2, <<>>), Ints(4, <<StrArg(1)>>),
             Strings(1, <<StrArg(2), IntArg, EscArg(1)>>), Strings(0, <<>>),
             Globl(<<>>), Globl(<<IntArg, SymArg(a)>>)}

\* Sources that only lay out space and export labels.
NoInsns   == {}
GloblOnly == {Globl(<<SymArg(a)>>)}
=============================================================================
