---------------------------- MODULE AsmReference ----------------------------
(***************************************************************************)
(* What a source program means, read off its statements alone: where each  *)
(* statement lies, what each symbol names, which fields refer to symbols,  *)
(* and whether the program is valid.  Nothing here knows of fixups,        *)
(* passes, interning or relocation; AsmMeaning compares what the driver    *)
(* produces with it.  p is a sequence of StmtRecords (see AsmDriver).      *)
(***************************************************************************)
EXTENDS InsnLayout, FiniteSetsExt

CONSTANTS SecName, RelMax

Args(st)  == st.stmt.args
IsDir(st, dir) == st.op = "args" /\ st.stmt.dir = dir

\* Bytes that argument j of a data directive occupies.
ArgBytes(st, j) ==
  CASE IsDir(st, "ints")    -> st.stmt.width
    [] IsDir(st, "strings") -> Args(st)[j].len + st.stmt.width
    [] OTHER -> 0

ArgOffset(st, j) ==
  LET upto[i \in 0 .. Len(Args(st))] ==
        IF i = 0 THEN 0 ELSE upto[i - 1] + ArgBytes(st, i)
  IN upto[j - 1]

RoundUp(n, m) == IF n % m = 0 THEN n ELSE n + m - (n % m)

\* The size of a section that had n bytes before st was added to it.
SizeAfter(st, n) ==
  CASE st.op = "insn"  -> n + InsnLen(st.insn)
    [] st.op = "zero"  -> n + st.count
    [] st.op = "align" -> RoundUp(n, st.to)
    [] st.op = "args"  -> n + ArgOffset(st, Len(Args(st)) + 1)
    [] OTHER -> n

Start == [cur  |-> ".text", size |-> [n \in SecName |-> 0],
          kind |-> [n \in SecName |-> IF n = ".text" THEN "PROGBITS" ELSE "none"]]

\* The location counters after each prefix of p.
Layout(p) ==
  LET at[k \in 0 .. Len(p)] ==
        IF k = 0 THEN Start
        ELSE LET u == at[k - 1]
                 st == p[k]
             IN IF st.op = "section"
                THEN [u EXCEPT !.cur = st.name,
                               !.kind[st.name] = IF @ = "none" THEN st.kind ELSE @]
                ELSE [u EXCEPT !.size[u.cur] = SizeAfter(st, @)]
  IN at

-----------------------------------------------------------------------------
(* Symbols. *)

LabelsOf(p, s)  == {k \in DOMAIN p : p[k].op = "label" /\ p[k].sym = s}
SetsOf(p, s)    == {k \in DOMAIN p : p[k].op = "set" /\ p[k].sym = s}
Globals(p)      == {s \in Sym : \E k \in DOMAIN p : IsDir(p[k], "globl")
                      /\ \E j \in DOMAIN Args(p[k]) : Args(p[k])[j].kind = "sym"
                                                   /\ Args(p[k])[j].sym = s}

\* A label names the place where it stands, a .set name its last value.
Meaning(p, s) ==
  IF LabelsOf(p, s) # {}
  THEN LET u == Layout(p)[Min(LabelsOf(p, s)) - 1]
       IN [ref |-> "SECTION", section |-> u.cur, value |-> u.size[u.cur]]
  ELSE IF SetsOf(p, s) # {}
  THEN [ref |-> "ABS", section |-> ".text", value |-> p[Max(SetsOf(p, s))].value]
  ELSE [ref |-> "UNDEF", section |-> ".text", value |-> 0]

-----------------------------------------------------------------------------
(* Symbolic fields: pc is TRUE when the field holds a distance, counted    *)
(* from the end of its instruction (after), FALSE when it holds an address.*)

SymField(u, o, w, pc, s, n, e) ==
  [sec |-> u.cur, offset |-> u.size[u.cur] + o, width |-> w, pc |-> pc,
   sym |-> s, add |-> n, after |-> u.size[u.cur] + e]

InsnFields(u, i) ==
  (IF IsSymbolic(i.disp)
   THEN {SymField(u, i.head, 4, i.disp.mode = "rip", i.disp.sym, i.disp.add,
                  InsnLen(i))}
   ELSE {}) \cup
  (IF IsSymbolic(i.imm)
   THEN {SymField(u, InsnLen(i) - i.imm.width, i.imm.width, i.imm.mode = "rel",
                  i.imm.sym, i.imm.add, InsnLen(i))}
   ELSE {})

DatumFields(u, st) ==
  {SymField(u, ArgOffset(st, j), st.stmt.width, FALSE, Args(st)[j].sym, 0, 0) :
     j \in {j \in DOMAIN Args(st) : Args(st)[j].kind = "sym"}}

Fields(p) ==
  UNION {LET u == Layout(p)[k - 1]
         IN CASE p[k].op = "insn"      -> InsnFields(u, p[k].insn)
              [] IsDir(p[k], "ints")   -> DatumFields(u, p[k])
              [] OTHER -> {} : k \in DOMAIN p}

\* The distance is the same wherever a linker puts the section, and no
\* other definition can take the symbol's place.
LinkInvariant(p, f) ==
  /\ f.pc /\ f.sym \notin Globals(p)
  /\ Meaning(p, f.sym).ref = "SECTION" /\ Meaning(p, f.sym).section = f.sec

FixedDistance(p, f) == Meaning(p, f.sym).value + f.add - f.after

-----------------------------------------------------------------------------
(* Validity. *)

ArgOK(st, a) ==
  CASE IsDir(st, "ints")    -> \/ a.kind = "int"
                               \/ a.kind = "wide" /\ st.stmt.width = 8
                               \/ a.kind = "sym" /\ st.stmt.width \in {4, 8}
    [] IsDir(st, "strings") -> a.kind = "string"
    [] IsDir(st, "globl")   -> a.kind = "sym"

HoldsBytes(u) == u.kind[u.cur] = "PROGBITS"

StmtOK(p, k) ==
  LET st == p[k]
      u  == Layout(p)[k - 1]
      earlier == 1 .. k - 1
  IN CASE st.op = "label" -> (LabelsOf(p, st.sym) \cup SetsOf(p, st.sym)) \cap earlier = {}
       [] st.op = "set"     -> LabelsOf(p, st.sym) \cap earlier = {}
       [] st.op = "section" -> st.clean
       [] st.op = "insn"    -> HoldsBytes(u) /\ Encodable(st.insn)
       [] st.op = "args"    -> /\ Args(st) # <<>>
                               /\ IsDir(st, "globl") \/ HoldsBytes(u)
                               /\ \A j \in DOMAIN Args(st) : ArgOK(st, Args(st)[j])
       [] st.op \in {"bad", "badinsn"} -> FALSE
       [] OTHER -> TRUE

Valid(p) ==
  /\ \A k \in DOMAIN p : StmtOK(p, k)
  /\ \A f \in Fields(p) : LinkInvariant(p, f)
                            => FixedDistance(p, f) \in -RelMax - 1 .. RelMax

-----------------------------------------------------------------------------
(* The object a valid program calls for. *)

\* Symbols the linker must know: the global ones and those of the fields
\* only it can fill.
Exported(p) == Globals(p) \cup {f.sym : f \in {f \in Fields(p) : ~LinkInvariant(p, f)}}

EntryOf(p, s) ==
  LET m == Meaning(p, s)
  IN [name |-> s, bind |-> IF s \in Globals(p) \/ m.ref = "UNDEF" THEN "GLOBAL" ELSE "LOCAL",
      ref |-> m.ref, section |-> m.section, value |-> m.value]

\* Sections with something in them, or holding an exported symbol.
Needed(p) ==
  {n \in SecName : \/ Layout(p)[Len(p)].size[n] > 0
                   \/ \E s \in Exported(p) : Meaning(p, s).ref = "SECTION"
                                          /\ Meaning(p, s).section = n}

\* The alignment requests made in section n.
AlignsIn(p, n) == {p[k].to : k \in {k \in DOMAIN p : p[k].op = "align"
                                                  /\ Layout(p)[k].cur = n}}
=============================================================================
