----------------------------- MODULE CliMeaning -----------------------------
(***************************************************************************)
(* What the command line promises its caller: the exit code, the file left *)
(* behind, and the token dump judged by the text instead of the scanner.   *)
(***************************************************************************)
EXTENDS Cli, LexerMeaning

-----------------------------------------------------------------------------
(* The arguments, read as a whole. *)

\* Whether argument k is the value of an -o before it.
IsValue(a, k) ==
  LET value[j \in 0 .. Len(a)] == j > 1 /\ a[j - 1].opt = "output" /\ ~value[j - 1]
  IN value[k]

Inputs(a) == {k \in DOMAIN a : a[k].opt = "path" /\ ~IsValue(a, k)}

Stops(a) ==
  {k \in DOMAIN a : ~IsValue(a, k) /\ a[k].opt \in {"help", "version"}}

Wrong(a) ==
  {k \in DOMAIN a : ~IsValue(a, k) /\
     \/ a[k].opt = "unknown"
     \/ a[k].opt = "output" /\ k = Len(a)
     \/ a[k].opt = "path" /\ \E j \in Inputs(a) : j < k}

\* The exit code the arguments alone decide, or Running.
Decided(a) ==
  LET ends == Stops(a) \cup Wrong(a)
      first == CHOOSE k \in ends : \A j \in ends : k <= j
  IN IF ends = {} THEN (IF Inputs(a) = {} THEN 2 ELSE Running)
     ELSE IF first \in Stops(a) THEN 0 ELSE 2

\* Exit code 2 and the information options depend on the arguments alone, the
\* first that matters decides, and nothing else ends the argument loop
\* (main.c:227).
ArgumentsDecide ==
  [][phase = "args" /\ phase' # "args" =>
       IF phase' = "exited" THEN exit' = Decided(argv) ELSE Decided(argv) = Running]_vars

\* Exit code 0 of an assembly says that the whole object is in the file; a dump
\* or a failure before the object was made leaves the file alone (main.c:194).
ExitTellsFile ==
  /\ exit = 0 /\ args = <<>> /\ ~dump => outfile = "object"
  /\ outfile # "old" => phase \in {"write", "exited"} /\ ~dump /\ exit # 2

\* Exit code 0 of a token dump says that the text is well formed, judged by the
\* definition of its lexemes; a lost diagnostic is an error too (main.c:94).
DumpTellsText ==
  phase = "exited" /\ tok # NoToken => (exit = 0) = WellFormed

\* What the caller can rely on after exit code 0: an object in the file, or a
\* text that is all tokens, and never a half-written object without a failure
\* to tell of it (main.c:94, 194).
ExitTellsResult == ExitTellsFile /\ DumpTellsText

\* The derived output lies in the input's directory and ends in .o (main.c:128,
\* the usage text at main.c:48).
OutputBesideInput ==
  phase = "assemble" =>
    LET slash(p) == CHOOSE k \in 0 .. Len(p) :
                      /\ k = 0 \/ p[k] = "/"
                      /\ \A j \in k + 1 .. Len(p) : p[j] # "/"
        derived  == DefaultOutput(input)
    IN /\ slash(derived) = slash(input)
       /\ SubSeq(derived, 1, slash(input)) = SubSeq(input, 1, slash(input))
       /\ SubSeq(derived, Len(derived) - 1, Len(derived)) = <<".", "o">>

\* The scanner is a token stream (lexer.h: end of file is repeated, so callers
\* may loop until it).
Stream == INSTANCE TokenStream
            WITH tok <- [kind |-> tok.kind, off |-> tok.off, len |-> tok.len, line |-> tok.line]

ImplementsTokenStream == Stream!Spec

\* The command always ends: the scanner reaches the end of every text.
Exits == <>(phase = "exited")
=============================================================================
