------------------------------- MODULE MCCli -------------------------------
(***************************************************************************)
(* Argument lists and sources for TLC.  The sources are all sequences over *)
(* the bytes that matter together: in numbers, in strings, in lines.       *)
(***************************************************************************)
EXTENDS CliMeaning

UpTo(n, S) == UNION {[1 .. k -> S] : k \in 0 .. n}

MCTexts ==
  UpTo(4, {"0", "1", "9", "x", "b", "o", "g"})
  \cup UpTo(4, {"quote", "backslash", "0", "x", "g", "nl"})
  \cup UpTo(4, {"nl", "sp", "cr", "semicolon", "g", ".", ","})
  \cup UpTo(3, Bytes \ {"[", "]", "+", "-", "*", "x", "o"})
  \cup {<<"quote", "backslash">> \o s \o <<"quote">> : s \in UpTo(4, {"x", "1", "9", "b"})}

Path(p) == [opt |-> "path", text |-> p]
Opt(o)  == [opt |-> o, text |-> <<"-">>]

MCArguments ==
  UpTo(4, {Opt(o) : o \in {"help", "dump", "output", "unknown"}}
          \cup {Path(<<"a", ".", "s">>), Path(<<"-">>)})
  \cup {<<Path(p)>> : p \in UpTo(4, {"a", "o", ".", "/"})}
  \cup {<<Opt("version")>>, <<Path(<<"a">>), Opt("version")>>}

\* Every argument list with an empty file, every text with a plain dump.
MCCalls ==
  {[argv |-> a, text |-> <<>>] : a \in MCArguments}
  \cup {[argv |-> <<Opt("dump"), Path(<<"a">>)>>, text |-> t] : t \in MCTexts}
=============================================================================
