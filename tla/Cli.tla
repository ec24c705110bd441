-------------------------------- MODULE Cli --------------------------------
(***************************************************************************)
(* The command line (app/main.c): read the arguments, load the input, then *)
(* dump the scanner's tokens or assemble and write the object.  The        *)
(* scanner is Lexer's; the assembler is the three ways qas_assemble        *)
(* returns, and the file system refuses what it likes.                     *)
(*                                                                         *)
(* A path is a sequence of characters, "/" standing for both separators.   *)
(***************************************************************************)
EXTENDS Lexer

CONSTANTS
  Calls,       \* bound: argument lists, each with the text of the input file
  Outcomes     \* how qas_assemble may return: "image", "errors", "fatal"

Options == {"help", "version", "dump", "output", "unknown", "path"}

\* An argument: what it is taken for where it is not the value of an option, and
\* its characters.
Arguments == [opt : Options, text : Seq(STRING)]

NoPath  == <<"none">>   \* NULL
Running == 3

ASSUME CliAssumption ==
  /\ \A c \in Calls : /\ c.text \in Seq(Bytes) /\ c.argv \in Seq(Arguments)
                      /\ \A k \in DOMAIN c.argv : c.argv[k].text # NoPath
  /\ Outcomes \subseteq {"image", "errors", "fatal"}

VARIABLES
  argv,      \* history: the arguments as given
  args,      \* those not read yet
  input, output,   \* paths, or NoPath; output is the path written once loaded
  dump,      \* --dump-tokens was given
  phase,     \* "args", "load", "dump", "assemble", "open", "write", "exited"
  outfile,   \* the output file: "old" (untouched), "partial" or "object"
  exit       \* exit code, or Running

optVars == <<argv, args, input, output, dump>>
vars == <<lexVars, optVars, phase, outfile, exit>>

Exit(code) == phase' = "exited" /\ exit' = code

-----------------------------------------------------------------------------
(* The argument loop. *)

Option(name) == phase = "args" /\ args # <<>> /\ Head(args).opt = name

Quiet == UNCHANGED <<lexVars, outfile>>

Information ==
  /\ Option("help") \/ Option("version")
  /\ Exit(0) /\ UNCHANGED optVars /\ Quiet

DumpOption ==
  /\ Option("dump")
  /\ dump' = TRUE /\ args' = Tail(args)
  /\ UNCHANGED <<argv, input, output, phase, exit>> /\ Quiet

\* -o takes the next argument, whatever it looks like.
OutputOption ==
  /\ Option("output") /\ Len(args) > 1
  /\ output' = args[2].text /\ args' = SubSeq(args, 3, Len(args))
  /\ UNCHANGED <<argv, input, dump, phase, exit>> /\ Quiet

\* Fault: a second input replaces the first.
InputAlwaysFree == TRUE

InputFree == input = NoPath

InputArgument ==
  /\ Option("path") /\ InputFree
  /\ input' = Head(args).text /\ args' = Tail(args)
  /\ UNCHANGED <<argv, output, dump, phase, exit>> /\ Quiet

UsageError ==
  /\ \/ Option("output") /\ Len(args) = 1
     \/ Option("unknown")
     \/ Option("path") /\ ~InputFree
     \/ phase = "args" /\ args = <<>> /\ input = NoPath
  /\ Exit(2) /\ UNCHANGED optVars /\ Quiet

EndOfArguments ==
  /\ phase = "args" /\ args = <<>> /\ input # NoPath
  /\ phase' = "load" /\ argv' = <<>>
  /\ UNCHANGED <<args, input, output, dump, exit>> /\ Quiet

-----------------------------------------------------------------------------
(* Paths. *)

\* Fault: the last dot of the whole path is the extension's.
DefaultOutputAnyDot(path) ==
  LET dots == {k \in DOMAIN path : path[k] = "."}
  IN IF dots = {} THEN path \o <<".", "o">>
     ELSE SubSeq(path, 1, CHOOSE k \in dots : \A j \in dots : j <= k) \o <<"o">>

\* default_output_path: after the last dot of the last component, or ".o" added.
DefaultOutput(path) ==
  LET dots == {k \in DOMAIN path : /\ path[k] = "."
                                   /\ \A j \in k .. Len(path) : path[j] # "/"}
  IN IF dots = {} THEN path \o <<".", "o">>
     ELSE SubSeq(path, 1, CHOOSE k \in dots : \A j \in dots : j <= k) \o <<"o">>

-----------------------------------------------------------------------------
(* After the arguments. *)

CannotContinue == Exit(1) /\ UNCHANGED <<optVars, lexVars, outfile>>

LoadFails == phase = "load" /\ CannotContinue

\* qas_source_load_file; then the output path is settled.
LoadToDump ==
  /\ phase = "load" /\ dump
  /\ phase' = "dump"
  /\ UNCHANGED <<optVars, exit>> /\ Quiet

LoadToAssemble ==
  /\ phase = "load" /\ ~dump
  /\ phase' = "assemble"
  /\ output' = IF output = NoPath THEN DefaultOutput(input) ELSE output
  /\ UNCHANGED <<argv, args, input, dump, exit>> /\ Quiet

\* Fault: the loop does not stop at the end of the file.
ScanningOn == status = "ok"

Scanning == tok.kind # "eof" /\ status = "ok"

DumpToken ==
  /\ phase = "dump" /\ Scanning /\ LexNext
  /\ UNCHANGED <<optVars, phase, outfile, exit>>

\* Fault: only the count of errors is looked at.
DumpCodeByCount == IF diags # <<>> THEN 1 ELSE 0

DumpCode == IF status # "ok" \/ diags # <<>> THEN 1 ELSE 0

DumpEnd ==
  /\ phase = "dump" /\ ~Scanning
  /\ Exit(DumpCode)
  /\ UNCHANGED <<optVars, lexVars, outfile>>

\* qas_assemble: an image exactly when it returned OK without errors.
Assemble ==
  /\ phase = "assemble"
  /\ \E outcome \in Outcomes :
       IF outcome = "image"
       THEN phase' = "open" /\ UNCHANGED exit
       ELSE Exit(1)
  /\ UNCHANGED <<optVars, lexVars, outfile>>

OpenFails == phase = "open" /\ CannotContinue

\* fopen with "wb" empties the file.
OpenOutput ==
  /\ phase = "open"
  /\ phase' = "write" /\ outfile' = "partial"
  /\ UNCHANGED <<optVars, lexVars, exit>>

\* Fault: the result of fclose is dropped.
WrittenUnclosed(written, closed) == written

Written(written, closed) == written /\ closed

\* fwrite and fclose; both are called whatever the first returns.
WriteOutput ==
  /\ phase = "write"
  /\ \E written, closed \in BOOLEAN :
       /\ outfile' \in IF written /\ closed THEN {"object"}
                       ELSE IF written THEN {"partial", "object"} ELSE {"partial"}
       /\ Exit(IF Written(written, closed) THEN 0 ELSE 1)
  /\ UNCHANGED <<optVars, lexVars>>

-----------------------------------------------------------------------------

Init ==
  /\ \E c \in Calls : argv = c.argv /\ args = argv /\ LexInit(c.text)
  /\ input = NoPath /\ output = NoPath /\ dump = FALSE
  /\ phase = "args" /\ outfile = "old" /\ exit = Running

Work ==
  \/ Information \/ DumpOption \/ OutputOption \/ InputArgument \/ UsageError \/ EndOfArguments
  \/ LoadFails \/ LoadToDump \/ LoadToAssemble \/ DumpToken \/ DumpEnd
  \/ Assemble \/ OpenFails \/ OpenOutput \/ WriteOutput

Exited == phase = "exited" /\ UNCHANGED vars

Next == Work \/ Exited

Spec == Init /\ [][Next]_vars /\ WF_vars(Work)
=============================================================================
