------------------------------- MODULE G2Dcc -------------------------------
(***************************************************************************)
(* gen2-dcc-rs/src/main.rs: the compiler from its arguments to the exit    *)
(* code, and the run of what it compiled.                                  *)
(*                                                                         *)
(* made is what the last phase made.  Reading, writing, the C compiler,    *)
(* the linker and starting the program may fail.  disk has what the run    *)
(* leaves there: the two objects and the program, which may be an old one. *)
(***************************************************************************)
EXTENDS G2Runtime, G0Parse

CONSTANTS Sources,   \* the texts, by name
          Calls      \* what dcc is called with: arguments, the text its input has, the
                     \* program that is already where it writes, whether DACELO_KEEP_O is
                     \* set, and which of the objects cannot be removed
ASSUME CallsAssumption == {c.src : c \in Calls} \subseteq DOMAIN Sources

I == INSTANCE G0Infer

VARIABLES call, next, opts,   \* the call, the next argument, the options so far
          phase, made, disk,
          exit, said          \* the exit code and what the last message was about

dccVars == <<call, next, opts, phase, made, disk, exit, said>>
vars == <<dccVars, image, m>>

Init == /\ call \in Calls
        /\ next = 1 /\ opts = [input |-> "", output |-> "", run |-> FALSE]
        /\ phase = "args" /\ made = <<>> /\ exit = -1 /\ said = ""
        /\ disk = [objs |-> {}, exe |-> call.exe]
        /\ image = <<>> /\ m = NoMachine

Exit(code, message) == phase' = "done" /\ exit' = code /\ said' = message /\ made' = <<>>
Failure(message) == Exit(1, message)
PanicExit == Exit(101, "panic")
Go(p, x) == phase' = p /\ made' = x /\ UNCHANGED <<exit, said>>
NoProgram == UNCHANGED <<image, m>>
Called == UNCHANGED <<call, next, opts>>

-----------------------------------------------------------------------------
(* Arguments.                                                              *)

Args == call.args
ArgAt(i) == IF i <= Len(Args) THEN Args[i] ELSE ""

NextArg ==
    /\ phase = "args" /\ next <= Len(Args)
    /\ CASE Args[next] = "-o" -> /\ opts' = [opts EXCEPT !.output = ArgAt(next + 1)]
                                 /\ next' = next + 2
         [] Args[next] = "--run" -> opts' = [opts EXCEPT !.run = TRUE] /\ next' = next + 1
         [] OTHER -> opts' = [opts EXCEPT !.input = Args[next]] /\ next' = next + 1
    /\ IF Args[next] \in {"-o", "--run"} \/ opts.input = "" THEN UNCHANGED <<phase, made, exit, said>>
       ELSE Exit(2, "usage")
    /\ UNCHANGED <<call, disk>> /\ NoProgram

Usage == /\ phase = "args" /\ next > Len(Args)
         /\ IF opts.input = "" \/ opts.output = "" THEN Exit(2, "usage") ELSE Go("read", <<>>)
         /\ UNCHANGED disk /\ Called /\ NoProgram

-----------------------------------------------------------------------------
(* The phases.                                                             *)

Phase(p) == phase = p /\ UNCHANGED disk /\ Called /\ NoProgram

Read == Phase("read") /\ (Go("lex", Sources[call.src]) \/ Exit(2, "input"))

LexPhase == Phase("lex") /\ LET r == Lex(made) IN IF r.ok THEN Go("parse", r.toks) ELSE Failure("syntax")
ParsePhase == Phase("parse") /\ LET r == Parse(made) IN IF r.ok THEN Go("check", r.v) ELSE Failure("syntax")

(* The constructors in the order of their tags.                            *)
CtorTable(ctors) ==
    LET lower(c) == {d \in DOMAIN ctors : ctors[d].tag < ctors[c].tag}
    IN  [i \in 1..Cardinality(DOMAIN ctors) |->
            LET c == CHOOSE d \in DOMAIN ctors : Cardinality(lower(d)) = i - 1
            IN  [c |-> c, tag |-> ctors[c].tag, arity |-> ctors[c].arity]]
CheckPhase ==
    /\ Phase("check")
    /\ LET s == I!CheckProgram(made)
       IN  IF s.ok THEN Go("generate", [items |-> made, table |-> CtorTable(s.ctors)]) ELSE Failure("types")

Generate == /\ Phase("generate")
            /\ LET r == CompileProgram(made.items, made.table)
               IN  IF r.ok THEN Go("object", r.obj) ELSE PanicExit
ObjectPhase == Phase("object") /\ LET r == Finish(made) IN IF r.ok THEN Go("write", r.file) ELSE Failure("object")

-----------------------------------------------------------------------------
(* The outside.                                                            *)

WriteObject == /\ phase = "write" /\ Called /\ NoProgram
               /\ \/ Go("cc", made) /\ disk' = [disk EXCEPT !.objs = @ \cup {"obj"}]
                  \/ Failure("object") /\ UNCHANGED disk

CompileRuntime == /\ phase = "cc" /\ Called /\ NoProgram
                  /\ \/ Go("link", made) /\ disk' = [disk EXCEPT !.objs = @ \cup {"rt"}]
                     \/ Failure("runtime") /\ UNCHANGED disk

(* Mutant: the linker's exit code is not looked at.                        *)
LinkFailedUnseen == Go("run", <<>>) /\ UNCHANGED <<disk, image>>

(* Mutant: the runtime is compiled again and linked once more.             *)
LinkRetried == Go("cc", made) /\ UNCHANGED <<disk, image>>

LinkFailed == Failure("link") /\ UNCHANGED <<disk, image>>

(* Removing the objects may fail, which nobody notices; DACELO_KEEP_O is   *)
(* for the program's object only.                                          *)
KeptObjects == IF call.keep THEN {"obj"} ELSE {}
LinkPhase == /\ phase = "link" /\ Called /\ UNCHANGED m
             /\ \/ /\ Links(made) /\ image' = Linked(made)
                   /\ Go("run", <<>>)
                   /\ disk' = [objs |-> disk.objs \cap (KeptObjects \cup call.fixed), exe |-> "new"]
                \/ LinkFailed

OldProgram == [status |-> "exit", code |-> 0]

(* A name without a slash is looked for in the path, where it is not.      *)
Startable == opts.output = "./out" /\ disk.exe # "none"

RunPhase == /\ phase = "run" /\ Called /\ UNCHANGED disk
            /\ CASE ~opts.run -> Exit(0, "") /\ NoProgram
                 [] opts.run /\ ~Startable -> Failure("run") /\ NoProgram
                 [] OTHER -> /\ Go("running", <<>>)
                             /\ IF disk.exe = "new" THEN StartProgram ELSE m' = OldProgram /\ Stay

ProgramRuns == phase = "running" /\ ProgramStep /\ UNCHANGED dccVars

(* exit_code_of: a program stopped by a signal has no code.                *)
ProgramEnded == /\ phase = "running" /\ m.status # "running"
                /\ Exit(IF m.status = "exit" THEN m.code ELSE 128 + 9, "")
                /\ UNCHANGED disk /\ Called /\ NoProgram

Done == phase = "done" /\ UNCHANGED vars

Next == \/ NextArg \/ Usage \/ Read \/ LexPhase \/ ParsePhase \/ CheckPhase \/ Generate \/ ObjectPhase
        \/ WriteObject \/ CompileRuntime \/ LinkPhase \/ RunPhase \/ ProgramRuns \/ ProgramEnded
        \/ Done

(* Weak fairness of Next, with what enables it written out: as long as a   *)
(* call is not done, a step follows.  Nothing waits for anything.          *)
GoesOn == []<>(phase = "done") \/ []<><<TRUE>>_vars

Spec == Init /\ [][Next]_vars /\ GoesOn
=============================================================================
