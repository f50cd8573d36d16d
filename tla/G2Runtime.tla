----------------------------- MODULE G2Runtime -----------------------------
(***************************************************************************)
(* The entries of gen2-dcc-rs/rt/rt.c that compiled code calls, each an    *)
(* action of the machine that stands at it.  Of the builtins those that    *)
(* need nothing from the outside.                                          *)
(***************************************************************************)
EXTENDS G2Machine

(* A call's second argument is looked at only where the entry has one.     *)
Arg(i) == m.regs[IF i = 1 THEN X0 ELSE X1]

(* Back to the caller; only the result can be relied upon.                 *)
Return(n, w) ==
    Running([n EXCEPT !.pc = n.regs[LR],
                      !.regs = [@ EXCEPT ![X0] = w, ![X1] = Junk, ![R9] = Junk, ![R10] = Junk, ![R11] = Junk]])

(* A block of at least words words, the first of them set.                 *)
NewBlock(n, words, set) ==
    LET size == IF words < 2 THEN 2 ELSE words
    IN  [n EXCEPT !.blocks = n.next :> size @@ @, !.next = @ + 8 * size,
                  !.mem = [a \in {n.next + 8 * (i - 1) : i \in DOMAIN set} |->
                              set[((a - n.next) \div 8) + 1]] @@ @]

StrBlock(n, s) ==
    LET words == 2 + (Len(s) + 8) \div 8
    IN  [NewBlock(n, words, <<Hdr(TagString, words), Len(s)>> \o [i \in 1..(words - 2) |-> 0])
         EXCEPT !.chars = n.next :> s @@ @]
AdtBlock(n, id, vs) == NewBlock(n, 2 + Len(vs), <<Hdr(TagAdt, 2 + Len(vs)), id>> \o vs)
MkClosure(n, f, env) ==
    NewBlock(n, 3 + Len(env), <<Hdr(TagClosure, 3 + Len(env)), EntryOf(f), Len(env)>> \o env)

(* The captured words of a partial application: which, how many, the       *)
(* arguments so far.                                                       *)
EnvOf(n, clo) == [i \in 1..n.mem[clo + 16] |-> n.mem[clo + 24 + 8 * (i - 1)]]
Fed(env, w) == [Append(env, w) EXCEPT ![2] = @ + 1]

At(f) == m.status = "running" /\ m.pc = EntryOf(f)
Stay == UNCHANGED image

-----------------------------------------------------------------------------

DaceloAlloc == /\ At("dacelo_alloc")
               /\ m' = Return(NewBlock(Collecting(m, {}), (Arg(1) + 7) \div 8, <<>>), m.next)
               /\ Stay

GSet == /\ At("dc_gset")
        /\ m' = Return([m EXCEPT !.globals = Arg(1) :> Arg(2) @@ @], Arg(2))
        /\ Stay
GGet == /\ At("dc_gget")
        /\ m' = Return(m, IF Arg(1) \in DOMAIN m.globals THEN m.globals[Arg(1)] ELSE 0)
        /\ Stay

RegisterId == /\ At("dc_register_ctor")
                /\ m' = Return([m EXCEPT !.arities = Arg(1) :> Arg(2) @@ @], Arg(1))
                /\ Stay

MkPartial == /\ At("dc_mk_partial_builtin") \/ At("dc_mk_partial_ctor")
             /\ m' = Return(MkClosure(Collecting(m, {}),
                                      IF At("dc_mk_partial_ctor") THEN "dc_ctor_step" ELSE "dc_builtin_step",
                                      <<Arg(1), 0>>), m.next)
             /\ Stay

(* The arguments of dc_ctor_step and dc_builtin_step that make a block.    *)
Kept(n) == Collecting(n, {Arg(1), Arg(2)})

CtorStep ==
    LET env == EnvOf(m, Arg(1)) IN
    /\ At("dc_ctor_step")
    /\ m' = Return(IF env[2] + 1 = m.arities[env[1]]
                   THEN AdtBlock(Kept(m), env[1], SubSeq(Fed(env, Arg(2)), 3, Len(env) + 1))
                   ELSE MkClosure(Kept(m), "dc_ctor_step", Fed(env, Arg(2))), m.next)
    /\ Stay

-----------------------------------------------------------------------------
(* dc_val_eq: equal, different, a function compared or something that is   *)
(* not a value.                                                            *)

IsImmediate(w) == w % 4 # 0
Readable(n, S) == S \subseteq DOMAIN n.mem

RECURSIVE ValEq(_, _, _), ValsEq(_, _, _, _)
ValsEq(n, a, b, i) ==
    IF i >= SizeOf(n.mem[a]) THEN "yes"
    ELSE CASE ~Readable(n, {a + 8 * i, b + 8 * i}) -> "wild"
           [] Readable(n, {a + 8 * i, b + 8 * i}) ->
                LET r == ValEq(n, n.mem[a + 8 * i], n.mem[b + 8 * i])
                IN  IF r = "yes" THEN ValsEq(n, a, b, i + 1) ELSE r
EqDeep(n, a, b) ==
    CASE TagOf(n.mem[a]) # TagOf(n.mem[b]) -> "no"
      [] TagOf(n.mem[a]) = TagString -> IF n.chars[a] = n.chars[b] THEN "yes" ELSE "no"
      [] TagOf(n.mem[a]) = TagTuple -> ValsEq(n, a, b, 1)
      [] TagOf(n.mem[a]) = TagAdt -> IF n.mem[a + 8] = n.mem[b + 8] THEN ValsEq(n, a, b, 2) ELSE "no"
      [] TagOf(n.mem[a]) = TagClosure -> "function"
      [] OTHER -> "no"
ValEq(n, a, b) ==
    CASE a = b -> "yes"
      [] a # b /\ (IsImmediate(a) \/ IsImmediate(b)) -> "no"
      [] OTHER -> IF ~Readable(n, {a, b}) THEN "wild"
                  ELSE IF TagOf(n.mem[a]) = TagOf(n.mem[b]) THEN EqDeep(n, a, b) ELSE "no"

Compares == /\ At("dc_val_eq")
            /\ LET r == ValEq(m, Arg(1), Arg(2))
               IN  m' = CASE r = "wild" -> Wild(m) [] r = "function" -> Fatal(m)
                          [] OTHER -> Return(m, BoolWord(r = "yes"))
            /\ Stay

IsChars(w) == w \in DOMAIN m.chars
Concatenate(a, b) ==
    IF IsChars(a) /\ IsChars(b)
    THEN Return(StrBlock(Collecting(m, {a, b}), m.chars[a] \o m.chars[b]), m.next) ELSE Wild(m)
Concat == At("dc_bi_str_concat") /\ m' = Concatenate(Arg(1), Arg(2)) /\ Stay

UnboxedInt(w) == Signed(w) \div 4
DivCheck == /\ At("dc_div_check")
            /\ m' = IF Arg(1) % 4 # 1 \/ UnboxedInt(Arg(1)) = 0 THEN Fatal(m)
                    ELSE Return(m, Word(UnboxedInt(Arg(1))))
            /\ Stay

MatchFail == At("dc_match_fail") /\ m' = Fatal(m) /\ Stay

-----------------------------------------------------------------------------
(* Builtins.                                                               *)

BiArity(b) == IF b \in {"string_get", "str_concat"} THEN 2 ELSE 1
Byte == [a |-> 97, b |-> 98]
ByteAt(s, i) == IF i < 0 \/ i >= Len(s) THEN IntWord(-1) ELSE IntWord(Byte[s[i + 1]])
Prints(unit) == Return([m EXCEPT !.out = Append(@, unit)], UnitAt)

CallsBuiltin(b, ws) ==
    CASE b = "print_int" -> IF ws[1] % 4 = 1 THEN Prints(UnboxedInt(ws[1])) ELSE Fatal(m)
      [] b = "str_concat" -> Concatenate(ws[1], ws[2])
      [] b \notin {"print_int", "str_concat"} /\ ~IsChars(ws[1]) -> Wild(m)
      [] b = "print_string" /\ IsChars(ws[1]) -> Prints(m.chars[ws[1]])
      [] b = "string_length" /\ IsChars(ws[1]) -> Return(m, IntWord(m.mem[ws[1] + 8]))
      [] b = "string_get" /\ IsChars(ws[1]) -> Return(m, ByteAt(m.chars[ws[1]], UnboxedInt(ws[2])))
      [] b = "error" /\ IsChars(ws[1]) -> Fatal(m)

BuiltinStep ==
    LET env == EnvOf(m, Arg(1))
        b == Builtins[env[1] + 1]
    IN  /\ At("dc_builtin_step")
        /\ m' = IF env[2] + 1 = BiArity(b) THEN CallsBuiltin(b, SubSeq(Fed(env, Arg(2)), 3, Len(env) + 1))
                ELSE Return(MkClosure(Kept(m), "dc_builtin_step", Fed(env, Arg(2))), m.next)
        /\ Stay

-----------------------------------------------------------------------------
(* program_thread: dc_init, then dc_user_main, then the end.               *)

StartProgram == (\E eager \in BOOLEAN : m' = Running(Booted(image, eager))) /\ Stay

UserMain == /\ m.status = "running" /\ m.pc = InitDone
            /\ m' = Running([m EXCEPT !.pc = image.main, !.regs[LR] = MainDone])
            /\ Stay
EndProgram == m.status = "running" /\ m.pc = MainDone /\ m' = Exited(m, 0) /\ Stay

ProgramStep == \/ DaceloAlloc \/ GSet \/ GGet \/ RegisterId \/ MkPartial \/ CtorStep \/ BuiltinStep
               \/ Compares \/ Concat \/ DivCheck \/ MatchFail \/ UserMain \/ EndProgram
=============================================================================
