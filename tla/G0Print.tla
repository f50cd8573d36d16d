------------------------------ MODULE G0Print ------------------------------
(***************************************************************************)
(* How programs are written: a reference for lexer and parser.  Trees are  *)
(* printed with the parentheses they need and no others.  An operand is    *)
(* printed for the strength it must have at least: 0 fun, if, case, let;   *)
(* 1 a sequence; 2 an annotation; 3 to 8 the operators, loosest first;     *)
(* 9 an application or a negative number; 10 what stands for itself.       *)
(***************************************************************************)
EXTENDS G0Ast, TLC

Strength(op) == CASE op = "||" -> 3 [] op = "&&" -> 4
                  [] op \in {"==", "!=", "<", ">", "<=", ">="} -> 5 [] op \in {"::", "++"} -> 6
                  [] op \in {"+", "-"} -> 7 [] op \in {"*", "/", "%"} -> 8
LeftNeeds(op) == IF Strength(op) \in {5, 6} THEN Strength(op) + 1 ELSE Strength(op)
RightNeeds(op) == IF Strength(op) = 6 THEN 6 ELSE Strength(op) + 1

(* The operators of two characters are two units.                          *)
Spelled == [op \in {"||", "&&", "==", "!=", "<=", ">=", "::", "++", "->"} |->
              CASE op = "||" -> <<"|", "|">> [] op = "&&" -> <<"&", "&">> [] op = "==" -> <<"=", "=">>
                [] op = "!=" -> <<"!", "=">> [] op = "<=" -> <<"<", "=">> [] op = ">=" -> <<">", "=">>
                [] op = "::" -> <<":", ":">> [] op = "++" -> <<"+", "+">> [] op = "->" -> <<"-", ">">>]
Units(op) == IF op \in DOMAIN Spelled THEN Spelled[op] ELSE <<op>>
Spaced(op) == <<" ">> \o Units(op) \o <<" ">>
Arrow == Spaced("->")

Parens(us) == <<"(">> \o us \o <<")">>
ParensIf(c, us) == IF c THEN Parens(us) ELSE us
(* Texts with a separator between them.                                    *)
Joined(uss, sep) == FoldLeft(LAMBDA us, i : us \o (IF i = 1 THEN <<>> ELSE sep) \o uss[i], <<>>,
                             [i \in DOMAIN uss |-> i])
Commas == <<",", " ">>

PrintLit(e) == CASE e.ty = "Int" -> (IF e.v < 0 THEN <<"-", ToString(-e.v)>> ELSE <<ToString(e.v)>>)
                 [] e.ty = "Bool" -> <<IF e.v THEN "true" ELSE "false">>
                 [] e.ty = "String" -> <<"\"">> \o e.v \o <<"\"">>
                 [] e.ty = "Unit" -> <<"(", ")">>

-----------------------------------------------------------------------------

RECURSIVE PrintType(_, _), PrintPat(_, _), PrintExpr(_, _)

PrintType(t, atom) ==
    CASE t.k = "avar" -> <<t.a>>
      [] t.k = "acon" /\ t.n = "List" -> <<"[">> \o PrintType(t.ts[1], FALSE) \o <<"]">>
      [] t.k = "acon" /\ t.n # "List" ->
           ParensIf(atom /\ t.ts # <<>>,
                    Joined(<<<<t.n>>>> \o [i \in DOMAIN t.ts |-> PrintType(t.ts[i], TRUE)], <<" ">>))
      [] t.k = "aarrow" -> ParensIf(atom, PrintType(t.ts[1], t.ts[1].k = "aarrow") \o Arrow
                                          \o PrintType(t.ts[2], FALSE))
      [] t.k = "atup" -> Parens(Joined([i \in DOMAIN t.ts |-> PrintType(t.ts[i], FALSE)], Commas))

PrintPat(p, atom) ==
    CASE p.k = "var" -> <<p.x>>
      [] p.k = "lit" -> PrintLit(p)
      [] p.k = "tup" -> Parens(Joined([i \in DOMAIN p.ps |-> PrintPat(p.ps[i], FALSE)], Commas))
      [] p.k = "ctor" /\ p.c = "Nil" -> <<"[", "]">>
      [] p.k = "ctor" /\ p.c = "Cons" ->
           ParensIf(atom, PrintPat(p.ps[1], p.ps[1].k = "ctor" /\ p.ps[1].c = "Cons") \o Units("::")
                          \o PrintPat(p.ps[2], FALSE))
      [] OTHER -> ParensIf(atom, Joined(<<<<p.c>>>> \o [i \in DOMAIN p.ps |-> PrintPat(p.ps[i], TRUE)], <<" ">>))

(* A parameter is a name or stands in parentheses.                         *)
PrintParam(p) == <<" ">> \o ParensIf(p.k \notin {"var", "tup"} /\ ~(p.k = "lit" /\ p.ty = "Unit"), PrintPat(p, FALSE))
PrintParams(ps) == FlattenSeq([i \in DOMAIN ps |-> PrintParam(ps[i])])

(* A chain of functions is written with all its parameters.                *)
RECURSIVE Params(_), Body(_)
Params(e) == IF e.k = "lam" THEN <<e.p>> \o Params(e.e) ELSE <<>>
Body(e) == IF e.k = "lam" THEN Body(e.e) ELSE e

PrintBranches(brs) ==
    Joined([i \in DOMAIN brs |-> PrintPat(brs[i][1], FALSE) \o Arrow
                                 \o PrintExpr(brs[i][2], IF i = Len(brs) THEN 0 ELSE 2)], <<" ", "|", " ">>)

StrengthOf(e) == CASE e.k \in {"lam", "if", "case", "let"} -> 0
                   [] e.k = "seq" -> 1
                   [] e.k = "ann" -> 2
                   [] e.k = "bin" -> Strength(e.op)
                   [] e.k = "app" -> 9
                   [] e.k = "lit" -> IF e.ty = "Int" /\ e.v < 0 THEN 9 ELSE 10
                   [] OTHER -> 10

Bare(e) ==
    CASE e.k = "lit" -> PrintLit(e)
      [] e.k = "var" -> IF e.x = "Nil" THEN <<"[", "]">> ELSE <<e.x>>
      [] e.k = "tup" -> Parens(Joined([i \in DOMAIN e.es |-> PrintExpr(e.es[i], 0)], Commas))
      [] e.k = "app" -> PrintExpr(e.f, 9) \o <<" ">> \o PrintExpr(e.a, 10)
      [] e.k = "bin" -> PrintExpr(e.l, LeftNeeds(e.op)) \o Spaced(e.op) \o PrintExpr(e.r, RightNeeds(e.op))
      [] e.k = "ann" -> PrintExpr(e.e, 3) \o Spaced(":") \o PrintType(e.ty, FALSE)
      [] e.k = "seq" -> PrintExpr(e.l, 2) \o Spaced(";") \o PrintExpr(e.r, 0)
      [] e.k = "lam" -> <<"fun">> \o PrintParams(Params(e)) \o Arrow \o PrintExpr(Body(e), 0)
      [] e.k = "if" -> <<"if", " ">> \o PrintExpr(e.c, 0) \o <<" ", "then", " ">> \o PrintExpr(e.t, 0)
                       \o <<" ", "else", " ">> \o PrintExpr(e.e, 0)
      [] e.k = "case" /\ Len(e.brs) = 1 /\ e.brs[1][1].k = "tup" ->
           <<"let", " ">> \o PrintPat(e.brs[1][1], FALSE) \o Spaced("=") \o PrintExpr(e.e, 0)
           \o <<" ", "in", " ">> \o PrintExpr(e.brs[1][2], 0)
      [] e.k = "case" /\ ~(Len(e.brs) = 1 /\ e.brs[1][1].k = "tup") ->
           <<"case", " ">> \o PrintExpr(e.e, 0) \o <<" ", "of", "\n">> \o PrintBranches(e.brs)
      [] e.k = "let" -> <<"let", " ">> \o (IF e.isrec THEN <<"rec", " ">> ELSE <<>>) \o <<e.x>>
                        \o PrintParams(Params(e.rhs)) \o Spaced("=") \o PrintExpr(Body(e.rhs), 0)
                        \o <<" ", "in", " ">> \o PrintExpr(e.e, 0)
PrintExpr(e, needs) == ParensIf(StrengthOf(e) < needs, Bare(e))

-----------------------------------------------------------------------------
(* Items, each with a remark behind it.                                    *)

PrintDef(d) == <<d.x>> \o PrintParams(d.ps)
               \o (IF d.ann = <<>> THEN <<>> ELSE <<":">> \o PrintType(d.ann[1], FALSE))
               \o Spaced("=") \o PrintExpr(d.e, 0)
PrintCtor(cd) == Joined(<<<<cd.c>>>> \o [i \in DOMAIN cd.fs |-> PrintType(cd.fs[i], TRUE)], <<" ">>)
PrintItem(it) ==
    (IF it.k = "type"
     THEN Joined(<<<<"type">>, <<it.name>>>> \o [i \in DOMAIN it.params |-> <<it.params[i]>>], <<" ">>) \o Spaced("=")
          \o Joined([i \in DOMAIN it.ctors |-> PrintCtor(it.ctors[i])], Spaced("|"))
     ELSE <<"let", " ">> \o (IF it.ds[1].isrec THEN <<"rec", " ">> ELSE <<>>)
          \o Joined([i \in DOMAIN it.ds |-> PrintDef(it.ds[i])], <<" ", "and", " ">>))
    \o <<"-", "-", "note", "\n">>
PrintProgram(items) == FlattenSeq([i \in DOMAIN items |-> PrintItem(items[i])])
=============================================================================
