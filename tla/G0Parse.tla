------------------------------ MODULE G0Parse ------------------------------
(***************************************************************************)
(* gen0-interp-rs/src/parser.rs: recursive descent over the tokens.        *)
(*                                                                         *)
(* A parser takes the tokens and a place and answers Got(the place after,  *)
(* the tree) or Nope.  The last token is the end of the source; looking    *)
(* further sees it again.                                                  *)
(***************************************************************************)
EXTENDS G0Ast, G0Lex

Got(i, v) == [ok |-> TRUE, i |-> i, v |-> v]
Nope == [ok |-> FALSE]
Then(r, F(_, _)) == IF r.ok THEN F(r.i, r.v) ELSE r

TokenAt(ts, i) == ts[IF i > Len(ts) THEN Len(ts) ELSE i]
(* A symbol and a keyword are never spelled the same.                      *)
Is(ts, i, s) == TokenAt(ts, i).t \in {"sym", "kw"} /\ TokenAt(ts, i).v = s
IsOneOf(ts, i, S) == TokenAt(ts, i).t = "sym" /\ TokenAt(ts, i).v \in S
Expect(s, ts, i, v) == IF Is(ts, i, s) THEN Got(i + 1, v) ELSE Nope
Skip(s, ts, i) == IF Is(ts, i, s) THEN i + 1 ELSE i
NameAt(kind, ts, i) == IF TokenAt(ts, i).t = kind THEN Got(i + 1, TokenAt(ts, i).v) ELSE Nope

(* Where an argument, an argument of a pattern, a parameter and a written  *)
(* type can start.  A minus starts none of them.                           *)
StartsAtom(ts, i) == \/ TokenAt(ts, i).t \in {"int", "str", "ident", "upper"}
                     \/ Is(ts, i, "true") \/ Is(ts, i, "false") \/ IsOneOf(ts, i, {"(", "["})
Starts(what, ts, i) ==
    CASE what \in {"atom", "patarg"} -> StartsAtom(ts, i)
      [] what = "param" -> TokenAt(ts, i).t = "ident" \/ IsOneOf(ts, i, {"("})
      [] what = "typaram" -> TokenAt(ts, i).t = "ident"
      [] what = "tyatom" -> TokenAt(ts, i).t \in {"ident", "upper"} \/ IsOneOf(ts, i, {"(", "["})

(* The levels of the operators, loosest first.  A comparison takes no      *)
(* further one, :: and ++ take what follows, the others associate to the   *)
(* left.                                                                   *)
Levels == <<{"||"}, {"&&"}, {"==", "!=", "<", ">", "<=", ">="}, {"::", "++"}, {"+", "-"},
            {"*", "/", "%"}>>
Single == 3
Rightwards == 4

UnitNode(what) == IF what = "type" THEN ACon("Unit", <<>>) ELSE EUnit
TupleNode(what, vs) == CASE what = "type" -> ATup(vs) [] what = "expr" -> ETup(vs)
                         [] what = "pat" -> PTup(vs)
ListNode(what, vs) ==
    CASE what = "type" -> ACon("List", vs)
      [] what = "expr" -> FoldRight(ConsE, vs, NilE)
      [] what = "pat" -> FoldRight(LAMBDA p, l : PCtor("Cons", <<p, l>>), vs, PCtor("Nil", <<>>))

(* Every parser that is met again inside what it parses is reached through *)
(* this one.                                                               *)
RECURSIVE Parse1(_, _, _), ParseLevel(_, _, _), ParseMore(_, _, _, _), Many(_, _, _, _),
          Separated(_, _, _, _, _)

-----------------------------------------------------------------------------
(* Repetition.                                                             *)

Many(what, ts, i, vs) ==
    IF Starts(what, ts, i)
    THEN Then(Parse1(what, ts, i), LAMBDA j, v : Many(what, ts, j, Append(vs, v)))
    ELSE Got(i, vs)
Separated(what, sep, ts, i, vs) ==
    Then(Parse1(what, ts, i),
         LAMBDA j, v : IF Is(ts, j, sep) THEN Separated(what, sep, ts, j + 1, Append(vs, v))
                       ELSE Got(j, Append(vs, v)))

(* What stands in parentheses, and in brackets.                            *)
ParseParens(what, ts, i) ==
    IF Is(ts, i + 1, ")") THEN Got(i + 2, UnitNode(what))
    ELSE Then(Separated(what, ",", ts, i + 1, <<>>),
              LAMBDA j, vs : Expect(")", ts, j, IF Len(vs) = 1 THEN vs[1] ELSE TupleNode(what, vs)))
ParseBrackets(what, ts, i) ==
    IF what # "type" /\ Is(ts, i + 1, "]") THEN Got(i + 2, ListNode(what, <<>>))
    ELSE Then(Separated(what, ",", ts, i + 1, <<>>),
              LAMBDA j, vs : IF what = "type" /\ Len(vs) > 1 THEN Nope
                             ELSE Expect("]", ts, j, ListNode(what, vs)))

Literal(t) == CASE t.t = "int" -> EInt(t.v)
                [] t.t = "str" -> EStr(t.v)
                [] t.t = "kw" -> EBool(t.v = "true")
IsLiteral(ts, i) == TokenAt(ts, i).t \in {"int", "str"} \/ Is(ts, i, "true") \/ Is(ts, i, "false")

-----------------------------------------------------------------------------
(* Types.                                                                  *)

ParseAtomTy(ts, i) ==
    CASE TokenAt(ts, i).t = "ident" -> Got(i + 1, AVar(TokenAt(ts, i).v))
      [] TokenAt(ts, i).t = "upper" -> Got(i + 1, ACon(TokenAt(ts, i).v, <<>>))
      [] Is(ts, i, "(") -> ParseParens("type", ts, i)
      [] Is(ts, i, "[") -> ParseBrackets("type", ts, i)
      [] OTHER -> Nope

(* Only a bare constructor takes arguments.                                *)
ParseAppTy(ts, i) ==
    Then(Many("tyatom", ts, i, <<>>),
         LAMBDA j, us : CASE us = <<>> -> Nope
                          [] Len(us) = 1 -> Got(j, us[1])
                          [] Len(us) > 1 /\ us[1].k = "acon" /\ us[1].ts = <<>> ->
                               Got(j, ACon(us[1].n, Tail(us)))
                          [] OTHER -> Nope)
ParseType(ts, i) ==
    Then(ParseAppTy(ts, i),
         LAMBDA j, t : IF Is(ts, j, "->")
                       THEN Then(Parse1("type", ts, j + 1), LAMBDA l, u : Got(l, AArrow(t, u)))
                       ELSE Got(j, t))

-----------------------------------------------------------------------------
(* Patterns.  The lexer makes _ an identifier, so it binds that name.      *)

ParsePatAtom(ts, i) ==
    CASE TokenAt(ts, i).t = "ident" -> Got(i + 1, PVar(TokenAt(ts, i).v))
      [] IsLiteral(ts, i) -> Got(i + 1, PLit(Literal(TokenAt(ts, i))))
      [] Is(ts, i, "(") -> ParseParens("pat", ts, i)
      [] Is(ts, i, "[") -> ParseBrackets("pat", ts, i)
      [] OTHER -> Nope
ParsePatApp(ts, i) ==
    IF TokenAt(ts, i).t = "upper"
    THEN Then(Many("patarg", ts, i + 1, <<>>), LAMBDA j, ps : Got(j, PCtor(TokenAt(ts, i).v, ps)))
    ELSE ParsePatAtom(ts, i)
ParsePattern(ts, i) ==
    Then(ParsePatApp(ts, i),
         LAMBDA j, p : IF Is(ts, j, "::")
                       THEN Then(Parse1("pat", ts, j + 1), LAMBDA l, q : Got(l, PCtor("Cons", <<p, q>>)))
                       ELSE Got(j, p))

-----------------------------------------------------------------------------
(* Expressions.                                                            *)

ParseAtom(ts, i) ==
    CASE IsLiteral(ts, i) -> Got(i + 1, Literal(TokenAt(ts, i)))
      [] Is(ts, i, "-") /\ TokenAt(ts, i + 1).t = "int" -> Got(i + 2, EInt(-TokenAt(ts, i + 1).v))
      [] TokenAt(ts, i).t \in {"ident", "upper"} -> Got(i + 1, EVar(TokenAt(ts, i).v))
      [] Is(ts, i, "(") -> ParseParens("expr", ts, i)
      [] Is(ts, i, "[") -> ParseBrackets("expr", ts, i)
      [] OTHER -> Nope
ParseApp(ts, i) ==
    Then(ParseAtom(ts, i), LAMBDA j, f :
         Then(Many("atom", ts, j, <<>>), LAMBDA l, es : Got(l, FoldLeft(EApp, f, es))))

ParseLevel(n, ts, i) ==
    IF n > Len(Levels) THEN ParseApp(ts, i)
    ELSE Then(ParseLevel(n + 1, ts, i), LAMBDA j, l : ParseMore(n, ts, j, l))
ParseMore(n, ts, i, l) ==
    IF ~IsOneOf(ts, i, Levels[n]) THEN Got(i, l)
    ELSE Then(ParseLevel(IF n = Rightwards THEN n ELSE n + 1, ts, i + 1),
              LAMBDA j, r : IF n \in {Single, Rightwards} THEN Got(j, EBin(TokenAt(ts, i).v, l, r))
                            ELSE ParseMore(n, ts, j, EBin(TokenAt(ts, i).v, l, r)))

ParseAnn(ts, i) ==
    Then(ParseLevel(1, ts, i),
         LAMBDA j, l : IF Is(ts, j, ":")
                       THEN Then(Parse1("type", ts, j + 1), LAMBDA m, t : Got(m, EAnn(l, t)))
                       ELSE Got(j, l))
(* The right side of ; is any expression.                                  *)
ParseSeq(ts, i) ==
    Then(ParseAnn(ts, i),
         LAMBDA j, l : IF Is(ts, j, ";")
                       THEN Then(Parse1("expr", ts, j + 1), LAMBDA m, r : Got(m, ESeq(l, r)))
                       ELSE Got(j, l))

(* The expression that must follow the word s.                             *)
After(s, ts, i) == IF Is(ts, i, s) THEN Parse1("expr", ts, i + 1) ELSE Nope

ParseBranch(ts, i) ==
    Then(Parse1("pat", ts, i), LAMBDA j, p : Then(After("->", ts, j), LAMBDA l, e : Got(l, <<p, e>>)))

(* A local let.  A written type on it is read and dropped; let (p) = e is  *)
(* a case of one branch.                                                   *)
ParseLocalDef(ts, i) ==
    IF Is(ts, i + 1, "(")
    THEN Then(Parse1("param", ts, i + 1), LAMBDA j, p :
         Then(After("=", ts, j), LAMBDA l, rhs :
         Then(After("in", ts, l), LAMBDA m, e : Got(m, ECase(rhs, <<<<p, e>>>>)))))
    ELSE Then(Parse1(IF Is(ts, i + 1, "rec") THEN "recdef" ELSE "def", ts, Skip("rec", ts, i + 1)), LAMBDA j, d :
         Then(After("in", ts, j), LAMBDA l, e : Got(l, ELet(d.isrec, d.x, WrapParams(d.ps, d.e), e))))

ParseExpr(ts, i) ==
    CASE Is(ts, i, "fun") ->
           Then(Parse1("param", ts, i + 1), LAMBDA j, p :
           Then(Many("param", ts, j, <<p>>), LAMBDA l, ps :
           Then(After("->", ts, l), LAMBDA m, e : Got(m, WrapParams(ps, e)))))
      [] Is(ts, i, "if") ->
           Then(Parse1("expr", ts, i + 1), LAMBDA j, c :
           Then(After("then", ts, j), LAMBDA l, t :
           Then(After("else", ts, l), LAMBDA m, e : Got(m, EIf(c, t, e)))))
      [] Is(ts, i, "case") ->
           Then(Parse1("expr", ts, i + 1), LAMBDA j, e :
                IF ~Is(ts, j, "of") THEN Nope
                ELSE Then(Separated("branch", "|", ts, Skip("|", ts, j + 1), <<>>),
                          LAMBDA l, brs : Got(l, ECase(e, brs))))
      [] Is(ts, i, "let") -> ParseLocalDef(ts, i)
      [] OTHER -> ParseSeq(ts, i)

-----------------------------------------------------------------------------
(* Items.                                                                  *)

(* What follows let and rec: a name, parameters, a type, the body.         *)
ParseTail(isrec, ts, i) ==
    Then(NameAt("ident", ts, i), LAMBDA j, x :
    Then(Many("param", ts, j, <<>>), LAMBDA l, ps :
    Then(IF Is(ts, l, ":") THEN Then(Parse1("type", ts, l + 1), LAMBDA o, t : Got(o, <<t>>)) ELSE Got(l, <<>>),
         LAMBDA m, ann : Then(After("=", ts, m), LAMBDA n, e : Got(n, FunDef(isrec, x, ps, ann, e))))))

ParseCtor(ts, i) ==
    Then(NameAt("upper", ts, i), LAMBDA j, c :
    Then(Many("tyatom", ts, j, <<>>), LAMBDA l, fs : Got(l, CtorDecl(c, fs))))
ParseTyDef(ts, i) ==
    Then(NameAt("upper", ts, i + 1), LAMBDA j, name :
    Then(Many("typaram", ts, j, <<>>), LAMBDA l, params :
         IF ~Is(ts, l, "=") THEN Nope
         ELSE Then(Separated("ctor", "|", ts, Skip("|", ts, l + 1), <<>>),
                   LAMBDA m, ctors : Got(m, TyDecl(name, params, ctors)))))

(* Only let rec takes further definitions with and.                        *)
ParseItem(ts, i) ==
    CASE Is(ts, i, "type") -> ParseTyDef(ts, i)
      [] Is(ts, i, "let") /\ Is(ts, i + 1, "rec") ->
           Then(Separated("recdef", "and", ts, i + 2, <<>>), LAMBDA j, ds : Got(j, GroupItem(ds)))
      [] Is(ts, i, "let") /\ ~Is(ts, i + 1, "rec") ->
           Then(Parse1("def", ts, i + 1), LAMBDA j, d : Got(j, GroupItem(<<d>>)))
      [] OTHER -> Nope

Parse1(what, ts, i) ==
    CASE what = "expr" -> ParseExpr(ts, i)
      [] what = "atom" -> ParseAtom(ts, i)
      [] what = "branch" -> ParseBranch(ts, i)
      [] what \in {"recdef", "def"} -> ParseTail(what = "recdef", ts, i)
      [] what = "item" -> ParseItem(ts, i)
      [] what = "pat" -> ParsePattern(ts, i)
      [] what \in {"param", "patarg"} -> ParsePatAtom(ts, i)
      [] what = "type" -> ParseType(ts, i)
      [] what = "tyatom" -> ParseAtomTy(ts, i)
      [] what = "typaram" -> NameAt("ident", ts, i)
      [] what = "ctor" -> ParseCtor(ts, i)

RECURSIVE ParseItems(_, _, _)
ParseItems(ts, i, items) ==
    IF TokenAt(ts, i).t = "eof" THEN Got(i, items)
    ELSE Then(Parse1("item", ts, i), LAMBDA j, it : ParseItems(ts, j, Append(items, it)))
Parse(ts) == ParseItems(ts, 1, <<>>)
=============================================================================
