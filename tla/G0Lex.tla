------------------------------- MODULE G0Lex -------------------------------
(***************************************************************************)
(* gen0-interp-rs/src/lexer.rs.                                            *)
(*                                                                         *)
(* A source is a sequence of units: a blank, an end of line, a word (a     *)
(* number, or a longest run of letters, digits, _ and ' that starts with   *)
(* no digit), one other character, or a backslash with the character after *)
(* it.  How a word is spelled does not matter, which kind it is does.      *)
(***************************************************************************)
EXTENDS Integers, SequencesExt

CONSTANTS Numbers,   \* the value of every word that is a number
          Uppers,    \* the words that start with a capital letter
          Lowers,    \* the words that start with a small letter or with _
          MaxInt     \* the greatest integer

ASSUME WordsAssumption == /\ \A w \in DOMAIN Numbers : Numbers[w] \in Nat
                          /\ Uppers \cap Lowers = {} /\ DOMAIN Numbers \cap (Uppers \cup Lowers) = {}

TInt(n) == [t |-> "int", v |-> n]
TStr(s) == [t |-> "str", v |-> s]
TIdent(x) == [t |-> "ident", v |-> x]
TUpper(x) == [t |-> "upper", v |-> x]
TKw(k) == [t |-> "kw", v |-> k]
TSym(s) == [t |-> "sym", v |-> s]
TEof == [t |-> "eof", v |-> "eof"]

Keywords == {"let", "rec", "and", "in", "if", "then", "else", "case", "of", "fun", "true", "false",
             "type"}
(* SYMS2: the symbols of two characters.                                   *)
Pairs == [a \in {"-", "=", "!", "<", ">", "&", "|", "+", ":"} |->
            CASE a = "-" -> [then |-> ">", sym |-> "->"] [] a = "=" -> [then |-> "=", sym |-> "=="]
              [] a = "!" -> [then |-> "=", sym |-> "!="] [] a = "<" -> [then |-> "=", sym |-> "<="]
              [] a = ">" -> [then |-> "=", sym |-> ">="] [] a = "&" -> [then |-> "&", sym |-> "&&"]
              [] a = "|" -> [then |-> "|", sym |-> "||"] [] a = "+" -> [then |-> "+", sym |-> "++"]
              [] a = ":" -> [then |-> ":", sym |-> "::"]]
Singles == {"(", ")", "[", "]", ",", ";", ":", "|", "<", ">", "=", "+", "-", "*", "/", "%"}

Blanks == {" ", "\n"}
Quote == "\""
Escapes == {"\\n", "\\t", "\\r", "\\0", "\\\\", "\\\""}
BadEscape == "\\q"

Lexed(toks) == [ok |-> TRUE, toks |-> toks]
LexError == [ok |-> FALSE]

CharAt(src, i) == IF i <= Len(src) THEN src[i] ELSE "end"
IsPair(src, i) == src[i] \in DOMAIN Pairs /\ CharAt(src, i + 1) = Pairs[src[i]].then

(* The first place from i on where P holds, or the place after the end.    *)
FirstFrom(src, i, P(_)) ==
    LET at == {j \in i..Len(src) : P(src[j])}
    IN  IF at = {} THEN Len(src) + 1 ELSE CHOOSE j \in at : \A l \in at : j <= l

WordToken(w) == CASE w \in Keywords -> TKw(w)
                  [] w \in Uppers -> TUpper(w)
                  [] w \in Lowers \ Keywords -> TIdent(w)

(* Mutant: a minus in front of a minus is not looked at as a comment.      *)
CommentNeedsBlank(src, i) == /\ src[i] = "-" /\ CharAt(src, i + 1) = "-"
                             /\ CharAt(src, i + 2) \in Blanks

IsComment(src, i) == src[i] = "-" /\ CharAt(src, i + 1) = "-"

RECURSIVE LexFrom(_, _, _)
(* A string literal opens at i.                                            *)
LexString(src, i, toks) ==
    LET j == FirstFrom(src, i + 1, LAMBDA u : u = Quote \/ u = BadEscape)
    IN  IF CharAt(src, j) = Quote
        THEN LexFrom(src, j + 1, Append(toks, TStr(SubSeq(src, i + 1, j - 1))))
        ELSE LexError

LexFrom(src, i, toks) ==
    IF i > Len(src) THEN Lexed(Append(toks, TEof))
    ELSE CASE src[i] \in Blanks -> LexFrom(src, i + 1, toks)
           [] IsComment(src, i) -> LexFrom(src, FirstFrom(src, i, LAMBDA u : u = "\n"), toks)
           [] src[i] \in DOMAIN Numbers ->
                IF Numbers[src[i]] > MaxInt THEN LexError
                ELSE LexFrom(src, i + 1, Append(toks, TInt(Numbers[src[i]])))
           [] src[i] = Quote -> LexString(src, i, toks)
           [] src[i] \in Keywords \cup Uppers \cup Lowers ->
                LexFrom(src, i + 1, Append(toks, WordToken(src[i])))
           [] IsPair(src, i) /\ ~IsComment(src, i) ->
                LexFrom(src, i + 2, Append(toks, TSym(Pairs[src[i]].sym)))
           [] src[i] \in Singles /\ ~IsPair(src, i) /\ ~IsComment(src, i) ->
                LexFrom(src, i + 1, Append(toks, TSym(src[i])))
           [] OTHER -> LexError

Lex(src) == LexFrom(src, 1, <<>>)
=============================================================================
