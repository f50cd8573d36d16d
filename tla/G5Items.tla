------------------------------ MODULE G5Items ------------------------------
(***************************************************************************)
(* The checker's loop over the items of one file, g5_run_items of          *)
(* gen5/g5_infer.dc: which items are inferred, which are skipped because   *)
(* of a failed one, which errors a hole excuses, and the verdict.          *)
(*                                                                         *)
(* Types are abstracted.  An item says which names it binds and mentions,  *)
(* whether its body is ill-typed (bad), whether a message about it counts  *)
(* as hole-connected (soft) and whether inference reaches a hole in it.    *)
(***************************************************************************)
EXTENDS Naturals, Sequences

CONSTANTS BuiltinTypes     \* Int, Bool, ..., g5_is_builtin_ty

(* `let' or `let rec .. and': values it uses, types it is annotated with.  *)
DefItem(names, uses, tys, isrec) ==
    [kind |-> "def", names |-> names, ctors |-> <<>>, uses |-> uses, tys |-> tys,
     isrec |-> isrec, bad |-> FALSE, soft |-> FALSE, hole |-> FALSE]

(* `type': ctors maps its constructors to their number of fields, tys are  *)
(* the types of these fields.                                              *)
TypeItem(name, ctors, tys) ==
    [kind |-> "type", names |-> {name}, ctors |-> ctors, uses |-> {}, tys |-> tys,
     isrec |-> FALSE, bad |-> FALSE, soft |-> FALSE, hole |-> FALSE]

(* What the parser builds: a definition has no constructors, a declaration *)
(* uses no value and is not marked recursive.                              *)
IsItem(it) ==
    /\ it.kind \in {"def", "type"}
    /\ {it.isrec, it.bad, it.soft, it.hole} \subseteq BOOLEAN
    /\ it.kind = "def" => it.ctors = <<>>
    /\ it.kind = "type" => it.uses = {} /\ ~it.isrec

(* Bindings in front of those of env, the latest one counts; f with x      *)
(* mapped to v.                                                            *)
Onto(new, env) == [n \in DOMAIN new \cup DOMAIN env |->
                     IF n \in DOMAIN new THEN new[n] ELSE env[n]]
Put(f, x, v) == Onto([y \in {x} |-> v], f)

(* The values an item binds.                                               *)
Binds(it) == IF it.kind = "def" THEN it.names ELSE DOMAIN it.ctors

(* g5_item_deps, and the names that fail together with an item.            *)
Deps(it) == (it.uses \ it.names) \cup
            (IF it.kind = "def" THEN it.tys ELSE it.tys \ it.names)

FailedNames(it) ==
    it.names \cup IF it.kind = "def" THEN {} ELSE Binds(it) \cup it.tys

(* The check of file f before its first item: what it can see is the       *)
(* environment env and the types tydefs.                                   *)
Start(f, env, tydefs) ==
    [file |-> f, at |-> 1, env |-> env, tydefs |-> tydefs, sums |-> <<>>, failed |-> {},
     status |-> "checked", holes |-> FALSE, holevars |-> FALSE, diags |-> <<>>, nodes |-> <<>>]

Bound(c, names) == [n \in names |-> <<c.file, c.at>>]

BodyEnv(c, it) == IF it.isrec THEN Onto(Bound(c, it.names), c.env) ELSE c.env

KnownTypes(c) == c.tydefs \cup BuiltinTypes

Diag(c, kind) == [c EXCEPT !.at = @ + 1, !.diags = Put(@, c.at, kind)]

(* g5_continue_item: the error is kept and the loop goes on.               *)
Continue(c, it) == [Diag(c, "error") EXCEPT !.status = "invalid",
                                            !.failed = @ \cup FailedNames(it)]

Lacking(c) == Diag(c, "lacking")

Checked(c, it) ==
    LET new == Bound(c, Binds(it))
    IN [c EXCEPT !.at = @ + 1, !.env = Onto(new, @), !.sums = Onto(new, @),
                 !.nodes = Put(@, c.at, [n \in it.uses |-> BodyEnv(c, it)[n]]),
                 !.holes = @ \/ it.hole, !.holevars = @ \/ it.hole]

(* An error next to a hole: rolled back, the program is partial.           *)
Tentative(c, it) ==
    [Diag(c, "tentative") EXCEPT !.holes = @ \/ it.hole,
                                 !.status = IF @ = "invalid" THEN @ ELSE "partial"]

DefFails(c, it) == it.bad \/ ~ it.uses \subseteq DOMAIN BodyEnv(c, it)
                          \/ ~ it.tys \subseteq KnownTypes(c)

(* The type of a declaration that fails in its fields stays declared.      *)
TypeChecked(c, it) ==
    LET declared == [c EXCEPT !.tydefs = @ \cup it.names]
    IN  IF it.names \cap KnownTypes(c) # {} THEN Continue(c, it)
        ELSE IF it.bad \/ ~ it.tys \subseteq KnownTypes(declared) THEN Continue(declared, it)
        ELSE Checked(declared, it)

(* Mutants: a tentative item does not count; skipped items keep quiet, the *)
(* first error ends the analysis.                                          *)
DefCheckedForgiving(c, it) ==
    CASE ~ DefFails(c, it) -> Checked(c, it)
      [] DefFails(c, it) /\ it.soft -> Diag(c, "tentative")
      [] OTHER -> Continue([c EXCEPT !.holes = @ \/ it.hole], it)

DefChecked(c, it) ==
    CASE ~ DefFails(c, it) -> Checked(c, it)
      [] DefFails(c, it) /\ it.soft /\ (c.holevars \/ it.hole) -> Tentative(c, it)
      [] OTHER -> Continue([c EXCEPT !.holes = @ \/ it.hole], it)

StepStopsAtFirst(c, it) ==
    IF c.failed # {} THEN Lacking(c)
    ELSE IF it.kind = "def" THEN DefChecked(c, it) ELSE TypeChecked(c, it)

(* One turn of g5_run_items.                                               *)
Step(c, it) ==
    IF Deps(it) \cap c.failed # {} THEN Lacking(c)
    ELSE IF it.kind = "def" THEN DefChecked(c, it) ELSE TypeChecked(c, it)

(* g5_finish: signatures and exposed names must be defined, a hole leaves  *)
(* the program partial.                                                    *)
Verdict(c, f) ==
    IF \/ c.status = "invalid"
       \/ \E i \in DOMAIN f.sigs : f.sigs[i] \notin DOMAIN c.env
       \/ f.module /\ ~ f.exps \subseteq DOMAIN c.env \cup KnownTypes(c)
    THEN "invalid"
    ELSE IF c.holes THEN "partial" ELSE c.status
=============================================================================
