----------------------------- MODULE MCG5Loader ----------------------------
(***************************************************************************)
(* Projects for G5Loader.  Loads: every import graph over three files and  *)
(* one that cannot be read.  Checks: an entry and two modules whose names  *)
(* meet.  Recoveries: one file with any three of some right, wrong and     *)
(* unfinished items.  The other sets hold the projects behind the findings.*)
(***************************************************************************)
EXTENDS G5Loader

MCBuiltinTypes == {"Int"}
MCBuiltinVals == {"show"}
MCBuiltinCtors == [Nil |-> 0, Cons |-> 2]
MCReserved == {"g5r_get"}

Script(imports, items) == File(FALSE, {}, imports, items)
Mod(exps, imports, items) == File(TRUE, exps, imports, items)
D(n, uses) == DefItem({n}, uses, {}, FALSE)
T(n, k, size) == TypeItem(n, k :> size, IF size = 0 THEN {} ELSE {"Int"})

(* Import graphs.                                                          *)
Missing == "X"
ImportLists == {<<>>} \cup {<<a>> : a \in {"M", "A", "B", Missing}}
               \cup {s \in {"M", "A", "B", Missing} \X {"M", "A", "B", Missing} : s[1] # s[2]}
Loads == [{"M", "A", "B"} -> {Script(i, <<>>) : i \in ImportLists}]

(* Names that meet: values, a builtin, constructors and types.             *)
Bodies == {<<D("x", {})>>, <<D("y", {}), D("x", {"y"})>>, <<D("show", {})>>,
           <<T("T", "K", 0)>>, <<T("T", "K", 1)>>, <<T("U", "K", 1)>>, <<D("x", {"x"})>>}
Headers == {<<FALSE, {}>>, <<TRUE, {}>>, <<TRUE, {"x"}>>, <<TRUE, {"K"}>>}
Modules(imports) == {File(h[1], h[2], imports, b) : h \in Headers, b \in Bodies}
Mains == {<<D("main", {n})>> : n \in {"x", "y", "show", "K"}} \cup {<<D("x", {}), D("main", {"x"})>>}
Entries == {Script(i, m) : i \in {<<"A", "B">>, <<"B", "A">>, <<"B">>}, m \in Mains}
Meetings == {[M |-> m, A |-> a, B |-> b] :
               m \in Entries, a \in Modules(<<>>), b \in Modules(<<>>) \cup Modules(<<"A">>)}

(* Record syntax, reserved names, signatures, several mains, holes.        *)
Hole(it) == [it EXCEPT !.hole = TRUE]
Records == {[M |-> [Script(<<"A">>, <<D("main", {})>>) EXCEPT !.records = rm, !.locals = lm],
             A |-> [Script(<<>>, <<D(n, {})>>) EXCEPT !.records = ra, !.locals = la]] :
              rm \in BOOLEAN, ra \in BOOLEAN, n \in {"x", "g5r_get"},
              lm \in SUBSET MCReserved, la \in SUBSET MCReserved}
Singles == {[M |-> [Script(<<>>, items) EXCEPT !.sigs = s]] :
              items \in {<<D("main", {})>>, <<D("main", {}), D("main", {})>>, <<Hole(D("main", {}))>>,
                         <<D("x", {}), D("x", {"x"})>>, <<D("x", {"Cons"}), D("main", {"x"})>>},
              s \in {<<>>, <<"main">>, <<"main", "main">>, <<"z">>}}
Checks == Meetings \cup Records \cup Singles

(* Items of one file: right, wrong, and beside a hole.                     *)
Bad(it) == [it EXCEPT !.bad = TRUE]
Soft(it) == [it EXCEPT !.bad = TRUE, !.soft = TRUE]
Group(uses) == DefItem({"a", "b"}, uses, {}, TRUE)
ItemKinds == {D("a", {}), Bad(D("a", {})), Soft(D("a", {})), Hole(D("a", {})), Soft(Hole(D("a", {}))),
              D("b", {"a"}), [D("b", {"a"}) EXCEPT !.soft = TRUE], D("c", {"b"}),
              DefItem({"b"}, {"b"}, {}, TRUE), D("b", {"b"}), Group({"a", "b"}), Bad(Group({"c"})),
              DefItem({"c"}, {}, {"Int"}, FALSE), DefItem({"c"}, {"K"}, {"T"}, FALSE),
              TypeItem("T", [K |-> 1], {"Int"}), Bad(TypeItem("T", [K |-> 1], {"Int"})),
              TypeItem("T", [L |-> 1], {"U"}), TypeItem("U", [K |-> 1], {"T"}),
              TypeItem("Int", [K |-> 0], {})}
Ends == {Script(<<>>, <<>>), Mod({"a", "T"}, <<>>, <<>>), [Script(<<>>, <<>>) EXCEPT !.sigs = <<"b">>]}
Recoveries == {[M |-> [e EXCEPT !.items = s]] : e \in Ends, s \in ItemKinds \X ItemKinds \X ItemKinds}

(* A name fails, comes back, and fails again where a skipped item is used. *)
Cascades == {[M |-> Script(<<>>, <<Bad(D("a", {})), D("a", {}), D("b", {"a"}), D("c", {"b"}),
                                   D("c", {}), D("d", {n})>>)] : n \in {"a", "b", "c", "d"}}

(* All of these.                                                           *)
MCProjects == Loads \cup Checks \cup Recoveries \cup Cascades

(* A module defines what another one takes for a builtin.                  *)
Captures == {[M |-> Script(<<"A", "B">>, <<D("main", {"x"})>>),
              A |-> Mod({"x"}, <<>>, <<D("x", {"show"})>>),
              B |-> Mod({"y"}, <<>>, <<D("show", {}), D("y", {"show"})>>)]}
=============================================================================
