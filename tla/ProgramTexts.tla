---------------------------- MODULE ProgramTexts ----------------------------
(***************************************************************************)
(* Program trees and the texts they are written as.  The state machine     *)
(* builds every tree of a bounded number of nodes, one node per step, with *)
(* the arguments the builders of grammar_helpers.cpp take; a complete tree *)
(* is written as a text and Parse of Grammar is asked to read it.          *)
(***************************************************************************)
EXTENDS Grammar, TLC

CONSTANT Palettes
    (* What trees may be made of, one record for each family of programs:  *)
    (*   names      identifiers, as sequences of chunks (a name with a     *)
    (*              digit does not read back, see Identifier of Grammar,   *)
    (*              nor does one begun by var, inf, nan or, after an if,   *)
    (*              else: these rules do not look at what follows)         *)
    (*   literals   leaves that are no names: <<"1">>, <<"true">>, <<"'s'">> *)
    (*   operators  of two operands, as sequences of chunks; signs: of one *)
    (*   wrappers   the other expressions: "call", "get", "set", ...       *)
    (*   statements the kinds of statement                                 *)
    (*   open       bound: expressions not yet part of another node        *)
    (*   wide       bound: statements not yet part of another node         *)
    (*   max        bound: nodes built, expression statements not counted  *)

ASSUME TextsAssumption == \A p \in Palettes :
    /\ \A n \in p.names : n # <<>> /\ Alpha(n[1]) /\ \A k \in DOMAIN n : Alnum(n[k])
    /\ {p.open, p.wide, p.max} \subseteq Nat

VARIABLES palette, \* the palette of this tree
          exprs,   \* expressions not yet part of another node
          stmts,   \* statements not yet part of another node, in text order
          built    \* how many nodes have been built
vars == <<palette, exprs, stmts, built>>

----------------------------------------------------------------------------
(* The written form of a tree, from the comments above the rules: what     *)
(* binds how tightly, and where parentheses are needed for it.             *)
Precedence(op) ==
    CHOOSE l \in 1 .. 6 :
        op \in << {<<"or">>}, {<<"and">>}, {<<"=", "=">>, <<"!", "=">>},
                  {<<">">>, <<">", "=">>, <<"<">>, <<"<", "=">>},
                  {<<"+">>, <<"-">>}, {<<"*">>, <<"/">>} >>[l]
Tightness(n) == CASE n.kind \in {"assignment", "set"} -> 0
                  [] n.kind = "binary" -> Precedence(n.tag)
                  [] n.kind = "unary" -> 7
                  [] OTHER -> 8

(* A token is a sequence of chunks, a written tree a sequence of tokens. *)
Token(c) == << <<c>> >>
RECURSIVE Written(_, _), WrittenAll(_, _)

(* The tree, in parentheses when it binds less tightly than its place asks. *)
Written(n, place) ==
    LET kid(k, p) == Written(n.kids[k], p)
        body == IF n.kind \in {"program", "block"} THEN WrittenAll(n.kids, <<>>) ELSE <<>>
        last == Len(n.kids)
        text ==
          CASE n.kind = "absent" -> <<>>
            [] n.kind = "binary" -> kid(1, Tightness(n)) \o <<n.tag>> \o kid(2, Tightness(n) + 1)
            [] n.kind = "unary" -> <<n.tag>> \o kid(1, 7)
            [] n.kind = "assignment" -> <<n.tag>> \o Token("=") \o kid(1, 0)
            [] n.kind = "get" -> kid(1, 8) \o Token(".") \o <<n.tag>>
            [] n.kind = "set" -> kid(1, 8) \o Token(".") \o <<n.tag>> \o Token("=") \o kid(2, 0)
            [] n.kind = "call" -> kid(1, 8) \o Token("(")
                                  \o WrittenAll(Tail(n.kids), Token(",")) \o Token(")")
            [] n.kind = "anonymous method" -> kid(1, 8) \o kid(2, 0)
            [] n.kind = "expression statement" -> kid(1, 0) \o Token(";")
            [] n.kind = "var" -> Token("var") \o <<n.tag>>
                                 \o (IF last = 0 THEN <<>> ELSE Token("=") \o kid(1, 0)) \o Token(";")
            [] n.kind = "return" -> Token("return") \o (IF last = 0 THEN <<>> ELSE kid(1, 0)) \o Token(";")
            [] n.kind = "if" -> Token("if") \o Token("(") \o kid(1, 0) \o Token(")") \o kid(2, 0)
                                \o (IF last = 2 THEN <<>> ELSE Token("else") \o kid(3, 0))
            [] n.kind = "loop" -> Token("while") \o Token("(") \o kid(1, 0) \o Token(")") \o kid(2, 0)
            [] n.kind = "for" -> Token("for") \o Token("(")
                                 \o (IF n.kids[1] = Absent THEN Token(";") ELSE kid(1, 0))
                                 \o kid(2, 0) \o Token(";") \o kid(3, 0) \o Token(")") \o kid(4, 0)
            [] n.kind = "block" -> Token("{") \o body \o Token("}")
            [] n.kind = "program" -> body
            [] n.kind = "parameter" -> <<n.tag>> \o (IF last = 0 THEN <<>> ELSE Token(":") \o kid(1, 0))
            [] n.kind = "function" -> Token("function") \o <<n.tag>> \o Token("(")
                                      \o WrittenAll(Front(n.kids), Token(",")) \o Token(")") \o kid(last, 0)
            [] n.kind = "class" -> Token("class") \o <<n.tag>> \o Token("{")
                                   \o WrittenAll(n.kids, <<>>) \o Token("}")
            [] OTHER -> <<n.tag>>
    IN  IF Tightness(n) < place THEN Token("(") \o text \o Token(")") ELSE text

WrittenAll(nodes, sep) ==
    IF nodes = <<>> THEN <<>>
    ELSE Written(Head(nodes), 0) \o (IF Len(nodes) = 1 THEN <<>> ELSE sep)
         \o WrittenAll(Tail(nodes), sep)

(* Two layouts: a space after every token, and only the spaces needed to   *)
(* keep words apart and, between two numbers, a sign from the second.      *)
Spaced(tokens) == FlattenSeq([k \in DOMAIN tokens |-> Append(tokens[k], " ")])
NumberToken(token) == token[1] \in Digits \cup {"inf", "nan"}
NeedsSpace(tokens, k) ==
    /\ k < Len(tokens)
    /\ \/ Alnum(Last(tokens[k])) /\ Alnum(tokens[k + 1][1])
       \/ /\ k > 1
          /\ tokens[k] \in {<<"+">>, <<"-">>}
          /\ NumberToken(tokens[k - 1])
          /\ NumberToken(tokens[k + 1])
Dense(tokens) ==
    FlattenSeq([k \in DOMAIN tokens |->
                IF NeedsSpace(tokens, k) THEN Append(tokens[k], " ") ELSE tokens[k]])

(* What a tree means: a for loop is the while loop it abbreviates, its     *)
(* initializer in a scope of its own, its increment after the statement.   *)
RECURSIVE Intended(_)
Intended(n) ==
    LET kids == [k \in DOMAIN n.kids |-> Intended(n.kids[k])]
        pass == IF kids[3] = Absent THEN <<kids[4]>>
                ELSE <<kids[4], Node("expression statement", <<>>, <<kids[3]>>)>>
        while == Node("loop", <<>>, <<IF kids[2] = Absent THEN True ELSE kids[2],
                                      Node("block", <<>>, pass)>>)
    IN  IF n.kind # "for" THEN [n EXCEPT !.kids = kids]
        ELSE Node("block", <<>>, IF kids[1] = Absent THEN <<while>> ELSE <<kids[1], while>>)

----------------------------------------------------------------------------
(* Building trees. *)
Init == palette \in Palettes /\ exprs = <<>> /\ stmts = <<>> /\ built = 0

More(n) == built + n <= palette.max /\ built' = built + n /\ UNCHANGED palette
TakeLast(s, k) == SubSeq(s, Len(s) - k + 1, Len(s))
DropLast(s, k) == SubSeq(s, 1, Len(s) - k)

(* The last k expressions become the children of one. *)
Combine(kind, tag, k) ==
    /\ kind \in palette.wrappers \cup {"binary", "unary"}
    /\ Len(exprs) >= k
    /\ More(1)
    /\ exprs' = Append(DropLast(exprs, k), Node(kind, tag, TakeLast(exprs, k)))
    /\ UNCHANGED stmts

Leaf(l) == CASE l[1] \in Digits /\ \A k \in DOMAIN l : l[k] # "." -> Node("integer", l, <<>>)
             [] l \in {<<"inf">>, <<"nan">>} \/ (l[1] \in Digits /\ \E k \in DOMAIN l : l[k] = ".") ->
                    Node("float", l, <<>>)
             [] l[1] \in Strings -> Node("string", l, <<>>)
             [] l \in {<<"true">>, <<"false">>, <<"null">>} -> Node(l[1], l, <<>>)
             [] OTHER -> Name(l)
MakeLeaf == \E l \in palette.names \cup palette.literals :
    /\ Len(exprs) < palette.open
    /\ More(1)
    /\ exprs' = Append(exprs, Leaf(l))
    /\ UNCHANGED stmts
MakeBinaryOp == \E op \in palette.operators : Combine("binary", op, 2)
MakeUnaryOp == \E op \in palette.signs : Combine("unary", op, 1)
MakeAssignment == \E n \in palette.names : Combine("assignment", n, 1)
MakeGetExpression == \E n \in palette.names : Combine("get", n, 1)
MakeSetterOfNothing == \E n \in palette.names : Combine("set", n, 1)
MakeSetter == \E n \in palette.names : Combine("set", n, 2)
MakeCall == \E k \in 1 .. Len(exprs) : Combine("call", <<>>, k)

MakeAnonymousMethod ==
    /\ "anonymous method" \in palette.wrappers
    /\ exprs # <<>> /\ stmts # <<>> /\ Last(stmts).kind = "block"
    /\ More(1)
    /\ exprs' = Append(Front(exprs), Node("anonymous method", <<>>, <<Last(exprs), Last(stmts)>>))
    /\ stmts' = Front(stmts)

(* The last e expressions and s statements become a statement. *)
Complete(kind, tag, e, s) ==
    /\ kind \in palette.statements
    /\ Len(exprs) >= e /\ Len(stmts) >= s /\ Len(stmts) - s < palette.wide
    /\ More(IF kind = "expression statement" THEN 0 ELSE 1)
    /\ exprs' = DropLast(exprs, e)
    /\ stmts' = Append(DropLast(stmts, s), Node(kind, tag, TakeLast(exprs, e) \o TakeLast(stmts, s)))

(* What may follow "if (...)", and what may not stand before an "else". *)
IsStatement(s) == s.kind \notin {"var", "function", "class"}
RECURSIVE TakesElse(_)
TakesElse(s) == \/ s.kind = "if" /\ Len(s.kids) = 2
                \/ s.kind \in {"if", "loop", "for"} /\ TakesElse(Last(s.kids))
Bodies(k) == Len(stmts) >= k /\ \A s \in Range(TakeLast(stmts, k)) : IsStatement(s)

MakeExpressionStatement == Complete("expression statement", <<>>, 1, 0)
MakeVarDecl == \E n \in palette.names, e \in {0, 1} : Complete("var", n, e, 0)
MakeReturn == \E e \in {0, 1} : Complete("return", <<>>, e, 0)
MakeIf == Bodies(1) /\ Complete("if", <<>>, 1, 1)
MakeIfElse == /\ Bodies(2)
              /\ ~TakesElse(stmts[Len(stmts) - 1])
              /\ Complete("if", <<>>, 1, 2)
MakeWhile == Bodies(1) /\ Complete("loop", <<>>, 1, 1)
MakeBlock == \E k \in 0 .. Len(stmts) : Complete("block", <<>>, 0, k)

(* The initializer is an expression or a declaration, and may be absent. *)
MakeFor == \E condition, increment \in {0, 1}, init \in {0, 1} :
    LET e == condition + increment
        s == TakeLast(stmts, 1 + init)
        es == TakeLast(exprs, e)
    IN  /\ "for" \in palette.statements
        /\ Len(exprs) >= e /\ Len(stmts) >= 1 + init
        /\ IsStatement(Last(s))
        /\ init = 1 => s[1].kind \in {"var", "expression statement"}
        /\ More(1)
        /\ exprs' = DropLast(exprs, e)
        /\ stmts' = Append(DropLast(stmts, 1 + init),
               Node("for", <<>>, <<IF init = 1 THEN s[1] ELSE Absent,
                                   IF condition = 1 THEN es[1] ELSE Absent,
                                   IF increment = 1 THEN Last(es) ELSE Absent,
                                   Last(s)>>))

MakeFunction == \E n \in palette.names, params \in {<<>>, <<FALSE>>, <<TRUE>>, <<FALSE, TRUE>>} :
    LET p == CHOOSE m \in palette.names : TRUE
        parameter(typed) == Node("parameter", p, IF typed THEN <<Name(n)>> ELSE <<>>)
    IN  /\ "function" \in palette.statements
        /\ stmts # <<>> /\ Last(stmts).kind = "block"
        /\ More(1 + Len(params))
        /\ stmts' = Append(Front(stmts),
               Node("function", n, [k \in DOMAIN params |-> parameter(params[k])] \o <<Last(stmts)>>))
        /\ UNCHANGED exprs
MakeClass == \E n \in palette.names, k \in 0 .. Len(stmts) :
    /\ \A m \in Range(TakeLast(stmts, k)) : m.kind = "function"
    /\ Complete("class", n, 0, k)

Next == \/ MakeLeaf \/ MakeBinaryOp \/ MakeUnaryOp \/ MakeAssignment \/ MakeGetExpression
        \/ MakeSetter \/ MakeCall \/ MakeAnonymousMethod
        \/ MakeExpressionStatement \/ MakeVarDecl \/ MakeReturn \/ MakeIf \/ MakeIfElse
        \/ MakeWhile \/ MakeBlock \/ MakeFor \/ MakeFunction \/ MakeClass
Spec == Init /\ [][Next]_vars

----------------------------------------------------------------------------
(* How many children each kind of node has: every tree is well formed. *)
Arity == [k \in {"identifier", "integer", "float", "string", "true", "false", "null"} |-> {0}]
      @@ [k \in {"unary", "assignment", "get", "expression statement"} |-> {1}]
      @@ [k \in {"binary", "set", "anonymous method", "loop"} |-> {2}]
      @@ [k \in {"var", "return", "parameter"} |-> {0, 1}]
      @@ ("if" :> {2, 3}) @@ ("for" :> {4})
      @@ [k \in {"call", "block", "function", "class"} |-> Nat]
RECURSIVE WellFormed(_)
WellFormed(n) ==
    \/ n = Absent
    \/ /\ Len(n.kids) \in Arity[n.kind]
       /\ \A k \in DOMAIN n.kids : WellFormed(n.kids[k])
TypeOK == /\ palette \in Palettes
          /\ built \in 0 .. palette.max
          /\ \A n \in Range(exprs) \cup Range(stmts) : n # Absent /\ WellFormed(n)

IsProgram == exprs = <<>> /\ stmts # <<>>
Tokens == WrittenAll(stmts, <<>>)

(* A program, written out with the parentheses the comments of grammar.h   *)
(* ask for, reads back as the same tree: operators bind as tightly as the  *)
(* comments say and chain to the left, no alternative takes what belongs   *)
(* to a later one, a for loop is the while loop it stands for.             *)
ReadsBack == IsProgram =>
    Parse(Spaced(Tokens)) = Intended(Node("program", <<>>, stmts))

(* Spaces do not matter beyond those that keep words apart, and a sign     *)
(* from the number on its right (without which Integer = int_ >> !float_   *)
(* would make a Float of the number on its left).                          *)
LayoutDoesNotMatter == IsProgram =>
    LET tokens == Tokens IN Parse(Dense(tokens)) = Parse(Spaced(tokens))

(* A statement whose text is cut short is no program: nothing of it would  *)
(* run.  Only an if statement has a shorter one inside, without its else.  *)
RECURSIVE EndsInElse(_)
EndsInElse(s) == \/ s.kind = "if" /\ Len(s.kids) = 3
                 \/ s.kind \in {"if", "loop", "for"} /\ EndsInElse(Last(s.kids))
CutShortIsNoProgram == IsProgram /\ Len(stmts) = 1 /\ ~EndsInElse(stmts[1]) =>
    LET text == Spaced(Tokens)
        ends == {k \in 1 .. Len(text) - 1 : text[k] = " "}
    IN  \A k \in ends : Parse(SubSeq(text, 1, k)) = NoProgram

(* Every name the tests of the grammar list as a valid identifier is one   *)
(* as a statement of its own (test/unit_tests/grammar.cpp:29-44): the rule *)
(* identifier keeps the whole name, and no alternative tried before it     *)
(* takes a part of it.                                                     *)
ValidIdentifiersAreStatements ==
    \A n \in palette.names :
        Parse(n \o <<";">>) =
            Node("program", <<>>, << Node("expression statement", <<>>, <<Name(n)>>) >>)
============================================================================
