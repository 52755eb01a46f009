------------------------------ MODULE Grammar ------------------------------
(***************************************************************************)
(* The parser: the Spirit grammar of source/parser/grammar.h, the tree     *)
(* builders of grammar_helpers.cpp and Parser::Parse.  The grammar is an   *)
(* ordered-choice one: an alternative that fails is undone and the next    *)
(* one tried, an expectation (>) that fails ends the whole parse.          *)
(*                                                                         *)
(* A text is a sequence of chunks: a chunk is a run of letters that some   *)
(* rule looks for ("var", "or", "inf") or that none does ("x"), a digit, a *)
(* string literal, a space or one character of punctuation.  The name      *)
(* var_i of the tests is the two chunks <<"var", "_i">>, so a rule that    *)
(* matches letters without looking at what follows can be told from one    *)
(* that looks.  Exponents of real numbers are left out.                    *)
(*                                                                         *)
(* A rule is an operator of a text and a position.  ProgramTexts builds    *)
(* the trees, writes them as texts and asks what Parse makes of them.      *)
(***************************************************************************)
EXTENDS Integers, Sequences, SequencesExt

Digits == {"0", "1", "2", "3", "4", "5", "6", "7", "8", "9"}
Broken == "'s>\n   <Identifier:x'"   \* a string with a line break in it
Strings == {"'s'", Broken}
Punctuation == {" ", "(", ")", "{", "}", ";", ",", ".", ":", "=", "!", "<",
                ">", "+", "-", "*", "/"}
Alpha(c) == c \notin Digits \cup Strings \cup Punctuation
Alnum(c) == Alpha(c) \/ c \in Digits

----------------------------------------------------------------------------
(* Trees: a kind, the chunks that distinguish the node, its children. *)
Node(kind, tag, kids) == [kind |-> kind, tag |-> tag, kids |-> kids]
Absent == Node("absent", <<>>, <<>>)
NoProgram == Absent
Name(n) == Node("identifier", n, <<>>)
Present(nodes) == SelectSeq(nodes, LAMBDA n : n # Absent)

True == Node("true", <<"true">>, <<>>)

(* One builder for or, and, comparisons and arithmetic. *)
MakeBinary(op, lhs, rhs) == Node("binary", op, <<lhs, rhs>>)

(* A for loop becomes a block with the initializer and a while loop whose  *)
(* body is a block with the statement and the increment.                   *)
MakeForLoop(init, condition, increment, body) ==
    LET step == IF increment = Absent THEN Absent
                ELSE Node("expression statement", <<>>, <<increment>>)
        inner == Node("block", <<>>, Present(<<body, step>>))
        loop == Node("loop", <<>>,
                     <<IF condition = Absent THEN True ELSE condition, inner>>)
    IN  Node("block", <<>>, Present(<<init, loop>>))

----------------------------------------------------------------------------
(* A rule applied to text t at position i gives where it ended and what it *)
(* built; it ends at 0 when it fails, at -1 when an expectation failed.    *)
Fail == [at |-> 0, v |-> Absent]
Throw == [at |-> -1, v |-> Absent]
Ok(r) == r.at > 0
Then(r, Next2(_, _)) == IF Ok(r) THEN Next2(r.at, r.v) ELSE r
OrElse(r, s) == IF r.at = 0 THEN s ELSE r
Optional(r, i) == IF r.at = 0 THEN [at |-> i, v |-> Absent] ELSE r
Expect(r) == IF r.at = 0 THEN Throw ELSE r
Build(r, F(_)) == IF Ok(r) THEN [at |-> r.at, v |-> F(r.v)] ELSE r

(* Where a run of chunks that satisfy P, begun at i, ends. *)
RunEnd(t, i, P(_)) ==
    CHOOSE j \in i .. Len(t) + 1 :
        /\ \A k \in i .. j - 1 : P(t[k])
        /\ j <= Len(t) => ~P(t[j])
RECURSIVE Skip(_, _)
Skip(t, i) == IF i <= Len(t) /\ t[i] = " " THEN Skip(t, i + 1) ELSE i
At(t, i, s) == i + Len(s) - 1 <= Len(t) /\ SubSeq(t, i, i + Len(s) - 1) = s

(* qi::lit and qi::string: whatever follows. *)
LitUnskipped(t, i, s) == IF At(t, i, s) THEN [at |-> i + Len(s), v |-> Absent] ELSE Fail
Lit(t, i, s) == LET j == Skip(t, i)
                IN  IF At(t, j, s) THEN [at |-> j + Len(s), v |-> Absent] ELSE Fail

(* kw: no letter, digit or underscore may follow. *)
Keyword(t, i, s) ==
    LET r == Lit(t, i, s)
    IN  IF Ok(r) /\ r.at <= Len(t) /\ Alnum(t[r.at]) THEN Fail ELSE r

(* Letters, then letters and digits; but the action is given _1, the first *)
(* of the two parts of the sequence, so the name ends before the first     *)
(* digit: a123 is matched whole and is the identifier a.                   *)
Identifier(t, i) ==
    LET j == Skip(t, i)
        letters == RunEnd(t, j, Alpha)
    IN  IF letters > j
        THEN [at |-> RunEnd(t, letters, Alnum), v |-> Name(SubSeq(t, j, letters - 1))]
        ELSE Fail

(* The end of what int_ and float_ accept at j, 0 when they fail.  Both    *)
(* take a sign; float_ also takes inf and nan, whatever follows them.      *)
DigitsEnd(t, j) == RunEnd(t, j, LAMBDA c : c \in Digits)
Unsigned(t, j) == IF j <= Len(t) /\ t[j] \in {"+", "-"} THEN j + 1 ELSE j
IntEnd(t, j) == LET u == Unsigned(t, j)
                IN  IF DigitsEnd(t, u) > u THEN DigitsEnd(t, u) ELSE 0
RealEnd(t, j) ==
    LET u == Unsigned(t, j)
        whole == DigitsEnd(t, u)
        part == IF At(t, whole, <<".">>) THEN DigitsEnd(t, whole + 1) ELSE whole
    IN  CASE \E s \in {<<"inf">>, <<"nan">>} : At(t, u, s) -> u + 1
          [] part > u + 1 \/ whole > u -> part
          [] OTHER -> 0

(* Integer = int_ >> !float_, and a number that is not one is a Float. *)
Integer(t, i) ==
    LET j == Skip(t, i)
        n == IntEnd(t, j)
    IN  IF n # 0 /\ RealEnd(t, Skip(t, n)) = 0
        THEN [at |-> n, v |-> Node("integer", SubSeq(t, j, n - 1), <<>>)] ELSE Fail
Float(t, i) ==
    LET j == Skip(t, i)
        x == RealEnd(t, j)
    IN  IF x # 0 THEN [at |-> x, v |-> Node("float", SubSeq(t, j, x - 1), <<>>)]
        ELSE Fail
Number(t, i) == OrElse(Integer(t, i), Float(t, i))

StringLiteral(t, i) ==
    LET j == Skip(t, i)
    IN  IF j <= Len(t) /\ t[j] \in Strings
        THEN [at |-> j + 1, v |-> Node("string", <<t[j]>>, <<>>)] ELSE Fail

----------------------------------------------------------------------------
(* The rules, from the bottom of grammar.h up.  Rule looks a rule up by    *)
(* its name in grammar.h, for the references that may be circular.         *)
RECURSIVE Rule(_, _, _), Binary(_, _, _), MoreBinary(_, _, _), MoreCalls(_, _)
RECURSIVE Many(_, _, _, _, _)

(* p >> q, where p builds nothing. *)
Seq2(r, Next1(_)) == Then(r, LAMBDA i, v : Next1(i))
(* p >> q, where q builds nothing. *)
Closed(r, t, s) == Then(r, LAMBDA i, v : Build(Lit(t, i, s), LAMBDA w : v))

Expression(t, i) == Rule("assignment", t, i)

Assignment(t, i) ==
    OrElse(Then(Identifier(t, i), LAMBDA j, n :
                Seq2(Lit(t, j, <<"=">>), LAMBDA k :
                     Build(Rule("assignment", t, k),
                           LAMBDA e : Node("assignment", n.tag, <<e>>)))),
           Binary(t, i, 1))

(* logic_or, logic_and, equality, comparison, addition, multiplication:    *)
(* each a chain, to the left, of the operators of its level, tried in this *)
(* order, over the next level.                                             *)
LevelsShortFirst ==
          << << <<"or">> >>, << <<"and">> >>, << <<"=", "=">>, <<"!", "=">> >>,
             << <<">">>, <<">", "=">>, <<"<">>, <<"<", "=">> >>,
             << <<"+">>, <<"-">> >>, << <<"*">>, <<"/">> >> >>
Levels == << << <<"or">> >>, << <<"and">> >>, << <<"=", "=">>, <<"!", "=">> >>,
             << <<">", "=">>, <<">">>, <<"<", "=">>, <<"<">> >>,
             << <<"+">>, <<"-">> >>, << <<"*">>, <<"/">> >> >>

Binary(t, i, level) ==
    IF level > Len(Levels) THEN Rule("unary", t, i)
    ELSE Then(Binary(t, i, level + 1),
              LAMBDA j, lhs : MoreBinary(t, [at |-> j, v |-> lhs], level))

MoreBinary(t, r, level) ==
    LET ops == SelectSeq(Levels[level], LAMBDA op : Ok(Lit(t, r.at, op)))
    IN  IF ops = <<>> THEN r
        ELSE OrElse(Then(Binary(t, Lit(t, r.at, ops[1]).at, level + 1), LAMBDA j, e :
                         MoreBinary(t, [at |-> j, v |-> MakeBinary(ops[1], r.v, e)], level)),
                    r)

(* unary and call -> primary ( "(" ... ")" | "." ... | block )*. *)
Primary(t, i) ==
    LET constant(k) == Build(Keyword(t, i, <<k>>), LAMBDA v : Node(k, <<k>>, <<>>))
    IN  OrElse(constant("true"), OrElse(constant("false"), OrElse(constant("null"),
        OrElse(Number(t, i), OrElse(StringLiteral(t, i), OrElse(Identifier(t, i),
        Seq2(Lit(t, i, <<"(">>), LAMBDA j :
             Then(Rule("expression", t, j), LAMBDA k, e :
                  Expect(Build(Lit(t, k, <<")">>), LAMBDA v : e))))))))))

Unary(t, i) ==
    LET applied(op) == Seq2(Lit(t, i, op), LAMBDA j :
                            Build(Rule("unary", t, j), LAMBDA e : Node("unary", op, <<e>>)))
    IN  OrElse(applied(<<"!">>), OrElse(applied(<<"-">>),
        Then(Primary(t, i), LAMBDA j, e : MoreCalls(t, [at |-> j, v |-> e]))))

MoreCalls(t, r) ==
    LET call == Seq2(Lit(t, r.at, <<"(">>), LAMBDA i :
                     Closed(Build(Many("expression", <<",">>, t, i, <<>>),
                                  LAMBDA args : Node("call", <<>>, <<r.v>> \o args.kids)),
                            t, <<")">>))
        setter(i, n) == Seq2(Lit(t, i, <<"=">>), LAMBDA j :
                             Build(Rule("assignment", t, j),
                                   LAMBDA e : Node("set", n.tag, <<r.v, e>>)))
        getter == Seq2(Lit(t, r.at, <<".">>), LAMBDA i :
                       Then(Identifier(t, i), LAMBDA j, n :
                            OrElse(setter(j, n),
                                   [at |-> j, v |-> Node("get", n.tag, <<r.v>>)])))
        method == Build(Rule("statement_block", t, r.at),
                        LAMBDA b : Node("anonymous method", <<>>, <<r.v, b>>))
    IN  OrElse(Then(OrElse(call, OrElse(getter, method)),
                    LAMBDA i, e : MoreCalls(t, [at |-> i, v |-> e])),
               r)

(* Statements. *)
ExpressionStatementOpen(t, i) ==
    Build(Rule("expression", t, i), LAMBDA e : Node("expression statement", <<>>, <<e>>))
ExpressionStatement(t, i) ==
    Then(Rule("expression", t, i), LAMBDA j, e :
         Expect(Build(Lit(t, j, <<";">>),
                      LAMBDA v : Node("expression statement", <<>>, <<e>>))))
VarDecl(t, i) ==
    Seq2(Lit(t, i, <<"var">>), LAMBDA j : Expect(
         Then(Identifier(t, j), LAMBDA k, n :
         Then(Optional(Seq2(Lit(t, k, <<"=">>), LAMBDA m : Expect(Rule("expression", t, m))), k),
              LAMBDA m, e :
              Expect(Build(Lit(t, m, <<";">>), LAMBDA v :
                           Node("var", n.tag, Present(<<e>>))))))))

(* "(" expression ")" statement, after if or while. *)
Guarded(t, i, kind) ==
    Then(Closed(Seq2(Lit(t, i, <<"(">>), LAMBDA j : Rule("expression", t, j)), t, <<")">>),
         LAMBDA k, c : Build(Rule("statement", t, k), LAMBDA s : Node(kind, <<>>, <<c, s>>)))

IfStatement(t, i) ==
    Then(Seq2(Lit(t, i, <<"if">>), LAMBDA j : Guarded(t, j, "if")), LAMBDA k, s :
         OrElse(Seq2(Lit(t, k, <<"else">>), LAMBDA m :
                     Build(Rule("statement", t, m), LAMBDA e : Node("if", <<>>, s.kids \o <<e>>))),
                [at |-> k, v |-> s]))

WhileLoop(t, i) == Seq2(Lit(t, i, <<"while">>), LAMBDA j : Guarded(t, j, "loop"))

ForLoop(t, i) ==
    LET upTo(j, s) == Closed(Optional(Rule("expression", t, j), j), t, s)
        init(j) == OrElse(Rule("var_decl", t, j), OrElse(Rule("expression_statement", t, j),
                   Lit(t, j, <<";">>)))
    IN  Seq2(Lit(t, i, <<"for">>), LAMBDA j : Seq2(Lit(t, j, <<"(">>), LAMBDA k :
        Then(init(k), LAMBDA m, first :
        Then(upTo(m, <<";">>), LAMBDA n, condition :
        Then(upTo(n, <<")">>), LAMBDA o, increment :
        Build(Rule("statement", t, o), LAMBDA body :
              MakeForLoop(first, condition, increment, body)))))))

ReturnStatement(t, i) ==
    Seq2(Keyword(t, i, <<"return">>), LAMBDA j :
         Closed(Build(Optional(Rule("expression", t, j), j),
                      LAMBDA e : Node("return", <<>>, Present(<<e>>))), t, <<";">>))

StatementBlock(t, i) ==
    Seq2(Lit(t, i, <<"{">>), LAMBDA j :
         Closed(Build(Many("declaration", <<>>, t, j, <<>>),
                      LAMBDA l : Node("block", <<>>, l.kids)), t, <<"}">>))

Statement(t, i) ==
    OrElse(IfStatement(t, i), OrElse(WhileLoop(t, i), OrElse(ForLoop(t, i),
    OrElse(ReturnStatement(t, i), OrElse(Rule("expression_statement", t, i),
    Rule("statement_block", t, i))))))

(* Functions, classes and declarations. *)
Parameter(t, i) ==
    Then(Identifier(t, i), LAMBDA j, n :
         LET type == Seq2(Lit(t, j, <<":">>), LAMBDA k : Identifier(t, k))
         IN  Build(Optional(type, j), LAMBDA p : Node("parameter", n.tag, Present(<<p>>))))

FunctionDeclaration(t, i) ==
    Seq2(Keyword(t, i, <<"function">>), LAMBDA j : Then(Identifier(t, j), LAMBDA k, n :
    Seq2(Lit(t, k, <<"(">>), LAMBDA m :
    Then(Closed(Many("parameter", <<",">>, t, m, <<>>), t, <<")">>), LAMBDA o, params :
    Build(Rule("statement_block", t, o), LAMBDA body :
          Node("function", n.tag, params.kids \o <<body>>))))))

ClassDeclaration(t, i) ==
    Seq2(Keyword(t, i, <<"class">>), LAMBDA j : Then(Identifier(t, j), LAMBDA k, n :
    Seq2(Lit(t, k, <<"{">>), LAMBDA m :
    Closed(Build(Many("function_declaration", <<>>, t, m, <<>>),
                 LAMBDA methods : Node("class", n.tag, methods.kids)), t, <<"}">>))))

Declaration(t, i) ==
    OrElse(ClassDeclaration(t, i), OrElse(Rule("function_declaration", t, i),
    OrElse(Rule("var_decl", t, i), Rule("statement", t, i))))

Rule(rule, t, i) ==
    CASE rule = "expression" -> Expression(t, i)
      [] rule = "assignment" -> Assignment(t, i)
      [] rule = "unary" -> Unary(t, i)
      [] rule = "expression_statement" -> ExpressionStatement(t, i)
      [] rule = "var_decl" -> VarDecl(t, i)
      [] rule = "statement_block" -> StatementBlock(t, i)
      [] rule = "statement" -> Statement(t, i)
      [] rule = "parameter" -> Parameter(t, i)
      [] rule = "function_declaration" -> FunctionDeclaration(t, i)
      [] rule = "declaration" -> Declaration(t, i)

(* rule* when sep is empty, -(rule % sep) otherwise, after the nodes of    *)
(* done; never fails.                                                      *)
Many(rule, sep, t, i, done) ==
    LET start == IF done = <<>> THEN i ELSE Lit(t, i, sep).at
    IN  OrElse(Then(IF start = 0 THEN Fail ELSE Rule(rule, t, start),
                    LAMBDA j, v : Many(rule, sep, t, j, Append(done, v))),
               [at |-> i, v |-> Node("list", <<>>, done)])

(* program = *declaration >> eoi, and Parser::Parse: a text that does not  *)
(* match to its end, or on which an expectation failed, leaves no program. *)
Parse(t) ==
    Then(Many("declaration", <<>>, t, 1, <<>>), LAMBDA i, l :
         IF Skip(t, i) = Len(t) + 1 THEN [at |-> i, v |-> Node("program", <<>>, l.kids)]
         ELSE Fail).v

============================================================================
