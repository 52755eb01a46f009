----------------------------- MODULE AstPrinter -----------------------------
(***************************************************************************)
(* The dump of a program (sscript --dump-ast): a visitor that prints a     *)
(* line for each node and whose only state, m_indentation, every handler   *)
(* has to leave as it found it.  A line is its indentation, the label      *)
(* before the colon and the text behind it.                                *)
(***************************************************************************)
EXTENDS ProgramTexts, NumberLiterals

CONSTANT Printable \* the floats, in units, that << has digits for: it prints
                   \* six significant ones of a float
ASSUME PrintableAssumption == Printable \subseteq Floats /\ Top \in Printable

OperatorOf(tag) ==
    IF Len(tag) = 1 THEN tag[1]
    ELSE CASE tag[1] = "=" -> "==" [] tag[1] = "!" -> "!="
           [] tag[1] = ">" -> ">=" [] tag[1] = "<" -> "<="

Line(p, label, text) ==
    [indentation |-> p.indentation, label |-> label, text |-> text]

(* What is printed of a node itself.  A number is printed, not the digits  *)
(* it was written with, and a float only as far as its digits go; an       *)
(* untyped parameter is printed with the type any.                         *)
PrintedFloat(f) ==
    IF f = NaN THEN NaN
    ELSE CHOOSE d \in Printable : \A e \in Printable : Distance(d, f) <= Distance(e, f)
PrintedNumber(n) ==
    <<ToString(IF n.kind = "integer" THEN IntegerLiteral(n.tag)
               ELSE MakeFloat(PrintedFloat(FloatLiteral(n.tag).n)))>>
PrintedParameter(n) ==
    n.tag \o <<"(">> \o (IF n.kids = <<>> THEN <<"any">> ELSE n.kids[1].tag) \o <<")">>

Labels == [identifier |-> "Identifier", integer |-> "Integer", float |-> "Float",
           string |-> "String", true |-> "Boolean", false |-> "Boolean", null |-> "Null",
           unary |-> "Unary", assignment |-> "Assignment", call |-> "Call",
           get |-> "GetExpression", set |-> "GetExpression", if |-> "IfStatement",
           loop |-> "Loop", var |-> "VarDecl", block |-> "StatementBlock",
           return |-> "Return", function |-> "FunctionDeclaration",
           parameter |-> "Parameter", class |-> "ClassDecl", program |-> "Program"]
       @@ ("anonymous method" :> "AnonymousMethod" @@ "expression statement" :> "Expression")
Label(n) ==
    CASE n.kind # "binary" -> Labels[n.kind]
      [] n.kind = "binary" /\ OperatorOf(n.tag) \in {"or", "and"} -> "Logic"
      [] n.kind = "binary" /\ OperatorOf(n.tag) \in {"+", "-", "*", "/"} -> "ArithmeticOp"
      [] n.kind = "binary" /\ OperatorOf(n.tag) \in {"==", "!=", ">", ">=", "<", "<="} -> "Comparison"
Detail(n) ==
    CASE n.kind \in {"integer", "float"} -> PrintedNumber(n)
      [] n.kind = "parameter" -> PrintedParameter(n)
      [] n.kind \in {"identifier", "string", "true", "false", "unary", "binary"} -> n.tag
      [] OTHER -> <<>>

(* A string is printed as it is: what follows a line break in it is on a   *)
(* line of its own, which may look like that of another node.              *)
Printed(p, n) ==
    IF n.tag = <<Broken>>
    THEN <<Line(p, "String", <<"'s'">>),
           Line([p EXCEPT !.indentation = 3], "Identifier", <<"x">>)>>
    ELSE <<Line(p, Label(n), Detail(n))>>

(* Mutant of Visited: a set, which has the label of a get, is printed as   *)
(* one, without the value that is set.                                     *)
VisitedAsGet(n) ==
    CASE n.kind \in {"assignment", "var", "function", "class"} -> <<Name(n.tag)>> \o n.kids
      [] n.kind \in {"get", "set"} -> <<n.kids[1], Name(n.tag)>>
      [] n.kind = "parameter" -> <<>>
      [] OTHER -> n.kids

(* The nodes that are visited below a node: names are nodes, too.          *)
Visited(n) ==
    CASE n.kind \in {"assignment", "var", "function", "class"} -> <<Name(n.tag)>> \o n.kids
      [] n.kind = "get" -> Append(n.kids, Name(n.tag))
      [] n.kind = "set" -> <<n.kids[1], Name(n.tag), n.kids[2]>>
      [] n.kind = "parameter" -> <<>>
      [] OTHER -> n.kids

RECURSIVE Visit(_, _)
Visit(p, n) ==
    LET indented == [p EXCEPT !.indentation = @ + (IF n.kind = "program" THEN 0 ELSE 1)]
        headed == [indented EXCEPT !.lines = @ \o Printed(indented, n)]
        visited == FoldLeft(LAMBDA q, kid : Visit(q, kid), headed, Visited(n))
    IN  [visited EXCEPT !.indentation = @ - (IF n.kind = "program" THEN 0 ELSE 1)]

Dump(program) == Visit([indentation |-> 0, lines |-> <<>>], program).lines

----------------------------------------------------------------------------
(* A reader of dumps.  The lines of a node end where one follows that is   *)
(* indented no further; the lines one step further in begin its children.  *)
Understood(line, kids) ==
    CASE line.label \in {"ArithmeticOp", "Comparison", "Logic"} -> Node("binary", line.text, kids)
      [] line.label \in {"Assignment", "VarDecl", "FunctionDeclaration", "ClassDecl"} ->
             Node(CHOOSE k \in DOMAIN Labels : Labels[k] = line.label, kids[1].tag, Tail(kids))
      [] line.label = "GetExpression" ->
             Node(IF Len(kids) = 2 THEN "get" ELSE "set", kids[2].tag, <<kids[1]>> \o Tail(Tail(kids)))
      [] line.label = "Boolean" -> Node(line.text[1], line.text, <<>>)
      [] line.label = "Parameter" ->
             LET open == SelectInSeq(line.text, LAMBDA c : c = "(")
                 type == SubSeq(line.text, open + 1, Len(line.text) - 1)
             IN  Node("parameter", SubSeq(line.text, 1, open - 1),
                      IF type = <<"any">> THEN <<>> ELSE <<Name(type)>>)
      [] OTHER -> Node(CHOOSE k \in DOMAIN Labels : Labels[k] = line.label, line.text, kids)

RECURSIVE Read(_)
Read(lines) ==
    LET heads == SetToSortSeq({k \in 2 .. Len(lines) : lines[k].indentation = lines[1].indentation + 1}, <)
        ends == Append(Tail(heads), Len(lines) + 1)
    IN  Understood(lines[1], [k \in DOMAIN heads |-> Read(SubSeq(lines, heads[k], ends[k] - 1))])

(* What the dump of a program leaves of it: numbers are their values, those *)
(* of floats as far as they are printed, and a parameter declared with a    *)
(* type named any looks like one without type.                              *)
RECURSIVE Shown(_)
Shown(n) ==
    CASE n.kind \in {"integer", "float"} -> Node(n.kind, PrintedNumber(n), <<>>)
      [] n.kind = "parameter" /\ n.kids = <<Name(<<"any">>)>> -> Node(n.kind, n.tag, <<>>)
      [] n.kind = "null" -> Node(n.kind, <<>>, <<>>)
      [] OTHER -> [n EXCEPT !.kids = [k \in DOMAIN n.kids |-> Shown(n.kids[k])]]

(* The dump determines the program: the indentation is back where it was   *)
(* after every node, so that the lines show which node belongs to which,   *)
(* and no two kinds of node print the same, though a get and a set share a *)
(* label and optional children leave no trace.  All it does not show is    *)
(* what Shown leaves out.  This is so for programs without a line break in *)
(* a string: one with it can have the dump of another program.             *)
DumpDeterminesProgram == IsProgram /\ <<Broken>> \notin Range(Tokens) =>
    LET program == Intended(Node("program", <<>>, stmts))
    IN  Read(Dump(program)) = Shown(program)
============================================================================
