# SelScript in TLA+

TLA+ models of the SelScript interpreter (`src/`), the TLC runs that check them
on small instances, and theorems about them that TLAPS checks for every
instance.  Line numbers refer to the sources next to this directory.

## 1. The system

SelScript is a small object-oriented scripting language, embedded in a host
program or run by `sscript --run` (`main.cpp`).  Everything runs on one thread;
what makes the code hard is not concurrency but the *shape of control*: scripts
return through C++ exceptions, scopes are switched and restored by hand, scopes
and closures are kept alive by reference counts, and a failed script leaves the
interpreter as it was when the exception passed.

| component | state | operations | interacts with |
|---|---|---|---|
| interpreter visitor (`interpreter/interpreter_visitor.*`) | `m_values` (operand stack), `m_symbolTable` (current scope), `m_globals`, `m_lastValue`, and the C++ stack of `Visit` activations | one `Visit` per AST node, `EnterBlock`/`ExitBlock`, `EnterFunction`/`ExitFunction`, `PushValue`/`PopValue` | creates tables, functions, classes, instances; is called back by `Callable::Call` |
| symbol tables (`interpreter/symbol_table.*`) | the symbols of a scope, a **weak** link to the parent scope | `Declare`, `Assign`, `Get`, `SetParent` | held by the visitor, by closures, by instances and by the embedder |
| functions, classes, instances (`value/function.*`, `class_value.*`, `instance_value.*`) | closure (strong), bound instance (strong), method table, fields | `Call`, `getConstructor`, `Bind`, `GetMember` | `Call` re-enters the visitor; `Class::Call` nests a second call in the first |
| `Interpreter` (`interpreter/interpreter.cpp`) | the visitor, the stack of external symbol tables | `Interpret`, `PushExternalSymbols`, `PopExternalSymbols` | the embedder calls it, and keeps `shared_ptr`s to its own tables |
| builtins and binding (`value/builtin_function.h`, `builtin_functions.cpp`, `binding/*`) | none | `print`, `type`, `time`; conversion of arguments | called like functions, return by throwing |
| builtin classes (`value/builtin_class.h`, `builtin_instance.h`) | C++ members of registered classes | templates; nothing in the repository instantiates them | |
| primitive values (`value/integer_value.*`, ...) | immutable values | operators, double dispatch, truth | called by the visitor's operator nodes |
| parser (`parser/grammar.h`, `grammar_helpers.cpp`) | none | ordered-choice grammar, builds the AST, rewrites `for` to blocks and a loop | feeds the visitor |
| AST and printer (`intermediate/*`) | the tree; the printer's `m_indentation` | accessors, one `Visit` per node that prints a line | `sscript --dump-ast` |

What must hold, component by component:

* **Operands.** Every node that is an expression leaves exactly one value on
  `m_values`, every statement none, whatever happens inside (returns that unwind
  several activations included).  `PopValue` has no notion of whose value it pops.
* **Scopes.** After a block, a call, a constructor or an anonymous method the
  enclosing activation continues in the table it was in; scoping is static; the
  scope above running code exists.
* **Lookup.** A name that is declared in the globals is found; an error message
  that says a name is not declared is right; a lookup terminates.
* **Objects.** A method sees its instance as `this`, and the globals; reference
  counts destroy what nothing reaches, except the knots that a script ties.
* **Arguments.** `Function::Call` and `call_function` read `m_parameterNames[i]` and
  `args[i]` without a test, so the arity tested before must be enough; a body runs
  with arguments that the comparison of `m_type` accepts, and only others are refused.
* **Embedding.** Tables pushed are visible until they are popped and not after;
  a script that failed does not harm the next one.
* **Parser.** The ordered choices give every program the tree the comments of the
  grammar promise, however it is laid out; a text cut short is no program.
* **Printer.** Indentation is all a dump has to show which node belongs to which:
  every handler must leave it as it found it.
* **Values.** What an operator yields is a value of its type; comparisons do not
  contradict each other although two numbers may be compared as `int` or as
  `float`; `!`, `and`, `or` and the truth of a value agree.

The hazards are listed, each at its line, in `PROJECT.json`.

## 2. Modules

| module | what it is |
|---|---|
| `CallDiscipline` | abstract specification: what a call may do to the operands and the scope of its caller |
| `InterpreterVisitor` | the interpreter visitor, symbol tables, functions, classes, instances, reference counts, and `Interpret` |
| `MCInterpreterVisitor` | its instances for TLC |
| `InterpreterVisitor_proofs` | its theorems on types, operands and scopes |
| `ScopeLifetimes_proofs` | its theorems on what reference counts keep alive |
| `CallDiscipline_proofs` | the proof that it implements `CallDiscipline` |
| `NameLookup_proofs` | its theorems on what a lookup finds |
| `TypedCalls` | a call parameter by parameter: declared types, and the C++ types of host functions |
| `MCTypedCalls` | its instance for TLC |
| `TypedCalls_proofs` | its theorems |
| `ScopeStack` | abstract specification: what pushing and popping external symbols promises |
| `ExternalSymbols` | `PushExternalSymbols`, `PopExternalSymbols`, the chain of weak links, `findSymbol` step by step |
| `MCExternalSymbols` | its instances for TLC |
| `ExternalSymbols_proofs` | its theorems, and the proof that it implements `ScopeStack` |
| `Grammar` | the rules of `grammar.h` and the tree builders, as operators of a text and a position |
| `ProgramTexts` | every program tree of bounded size, how it is written, and what `Parse` makes of it |
| `Values` | the operators of every class of value, and their dispatch |
| `Values_proofs` | theorems about them |
| `NumberLiterals` | the number a literal stands for |
| `Evaluation` | the values that expressions of any size have, and the laws of these values |
| `MCEvaluation` | its instance for TLC |
| `Evaluation_proofs` | its theorems |
| `AstPrinter` | the dump of a tree, and what can be read back from it |
| `MCProgramTexts` | instances of `ProgramTexts` and `AstPrinter` for TLC |

### InterpreterVisitor

The script is not a parameter.  `frames` is the C++ stack of activations; an
activation whose node has not been chosen is a *hole* (`"Expr"`, `"Statement"`,
`"Declaration"`, after the grammar's rules), and the action of a node fills it.
A behaviour is thus a script together with its execution, and TLC explores every
script over a set of node kinds up to a nesting bound.  The correspondence:

| model | code |
|---|---|
| `frames[i].op` | the handler and the point it has reached: `"BinRhs"`, `"BinLhs"` are an operator whose right or left child is being visited, `"Body"` is a `Call` inside `callee->Call`, `"Ctor"` is `Class::Call` |
| `frames[i].prev` | the local `prevSymbolTable` |
| `frames[i].locals` | the `shared_ptr` locals a handler holds: callee and arguments, instance and bound method |
| `frames[i].at`, `base`, `scope` | auxiliary: `m_symbolTable` and `m_values.size()` when the activation began, and the scope its children run in.  No action tests them |
| `values`, `last`, `cur` | `m_values`, `m_lastValue`, `m_symbolTable` |
| `heap` | every table, function, class and instance, with its strong and weak references |
| `status`, `thrown` | a `BaseValuePtr` in flight (a return), an idle or a crashed interpreter |
| `failure` | the `std::exception` that left the last `Interpret` |

Each action is one step of a handler between two visits of children, with every
change it makes, and ends in `Retain`: the cells whose reference count fell to
zero are destroyed, and weak parents of destroyed tables become `None`.  A cell
goes only when nothing rooted and no surviving cell holds it, so cycles of strong
references stay: `Unrooted` are the candidates, `HeldBy` who holds each of them,
`Surviving` the largest set in which every member is held.  `FindSymbol` is the smallest set of
tables a lookup passes, so that a chain of weak links needs no recursion.  `Throw`, `Unwind`, `Catch` and `Escape` are the
four things a return does: it destroys the throwing activation, destroys the
activations in between without their `ExitBlock`, is caught by `Visit(Call)` or
`Visit(AnonymousMethod)`, or leaves `Interpret`.  `Raise` is a `std::exception`,
which nothing handles: the frames go, `m_symbolTable` and `m_values` stay as they
are.  `Crash` is a null pointer dereferenced (a callee that is not callable, a
receiver that is not an instance, the copy of a builtin that has no body) or an
`Integer` divided by zero.  `BadAlloc` is the heap bound made honest:
`make_shared` may throw.

Data is abstracted to what the properties tell apart.  `Plain` stands for all
numbers, strings, booleans, `null` and type objects; a condition on it goes
either way or fails (a type object has no truth value); a binary operator on it
gives `Plain` or fails.  The comparison of a parameter's declared type is a
choice that may fail after any number of parameters has been declared, and so may
the lookup of the type, whose report then names one that is not found from the
table of the call (`UnknownTypes`); `TypedCalls` says which choice.

### CallDiscipline

The abstract specification knows calls by their depth, and of each the scope and the
operands it set aside.  `Enter`, `Work`, `Leave` and `Abort` are all that can happen:
a call takes operands off its caller and adds exactly one, the caller's scope comes
back, and what was set aside is out of reach in between.  In the refinement
mapping a call is a frame that is inside a callee, an anonymous method or a
constructor, and its depth is its place on the C++ stack.

### TypedCalls

`InterpreterVisitor` cannot say whether an argument has the declared type, since it
has one value for all that is neither callable nor an instance.  Here a value is
known by its class of values (`Data`), or is a class, an instance or a `TypeInfo`.
The variable `call` is one running call: `CheckParameter` is one iteration of the loop
of `Function::Call` (look the type up, compare it with the argument, declare the
parameter), `ConvertArgument` one `argument_value<T>` of `call_function`, `Run` the
body, `Return` and `Abandon` the ways out.  Lookups of types start in the table of the
call, so a parameter may hide the type of a later one.  Between calls the script
declares variables and classes; a class may be declared anew, and then another
class has its name.

Functions are those of scripts, those the host registers, `print`, `type` and
`time`, and, as soon as there is an instance to put them into, the copies that
`Instance::Bind` makes of the latter: a plain `Function` with the arity of the
original, no parameters and no body.

`early` is a choice made once: `TypeInfo`s are static objects of several translation
units, each takes `TypeInfo::typeInfo` as its own type when it is built, and those
built before it have a null type.  The order belongs to the build, so every set of
early ones is a start.  Calls do not nest (checking a parameter runs no script) and
functions are declared at the top level: closures are `InterpreterVisitor`'s matter.

### ExternalSymbols

`stack`, `held`, `parent` and `symbols` are `m_externalSymbols`, the embedder's
own `shared_ptr`s, every table's `m_parentScope`, and the declarations; `seek`
and `at` are a running `findSymbol`.  A table is destroyed when neither the stack
nor the embedder holds it, and links to it expire.  Assumed of the embedder:
it creates its tables without a parent and does not call `SetParent` itself, and
calls nothing while a lookup is running (there is one thread).  `Repeats` says
whether it may push a table that is already on the stack.

### Grammar and ProgramTexts

`Grammar` has one operator per rule, in the order and with the alternatives of
`grammar.h`.  A rule applied at a position gives the position where it ended and
the tree it built, or `Fail` (an alternative is undone and the next one tried), or
`Throw` (an expectation point `>` failed: the whole parse ends).  Spirit is modelled
from how the rules use it: literals match letters whatever follows them, the
skipper runs before every terminal outside a `lexeme`, `kw` looks at the next
character, `int_` and `float_` take a sign, `float_` takes `inf` and `nan`, and an
action attached to a sequence is given the parts of the sequence one by one.

A text is a sequence of chunks, not of characters: a run of letters that some rule
looks for (`var`, `or`, `inf`), a run that none looks for (`x`), a digit, a string
literal, a space, one punctuation character.  So `var_i` is `var` followed by `_i`,
which is all a rule can see of it.

`ProgramTexts` is a state machine that builds every program tree from a *palette*
(some names, literals, operators and kinds of node), one node per step, by the
builders of `grammar_helpers.cpp`.  A finished tree is written as a text by a
second definition, taken from the comments above the rules (precedence,
associativity, where an `else` belongs), and `Parse` must give the tree back.

### Values and Evaluation

An `Integer` is `MinInt .. MaxInt` and wraps; a `Float` is a member of a set
`Floats` of multiples of `1/Unit` with `Top` for infinity, plus `NaN`, and every
operation rounds to a nearest member.  `Accepts` is the table of operators: one
definition per class says for which right operands it does not throw.
`Undefined`, `Crash` (division that stops the process) and `Endless` (a string
repeated a negative number of times) are the ways to have no value.
`Evaluation` is a state machine that builds expressions as `ProgramTexts` builds
trees and keeps of each only its value, because no operator can tell two
expressions with one value apart.  An action is the handler of a node applied to
the values of its operands: the right operand of an arithmetic operator or a
comparison is evaluated first, and what stops it stops all; the left operand alone
decides `and` or `or` when it can.  `Leaves` are the values of literals and of
names, so functions and type objects occur as operands, too.  Nothing but
the length of strings bounds the size of an expression.

### AstPrinter

`Visit` is the printer: a line with the present indentation, then the children one
step further in.  A line keeps its label and its text apart.  `Read` is the
other direction and uses nothing but indentation and labels; `Shown` is what a dump
leaves of a tree.  The digits of a number are lost: its value is printed, and that
of a float as the nearest of the floats `Printable`, for which six significant
digits suffice (one, in the run).  A parameter of a type named `any` looks like one
without a type.  A string is printed as it is: `Broken` is one whose text, after a line
break, looks like the line of an identifier (`Printed`), so a program with it may
have the dump of another, and `DumpDeterminesProgram` leaves it out.  Without
that condition, or with exact floats in `Shown`, TLC finds the property violated.

## 3. Runs

| run | what it asks | bounds |
|---|---|---|
| `calls` | functions, nested calls, blocks, returns, operators, and an embedder that interprets again after a failure | 3 heap cells, 6 activations: a call inside a call inside an operand; at most 1 stale operand when a script starts |
| `control` | loops, conditions, logic operators, assignments, returns at top level | 3 cells, 7 activations |
| `objects` | classes, constructors, methods stored in fields or variables and called, a builtin stored in a field; is `this` the instance, and what do reference counts fail to destroy? | 5 cells: the class, the instance, the bound constructor and both call tables of one construction |
| `methods` | constructors with arguments, anonymous methods, returns inside both, arguments refused; is `this` the instance? | 5 cells, 6 activations, one argument |
| `expired_closure` (violation) | is a name reported as undeclared really undeclared? | 4 cells |
| `stale_scope` (violation) | the same after a failed script | 3 cells |
| `no_constructor` (violation) | the same of a class that is called | 3 cells |
| `external_symbols` | pushing, popping, releasing, looking up; refinement of `ScopeStack`; lookups only climb, and end | 3 tables, so that a table in the middle of the stack exists; 1 name suffices because names do not interact |
| `typed_calls` | which calls end the process; which arguments are accepted, which refused? | 2 names, 2 classes at a time (one can be replaced while its instances live), at most 2 arguments (the second type may be hidden by the first parameter), every order of static initialization of 3 classes of values |
| `programs` | trees read back from their text in two layouts, no prefix of a statement is a program, a dump determines its program | nine palettes of 3 to 6 nodes, at most 3 expressions and 3 statements side by side |
| `evaluation` | results have their type, `<` and `<=` have no cycle, `or` is the dual of `and` | expressions of any size, 3 side by side (a cycle needs three); a 4-bit `int`, a `float` of 2 significant bits between 0.5 and 8; strings of one part |
| `identifiers` (violation) | are the identifiers the tests list read as themselves? | the names of the test |

The palettes of `programs` each hold one family: operators of every level and
those that begin with the same character, calls and members, anonymous methods,
control flow with dangling `else`, `for` loops with and without their parts,
declarations, names that begin with the letters of a rule, and the nodes that print
alike (a get and a set, an untyped parameter and one of type `any`; an int and two
floats that have the same digits, a string with a line break).  Six nodes are
an `if` with an `else` inside an `if`; the rules that interact do so within two
levels.  In `evaluation` every `int` of 4 bits and every float is the value of some
expression; sums and products of two literals already wrap, and with 2 significant
bits 5 and 7 are no floats, so mixed comparisons round.  `programs` may stop when a tree cannot grow any
further, hence `CHECK_DEADLOCK FALSE` in it and in `identifiers`.

The bounds of the interpreter runs are on *nesting*, not on length: loops,
statement lists and sequences of scripts are unbounded, so every run covers
infinitely many scripts.  A property can only be broken by activations that
interact: the one that changes a scope or an operand and the one it belongs to,
at most one activation apart plus what a return unwinds between them, and this is
reached with room to spare (every action and every disjunct fires in some run).

In these runs `CHECK_DEADLOCK` stays on: a crashed or idle interpreter may `Quit`.

Four runs end in a violation; the state TLC finds is what the code does:

* `expired_closure`: a function declared in a table below another one and called
  after the table in between is gone (the closure is held by the function, its parent by
  nobody) looks no further than its closure, so `print` "is referenced before declaration".
* `stale_scope`: a script that fails inside two nested blocks leaves the inner
  one as the current table; the outer one is destroyed; the next script sees no
  globals.
* `no_constructor`: calling a class without a constructor reports the class.
* `identifiers`: of the names listed in `test/unit_tests/grammar.cpp`, `a123` is
  read as `a`, because the action of `identifier` gets only the first part of
  its sequence, and `var_i;` declares `_i`, because `var_decl` matches the letters
  `var` and `kw_var` is never used.  The other names are read as themselves.

The other exceptions are part of the run `programs` instead.  Its palettes have no names
that the grammar is known not to read back:

* names with a digit, and names that begin with `var`, as in `identifiers`;
* names that begin with `inf` or `nan`: a number is tried before an identifier, and
  `float_` takes these letters whatever follows (`grammar.h:208`);
* names that begin with `else`: as the first word after an `if` statement they become
  its `else` branch (`grammar.h:121`).

And `Dense`, the layout without spaces, leaves a space
between a sign and the number on its right when a number stands on its left:
`1+1` is read as `1.0 + 1` by `Integer = int_ >> !float_`.  Those of
`DumpDeterminesProgram` are told in the section on `AstPrinter`.

`typed_calls` checks what the code does with types, which is less than one may expect
of them.  All type objects have the same `m_type`, so `function.cpp:47` accepts any of them
for a parameter whose type is a type object: `Float` itself for `x:Integer`.  A value that is no type
object stands for a type, too: its own, so that an instance passes for a parameter whose
type names another instance of its class.  `OfType` says exactly this, and no document
of the repository says otherwise.  A call of a copy that `Instance::Bind` made of a
function of the host always ends the process (`OnlyNullsAndCopiesCrash`).

### Fairness

`ProgramTexts` states no liveness: it only enumerates.  The interpreter modules
state none either: a script may loop or recurse for
ever, so nothing in the code promises an end.  `ExternalSymbols` assumes weak
fairness of `FindSymbol` alone: it is one C++ call, which runs until it returns
or throws.  Nothing is assumed of the embedder.

## 4. Proofs

`InterpreterVisitor_proofs` shows, for every finite heap, every set of names,
signatures and class bodies and every bound, and for embedders that go on after a
failure as well as for those that do not (assumed is only that the heap is finite, that the
values which stand for "none", data and builtins are distinct from one another and from
addresses, names and signatures, and that signatures and class bodies are made of names):

* `TypeCorrect`: `Spec => []TypeOK`;
* `OperandsBalanced`: `Spec => []ValuesBalanced`;
* `ScopesAreRestored`: `Spec => []ScopesRestored`.

None of the three is inductive alone.  The invariant `IInv` has three parts:
`DataOK` (types of the heap, the operands and the value in flight), `ControlOK`
(which `status` goes with which frames) and `StackOK`, a statement about the
frames, the *number* of operands, the current table and the status, which ties
each frame to the next one: where it began, how many operands wait below it, which
operation may stand above which.  `StackOK` is what makes the operand count
provable: a handler may pop because the frame below says how many values it left,
and a return may unwind because only frames that hold no operand (`Holders`) can
lie between a `return` and the call that catches it.  The proof has one lemma per
way a handler ends a step (`Finish`, `Become`, `Visit`, `Throw`, `Raise`,
`Crash`), which the lemmas for the actions cite.

`ExternalSymbols_proofs` shows, for any tables, names and depth:

* `LookupsStayAlive`: `Spec => []TypeOK`: `findSymbol` never runs on a null or a
  destroyed table, whatever is pushed;
* `PoppedStaysInvisible`: `Spec => []PoppedIsInvisible`: no link survives the pop
  of its target, also when tables are pushed while they are on the stack
  (`Repeats`), which the run leaves out.  It carries the first theorem: links
  only join neighbours of the stack, and the stack keeps its tables alive;
* `ChainImplementsStack`: `~ Repeats /\ Spec => ImplementsScopeStack`.  The
  invariant says that the tables of the stack are distinct, that their links are
  the order of the stack, and that a running lookup has only passed tables that
  do not declare its name; each step is then a step of `ScopeStack` or a stutter;
* `LookupsOnlyClimb`: `~ Repeats /\ Spec => LookupsClimb`, from the same invariant:
  each activation of `findSymbol` hands over to a table further up the stack.  It is
  the safety half of `LookupEnds`: a lookup makes at most one step for each
  table of the stack and one for the globals.

`Values_proofs` shows, for every width of `int` and every set of floats that is
closed under negation and has zero, one and the infinities (that every fraction then
has a nearest float is a lemma, from the least of a set of distances):

* `MixedOrderHasNoCycle`: no three values satisfy `a < b`, `b < c` and `c <= a`,
  although pairs of Integers are compared exactly and mixed pairs after rounding.
  Rounding is monotone (`RoundIsMonotone`: were the smaller of two numbers rounded
  to the larger float, each would be nearer to the float of the other), so
  every `<` of a cycle is a `<=` of floats; then all are equal as floats, which
  leaves only Integers, and those are compared exactly.
* `OperatorsYieldTheirTypes`: every operator on values of their types yields a value of
  its type or none: `int` arithmetic wraps, the quotient of two `int`s is one but for
  `MinInt / -1`, which stops the process like a division by zero, and `float` arithmetic
  rounds to a float, infinities and `NaN` included.

`Evaluation_proofs` carries the laws from single operators to expressions of any size,
for all values of literals and names: `ExpressionsHaveTheirType`
(`Spec => []ResultsHaveTheirType`, which is inductive once `values` is known to be a
sequence), `ExpressionsAreOrdered` (`Spec => []OrderHasNoCycle`, from it and
`MixedOrderHasNoCycle`) and `LogicIsAlwaysDual` (`Spec => []LogicIsDual`, for any two
operands: whatever type has a truth has the opposite `!`, and what has none fails
in both).

`ScopeLifetimes_proofs` adds to `IInv` who holds what, for the same instances:

* `ScopesAreIntact`: `Spec => []ScopesIntact`;
* `NothingElseIsLeaked`: `Spec => []OnlyKnotsLeak`.

Tables refer to their parents weakly, so the first rests on `LInv`: what is strongly held by
a cell, a frame or an operand is not free; the table that a frame runs in is
`m_symbolTable` or the `prevSymbolTable` of a later frame, and the table above it is
held by the locals of the frame that entered it (the callee, the instance).  While
a return unwinds, `m_symbolTable` stays where it was thrown and only what is below the
call that catches it has to be alive.  A bound method holds the table with
`this`, which has the globals for parent.

`LInv` also says of what kind the cells are that refer to each other (`Kinds`): names
are given functions, classes and instances, never tables; what is bound is an
instance; an instance holds its class; only a bound copy may be without a body, and
only if the script has builtins.  And it says that whatever is still there is a root or is
held (`NothingUnheld`), which is what the fixed point in `Retain` leaves.
`NothingElseIsLeaked` follows without a look at the history.  Take objects that only hold
each other.  What could hold a table is a function or class declared in it, what could
hold a function is a table, an instance is held by a function bound to it, a class by its
instances.  Without nested declarations there is no table among the objects, hence no
function, hence no instance, hence no class.  The two exceptions are necessary: without either,
TLC finds such a knot in the run `objects` (a class declared in a call, an instance
assigned to its own field).  A nested function and its table
hold each other for ever (`interpreter_visitor.cpp:506`); the theorem says that a
constructor, whose instance, bound copy and tables refer to each other in several ways,
ties no such knot.

`CallDiscipline_proofs` shows `CallsKeepTheDiscipline`: `Spec => KeepsCallDiscipline`.
The invariant `CInv` adds that the bases of the frames grow along the stack.  A handler
keeps the operands below its base (`Keeps`), so what any call below it has set aside
is untouched; there is one lemma per action, which names the abstract step
(`Enter`, `Work`, `Leave`, `Abort`) or a stutter.

`NameLookup_proofs` says what a lookup can miss.  Tables refer to their parents
weakly, so a chain may end anywhere; the question is where the chain above each
activation ends.

* `GlobalsStaySeen`: `Spec => []GlobalsAreSeen`.  An activation runs in the table of the
  nearest *outset* below it (the script, a call, a constructor, an anonymous method)
  or below that table, and every table on the way is held by `prevSymbolTable` of a
  block.  So it sees the globals unless the outset stands in a closure (`InClosure`): the
  call of a function that was declared in a nested scope, or a script that starts where
  a failed one stopped.  These two are the findings `expired_closure` and
  `stale_scope`; the theorem says that there is no third.
* `MethodsFindTheirInstance`: `Spec => []MethodsSeeTheirInstance`: an activation of a bound
  method, a constructor or an anonymous method runs in the table of that call or below it,
  that table hangs below what `Bind` made, and this still holds the instance.  The
  names a script may declare are left free: the theorem speaks of scripts that do not
  declare `this` in a table, and says where `this` is found even if they assign to it.
* `ReportsAreRight`: if the embedder interprets nothing after a failure, then
  `Spec /\ []FunctionsOfGlobals => []ReportedNamesAreUndeclared`; `FunctionsOfGlobals`
  says that the functions that exist, bound methods apart, were declared in the
  globals.  `expired_closure` shows why it is needed.
* `ReportsOfMethodsAreRight`: without named functions the reports are right
  outright, whatever methods, constructors and anonymous methods do, as in the runs
  `control` and `objects`.

A lookup is not followed step by step: `FindSymbol` is the intersection of all sets of
tables that are closed under parents, so a set that shows where it ends is enough.
`NInv` adds to `IInv` and `LInv` which cells are closures, those of bound functions
with `this` (`ClosuresOK`), that what is called is a function or a class and how a class
and its constructor stand to each other (`CallsOK`), and where a script starts (`StartsOK`).  All three are proved of
*moves* rather than of actions: one lemma per action says which `HeapMoves` and
`FrameMoves` it makes, and the invariants are shown to survive each kind of move.

`TypedCalls_proofs` shows, for all sorts of values, signatures and host types and
every order of static initialization, `Invariant` and from it `TypeCorrect`,
`CrashesHaveReasons`, `BodiesGetTheirTypes`, `NoNullTypeIsAccepted` and
`NoFalseMismatch`, one for each property of the run.  The invariant says that the arity
fits the arguments, that the parameters before `next` are declared and were checked
against a type in the globals, unless an earlier parameter has the name of the
type, and that a crash has its reason.  The lemma `MismatchDecides` is the core: the comparison
of `function.cpp:47` accepts an argument exactly when it is `OfType`, in every build.

Only model-checked:

* `LookupEnds`, which is liveness; its safety half is `LookupsOnlyClimb`;
* `TypeOK`, `ReadsBack`, `LayoutDoesNotMatter`, `CutShortIsNoProgram` and
  `DumpDeterminesProgram` of the run `programs`: `Parse`, `Written`, `Visit` and `Read`
  are recursive over texts and trees, and what they compute for every input needs an
  induction over these;
* that retries and nested functions break `ReportedNamesAreUndeclared`, and the
  other violations, of which TLC shows an instance.

## 5. Not modelled, and the plan

Not modelled: builtin classes, which are templates for classes of an embedder that no
code in the repository instantiates, so no running program has their state;
`DumpSymbols`, `ToString` (text), the values of `print` and `time`, the options and the
file reading of `main`, the exhaustion of the C++ stack by deep recursion.  Of the parser: exponents, integer literals
that do not fit an `int`, the characters of string literals but for a line break, the
error message.
Of the values: the sign of zero, and strings that are equal though joined from
different parts.

The plan, in order:

1. *Interpreter core* (done): `InterpreterVisitor`, `CallDiscipline`, proofs of
   types, operands and scopes.
2. *Embedding* (done): `ExternalSymbols`, `ScopeStack`, proof of the refinement.
3. *Grammar* (done): `Grammar`, `ProgramTexts`.
4. *Values* (done): `Values`, `Evaluation`, proofs that mixed comparisons have no
   cycle, that every operator and every expression yields a value of its type, and
   that `or` is the dual of `and`.
5. *Parameters and binding* (done): `TypedCalls` and its proofs.
6. *Proofs about scopes and calls* (done): `ScopeLifetimes_proofs` with what is leaked,
   `CallDiscipline_proofs`, `NameLookup_proofs`.
7. *Printer* (done): `AstPrinter`.
