-------------------------- MODULE MCStackCollector --------------------------
(* StackCollector for TLC: one call frame of every sort.                    *)
EXTENDS StackCollector

CONSTANTS a, b, c, d

String(text, len) == [text |-> text, len |-> len]

Call(func, text, module, class, name, file) ==
    [func |-> func, text |-> text, module |-> module, class |-> class,
     name |-> name, file |-> file, lineno |-> 7]

MCCalls == {
    Call("none", a, 0, 0, 0, String(a, 0)),         \* dummy frame
    Call("internal", a, 2, 0, 2, String(a, 0)),     \* function of an extension
    Call("internal", b, 0, 2, 1, String(a, 0)),     \* method, no extension
    Call("internal", a, 0, 0, 0, String(a, 0)),     \* nothing to show
    Call("user", c, 0, 0, 1, String(d, 3)),
    Call("user", c, 0, 2, 6, String(d, 3)),         \* name too long
    Call("user", d, 0, 0, 0, String(d, 6)),         \* a file outside functions
    Call("user", c, 0, 0, 2, String(d, 0)) }        \* evaluated code: no file
=============================================================================
