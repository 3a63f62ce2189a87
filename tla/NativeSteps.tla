---------------------------- MODULE NativeSteps ----------------------------
(* The vocabulary in which the native (C) functions are described. A         *)
(* function is a set of scripts, one for each of the cases its arguments and *)
(* the state it finds make; a script is the sequence of the steps of that    *)
(* case that create, read, hand over and release objects, in the order of    *)
(* the code. A step marked fallible may fail: what its `undo' says runs,     *)
(* then the script's last part (the code after its `end:' or `cleanup:'      *)
(* label), and the function has failed. Formatting and sizes are left out.   *)
EXTENDS Naturals, SequencesExt, FiniteSets, TLC

Step(op, x, uses, to) ==
  [op |-> op, x |-> x, uses |-> uses, to |-> to, undo |-> <<>>]

\* A call or a test of the code that may fail, reading the objects `uses'.
Call(uses) == Step("call", "", uses, "")
\* A read that cannot fail.
Use(uses) == Step("use", "", uses, "")
\* The creation of an object, which may fail and then leaves a null pointer.
New(x, uses) == Step("new", x, uses, "")
\* A reference that cannot fail to be taken (a count that is incremented).
Make(x, uses) == Step("make", x, uses, "")
\* x existed before the call and belongs to o.
Had(x, o) == Step("had", x, {}, o)
\* x alone is released; releasing a null pointer does nothing.
Free(x) == Step("free", x, {}, "")
\* x is released with everything that belongs to it.
Destroy(x) == Step("destroy", x, {}, "")
\* What the secret x holds is overwritten; a null pointer has nothing to wipe.
Wipe(x) == Step("wipe", x, {}, "")
\* x belongs to o from here on (o is "caller": it is the function's result).
Give(x, o) == Step("give", x, {}, o)
\* The hand-over of x to o by a call that may fail, and then changes nothing.
TryGive(x, o) == Step("trygive", x, {}, o)
\* Nobody points to x any more.
Drop(x) == Step("drop", x, {}, "")

\* The step s with the clean-up the code does when it fails.
Else(s, undo) == [s EXCEPT !.undo = undo]

Script(body, last) == [body |-> body, last |-> last]
Straight(body) == Script(body, <<>>)
One(body) == {Straight(body)}

\* A part of a script that a condition leaves out.
Maybe(part) == {<<>>, part}

\* The parts P(1) \o ... \o P(k), k at most n: a loop of the code.
Loop(P(_), n) == {<<>>} \cup {P(1)} \cup (IF n > 1 THEN {P(1) \o P(2)} ELSE {})

\* The case in which a test of the code fails for sure.
Stop == Step("stop", "", {}, "")

\* Two creations tried one after the other, and only then looked at.
Both(x, y, uses, undo) ==
  { <<Else(New(x, uses), undo), Else(New(y, uses), undo)>>, <<Make(y, uses), Else(Stop, undo)>> }

Frees(xs) == [i \in DOMAIN xs |-> Free(xs[i])]

\* The objects xs are all tried, then looked at together: `made' are those that
\* could be created.
Attempt(xs, made, uses) ==
  [i \in 1 .. Cardinality(made) |-> Make(SelectSeq(xs, LAMBDA x : x \in made)[i], uses)]
  \o (IF made = Range(xs) THEN <<>> ELSE <<Stop>>)

Fallible == {"call", "new", "trygive", "stop"}
=============================================================================
