------------------------------- MODULE MCDsp -------------------------------
(***************************************************************************)
(* Small programs, each for a part of the language.  None has a name that  *)
(* means one thing where it is written and another where it is used, and   *)
(* only the last one feeds more than one signal back.                      *)
(***************************************************************************)
EXTENDS Dsp

Seq2(l, r) == Combine("seq", l, r)
Par2(l, r) == Combine("par", l, r)
Split2(l, r) == Combine("split", l, r)
Merge2(l, r) == Combine("merge", l, r)
Rec2(l, r) == Combine("rec", l, r)

Nothing == [n \in {} |-> 0]
Main(e) == [vals |-> Nothing, funcs |-> Nothing, main |-> e]
Gain == Slider("gain", 1, 0, 2)
By(n) == Seq2(Par2(Wire, Num(n)), Delay)
Function(param, body) == [param |-> param, body |-> body]

ThePrograms == [
    fixed |-> Main(By(2)),
    clamped |-> Main(By(9)),
    varying |-> Main(Split2(Wire, Delay)),
    sum |-> Main(Rec2(BinOp("+"), Wire)),
    echo |-> Main(Seq2(Rec2(BinOp("+"), By(1)), Mem)),
    difference |-> Main(Split2(Wire, Seq2(Par2(Wire, Mem), BinOp("-")))),
    gain |-> Main(Seq2(Par2(Wire, Gain), BinOp("*"))),
    mix |-> Main(Merge2(Split2(Wire, Par2(Par2(Wire, Mem), Num(1))), BinOp("-"))),
    cut |-> Main(Par2(CutExpr, Seq2(Num(1), Mem))),
    names |-> [vals |-> [two |-> Num(2), one |-> Call("minus", Seq2(Num(1), UnaryOp("neg")))],
               funcs |-> [minus |-> Function("x", Seq2(Ident("x"), UnaryOp("neg")))],
               main |-> Seq2(Par2(By(1), Seq2(Ident("two"), UnaryOp("neg"))),
                             Seq2(BinOp("max"), Rec2(BinOp("-"), Ident("one"))))],
    functions |-> [vals |-> Nothing,
                   funcs |-> [late |-> Function("x", Seq2(Ident("x"), Mem)),
                              twice |-> Function("x", Split2(Ident("x"),
                                                     Seq2(Par2(Wire, Mem), BinOp("+")))),
                              both |-> Function("y", Call("twice", Call("late", Ident("y"))))],
                   main |-> Call("both", Call("late", Wire))]]

\* Two signals are fed back, and a memory follows.
TwoFedBack == [two |-> Main(Seq2(Rec2(Par2(Wire, BinOp("+")), Par2(Wire, Wire)),
                                 Seq2(BinOp("+"), Mem)))]
=============================================================================
