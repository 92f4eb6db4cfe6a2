----------------------------- MODULE DspSyntax -----------------------------
(***************************************************************************)
(* dsp.cppm: the expressions of a DSP program and the recursive descent    *)
(* parser.  A token is a record; tokenizing is left out, and so are the    *)
(* controls other than sliders, groups, select2 and qualified names.       *)
(***************************************************************************)
EXTENDS Integers, Sequences, SequencesExt

Wire == [k |-> "wire"]
CutExpr == [k |-> "cut"]
Num(v) == [k |-> "num", v |-> v]
BinOp(op) == [k |-> "binop", op |-> op]
UnaryOp(op) == [k |-> "unary", op |-> op]
Mem == [k |-> "mem"]
Delay == [k |-> "delay"]
Slider(label, init, lo, hi) ==
    [k |-> "slider", label |-> label, init |-> init, lo |-> lo, hi |-> hi]
Ident(name) == [k |-> "ident", name |-> name]
Call(name, arg) == [k |-> "call", name |-> name, arg |-> arg]
Bad == [k |-> "bad"]  \* the parser has thrown

\* The five combinators; one that has a bad part is bad.
Combine(k, l, r) == IF l = Bad \/ r = Bad THEN Bad ELSE [k |-> k, l |-> l, r |-> r]

Sym(t) == [t |-> t, num |-> 0]
NumTok(v) == [t |-> "num", num |-> v]
IdTok(name) == [t |-> "id", num |-> 0, name |-> name]

\* Mutant: the loops of the sequence and of the comma are swapped.
BugLevels == <<[op |-> "~", k |-> "rec"], [op |-> ":>", k |-> "merge"],
               [op |-> "<:", k |-> "split"], [op |-> ",", k |-> "par"],
               [op |-> ":", k |-> "seq"]>>

\* The loops p_tilde .. p_par, from the weakest to the strongest operator.
Levels == <<[op |-> "~", k |-> "rec"], [op |-> ":>", k |-> "merge"],
            [op |-> "<:", k |-> "split"], [op |-> ":", k |-> "seq"],
            [op |-> ",", k |-> "par"]>>

Next1(toks) == IF toks = << >> THEN "eof" ELSE Head(toks).t
Binary == {"+", "-", "/", "%", "^", "&", "|", "<<", ">>"}
NamedBinary == {"min", "max", "atan2", "remainder", "xor"}
Unary == {"sin", "cos", "abs", "floor", "int", "float", "neg"}

\* Eats the token t after what was parsed.
Expect(p, t) == IF Next1(p.rest) = t THEN [p EXCEPT !.rest = Tail(@)]
                ELSE [e |-> Bad, rest |-> << >>]

RECURSIVE Parse(_, _), ParseMore(_, _, _), ParseAtom(_)

\* One level: an operand of the next level, and then, as long as its operator
\* follows, another one.
Parse(n, toks) == IF n > Len(Levels) THEN ParseAtom(toks)
                  ELSE LET l == Parse(n + 1, toks) IN ParseMore(n, l.e, l.rest)

ParseMore(n, l, toks) ==
    IF Next1(toks) # Levels[n].op THEN [e |-> l, rest |-> toks]
    ELSE LET r == Parse(n + 1, Tail(toks))
         IN  ParseMore(n, Combine(Levels[n].k, l, r.e), r.rest)

\* The labelled controls take their numbers as they stand; the step is read and
\* kept nowhere.
ParseSlider(toks) ==
    IF \/ Len(toks) < 11 \/ toks[1].t # "(" \/ toks[11].t # ")"
       \/ \E i \in {3, 5, 7, 9} : toks[i].t # ","
    THEN [e |-> Bad, rest |-> << >>]
    ELSE [e |-> Slider(toks[2].t, toks[4].num, toks[6].num, toks[8].num),
          rest |-> SubSeq(toks, 12, Len(toks))]

\* The argument of a call takes the commas, so there is one.
ParseName(name, toks) ==
    CASE name \in Unary -> [e |-> UnaryOp(name), rest |-> toks]
      [] name = "mem" -> [e |-> Mem, rest |-> toks]
      [] name \in NamedBinary -> [e |-> BinOp(name), rest |-> toks]
      [] name \in {"hslider", "vslider"} -> ParseSlider(toks)
      [] OTHER -> IF Next1(toks) # "(" THEN [e |-> Ident(name), rest |-> toks]
                  ELSE LET arg == Expect(Parse(1, Tail(toks)), ")")
                       IN  [arg EXCEPT !.e = IF @ = Bad THEN Bad ELSE Call(name, @)]

ParseAtom(toks) ==
    LET t == Next1(toks)  rest == IF toks = << >> THEN toks ELSE Tail(toks)
        inner == Expect(Parse(1, Tail(rest)), ")")
    IN  CASE t = "num" -> [e |-> Num(Head(toks).num), rest |-> rest]
          [] t = "_" -> [e |-> Wire, rest |-> rest]
          [] t = "!" -> [e |-> CutExpr, rest |-> rest]
          [] t = "@" -> [e |-> Delay, rest |-> rest]
          [] t \in Binary -> [e |-> BinOp(t), rest |-> rest]
          [] t = "*" -> IF Next1(rest) # "(" THEN [e |-> BinOp("*"), rest |-> rest]
                        ELSE [e |-> Combine("seq", Combine("par", Wire, inner.e), BinOp("*")),
                              rest |-> inner.rest]
          [] t = "(" -> Expect(Parse(1, rest), ")")
          [] t = "id" -> ParseName(Head(toks).name, rest)
          [] OTHER -> [e |-> Bad, rest |-> << >>]

-----------------------------------------------------------------------------
(* How an expression is written: the reference the parser is compared with. *)
(* ~ binds weakest, then :>, <:, : and the comma, all to the left, and the  *)
(* product of the input with an expression has a short form.                *)

Strength == [rec |-> 1, merge |-> 2, split |-> 3, seq |-> 4, par |-> 5]
Symbol == [rec |-> "~", merge |-> ":>", split |-> "<:", seq |-> ":", par |-> ","]
Parens(toks) == <<Sym("(")>> \o toks \o <<Sym(")")>>

IsProduct(e) == e.r = BinOp("*") /\ e.l.k = "par" /\ e.l.l = Wire

RECURSIVE Written(_, _)
Written(e, n) ==
    CASE e.k = "seq" /\ IsProduct(e) -> <<Sym("*")>> \o Parens(Written(e.l.r, 1))
      [] e.k = "num" -> <<NumTok(e.v)>>
      [] e.k = "wire" -> <<Sym("_")>>
      [] e.k = "cut" -> <<Sym("!")>>
      [] e.k = "delay" -> <<Sym("@")>>
      [] e.k = "mem" -> <<IdTok("mem")>>
      [] e.k = "unary" -> <<IdTok(e.op)>>
      [] e.k = "binop" -> <<IF e.op \in NamedBinary THEN IdTok(e.op) ELSE Sym(e.op)>>
      [] e.k = "ident" -> <<IdTok(e.name)>>
      [] e.k = "call" -> <<IdTok(e.name)>> \o Parens(Written(e.arg, 1))
      [] e.k = "slider" -> <<IdTok("hslider"), Sym("("), Sym(e.label), Sym(","),
                             NumTok(e.init), Sym(","), NumTok(e.lo), Sym(","),
                             NumTok(e.hi), Sym(","), NumTok(1), Sym(")")>>
      [] OTHER -> LET s == Strength[e.k]
                      toks == Written(e.l, s) \o <<Sym(Symbol[e.k])>> \o Written(e.r, s + 1)
                  IN  IF s < n THEN Parens(toks) ELSE toks
=============================================================================
