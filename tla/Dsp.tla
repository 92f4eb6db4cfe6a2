-------------------------------- MODULE Dsp --------------------------------
(***************************************************************************)
(* dsp.cppm: a program is parsed, evaluated to a graph of signal nodes and *)
(* run sample by sample.  Nodes with a memory own it through an id; ids    *)
(* are never given twice, and the state outlives the graph.  Samples are   *)
(* integers here.                                                          *)
(***************************************************************************)
EXTENDS DspSyntax

CONSTANTS Programs,  \* the programs: name -> [vals, funcs, main]
          Samples,   \* what an input sample may be
          Settings,  \* what a control may be set to
          MaxDelay,  \* 192000: the length of a delay line
          MaxLoads, MaxTime  \* bounds: programs loaded, samples per program

VARIABLES leftFirst, \* the operand of a combinator that the build evaluates first
          program,  \* the program that runs, "none" before the first
          loads, nextId,
          graph,    \* the Signal
          state,    \* State: delay lines with their positions, feedback
          params,   \* State.params
          taken, given  \* the samples since the load: inputs with the controls, outputs

vars == <<leftFirst, program, loads, nextId, graph, state, params, taken, given>>

Clamp(v, lo, hi) == IF v < lo THEN lo ELSE IF v > hi THEN hi ELSE v
Silence(n) == [i \in 1 .. n |-> 0]
At(s, i) == IF i <= Len(s) THEN s[i] ELSE 0

Apply2(op, a, b) == CASE op = "+" -> a + b [] op = "-" -> a - b [] op = "*" -> a * b
                      [] op = "min" -> (IF b < a THEN b ELSE a)
                      [] op = "max" -> (IF b > a THEN b ELSE a)
Apply1(op, a) == CASE op = "neg" -> -a [] op = "int" -> a

-----------------------------------------------------------------------------
(* Names.  A scope has values and functions of one parameter; the          *)
(* innermost scope comes first.                                            *)

Defines(env, kind, name) == {i \in 1 .. Len(env) : name \in DOMAIN env[i][kind]}
Lookup(env, kind, name) ==
    env[CHOOSE i \in Defines(env, kind, name) :
            \A j \in Defines(env, kind, name) : i <= j][kind][name]
Scope(name, v) == [vals |-> [n \in {name} |-> v], funcs |-> [n \in {} |-> 0]]

\* Constant folding: the value in a set, which is empty when there is none.
RECURSIVE Constants(_, _)
Constants(e, env) ==
    CASE e.k = "num" -> {e.v}
      [] e.k = "ident" -> IF Defines(env, "vals", e.name) = {} THEN {}
                          ELSE Constants(Lookup(env, "vals", e.name), env)
      [] e.k = "seq" -> IF e.r.k # "unary" THEN {}
                        ELSE {Apply1(e.r.op, v) : v \in Constants(e.l, env)}
      [] e.k = "call" ->
            IF Defines(env, "funcs", e.name) = {} THEN {}
            ELSE LET f == Lookup(env, "funcs", e.name)
                 IN  UNION {Constants(f.body, <<Scope(f.param, Num(v))>> \o env) :
                               v \in Constants(e.arg, env)}
      [] OTHER -> {}

-----------------------------------------------------------------------------
(* eval: an expression becomes a node; n is the next id.  The arguments of *)
(* mk_seq and the others are evaluated in the compiler's order, and a      *)
(* recursion takes its id after its operands.                              *)

Combinators == {"seq", "par", "split", "merge", "rec"}
Made(node, next) == [node |-> node, next |-> next]

RECURSIVE Eval(_, _, _)
Eval(e, env, n) ==
    CASE Constants(e, env) # {} ->
            Made(Num(CHOOSE v \in Constants(e, env) : TRUE), n)
      [] e.k \in {"mem", "delay"} -> Made([k |-> e.k, id |-> n], n + 1)
      [] e.k \in {"wire", "cut", "binop", "unary", "slider"} -> Made(e, n)
      [] e.k \in Combinators ->
            LET first == Eval(IF leftFirst THEN e.l ELSE e.r, env, n)
                second == Eval(IF leftFirst THEN e.r ELSE e.l, env, first.next)
                node == [k |-> e.k, l |-> IF leftFirst THEN first.node ELSE second.node,
                         r |-> IF leftFirst THEN second.node ELSE first.node]
            IN  IF e.k # "rec" THEN Made(node, second.next)
                ELSE Made([k |-> "rec", l |-> node.l, r |-> node.r, id |-> second.next],
                          second.next + 1)
      \* A value is evaluated in the scope where its name is used; an unknown
      \* name is a wire.
      [] e.k = "ident" -> IF Defines(env, "vals", e.name) = {} THEN Made(Wire, n)
                          ELSE Eval(Lookup(env, "vals", e.name), env, n)
      \* The argument is bound unevaluated.
      [] e.k = "call" ->
            IF Defines(env, "funcs", e.name) = {} THEN Made(Wire, n)
            ELSE LET f == Lookup(env, "funcs", e.name)
                 IN  Eval(f.body, <<Scope(f.param, e.arg)>> \o env, n)

RECURSIVE Ins(_), Outs(_)
Outs(g) == CASE g.k = "cut" -> 0
             [] g.k = "par" -> Outs(g.l) + Outs(g.r)
             [] g.k \in {"seq", "split", "merge"} -> Outs(g.r)
             [] g.k = "rec" -> Outs(g.l)
             [] OTHER -> 1
Ins(g) == CASE g.k \in {"num", "slider"} -> 0
            [] g.k \in {"binop", "delay"} -> 2
            [] g.k = "par" -> Ins(g.l) + Ins(g.r)
            [] g.k \in {"seq", "split", "merge"} -> Ins(g.l)
            [] g.k = "rec" -> LET own == Ins(g.l) - Outs(g.r) IN IF own < 0 THEN 0 ELSE own
            [] OTHER -> 1

-----------------------------------------------------------------------------
(* State and tick.                                                         *)

NoState == [delays |-> [id \in {} |-> << >>], pos |-> [id \in {} |-> 0],
            feedback |-> [id \in {} |-> 0]]
Put(f, id, v) == [i \in DOMAIN f \cup {id} |-> IF i = id THEN v ELSE f[i]]
FbGet(st, id) == IF id \in DOMAIN st.feedback THEN st.feedback[id] ELSE 0
FbSet(st, id, v) == [st EXCEPT !.feedback = Put(@, id, v)]

\* delay_write_read: a ring that is written before it is read.
DelayLine(st, id) == IF id \in DOMAIN st.delays THEN st.delays[id] ELSE Silence(MaxDelay)
WritePos(st, id) == IF id \in DOMAIN st.pos THEN st.pos[id] ELSE 0
\* Mutant: reads before it writes.
BugDelayWriteRead(st, id, x, d) ==
    LET wp == WritePos(st, id)
        old == DelayLine(st, id)
        rp == (wp - Clamp(d, 0, MaxDelay - 1) + MaxDelay) % MaxDelay
    IN  [out |-> <<old[rp + 1]>>,
         st |-> [st EXCEPT !.delays = Put(@, id, [old EXCEPT ![wp + 1] = x]),
                           !.pos = Put(@, id, (wp + 1) % MaxDelay)]]

DelayWriteRead(st, id, x, d) ==
    LET wp == WritePos(st, id)
        buf == [DelayLine(st, id) EXCEPT ![wp + 1] = x]
        rp == (wp - Clamp(d, 0, MaxDelay - 1) + MaxDelay) % MaxDelay
    IN  [out |-> <<buf[rp + 1]>>,
         st |-> [st EXCEPT !.delays = Put(@, id, buf),
                           !.pos = Put(@, id, (wp + 1) % MaxDelay)]]

Ticked(out, st) == [out |-> out, st |-> st]

RECURSIVE Tick(_, _, _, _)
Tick(g, st, ps, in) ==
    CASE g.k = "num" -> Ticked(<<g.v>>, st)
      [] g.k = "wire" -> Ticked(<<At(in, 1)>>, st)
      [] g.k = "cut" -> Ticked(<< >>, st)
      [] g.k = "binop" -> Ticked(<<Apply2(g.op, At(in, 1), At(in, 2))>>, st)
      [] g.k = "unary" -> Ticked(<<Apply1(g.op, At(in, 1))>>, st)
      [] g.k = "slider" ->
            LET v == IF g.label \in DOMAIN ps THEN ps[g.label] ELSE g.init
            IN  Ticked(<<Clamp(v, g.lo, g.hi)>>, st)
      [] g.k = "mem" -> Ticked(<<FbGet(st, g.id)>>, FbSet(st, g.id, At(in, 1)))
      [] g.k = "delay" -> DelayWriteRead(st, g.id, At(in, 1), At(in, 2))
      [] g.k = "seq" -> LET a == Tick(g.l, st, ps, in) IN Tick(g.r, a.st, ps, a.out)
      [] g.k = "par" ->
            LET n == Ins(g.l)
                a == Tick(g.l, st, ps, SubSeq(in, 1, IF n < Len(in) THEN n ELSE Len(in)))
                b == Tick(g.r, a.st, ps, SubSeq(in, n + 1, Len(in)))
            IN  Ticked(a.out \o b.out, b.st)
      [] g.k = "split" ->
            LET a == Tick(g.l, st, ps, in)
                wide == [i \in 1 .. Ins(g.r) |-> a.out[((i - 1) % Len(a.out)) + 1]]
            IN  Tick(g.r, a.st, ps, wide)
      [] g.k = "merge" ->
            LET a == Tick(g.l, st, ps, in)
                n == Ins(g.r)
                summed == [i \in 1 .. n |->
                              FoldSeq(+, 0, [j \in 1 .. ((Len(a.out) - i) \div n) + 1 |->
                                                a.out[i + (j - 1) * n]])]
            IN  Tick(g.r, a.st, ps, summed)
      \* The external inputs come first, then the feedback of the last sample.
      [] g.k = "rec" ->
            LET fb == Outs(g.r)
                ext == [i \in 1 .. Ins(g.l) |->
                           IF i <= Ins(g.l) - fb THEN At(in, i)
                           ELSE FbGet(st, g.id + i - 1 - (Ins(g.l) - fb))]
                a == Tick(g.l, st, ps, ext)
                b == Tick(g.r, a.st, ps, a.out)
            IN  Ticked(a.out, FoldLeft(LAMBDA s, i : FbSet(s, g.id + i - 1, b.out[i]),
                                       b.st, [i \in 1 .. fb |-> i]))

-----------------------------------------------------------------------------
Init == /\ leftFirst \in BOOLEAN
        /\ program = "none" /\ loads = 0 /\ nextId = 0 /\ graph = Wire
        /\ state = NoState /\ params = [label \in {} |-> 0]
        /\ taken = << >> /\ given = << >>

\* parse: the definitions make the outermost scope, in which the process is
\* evaluated.
Read(e) == Parse(1, Written(e, 1)).e
Definitions(p) == <<[vals |-> [n \in DOMAIN p.vals |-> Read(p.vals[n])],
                     funcs |-> [n \in DOMAIN p.funcs |->
                                  [p.funcs[n] EXCEPT !.body = Read(@)]]]>>

Load(name) ==
    /\ loads < MaxLoads
    /\ LET p == Programs[name]
           made == Eval(Read(p.main), Definitions(p), nextId)
       IN  graph' = made.node /\ nextId' = made.next
    /\ program' = name /\ loads' = loads + 1
    /\ taken' = << >> /\ given' = << >>
    /\ UNCHANGED <<leftFirst, state, params>>

\* process_buffer, one sample: the input is on the first channel and the output
\* is the first channel's.
Sample(x) ==
    /\ program # "none" /\ Len(taken) < MaxTime
    /\ LET frame == [ch \in 1 .. Ins(graph) |-> IF ch = 1 THEN x ELSE 0]
           ticked == Tick(graph, state, params, frame)
       IN  state' = ticked.st /\ given' = Append(given, At(ticked.out, 1))
    /\ taken' = Append(taken, [x |-> x, params |-> params])
    /\ UNCHANGED <<leftFirst, program, loads, nextId, graph, params>>

RECURSIVE Controls(_)
Controls(g) == IF g.k = "slider" THEN {g.label}
               ELSE IF g.k \in Combinators THEN Controls(g.l) \cup Controls(g.r) ELSE {}

SetParam(label, v) ==
    /\ params' = Put(params, label, v)
    /\ UNCHANGED <<leftFirst, program, loads, nextId, graph, state, taken, given>>

Next == \/ \E name \in DOMAIN Programs : Load(name)
        \/ \E x \in Samples : Sample(x)
        \/ \E label \in Controls(graph), v \in Settings : SetParam(label, v)

Spec == Init /\ [][Next]_vars

-----------------------------------------------------------------------------
(* What a program means: names are replaced by what they stand for where   *)
(* they are written, and what is left maps streams to streams.  A stream   *)
(* is the sequence of its samples so far.                                  *)

RECURSIVE Resolved(_, _)
Resolved(e, args) ==
    LET p == Programs[program]
    IN  CASE e.k \in Combinators ->
                [e EXCEPT !.l = Resolved(e.l, args), !.r = Resolved(e.r, args)]
          [] e.k = "ident" ->
                IF e.name \in DOMAIN args
                THEN Resolved(args[e.name].e, args[e.name].args)
                ELSE IF e.name \in DOMAIN p.vals THEN Resolved(p.vals[e.name], << >>)
                ELSE Wire
          [] e.k = "call" ->
                IF e.name \notin DOMAIN p.funcs THEN Wire
                ELSE Resolved(p.funcs[e.name].body,
                              [n \in {p.funcs[e.name].param} |-> [e |-> e.arg, args |-> args]])
          [] OTHER -> e

Late(s) == [t \in 1 .. Len(s) |-> IF t = 1 THEN 0 ELSE s[t - 1]]
Channel(in, ch) == IF ch <= Len(in) THEN in[ch] ELSE Silence(Len(taken))

RECURSIVE Denoted(_, _), Feedback(_, _, _)
Denoted(e, in) ==
    LET each(f(_)) == <<[t \in 1 .. Len(taken) |-> f(t)]>>
        left == Denoted(e.l, in)
    IN  CASE e.k = "num" -> each(LAMBDA t : e.v)
          [] e.k = "slider" -> each(LAMBDA t :
                LET ps == taken[t].params
                IN  Clamp(IF e.label \in DOMAIN ps THEN ps[e.label] ELSE e.init, e.lo, e.hi))
          [] e.k = "wire" -> <<Channel(in, 1)>>
          [] e.k = "cut" -> << >>
          [] e.k = "unary" -> each(LAMBDA t : Apply1(e.op, Channel(in, 1)[t]))
          [] e.k = "binop" -> each(LAMBDA t :
                Apply2(e.op, Channel(in, 1)[t], Channel(in, 2)[t]))
          [] e.k = "mem" -> <<Late(Channel(in, 1))>>
          [] e.k = "delay" -> each(LAMBDA t :
                LET d == Clamp(Channel(in, 2)[t], 0, MaxDelay - 1)
                IN  IF d < t THEN Channel(in, 1)[t - d] ELSE 0)
          [] e.k = "seq" -> Denoted(e.r, left)
          [] e.k = "par" -> left \o Denoted(e.r, SubSeq(in, Ins(e.l) + 1, Len(in)))
          [] e.k = "split" ->
                Denoted(e.r, [i \in 1 .. Ins(e.r) |-> left[((i - 1) % Len(left)) + 1]])
          [] e.k = "merge" ->
                LET bus(i) == {j \in 1 .. Len(left) : (j - i) % Ins(e.r) = 0}
                IN  Denoted(e.r, [i \in 1 .. Ins(e.r) |->
                                    [t \in 1 .. Len(taken) |->
                                       FoldSet(LAMBDA j, s : s + left[j][t], 0, bus(i))]])
          [] e.k = "rec" ->
                LET back == Feedback(e, in, Len(taken))
                IN  Denoted(e.l, [i \in 1 .. Ins(e) |-> Channel(in, i)] \o back)

\* The streams fed back, one sample late: a fixed point, reached from silence in
\* as many rounds as there are samples.
Feedback(e, in, rounds) ==
    IF rounds = 0 THEN [i \in 1 .. Outs(e.r) |-> Silence(Len(taken))]
    ELSE LET back == Feedback(e, in, rounds - 1)
             out == Denoted(e.r, Denoted(e.l, [i \in 1 .. Ins(e) |-> Channel(in, i)] \o back))
         IN  [i \in 1 .. Len(out) |-> Late(out[i])]

-----------------------------------------------------------------------------
\* The graph gives the samples the program means, whatever was loaded before
\* it, in whichever order its parts were compiled: every memory has its own
\* slot, a delay line gives the sample of d samples ago, and a recursion the
\* last sample's output.
OutputIsDenoted ==
    program # "none" =>
        LET e == Resolved(Programs[program].main, << >>)
            in == <<[t \in 1 .. Len(taken) |-> taken[t].x]>>
        IN  given = Channel(Denoted(e, in), 1)

\* The parser reads every expression of the program the way it is written:
\* strength and side of the operators, brackets and the short forms.
ParsesBack ==
    program # "none" =>
        LET p == Programs[program]
        IN  \A e \in {p.main} \cup {p.vals[n] : n \in DOMAIN p.vals}
                        \cup {p.funcs[n].body : n \in DOMAIN p.funcs} :
                Parse(1, Written(e, 1)) = [e |-> e, rest |-> << >>]
=============================================================================
