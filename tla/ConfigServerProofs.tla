-------------------------- MODULE ConfigServerProofs --------------------------
(***************************************************************************)
(* Concurrent requests behave as one table, for every number of workers,   *)
(* keys and values and every set of requests.  The invariant is the lock   *)
(* protocol: who reads holds SHARED, who writes is alone, so that the rows *)
(* a worker has put into its answer are still those of the table.          *)
(***************************************************************************)
EXTENDS ConfigServer, FiniteSetTheorems, TLAPS

Steps == {"idle", "route", "execute", "read", "reserve", "update", "write", "answer"}
Bodies == UNION {[ks -> Values] : ks \in SUBSET Keys}

Types == /\ table \in [Keys -> Values]
         /\ step \in [Workers -> Steps] /\ asked \in [Workers -> Requests \cup {None}]
         /\ rows \in [Workers -> SUBSET Keys] /\ body \in [Workers -> Bodies]
         /\ answer \in [Workers -> Answers \cup {None}]
         /\ shared \subseteq Workers /\ writer \in Workers \cup {None} /\ writing \in BOOLEAN

\* A worker has a request until it has answered, and an answer while it sends it.
Busy(w) == /\ step[w] = "idle" <=> asked[w] = None
           /\ step[w] = "answer" <=> answer[w] # None

\* What the routing has let through.
Routed(w) == /\ step[w] = "read" => asked[w].method = "GET" /\ asked[w].target # "file"
             /\ step[w] \in {"reserve", "update", "write"} =>
                   asked[w].method = "PUT" /\ asked[w].target \notin {"all", "file"}
             /\ step[w] = "execute" =>
                   /\ asked[w].method \in {"GET", "PUT"} /\ asked[w].target # "file"
                   /\ asked[w].method = "PUT" => asked[w].target # "all"
             /\ step[w] = "write" => asked[w].target \in Keys

Locked(w) == /\ step[w] \in {"read", "reserve", "update", "write"} => w \in shared
             /\ step[w] = "write" => writing /\ shared = {w}

\* The rows read so far are rows of the table as it is.
Shown(w) == /\ step[w] \in {"route", "execute"} => rows[w] = {} /\ body[w] = Nothing
            /\ step[w] = "read" => rows[w] \subseteq Wanted(w) /\ body[w] = [k \in rows[w] |-> table[k]]

Protocol(w) == Busy(w) /\ Routed(w) /\ Locked(w) /\ Shown(w)
LockInv == Types /\ \A w \in Workers : Protocol(w)

-----------------------------------------------------------------------------
LEMMA EmptyBody == Nothing \in Bodies /\ \A t : Nothing = [k \in {} |-> t[k]]
  <1>1. Nothing \in [{} -> Values] /\ {} \in SUBSET Keys
    BY DEF Nothing
  <1>2. \A t : Nothing = [k \in {} |-> t[k]]
    BY DEF Nothing
  <1> QED
    BY <1>1, <1>2 DEF Bodies

LEMMA PartOfTable ==
  ASSUME NEW t \in [Keys -> Values], NEW ks \in SUBSET Keys
  PROVE  [k \in ks |-> t[k]] \in Bodies
  <1>1. [k \in ks |-> t[k]] \in [ks -> Values]
    OBVIOUS
  <1> QED
    BY <1>1 DEF Bodies

LEMMA AnswersAre ==
  /\ \A status \in {200, 400, 404, 405, 500} : Refusal(status) \in Answers
  /\ \A b \in Bodies : [status |-> 200, body |-> b] \in Answers
  /\ \A a \in Answers : a # None
  BY EmptyBody, ConfigAssumption DEF Answers, Bodies, Refusal

LEMMA NoRowIs ==
  ASSUME NEW w \in Workers
  PROVE  /\ NoRow(w) \in Answers
         /\ NoRow(w) = Refusal(IF asked[w].target = "all" THEN 200 ELSE 404)
  BY AnswersAre DEF NoRow

\* The table's part that a request wants.
LEMMA WantedIs ==
  ASSUME NEW w \in Workers
  PROVE  Wanted(w) \in SUBSET Keys /\ (Wanted(w) = {} => asked[w].target \notin Keys \cup {"all"})
  <1>1. "all" \notin Keys /\ "configsrv_port" \in Keys
    BY ConfigAssumption
  <1> QED
    BY <1>1 DEF Wanted

\* A worker of which nothing changes keeps its part of the protocol while the
\* table stays, and while the locks it has stay.
LEMMA OthersKeep ==
  ASSUME LockInv, NEW w \in Workers,
         step'[w] = step[w], asked'[w] = asked[w], rows'[w] = rows[w], body'[w] = body[w],
         answer'[w] = answer[w],
         w \in shared => w \in shared',
         step[w] = "write" => writing' /\ shared' = {w},
         step[w] = "read" => table' = table
  PROVE  Protocol(w)'
  <1>1. Busy(w)' /\ Routed(w)' /\ Locked(w)'
    BY DEF LockInv, Protocol, Busy, Routed, Locked
  <1>2. Shown(w)'
    BY DEF LockInv, Protocol, Shown, Wanted
  <1> QED
    BY <1>1, <1>2 DEF Protocol

-----------------------------------------------------------------------------
LEMMA LockInit == Init => LockInv
  <1> SUFFICES ASSUME Init PROVE LockInv
    OBVIOUS
  <1>1. Types
    BY EmptyBody DEF Init, Types, Idle, Steps
  <1>2. ASSUME NEW w \in Workers PROVE Protocol(w)
    BY DEF Init, Idle, Protocol, Busy, Routed, Locked, Shown
  <1> QED
    BY <1>1, <1>2 DEF LockInv

LEMMA UnchangedKeeps ==
  ASSUME LockInv, UNCHANGED <<table, workerVars, lockVars>> PROVE LockInv'
  <1>1. UNCHANGED <<table, step, asked, rows, body, answer, shared, writer, writing>>
    BY DEF workerVars, lockVars
  <1>2. Types'
    BY <1>1 DEF LockInv, Types
  <1>3. ASSUME NEW w \in Workers PROVE Protocol(w)'
    BY <1>1, OthersKeep DEF LockInv, Protocol, Locked
  <1> QED
    BY <1>2, <1>3 DEF LockInv

LEMMA EndsKeeps ==
  ASSUME LockInv, NEW p, Ends(p) PROVE LockInv'
  <1>1. Types'
    BY EmptyBody DEF LockInv, Ends, Types, Idle, Steps
  <1>2. ASSUME NEW w \in Workers PROVE Protocol(w)'
    BY <1>1 DEF Ends, Idle, Protocol, Busy, Routed, Locked, Shown
  <1> QED
    BY <1>1, <1>2 DEF LockInv

LEMMA AcceptKeeps ==
  ASSUME LockInv, NEW w \in Workers, Accept(w) PROVE LockInv'
  <1>1. PICK r \in Requests : asked' = [asked EXCEPT ![w] = r]
    BY DEF Accept
  <1>2. /\ step[w] = "idle" /\ step' = [step EXCEPT ![w] = "route"]
        /\ rows' = [rows EXCEPT ![w] = {}] /\ body' = [body EXCEPT ![w] = Nothing]
        /\ UNCHANGED <<table, answer, shared, writer, writing>> /\ Types
    BY DEF Accept, GoTo, LockInv, lockVars
  <1>3. Types'
    BY <1>1, <1>2, EmptyBody DEF Types, Steps
  <1>4. ASSUME NEW v \in Workers, v # w PROVE Protocol(v)'
    <2>1. /\ step'[v] = step[v] /\ asked'[v] = asked[v] /\ rows'[v] = rows[v] /\ body'[v] = body[v]
          /\ answer'[v] = answer[v]
      BY <1>1, <1>2, <1>4 DEF Types
    <2> QED
      BY <1>2, <2>1, OthersKeep DEF LockInv, Protocol, Locked
  <1>5. Protocol(w)'
    <2>1. /\ step'[w] = "route" /\ asked'[w] = r /\ rows'[w] = {} /\ body'[w] = Nothing /\ answer'[w] = None
      BY <1>1, <1>2 DEF Types, LockInv, Protocol, Busy
    <2>2. r # None
      BY ConfigAssumption
    <2> QED
      BY <2>1, <2>2 DEF Protocol, Busy, Routed, Locked, Shown
  <1> QED
    BY <1>3, <1>4, <1>5 DEF LockInv

\* A worker that has what it sends, and gives back the locks it had.
LEMMA SendKeeps ==
  ASSUME LockInv, NEW w \in Workers, step[w] \notin {"idle", "answer"}, NEW a \in Answers, Send(w, a),
         UNCHANGED <<asked, rows, body>>, Types',
         \A v \in Workers : v # w /\ v \in shared => v \in shared',
         \A v \in Workers : v # w /\ step[v] = "write" => writing' /\ shared' = {v},
         \A v \in Workers : v # w /\ step[v] = "read" => table' = table
  PROVE  LockInv'
  <1>1. Types /\ step' = [step EXCEPT ![w] = "answer"] /\ answer' = [answer EXCEPT ![w] = a]
    BY DEF LockInv, Send, GoTo
  <1>2. ASSUME NEW v \in Workers, v # w PROVE Protocol(v)'
    <2>1. step'[v] = step[v] /\ answer'[v] = answer[v]
      BY <1>1, <1>2 DEF Types
    <2> QED
      BY <1>2, <2>1, OthersKeep
  <1>3. Protocol(w)'
    <2>1. step'[w] = "answer" /\ answer'[w] # None /\ asked'[w] # None
      BY <1>1, AnswersAre DEF Types, LockInv, Protocol, Busy
    <2> QED
      BY <2>1 DEF Protocol, Busy, Routed, Locked, Shown
  <1> QED
    BY <1>2, <1>3 DEF LockInv

\* Answers without a lock.
LEMMA SendOnly ==
  ASSUME LockInv, NEW w \in Workers, step[w] \in {"route", "execute"}, NEW a \in Answers, Send(w, a),
         UNCHANGED <<table, asked, rows, body, shared, writer, writing>>
  PROVE  LockInv'
  <1>1. Types'
    BY DEF LockInv, Types, Send, GoTo, Steps
  <1>2. \A v \in Workers : step[v] = "write" => writing' /\ shared' = {v}
    BY DEF LockInv, Protocol, Locked
  <1> QED
    BY <1>1, <1>2, SendKeeps

LEMMA RouteKeeps ==
  ASSUME LockInv, NEW w \in Workers, RouteElsewhere(w) \/ RejectBody(w) PROVE LockInv'
  <1>1. /\ step[w] = "route"
        /\ UNCHANGED <<table, asked, rows, body, shared, writer, writing>>
    BY DEF RouteElsewhere, RejectBody, At, lockVars
  <1>2. \E status \in {200, 400, 404, 405, 500} : Send(w, Refusal(status))
    <2>1. CASE RejectBody(w)
      BY <2>1 DEF RejectBody
    <2>2. CASE RouteElsewhere(w)
      <3>1. \/ \E status \in {200, 404, 500} : Send(w, Refusal(status))
            \/ Send(w, Refusal(405))
            \/ Send(w, Refusal(400))
        BY <2>2, ZenonT(30) DEF RouteElsewhere
      <3> QED
        BY <3>1
    <2> QED
      BY <2>1, <2>2
  <1>3. PICK status \in {200, 400, 404, 405, 500} : Send(w, Refusal(status))
    BY <1>2
  <1>4. Refusal(status) \in Answers
    BY AnswersAre
  <1> QED
    BY <1>1, <1>3, <1>4, SendOnly

\* A worker goes on, without an answer and without touching the table.
LEMMA GoOn ==
  ASSUME LockInv, NEW w \in Workers, NEW s \in Steps \ {"idle", "answer"}, GoTo(w, s),
         step[w] \notin {"idle", "answer"},
         UNCHANGED <<table, asked, answer>>,
         \A v \in Workers : v # w => rows'[v] = rows[v] /\ body'[v] = body[v],
         shared \subseteq shared',
         \A v \in Workers : v # w /\ step[v] = "write" => writing' /\ shared' = {v},
         Types', Routed(w)', Locked(w)', Shown(w)'
  PROVE  LockInv'
  <1>1. Types /\ step' = [step EXCEPT ![w] = s]
    BY DEF LockInv, GoTo
  <1>2. ASSUME NEW v \in Workers, v # w PROVE Protocol(v)'
    <2>1. step'[v] = step[v] /\ rows'[v] = rows[v] /\ body'[v] = body[v]
      BY <1>1, <1>2 DEF Types
    <2> QED
      BY <1>2, <2>1, OthersKeep
  <1>3. Busy(w)'
    BY <1>1 DEF LockInv, Protocol, Busy, Types
  <1> QED
    BY <1>2, <1>3 DEF LockInv, Protocol

LEMMA OpenDbKeeps ==
  ASSUME LockInv, NEW w \in Workers, OpenDb(w) PROVE LockInv'
  <1>1. /\ step[w] = "route" /\ Types
        /\ asked[w].target # "file" /\ asked[w].method \in {"GET", "PUT"}
        /\ asked[w].method = "PUT" => asked[w].target # "all"
        /\ UNCHANGED <<table, asked, rows, body, shared, writer, writing>>
    BY DEF OpenDb, At, LockInv, lockVars
  <1>2. CASE GoTo(w, "execute") /\ UNCHANGED answer
    <2>1. Types' /\ step'[w] = "execute"
      BY <1>1, <1>2 DEF Types, GoTo, Steps
    <2>2. Routed(w)' /\ Locked(w)'
      BY <1>1, <2>1 DEF Routed, Locked
    <2>3. Shown(w)'
      BY <1>1, <2>1 DEF Shown, LockInv, Protocol
    <2>4. \A v \in Workers : step[v] = "write" => writing' /\ shared' = {v}
      BY <1>1 DEF LockInv, Protocol, Locked
    <2> QED
      BY <1>1, <1>2, <2>1, <2>2, <2>3, <2>4, GoOn DEF Steps
  <1>3. CASE Send(w, Refusal(500))
    <2>1. Refusal(500) \in Answers
      BY AnswersAre
    <2> QED
      BY <1>1, <1>3, <2>1, SendOnly
  <1> QED
    BY <1>2, <1>3 DEF OpenDb

LEMMA TakeSharedKeeps ==
  ASSUME LockInv, NEW w \in Workers, TakeShared(w) PROVE LockInv'
  <1>1. /\ step[w] = "execute" /\ Types
        /\ UNCHANGED <<table, asked, rows, body, writer, writing>>
    BY DEF TakeShared, At, LockInv
  <1>2. CASE writing /\ Send(w, NoRow(w)) /\ UNCHANGED shared
    BY <1>1, <1>2, NoRowIs, SendOnly
  <1>3. CASE /\ ~writing /\ shared' = shared \cup {w} /\ UNCHANGED answer
             /\ GoTo(w, IF asked[w].method = "PUT" THEN "reserve" ELSE "read")
    <2>. PICK s \in {"reserve", "read"} : s = IF asked[w].method = "PUT" THEN "reserve" ELSE "read"
      OBVIOUS
    <2>1. GoTo(w, s)
      BY <1>3
    <2>2. Types' /\ step'[w] = s /\ w \in shared'
      BY <1>1, <1>3, <2>1 DEF Types, GoTo, Steps
    <2>3. /\ asked[w].method \in {"GET", "PUT"} /\ asked[w].target # "file"
          /\ asked[w].method = "PUT" => asked[w].target # "all"
          /\ rows[w] = {} /\ body[w] = Nothing
      BY <1>1 DEF LockInv, Protocol, Routed, Shown
    <2>4. Routed(w)' /\ Locked(w)'
      BY <1>1, <2>2, <2>3 DEF Routed, Locked
    <2>5. Shown(w)'
      BY <1>1, <2>2, <2>3, EmptyBody DEF Shown
    <2>6. \A v \in Workers : step[v] # "write"
      BY <1>3 DEF LockInv, Protocol, Locked
    <2> QED
      BY <1>1, <1>3, <2>1, <2>2, <2>4, <2>5, <2>6, GoOn DEF Steps
  <1> QED
    BY <1>2, <1>3 DEF TakeShared

LEMMA ReadRowKeeps ==
  ASSUME LockInv, NEW w \in Workers, ReadRow(w) PROVE LockInv'
  <1>1. PICK k \in Wanted(w) \ rows[w] :
           /\ rows' = [rows EXCEPT ![w] = @ \cup {k}]
           /\ body' = [body EXCEPT ![w] = [x \in rows[w] \cup {k} |-> IF x = k THEN table[k] ELSE @[x]]]
    BY DEF ReadRow
  <1>2. step[w] = "read" /\ Types /\ UNCHANGED <<table, step, asked, answer, shared, writer, writing>>
    BY DEF ReadRow, At, LockInv, lockVars
  <1>3. /\ rows[w] \cup {k} \in SUBSET Keys /\ rows[w] \cup {k} \subseteq Wanted(w)
        /\ body[w] = [x \in rows[w] |-> table[x]]
    BY <1>2, WantedIs DEF LockInv, Protocol, Shown
  <1>4. [x \in rows[w] \cup {k} |-> IF x = k THEN table[k] ELSE body[w][x]] = [x \in rows[w] \cup {k} |-> table[x]]
    BY <1>3
  <1>5. body' = [body EXCEPT ![w] = [x \in rows[w] \cup {k} |-> table[x]]]
    BY <1>1, <1>2, <1>4 DEF Types
  <1>6. [x \in rows[w] \cup {k} |-> table[x]] \in Bodies
    BY <1>2, <1>3, PartOfTable DEF Types
  <1>7. Types'
    BY <1>1, <1>2, <1>3, <1>5, <1>6 DEF Types
  <1>8. ASSUME NEW v \in Workers, v # w PROVE Protocol(v)'
    <2>1. rows'[v] = rows[v] /\ body'[v] = body[v]
      BY <1>1, <1>2, <1>5, <1>8 DEF Types
    <2> QED
      BY <1>2, <2>1, OthersKeep DEF LockInv, Protocol, Locked
  <1>9. Protocol(w)'
    <2>1. rows'[w] = rows[w] \cup {k} /\ body'[w] = [x \in rows'[w] |-> table'[x]]
      BY <1>1, <1>2, <1>5 DEF Types
    <2>2. Busy(w)' /\ Routed(w)' /\ Locked(w)'
      BY <1>2 DEF LockInv, Protocol, Busy, Routed, Locked
    <2>3. Shown(w)'
      BY <1>2, <1>3, <2>1 DEF Shown, Wanted
    <2> QED
      BY <2>2, <2>3 DEF Protocol
  <1> QED
    BY <1>7, <1>8, <1>9 DEF LockInv

\* Sending what was read or refused, with the locks given back.
LEMMA UnlockKeeps ==
  ASSUME LockInv, NEW w \in Workers, step[w] \in {"read", "reserve", "update"}, NEW a \in Answers,
         Send(w, a), Unlock(w), UNCHANGED <<table, asked, rows, body>>
  PROVE  LockInv'
  <1>1. Types'
    BY DEF LockInv, Types, Send, GoTo, Unlock, Steps
  <1>2. \A v \in Workers : v # w /\ v \in shared => v \in shared'
    BY DEF Unlock
  <1>3. \A v \in Workers : step[v] # "write"
    <2>1. w \in shared
      BY DEF LockInv, Protocol, Locked
    <2>2. ASSUME NEW v \in Workers, step[v] = "write" PROVE FALSE
      BY <2>1, <2>2 DEF LockInv, Protocol, Locked
    <2> QED
      BY <2>2
  <1> QED
    BY <1>1, <1>2, <1>3, SendKeeps

LEMMA FinishKeeps ==
  ASSUME LockInv, NEW w \in Workers, Finish(w) PROVE LockInv'
  <1>1. /\ step[w] = "read" /\ Unlock(w) /\ UNCHANGED <<table, asked, rows, body>>
        /\ Send(w, IF rows[w] = {} THEN NoRow(w) ELSE [status |-> 200, body |-> body[w]])
    BY DEF Finish, At
  <1>2. [status |-> 200, body |-> body[w]] \in Answers /\ NoRow(w) \in Answers
    BY NoRowIs, AnswersAre DEF LockInv, Types
  <1> QED
    BY <1>1, <1>2, UnlockKeeps

\* No other worker is at the step that writes when this one holds SHARED.
LEMMA AloneOrQuiet ==
  ASSUME LockInv, NEW w \in Workers, step[w] \in {"read", "reserve", "update"}
  PROVE  w \in shared /\ \A v \in Workers : step[v] # "write"
  <1>1. w \in shared
    BY DEF LockInv, Protocol, Locked
  <1>2. ASSUME NEW v \in Workers, step[v] = "write" PROVE FALSE
    BY <1>1, <1>2 DEF LockInv, Protocol, Locked
  <1> QED
    BY <1>1, <1>2

LEMMA ReserveKeeps ==
  ASSUME LockInv, NEW w \in Workers, Reserve(w) PROVE LockInv'
  <1>1. step[w] = "reserve" /\ Types /\ UNCHANGED <<table, asked, rows, body>>
    BY DEF Reserve, At, LockInv
  <1>2. CASE writer # None /\ Unlock(w) /\ Send(w, NoRow(w))
    BY <1>1, <1>2, NoRowIs, UnlockKeeps
  <1>3. CASE writer' = w /\ GoTo(w, "update") /\ UNCHANGED <<answer, shared, writing>>
    <2>1. Types' /\ step'[w] = "update"
      BY <1>1, <1>3 DEF Types, GoTo, Steps
    <2>2. Routed(w)' /\ Locked(w)' /\ Shown(w)'
      BY <1>1, <1>3, <2>1 DEF LockInv, Protocol, Routed, Locked, Shown
    <2> QED
      BY <1>1, <1>3, <2>1, <2>2, AloneOrQuiet, GoOn DEF Steps
  <1> QED
    BY <1>2, <1>3 DEF Reserve

LEMMA CommitKeeps ==
  ASSUME LockInv, NEW w \in Workers, Commit(w) PROVE LockInv'
  <1>1. step[w] = "update" /\ Types /\ UNCHANGED <<table, asked, rows, body>>
    BY DEF Commit, At, LockInv
  <1>2. CASE Unlock(w) /\ Send(w, NoRow(w))
    BY <1>1, <1>2, NoRowIs, UnlockKeeps
  <1>3. CASE /\ asked[w].target \in Keys /\ shared = {w}
             /\ writing' = TRUE /\ GoTo(w, "write")
             /\ UNCHANGED <<answer, shared, writer>>
    <2>1. Types' /\ step'[w] = "write"
      BY <1>1, <1>3 DEF Types, GoTo, Steps
    <2>2. Routed(w)' /\ Locked(w)' /\ Shown(w)'
      BY <1>1, <1>3, <2>1 DEF LockInv, Protocol, Routed, Locked, Shown
    <2> QED
      BY <1>1, <1>3, <2>1, <2>2, AloneOrQuiet, GoOn DEF Steps
  <1> QED
    BY <1>2, <1>3 DEF Commit

\* The one that writes has no reader beside it.
LEMMA WriterAlone ==
  ASSUME LockInv, NEW w \in Workers, step[w] = "write", NEW v \in Workers, v # w
  PROVE  step[v] \notin {"read", "write"} /\ v \notin shared
  <1>1. shared = {w}
    BY DEF LockInv, Protocol, Locked
  <1> QED
    BY <1>1 DEF LockInv, Protocol, Locked

LEMMA WriteKeeps ==
  ASSUME LockInv, NEW w \in Workers, Write(w) PROVE LockInv'
  <1>1. /\ step[w] = "write" /\ Types /\ UNCHANGED <<asked, rows, body>> /\ Unlock(w)
        /\ table' = [table EXCEPT ![asked[w].target] = asked[w].value]
        /\ Send(w, [status |-> 200, body |-> [k \in {asked[w].target} |-> asked[w].value]])
    BY DEF Write, At, LockInv
  <1>2. asked[w].target \in Keys /\ asked[w].value \in Values
    BY <1>1, ConfigAssumption DEF LockInv, Protocol, Routed, Busy, Types
  <1>3. [k \in {asked[w].target} |-> asked[w].value] \in Bodies
    <2>1. [k \in {asked[w].target} |-> asked[w].value] \in [{asked[w].target} -> Values]
      BY <1>2
    <2>2. {asked[w].target} \in SUBSET Keys
      BY <1>2
    <2> QED
      BY <2>1, <2>2 DEF Bodies
  <1>. PICK a \in Answers : a = [status |-> 200, body |-> [k \in {asked[w].target} |-> asked[w].value]]
    BY <1>3, AnswersAre
  <1>4. Types'
    BY <1>1, <1>2 DEF Types, Send, GoTo, Unlock, Steps
  <1> QED
    BY <1>1, <1>4, WriterAlone, SendKeeps

LEMMA AnswerKeeps ==
  ASSUME LockInv, NEW w \in Workers, Answer(w) PROVE LockInv'
  <1>1. /\ step[w] = "answer" /\ step' = [step EXCEPT ![w] = "idle"] /\ Types
        /\ asked' = [asked EXCEPT ![w] = None] /\ answer' = [answer EXCEPT ![w] = None]
        /\ rows' = [rows EXCEPT ![w] = {}] /\ body' = [body EXCEPT ![w] = Nothing]
        /\ UNCHANGED <<table, shared, writer, writing>>
    BY DEF Answer, At, GoTo, LockInv, lockVars
  <1>2. Types'
    BY <1>1, EmptyBody DEF Types, Steps
  <1>3. ASSUME NEW v \in Workers, v # w PROVE Protocol(v)'
    <2>1. /\ step'[v] = step[v] /\ asked'[v] = asked[v] /\ rows'[v] = rows[v] /\ body'[v] = body[v]
          /\ answer'[v] = answer[v]
      BY <1>1, <1>3 DEF Types
    <2> QED
      BY <1>1, <2>1, OthersKeep DEF LockInv, Protocol, Locked
  <1>4. Protocol(w)'
    BY <1>1 DEF Types, Protocol, Busy, Routed, Locked, Shown
  <1> QED
    BY <1>2, <1>3, <1>4 DEF LockInv

LEMMA HandleKeeps ==
  ASSUME LockInv, NEW w \in Workers, Handle(w) PROVE LockInv'
  BY RouteKeeps, OpenDbKeeps, TakeSharedKeeps, ReadRowKeeps, FinishKeeps, ReserveKeeps, CommitKeeps,
     WriteKeeps, AnswerKeeps DEF Handle

THEOREM LockProtocol == Spec => []LockInv
  <1>1. ASSUME LockInv, [Next]_vars PROVE LockInv'
    <2>1. CASE Load \/ WaitForShutdown \/ Raise \/ Shutdown \/ Restart \/ UNCHANGED vars
      <3>1. UNCHANGED <<table, workerVars, lockVars>>
        BY <2>1 DEF Load, WaitForShutdown, Raise, Shutdown, Restart, vars
      <3> QED
        BY <1>1, <3>1, UnchangedKeeps
    <2>2. CASE Killed \/ Stop
      BY <1>1, <2>2, EndsKeeps DEF Killed, Stop
    <2>3. CASE \E w \in Workers : Accept(w) \/ Handle(w)
      BY <1>1, <2>3, AcceptKeeps, HandleKeeps
    <2> QED
      BY <1>1, <2>1, <2>2, <2>3 DEF Next
  <1> QED
    BY LockInit, <1>1, PTL DEF Spec

-----------------------------------------------------------------------------
\* What the steps are as steps of the map.
LEMMA InitIsMapInit == Init => Map!Init
  BY DEF Init, Map!Init, Idle

LEMMA QuietIsStutter ==
  ASSUME UNCHANGED <<table, asked, answer>> PROVE UNCHANGED Map!vars
  BY DEF Map!vars

LEMMA RefusalShows ==
  ASSUME NEW status PROVE Refusal(status) = Map!Shows(status, {}, table)
  BY EmptyBody DEF Refusal, Map!Shows

\* A worker that sends has been open.
LEMMA SendIsGive ==
  ASSUME LockInv, NEW w \in Workers, step[w] \notin {"idle", "answer"}, NEW a, Send(w, a), UNCHANGED asked
  PROVE  Map!Open(w) /\ Map!Give(w, a)
  BY DEF LockInv, Protocol, Busy, Send, Map!Open, Map!Give

LEMMA SendIsRefuse ==
  ASSUME LockInv, NEW w \in Workers, step[w] \notin {"idle", "answer"},
         NEW status \in {200, 400, 404, 405, 500}, Send(w, Refusal(status)), UNCHANGED <<table, asked>>,
         status = 200 => asked[w].target = "file" \/ (asked[w].target = "all" /\ asked[w].method = "GET")
  PROVE  Map!Refuse(w)
  <1>1. Map!Open(w) /\ Map!Give(w, Map!Shows(status, {}, table))
    BY SendIsGive, RefusalShows
  <1> QED
    BY <1>1 DEF Map!Refuse

\* No row: an empty list, or no such key.
LEMMA NoRowIsRefuse ==
  ASSUME LockInv, NEW w \in Workers, step[w] \in {"execute", "read", "reserve", "update"},
         Send(w, NoRow(w)), UNCHANGED <<table, asked>>
  PROVE  Map!Refuse(w)
  <1>1. asked[w].target = "all" => asked[w].method = "GET"
    BY DEF LockInv, Protocol, Routed
  <1>. PICK status \in {200, 404} : status = IF asked[w].target = "all" THEN 200 ELSE 404
    OBVIOUS
  <1>2. Send(w, Refusal(status))
    BY NoRowIs
  <1> QED
    BY <1>1, <1>2, SendIsRefuse

LEMMA RouteIsRefuse ==
  ASSUME LockInv, NEW w \in Workers, RouteElsewhere(w) \/ RejectBody(w) PROVE Map!Refuse(w)
  <1>1. step[w] = "route" /\ UNCHANGED <<table, asked>>
    BY DEF RouteElsewhere, RejectBody, At
  <1>2. CASE RejectBody(w)
    <2>1. Send(w, Refusal(500))
      BY <1>2 DEF RejectBody
    <2> QED
      BY <1>1, <2>1, SendIsRefuse
  <1>3. CASE RouteElsewhere(w)
    <2>1. \/ asked[w].target = "file" /\ \E status \in {200, 404, 500} : Send(w, Refusal(status))
          \/ Send(w, Refusal(405))
          \/ Send(w, Refusal(400))
      BY <1>3, ZenonT(30) DEF RouteElsewhere
    <2>2. PICK status \in {200, 400, 404, 405, 500} :
             Send(w, Refusal(status)) /\ (status = 200 => asked[w].target = "file")
      BY <2>1
    <2> QED
      BY <1>1, <2>2, SendIsRefuse
  <1> QED
    BY <1>2, <1>3

\* All that was wanted is shown, as it is in the table at this moment.
LEMMA FinishIsGet ==
  ASSUME LockInv, NEW w \in Workers, Finish(w) PROVE Map!Get(w) \/ Map!List(w) \/ Map!Refuse(w)
  <1>1. /\ step[w] = "read" /\ UNCHANGED <<table, asked>> /\ rows[w] = Wanted(w)
        /\ Send(w, IF rows[w] = {} THEN NoRow(w) ELSE [status |-> 200, body |-> body[w]])
    BY DEF Finish, At
  <1>2. asked[w].method = "GET" /\ body[w] = [k \in Wanted(w) |-> table[k]]
    BY <1>1 DEF LockInv, Protocol, Routed, Shown
  <1>3. CASE rows[w] = {}
    BY <1>1, <1>3, NoRowIsRefuse
  <1>4. CASE rows[w] # {}
    <2>1. Map!Open(w) /\ Map!Give(w, Map!Shows(200, Wanted(w), table))
      <3>1. Send(w, Map!Shows(200, Wanted(w), table))
        BY <1>1, <1>2, <1>4 DEF Map!Shows
      <3> QED
        BY <1>1, <3>1, SendIsGive
    <2>2. CASE asked[w].target = "all"
      BY <1>1, <1>2, <2>1, <2>2 DEF Map!List, Wanted
    <2>3. CASE asked[w].target # "all"
      <3>1. asked[w].target \in Keys /\ Wanted(w) = {asked[w].target}
        BY <1>1, <1>4, <2>3 DEF Wanted
      <3> QED
        BY <1>1, <1>2, <2>1, <3>1 DEF Map!Get
    <2> QED
      BY <2>2, <2>3
  <1> QED
    BY <1>3, <1>4

LEMMA WriteIsPut ==
  ASSUME LockInv, NEW w \in Workers, Write(w) PROVE Map!Put(w)
  <1>1. /\ step[w] = "write" /\ UNCHANGED asked
        /\ table' = [table EXCEPT ![asked[w].target] = asked[w].value]
        /\ Send(w, [status |-> 200, body |-> [k \in {asked[w].target} |-> asked[w].value]])
    BY DEF Write, At
  <1>2. asked[w].method = "PUT" /\ asked[w].target \in Keys /\ table \in [Keys -> Values]
    BY <1>1 DEF LockInv, Types, Protocol, Routed
  <1>3. [k \in {asked[w].target} |-> asked[w].value] = [k \in {asked[w].target} |-> table'[k]]
    BY <1>1, <1>2
  <1>4. Map!Open(w) /\ Map!Give(w, Map!Shows(200, {asked[w].target}, table'))
    <2>1. Send(w, Map!Shows(200, {asked[w].target}, table'))
      BY <1>1, <1>3 DEF Map!Shows
    <2> QED
      BY <1>1, <2>1, SendIsGive
  <1> QED
    BY <1>1, <1>2, <1>4 DEF Map!Put

LEMMA AnswerIsReply ==
  ASSUME LockInv, NEW w \in Workers, Answer(w) PROVE Map!Reply(w)
  <1>1. step[w] = "answer" /\ answer[w] # None
    BY DEF Answer, At, LockInv, Protocol, Busy
  <1>2. /\ asked' = [asked EXCEPT ![w] = None] /\ answer' = [answer EXCEPT ![w] = None]
        /\ UNCHANGED table
    BY DEF Answer
  <1> QED
    BY <1>1, <1>2 DEF Map!Reply

LEMMA AcceptIsAsk ==
  ASSUME LockInv, NEW w \in Workers, Accept(w) PROVE Map!Ask(w)
  <1>1. asked[w] = None
    BY DEF Accept, LockInv, Protocol, Busy
  <1>2. (\E r \in Requests : asked' = [asked EXCEPT ![w] = r]) /\ UNCHANGED <<table, answer>>
    BY DEF Accept
  <1> QED
    BY <1>1, <1>2 DEF Map!Ask

MapStep(w) == \/ Map!Ask(w) \/ Map!Get(w) \/ Map!List(w) \/ Map!Put(w) \/ Map!Refuse(w) \/ Map!Reply(w)
              \/ UNCHANGED Map!vars

LEMMA HandleIsMapStep ==
  ASSUME LockInv, NEW w \in Workers, Handle(w) PROVE MapStep(w)
  <1>1. CASE RouteElsewhere(w) \/ RejectBody(w)
    BY <1>1, RouteIsRefuse DEF MapStep
  <1>2. CASE OpenDb(w)
    <2>1. step[w] = "route" /\ UNCHANGED <<table, asked>>
      BY <1>2 DEF OpenDb, At
    <2>2. Send(w, Refusal(500)) \/ UNCHANGED answer
      BY <1>2 DEF OpenDb
    <2> QED
      BY <2>1, <2>2, SendIsRefuse, QuietIsStutter DEF MapStep
  <1>3. CASE TakeShared(w)
    <2>1. step[w] = "execute" /\ UNCHANGED <<table, asked>>
      BY <1>3 DEF TakeShared, At
    <2>2. Send(w, NoRow(w)) \/ UNCHANGED answer
      BY <1>3 DEF TakeShared
    <2> QED
      BY <2>1, <2>2, NoRowIsRefuse, QuietIsStutter DEF MapStep
  <1>4. CASE ReadRow(w)
    BY <1>4, QuietIsStutter DEF ReadRow, MapStep
  <1>5. CASE Finish(w)
    BY <1>5, FinishIsGet DEF MapStep
  <1>6. CASE Reserve(w)
    <2>1. step[w] = "reserve" /\ UNCHANGED <<table, asked>>
      BY <1>6 DEF Reserve, At
    <2>2. Send(w, NoRow(w)) \/ UNCHANGED answer
      BY <1>6 DEF Reserve
    <2> QED
      BY <2>1, <2>2, NoRowIsRefuse, QuietIsStutter DEF MapStep
  <1>7. CASE Commit(w)
    <2>1. step[w] = "update" /\ UNCHANGED <<table, asked>>
      BY <1>7 DEF Commit, At
    <2>2. Send(w, NoRow(w)) \/ UNCHANGED answer
      BY <1>7 DEF Commit
    <2> QED
      BY <2>1, <2>2, NoRowIsRefuse, QuietIsStutter DEF MapStep
  <1>8. CASE Write(w)
    BY <1>8, WriteIsPut DEF MapStep
  <1>9. CASE Answer(w)
    BY <1>9, AnswerIsReply DEF MapStep
  <1> QED
    BY <1>1, <1>2, <1>3, <1>4, <1>5, <1>6, <1>7, <1>8, <1>9 DEF Handle

LEMMA NextIsMapNext ==
  ASSUME LockInv, [Next]_vars PROVE [Map!Next]_Map!vars
  <1>1. CASE Load \/ WaitForShutdown \/ Raise \/ Shutdown \/ Restart \/ UNCHANGED vars
    <2>1. UNCHANGED <<table, asked, answer>>
      BY <1>1 DEF Load, WaitForShutdown, Raise, Shutdown, Restart, vars, workerVars
    <2> QED
      BY <2>1, QuietIsStutter
  <1>2. CASE Killed \/ Stop
    <2>1. PICK p : Ends(p)
      BY <1>2 DEF Killed, Stop
    <2>2. Map!End
      BY <2>1 DEF Ends, Idle, Map!End
    <2> QED
      BY <2>2 DEF Map!Next
  <1>3. CASE \E w \in Workers : Accept(w) \/ Handle(w)
    <2>1. PICK w \in Workers : Accept(w) \/ Handle(w)
      BY <1>3
    <2>2. MapStep(w)
      BY <2>1, AcceptIsAsk, HandleIsMapStep DEF MapStep
    <2> QED
      BY <2>2 DEF MapStep, Map!Next
  <1> QED
    BY <1>1, <1>2, <1>3 DEF Next

\* Linearizability: whatever requests run side by side, and wherever the server
\* ends, clients see one table that each request reads or writes in one step
\* (configsrv.cpp:80-164).
THEOREM Refinement == Spec => MapSpec
  <1>1. LockInv /\ [Next]_vars => [Map!Next]_Map!vars
    BY NextIsMapNext
  <1> QED
    BY InitIsMapInit, LockProtocol, <1>1, PTL DEF Spec, MapSpec, Map!Spec

-----------------------------------------------------------------------------
\* The guards of Handle(w).  A lock that is taken is answered as well: SQLite waits
\* for none (no busy timeout is set), and the request ends as if it found no row.
CanHandle(w) ==
    /\ Serving
    /\ \/ /\ step[w] = "route"
          /\ \/ asked[w].target = "file"
             \/ asked[w].target # "file" /\ asked[w].method \notin {"GET", "PUT"}
             \/ asked[w].target = "all" /\ asked[w].method = "PUT"
             \/ /\ asked[w].method = "PUT" /\ asked[w].target \notin {"all", "file"}
                /\ ~asked[w].wellFormed
             \/ /\ asked[w].target # "file" /\ asked[w].method \in {"GET", "PUT"}
                /\ asked[w].method = "PUT" => asked[w].target # "all" /\ asked[w].wellFormed
       \/ step[w] = "read" /\ (Wanted(w) \ rows[w] # {} \/ rows[w] = Wanted(w))
       \/ step[w] \in {"execute", "reserve", "update", "write", "answer"}

\* How many steps a request may still take: all before the rows, one per row, and
\* those that follow.
Rank(w) == [idle |-> 0, answer |-> 1, write |-> 2, update |-> 3, reserve |-> 4,
            read |-> 2 + Cardinality(Wanted(w) \ rows[w]),
            execute |-> Cardinality(Keys) + 5, route |-> Cardinality(Keys) + 6][step[w]]

\* Requests are handled while the server serves.
ServedInv == Serving \/ \A w \in Workers : asked[w] = None

\* No request waits for another one: whatever the others hold, it has a step.
HasAStep == \A w \in Workers : asked[w] # None => CanHandle(w)

\* Each step of a request leaves it fewer, and nobody else's step changes that.
ShorterEachStep(w) == asked[w] # None /\ asked'[w] # None =>
                         IF Handle(w) THEN Rank(w)' < Rank(w) ELSE Rank(w)' = Rank(w)

LEMMA RankIs ==
  ASSUME NEW w \in Workers
  PROVE  /\ step[w] = "idle" => Rank(w) = 0
         /\ step[w] = "answer" => Rank(w) = 1
         /\ step[w] = "write" => Rank(w) = 2
         /\ step[w] = "update" => Rank(w) = 3
         /\ step[w] = "reserve" => Rank(w) = 4
         /\ step[w] = "read" => Rank(w) = 2 + Cardinality(Wanted(w) \ rows[w])
         /\ step[w] = "execute" => Rank(w) = Cardinality(Keys) + 5
         /\ step[w] = "route" => Rank(w) = Cardinality(Keys) + 6
  BY DEF Rank

LEMMA ServedStep == ASSUME ServedInv, [Next]_vars PROVE ServedInv'
  <1>1. CASE \E w \in Workers : Accept(w) \/ Handle(w)
    <2>1. Serving /\ phase' = phase
      BY <1>1 DEF Accept, Handle, RouteElsewhere, RejectBody, OpenDb, TakeShared, ReadRow, Finish,
                  Reserve, Commit, Write, Answer, At, Serving, Quiet
    <2> QED
      BY <2>1 DEF ServedInv, Serving
  <1>2. CASE Killed \/ Stop
    BY <1>2 DEF Killed, Stop, Ends, Idle, ServedInv
  <1>3. CASE Load \/ WaitForShutdown \/ Raise \/ Shutdown \/ Restart \/ UNCHANGED vars
    BY <1>3 DEF Load, WaitForShutdown, Raise, Shutdown, Restart, vars, workerVars, ServedInv, Serving
  <1> QED
    BY <1>1, <1>2, <1>3 DEF Next

\* Only a server that serves has requests under way: one that ends takes its
\* threads with it (http.cppm:182-196).
THEOREM Served == Spec => []ServedInv
  <1>1. Init => ServedInv
    BY DEF Init, Idle, ServedInv
  <1> QED
    BY <1>1, ServedStep, PTL DEF Spec

\* A thread that has a request is never blocked, however many others read, hold
\* RESERVED or commit (configsrv.cpp:80-164).
THEOREM NeverBlocked == Spec => []HasAStep
  <1>1. LockInv /\ ServedInv => HasAStep
    <2> SUFFICES ASSUME LockInv, ServedInv, NEW w \in Workers, asked[w] # None PROVE CanHandle(w)
      BY DEF HasAStep
    <2> QED
      BY DEF CanHandle, LockInv, ServedInv, Protocol, Busy, Shown, Types, Steps
  <1> QED
    BY <1>1, LockProtocol, Served, PTL

LEMMA Sizes ==
  ASSUME IsFiniteSet(Keys), LockInv, NEW w \in Workers
  PROVE  /\ Cardinality(Keys) \in Nat
         /\ IsFiniteSet(Wanted(w) \ rows[w])
         /\ Cardinality(Wanted(w) \ rows[w]) \in Nat
         /\ Cardinality(Wanted(w) \ rows[w]) <= Cardinality(Keys)
  <1>1. Wanted(w) \ rows[w] \subseteq Keys
    BY WantedIs
  <1>2. /\ IsFiniteSet(Wanted(w) \ rows[w])
        /\ Cardinality(Wanted(w) \ rows[w]) <= Cardinality(Keys)
    BY <1>1, FS_Subset
  <1>3. Cardinality(Keys) \in Nat /\ Cardinality(Wanted(w) \ rows[w]) \in Nat
    BY <1>2, FS_CardinalityType
  <1> QED
    BY <1>2, <1>3

LEMMA RankStays ==
  ASSUME NEW w \in Workers, step'[w] = step[w], asked'[w] = asked[w], rows'[w] = rows[w]
  PROVE  Rank(w)' = Rank(w)
  BY DEF Rank, Wanted

\* From the routing to the answer.
LEMMA SendLowers ==
  ASSUME IsFiniteSet(Keys), LockInv, NEW w \in Workers, NEW a, Send(w, a),
         step[w] \notin {"idle", "answer"}
  PROVE  Rank(w)' < Rank(w)
  <1>1. step'[w] = "answer"
    BY DEF Send, GoTo, LockInv, Types
  <1>2. Rank(w)' = 1
    BY <1>1, RankIs DEF Rank
  <1>3. Rank(w) > 1
    <2>1. step[w] \in {"route", "execute", "read", "reserve", "update", "write"}
      BY DEF LockInv, Types, Steps
    <2>2. Cardinality(Keys) \in Nat /\ Cardinality(Wanted(w) \ rows[w]) \in Nat
      BY Sizes
    <2>3. \/ Rank(w) = 2 \/ Rank(w) = 3 \/ Rank(w) = 4
          \/ step[w] = "read" /\ Rank(w) = 2 + Cardinality(Wanted(w) \ rows[w])
          \/ Rank(w) = Cardinality(Keys) + 5 \/ Rank(w) = Cardinality(Keys) + 6
      BY <2>1, RankIs, Zenon
    <2> QED
      BY <2>2, <2>3
  <1> QED
    BY <1>2, <1>3

LEMMA GoOnLowers ==
  ASSUME IsFiniteSet(Keys), LockInv, NEW w \in Workers, NEW s, GoTo(w, s),
         asked' = asked, rows' = rows,
         \/ step[w] = "route" /\ s = "execute"
         \/ step[w] = "execute" /\ s \in {"read", "reserve"}
         \/ step[w] = "reserve" /\ s = "update"
         \/ step[w] = "update" /\ s = "write"
  PROVE  Rank(w)' < Rank(w)
  <1>1. step'[w] = s
    BY DEF GoTo, LockInv, Types
  <1>2. /\ Cardinality(Keys) \in Nat /\ Cardinality(Wanted(w) \ rows[w]) \in Nat
        /\ Cardinality(Wanted(w) \ rows[w]) <= Cardinality(Keys)
    BY Sizes
  <1>3. /\ s = "execute" => Rank(w)' = Cardinality(Keys) + 5
        /\ s = "read" => Rank(w)' = 2 + Cardinality(Wanted(w) \ rows[w])
        /\ s = "reserve" => Rank(w)' = 4
        /\ s = "update" => Rank(w)' = 3
        /\ s = "write" => Rank(w)' = 2
    BY <1>1 DEF Rank, Wanted
  <1> QED
    BY <1>2, <1>3, RankIs

LEMMA ReadLowers ==
  ASSUME IsFiniteSet(Keys), LockInv, NEW w \in Workers, ReadRow(w)
  PROVE  Rank(w)' < Rank(w)
  <1>1. PICK k \in Wanted(w) \ rows[w] : rows' = [rows EXCEPT ![w] = @ \cup {k}]
    BY DEF ReadRow
  <1>2. /\ step' = step /\ asked' = asked /\ step[w] = "read"
        /\ rows'[w] = rows[w] \cup {k} /\ Wanted(w)' = Wanted(w)
    BY <1>1 DEF ReadRow, At, LockInv, Types, Wanted
  <1>3. (Wanted(w) \ rows[w])' = (Wanted(w) \ rows[w]) \ {k}
    BY <1>2
  <1>4. Cardinality((Wanted(w) \ rows[w]) \ {k}) = Cardinality(Wanted(w) \ rows[w]) - 1
    BY Sizes, FS_RemoveElement
  <1>5. Rank(w)' = 2 + Cardinality((Wanted(w) \ rows[w]) \ {k})
    BY <1>2, <1>3 DEF Rank
  <1>6. Cardinality(Wanted(w) \ rows[w]) \in Nat /\ Rank(w) = 2 + Cardinality(Wanted(w) \ rows[w])
    BY <1>2, RankIs, Sizes
  <1>7. \A n \in Nat : 2 + (n - 1) < 2 + n
    OBVIOUS
  <1> QED
    BY <1>4, <1>5, <1>6, <1>7, Zenon

LEMMA HandleLowers ==
  ASSUME IsFiniteSet(Keys), LockInv, NEW w \in Workers, Handle(w)
  PROVE  asked'[w] = None \/ Rank(w)' < Rank(w)
  <1>2. CASE RouteElsewhere(w) \/ RejectBody(w) \/ Finish(w) \/ Write(w)
    BY <1>2, SendLowers DEF RouteElsewhere, RejectBody, Finish, Write, At
  <1>3. CASE OpenDb(w)
    BY <1>3, SendLowers, GoOnLowers DEF OpenDb, At
  <1>4. CASE TakeShared(w)
    BY <1>4, SendLowers, GoOnLowers DEF TakeShared, At
  <1>5. CASE ReadRow(w)
    BY <1>5, ReadLowers
  <1>6. CASE Reserve(w)
    BY <1>6, SendLowers, GoOnLowers DEF Reserve, At
  <1>7. CASE Commit(w)
    BY <1>7, SendLowers, GoOnLowers DEF Commit, At
  <1>8. CASE Answer(w)
    BY <1>8 DEF Answer, LockInv, Types
  <1> QED
    BY <1>2, <1>3, <1>4, <1>5, <1>6, <1>7, <1>8 DEF Handle

\* What others do leaves a request as it is, unless the process ends.
LEMMA OthersLeave ==
  ASSUME LockInv, [Next]_vars, NEW w \in Workers, ~Handle(w), asked[w] # None
  PROVE  asked'[w] = None \/ (asked'[w] = asked[w] /\ step'[w] = step[w] /\ rows'[w] = rows[w])
  <1>1. CASE \E v \in Workers : Accept(v)
    <2>1. PICK v \in Workers : Accept(v)
      BY <1>1
    <2>2. v # w
      BY <2>1 DEF Accept, LockInv, Protocol, Busy
    <2> QED
      BY <2>1, <2>2 DEF Accept, GoTo, LockInv, Types
  <1>2. CASE \E v \in Workers : Handle(v)
    <2>1. PICK v \in Workers : Handle(v)
      BY <1>2
    <2>2. v # w
      BY <2>1
    <2>3. /\ \/ asked' = asked \/ asked' = [asked EXCEPT ![v] = None]
          /\ step' = step \/ \E s : step' = [step EXCEPT ![v] = s]
          /\ rows' = rows \/ \E r : rows' = [rows EXCEPT ![v] = r]
      BY <2>1 DEF Handle, RouteElsewhere, RejectBody, OpenDb, TakeShared, ReadRow, Finish,
                  Reserve, Commit, Write, Answer, Send, GoTo
    <2> QED
      BY <2>2, <2>3 DEF LockInv, Types
  <1>3. CASE Killed \/ Stop
    BY <1>3 DEF Killed, Stop, Ends, Idle
  <1>4. CASE Load \/ WaitForShutdown \/ Raise \/ Shutdown \/ Restart \/ UNCHANGED vars
    BY <1>4 DEF Load, WaitForShutdown, Raise, Shutdown, Restart, vars, workerVars
  <1> QED
    BY <1>1, <1>2, <1>3, <1>4 DEF Next

\* A request ends after finitely many of its own steps, and no other step makes
\* its way longer (configsrv.cpp:80-164).
THEOREM EveryStepShortens ==
  ASSUME IsFiniteSet(Keys)
  PROVE  Spec => [][\A w \in Workers : ShorterEachStep(w)]_vars
  <1>1. ASSUME LockInv, [Next]_vars PROVE \A w \in Workers : ShorterEachStep(w)
    BY <1>1, HandleLowers, OthersLeave, RankStays DEF ShorterEachStep
  <1> QED
    BY <1>1, LockProtocol, PTL DEF Spec

-----------------------------------------------------------------------------
\* The temporal prover knows no induction over numbers.  It is given the rank of a
\* request digit by digit: above some digit nothing changes any more, so that
\* the digit can only fall, and then does not change either.
Digit(w, k) == (Rank(w) \div k) % 2 = 1
Above(w, k) == Rank(w)' \div k = Rank(w) \div k

LEMMA Halves ==
  ASSUME NEW r \in 0 .. 63
  PROVE  /\ \A k \in {1, 2, 4, 8, 16, 32} : r \div k \in Nat /\ r \div (2 * k) = (r \div k) \div 2
         /\ r \div 64 = 0 /\ r \div 1 = r
  <1>1. ASSUME NEW k \in {1, 2, 4, 8, 16, 32}
        PROVE  r \div k \in Nat /\ r \div (2 * k) = (r \div k) \div 2
    OBVIOUS
  <1> QED
    BY <1>1

LEMMA Monotone ==
  ASSUME NEW r \in 0 .. 63, NEW s \in 0 .. 63, s <= r, NEW k \in {1, 2, 4, 8, 16, 32}
  PROVE  s \div k <= r \div k
  OBVIOUS

LEMMA DigitFalls ==
  ASSUME NEW q \in Nat, NEW p \in Nat, p \div 2 = q \div 2
  PROVE  /\ p <= q /\ p % 2 = 1 => q % 2 = 1
         /\ p = q <=> (p % 2 = 1 <=> q % 2 = 1)
  OBVIOUS

LEMMA RankRange ==
  ASSUME IsFiniteSet(Keys), Cardinality(Keys) <= 57, LockInv, NEW w \in Workers
  PROVE  Rank(w) \in 0 .. 63
  <1>1. Cardinality(Keys) \in Nat /\ Cardinality(Wanted(w) \ rows[w]) \in Nat
        /\ Cardinality(Wanted(w) \ rows[w]) <= Cardinality(Keys)
    BY Sizes
  <1>2. step[w] \in Steps
    BY DEF LockInv, Types
  <1> QED
    BY <1>1, <1>2, RankIs DEF Steps

Waits(w) == LockInv /\ HasAStep /\ asked[w] # None

\* Threads that have something to do go on: the weak fairness of Handle(w), with
\* its guards written out.
ThreadsRun == \A w \in Workers : []<>~CanHandle(w) \/ []<><<Handle(w)>>_vars

\* Every request is answered, however many there are at a time and whatever they
\* read or write, in a table of up to 57 settings (scripts/seed_config.fsx:135 seeds 37).
THEOREM AllAnswered ==
  ASSUME IsFiniteSet(Keys), Cardinality(Keys) <= 57
  PROVE  Spec /\ ThreadsRun => RequestsAnswered
  <1>1. ASSUME NEW w \in Workers
        PROVE  Spec /\ ThreadsRun => (asked[w] # None ~> asked[w] = None)
    <2>1. LockInv => Rank(w) \in 0 .. 63
      BY RankRange
    <2>2. LockInv' => (Rank(w) \in 0 .. 63)'
      BY <2>1, PTL
    <2>3. ASSUME Waits(w), [Next]_vars, Waits(w)'
          PROVE  /\ Rank(w) \in 0 .. 63 /\ Rank(w)' \in 0 .. 63 /\ Rank(w)' <= Rank(w)
                 /\ Handle(w) => Rank(w)' # Rank(w)
      BY <2>1, <2>2, <2>3, HandleLowers, OthersLeave, RankStays DEF Waits
    <2>4. ASSUME Waits(w), [Next]_vars, Waits(w)', NEW k \in {1, 2, 4, 8, 16, 32}
          PROVE  Above(w, 2 * k) => /\ Digit(w, k)' => Digit(w, k)
                                    /\ Above(w, k) <=> (Digit(w, k)' <=> Digit(w, k))
      <3> DEFINE r == Rank(w)  s == Rank(w)'
      <3>1. r \in 0 .. 63 /\ s \in 0 .. 63 /\ s <= r
        BY <2>3, <2>4
      <3> HIDE DEF r, s
      <3>2. /\ r \div k \in Nat /\ r \div (2 * k) = (r \div k) \div 2
            /\ s \div k \in Nat /\ s \div (2 * k) = (s \div k) \div 2
            /\ s \div k <= r \div k
        BY <2>4, <3>1, Halves, Monotone
      <3>3. s \div (2 * k) = r \div (2 * k) =>
               /\ (s \div k) % 2 = 1 => (r \div k) % 2 = 1
               /\ s \div k = r \div k <=> ((s \div k) % 2 = 1 <=> (r \div k) % 2 = 1)
        BY <3>2, DigitFalls
      <3> QED
        BY <3>3 DEF Above, Digit, r, s
    <2>5. ASSUME Waits(w), [Next]_vars, Waits(w)' PROVE Above(w, 64) /\ ~(Above(w, 1) /\ Handle(w))
      BY <2>3, <2>5, Halves DEF Above
    <2>6. \A k : UNCHANGED vars => Above(w, k)
      BY DEF vars, workerVars, Above, Rank, Wanted
    <2>7. Waits(w) /\ [Next]_vars /\ Waits(w)' => Above(w, 64) /\ ~(Above(w, 1) /\ Handle(w))
      BY <2>5
    <2>8. [][Next]_vars /\ []Waits(w) => <>[][Above(w, 32)]_vars
      <3>1. /\ Waits(w) /\ [Next]_vars /\ Waits(w)' /\ Above(w, 64)
                 => (Digit(w, 32)' => Digit(w, 32)) /\ (Above(w, 32) <=> (Digit(w, 32)' <=> Digit(w, 32)))
            /\ UNCHANGED vars => Above(w, 64)
        BY <2>4, <2>6
      <3> QED
        BY <3>1, <2>7, PTL
    <2>9. [][Next]_vars /\ []Waits(w) => <>[][Above(w, 16)]_vars
      <3>1. /\ Waits(w) /\ [Next]_vars /\ Waits(w)' /\ Above(w, 32)
                 => (Digit(w, 16)' => Digit(w, 16)) /\ (Above(w, 16) <=> (Digit(w, 16)' <=> Digit(w, 16)))
            /\ UNCHANGED vars => Above(w, 32)
        BY <2>4, <2>6
      <3> QED
        BY <3>1, <2>8, PTL
    <2>10. [][Next]_vars /\ []Waits(w) => <>[][Above(w, 8)]_vars
      <3>1. /\ Waits(w) /\ [Next]_vars /\ Waits(w)' /\ Above(w, 16)
                 => (Digit(w, 8)' => Digit(w, 8)) /\ (Above(w, 8) <=> (Digit(w, 8)' <=> Digit(w, 8)))
            /\ UNCHANGED vars => Above(w, 16)
        BY <2>4, <2>6
      <3> QED
        BY <3>1, <2>9, PTL
    <2>11. [][Next]_vars /\ []Waits(w) => <>[][Above(w, 4)]_vars
      <3>1. /\ Waits(w) /\ [Next]_vars /\ Waits(w)' /\ Above(w, 8)
                 => (Digit(w, 4)' => Digit(w, 4)) /\ (Above(w, 4) <=> (Digit(w, 4)' <=> Digit(w, 4)))
            /\ UNCHANGED vars => Above(w, 8)
        BY <2>4, <2>6
      <3> QED
        BY <3>1, <2>10, PTL
    <2>12. [][Next]_vars /\ []Waits(w) => <>[][Above(w, 2)]_vars
      <3>1. /\ Waits(w) /\ [Next]_vars /\ Waits(w)' /\ Above(w, 4)
                 => (Digit(w, 2)' => Digit(w, 2)) /\ (Above(w, 2) <=> (Digit(w, 2)' <=> Digit(w, 2)))
            /\ UNCHANGED vars => Above(w, 4)
        BY <2>4, <2>6
      <3> QED
        BY <3>1, <2>11, PTL
    <2>13. [][Next]_vars /\ []Waits(w) => <>[][Above(w, 1)]_vars
      <3>1. /\ Waits(w) /\ [Next]_vars /\ Waits(w)' /\ Above(w, 2)
                 => (Digit(w, 1)' => Digit(w, 1)) /\ (Above(w, 1) <=> (Digit(w, 1)' <=> Digit(w, 1)))
            /\ UNCHANGED vars => Above(w, 2)
        BY <2>4, <2>6
      <3> QED
        BY <3>1, <2>12, PTL
    <2>14. UNCHANGED vars => Above(w, 1)
      BY <2>6
    <2>15. [][Next]_vars /\ ([]<>~Waits(w) \/ []<><<Handle(w)>>_vars) => []<>~Waits(w)
      BY <2>7, <2>13, <2>14, PTL
    <2>16. Waits(w) => CanHandle(w)
      BY DEF HasAStep, Waits
    <2>17. ThreadsRun => []<>~CanHandle(w) \/ []<><<Handle(w)>>_vars
      BY DEF ThreadsRun
    <2>18. LockInv /\ HasAStep => (asked[w] = None <=> ~Waits(w)) /\ (asked[w] # None <=> Waits(w))
      BY DEF Waits
    <2> QED
      BY <2>15, <2>16, <2>17, <2>18, LockProtocol, NeverBlocked, PTL DEF Spec
  <1> QED
    BY <1>1 DEF RequestsAnswered

-----------------------------------------------------------------------------
\* The main thread, once sigwait can return, returns, and then leaves main: the
\* weak fairness of Shutdown and of Stop, with their guards written out.
MainRuns == /\ []<>~(phase = "waiting" /\ signal # "none") \/ []<><<Shutdown>>_vars
            /\ []<>~(phase = "stopping") \/ []<><<Stop>>_vars

\* A SIGTERM that finds the main thread in sigwait stops the server, whatever
\* requests are under way, where the threads of the pool block it (http.cppm:104).
THEOREM SigtermStops ==
  ASSUME "TERM" \in Blocked
  PROVE  Spec /\ MainRuns => TermStops
  <1>1. (phase = "waiting" /\ signal = "TERM") /\ [Next]_vars
           => (phase = "waiting" /\ signal = "TERM")' \/ (phase = "stopping")'
    <2> SUFFICES ASSUME phase = "waiting", signal = "TERM", [Next]_vars
                 PROVE  (phase = "waiting" /\ signal = "TERM")' \/ (phase = "stopping")'
      OBVIOUS
    <2>1. CASE \E w \in Workers : Accept(w) \/ Handle(w)
      BY <2>1 DEF Accept, Handle, RouteElsewhere, RejectBody, OpenDb, TakeShared, ReadRow, Finish,
                  Reserve, Commit, Write, Answer, Quiet
    <2> QED
      BY <2>1 DEF Next, Load, WaitForShutdown, Raise, Killed, Shutdown, Stop, Restart, vars
  <1>2. (phase = "waiting" /\ signal = "TERM") /\ <<Shutdown>>_vars => (phase = "stopping")'
    BY DEF Shutdown
  <1>3. phase = "stopping" /\ [Next]_vars => (phase = "stopping")' \/ (phase = "stopped")'
    <2> SUFFICES ASSUME phase = "stopping", [Next]_vars
                 PROVE  (phase = "stopping")' \/ (phase = "stopped")'
      OBVIOUS
    <2>1. CASE \E w \in Workers : Accept(w) \/ Handle(w)
      BY <2>1 DEF Accept, Handle, RouteElsewhere, RejectBody, OpenDb, TakeShared, ReadRow, Finish,
                  Reserve, Commit, Write, Answer, Quiet
    <2> QED
      BY <2>1 DEF Next, Load, WaitForShutdown, Raise, Killed, Shutdown, Stop, Ends, Restart, vars
  <1>4. phase = "stopping" /\ <<Stop>>_vars => (phase = "stopped")'
    BY DEF Stop, Ends
  <1>5. phase = "waiting" /\ signal = "TERM" => phase = "waiting" /\ signal # "none"
    OBVIOUS
  <1> QED
    BY <1>1, <1>2, <1>3, <1>4, <1>5, PTL DEF Spec, MainRuns, TermStops
=============================================================================
