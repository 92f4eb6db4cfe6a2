---------------------------- MODULE ConfigServer ----------------------------
(***************************************************************************)
(* configsrv.cpp on http.cppm: requests routed by worker threads, each     *)
(* with a connection of its own to one SQLite database, and the shutdown   *)
(* by a signal.  SQLite is modelled by its locks: nobody waits for one, a  *)
(* statement that meets a lock is told so at once.                         *)
(***************************************************************************)
EXTENDS Naturals, FiniteSets

CONSTANTS Workers,  \* the threads of the HTTP server's pool
          Keys,     \* the settings in the table
          Values,   \* what a setting may hold
          Numbers,  \* the values that std::stoi takes
          Requests, \* what clients ask: [method, target, value, wellFormed]
          Blocked,  \* the signals the pool's threads block
          None

\* What may be sent: a status and the part of the table that is shown.
Answers == [status : {200, 400, 404, 405, 500}, body : UNION {[ks -> Values] : ks \in SUBSET Keys}]

ASSUME ConfigAssumption == /\ None \notin Requests /\ None \notin Workers /\ None \notin Answers
                           /\ "configsrv_port" \in Keys /\ "all" \notin Keys /\ "file" \notin Keys
                           /\ \A r \in Requests : r.value \in Values

VARIABLES table,    \* the committed rows of table build
          step,     \* what a worker does next
          asked,    \* the request it handles
          rows,     \* the keys of the rows it has read
          body,     \* what it has put into the body so far
          answer,   \* the answer it sends
          shared,   \* the workers that hold a SHARED lock
          writer,   \* the worker that holds RESERVED
          writing,  \* whether it holds EXCLUSIVE
          phase,    \* what the main thread does
          signal    \* a signal that is pending for the process

lockVars   == <<shared, writer, writing>>
workerVars == <<step, asked, rows, body, answer>>
vars == <<table, workerVars, lockVars, phase, signal>>

Nothing == [k \in {} |-> None]
Refusal(status) == [status |-> status, body |-> Nothing]
Idle(what) == [w \in Workers |-> what]

Init == /\ table \in [Keys -> Values]
        /\ step = Idle("idle") /\ asked = Idle(None) /\ rows = Idle({}) /\ body = Idle(Nothing)
        /\ answer = Idle(None)
        /\ shared = {} /\ writer = None /\ writing = FALSE
        /\ phase = "loading" /\ signal = "none"

Serving == phase \in {"started", "waiting", "stopping"}

-----------------------------------------------------------------------------
\* A worker at one step, and where it goes.
At(w, s)     == Serving /\ step[w] = s
GoTo(w, s)   == step' = [step EXCEPT ![w] = s]
Send(w, a)   == GoTo(w, "answer") /\ answer' = [answer EXCEPT ![w] = a]
Quiet        == UNCHANGED <<phase, signal>>
Unlock(w)    == /\ shared' = shared \ {w}
                /\ writer' = IF writer = w THEN None ELSE writer
                /\ writing' = (writing /\ writer # w)

\* The server hands a connection to a thread of its pool.
Accept(w) == /\ phase \in {"started", "waiting"} /\ step[w] = "idle"
             /\ \E r \in Requests : asked' = [asked EXCEPT ![w] = r]
             /\ GoTo(w, "route")
             /\ rows' = [rows EXCEPT ![w] = {}] /\ body' = [body EXCEPT ![w] = Nothing]
             /\ UNCHANGED <<table, answer, lockVars>> /\ Quiet

\* No database: a method or a target that is not served, or a static file,
\* which may be gone before it is sent.
RouteElsewhere(w) ==
    /\ At(w, "route")
    /\ LET r == asked[w] IN
          \/ r.target = "file" /\ \E status \in {200, 404, 500} : Send(w, Refusal(status))
          \/ r.target # "file" /\ r.method \notin {"GET", "PUT"} /\ Send(w, Refusal(405))
          \/ r.target = "all" /\ r.method = "PUT" /\ Send(w, Refusal(400))
    /\ UNCHANGED <<table, asked, rows, body, lockVars>> /\ Quiet

\* A body that is no JSON object with a value throws; the HTTP server answers.
RejectBody(w) == /\ At(w, "route") /\ asked[w].method = "PUT"
                 /\ asked[w].target \notin {"all", "file"} /\ ~asked[w].wellFormed
                 /\ Send(w, Refusal(500))
                 /\ UNCHANGED <<table, asked, rows, body, lockVars>> /\ Quiet

\* sqlite3_open_v2, which may fail, with a well-formed request.
OpenDb(w) == /\ At(w, "route") /\ asked[w].target # "file"
             /\ asked[w].method \in {"GET", "PUT"}
             /\ asked[w].method = "PUT" => asked[w].target # "all" /\ asked[w].wellFormed
             /\ \/ GoTo(w, "execute") /\ UNCHANGED answer
                \/ Send(w, Refusal(500))
             /\ UNCHANGED <<table, asked, rows, body, lockVars>> /\ Quiet

\* What a statement that got no row answers: a list of nothing, or no such key.
NoRow(w) == Refusal(IF asked[w].target = "all" THEN 200 ELSE 404)

\* The first sqlite3_step takes a SHARED lock, unless somebody commits.
TakeShared(w) ==
    /\ At(w, "execute")
    /\ \/ /\ ~writing
          /\ shared' = shared \cup {w}
          /\ GoTo(w, IF asked[w].method = "PUT" THEN "reserve" ELSE "read")
          /\ UNCHANGED answer
       \/ writing /\ Send(w, NoRow(w)) /\ UNCHANGED shared
    /\ UNCHANGED <<table, asked, rows, body, writer, writing>> /\ Quiet

Wanted(w) == IF asked[w].target = "all" THEN Keys ELSE Keys \cap {asked[w].target}

\* The next row of the SELECT.
ReadRow(w) ==
    /\ At(w, "read")
    /\ \E k \in Wanted(w) \ rows[w] :
          /\ rows' = [rows EXCEPT ![w] = @ \cup {k}]
          /\ body' = [body EXCEPT ![w] = [x \in rows[w] \cup {k} |-> IF x = k THEN table[k] ELSE @[x]]]
    /\ UNCHANGED <<table, step, asked, answer, lockVars>> /\ Quiet

\* No more rows, or the one row of a key: finalize, close, answer.
Finish(w) == /\ At(w, "read") /\ rows[w] = Wanted(w)
             /\ Unlock(w)
             /\ Send(w, IF rows[w] = {} THEN NoRow(w) ELSE [status |-> 200, body |-> body[w]])
             /\ UNCHANGED <<table, asked, rows, body>> /\ Quiet

-----------------------------------------------------------------------------
\* Mutant: a PUT that meets another one tries again, its SHARED lock held.
BugReserve(w) ==
    /\ At(w, "reserve") /\ writer = None /\ writer' = w /\ GoTo(w, "update")
    /\ UNCHANGED <<table, asked, rows, body, answer, shared, writing>> /\ Quiet

\* An UPDATE takes RESERVED on top; one other PUT that holds it makes it fail.
Reserve(w) ==
    /\ At(w, "reserve")
    /\ \/ /\ writer = None /\ writer' = w
          /\ GoTo(w, "update")
          /\ UNCHANGED <<answer, shared, writing>>
       \/ writer # None /\ Unlock(w) /\ Send(w, NoRow(w))
    /\ UNCHANGED <<table, asked, rows, body>> /\ Quiet

\* Mutant: whether the UPDATE took place is not looked at.
BugCommit(w) ==
    /\ At(w, "update")
    /\ \/ /\ asked[w].target \in Keys /\ shared = {w}
          /\ writing' = TRUE /\ GoTo(w, "write")
          /\ UNCHANGED <<answer, shared, writer>>
       \/ /\ asked[w].target \notin Keys \/ shared # {w}
          /\ Unlock(w)
          /\ Send(w, [status |-> 200, body |-> [k \in {asked[w].target} |-> asked[w].value]])
    /\ UNCHANGED <<table, asked, rows, body>> /\ Quiet

\* Commit: EXCLUSIVE needs that nobody reads; else the UPDATE is rolled back.
\* An UPDATE of no row has nothing to write.  Both count no changes.
Commit(w) ==
    /\ At(w, "update")
    /\ \/ /\ asked[w].target \in Keys /\ shared = {w}
          /\ writing' = TRUE /\ GoTo(w, "write")
          /\ UNCHANGED <<answer, shared, writer>>
       \/ /\ asked[w].target \notin Keys \/ shared # {w}
          /\ Unlock(w) /\ Send(w, NoRow(w))
    /\ UNCHANGED <<table, asked, rows, body>> /\ Quiet

\* The journal is deleted: the change is committed.
Write(w) == /\ At(w, "write")
            /\ table' = [table EXCEPT ![asked[w].target] = asked[w].value]
            /\ Unlock(w)
            /\ Send(w, [status |-> 200, body |-> [k \in {asked[w].target} |-> asked[w].value]])
            /\ UNCHANGED <<asked, rows, body>> /\ Quiet

\* handleRequest writes the response and returns.
Answer(w) == /\ At(w, "answer") /\ GoTo(w, "idle")
             /\ asked' = [asked EXCEPT ![w] = None] /\ answer' = [answer EXCEPT ![w] = None]
             /\ rows' = [rows EXCEPT ![w] = {}] /\ body' = [body EXCEPT ![w] = Nothing]
             /\ UNCHANGED <<table, lockVars>> /\ Quiet

Handle(w) == \/ RouteElsewhere(w) \/ RejectBody(w) \/ OpenDb(w) \/ TakeShared(w) \/ ReadRow(w) \/ Finish(w)
             \/ Reserve(w) \/ Commit(w) \/ Write(w) \/ Answer(w)

-----------------------------------------------------------------------------
\* The process is gone: its threads, its locks, and what was not committed.
Ends(p) == /\ phase' = p /\ signal' = "none"
           /\ step' = Idle("idle") /\ asked' = Idle(None) /\ rows' = Idle({}) /\ body' = Idle(Nothing)
           /\ answer' = Idle(None)
           /\ shared' = {} /\ writer' = None /\ writing' = FALSE
           /\ UNCHANGED table

\* load_config and the constructor, which starts the threads.  A port that is no
\* number ends the program, and so do a database and a port that cannot be opened.
Load == /\ phase = "loading"
        /\ \/ table["configsrv_port"] \in Numbers /\ phase' = "started"
           \/ phase' = "failed"
        /\ UNCHANGED <<table, workerVars, lockVars, signal>>

\* The main thread blocks the signals and waits.
WaitForShutdown == /\ phase = "started" /\ phase' = "waiting"
                   /\ UNCHANGED <<table, workerVars, lockVars, signal>>

Raise == /\ phase \in {"started", "waiting"} /\ signal = "none"
         /\ signal' \in {"INT", "TERM"}
         /\ UNCHANGED <<table, workerVars, lockVars, phase>>

\* Mutant: the main thread does not block the signals before sigwait.
BugKilled == signal # "none" /\ phase # "stopping" /\ Ends("killed")

\* A thread that does not block the signal takes it, and the process ends.
Killed == /\ signal # "none" /\ phase # "stopping"
          /\ phase = "waiting" => signal \notin Blocked
          /\ Ends("killed")

\* sigwait takes any signal of its set; one that a thread of the pool does not block
\* may also end up with that thread.
Shutdown == /\ phase = "waiting" /\ signal # "none"
            /\ phase' = "stopping" /\ signal' = "none"
            /\ UNCHANGED <<table, workerVars, lockVars>>

\* ~server stops accepting; then main returns, whatever the threads do.
Stop == phase = "stopping" /\ Ends("stopped")

Restart == /\ phase \in {"stopped", "killed"} /\ phase' = "loading"
           /\ UNCHANGED <<table, workerVars, lockVars, signal>>

Next == \/ Load \/ WaitForShutdown \/ Raise \/ Killed \/ Shutdown \/ Stop \/ Restart
        \/ \E w \in Workers : Accept(w) \/ Handle(w)

Spec == Init /\ [][Next]_vars

\* Threads run and a pending signal is delivered; nobody has to ask or stop.
Fairness == /\ \A w \in Workers : WF_vars(Handle(w))
            /\ WF_vars(Load) /\ WF_vars(WaitForShutdown)
            /\ WF_vars(Killed) /\ WF_vars(Shutdown) /\ WF_vars(Stop)
FairSpec == Spec /\ Fairness

-----------------------------------------------------------------------------
\* Requests of concurrent workers behave as one table that each request reads
\* or writes in one step: a list is no mixture of two moments, a PUT answered
\* with 200 is in the table, and one answered otherwise is not
\* (configsrv.cpp:80-164).
Map == INSTANCE ConfigMap WITH given <- answer
MapSpec == Map!Spec

\* Every request is answered, whatever the others do, unless the server ends.
RequestsAnswered == \A w \in Workers : asked[w] # None ~> asked[w] = None

\* A SIGTERM that finds the main thread waiting stops the server (http.cppm:104).
TermStops == phase = "waiting" /\ signal = "TERM" ~> phase = "stopped"
=============================================================================
