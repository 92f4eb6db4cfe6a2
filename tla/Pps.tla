-------------------------------- MODULE Pps --------------------------------
(***************************************************************************)
(* The publish/subscribe bus of the kernel as the services in src/apps use *)
(* it.  The kernel is not part of the repository; the services rely on     *)
(* three things.  publish() sets one attribute of an object and keeps it.  *)
(* It then calls every matching subscriber before it returns: "callbacks   *)
(* fire synchronously inside publish()" (audiomgr.cpp:126).  A callback    *)
(* may publish in turn, and its publications finish before the statement   *)
(* that follows it in the callback.                                        *)
(*                                                                         *)
(* The one thread that runs all this is a stack of statements: work holds  *)
(* what is still to run, the innermost callback first.  A statement is a   *)
(* record whose field "do" names it.                                       *)
(***************************************************************************)
EXTENDS Sequences, Naturals

VARIABLES objects,  \* the attributes published so far: <<path, key>> -> value
          work,     \* the statements still to run
          subs      \* the services that have subscribed, in that order

busVars == <<objects, work, subs>>

\* A call of publish, and the point where a service makes its subscriptions.
Pub(path, key, value) ==
    [do |-> "publish", path |-> path, key |-> key, value |-> value]
Subscribe(service) == [do |-> "subscribe", service |-> service]

\* An attribute that has been published, with its value; or a value in its
\* place.
Published(path, key) == <<path, key>> \in DOMAIN objects
Reads(path, key, value) == Published(path, key) /\ objects[<<path, key>>] = value

WithAttribute(n) ==
    [x \in DOMAIN objects \cup {<<n.path, n.key>>} |->
        IF x = <<n.path, n.key>> THEN n.value ELSE objects[x]]

\* The statement about to run.  Nothing is left to run when the shell waits
\* for a line.
Quiet == work = <<>>
Runs(statement) == ~Quiet /\ Head(work).do = statement
Now == Head(work)

\* The statement is done, and what it called runs before what follows it.
Continue(called) == work' = called \o Tail(work)
=============================================================================
