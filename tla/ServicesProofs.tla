--------------------------- MODULE ServicesProofs ---------------------------
(***************************************************************************)
(* The services on their bus, for every setup, card, path and answer of    *)
(* the hardware.  What a state says is explained by the work that is left: *)
(* an open file by the statement that closes it, a status that is not true *)
(* yet by the statement that makes it true, a service that has not started *)
(* by the command that starts it, a title whose rate is another track's by *)
(* the statement that publishes its own, a request of the memory file      *)
(* system by the one statement that leads to its entry.  A step replaces   *)
(* the first statement by those it calls (Continued, Places), so such an   *)
(* invariant is kept when what it calls has, in its own order, what the    *)
(* first one stood for.  `Shape` says who can be in the work at all.       *)
(***************************************************************************)
EXTENDS Services, SequenceTheorems, WellFoundedInduction, TLAPS

-----------------------------------------------------------------------------
(***************************************************************************)
(* Sequences of statements.                                                *)
(***************************************************************************)

\* A sequence, whatever its elements are.
Proper(s) == s \in Seq({s[i] : i \in 1 .. Len(s)})

LEMMA ProperIntro ==
    ASSUME NEW S, NEW s \in Seq(S)
    PROVE  Proper(s)
<1>1. Len(s) \in Nat /\ s \in [1 .. Len(s) -> S]
  BY LenProperties
<1>2. s \in [1 .. Len(s) -> {s[i] : i \in 1 .. Len(s)}]
  BY <1>1
<1> QED
  BY <1>1, <1>2, SeqDef DEF Proper

LEMMA ProperFacts ==
    ASSUME NEW s, Proper(s)
    PROVE  /\ Len(s) \in Nat /\ DOMAIN s = 1 .. Len(s)
           /\ (s = <<>>) = (Len(s) = 0)
<1>1. Len(s) \in Nat /\ DOMAIN s = 1 .. Len(s)
  BY LenProperties DEF Proper
<1>2. (s = <<>>) = (Len(s) = 0)
  BY EmptySeq DEF Proper
<1> QED
  BY <1>1, <1>2

LEMMA ProperConcat ==
    ASSUME NEW s, NEW t, Proper(s), Proper(t)
    PROVE  /\ Proper(s \o t) /\ Len(s \o t) = Len(s) + Len(t)
           /\ \A i \in 1 .. Len(s) : (s \o t)[i] = s[i]
           /\ \A i \in 1 .. Len(t) : (s \o t)[Len(s) + i] = t[i]
<1> DEFINE S == {s[i] : i \in 1 .. Len(s)} \cup {t[i] : i \in 1 .. Len(t)}
<1>1. s \in Seq(S) /\ t \in Seq(S)
  BY SeqMonotonic DEF Proper
<1>2. s \o t \in Seq(S) /\ Len(s \o t) = Len(s) + Len(t)
  BY <1>1, ConcatProperties
<1>3. \A i \in 1 .. Len(s) + Len(t) : (s \o t)[i] = IF i <= Len(s) THEN s[i] ELSE t[i - Len(s)]
  BY <1>1, ConcatProperties
<1>4. Proper(s \o t)
  BY <1>2, ProperIntro
<1>5. Len(s) \in Nat /\ Len(t) \in Nat
  BY ProperFacts
<1> HIDE DEF S
<1> DEFINE m == Len(s)
           n == Len(t)
           u == s \o t
<1>6. \A i \in 1 .. m + n : u[i] = IF i <= m THEN s[i] ELSE t[i - m]
  BY <1>3
<1>7. m \in Nat /\ n \in Nat
  BY <1>5
<1> HIDE DEF m, n, u
<1>8. /\ \A i \in 1 .. m : u[i] = s[i]
      /\ \A i \in 1 .. n : u[m + i] = t[i]
  BY <1>6, <1>7
<1> QED
  BY <1>2, <1>4, <1>8 DEF m, n, u

LEMMA ProperPrefix ==
    ASSUME NEW x, NEW s, Proper(s)
    PROVE  /\ Proper(<<x>> \o s) /\ Len(<<x>> \o s) = Len(s) + 1
           /\ (<<x>> \o s)[1] = x
           /\ \A i \in 1 .. Len(s) : (<<x>> \o s)[i + 1] = s[i]
<1> DEFINE t == <<x>>
<1>1. Proper(t) /\ Len(t) = 1 /\ t[1] = x
  <2>1. t \in Seq({x})
    OBVIOUS
  <2> QED
    BY <2>1, ProperIntro
<1> HIDE DEF t
<1>3. Len(s) \in Nat
  BY ProperFacts
<1> DEFINE u == t \o s
<1> HIDE DEF u
<1>2. /\ Proper(u) /\ Len(u) = Len(t) + Len(s)
      /\ \A i \in 1 .. Len(t) : u[i] = t[i]
      /\ \A i \in 1 .. Len(s) : u[Len(t) + i] = s[i]
  <2>1. Proper(t)
    BY <1>1
  <2>2. Proper(t \o s)
    BY <2>1, ProperConcat
  <2>3. Len(t \o s) = Len(t) + Len(s)
    BY <2>1, ProperConcat
  <2>4. \A i \in 1 .. Len(t) : (t \o s)[i] = t[i]
    BY <2>1, ProperConcat
  <2>5. \A i \in 1 .. Len(s) : (t \o s)[Len(t) + i] = s[i]
    BY <2>1, ProperConcat
  <2> QED
    BY <2>2, <2>3, <2>4, <2>5 DEF u
<1>4. /\ Len(u) = Len(s) + 1 /\ u[1] = x
      /\ \A i \in 1 .. Len(s) : u[i + 1] = s[i]
  BY <1>1, <1>2, <1>3
<1> QED
  BY <1>2, <1>4 DEF t, u

LEMMA ProperTail ==
    ASSUME NEW s, Proper(s), s # <<>>
    PROVE  /\ Proper(Tail(s)) /\ Len(Tail(s)) = Len(s) - 1
           /\ \A i \in 1 .. Len(s) - 1 : Tail(s)[i] = s[i + 1]
<1>1. Tail(s) \in Seq({s[i] : i \in 1 .. Len(s)}) /\ Len(Tail(s)) = Len(s) - 1
  BY HeadTailProperties DEF Proper
<1>2. \A i \in 1 .. Len(Tail(s)) : Tail(s)[i] = s[i + 1]
  BY HeadTailProperties DEF Proper
<1> QED
  BY <1>1, <1>2, ProperIntro

\* The statements a handler may consist of.
LEMMA ProperTuples ==
    /\ Proper(<<>>) /\ Len(<<>>) = 0
    /\ \A a : Proper(<<a>>) /\ Len(<<a>>) = 1
    /\ \A a, b : Proper(<<a, b>>) /\ Len(<<a, b>>) = 2
    /\ \A a, b, c : Proper(<<a, b, c>>) /\ Len(<<a, b, c>>) = 3
    /\ \A a, b, c, d : Proper(<<a, b, c, d>>) /\ Len(<<a, b, c, d>>) = 4
    /\ \A a, b, c, d, e : Proper(<<a, b, c, d, e>>) /\ Len(<<a, b, c, d, e>>) = 5
    /\ \A a, b, c, d, e, f : Proper(<<a, b, c, d, e, f>>) /\ Len(<<a, b, c, d, e, f>>) = 6
<1>0. Proper(<<>>) /\ Len(<<>>) = 0
  BY DEF Proper
<1>1. ASSUME NEW a PROVE Proper(<<a>>) /\ Len(<<a>>) = 1
  <2>1. <<a>> \in Seq({a})
    OBVIOUS
  <2> QED
    BY <2>1, ProperIntro
<1>2. ASSUME NEW a, NEW b PROVE Proper(<<a, b>>) /\ Len(<<a, b>>) = 2
  <2>1. <<a, b>> \in Seq({a, b})
    OBVIOUS
  <2> QED
    BY <2>1, ProperIntro
<1>3. ASSUME NEW a, NEW b, NEW c PROVE Proper(<<a, b, c>>) /\ Len(<<a, b, c>>) = 3
  <2>1. <<a, b, c>> \in Seq({a, b, c})
    OBVIOUS
  <2> QED
    BY <2>1, ProperIntro
<1>4. ASSUME NEW a, NEW b, NEW c, NEW d PROVE Proper(<<a, b, c, d>>) /\ Len(<<a, b, c, d>>) = 4
  <2>1. <<a, b, c, d>> \in Seq({a, b, c, d})
    OBVIOUS
  <2> QED
    BY <2>1, ProperIntro
<1>5. ASSUME NEW a, NEW b, NEW c, NEW d, NEW e
      PROVE Proper(<<a, b, c, d, e>>) /\ Len(<<a, b, c, d, e>>) = 5
  <2>1. <<a, b, c, d, e>> \in Seq({a, b, c, d, e})
    OBVIOUS
  <2> QED
    BY <2>1, ProperIntro
<1>6. ASSUME NEW a, NEW b, NEW c, NEW d, NEW e, NEW f
      PROVE Proper(<<a, b, c, d, e, f>>) /\ Len(<<a, b, c, d, e, f>>) = 6
  <2>1. <<a, b, c, d, e, f>> \in Seq({a, b, c, d, e, f})
    OBVIOUS
  <2> QED
    BY <2>1, ProperIntro
<1> QED
  BY <1>0, <1>1, <1>2, <1>3, <1>4, <1>5, <1>6

\* A step puts what it calls in front of what is left, in its place.
LEMMA Continued ==
    ASSUME Proper(work), ~Quiet, NEW called, Proper(called), Continue(called)
    PROVE  /\ Proper(work') /\ Len(work') = Len(called) + Len(work) - 1
           /\ \A i \in 1 .. Len(called) : work'[i] = called[i]
           /\ \A i \in 2 .. Len(work) : work'[Len(called) + i - 1] = work[i]
<1>1. /\ Proper(Tail(work)) /\ Len(Tail(work)) = Len(work) - 1
      /\ \A i \in 1 .. Len(work) - 1 : Tail(work)[i] = work[i + 1]
  BY ProperTail DEF Quiet
<1>2. /\ Proper(work') /\ Len(work') = Len(called) + (Len(work) - 1)
      /\ \A i \in 1 .. Len(called) : work'[i] = called[i]
      /\ \A i \in 1 .. Len(work) - 1 : work'[Len(called) + i] = Tail(work)[i]
  <2> DEFINE t == Tail(work)
  <2>1. work' = called \o t
    BY DEF Continue
  <2>2. Proper(t)
    BY <1>1
  <2> HIDE DEF t
  <2>3. /\ Proper(called \o t) /\ Len(called \o t) = Len(called) + Len(t)
        /\ \A i \in 1 .. Len(called) : (called \o t)[i] = called[i]
        /\ \A i \in 1 .. Len(t) : (called \o t)[Len(called) + i] = t[i]
    BY <2>2, ProperConcat
  <2>4. /\ Proper(work') /\ Len(work') = Len(called) + Len(t)
        /\ \A i \in 1 .. Len(called) : work'[i] = called[i]
        /\ \A i \in 1 .. Len(t) : work'[Len(called) + i] = t[i]
    BY <2>1, <2>3, Zenon
  <2> QED
    BY <1>1, <2>4, Zenon DEF t
<1>3. Len(work) \in Nat /\ Len(called) \in Nat
  BY ProperFacts
<1> DEFINE m == Len(work)
           n == Len(called)
           w == work'
           t == Tail(work)
<1>4. /\ m \in Nat /\ n \in Nat
      /\ \A i \in 1 .. m - 1 : t[i] = work[i + 1]
      /\ \A i \in 1 .. m - 1 : w[n + i] = t[i]
  BY <1>1, <1>2, <1>3
<1> HIDE DEF m, n, w, t
<1>5. \A i \in 2 .. m : w[n + i - 1] = work[i]
  <2> TAKE i \in 2 .. m
  <2>1. i - 1 \in 1 .. m - 1 /\ n + (i - 1) = n + i - 1 /\ (i - 1) + 1 = i
    BY <1>4
  <2> QED
    BY <1>4, <2>1
<1>6. Len(w) = n + m - 1
  <2>1. Len(w) = n + (m - 1)
    BY <1>2 DEF m, n, w
  <2> QED
    BY <1>4, <2>1
<1>7. \A i \in 2 .. Len(work) : work'[Len(called) + i - 1] = work[i]
  BY <1>5 DEF m, n, w
<1>8. Len(work') = Len(called) + Len(work) - 1
  BY <1>6 DEF m, n, w
<1> QED
  BY <1>2, <1>7, <1>8

-----------------------------------------------------------------------------
(***************************************************************************)
(* What the services call.                                                 *)
(***************************************************************************)

\* A notification, or its publication, of a state of audiomgr's.
Says(n, state) == n.path = "audio/status" /\ n.key = "state" /\ n.value = state

\* Statements that neither change the DAC's mute or the bar nor lead to one that
\* does.
Harmless(s) ==
    \/ s.do \in {"volume", "clear", "dongle", "emmc reset", "append", "remove", "open", "decode",
                 "free", "close", "list"}
    \/ s.do = "subscribe" /\ s.service \in ServiceNames
    \/ s.do = "publish" /\ ~Says(s, "playing") /\ ~Says(s, "muted")

AllHarmless(c) == Proper(c) /\ \A i \in 1 .. Len(c) : Harmless(c[i])

\* Of these, the ones that leave the status of genetmgr and httpmgr and the table
\* of the memory file system alone.
Steady(s) == /\ Harmless(s) /\ s.do \notin {"append", "remove"}
             /\ s.do = "publish" => s.path \notin {"net/status", "http/status"}

AllSteady(c) == Proper(c) /\ \A i \in 1 .. Len(c) : Steady(c[i])

LEMMA SteadyIsHarmless ==
    ASSUME NEW c, AllSteady(c)
    PROVE  AllHarmless(c)
BY DEF AllSteady, AllHarmless, Steady

LEMMA SteadyPublications ==
    ASSUME NEW path, NEW key, NEW value,
           path # "audio/status" \/ key # "state" \/ value \in {"idle", "removed"},
           path \notin {"net/status", "http/status"}
    PROVE  Steady(Pub(path, key, value))
BY DEF Steady, Harmless, Pub, Says

LEMMA SteadyStatements ==
    /\ \A service \in ServiceNames : Steady(Subscribe(service))
    /\ Steady([do |-> "clear"]) /\ Steady([do |-> "emmc reset"]) /\ Steady(Close)
    /\ Steady([do |-> "list"])
    /\ \A x : Steady([do |-> "volume", level |-> x]) /\ Steady([do |-> "dongle", present |-> x])
    /\ \A x : Steady([do |-> "open", track |-> x]) /\ Steady([do |-> "decode", track |-> x])
    /\ \A x : Steady([do |-> "free", buffer |-> x])
BY DEF Steady, Harmless, Subscribe, Close

LEMMA SteadyTuples ==
    /\ AllSteady(<<>>)
    /\ \A a : Steady(a) => AllSteady(<<a>>)
    /\ \A a, b : Steady(a) /\ Steady(b) => AllSteady(<<a, b>>)
    /\ \A a, b, c : Steady(a) /\ Steady(b) /\ Steady(c) => AllSteady(<<a, b, c>>)
    /\ \A a, b, c, d : Steady(a) /\ Steady(b) /\ Steady(c) /\ Steady(d)
                          => AllSteady(<<a, b, c, d>>)
    /\ \A a, b, c, d, e, f : Steady(a) /\ Steady(b) /\ Steady(c) /\ Steady(d) /\ Steady(e)
                                /\ Steady(f) => AllSteady(<<a, b, c, d, e, f>>)
BY ProperTuples DEF AllSteady

\* Of these, the ones storagemgr has no part in: they neither play a track nor
\* say anything of it.
TrackKeys == {"title", "sample_rate", "channels"}

Trackless(s) ==
    /\ s.do \notin {"open", "decode"}
    /\ s.do = "subscribe" => s.service # "storage"
    /\ s.do = "publish" => /\ s.path # "cmd/play"
                           /\ s.path = "audio/status" => s.key \notin TrackKeys

\* And the ones that have nothing to do with the table of the memory file system.
Fileless(s) ==
    /\ s.do \notin {"append", "remove"}
    /\ s.do = "subscribe" => s.service # "memfs"
    /\ s.do = "publish" => s.path # "cmd/store"

Apart(s) == Trackless(s) /\ Fileless(s)

AllTrackless(c) == \A i \in 1 .. Len(c) : Trackless(c[i])
AllApart(c)     == \A i \in 1 .. Len(c) : Apart(c[i])

Aside(s)    == Steady(s) /\ Apart(s)
AllAside(c) == AllSteady(c) /\ AllApart(c)

LEMMA AsidePublications ==
    ASSUME NEW path, NEW key, NEW value,
           \/ path # "audio/status" \/ key \notin TrackKeys \cup {"state"}
           \/ key = "state" /\ value \in {"idle", "removed"},
           path \notin {"net/status", "http/status", "cmd/play", "cmd/store"}
    PROVE  Aside(Pub(path, key, value))
<1>1. Steady(Pub(path, key, value))
  BY SteadyPublications
<1>2. Apart(Pub(path, key, value))
  BY DEF Apart, Trackless, Fileless, Pub, TrackKeys
<1> QED
  BY <1>1, <1>2 DEF Aside

LEMMA AsideStatements ==
    /\ \A service \in ServiceNames \ {"storage", "memfs"} : Aside(Subscribe(service))
    /\ Aside([do |-> "clear"]) /\ Aside([do |-> "emmc reset"]) /\ Aside(Close)
    /\ Aside([do |-> "list"])
    /\ \A x : Aside([do |-> "volume", level |-> x]) /\ Aside([do |-> "dongle", present |-> x])
    /\ \A x : Aside([do |-> "free", buffer |-> x])
BY SteadyStatements DEF Aside, Apart, Trackless, Fileless, Subscribe, Close

LEMMA ApartTuples ==
    /\ AllApart(<<>>)
    /\ \A a : Apart(a) => AllApart(<<a>>)
    /\ \A a, b : Apart(a) /\ Apart(b) => AllApart(<<a, b>>)
    /\ \A a, b, c : Apart(a) /\ Apart(b) /\ Apart(c) => AllApart(<<a, b, c>>)
    /\ \A a, b, c, d : Apart(a) /\ Apart(b) /\ Apart(c) /\ Apart(d) => AllApart(<<a, b, c, d>>)
    /\ \A a, b, c, d, e, f : Apart(a) /\ Apart(b) /\ Apart(c) /\ Apart(d) /\ Apart(e) /\ Apart(f)
                                => AllApart(<<a, b, c, d, e, f>>)
BY ProperTuples DEF AllApart

LEMMA AsideTuples ==
    /\ AllAside(<<>>)
    /\ \A a : Aside(a) => AllAside(<<a>>)
    /\ \A a, b : Aside(a) /\ Aside(b) => AllAside(<<a, b>>)
    /\ \A a, b, c : Aside(a) /\ Aside(b) /\ Aside(c) => AllAside(<<a, b, c>>)
    /\ \A a, b, c, d : Aside(a) /\ Aside(b) /\ Aside(c) /\ Aside(d)
                          => AllAside(<<a, b, c, d>>)
    /\ \A a, b, c, d, e, f : Aside(a) /\ Aside(b) /\ Aside(c) /\ Aside(d) /\ Aside(e)
                                /\ Aside(f) => AllAside(<<a, b, c, d, e, f>>)
BY ApartTuples, SteadyTuples DEF Aside, AllAside

\* What handlers call one after the other.
LEMMA ConcatElements ==
    ASSUME NEW c, NEW d, Proper(c), Proper(d)
    PROVE  /\ Proper(c \o d)
           /\ \A i \in 1 .. Len(c \o d) : \/ \E j \in 1 .. Len(c) : (c \o d)[i] = c[j]
                                          \/ \E j \in 1 .. Len(d) : (c \o d)[i] = d[j]
<1>1. /\ Proper(c \o d) /\ Len(c \o d) = Len(c) + Len(d)
      /\ \A i \in 1 .. Len(c) : (c \o d)[i] = c[i]
      /\ \A i \in 1 .. Len(d) : (c \o d)[Len(c) + i] = d[i]
  BY ProperConcat
<1>2. Len(c) \in Nat /\ Len(d) \in Nat
  BY ProperFacts
<1>3. ASSUME NEW i \in 1 .. Len(c \o d), i \notin 1 .. Len(c)
      PROVE  \E j \in 1 .. Len(d) : (c \o d)[i] = d[j]
  <2>1. i - Len(c) \in 1 .. Len(d) /\ Len(c) + (i - Len(c)) = i
    BY <1>1, <1>2, <1>3
  <2> QED
    BY <1>1, <2>1
<1> QED
  BY <1>1, <1>3

LEMMA SteadyConcat ==
    ASSUME NEW c, NEW d, AllSteady(c), AllSteady(d)
    PROVE  AllSteady(c \o d)
BY ConcatElements DEF AllSteady

LEMMA AsideConcat ==
    ASSUME NEW c, NEW d, AllAside(c), AllAside(d)
    PROVE  AllAside(c \o d)
<1>1. AllApart(c \o d)
  BY ConcatElements DEF AllAside, AllSteady, AllApart
<1> QED
  BY <1>1, SteadyConcat DEF AllAside

LEMMA EmmcCalls ==
    /\ AllAside(EmmcMain)
    /\ \A n : AllAside(EmmcHandles(n))
<1>1. Aside(Subscribe("emmc")) /\ Aside(Pub("cmd/mount", "value", 1))
  BY AsideStatements, AsidePublications DEF ServiceNames
<1> QED
  BY <1>1, AsideTuples, AsideStatements DEF EmmcMain, EmmcHandles

\* What genetmgr and httpmgr publish about themselves.
LEMMA HarmlessReports ==
    /\ \A key, value : Harmless(Pub("net/status", key, value))
    /\ \A key, value : Harmless(Pub("http/status", key, value))
    /\ \A s : Steady(s) => Harmless(s)
    /\ \A s : Aside(s) => Harmless(s)
BY DEF Harmless, Steady, Aside, Pub, Says

LEMMA GenetCalls ==
    /\ AllAside(GenetMain)
    /\ \A n : AllHarmless(GenetHandles(n))
<1>1. Aside(Subscribe("genet")) /\ Aside(Pub("cmd/netstart", "value", 1))
  BY AsideStatements, AsidePublications DEF ServiceNames
<1>2. ASSUME NEW a, NEW b, NEW c, NEW d, Harmless(a), Harmless(b), Harmless(c), Harmless(d)
      PROVE  AllHarmless(<<a, b, c, d>>)
  BY <1>2, ProperTuples DEF AllHarmless
<1>3. AllHarmless(<<Pub("net/status", "mac", "read from the UMAC"),
                    Pub("net/status", "state", "reset"),
                    Pub("net/status", "hostname", "rp4.local"),
                    Pub("net/status", "state", "waiting for PHY/DMA init")>>)
  BY <1>2, HarmlessReports, Zenon
<1> QED
  BY <1>1, <1>3, AsideTuples DEF GenetMain, GenetHandles

LEMMA HttpCalls ==
    /\ AllHarmless(HttpMain)
    /\ \A n : AllHarmless(HttpHandles(n))
<1>1. /\ Harmless(Subscribe("http")) /\ Harmless(Pub("cmd/httpstart", "value", 1))
      /\ \A key, value : Harmless(Pub("http/status", key, value))
  BY AsideStatements, AsidePublications, HarmlessReports DEF ServiceNames
<1>2. ASSUME NEW a, NEW b, Harmless(a), Harmless(b)
      PROVE  /\ AllHarmless(<<a, b>>)
             /\ \A c, d : Harmless(c) /\ Harmless(d) => AllHarmless(<<a, b, c, d>>)
  BY <1>2, ProperTuples DEF AllHarmless
<1>3. AllHarmless(HttpMain)
  <2>1. ASSUME NEW port
        PROVE  AllHarmless(<<Pub("http/status", "state", "init"), Pub("http/status", "port", port),
                             Subscribe("http"), Pub("cmd/httpstart", "value", 1)>>)
    BY <1>1, <1>2, Zenon
  <2> QED
    BY <2>1 DEF HttpMain
<1>4. \A n : AllHarmless(HttpHandles(n))
  BY <1>1, <1>2, Zenon DEF HttpHandles
<1> QED
  BY <1>3, <1>4

LEMMA UsbAudioCalls ==
    /\ AllAside(UsbAudioMain)
    /\ \A n : n.path \in Paths("usbaudio") => AllAside(UsbAudioHandles(n, caps))
<1>1. /\ Aside(Subscribe("usbaudio")) /\ Aside(Pub("cmd/usbinit", "value", 1))
      /\ \A key, value : Aside(Pub("usb/audio", key, value))
      /\ \A key, value : Aside(Pub("usb/status", key, value))
  BY AsideStatements, AsidePublications DEF ServiceNames
<1>2. AllAside(UsbAudioMain)
  BY <1>1, AsideTuples DEF UsbAudioMain
<1>3. ASSUME NEW n, n.path \in Paths("usbaudio") PROVE AllAside(UsbAudioHandles(n, caps))
  <2>1. AllAside(<<Pub("usb/status", "xhci_version", 1), Pub("usb/status", "ports", 5),
                      Pub("usb/audio", "state", "needs xHCI init")>>)
    BY <1>1, AsideTuples
  <2>2. AllAside(<<Pub("usb/audio", "state", "playing"), Pub("usb/audio", "frames", n.value),
                      Pub("usb/audio", "state", "idle")>>)
    BY <1>1, AsideTuples
  <2> QED
    BY <1>3, <2>1, <2>2, AsideTuples DEF UsbAudioHandles, Paths
<1> QED
  BY <1>2, <1>3

LEMMA BluetoothCalls ==
    /\ AllAside(BluetoothMain)
    /\ \A n : n.path \in Paths("bluetooth") => AllAside(BluetoothHandles(n))
<1>1. /\ Aside(Subscribe("bluetooth"))
      /\ \A key, value : Aside(BtStatus(key, value))
  BY AsideStatements, AsidePublications DEF ServiceNames, BtStatus
<1>2. AllAside(BluetoothMain)
  BY <1>1, AsideTuples DEF BluetoothMain
<1>3. ASSUME NEW n PROVE AllAside(UsbEvent(n))
  <2>1. AllAside(DongleFound(n.path)) /\ AllAside(DongleRemoved) /\ AllAside(<<>>)
    BY <1>1, AsideTuples, AsideStatements DEF DongleFound, DongleRemoved
  <2> QED
    BY <2>1, AsideConcat DEF UsbEvent
<1>4. AllAside(Pair) /\ AllAside(<<BtStatus("state", "disconnected")>>)
  BY <1>1, AsideTuples DEF Pair
<1> QED
  BY <1>2, <1>3, <1>4 DEF Paths, BluetoothPaths, BluetoothHandles

\* memfsmgr is not apart: it subscribes for the table and changes it.
\* One statement, if any.
Just(what, c) == c = <<>> \/ \E s : c = <<s>> /\ s.do = what

LEMMA MemFsCalls ==
    /\ AllSteady(MemFsMain) /\ AllTrackless(MemFsMain)
    /\ \A fs : AllAside(MemFsStatus(fs))
    /\ \A x : Just("append", Store(x)) /\ Just("remove", MemRm(x))
    /\ \A x : AllHarmless(Store(x)) /\ AllTrackless(Store(x))
    /\ \A x : AllHarmless(MemRm(x)) /\ AllTrackless(MemRm(x))
    /\ \A n : n.path \in Paths("memfs") =>
          \/ AllAside(MemFsHandles(n))
          \/ n.path = "cmd/store" /\ MemFsHandles(n) = Store(n.value)
          \/ n.path = "cmd/memrm" /\ MemFsHandles(n) = MemRm(n.value.name)
<1>1. /\ \A key, value : Aside(Pub("memfs/status", key, value))
      /\ \A key, value : Aside(Pub("memfs/loaded", key, value))
      /\ \A key, value : Aside(Pub("memfs/listing", key, value))
  BY AsidePublications
<1>2. ASSUME NEW fs PROVE AllAside(MemFsStatus(fs))
  BY <1>1, AsideTuples DEF MemFsStatus
<1>3. ASSUME NEW a, Steady(a), Trackless(a) PROVE AllSteady(<<a>>) /\ AllTrackless(<<a>>)
  BY <1>3, SteadyTuples, ProperTuples DEF AllTrackless
<1>4. AllSteady(<<>>) /\ AllTrackless(<<>>)
  BY SteadyTuples, ProperTuples DEF AllTrackless
<1>5. AllSteady(MemFsMain) /\ AllTrackless(MemFsMain)
  <2> DEFINE c == MemFsStatus(<<>>)
             d == <<Subscribe("memfs")>>
  <2>1. AllSteady(c) /\ AllTrackless(c)
    BY <1>2 DEF AllAside, AllApart, Apart, AllTrackless
  <2>2. AllSteady(d) /\ AllTrackless(d)
    <3>1. Steady(Subscribe("memfs")) /\ Trackless(Subscribe("memfs"))
      BY SteadyStatements DEF ServiceNames, Trackless, Subscribe
    <3> QED
      BY <1>3, <3>1
  <2>3. MemFsMain = c \o d
    BY DEF MemFsMain
  <2> HIDE DEF c, d
  <2>4. AllTrackless(c \o d)
    BY <2>1, <2>2, ConcatElements DEF AllSteady, AllTrackless
  <2> QED
    BY <2>1, <2>2, <2>3, <2>4, SteadyConcat
<1>6. ASSUME NEW x
      PROVE  /\ Just("append", Store(x)) /\ Just("remove", MemRm(x))
             /\ AllHarmless(Store(x)) /\ AllTrackless(Store(x))
             /\ AllHarmless(MemRm(x)) /\ AllTrackless(MemRm(x))
  <2>1. Just("append", Store(x)) /\ Just("remove", MemRm(x))
    BY DEF Store, MemRm, Just
  <2>2. ASSUME NEW c, Just("append", c) \/ Just("remove", c)
        PROVE  AllHarmless(c) /\ AllTrackless(c)
    <3>1. AllHarmless(<<>>)
      BY <1>4, SteadyIsHarmless
    <3>2. ASSUME NEW s, c = <<s>>, s.do \in {"append", "remove"} PROVE AllHarmless(c) /\ AllTrackless(c)
      <4>1. Proper(c) /\ Len(c) = 1 /\ c[1] = s /\ \A i \in 1 .. 1 : i = 1
        BY <3>2, ProperTuples
      <4>2. Harmless(s) /\ Trackless(s)
        BY <3>2 DEF Harmless, Trackless
      <4> QED
        BY <4>1, <4>2 DEF AllHarmless, AllTrackless
    <3> QED
      BY <1>4, <2>2, <3>1, <3>2 DEF Just
  <2> QED
    BY <2>1, <2>2
<1>7. ASSUME NEW n, n.path \in Paths("memfs")
      PROVE  \/ AllAside(MemFsHandles(n))
             \/ n.path = "cmd/store" /\ MemFsHandles(n) = Store(n.value)
             \/ n.path = "cmd/memrm" /\ MemFsHandles(n) = MemRm(n.value.name)
  <2>1. \A x : AllAside(Load(x)) /\ AllAside(MemLs)
    BY <1>1, AsideTuples DEF Load, MemLs
  <2> QED
    BY <1>7, <2>1 DEF Paths, MemFsPaths, MemFsHandles
<1> QED
  BY <1>2, <1>5, <1>6, <1>7

LEMMA DisplayCalls ==
    /\ AllAside(DisplayMain) /\ AllAside(DisplayReady)
    /\ AllAside(<<Pub("display/status", "state", "no HDMI")>>)
<1>1. /\ Aside(Subscribe("display")) /\ Aside(Pub("cmd/display", "value", 1))
      /\ \A key, value : Aside(Pub("display/status", key, value))
  BY AsideStatements, AsidePublications DEF ServiceNames
<1> QED
  <2>1. AllAside(DisplayMain)
    BY <1>1, AsideTuples DEF DisplayMain
  <2>2. AllAside(DisplayReady)
    <3>1. \A a, b, c, d, e, f : Aside(a) /\ Aside(b) /\ Aside(c) /\ Aside(d)
                                  /\ Aside(e) /\ Aside(f) => AllAside(<<a, b, c, d, e, f>>)
      BY AsideTuples
    <3>2. Aside([do |-> "clear"])
      BY AsideStatements
    <3>3. ASSUME NEW width, NEW height, NEW depth, NEW pitch
          PROVE  AllAside(<<[do |-> "clear"], Pub("display/status", "state", "ready"),
                               Pub("display/status", "width", width),
                               Pub("display/status", "height", height),
                               Pub("display/status", "depth", depth),
                               Pub("display/status", "pitch", pitch)>>)
      BY <1>1, <3>1, <3>2, Zenon
    <3> QED
      BY <3>3 DEF DisplayReady
  <2>3. AllAside(<<Pub("display/status", "state", "no HDMI")>>)
    BY <1>1, AsideTuples
  <2> QED
    BY <2>1, <2>2, <2>3

LEMMA StorageCalls ==
    /\ AllSteady(StorageMain)
    /\ \A name : AllSteady(Play(name))
    /\ \A n : n.path \in Paths("storage") =>
          AllAside(StorageHandles(n)) \/ (n.path = "cmd/play" /\ StorageHandles(n) = Play(n.value))
<1>1. /\ Steady(Subscribe("storage"))
      /\ \A key, value : Steady(StorageStatus(key, value))
      /\ Aside([do |-> "list"])
      /\ \A key, value : Aside(StorageStatus(key, value))
  BY SteadyStatements, SteadyPublications, AsideStatements, AsidePublications
     DEF ServiceNames, StorageStatus
<1>2. AllSteady(StorageMain) /\ \A name : AllSteady(Play(name))
  BY <1>1, SteadyTuples, SteadyStatements DEF StorageMain, Play
<1> QED
  BY <1>1, <1>2, AsideTuples DEF StorageHandles, Paths, StoragePaths, Ls, Stop

\* What audiomgr calls to play a buffer or the tone.
Sounds(a, b, c) == /\ a.do = "publish" /\ Says(a, "playing")
                   /\ b.do = "stream"
                   /\ c.do = "publish" /\ Says(c, "idle")

Tune(c) ==
    /\ Proper(c)
    /\ \/ Len(c) = 3 /\ Sounds(c[1], c[2], c[3])
       \/ Len(c) = 4 /\ c[1].do = "set clock" /\ Sounds(c[2], c[3], c[4])

LEMMA Tunes ==
    ASSUME NEW rate, NEW cap
    PROVE  /\ Tune(Streaming(rate, cap))
           /\ \A x : Tune(<<[do |-> "set clock", rate |-> x]>> \o Streaming(rate, cap))
<1> DEFINE c == Streaming(rate, cap)
<1>1. Proper(c) /\ Len(c) = 3 /\ Sounds(c[1], c[2], c[3])
  BY ProperTuples DEF Streaming, AudioStatus, Pub, Says, Sounds
<1> HIDE DEF c
<1>2. Tune(c)
  BY <1>1 DEF Tune
<1>3. ASSUME NEW x PROVE Tune(<<[do |-> "set clock", rate |-> x]>> \o c)
  <2> DEFINE s == [do |-> "set clock", rate |-> x]
  <2>1. s.do = "set clock"
    OBVIOUS
  <2> HIDE DEF s
  <2> DEFINE u == <<s>> \o c
  <2> HIDE DEF u
  <2>2. /\ Proper(u) /\ Len(u) = Len(c) + 1 /\ u[1] = s
        /\ \A i \in 1 .. Len(c) : u[i + 1] = c[i]
    <3>0. Proper(c)
      BY <1>1
    <3>1. Proper(<<s>> \o c) /\ (<<s>> \o c)[1] = s
      BY <3>0, ProperPrefix
    <3>2. Len(<<s>> \o c) = Len(c) + 1
      BY <3>0, ProperPrefix
    <3>3. \A i \in 1 .. Len(c) : (<<s>> \o c)[i + 1] = c[i]
      BY <3>0, ProperPrefix
    <3> QED
      BY <3>1, <3>2, <3>3 DEF u
  <2>3. Len(u) = 4 /\ u[2] = c[1] /\ u[3] = c[2] /\ u[4] = c[3]
    BY <1>1, <2>2
  <2>4. Tune(u)
    <3>1. u[1].do = "set clock" /\ Sounds(u[2], u[3], u[4])
      BY <1>1, <2>1, <2>2, <2>3, Zenon
    <3>2. Proper(u) /\ Len(u) = 4
      BY <2>2, <2>3
    <3> QED
      BY <3>1, <3>2, Zenon DEF Tune
  <2> QED
    BY <2>4 DEF s, u
<1> QED
  BY <1>2, <1>3 DEF c

LEMMA TuneStatements ==
    ASSUME NEW c, Tune(c)
    PROVE  \A i \in 1 .. Len(c) :
              \/ c[i].do \in {"set clock", "stream"}
              \/ c[i].do = "publish" /\ (Says(c[i], "playing") \/ Says(c[i], "idle"))
<1> DEFINE Sound(s) == \/ s.do \in {"set clock", "stream"}
                       \/ s.do = "publish" /\ (Says(s, "playing") \/ Says(s, "idle"))
<1>1. CASE Len(c) = 3 /\ Sounds(c[1], c[2], c[3])
  <2>1. Sound(c[1]) /\ Sound(c[2]) /\ Sound(c[3])
    BY <1>1 DEF Sounds
  <2>2. Len(c) = 3
    BY <1>1
  <2>3. \A i \in 1 .. Len(c) : i = 1 \/ i = 2 \/ i = 3
    BY <2>2
  <2> HIDE DEF Sound
  <2>4. \A i \in 1 .. Len(c) : Sound(c[i])
    BY <2>1, <2>3, Zenon
  <2> QED
    BY <2>4 DEF Sound
<1>2. CASE Len(c) = 4 /\ c[1].do = "set clock" /\ Sounds(c[2], c[3], c[4])
  <2>1. Sound(c[1]) /\ Sound(c[2]) /\ Sound(c[3]) /\ Sound(c[4])
    BY <1>2 DEF Sounds
  <2>2. Len(c) = 4
    BY <1>2
  <2>3. \A i \in 1 .. Len(c) : i = 1 \/ i = 2 \/ i = 3 \/ i = 4
    BY <2>2
  <2> HIDE DEF Sound
  <2>4. \A i \in 1 .. Len(c) : Sound(c[i])
    BY <2>1, <2>3, Zenon
  <2> QED
    BY <2>4 DEF Sound
<1> QED
  BY <1>1, <1>2 DEF Tune

\* The mute of the DAC and the state that tells it.
Mutes(c) ==
    /\ Proper(c) /\ Len(c) = 2
    /\ c[1].do = "mute" /\ c[1].on \in BOOLEAN
    /\ c[2].do = "publish" /\ Says(c[2], IF c[1].on THEN "muted" ELSE "idle")

LEMMA AudioCalls ==
    /\ AllAside(AudioMain)
    /\ \A n : n.path \in Paths("audio") =>
          LET c == AudioHandles(n) IN AllAside(c) \/ Mutes(c) \/ Tune(c)
<1>1. AllAside(AudioMain)
  <2>1. /\ Aside(AudioStatus("state", "idle")) /\ Aside(Subscribe("audio"))
        /\ Aside(AudioStatus("format", "48kHz/16-bit/2ch"))
    BY AsideStatements, AsidePublications DEF ServiceNames, AudioStatus, TrackKeys
  <2> QED
    BY <2>1, AsideTuples DEF AudioMain
<1>2. Mutes(Mute(TRUE)) /\ Mutes(Mute(FALSE))
  BY ProperTuples DEF Mutes, Mute, AudioStatus, Pub, Says
<1>3. ASSUME NEW v PROVE AllAside(SetVolume(v))
  <2>1. Aside([do |-> "volume", level |-> v % 256]) /\ Aside(AudioStatus("volume", v))
    BY AsideStatements, AsidePublications DEF AudioStatus, TrackKeys
  <2>2. \A a, b : Aside(a) /\ Aside(b) => AllAside(<<a, b>>)
    BY AsideTuples
  <2>3. AllAside(<<[do |-> "volume", level |-> v % 256], AudioStatus("volume", v)>>)
    BY <2>1, <2>2
  <2> QED
    BY <2>3 DEF SetVolume
<1>4. Tune(PlayTone)
  BY Tunes DEF PlayTone
<1>5. ASSUME NEW cap PROVE AllAside(PlayPcm(cap)) \/ Tune(PlayPcm(cap))
  <2>1. CASE cap \notin caps
    BY <2>1, AsideTuples DEF PlayPcm
  <2>2. CASE cap \in caps /\ SourceRate # DefaultRate
    BY <2>2, Tunes DEF PlayPcm, SelectClock
  <2>3. CASE cap \in caps /\ SourceRate = DefaultRate
    <3>1. PlayPcm(cap) = <<>> \o Streaming(SourceRate, {cap})
      BY <2>3 DEF PlayPcm, SelectClock
    <3>2. Streaming(SourceRate, {cap}) \in Seq({Streaming(SourceRate, {cap})[i] : i \in 1 .. 3})
      BY DEF Streaming
    <3>3. PlayPcm(cap) = Streaming(SourceRate, {cap})
      BY <3>1, <3>2
    <3> QED
      BY <3>3, Tunes
  <2> QED
    BY <2>1, <2>2, <2>3
<1>6. ASSUME NEW n, n.path \in Paths("audio")
      PROVE  LET c == AudioHandles(n) IN AllAside(c) \/ Mutes(c) \/ Tune(c)
  BY <1>2, <1>3, <1>4, <1>5, <1>6 DEF Paths, AudioPaths, AudioHandles
<1> QED
  BY <1>1, <1>6

LEMMA MainsInDetail ==
    \A service \in ServiceNames : \/ AllAside(Main(service))
                                  \/ service = "http" /\ Main(service) = HttpMain
                                  \/ service = "storage" /\ Main(service) = StorageMain
                                  \/ service = "memfs" /\ Main(service) = MemFsMain
<1> SUFFICES ASSUME NEW service \in ServiceNames, service \notin {"http", "storage", "memfs"}
             PROVE  AllAside(Main(service))
  BY DEF Main
<1>1. \/ Main(service) = EmmcMain \/ Main(service) = GenetMain \/ Main(service) = AudioMain
      \/ Main(service) = BluetoothMain \/ Main(service) = DisplayMain
      \/ Main(service) = UsbAudioMain
  BY DEF ServiceNames, Main
<1> QED
  BY <1>1, EmmcCalls, GenetCalls, AudioCalls, BluetoothCalls, DisplayCalls, UsbAudioCalls

LEMMA MainCalls ==
    \A service \in ServiceNames : AllHarmless(Main(service))
BY MainsInDetail, SteadyIsHarmless, HttpCalls, StorageCalls, MemFsCalls DEF AllAside

LEMMA HandlersInDetail ==
    ASSUME NEW service \in ServiceNames, NEW n, n.path \in Paths(service)
    PROVE  LET c == Handles(service, n)
           IN  \/ AllAside(c)
               \/ service = "storage" /\ n.path = "cmd/play" /\ c = Play(n.value)
               \/ service = "memfs" /\ n.path = "cmd/store" /\ c = Store(n.value)
               \/ service = "memfs" /\ n.path = "cmd/memrm" /\ c = MemRm(n.value.name)
               \/ service = "genet" /\ c = GenetHandles(n)
               \/ service = "http" /\ c = HttpHandles(n)
               \/ service = "audio" /\ (Mutes(c) \/ Tune(c))
               \/ service = "display" /\ c = <<Framebuffer>>
               \/ service = "display" /\ n.path = "audio/status" /\ c = ShowPlaying(n)
<1>1. \/ service = "emmc" /\ Handles(service, n) = EmmcHandles(n)
      \/ service = "genet" /\ Handles(service, n) = GenetHandles(n)
      \/ service = "audio" /\ Handles(service, n) = AudioHandles(n)
      \/ service = "memfs" /\ Handles(service, n) = MemFsHandles(n)
      \/ service = "http" /\ Handles(service, n) = HttpHandles(n)
      \/ service = "bluetooth" /\ Handles(service, n) = BluetoothHandles(n)
      \/ service = "display" /\ Handles(service, n) = DisplayHandles(n)
      \/ service = "storage" /\ Handles(service, n) = StorageHandles(n)
      \/ service = "usbaudio" /\ Handles(service, n) = UsbAudioHandles(n, caps)
  BY DEF ServiceNames, Handles
<1>2. CASE service = "display" /\ Handles(service, n) = DisplayHandles(n)
  BY <1>2 DEF DisplayHandles, Paths, DisplayPaths
<1> QED
  BY <1>1, <1>2, EmmcCalls, AudioCalls, MemFsCalls, BluetoothCalls,
     StorageCalls, UsbAudioCalls

LEMMA HandlerCalls ==
    ASSUME NEW service \in ServiceNames, NEW n, n.path \in Paths(service)
    PROVE  LET c == Handles(service, n)
           IN  \/ AllHarmless(c)
               \/ service = "audio" /\ (Mutes(c) \/ Tune(c))
               \/ service = "display" /\ c = <<Framebuffer>>
               \/ service = "display" /\ n.path = "audio/status" /\ c = ShowPlaying(n)
BY HandlersInDetail, SteadyIsHarmless, GenetCalls, HttpCalls, StorageCalls, MemFsCalls DEF AllAside

\* Nothing at all.
LEMMA HarmlessNothing == AllHarmless(<<>>)
BY SteadyTuples, SteadyIsHarmless

\* What a callback calls, in general.
Heard(service, n) == IF n.path \in Paths(service) THEN Handles(service, n) ELSE <<>>

Ordinary(c) ==
    /\ Proper(c)
    /\ \A i \in 1 .. Len(c) :
          /\ c[i].do \notin {"main", "callback"}
          /\ c[i].do = "subscribe" => c[i].service \in ServiceNames

LEMMA OrdinaryStatements ==
    ASSUME NEW c, NEW n,
           \/ AllHarmless(c) \/ Mutes(c) \/ Tune(c) \/ c = <<Framebuffer>> \/ c = ShowPlaying(n)
    PROVE  Ordinary(c)
<1>2. CASE AllHarmless(c)
  BY <1>2 DEF AllHarmless, Harmless, Ordinary
<1>3. CASE Mutes(c)
  BY <1>3 DEF Mutes, Ordinary
<1>4. CASE Tune(c)
  <2>1. \A i \in 1 .. Len(c) : c[i].do \in {"set clock", "publish", "stream"}
    <3>1. \A i \in 1 .. Len(c) : \/ c[i].do \in {"set clock", "stream"}
                                \/ c[i].do = "publish"
      BY <1>4, TuneStatements
    <3> QED
      BY <3>1
  <2> QED
    BY <1>4, <2>1 DEF Tune, Ordinary
<1>5. CASE c = <<Framebuffer>>
  BY <1>5, ProperTuples DEF Framebuffer, Ordinary
<1>6. CASE c = ShowPlaying(n)
  <2>1. c = <<>> \/ \E x : c = <<[do |-> "bar", on |-> x]>>
    BY <1>6 DEF ShowPlaying
  <2>2. CASE c = <<>>
    BY <2>2, ProperTuples DEF Ordinary
  <2>3. ASSUME NEW x, c = <<[do |-> "bar", on |-> x]>>
        PROVE  Ordinary(c)
    BY <2>3, ProperTuples DEF Ordinary
  <2> QED
    BY <2>1, <2>2, <2>3
<1> QED
  BY <1>2, <1>3, <1>4, <1>5, <1>6

LEMMA HandlerStatements ==
    ASSUME NEW service \in ServiceNames, NEW n
    PROVE  Ordinary(Heard(service, n))
<1>1. CASE n.path \in Paths(service)
  <2>1. Heard(service, n) = Handles(service, n)
    BY <1>1 DEF Heard
  <2> QED
    BY <1>1, <2>1, HandlerCalls, OrdinaryStatements
<1>2. CASE n.path \notin Paths(service)
  BY <1>2, HarmlessNothing, OrdinaryStatements DEF Heard
<1> QED
  BY <1>1, <1>2

\* Only displaymgr does something about the states of audiomgr.
LEMMA StateCalls ==
    ASSUME NEW service \in ServiceNames, NEW n, n.path \in Paths(service),
           Says(n, "playing") \/ Says(n, "idle")
    PROVE  IF service = "display" THEN Handles(service, n) = ShowPlaying(n)
           ELSE Handles(service, n) = <<>>
<1>1. n.path = "audio/status" /\ n.key = "state" /\ n.value \in {"playing", "idle"}
  BY DEF Says
<1>2. service \in {"display", "bluetooth"}
  BY <1>1 DEF ServiceNames, Paths, AudioPaths, MemFsPaths, DisplayPaths, StoragePaths
<1>3. CASE service = "display"
  BY <1>1, <1>3 DEF Handles, DisplayHandles
<1>4. CASE service = "bluetooth"
  <2>1. UsbEvent(n) = <<>> \o <<>>
    BY <1>1 DEF UsbEvent
  <2>2. <<>> \o <<>> = <<>>
    OBVIOUS
  <2>3. n.path \in UsbPaths
    BY <1>1, <1>4 DEF Paths, BluetoothPaths
  <2> QED
    BY <1>1, <1>4, <2>1, <2>2, <2>3 DEF Handles, BluetoothHandles
<1> QED
  BY <1>2, <1>3, <1>4

-----------------------------------------------------------------------------
(***************************************************************************)
(* The shape of the work: who is in it, and what a step puts there.        *)
(***************************************************************************)

Subscribed(service) == \E m \in 1 .. Len(subs) : subs[m] = service

\* Only services are run, only subscribers are called.
Shape ==
    /\ setup \in DOMAIN Setups /\ plugged \subseteq Setups[setup].devices
    /\ Proper(work) /\ Proper(subs)
    /\ \A m \in 1 .. Len(subs) : subs[m] \in ServiceNames
    /\ \A i \in 1 .. Len(work) :
          /\ work[i].do \in {"main", "subscribe"} => work[i].service \in ServiceNames
          /\ work[i].do = "callback" => Subscribed(work[i].service)

\* The thread runs a statement that calls harmless ones.
Routine == ~Quiet /\ \E called : AllHarmless(called) /\ Continue(called)
Steadily == ~Quiet /\ \E called : AllSteady(called) /\ Continue(called)
Asidely == ~Quiet /\ \E called : AllAside(called) /\ Continue(called)

LEMMA Nowhere ==
    ASSUME Shape, ~Quiet
    PROVE  Len(work) \in Nat \ {0} /\ Now = work[1]
<1>1. Len(work) \in Nat /\ work # <<>> /\ (work = <<>>) = (Len(work) = 0)
  BY ProperFacts DEF Shape, Quiet
<1>2. Head(work) = work[1]
  BY HeadTailProperties, <1>1 DEF Shape, Proper
<1> QED
  BY <1>1, <1>2 DEF Now

LEMMA RoutineMain == Shape /\ CallMain => Routine
<1> SUFFICES ASSUME Shape, CallMain PROVE Routine
  OBVIOUS
<1>1. ~Quiet /\ Now.do = "main" /\ Continue(Main(Now.service))
  BY DEF CallMain, Runs, Now
<1>2. Now.service \in ServiceNames
  BY <1>1, Nowhere DEF Shape
<1> QED
  BY <1>1, <1>2, MainCalls DEF Routine

LEMMA AsidelyNothing ==
    Subscribes \/ DacMute \/ DacVolume \/ SetClock \/ Stream \/ Clear \/ FillBar \/ SetDongle
        \/ FreeBuffer \/ CloseFile => Asidely
<1>1. AllAside(<<>>)
  BY AsideTuples
<1> QED
  BY <1>1 DEF Asidely, Subscribes, DacMute, DacVolume, SetClock, Stream, Clear, FillBar, SetDongle,
     FreeBuffer, CloseFile, Runs

LEMMA AsidelyReports ==
    AppendFile \/ RemoveFile \/ InitFramebuffer \/ EmmcReset \/ ListRoot => Asidely
<1>1. AppendFile \/ RemoveFile => Asidely
  BY MemFsCalls DEF AppendFile, RemoveFile, Runs, Asidely
<1>2. InitFramebuffer => Asidely
  BY DisplayCalls DEF InitFramebuffer, Runs, Asidely
<1>3. EmmcReset => Asidely
  <2>1. \A key, value : Aside(Pub("emmc/status", key, value))
    BY AsidePublications
  <2>2. /\ AllAside(<<Pub("emmc/status", "version", 3), Pub("emmc/status", "state", "reset ok")>>)
        /\ AllAside(<<Pub("emmc/status", "state", "reset failed")>>)
    BY <2>1, AsideTuples
  <2> QED
    BY <2>2 DEF EmmcReset, Runs, Asidely
<1>4. ListRoot => Asidely
  <2>1. AllAside(<<Pub("storage/listing", "files", "names")>>)
    BY AsidePublications, AsideTuples
  <2>2. AllAside(<<>>)
    BY AsideTuples
  <2>3. ListRoot => ~Quiet /\ (\/ Continue(<<>>)
                              \/ Continue(<<Pub("storage/listing", "files", "names")>>))
    BY DEF ListRoot, Runs
  <2> QED
    BY <2>1, <2>2, <2>3 DEF Asidely
<1> QED
  BY <1>1, <1>2, <1>3, <1>4

\* What play publishes of a track.
LEMMA TrackStatements ==
    /\ \A key, value : key # "state" => Steady(TrackStatus(key, value))
    /\ \A key, value : Steady(StorageStatus(key, value))
    /\ \A name, bytes : Steady(StoreBuffer(name, bytes))
BY SteadyPublications DEF TrackStatus, StorageStatus, StoreBuffer

LEMMA SteadyPublishPcm ==
    \A name, samples : AllSteady(PublishPcm(name, samples))
<1> SUFFICES ASSUME NEW name, NEW samples PROVE AllSteady(PublishPcm(name, samples))
  OBVIOUS
<1> DEFINE title == TrackStatus("title", [track |-> name, from |-> "file name"])
           rate == TrackStatus("sample_rate", Card[name].rate)
           channels == TrackStatus("channels", name)
           store == StoreBuffer(name, Card[name].bytes)
           state == StorageStatus("state", "decoded")
<1>1. /\ Steady(title) /\ Steady(rate) /\ Steady(channels) /\ Steady(store)
      /\ Steady(state)
  BY TrackStatements
<1>2. PublishPcm(name, samples) = IF ~samples THEN <<>>
                                  ELSE <<title, rate, channels, store, state>>
  BY DEF PublishPcm
<1> HIDE DEF title, rate, channels, store, state
<1>3. AllSteady(<<title, rate, channels, store, state>>)
  BY <1>1, ProperTuples DEF AllSteady
<1> QED
  BY <1>2, <1>3, SteadyTuples

LEMMA SteadyPublishMeta ==
    \A name : AllSteady(PublishMeta(name))
<1> SUFFICES ASSUME NEW name PROVE AllSteady(PublishMeta(name))
  OBVIOUS
<1> DEFINE a == IF Card[name].artist THEN <<TrackStatus("artist", name)>> ELSE <<>>
           t == <<TrackStatus("title", [track |-> name,
                                        from |-> IF Card[name].titled THEN "tag" ELSE "file name"])>>
           c == IF Card[name].cover THEN <<StoreBuffer(CoverName, 1), TrackStatus("cover", "true")>>
                ELSE <<>>
<1>1. AllSteady(a)
  BY TrackStatements, SteadyTuples
<1>2. AllSteady(t)
  BY TrackStatements, SteadyTuples
<1>3. AllSteady(c)
  BY TrackStatements, SteadyTuples
<1>4. PublishMeta(name) = a \o t \o c
  BY DEF PublishMeta
<1> HIDE DEF a, t, c
<1> QED
  BY <1>1, <1>2, <1>3, <1>4, SteadyConcat

LEMMA SteadilyOpen == Open => Steadily
<1> SUFFICES ASSUME Open PROVE Steadily
  OBVIOUS
<1>1. ~Quiet
  BY DEF Open, Runs
<1> DEFINE f == TrackStatus("format", Card[Now.track].fmt)
           m == TrackStatus("magic", Card[Now.track].fmt)
           d == [do |-> "decode", track |-> Now.track]
           e == StorageStatus("error", "file not found")
<1>2. Steady(f) /\ Steady(m) /\ Steady(d) /\ Steady(e)
  BY TrackStatements, SteadyStatements
<1>3. Continue(<<f, m, d>>) \/ Continue(<<e>>)
  BY DEF Open
<1> HIDE DEF f, m, d, e
<1>4. AllSteady(<<f, m, d>>) /\ AllSteady(<<e>>)
  BY <1>2, SteadyTuples
<1> QED
  BY <1>1, <1>3, <1>4 DEF Steadily

LEMMA SteadilyDecode == Decode => Steadily
<1> SUFFICES ASSUME Decode PROVE Steadily
  OBVIOUS
<1>1. ~Quiet
  BY DEF Decode, Runs
<1>2. AllSteady(<<Close>>) /\ AllSteady(<<>>)
  BY SteadyTuples, SteadyStatements
<1>3. ASSUME NEW name, DecodeFlac(name) \/ DecodeWhole(name)
      PROVE  \E called : AllSteady(called) /\ Continue(called)
  <2>1. /\ AllSteady(PublishPcm(name, TRUE) \o <<Close>>)
        /\ \A samples : AllSteady(PublishMeta(name) \o PublishPcm(name, samples) \o <<Close>>)
    BY <1>2, SteadyPublishMeta, SteadyPublishPcm, SteadyConcat
  <2> QED
    BY <1>2, <1>3, <2>1 DEF DecodeFlac, DecodeWhole
<1>4. ASSUME NEW name, DecodeDsd(name) \/ NotDecoded(name)
      PROVE  \E called : AllSteady(called) /\ Continue(called)
  <2> DEFINE error(x) == StorageStatus("error", x)
             statuses == <<TrackStatus("title", [track |-> name, from |-> "file name"]),
                           TrackStatus("format", "DoP"),
                           TrackStatus("sample_rate", Card[name].rate),
                           TrackStatus("channels", name),
                           TrackStatus("bits_per_sample", "DSD/1-bit"),
                           StoreBuffer(name, Card[name].bytes),
                           StorageStatus("state", "decoded (DoP)"),
                           [do |-> "free", buffer |-> "packed"]>>
             freed == <<[do |-> "free", buffer |-> "raw"]>>
  <2>1. \A x : AllSteady(<<error(x), Close>>)
    BY SteadyTuples, SteadyStatements, TrackStatements
  <2>2. AllSteady(statuses) /\ AllSteady(freed)
    <3>1. /\ \A key, value : key # "state" => Steady(TrackStatus(key, value))
          /\ Steady(StoreBuffer(name, Card[name].bytes))
          /\ Steady(StorageStatus("state", "decoded (DoP)"))
          /\ Steady([do |-> "free", buffer |-> "packed"])
          /\ Steady([do |-> "free", buffer |-> "raw"])
      BY TrackStatements, SteadyStatements
    <3>2. ASSUME NEW a, NEW b, NEW c, NEW d, NEW e, NEW f, NEW g, NEW h, Steady(a), Steady(b),
                 Steady(c), Steady(d), Steady(e), Steady(f), Steady(g), Steady(h)
          PROVE  AllSteady(<<a, b, c, d, e, f, g, h>>)
      <4>1. <<a, b, c, d, e, f, g, h>> \in Seq({a, b, c, d, e, f, g, h})
        OBVIOUS
      <4>2. Proper(<<a, b, c, d, e, f, g, h>>) /\ Len(<<a, b, c, d, e, f, g, h>>) = 8
        BY <4>1, ProperIntro
      <4> QED
        BY <3>2, <4>2 DEF AllSteady
    <3>3. AllSteady(statuses)
      BY <3>1, <3>2, Zenon
    <3>4. AllSteady(freed)
      BY <3>1, SteadyTuples
    <3> QED
      BY <3>3, <3>4
  <2>3. \/ \E x : Continue(<<error(x), Close>>)
        \/ \E raw, packed : Continue((IF raw /\ packed THEN statuses ELSE <<>>)
                                        \o (IF raw THEN freed ELSE <<>>) \o <<Close>>)
    BY <1>4 DEF DecodeDsd, NotDecoded
  <2> HIDE DEF error, statuses, freed
  <2>4. \A raw, packed : AllSteady((IF raw /\ packed THEN statuses ELSE <<>>)
                                        \o (IF raw THEN freed ELSE <<>>) \o <<Close>>)
    BY <1>2, <2>2, SteadyConcat
  <2> QED
    BY <2>1, <2>3, <2>4 DEF error
<1> QED
  BY <1>1, <1>3, <1>4 DEF Decode, Steadily

LEMMA AsideStep == Step => Asidely \/ Open \/ Decode \/ CallMain \/ Publish \/ Callback
<1>1. AudioNext => Asidely
  BY AsidelyNothing DEF AudioNext
<1>2. MemFsNext => Asidely
  BY AsidelyReports DEF MemFsNext
<1>3. DisplayNext => Asidely
  BY AsidelyNothing, AsidelyReports DEF DisplayNext
<1>4. BluetoothNext => Asidely
  BY AsidelyNothing DEF BluetoothNext
<1>5. StorageNext => Asidely \/ Open \/ Decode
  BY AsidelyNothing, AsidelyReports DEF StorageNext
<1>6. ProbesNext => Asidely
  BY AsidelyReports DEF ProbesNext
<1> QED
  BY <1>1, <1>2, <1>3, <1>4, <1>5, <1>6, AsidelyNothing DEF Step

LEMMA SteadyStep == Step => Steadily \/ CallMain \/ Publish \/ Callback
<1>1. Asidely => Steadily
  BY DEF Asidely, Steadily, AllAside
<1> QED
  BY <1>1, AsideStep, SteadilyOpen, SteadilyDecode

LEMMA RoutineStep == Shape /\ Step => Routine \/ Publish \/ Callback
<1>1. Steadily => Routine
  BY SteadyIsHarmless DEF Steadily, Routine
<1> QED
  BY <1>1, SteadyStep, RoutineMain

\* Where the statements of a step are afterwards.
LEMMA Places ==
    ASSUME Proper(work), ~Quiet, NEW called, Proper(called), Continue(called)
    PROVE  /\ Proper(work')
           /\ \A i \in 1 .. Len(called) : i \in 1 .. Len(work') /\ work'[i] = called[i]
           /\ \A j \in 2 .. Len(work) : /\ Len(called) + j - 1 \in 1 .. Len(work')
                                        /\ work'[Len(called) + j - 1] = work[j]
           /\ \A i \in 1 .. Len(work') :
                 \/ i \in 1 .. Len(called) /\ work'[i] = called[i]
                 \/ \E j \in 2 .. Len(work) : i = Len(called) + j - 1 /\ work'[i] = work[j]
<1> DEFINE m == Len(work)
           n == Len(called)
           k == Len(work')
           w == work'
<1>1. /\ k = n + m - 1
      /\ \A i \in 1 .. n : w[i] = called[i]
      /\ \A j \in 2 .. m : w[n + j - 1] = work[j]
  BY Continued
<1>2. m \in Nat \ {0} /\ n \in Nat
  BY ProperFacts DEF Quiet
<1>3. Proper(w)
  BY Continued
<1> HIDE DEF m, n, k, w
<1>4. ASSUME NEW i \in 1 .. k
      PROVE  \/ i \in 1 .. n /\ w[i] = called[i]
             \/ \E j \in 2 .. m : i = n + j - 1 /\ w[i] = work[j]
  <2>1. CASE i <= n
    BY <1>1, <1>2, <2>1
  <2>2. CASE i > n
    <3>1. i - n + 1 \in 2 .. m /\ i = n + (i - n + 1) - 1
      BY <1>1, <1>2, <2>2
    <3> QED
      BY <1>1, <3>1
  <2> QED
    BY <1>1, <1>2, <2>1, <2>2
<1>5. /\ \A i \in 1 .. n : i \in 1 .. k /\ w[i] = called[i]
      /\ \A j \in 2 .. m : n + j - 1 \in 1 .. k /\ w[n + j - 1] = work[j]
  BY <1>1, <1>2
<1> QED
  BY <1>3, <1>4, <1>5 DEF m, n, k, w

LEMMA PublishCalls ==
    ASSUME Shape, Publish
    PROVE  /\ ~Quiet /\ Now.do = "publish" /\ UNCHANGED <<subs, serviceVars>>
           /\ \E called : /\ Proper(called) /\ Continue(called) /\ Len(called) = Len(subs)
                          /\ \A m \in 1 .. Len(subs) :
                                called[m] = [do |-> "callback", service |-> subs[m], n |-> Now]
<1> DEFINE called == [i \in DOMAIN subs |-> [do |-> "callback", service |-> subs[i], n |-> Now]]
<1>1. ~Quiet /\ Now.do = "publish" /\ UNCHANGED <<subs, serviceVars>> /\ Continue(called)
  BY DEF Publish, Runs, Now
<1>2. Len(subs) \in Nat /\ DOMAIN subs = 1 .. Len(subs)
  BY ProperFacts DEF Shape
<1>3. /\ called \in Seq({called[i] : i \in 1 .. Len(subs)}) /\ Len(called) = Len(subs)
      /\ \A m \in 1 .. Len(subs) : called[m] = [do |-> "callback", service |-> subs[m], n |-> Now]
  BY <1>2, SeqDef
<1>4. Proper(called)
  BY <1>3, ProperIntro
<1> HIDE DEF called
<1> QED
  BY <1>1, <1>3, <1>4

LEMMA CallbackCalls ==
    ASSUME Shape, Callback
    PROVE  /\ ~Quiet /\ Now.do = "callback" /\ UNCHANGED <<objects, subs, serviceVars>>
           /\ Now.service \in ServiceNames /\ Subscribed(Now.service)
           /\ Ordinary(Heard(Now.service, Now.n)) /\ Continue(Heard(Now.service, Now.n))
<1>1. ~Quiet /\ Now.do = "callback" /\ UNCHANGED <<objects, subs, serviceVars>>
  BY DEF Callback, Runs, Now
<1>2. Subscribed(Now.service)
  BY <1>1, Nowhere DEF Shape
<1>3. Now.service \in ServiceNames
  BY <1>2 DEF Shape, Subscribed
<1>4. Continue(Heard(Now.service, Now.n))
  BY DEF Callback, Heard
<1>5. Ordinary(Heard(Now.service, Now.n))
  BY <1>3, HandlerStatements
<1> QED
  BY <1>1, <1>2, <1>3, <1>4, <1>5

\* What a step may put into the work for its shape to be kept.
Fits(s) ==
    /\ s.do \in {"main", "subscribe"} => s.service \in ServiceNames
    /\ s.do = "callback" => Subscribed(s.service)

LEMMA ShapeKept ==
    ASSUME Shape, ~Quiet, setup' = setup, plugged' \subseteq Setups[setup].devices,
           Proper(subs'), \A m \in 1 .. Len(subs') : subs'[m] \in ServiceNames,
           \A s : Subscribed(s) => Subscribed(s)',
           NEW called, Proper(called), Continue(called),
           \A i \in 1 .. Len(called) : Fits(called[i])'
    PROVE  Shape'
<1>1. /\ Proper(work')
      /\ \A i \in 1 .. Len(work') :
            \/ i \in 1 .. Len(called) /\ work'[i] = called[i]
            \/ \E j \in 2 .. Len(work) : i = Len(called) + j - 1 /\ work'[i] = work[j]
  BY Places DEF Shape
<1>2. Len(work) \in Nat
  BY ProperFacts DEF Shape
<1>3. ASSUME NEW i \in 1 .. Len(work')
      PROVE  /\ work'[i].do \in {"main", "subscribe"} => work'[i].service \in ServiceNames
             /\ work'[i].do = "callback" => Subscribed(work[i].service)'
  <2>1. CASE i \in 1 .. Len(called) /\ work'[i] = called[i]
    BY <2>1 DEF Fits, Subscribed
  <2>2. ASSUME NEW j \in 2 .. Len(work), work'[i] = work[j]
        PROVE  /\ work'[i].do \in {"main", "subscribe"} => work'[i].service \in ServiceNames
               /\ work'[i].do = "callback" => Subscribed(work[i].service)'
    <3>1. j \in 1 .. Len(work)
      BY <1>2
    <3>2. /\ work[j].do \in {"main", "subscribe"} => work[j].service \in ServiceNames
          /\ work[j].do = "callback" => Subscribed(work[j].service)
      BY <3>1 DEF Shape
    <3> QED
      BY <2>2, <3>2 DEF Subscribed
  <2> QED
    BY <1>1, <2>1, <2>2
<1> QED
  BY <1>1, <1>3 DEF Shape

LEMMA HarmlessFits ==
    ASSUME NEW called, AllHarmless(called)
    PROVE  Proper(called) /\ \A i \in 1 .. Len(called) : Fits(called[i])'
BY DEF AllHarmless, Harmless, Fits

LEMMA OneStatement ==
    ASSUME NEW c
    PROVE  Proper(<<c>>) /\ Len(<<c>>) = 1 /\ <<c>>[1] = c
BY ProperTuples

\* What sets the thread to work.
LEMMA Arrivals ==
    ASSUME Shape, Command \/ Plug \/ Unplug
    PROVE  /\ Quiet /\ UNCHANGED <<objects, subs, audioVars, files, displayVars, storageVars, setup>>
           /\ \E c : work' = <<c>> /\ c.do = "publish" /\ Steady(c) /\ Harmless(c)
<1>1. CASE Command
  <2>1. PICK i \in DOMAIN Commands : \E c \in Commands[i] : work' = <<c>>
    BY <1>1 DEF Command
  <2>2. PICK c \in Commands[i] : work' = <<c>>
    BY <2>1
  <2>3. /\ c = Pub(c.path, c.key, c.value) /\ c.path \notin {"net/status", "http/status"}
        /\ c.path # "audio/status" \/ c.key = "sample_rate"
    BY SetupAssumption DEF Shape, Commands, CommandPaths, MemFsPaths, StoragePaths, AudioPaths
  <2>4. Steady(c) /\ Harmless(c) /\ c.do = "publish"
    BY <2>3, SteadyPublications, HarmlessReports DEF Pub
  <2> QED
    BY <1>1, <2>2, <2>4 DEF Command, serviceVars
<1>2. CASE Plug
  <2>1. PICK d \in Setups[setup].devices :
            work' = <<Pub(d, "subclass", IF d \in Dongles THEN "bluetooth" ELSE "hid")>>
    BY <1>2 DEF Plug
  <2> DEFINE c == Pub(d, "subclass", IF d \in Dongles THEN "bluetooth" ELSE "hid")
  <2>2. Steady(c) /\ Harmless(c) /\ c.do = "publish"
    BY SetupAssumption, SteadyPublications, HarmlessReports DEF Pub, Shape
  <2> QED
    BY <1>2, <2>1, <2>2 DEF Plug
<1>3. CASE Unplug
  <2>1. PICK d \in Setups[setup].devices : work' = <<Pub(d, "state", "removed")>>
    BY <1>3 DEF Unplug, Shape
  <2> DEFINE c == Pub(d, "state", "removed")
  <2>2. Steady(c) /\ Harmless(c) /\ c.do = "publish"
    BY SetupAssumption, SteadyPublications, HarmlessReports DEF Pub, Shape
  <2> QED
    BY <1>3, <2>1, <2>2 DEF Unplug
<1> QED
  BY <1>1, <1>2, <1>3

LEMMA StartsWithMains ==
    ASSUME Init
    PROVE  /\ setup \in DOMAIN Setups /\ plugged = {}
           /\ Proper(work) /\ Proper(subs) /\ Len(subs) = 0
           /\ \A i \in 1 .. Len(work) : work[i].do = "main" /\ work[i].service \in ServiceNames
           /\ \A i \in 1 .. Len(work) : work[i].service \in Started
           /\ \A i \in 1 .. Len(work) : /\ i \in DOMAIN Setups[setup].started
                                        /\ work[i].service = Setups[setup].started[i]
           /\ \A service \in Started : \E i \in 1 .. Len(work) : work[i].service = service
<1> DEFINE started == Setups[setup].started
           w == [i \in DOMAIN started |-> [do |-> "main", service |-> started[i]]]
<1>1. setup \in DOMAIN Setups /\ started \in Seq(ServiceNames) /\ work = w /\ subs = <<>> /\ plugged = {}
  BY SetupAssumption DEF Init, BluetoothInit
<1>2. Len(started) \in Nat /\ DOMAIN started = 1 .. Len(started)
      /\ \A i \in 1 .. Len(started) : started[i] \in ServiceNames
  BY <1>1, LenProperties, ElementOfSeq
<1>3. Started = {started[i] : i \in DOMAIN started}
  BY DEF Started, ToSet
<1> HIDE DEF started
<1>4. /\ w \in Seq({w[i] : i \in 1 .. Len(started)}) /\ Len(w) = Len(started)
      /\ \A i \in 1 .. Len(started) : w[i] = [do |-> "main", service |-> started[i]]
  BY <1>2, SeqDef
<1>5. Proper(w)
  BY <1>4, ProperIntro
<1> HIDE DEF w
<1>6. Proper(subs) /\ Len(subs) = 0
  BY <1>1, ProperTuples
<1>7. ASSUME NEW i \in 1 .. Len(started)
      PROVE  /\ i \in 1 .. Len(work) /\ work[i].do = "main" /\ work[i].service = started[i]
             /\ work[i].service \in ServiceNames
  <2>1. i \in 1 .. Len(work) /\ work[i] = [do |-> "main", service |-> started[i]]
    BY <1>1, <1>4
  <2> QED
    BY <1>2, <2>1
<1>8. \A service \in Started : \E i \in 1 .. Len(work) : work[i].service = service
  BY <1>2, <1>3, <1>7
<1>9. Len(work) = Len(started)
  BY <1>1, <1>4
<1>10. \A i \in 1 .. Len(work) : work[i].service \in Started
  BY <1>2, <1>3, <1>7, <1>9
<1>11. \A i \in 1 .. Len(work) : i \in DOMAIN started /\ work[i].service = started[i]
  BY <1>2, <1>7, <1>9
<1> QED
  BY <1>1, <1>5, <1>6, <1>7, <1>8, <1>9, <1>10, <1>11 DEF started

LEMMA ShapeInit == Init => Shape
BY StartsWithMains DEF Shape

\* A service subscribes once more than before, and nobody is dropped.
LEMMA SubscribesCalls ==
    ASSUME Shape, Subscribes
    PROVE  /\ Proper(subs') /\ \A m \in 1 .. Len(subs') : subs'[m] \in ServiceNames
           /\ \A s : Subscribed(s) => Subscribed(s)'
           /\ \A s : s = Now.service => Subscribed(s)'
<1>1. ~Quiet /\ Now.do = "subscribe" /\ subs' = Append(subs, Now.service)
  BY DEF Subscribes, Runs, Now
<1>2. Now.service \in ServiceNames
  BY <1>1, Nowhere DEF Shape
<1>3. subs \in Seq(ServiceNames)
  <2>1. Len(subs) \in Nat /\ DOMAIN subs = 1 .. Len(subs)
    BY ProperFacts DEF Shape
  <2>2. subs \in [1 .. Len(subs) -> {subs[i] : i \in 1 .. Len(subs)}]
    BY LenProperties DEF Shape, Proper
  <2>3. subs \in [1 .. Len(subs) -> ServiceNames]
    BY <2>2 DEF Shape
  <2> QED
    BY <2>1, <2>3, SeqDef
<1>4. /\ subs' \in Seq(ServiceNames) /\ Len(subs') = Len(subs) + 1
      /\ \A m \in 1 .. Len(subs) : subs'[m] = subs[m]
      /\ subs'[Len(subs) + 1] = Now.service
  BY <1>1, <1>2, <1>3, AppendProperties
<1>5. Len(subs) \in Nat
  BY ProperFacts DEF Shape
<1>6. Proper(subs') /\ \A m \in 1 .. Len(subs') : subs'[m] \in ServiceNames
  BY <1>4, ProperIntro, ElementOfSeq
<1>7. ASSUME NEW s, Subscribed(s) PROVE Subscribed(s)'
  <2>1. PICK m \in 1 .. Len(subs) : subs[m] = s
    BY <1>7 DEF Subscribed
  <2>2. m \in 1 .. Len(subs') /\ subs'[m] = s
    BY <1>4, <1>5, <2>1
  <2> QED
    BY <2>2 DEF Subscribed
<1>8. ASSUME NEW s, s = Now.service PROVE Subscribed(s)'
  <2>1. Len(subs) + 1 \in 1 .. Len(subs')
    BY <1>4, <1>5
  <2> QED
    BY <1>4, <1>8, <2>1 DEF Subscribed
<1> QED
  BY <1>6, <1>7, <1>8

LEMMA ShapeStep == Shape /\ [Next]_vars => Shape'
<1> SUFFICES ASSUME Shape, [Next]_vars PROVE Shape'
  OBVIOUS
<1>1. setup' = setup /\ plugged' \subseteq Setups[setup].devices
  <2>1. setup' = setup
    BY DEF Next, Step, vars, serviceVars, CallMain, Subscribes, Publish, Callback, Command, Plug,
       Unplug, MapBuffer
  <2>2. plugged' = plugged \/ Plug \/ Unplug
    BY DEF Next, Step, vars, serviceVars, bluetoothVars, CallMain, Subscribes, Publish, Callback,
       Command, MapBuffer, BluetoothNext, SetDongle
  <2> QED
    BY <2>1, <2>2 DEF Plug, Unplug, Shape
<1>2. CASE subs' = subs /\ Routine
  <2>1. PICK called : AllHarmless(called) /\ Continue(called)
    BY <1>2 DEF Routine
  <2>2. Proper(subs') /\ (\A m \in 1 .. Len(subs') : subs'[m] \in ServiceNames)
        /\ \A s : Subscribed(s) => Subscribed(s)'
    BY <1>2 DEF Shape, Subscribed
  <2>3. Proper(called) /\ \A i \in 1 .. Len(called) : Fits(called[i])'
    BY <2>1, HarmlessFits
  <2> QED
    BY <1>1, <1>2, <2>1, <2>2, <2>3, ShapeKept DEF Routine
<1>3. CASE Subscribes
  <2>1. ~Quiet /\ Continue(<<>>)
    BY <1>3 DEF Subscribes, Runs
  <2>2. Proper(<<>>) /\ \A i \in 1 .. Len(<<>>) : Fits(<<>>[i])'
    BY HarmlessNothing, HarmlessFits
  <2> QED
    BY <1>1, <1>3, <2>1, <2>2, SubscribesCalls, ShapeKept
<1>4. CASE Publish
  <2>1. /\ ~Quiet /\ subs' = subs
        /\ \E called : /\ Proper(called) /\ Continue(called) /\ Len(called) = Len(subs)
                       /\ \A m \in 1 .. Len(subs) :
                             called[m] = [do |-> "callback", service |-> subs[m], n |-> Now]
    BY <1>4, PublishCalls
  <2>2. PICK called : /\ Proper(called) /\ Continue(called) /\ Len(called) = Len(subs)
                      /\ \A m \in 1 .. Len(subs) :
                            called[m] = [do |-> "callback", service |-> subs[m], n |-> Now]
    BY <2>1
  <2>3. Proper(subs') /\ (\A m \in 1 .. Len(subs') : subs'[m] \in ServiceNames)
        /\ \A s : Subscribed(s) => Subscribed(s)'
    BY <2>1 DEF Shape, Subscribed
  <2>4. ASSUME NEW i \in 1 .. Len(called) PROVE Fits(called[i])'
    <3>1. i \in 1 .. Len(subs)
      BY <2>2
    <3>2. called[i] = [do |-> "callback", service |-> subs[i], n |-> Now]
      BY <2>2, <3>1
    <3>3. called[i].do = "callback" /\ called[i].service = subs[i]
      BY <3>2
    <3>4. subs'[i] = called[i].service /\ i \in 1 .. Len(subs')
      BY <2>1, <3>1, <3>3
    <3> QED
      BY <3>3, <3>4 DEF Fits, Subscribed
  <2> QED
    BY <1>1, <2>1, <2>2, <2>3, <2>4, ShapeKept
<1>5. CASE Callback
  <2>1. /\ ~Quiet /\ subs' = subs /\ Now.service \in ServiceNames
        /\ Ordinary(Heard(Now.service, Now.n)) /\ Continue(Heard(Now.service, Now.n))
    BY <1>5, CallbackCalls
  <2>2. PICK called : Ordinary(called) /\ Continue(called)
    BY <2>1
  <2>3. Proper(subs') /\ (\A m \in 1 .. Len(subs') : subs'[m] \in ServiceNames)
        /\ \A s : Subscribed(s) => Subscribed(s)'
    BY <2>1 DEF Shape, Subscribed
  <2>4. Proper(called)
        /\ \A i \in 1 .. Len(called) :
              /\ called[i].do \notin {"main", "callback"}
              /\ called[i].do = "subscribe" => called[i].service \in ServiceNames
    BY <2>2 DEF Ordinary
  <2>5. ASSUME NEW i \in 1 .. Len(called) PROVE Fits(called[i])'
    <3>1. /\ called[i].do # "main" /\ called[i].do # "callback"
          /\ called[i].do = "subscribe" => called[i].service \in ServiceNames
      BY <2>4
    <3> QED
      BY <3>1 DEF Fits
  <2>6. Continue(called)
    BY <2>2
  <2> QED
    BY <1>1, <2>1, <2>3, <2>4, <2>5, <2>6, ShapeKept
<1>6. CASE Command \/ Plug \/ Unplug
  <2>1. subs' = subs /\ \E c : work' = <<c>> /\ c.do = "publish"
    BY <1>6, Arrivals
  <2>2. PICK c : work' = <<c>> /\ c.do = "publish"
    BY <2>1
  <2>3. Proper(work') /\ Len(work') = 1 /\ work'[1].do = "publish"
    BY <2>2, OneStatement
  <2> QED
    BY <1>1, <2>1, <2>3 DEF Shape
<1>7. CASE UNCHANGED vars \/ MapBuffer
  <2>1. work' = work /\ subs' = subs
    BY <1>7 DEF vars, MapBuffer, busVars
  <2> QED
    BY <1>1, <2>1 DEF Shape, Subscribed
<1>8. Step => Subscribes \/ Publish \/ Callback \/ (subs' = subs /\ Routine)
  <2>1. Step => Subscribes \/ subs' = subs
    BY DEF Step, CallMain, Publish, Callback, AudioNext, DacMute, DacVolume, SetClock, Stream,
       MemFsNext, AppendFile, RemoveFile, DisplayNext, InitFramebuffer, Clear, FillBar,
       BluetoothNext, SetDongle, StorageNext, Open, Decode, FreeBuffer, CloseFile, ListRoot, ProbesNext,
       EmmcReset
  <2> QED
    BY <2>1, RoutineStep
<1> QED
  BY <1>2, <1>3, <1>4, <1>5, <1>6, <1>7, <1>8 DEF Next

LEMMA ShapeHolds == Spec => []Shape
BY ShapeInit, ShapeStep, PTL DEF Spec

\* Every step of the thread takes one statement away and puts others in its place.
LEMMA StepContinues ==
    ASSUME Shape, Step
    PROVE  ~Quiet /\ \E called : Proper(called) /\ Continue(called)
<1>1. CASE Routine
  BY <1>1 DEF Routine, AllHarmless
<1>2. CASE Publish
  BY <1>2, PublishCalls
<1>3. CASE Callback
  BY <1>3, CallbackCalls DEF Ordinary
<1> QED
  BY <1>1, <1>2, <1>3, RoutineStep

-----------------------------------------------------------------------------
(***************************************************************************)
(* PlayCleansUp.  While a file is open, the decoder or the statement that  *)
(* closes it is still to run; while a work buffer is held, so is the       *)
(* statement that frees it.                                                *)
(***************************************************************************)

CleanUp ==
    /\ held \subseteq {"samples", "raw", "packed"}
    /\ opened # {} => \E i \in 1 .. Len(work) : work[i].do \in {"decode", "close"}
    /\ \A b \in held \ {"samples"} :
          \E i \in 1 .. Len(work) : work[i].do = "free" /\ work[i].buffer = b

LEMMA CleanUpKept ==
    ASSUME Shape, ~Quiet, CleanUp, NEW called, Proper(called), Continue(called),
           held' \subseteq {"samples", "raw", "packed"},
           opened' # {} => \/ opened # {} /\ Now.do \notin {"decode", "close"}
                           \/ \E i \in 1 .. Len(called) : called[i].do \in {"decode", "close"},
           \A b \in held' \ {"samples"} :
               \/ b \in held /\ ~(Now.do = "free" /\ Now.buffer = b)
               \/ \E i \in 1 .. Len(called) : called[i].do = "free" /\ called[i].buffer = b
    PROVE  CleanUp'
<1>1. /\ \A i \in 1 .. Len(called) : i \in 1 .. Len(work') /\ work'[i] = called[i]
      /\ \A j \in 2 .. Len(work) : /\ Len(called) + j - 1 \in 1 .. Len(work')
                                   /\ work'[Len(called) + j - 1] = work[j]
  BY Places DEF Shape
<1>2. Len(work) \in Nat \ {0} /\ Now = work[1]
  BY Nowhere
<1>3. ASSUME NEW j \in 1 .. Len(work), work[j] # Now
      PROVE  \E i \in 1 .. Len(work') : work'[i] = work[j]
  <2>1. j \in 2 .. Len(work)
    BY <1>2, <1>3
  <2> QED
    BY <1>1, <2>1
<1>4. opened' # {} => \E i \in 1 .. Len(work') : work'[i].do \in {"decode", "close"}
  BY <1>1, <1>3 DEF CleanUp
<1>5. ASSUME NEW b \in held' \ {"samples"}
      PROVE  \E i \in 1 .. Len(work') : work'[i].do = "free" /\ work'[i].buffer = b
  <2>1. CASE b \in held /\ ~(Now.do = "free" /\ Now.buffer = b)
    <3>1. PICK j \in 1 .. Len(work) : work[j].do = "free" /\ work[j].buffer = b
      BY <1>5, <2>1 DEF CleanUp
    <3>2. work[j] # Now
      BY <2>1, <3>1
    <3> QED
      BY <1>3, <3>1, <3>2
  <2>2. CASE \E i \in 1 .. Len(called) : called[i].do = "free" /\ called[i].buffer = b
    BY <1>1, <2>2
  <2> QED
    BY <1>5, <2>1, <2>2
<1> QED
  BY <1>4, <1>5 DEF CleanUp

LEMMA CleanUpUnrelated ==
    ASSUME Shape, Step, CleanUp, Now.do \notin {"decode", "close", "free"},
           opened' = opened, held' = held
    PROVE  CleanUp'
<1>1. PICK called : Proper(called) /\ Continue(called)
  BY StepContinues
<1>2. ~Quiet
  BY StepContinues
<1>3. /\ held' \subseteq {"samples", "raw", "packed"}
      /\ opened' # {} => opened # {} /\ Now.do \notin {"decode", "close"}
      /\ \A b \in held' \ {"samples"} : b \in held /\ ~(Now.do = "free" /\ Now.buffer = b)
  BY DEF CleanUp
<1> QED
  BY <1>1, <1>2, <1>3, CleanUpKept

\* Every way through the decoders ends with the file's close, and frees what it
\* holds on to for the time of play.
LEMMA DecodeCleansUp ==
    ASSUME Decode
    PROVE  /\ opened' = opened
           /\ \E called :
                 /\ Proper(called) /\ Continue(called)
                 /\ \E i \in 1 .. Len(called) : called[i].do = "close"
                 /\ held' \subseteq held \cup {"samples", "raw", "packed"}
                 /\ \A b \in held' \ (held \cup {"samples"}) :
                       \E i \in 1 .. Len(called) : called[i].do = "free" /\ called[i].buffer = b
<1> DEFINE Good(called) ==
               /\ Proper(called) /\ Continue(called)
               /\ \E i \in 1 .. Len(called) : called[i].do = "close"
               /\ held' \subseteq held \cup {"samples", "raw", "packed"}
               /\ \A b \in held' \ (held \cup {"samples"}) :
                     \E i \in 1 .. Len(called) : called[i].do = "free" /\ called[i].buffer = b
<1>1. ASSUME NEW c, Proper(c)
      PROVE  /\ Proper(c \o <<Close>>)
             /\ \E i \in 1 .. Len(c \o <<Close>>) : (c \o <<Close>>)[i].do = "close"
             /\ \A i \in 1 .. Len(c) : i \in 1 .. Len(c \o <<Close>>) /\ (c \o <<Close>>)[i] = c[i]
  <2> DEFINE t == <<Close>>
  <2>1. Proper(t) /\ Len(t) = 1 /\ t[1].do = "close"
    BY ProperTuples DEF Close
  <2> HIDE DEF t
  <2>2. Proper(c \o t)
    BY <1>1, <2>1, ProperConcat
  <2>3. Len(c \o t) = Len(c) + Len(t)
    BY <1>1, <2>1, ProperConcat
  <2>4. \A i \in 1 .. Len(c) : (c \o t)[i] = c[i]
    BY <1>1, <2>1, ProperConcat
  <2>5. \A i \in 1 .. Len(t) : (c \o t)[Len(c) + i] = t[i]
    BY <1>1, <2>1, ProperConcat
  <2> DEFINE u == c \o t
             m == Len(c)
  <2>6. m \in Nat
    BY <1>1, ProperFacts
  <2>7. Len(u) = m + Len(t) /\ (\A i \in 1 .. m : u[i] = c[i])
        /\ \A i \in 1 .. Len(t) : u[m + i] = t[i]
    BY <2>3, <2>4, <2>5
  <2> HIDE DEF u, m
  <2>8. Len(u) = m + 1 /\ u[m + 1] = t[1]
    BY <2>1, <2>7
  <2>9. /\ \E i \in 1 .. Len(u) : u[i].do = "close"
        /\ \A i \in 1 .. m : i \in 1 .. Len(u) /\ u[i] = c[i]
    BY <2>1, <2>6, <2>7, <2>8
  <2> QED
    BY <2>2, <2>9 DEF u, m, t
<1>2. \A samples, name : /\ Proper(PublishPcm(name, samples))
                         /\ Proper(PublishMeta(name) \o PublishPcm(name, samples))
  BY SteadyPublishPcm, SteadyPublishMeta, ProperConcat DEF AllSteady
<1>3. ASSUME NEW c, Proper(c), Continue(c \o <<Close>>),
             held' \subseteq held \cup {"samples", "raw", "packed"},
             \A b \in held' \ (held \cup {"samples"}) :
                 \E i \in 1 .. Len(c) : c[i].do = "free" /\ c[i].buffer = b
      PROVE  \E called : Good(called)
  <2> DEFINE u == c \o <<Close>>
  <2>1. /\ Proper(u) /\ Continue(u)
        /\ \E i \in 1 .. Len(u) : u[i].do = "close"
        /\ \A i \in 1 .. Len(c) : i \in 1 .. Len(u) /\ u[i] = c[i]
    BY <1>1, <1>3
  <2> HIDE DEF u
  <2>2. ASSUME NEW b \in held' \ (held \cup {"samples"})
        PROVE  \E i \in 1 .. Len(u) : u[i].do = "free" /\ u[i].buffer = b
    <3>1. PICK i \in 1 .. Len(c) : c[i].do = "free" /\ c[i].buffer = b
      BY <1>3, <2>2
    <3> QED
      BY <2>1, <3>1
  <2>3. Good(u)
    BY <1>3, <2>1, <2>2
  <2> QED
    BY <2>3
<1>3a. ASSUME Continue(<<Close>>), held' = held PROVE \E called : Good(called)
  <2>1. Good(<<Close>>)
    BY <1>3a, ProperTuples DEF Close
  <2> QED
    BY <2>1
<1>3b. ASSUME NEW name, DecodeFlac(name) PROVE \E called : Good(called)
  <2>1. \/ Continue(<<Close>>) /\ held' = held
        \/ \E samples : /\ held' \subseteq held \cup {"samples"}
                         /\ Continue(PublishMeta(name) \o PublishPcm(name, samples) \o <<Close>>)
    BY <1>3b DEF DecodeFlac
  <2> QED
    BY <1>2, <1>3, <1>3a, <2>1
<1>3c. ASSUME NEW name, DecodeWhole(name) PROVE \E called : Good(called)
  <2>1. \/ Continue(<<Close>>) /\ held' = held
        \/ /\ held' \subseteq held \cup {"samples"}
           /\ Continue(PublishPcm(name, TRUE) \o <<Close>>)
    BY <1>3c DEF DecodeWhole
  <2> QED
    BY <1>2, <1>3, <1>3a, <2>1
<1>4. ASSUME NEW name, DecodeDsd(name) PROVE \E called : Good(called)
  <2> DEFINE freeRaw == [do |-> "free", buffer |-> "raw"]
             freePacked == [do |-> "free", buffer |-> "packed"]
             sent == <<TrackStatus("title", [track |-> name, from |-> "file name"]),
                       TrackStatus("format", "DoP"),
                       TrackStatus("sample_rate", Card[name].rate),
                       TrackStatus("channels", name),
                       TrackStatus("bits_per_sample", "DSD/1-bit"),
                       StoreBuffer(name, Card[name].bytes),
                       StorageStatus("state", "decoded (DoP)"),
                       freePacked>>
  <2>1. \/ held' = held /\ \E x : Continue(<<x, Close>>)
        \/ held' = held /\ Continue(<<>> \o <<>> \o <<Close>>)
        \/ held' = held \cup {"raw"} /\ Continue(<<>> \o <<freeRaw>> \o <<Close>>)
        \/ held' = held \cup {"raw", "packed"} /\ Continue(sent \o <<freeRaw>> \o <<Close>>)
    BY <1>4 DEF DecodeDsd
  <2>2. /\ Proper(sent) /\ Len(sent) = 8 /\ sent[8].do = "free" /\ sent[8].buffer = "packed"
    <3>1. ASSUME NEW a, NEW b, NEW c, NEW d, NEW e, NEW f, NEW g, NEW h
          PROVE  /\ Proper(<<a, b, c, d, e, f, g, h>>) /\ Len(<<a, b, c, d, e, f, g, h>>) = 8
                 /\ <<a, b, c, d, e, f, g, h>>[8] = h
      <4>1. <<a, b, c, d, e, f, g, h>> \in Seq({a, b, c, d, e, f, g, h})
        OBVIOUS
      <4> QED
        BY <4>1, ProperIntro
    <3>2. Proper(sent) /\ Len(sent) = 8 /\ sent[8] = freePacked
      BY <3>1
    <3> QED
      BY <3>2
  <2> HIDE DEF sent
  <2> DEFINE none == <<>> \o <<>>
             one == <<>> \o <<freeRaw>>
             both == sent \o <<freeRaw>>
  <2>3. Proper(none)
    BY ProperTuples, ProperConcat
  <2>4. Proper(one) /\ 1 \in 1 .. Len(one) /\ one[1].do = "free" /\ one[1].buffer = "raw"
    <3>1. one = <<freeRaw>>
      <4>1. freeRaw \in {freeRaw} /\ <<freeRaw>> \in Seq({freeRaw})
        OBVIOUS
      <4> HIDE DEF freeRaw
      <4> QED
        BY <4>1
    <3>2. Proper(<<freeRaw>>) /\ Len(<<freeRaw>>) = 1 /\ <<freeRaw>>[1] = freeRaw
      BY ProperTuples
    <3> QED
      BY <3>1, <3>2
  <2>5. /\ Proper(both) /\ 8 \in 1 .. Len(both) /\ 9 \in 1 .. Len(both)
        /\ both[8].do = "free" /\ both[8].buffer = "packed"
        /\ both[9].do = "free" /\ both[9].buffer = "raw"
    <3> DEFINE t == <<freeRaw>>
    <3>1. Proper(t) /\ Len(t) = 1 /\ t[1].do = "free" /\ t[1].buffer = "raw"
      BY ProperTuples
    <3> HIDE DEF t
    <3>0. Proper(sent) /\ Proper(t)
      BY <2>2, <3>1
    <3>2. Proper(sent \o t)
      BY <3>0, ProperConcat
    <3>3. Len(sent \o t) = Len(sent) + Len(t)
      BY <3>0, ProperConcat
    <3>4. \A i \in 1 .. Len(sent) : (sent \o t)[i] = sent[i]
      BY <3>0, ProperConcat
    <3>5. \A i \in 1 .. Len(t) : (sent \o t)[Len(sent) + i] = t[i]
      BY <3>0, ProperConcat
    <3> DEFINE u == sent \o t
    <3>6. /\ Len(u) = Len(sent) + Len(t)
          /\ \A i \in 1 .. Len(sent) : u[i] = sent[i]
          /\ \A i \in 1 .. Len(t) : u[Len(sent) + i] = t[i]
      BY <3>3, <3>4, <3>5
    <3> HIDE DEF u
    <3>7. Len(u) = 9 /\ u[8] = sent[8] /\ u[9] = t[1]
      BY <2>2, <3>1, <3>6
    <3>8. Proper(u)
      BY <3>2 DEF u
    <3>9. /\ Proper(u) /\ 8 \in 1 .. Len(u) /\ 9 \in 1 .. Len(u)
          /\ u[8].do = "free" /\ u[8].buffer = "packed"
          /\ u[9].do = "free" /\ u[9].buffer = "raw"
      BY <2>2, <3>1, <3>7, <3>8
    <3> QED
      BY <3>9 DEF u, t
  <2> HIDE DEF none, one, both
  <2>6. CASE held' = held /\ \E x : Continue(<<x, Close>>)
    <3>1. PICK x : Continue(<<x, Close>>)
      BY <2>6
    <3>2. Good(<<x, Close>>)
      BY <2>6, <3>1, ProperTuples DEF Close
    <3> QED
      BY <3>2
  <2>7. CASE held' = held /\ Continue(none \o <<Close>>)
    BY <1>3, <2>3, <2>7
  <2>8. CASE held' = held \cup {"raw"} /\ Continue(one \o <<Close>>)
    BY <1>3, <2>4, <2>8
  <2>9. CASE held' = held \cup {"raw", "packed"} /\ Continue(both \o <<Close>>)
    <3>1. \A b \in held' \ (held \cup {"samples"}) : b = "raw" \/ b = "packed"
      BY <2>9
    <3>2. \A b \in held' \ (held \cup {"samples"}) :
              \E i \in 1 .. Len(both) : both[i].do = "free" /\ both[i].buffer = b
      BY <2>5, <3>1
    <3>3. held' \subseteq held \cup {"samples", "raw", "packed"}
      BY <2>9
    <3> QED
      BY <1>3, <2>5, <2>9, <3>2, <3>3
  <2> QED
    BY <2>1, <2>6, <2>7, <2>8, <2>9 DEF none, one, both
<1>5. ASSUME NEW name, NotDecoded(name) PROVE \E called : Good(called)
  <2>1. held' = held /\ \E x : Continue(<<x, Close>>)
    BY <1>5 DEF NotDecoded
  <2>2. PICK x : Continue(<<x, Close>>)
    BY <2>1
  <2>3. Good(<<x, Close>>)
    BY <2>1, <2>2, ProperTuples DEF Close
  <2> QED
    BY <2>3
<1>6. \E name : DecodeFlac(name) \/ DecodeWhole(name) \/ DecodeDsd(name) \/ NotDecoded(name)
  BY DEF Decode
<1>7. opened' = opened
  BY DEF Decode
<1> QED
  BY <1>3b, <1>3c, <1>4, <1>5, <1>6, <1>7

LEMMA CleanUpStep == Shape /\ CleanUp /\ [Next]_vars => CleanUp'
<1> SUFFICES ASSUME Shape, CleanUp, [Next]_vars PROVE CleanUp'
  OBVIOUS
<1>1. CASE Step /\ Now.do \notin {"decode", "close", "free"} /\ UNCHANGED <<opened, held>>
  BY <1>1, CleanUpUnrelated
<1>2. Step => \/ Open \/ Decode \/ FreeBuffer \/ CloseFile
              \/ Now.do \notin {"decode", "close", "free"} /\ UNCHANGED <<opened, held>>
  BY DEF Step, serviceVars, storageVars, CallMain, Subscribes, Publish, Callback, AudioNext, DacMute,
     DacVolume, SetClock, Stream, MemFsNext, AppendFile, RemoveFile, DisplayNext, InitFramebuffer,
     Clear, FillBar, BluetoothNext, SetDongle, StorageNext, ListRoot, ProbesNext, EmmcReset, Runs, Now
<1>3. CASE Open
  <2>1. ~Quiet /\ Now.do = "open" /\ held' = held
    BY <1>3 DEF Open, Runs, Now, fixed
  <2> DEFINE f == TrackStatus("format", Card[Now.track].fmt)
             m == TrackStatus("magic", Card[Now.track].fmt)
             d == [do |-> "decode", track |-> Now.track]
             e == StorageStatus("error", "file not found")
  <2>2. Continue(<<f, m, d>>) \/ (Continue(<<e>>) /\ opened' = opened)
    <3>1. CASE Now.track \in DOMAIN Card
      BY <1>3, <3>1 DEF Open
    <3>2. CASE Now.track \notin DOMAIN Card
      BY <1>3, <3>2 DEF Open
    <3> QED
      BY <3>1, <3>2
  <2>3. d.do = "decode"
    OBVIOUS
  <2> HIDE DEF f, m, d, e
  <2>4. /\ held' \subseteq {"samples", "raw", "packed"}
        /\ \A b \in held' \ {"samples"} : b \in held /\ ~(Now.do = "free" /\ Now.buffer = b)
    BY <2>1 DEF CleanUp
  <2>5. CASE Continue(<<f, m, d>>)
    <3>1. Proper(<<f, m, d>>) /\ Len(<<f, m, d>>) = 3 /\ <<f, m, d>>[3].do = "decode"
      BY <2>3, ProperTuples
    <3> DEFINE called == <<f, m, d>>
    <3>2. Proper(called) /\ Continue(called) /\ \E i \in 1 .. Len(called) : called[i].do = "decode"
      BY <2>5, <3>1
    <3> HIDE DEF called
    <3> QED
      BY <2>1, <2>4, <3>2, CleanUpKept
  <2>6. CASE Continue(<<e>>) /\ opened' = opened
    <3>1. opened' # {} => opened # {} /\ Now.do \notin {"decode", "close"}
      BY <2>1, <2>6
    <3>2. Proper(<<e>>)
      BY OneStatement
    <3> DEFINE called == <<e>>
    <3>3. Proper(called) /\ Continue(called)
      BY <2>6, <3>2
    <3> HIDE DEF called
    <3> QED
      BY <2>1, <2>4, <3>1, <3>3, CleanUpKept
  <2> QED
    BY <2>2, <2>5, <2>6
<1>4. CASE Decode
  <2>1. ~Quiet /\ Now.do = "decode"
    BY <1>4 DEF Decode, Runs, Now
  <2>2. PICK called :
            /\ Proper(called) /\ Continue(called)
            /\ \E i \in 1 .. Len(called) : called[i].do = "close"
            /\ held' \subseteq held \cup {"samples", "raw", "packed"}
            /\ \A b \in held' \ (held \cup {"samples"}) :
                  \E i \in 1 .. Len(called) : called[i].do = "free" /\ called[i].buffer = b
    BY <1>4, DecodeCleansUp
  <2>3. /\ held' \subseteq {"samples", "raw", "packed"}
        /\ \E i \in 1 .. Len(called) : called[i].do \in {"decode", "close"}
        /\ \A b \in held' \ {"samples"} :
               \/ b \in held /\ ~(Now.do = "free" /\ Now.buffer = b)
               \/ \E i \in 1 .. Len(called) : called[i].do = "free" /\ called[i].buffer = b
    BY <2>1, <2>2 DEF CleanUp
  <2> QED
    BY <2>1, <2>2, <2>3, CleanUpKept
<1>5. CASE FreeBuffer
  <2>1. ~Quiet /\ Now.do = "free" /\ Continue(<<>>) /\ opened' = opened /\ held' = held \ {Now.buffer}
    BY <1>5 DEF FreeBuffer, Runs, Now
  <2>2. /\ held' \subseteq {"samples", "raw", "packed"}
        /\ opened' # {} => opened # {} /\ Now.do \notin {"decode", "close"}
        /\ \A b \in held' \ {"samples"} : b \in held /\ ~(Now.do = "free" /\ Now.buffer = b)
    BY <2>1 DEF CleanUp
  <2>3. Proper(<<>>)
    BY ProperTuples
  <2> QED
    BY <2>1, <2>2, <2>3, CleanUpKept
<1>6. CASE CloseFile
  <2>1. ~Quiet /\ Now.do = "close" /\ Continue(<<>>) /\ opened' = {} /\ held' = held
    BY <1>6 DEF CloseFile, Runs, Now
  <2>2. /\ held' \subseteq {"samples", "raw", "packed"}
        /\ \A b \in held' \ {"samples"} : b \in held /\ ~(Now.do = "free" /\ Now.buffer = b)
    BY <2>1 DEF CleanUp
  <2>3. Proper(<<>>)
    BY ProperTuples
  <2> QED
    BY <2>1, <2>2, <2>3, CleanUpKept
<1>7. CASE Command \/ Plug \/ Unplug
  <2>1. Quiet /\ opened' = opened /\ held' = held
    BY <1>7, Arrivals DEF storageVars
  <2>2. Len(work) = 0
    BY <2>1, ProperFacts DEF Quiet, Shape
  <2>3. opened = {} /\ held \ {"samples"} = {}
    BY <2>2 DEF CleanUp
  <2> QED
    BY <2>1, <2>3 DEF CleanUp
<1>8. CASE UNCHANGED vars \/ MapBuffer
  BY <1>8 DEF CleanUp, vars, busVars, storageVars, MapBuffer
<1> QED
  BY <1>1, <1>2, <1>3, <1>4, <1>5, <1>6, <1>7, <1>8 DEF Next

\* play leaves no file open and frees its work buffers, whatever the card holds
\* and whether or not the memory is there (storagemgr.cpp: play and its decoders).
THEOREM PlayAlwaysCleansUp == Spec => []PlayCleansUp
<1>1. Init => CleanUp
  BY DEF Init, StorageInit, CleanUp
<1>2. Shape /\ CleanUp => PlayCleansUp
  <2> SUFFICES ASSUME Shape, CleanUp, Quiet PROVE opened = {} /\ held \subseteq {"samples"}
    BY DEF PlayCleansUp
  <2>1. Len(work) = 0
    BY ProperFacts DEF Quiet, Shape
  <2> QED
    BY <2>1 DEF CleanUp
<1> QED
  BY <1>1, <1>2, ShapeHolds, CleanUpStep, PTL DEF Spec

-----------------------------------------------------------------------------
(***************************************************************************)
(* StatusTellsMute.  The mute is written at once after the handler's call, *)
(* and its state published right after it: between the two no other        *)
(* statement runs.                                                         *)
(***************************************************************************)

PublishesState(s, state) == s.do = "publish" /\ Says(s, state)

MuteFields == {"muted", "missed"}

MuteTold ==
    /\ MuteFields \subseteq DOMAIN dac
    /\ \A i \in 1 .. Len(work) :
          work[i].do = "mute" => /\ i = 1 /\ Len(work) >= 2 /\ work[1].on \in BOOLEAN
                                 /\ PublishesState(work[2], IF work[1].on THEN "muted" ELSE "idle")
    /\ \A i \in 1 .. Len(work) :
          PublishesState(work[i], "muted") => \/ i = 1 /\ Hushed
                                              \/ i = 2 /\ work[1].do = "mute" /\ work[1].on
    /\ Reads("audio/status", "state", "muted") =>
          Hushed \/ (~Quiet /\ PublishesState(Now, "idle"))

\* Statements that have nothing to do with the mute.
Calm(c) == /\ Proper(c)
           /\ \A i \in 1 .. Len(c) : c[i].do # "mute" /\ ~PublishesState(c[i], "muted")

LEMMA CalmStatements ==
    ASSUME NEW c, NEW n,
           AllHarmless(c) \/ Tune(c) \/ c = <<Framebuffer>> \/ c = ShowPlaying(n)
    PROVE  Calm(c)
<1>1. CASE AllHarmless(c)
  BY <1>1 DEF AllHarmless, Harmless, Calm, PublishesState
<1>2. CASE Tune(c)
  <2>1. Proper(c)
    BY <1>2 DEF Tune
  <2>2. ASSUME NEW i \in 1 .. Len(c) PROVE c[i].do # "mute" /\ ~PublishesState(c[i], "muted")
    <3>1. \/ c[i].do \in {"set clock", "stream"}
          \/ c[i].do = "publish" /\ (Says(c[i], "playing") \/ Says(c[i], "idle"))
      BY <1>2, TuneStatements
    <3> QED
      BY <3>1 DEF PublishesState, Says
  <2> QED
    BY <2>1, <2>2 DEF Calm
<1>3. CASE c = <<Framebuffer>>
  BY <1>3, ProperTuples DEF Framebuffer, Calm, PublishesState
<1>4. CASE c = ShowPlaying(n)
  <2>1. c = <<>> \/ \E x : c = <<[do |-> "bar", on |-> x]>>
    BY <1>4 DEF ShowPlaying
  <2>2. CASE c = <<>>
    BY <2>2, ProperTuples DEF Calm
  <2>3. ASSUME NEW x, c = <<[do |-> "bar", on |-> x]>> PROVE Calm(c)
    BY <2>3, ProperTuples DEF Calm, PublishesState
  <2> QED
    BY <2>1, <2>2, <2>3
<1> QED
  BY <1>1, <1>2, <1>3, <1>4

LEMMA CalmStep ==
    ASSUME Shape, ~Quiet, MuteTold, NEW called, Calm(called), Continue(called),
           Now.do # "mute", MuteFields \subseteq DOMAIN dac', Hushed' = Hushed,
           Reads("audio/status", "state", "muted")' => Hushed
    PROVE  MuteTold'
<1>1. \A i \in 1 .. Len(work') :
          \/ i \in 1 .. Len(called) /\ work'[i] = called[i]
          \/ \E j \in 2 .. Len(work) : i = Len(called) + j - 1 /\ work'[i] = work[j]
  BY Places DEF Shape, Calm
<1>2. Len(work) \in Nat \ {0} /\ Now = work[1]
  BY Nowhere
<1>3. ASSUME NEW j \in 2 .. Len(work)
      PROVE  work[j].do # "mute" /\ ~PublishesState(work[j], "muted")
  <2>1. j \in 1 .. Len(work) /\ j # 1
    BY <1>2
  <2> QED
    BY <1>2, <2>1 DEF MuteTold
<1>4. ASSUME NEW i \in 1 .. Len(work')
      PROVE  work'[i].do # "mute" /\ ~PublishesState(work[i], "muted")'
  BY <1>1, <1>3 DEF Calm, PublishesState
<1> QED
  BY <1>4 DEF MuteTold

LEMMA MuteTellsState ==
    ASSUME Shape, MuteTold, DacMute
    PROVE  MuteTold'
<1>1. ~Quiet /\ Now.do = "mute" /\ Continue(<<>>) /\ objects' = objects
  BY DEF DacMute, Runs, Now
<1>2. Len(work) \in Nat \ {0} /\ Now = work[1]
  BY <1>1, Nowhere
<1>3. /\ Len(work) >= 2 /\ work[1].on \in BOOLEAN
      /\ PublishesState(work[2], IF work[1].on THEN "muted" ELSE "idle")
  BY <1>1, <1>2 DEF MuteTold
<1>4. (work[1].on => Hushed') /\ MuteFields \subseteq DOMAIN dac'
  <2>1. PICK ack \in BOOLEAN : dac' = [dac EXCEPT !.muted  = IF ack THEN Now.on ELSE @,
                                                 !.missed = ~ack]
    BY AudioAssumption DEF DacMute
  <2>2. MuteFields \subseteq DOMAIN dac
    BY DEF MuteTold
  <2>3. dac'.missed = ~ack /\ (ack => dac'.muted = Now.on) /\ DOMAIN dac' = DOMAIN dac
    BY <2>1, <2>2 DEF MuteFields
  <2> QED
    BY <1>2, <2>2, <2>3 DEF Hushed
<1>5. Proper(<<>>) /\ Len(<<>>) = 0
  BY ProperTuples
<1>6. /\ Proper(work') /\ Len(work') = Len(work) - 1
      /\ \A j \in 2 .. Len(work) : work'[j - 1] = work[j]
  <2>1. /\ Proper(work') /\ Len(work') = Len(<<>>) + Len(work) - 1
        /\ \A j \in 2 .. Len(work) : work'[Len(<<>>) + j - 1] = work[j]
    BY <1>1, <1>5, Continued DEF Shape
  <2> QED
    BY <1>2, <1>5, <2>1
<1>7. ASSUME NEW i \in 1 .. Len(work')
      PROVE  i + 1 \in 2 .. Len(work) /\ work'[i] = work[i + 1]
  BY <1>2, <1>6
<1>8. ASSUME NEW i \in 1 .. Len(work')
      PROVE  /\ work'[i].do # "mute"
             /\ PublishesState(work'[i], "muted") => i = 1 /\ Hushed'
  <2>1. i + 1 \in 1 .. Len(work) /\ i + 1 # 1 /\ work'[i] = work[i + 1]
    BY <1>2, <1>7
  <2>2. work[i + 1].do # "mute"
    BY <2>1 DEF MuteTold
  <2>3. PublishesState(work[i + 1], "muted") => i + 1 = 2 /\ work[1].on
    BY <2>1 DEF MuteTold
  <2> QED
    BY <1>4, <2>1, <2>2, <2>3
<1>9. Reads("audio/status", "state", "muted")' =>
          Hushed' \/ (~Quiet' /\ PublishesState(Now, "idle")')
  <2>1. CASE work[1].on
    BY <1>4, <2>1
  <2>2. CASE ~work[1].on
    <3>1. Len(work') \in Nat \ {0} /\ work'[1] = work[2]
      BY <1>2, <1>3, <1>6
    <3>2. work' # <<>> /\ Head(work') = work'[1]
      BY <1>6, <3>1, HeadTailProperties, ProperFacts DEF Proper
    <3> QED
      BY <1>3, <2>2, <3>1, <3>2 DEF Quiet, Now, PublishesState
  <2> QED
    BY <2>1, <2>2
<1> QED
  BY <1>4, <1>8, <1>9 DEF MuteTold, PublishesState

LEMMA MuteOnCallback ==
    ASSUME Shape, MuteTold, Callback
    PROVE  MuteTold'
<1> DEFINE heard == Heard(Now.service, Now.n)
<1>1. /\ ~Quiet /\ Now.do = "callback" /\ objects' = objects /\ dac' = dac
      /\ Continue(heard) /\ Now.service \in ServiceNames
  BY CallbackCalls DEF serviceVars, audioVars
<1>2. Mutes(heard) \/ Calm(heard)
  <2>1. CASE Now.n.path \in Paths(Now.service)
    <3>1. heard = Handles(Now.service, Now.n)
      BY <2>1 DEF Heard
    <3>2. \/ AllHarmless(heard) \/ Mutes(heard) \/ Tune(heard) \/ heard = <<Framebuffer>>
          \/ heard = ShowPlaying(Now.n)
      BY <1>1, <2>1, <3>1, HandlerCalls
    <3> HIDE DEF heard
    <3> QED
      BY <3>2, CalmStatements
  <2>2. CASE Now.n.path \notin Paths(Now.service)
    BY <2>2, ProperTuples DEF Heard, Calm
  <2> QED
    BY <2>1, <2>2
<1>3. PICK called : Continue(called) /\ (Mutes(called) \/ Calm(called))
  BY <1>1, <1>2
<1>4. Reads("audio/status", "state", "muted") => Hushed
  BY <1>1 DEF MuteTold, PublishesState
<1>5. CASE Calm(called)
  <2>1. Reads("audio/status", "state", "muted")' => Hushed
    BY <1>1, <1>4 DEF Reads, Published
  <2> QED
    BY <1>1, <1>3, <1>5, <2>1, CalmStep DEF MuteTold, Hushed
<1>6. CASE Mutes(called)
  <2>1. /\ Proper(called) /\ Len(called) = 2
        /\ called[1].do = "mute" /\ called[1].on \in BOOLEAN
        /\ called[2].do = "publish" /\ Says(called[2], IF called[1].on THEN "muted" ELSE "idle")
    BY <1>6 DEF Mutes
  <2>2. /\ Proper(work')
        /\ \A i \in 1 .. Len(called) : i \in 1 .. Len(work') /\ work'[i] = called[i]
        /\ \A i \in 1 .. Len(work') :
              \/ i \in 1 .. Len(called) /\ work'[i] = called[i]
              \/ \E j \in 2 .. Len(work) : i = Len(called) + j - 1 /\ work'[i] = work[j]
    BY <1>1, <1>3, <2>1, Places DEF Shape
  <2>3. Len(work) \in Nat \ {0} /\ Now = work[1]
    BY <1>1, Nowhere
  <2>4. ASSUME NEW j \in 2 .. Len(work)
        PROVE  work[j].do # "mute" /\ ~PublishesState(work[j], "muted")
    <3>1. j \in 1 .. Len(work) /\ j # 1
      BY <2>3
    <3> QED
      BY <1>1, <2>3, <3>1 DEF MuteTold
  <2>5. /\ 1 \in 1 .. Len(work') /\ 2 \in 1 .. Len(work')
        /\ work'[1] = called[1] /\ work'[2] = called[2]
    BY <2>1, <2>2
  <2>6. Len(work') \in Nat
    BY <2>2, ProperFacts
  <2>7. Len(work') >= 2 /\ PublishesState(work'[2], IF work'[1].on THEN "muted" ELSE "idle")
    BY <2>1, <2>5, <2>6 DEF PublishesState
  <2>8. ASSUME NEW i \in 1 .. Len(work')
        PROVE  /\ work'[i].do = "mute" => i = 1
               /\ PublishesState(work'[i], "muted") => i = 2 /\ work'[1].do = "mute" /\ work'[1].on
    <3>1. CASE i \in 1 .. Len(called) /\ work'[i] = called[i]
      <4>1. i = 1 \/ i = 2
        BY <2>1, <3>1
      <4>2. CASE i = 1
        BY <2>1, <2>5, <4>2 DEF PublishesState
      <4>3. CASE i = 2
        BY <2>1, <2>5, <4>3 DEF PublishesState, Says
      <4> QED
        BY <4>1, <4>2, <4>3
    <3>2. CASE \E j \in 2 .. Len(work) : i = Len(called) + j - 1 /\ work'[i] = work[j]
      BY <2>4, <3>2
    <3> QED
      BY <2>2, <3>1, <3>2
  <2>9. Reads("audio/status", "state", "muted")' => Hushed'
    BY <1>1, <1>4 DEF Hushed, Reads, Published
  <2>10. MuteFields \subseteq DOMAIN dac' /\ work'[1].on \in BOOLEAN
    BY <1>1, <2>1, <2>5 DEF MuteTold
  <2> QED
    BY <2>7, <2>8, <2>9, <2>10 DEF MuteTold, PublishesState
<1> QED
  BY <1>3, <1>5, <1>6

LEMMA MuteOnPublish ==
    ASSUME Shape, MuteTold, Publish
    PROVE  MuteTold'
<1>1. ~Quiet /\ Now.do = "publish" /\ dac' = dac
  BY PublishCalls DEF serviceVars, audioVars
<1>2. PICK called : /\ Proper(called) /\ Continue(called) /\ Len(called) = Len(subs)
                    /\ \A m \in 1 .. Len(subs) :
                          called[m] = [do |-> "callback", service |-> subs[m], n |-> Now]
  BY PublishCalls
<1>3. Calm(called)
  <2>1. ASSUME NEW m \in 1 .. Len(called) PROVE called[m].do = "callback"
    <3>1. called[m] = [do |-> "callback", service |-> subs[m], n |-> Now]
      BY <1>2
    <3> QED
      BY <3>1
  <2> QED
    BY <1>2, <2>1 DEF Calm, PublishesState
<1>4. Reads("audio/status", "state", "muted")' => Hushed
  <2> SUFFICES ASSUME Reads("audio/status", "state", "muted")' PROVE Hushed
    OBVIOUS
  <2>1. Len(work) \in Nat \ {0} /\ Now = work[1]
    BY <1>1, Nowhere
  <2>2. PublishesState(work[1], "muted") => Hushed
    BY <1>1, <2>1 DEF MuteTold
  <2>3. objects' = objects \/ objects' = WithAttribute(Now)
    BY DEF Publish
  <2>4. CASE Now.path = "audio/status" /\ Now.key = "state"
    <3>1. objects' = WithAttribute(Now)
      BY <2>4 DEF Publish, CommandPaths, MemFsPaths, StoragePaths, AudioPaths
    <3>2. objects'[<<"audio/status", "state">>] = Now.value
      BY <2>4, <3>1 DEF WithAttribute
    <3> QED
      BY <1>1, <2>1, <2>2, <2>4, <3>2 DEF Reads, PublishesState, Says
  <2>5. CASE ~(Now.path = "audio/status" /\ Now.key = "state")
    <3>1. <<Now.path, Now.key>> # <<"audio/status", "state">>
      BY <2>5
    <3>2. Reads("audio/status", "state", "muted")
      BY <2>3, <3>1 DEF Reads, Published, WithAttribute
    <3> QED
      BY <2>5, <3>2 DEF MuteTold, PublishesState, Says
  <2> QED
    BY <2>4, <2>5
<1> QED
  BY <1>1, <1>2, <1>3, <1>4, CalmStep DEF MuteTold, Hushed

LEMMA MuteStep == Shape /\ MuteTold /\ [Next]_vars => MuteTold'
<1> SUFFICES ASSUME Shape, MuteTold, [Next]_vars PROVE MuteTold'
  OBVIOUS
<1>1. Step => \/ DacMute \/ Publish \/ Callback
              \/ /\ Routine /\ Now.do \notin {"mute", "publish"} /\ objects' = objects
                 /\ DOMAIN dac' = DOMAIN dac /\ (MuteFields \subseteq DOMAIN dac => Hushed' = Hushed)
  <2>1. Step => \/ DacMute \/ Publish \/ Callback
                \/ /\ Now.do \notin {"mute", "publish"} /\ objects' = objects
                   /\ DOMAIN dac' = DOMAIN dac /\ (MuteFields \subseteq DOMAIN dac => Hushed' = Hushed)
    <3>1. DacVolume => /\ Now.do \notin {"mute", "publish"} /\ objects' = objects
                       /\ DOMAIN dac' = DOMAIN dac
                       /\ (MuteFields \subseteq DOMAIN dac => Hushed' = Hushed)
      BY DEF MuteFields, Hushed, DacVolume, Runs, Now
    <3>2. Step => \/ DacMute \/ Publish \/ Callback \/ DacVolume
                  \/ Now.do \notin {"mute", "publish"} /\ objects' = objects /\ dac' = dac
      BY DEF Step, serviceVars, audioVars, CallMain, Subscribes, AudioNext, SetClock, Stream,
         MemFsNext, AppendFile, RemoveFile, DisplayNext, InitFramebuffer, Clear, FillBar,
         BluetoothNext, SetDongle, StorageNext, Open, Decode, FreeBuffer, CloseFile, ListRoot, ProbesNext,
         EmmcReset, Runs, Now
    <3> QED
      BY <3>1, <3>2 DEF Hushed
  <2> QED
    BY <2>1, RoutineStep
<1>2. CASE DacMute
  BY <1>2, MuteTellsState
<1>3. CASE Publish
  BY <1>3, MuteOnPublish
<1>4. CASE Callback
  BY <1>4, MuteOnCallback
<1>5. CASE /\ Routine /\ Now.do \notin {"mute", "publish"} /\ objects' = objects
           /\ DOMAIN dac' = DOMAIN dac /\ (MuteFields \subseteq DOMAIN dac => Hushed' = Hushed)
  <2>1. PICK called : AllHarmless(called) /\ Continue(called)
    BY <1>5 DEF Routine
  <2>2. Calm(called)
    BY <2>1, CalmStatements
  <2>3. Reads("audio/status", "state", "muted")' => Hushed
    BY <1>5 DEF MuteTold, PublishesState, Reads, Published
  <2>4. ~Quiet /\ MuteFields \subseteq DOMAIN dac' /\ Hushed' = Hushed
    BY <1>5 DEF Routine, MuteTold
  <2> QED
    BY <1>5, <2>1, <2>2, <2>3, <2>4, CalmStep
<1>6. CASE Command \/ Plug \/ Unplug
  <2>1. Quiet /\ objects' = objects /\ dac' = dac
        /\ \E c : work' = <<c>> /\ c.do = "publish" /\ Harmless(c)
    BY <1>6, Arrivals DEF audioVars
  <2>2. PICK c : work' = <<c>> /\ c.do = "publish" /\ Harmless(c)
    BY <2>1
  <2>3. Len(work') = 1 /\ work'[1] = c
    BY <2>2, OneStatement
  <2>4. ASSUME NEW i \in 1 .. Len(work')
        PROVE  work'[i].do # "mute" /\ ~PublishesState(work'[i], "muted")
    BY <2>2, <2>3 DEF Harmless, PublishesState
  <2>5. Reads("audio/status", "state", "muted")' => Hushed'
    BY <2>1 DEF MuteTold, Hushed, Reads, Published
  <2> QED
    BY <2>1, <2>4, <2>5 DEF MuteTold, PublishesState
<1>7. CASE UNCHANGED vars \/ MapBuffer
  <2>1. work' = work /\ objects' = objects /\ dac' = dac
    BY <1>7 DEF vars, MapBuffer, busVars, audioVars
  <2> QED
    BY <2>1 DEF MuteTold, Hushed, Quiet, Now, Reads, Published, PublishesState
<1> QED
  BY <1>1, <1>2, <1>3, <1>4, <1>5, <1>6, <1>7 DEF Next

\* Whatever writes the DAC acknowledges, and if it acknowledges none: whenever the
\* shell waits, a status "muted" is true or the last mute or unmute went unheard
\* (audiomgr.cpp: mute, unmute and stream_pcm; dac::mute's result is dropped).
THEOREM StatusTellsMuteOrUnheard == Spec => []StatusTellsMute
<1>1. Init => MuteTold
  <2> SUFFICES ASSUME Init PROVE MuteTold
    OBVIOUS
  <2>1. Shape
    BY ShapeInit
  <2>2. MuteFields \subseteq DOMAIN dac /\ objects = [x \in {} |-> 0]
    BY DEF MuteFields, Init, AudioInit
  <2>3. ~Reads("audio/status", "state", "muted")
    BY <2>2 DEF Reads, Published
  <2>4. ASSUME NEW i \in 1 .. Len(work) PROVE work[i].do = "main"
    BY StartsWithMains
  <2> QED
    BY <2>2, <2>3, <2>4 DEF MuteTold, PublishesState
<1>2. MuteTold => StatusTellsMute
  BY DEF MuteTold, StatusTellsMute
<1>3. Shape /\ MuteTold /\ [Next]_vars => MuteTold'
  BY MuteStep
<1> QED
  BY <1>1, <1>2, <1>3, ShapeHolds, PTL DEF Spec

-----------------------------------------------------------------------------
(***************************************************************************)
(* BarShowsPlaying.  What plays a sound stays together at the front of the *)
(* work, up to the publication of "idle" that ends it.                     *)
(***************************************************************************)

\* What playing a buffer consists of, and what its end does.
PlayingStatement(s) ==
    \/ s.do \in {"set clock", "stream"}
    \/ PublishesState(s, "playing")
    \/ s.do = "callback" /\ Says(s.n, "playing")
    \/ s.do = "bar" /\ s.on

EndingStatement(s) ==
    \/ PublishesState(s, "idle")
    \/ s.do = "callback" /\ Says(s.n, "idle")
    \/ s.do = "bar" /\ ~s.on

\* Of these, what leads to the bar's being drawn, and to its being cleared.
Opening(s) ==
    \/ PublishesState(s, "playing")
    \/ s.do = "callback" /\ s.service = "display" /\ Says(s.n, "playing")
    \/ s.do = "bar" /\ s.on

Clearing(s) ==
    \/ PublishesState(s, "idle")
    \/ s.do = "callback" /\ s.service = "display" /\ Says(s.n, "idle")
    \/ s.do = "bar" /\ ~s.on

BarTold ==
    /\ fb => Subscribed("display")
    /\ \A i \in 1 .. Len(work) : work[i].do = "framebuffer" => Subscribed("display")
    /\ \A i \in 1 .. Len(work) : work[i].do = "bar" => i = 1 /\ fb /\ work[i].on \in BOOLEAN
    /\ \A i \in 1 .. Len(work) :
          PlayingStatement(work[i]) =>
              \E k \in 1 .. Len(work) : /\ i < k /\ PublishesState(work[k], "idle")
                                        /\ \A j \in 1 .. k - 1 : PlayingStatement(work[j])
    /\ \A i \in 1 .. Len(work) :
          work[i].do = "stream" /\ fb => bar \/ \E j \in 1 .. i - 1 : Opening(work[j])
    /\ bar => /\ fb
              /\ \E k \in 1 .. Len(work) :
                    /\ Clearing(work[k])
                    /\ \A j \in 1 .. k - 1 : PlayingStatement(work[j]) \/ EndingStatement(work[j])

LEMMA PlayingDoesNotEnd ==
    /\ \A s : PlayingStatement(s) => ~EndingStatement(s)
    /\ \A s : Opening(s) => PlayingStatement(s)
    /\ \A s : Clearing(s) => EndingStatement(s)
<1>1. \A n : ~(Says(n, "playing") /\ Says(n, "idle"))
  BY DEF Says
<1> QED
  BY <1>1 DEF PlayingStatement, EndingStatement, Opening, Clearing, PublishesState

\* Harmless statements neither play nor draw.
LEMMA HarmlessIsSilent ==
    ASSUME NEW c, AllHarmless(c)
    PROVE  /\ Proper(c)
           /\ \A i \in 1 .. Len(c) : /\ ~PlayingStatement(c[i]) /\ c[i].do # "bar"
                                     /\ c[i].do # "framebuffer"
<1>1. ASSUME NEW s, Harmless(s)
      PROVE  ~PlayingStatement(s) /\ s.do # "bar" /\ s.do # "framebuffer"
  BY <1>1 DEF Harmless, PlayingStatement, PublishesState
<1> QED
  BY <1>1 DEF AllHarmless

\* What comes before a statement that stays.
LEMMA Before ==
    ASSUME Shape, ~Quiet, NEW called, Proper(called), Continue(called),
           NEW k \in 2 .. Len(work), NEW j \in 1 .. (Len(called) + k - 1) - 1
    PROVE  \/ j \in 1 .. Len(called) /\ work'[j] = called[j]
           \/ \E i \in 2 .. k - 1 : work'[j] = work[i]
<1>1. /\ \A i \in 1 .. Len(called) : work'[i] = called[i]
      /\ \A i \in 2 .. Len(work) : work'[Len(called) + i - 1] = work[i]
  BY Continued DEF Shape
<1> DEFINE m == Len(work)
           n == Len(called)
<1>2. m \in Nat /\ n \in Nat /\ k \in 2 .. m /\ j \in 1 .. (n + k - 1) - 1
  BY ProperFacts DEF Shape
<1> HIDE DEF m, n
<1>3. CASE j <= n
  <2>1. j \in 1 .. n
    BY <1>2, <1>3
  <2> QED
    BY <1>1, <2>1 DEF n
<1>4. CASE j > n
  <2> DEFINE i == j - n + 1
  <2>1. i \in 2 .. k - 1 /\ i \in 2 .. m /\ n + i - 1 = j
    BY <1>2, <1>4
  <2> HIDE DEF i
  <2>2. work'[n + i - 1] = work[i]
    BY <1>1, <2>1 DEF m, n
  <2> QED
    BY <2>1, <2>2
<1> QED
  BY <1>2, <1>3, <1>4

\* Away from playing there is nothing of it: no bar, and nothing to play.
LEMMA BarSilent ==
    ASSUME Shape, BarTold, ~Quiet, ~PlayingStatement(Now), ~EndingStatement(Now)
    PROVE  ~bar /\ \A j \in 1 .. Len(work) : ~PlayingStatement(work[j])
<1>1. Len(work) \in Nat \ {0} /\ Now = work[1]
  BY Nowhere
<1>2. ASSUME NEW j \in 1 .. Len(work), PlayingStatement(work[j]) PROVE FALSE
  <2>1. PICK k \in 1 .. Len(work) : j < k /\ \A l \in 1 .. k - 1 : PlayingStatement(work[l])
    BY <1>2 DEF BarTold
  <2>2. 1 \in 1 .. k - 1
    BY <1>1, <2>1
  <2> QED
    BY <1>1, <2>1, <2>2
<1>3. ASSUME bar PROVE FALSE
  <2>1. PICK k \in 1 .. Len(work) :
            /\ Clearing(work[k])
            /\ \A j \in 1 .. k - 1 : PlayingStatement(work[j]) \/ EndingStatement(work[j])
    BY <1>3 DEF BarTold
  <2>2. k # 1
    BY <1>1, <2>1, PlayingDoesNotEnd
  <2>3. 1 \in 1 .. k - 1
    BY <1>1, <2>2
  <2> QED
    BY <1>1, <2>1, <2>3
<1> QED
  BY <1>2, <1>3

LEMMA BarUnrelated ==
    ASSUME Shape, BarTold, ~Quiet, ~PlayingStatement(Now), ~EndingStatement(Now),
           NEW called, Proper(called), Continue(called),
           \A i \in 1 .. Len(called) : /\ ~PlayingStatement(called[i]) /\ called[i].do # "bar"
                                       /\ called[i].do = "framebuffer" => Subscribed("display"),
           \A s : Subscribed(s) => Subscribed(s)',
           fb' => fb \/ Subscribed("display"), bar' => bar
    PROVE  BarTold'
<1>1. ~bar /\ \A j \in 1 .. Len(work) : ~PlayingStatement(work[j])
  BY BarSilent
<1>2. \A i \in 1 .. Len(work') :
          \/ i \in 1 .. Len(called) /\ work'[i] = called[i]
          \/ \E j \in 2 .. Len(work) : i = Len(called) + j - 1 /\ work'[i] = work[j]
  BY Places DEF Shape
<1>3. Len(work) \in Nat \ {0} /\ Now = work[1]
  BY Nowhere
<1>4. ASSUME NEW i \in 1 .. Len(work')
      PROVE  /\ ~PlayingStatement(work'[i]) /\ work'[i].do # "bar"
             /\ work'[i].do = "framebuffer" => Subscribed("display")
  <2>1. CASE i \in 1 .. Len(called) /\ work'[i] = called[i]
    BY <2>1
  <2>2. ASSUME NEW j \in 2 .. Len(work), work'[i] = work[j]
        PROVE  /\ ~PlayingStatement(work'[i]) /\ work'[i].do # "bar"
               /\ work'[i].do = "framebuffer" => Subscribed("display")
    <3>1. j \in 1 .. Len(work) /\ j # 1
      BY <1>3
    <3> QED
      BY <1>1, <2>2, <3>1 DEF BarTold
  <2> QED
    BY <1>2, <2>1, <2>2
<1>5. ~bar' /\ (fb' => Subscribed("display")')
  BY <1>1 DEF BarTold
<1>6. \A i \in 1 .. Len(work') : work'[i].do # "stream"
  BY <1>4 DEF PlayingStatement
<1>7. \A i \in 1 .. Len(work') : work'[i].do = "framebuffer" => Subscribed("display")'
  BY <1>4
<1>8. \A i \in 1 .. Len(work') : ~PlayingStatement(work[i])'
  BY <1>4 DEF PlayingStatement, PublishesState
<1> QED
  BY <1>4, <1>5, <1>6, <1>7, <1>8 DEF BarTold

\* While it plays, or has just ended, a statement calls only what belongs to it.
LEMMA BarFollows ==
    ASSUME Shape, BarTold, ~Quiet, PlayingStatement(Now) \/ EndingStatement(Now),
           NEW called, Proper(called), Continue(called), subs' = subs, fb' = fb,
           \A i \in 1 .. Len(called) :
               /\ IF PlayingStatement(Now) THEN PlayingStatement(called[i])
                  ELSE EndingStatement(called[i])
               /\ called[i].do \notin {"stream", "framebuffer"}
               /\ called[i].do = "bar" => i = 1 /\ fb /\ called[i].on \in BOOLEAN,
           Opening(Now) /\ fb => bar' \/ \E i \in 1 .. Len(called) : Opening(called[i]),
           bar /\ PlayingStatement(Now) => bar',
           bar' => bar \/ (fb /\ PlayingStatement(Now)),
           bar' /\ Clearing(Now) => \E i \in 1 .. Len(called) : Clearing(called[i])
    PROVE  BarTold'
<1>1. /\ \A i \in 1 .. Len(called) : i \in 1 .. Len(work') /\ work'[i] = called[i]
      /\ \A j \in 2 .. Len(work) : /\ Len(called) + j - 1 \in 1 .. Len(work')
                                   /\ work'[Len(called) + j - 1] = work[j]
      /\ \A i \in 1 .. Len(work') :
            \/ i \in 1 .. Len(called) /\ work'[i] = called[i]
            \/ \E j \in 2 .. Len(work) : i = Len(called) + j - 1 /\ work'[i] = work[j]
  BY Places DEF Shape
<1>2. Len(work) \in Nat \ {0} /\ Now = work[1]
  BY Nowhere
<1> DEFINE m == Len(work)
           n == Len(called)
           k1 == Len(work')
           w == work'
<1>3. m \in Nat \ {0} /\ n \in Nat
  BY <1>2, ProperFacts
<1>4. /\ \A i \in 1 .. n : i \in 1 .. k1 /\ w[i] = called[i]
      /\ \A j \in 2 .. m : n + j - 1 \in 1 .. k1 /\ w[n + j - 1] = work[j]
      /\ \A i \in 1 .. k1 : \/ i \in 1 .. n /\ w[i] = called[i]
                            \/ \E j \in 2 .. m : i = n + j - 1 /\ w[i] = work[j]
  BY <1>1
<1>5. ASSUME NEW k \in 2 .. m, NEW j \in 1 .. (n + k - 1) - 1
      PROVE  \/ j \in 1 .. n /\ w[j] = called[j]
             \/ \E i \in 2 .. k - 1 : w[j] = work[i]
  BY Before
<1>6. /\ \A i \in 1 .. n : IF PlayingStatement(Now) THEN PlayingStatement(called[i])
                           ELSE EndingStatement(called[i])
      /\ \A i \in 1 .. n : called[i].do \notin {"stream", "framebuffer"}
      /\ \A i \in 1 .. n : called[i].do = "bar" => i = 1 /\ fb /\ called[i].on \in BOOLEAN
      /\ Opening(Now) /\ fb => bar' \/ \E i \in 1 .. n : Opening(called[i])
      /\ bar' /\ Clearing(Now) => \E i \in 1 .. n : Clearing(called[i])
  OBVIOUS
<1>7. /\ \A i \in 1 .. m : work[i].do = "framebuffer" => Subscribed("display")
      /\ \A i \in 1 .. m : work[i].do = "bar" => i = 1
      /\ \A i \in 1 .. m :
            PlayingStatement(work[i]) =>
                \E k \in 1 .. m : /\ i < k /\ PublishesState(work[k], "idle")
                                  /\ \A j \in 1 .. k - 1 : PlayingStatement(work[j])
      /\ \A i \in 1 .. m :
            work[i].do = "stream" /\ fb => bar \/ \E j \in 1 .. i - 1 : Opening(work[j])
      /\ bar => /\ fb
                /\ \E k \in 1 .. m :
                      /\ Clearing(work[k])
                      /\ \A j \in 1 .. k - 1 : PlayingStatement(work[j]) \/ EndingStatement(work[j])
  BY DEF BarTold
<1> HIDE DEF m, n, k1, w
\* Playing: its end is where it was.
<1>8. ASSUME NEW k \in 2 .. m, PublishesState(work[k], "idle"),
             \A j \in 1 .. k - 1 : PlayingStatement(work[j])
      PROVE  /\ n + k - 1 \in 1 .. k1 /\ PublishesState(w[n + k - 1], "idle")
             /\ \A j \in 1 .. (n + k - 1) - 1 : PlayingStatement(w[j])
  <2>1. PlayingStatement(Now)
    <3>1. 1 \in 1 .. k - 1
      BY <1>3
    <3> QED
      BY <1>2, <1>8, <3>1
  <2>2. ASSUME NEW j \in 1 .. (n + k - 1) - 1 PROVE PlayingStatement(w[j])
    <3>1. CASE j \in 1 .. n /\ w[j] = called[j]
      BY <1>6, <2>1, <3>1
    <3>2. ASSUME NEW i \in 2 .. k - 1, w[j] = work[i] PROVE PlayingStatement(w[j])
      <4>1. i \in 1 .. k - 1
        BY <1>3
      <4> QED
        BY <1>8, <3>2, <4>1
    <3> QED
      BY <1>5, <3>1, <3>2
  <2> QED
    BY <1>4, <1>8, <2>2
<1>9. ASSUME NEW i \in 1 .. k1, PlayingStatement(w[i])
      PROVE  \E k \in 1 .. k1 : /\ i < k /\ PublishesState(w[k], "idle")
                                /\ \A j \in 1 .. k - 1 : PlayingStatement(w[j])
  <2>1. CASE i \in 1 .. n /\ w[i] = called[i]
    <3>1. PlayingStatement(Now)
      BY <1>6, <1>9, <2>1, PlayingDoesNotEnd
    <3>2. PICK k \in 1 .. m : /\ 1 < k /\ PublishesState(work[k], "idle")
                              /\ \A j \in 1 .. k - 1 : PlayingStatement(work[j])
      BY <1>2, <1>3, <1>7, <3>1
    <3>3. k \in 2 .. m /\ i < n + k - 1
      BY <1>3, <2>1, <3>2
    <3> QED
      BY <1>8, <3>2, <3>3
  <2>2. ASSUME NEW l \in 2 .. m, i = n + l - 1, w[i] = work[l]
        PROVE  \E k \in 1 .. k1 : /\ i < k /\ PublishesState(w[k], "idle")
                                  /\ \A j \in 1 .. k - 1 : PlayingStatement(w[j])
    <3>1. PICK k \in 1 .. m : /\ l < k /\ PublishesState(work[k], "idle")
                              /\ \A j \in 1 .. k - 1 : PlayingStatement(work[j])
      BY <1>3, <1>7, <1>9, <2>2
    <3>2. k \in 2 .. m /\ i < n + k - 1
      BY <1>3, <2>2, <3>1
    <3> QED
      BY <1>8, <3>1, <3>2
  <2> QED
    BY <1>4, <2>1, <2>2
<1>10. ASSUME NEW i \in 1 .. k1, w[i].do = "stream", fb, ~bar'
       PROVE  \E j \in 1 .. i - 1 : Opening(w[j])
  <2>1. PICK l \in 2 .. m : i = n + l - 1 /\ w[i] = work[l]
    BY <1>4, <1>6, <1>10
  <2>2. l \in 1 .. m /\ work[l].do = "stream" /\ PlayingStatement(work[l])
    <3>1. l \in 1 .. m
      BY <1>3
    <3>2. work[l].do = "stream"
      BY <1>10, <2>1
    <3> QED
      BY <3>1, <3>2 DEF PlayingStatement
  <2>3. PlayingStatement(Now)
    <3>1. PICK k \in 1 .. m : l < k /\ \A j \in 1 .. k - 1 : PlayingStatement(work[j])
      BY <1>7, <2>2
    <3>2. 1 \in 1 .. k - 1
      BY <1>3, <3>1
    <3> QED
      BY <1>2, <3>1, <3>2
  <2>4. ~bar
    BY <1>10, <2>3
  <2>5. PICK j \in 1 .. l - 1 : Opening(work[j])
    BY <1>7, <1>10, <2>1, <2>2, <2>4
  <2>6. CASE j = 1
    <3>1. PICK o \in 1 .. n : Opening(called[o])
      BY <1>2, <1>6, <1>10, <2>5, <2>6
    <3>2. o \in 1 .. i - 1 /\ w[o] = called[o]
      BY <1>3, <1>4, <2>1, <3>1
    <3> QED
      BY <3>1, <3>2
  <2>7. CASE j # 1
    <3>1. j \in 2 .. m /\ n + j - 1 \in 1 .. i - 1
      BY <1>3, <2>1, <2>7
    <3>2. w[n + j - 1] = work[j]
      BY <1>4, <3>1
    <3> QED
      BY <2>5, <3>1, <3>2
  <2> QED
    BY <2>6, <2>7
<1>11. ASSUME bar'
       PROVE  \E k \in 1 .. k1 : /\ Clearing(w[k])
                                 /\ \A j \in 1 .. k - 1 : PlayingStatement(w[j]) \/ EndingStatement(w[j])
  <2>1. CASE PlayingStatement(Now)
    <3>1. PICK k \in 1 .. m : /\ 1 < k /\ PublishesState(work[k], "idle")
                              /\ \A j \in 1 .. k - 1 : PlayingStatement(work[j])
      BY <1>2, <1>3, <1>7, <2>1
    <3>2. k \in 2 .. m
      BY <1>3, <3>1
    <3> DEFINE o == n + k - 1
    <3>3. /\ o \in 1 .. k1 /\ PublishesState(w[o], "idle")
          /\ \A j \in 1 .. o - 1 : PlayingStatement(w[j])
      BY <1>8, <3>1, <3>2
    <3> HIDE DEF o
    <3> QED
      BY <3>3 DEF Clearing
  <2>2. CASE ~PlayingStatement(Now)
    <3>1. bar
      BY <1>11, <2>2
    <3>2. PICK k \in 1 .. m :
              /\ Clearing(work[k])
              /\ \A j \in 1 .. k - 1 : PlayingStatement(work[j]) \/ EndingStatement(work[j])
      BY <1>7, <3>1
    <3>3. CASE k = 1
      <4>1. PICK o \in 1 .. n : Clearing(called[o])
        BY <1>2, <1>6, <1>11, <3>2, <3>3
      <4>2. ASSUME NEW j \in 1 .. o - 1 PROVE EndingStatement(w[j])
        <5>1. j \in 1 .. n
          BY <1>3
        <5> QED
          BY <1>4, <1>6, <2>2, <5>1
      <4>3. o \in 1 .. k1 /\ Clearing(w[o])
        BY <1>4, <4>1
      <4> QED
        BY <4>2, <4>3
    <3>4. CASE k # 1
      <4>1. k \in 2 .. m
        BY <1>3, <3>4
      <4> DEFINE o == n + k - 1
      <4>2. o \in 1 .. k1 /\ Clearing(w[o])
        BY <1>4, <3>2, <4>1
      <4>3. ASSUME NEW j \in 1 .. o - 1 PROVE PlayingStatement(w[j]) \/ EndingStatement(w[j])
        <5>1. CASE j \in 1 .. n /\ w[j] = called[j]
          BY <1>6, <2>2, <5>1
        <5>2. ASSUME NEW i \in 2 .. k - 1, w[j] = work[i]
              PROVE  PlayingStatement(w[j]) \/ EndingStatement(w[j])
          <6>1. i \in 1 .. k - 1
            BY <1>3
          <6> QED
            BY <3>2, <5>2, <6>1
        <5> QED
          BY <1>5, <4>1, <5>1, <5>2
      <4> HIDE DEF o
      <4> QED
        BY <4>2, <4>3
    <3> QED
      BY <3>3, <3>4
  <2> QED
    BY <2>1, <2>2
<1>12. ASSUME NEW i \in 1 .. k1
       PROVE  /\ w[i].do = "framebuffer" => Subscribed("display")
              /\ w[i].do = "bar" => i = 1 /\ fb /\ w[i].on \in BOOLEAN
  <2>1. CASE i \in 1 .. n /\ w[i] = called[i]
    BY <1>6, <2>1
  <2>2. ASSUME NEW l \in 2 .. m, w[i] = work[l]
        PROVE  /\ w[i].do = "framebuffer" => Subscribed("display")
               /\ w[i].do = "bar" => i = 1 /\ fb /\ w[i].on \in BOOLEAN
    <3>1. l \in 1 .. m /\ l # 1
      BY <1>3
    <3> QED
      BY <1>7, <2>2, <3>1
  <2> QED
    BY <1>4, <2>1, <2>2
<1>13. (bar' => fb) /\ (fb => Subscribed("display"))
  BY DEF BarTold
<1>14. Subscribed("display") => Subscribed("display")'
  BY DEF Subscribed
<1>15. /\ fb' => Subscribed("display")'
       /\ \A i \in 1 .. Len(work') : work'[i].do = "framebuffer" => Subscribed("display")'
       /\ \A i \in 1 .. Len(work') : work'[i].do = "bar" => i = 1 /\ fb' /\ work'[i].on \in BOOLEAN
  BY <1>12, <1>13, <1>14 DEF w, k1
<1>16. \A i \in 1 .. Len(work') :
          PlayingStatement(work'[i]) =>
              \E k \in 1 .. Len(work') : /\ i < k /\ PublishesState(work'[k], "idle")
                                         /\ \A j \in 1 .. k - 1 : PlayingStatement(work'[j])
  BY <1>9 DEF w, k1
<1>17. \A i \in 1 .. Len(work') :
          work'[i].do = "stream" /\ fb' => bar' \/ \E j \in 1 .. i - 1 : Opening(work'[j])
  BY <1>10 DEF w, k1
<1>18. bar' => /\ fb'
               /\ \E k \in 1 .. Len(work') :
                     /\ Clearing(work'[k])
                     /\ \A j \in 1 .. k - 1 : PlayingStatement(work'[j]) \/ EndingStatement(work'[j])
  BY <1>11, <1>13 DEF w, k1
<1> QED
  BY <1>15, <1>16, <1>17, <1>18 DEF BarTold

\* A tune is played from the first statement to the publication of "idle".
LEMMA TuneOrder ==
    ASSUME NEW c, Tune(c)
    PROVE  /\ Proper(c)
           /\ \E k \in {3, 4} :
                 /\ Len(c) = k /\ PublishesState(c[k], "idle") /\ c[k].do # "stream"
                 /\ \A j \in 1 .. k - 1 : PlayingStatement(c[j])
                 /\ \A j \in 1 .. k - 1 : c[j].do = "stream" => \E i \in 1 .. j - 1 : Opening(c[i])
                 /\ \A j \in 1 .. k : c[j].do \notin {"bar", "framebuffer"}
<1> DEFINE Ordered(k) ==
               /\ Len(c) = k /\ PublishesState(c[k], "idle") /\ c[k].do # "stream"
               /\ \A j \in 1 .. k - 1 : PlayingStatement(c[j])
               /\ \A j \in 1 .. k - 1 : c[j].do = "stream" => \E i \in 1 .. j - 1 : Opening(c[i])
               /\ \A j \in 1 .. k : c[j].do \notin {"bar", "framebuffer"}
<1>1. ASSUME NEW s, PublishesState(s, "playing")
      PROVE  PlayingStatement(s) /\ Opening(s) /\ s.do \notin {"stream", "bar", "framebuffer"}
  BY <1>1 DEF PlayingStatement, Opening, PublishesState
<1>2. ASSUME NEW s, s.do \in {"set clock", "stream"}
      PROVE  PlayingStatement(s) /\ s.do \notin {"bar", "framebuffer"}
  BY <1>2 DEF PlayingStatement
<1>3. ASSUME NEW s, PublishesState(s, "idle")
      PROVE  s.do \notin {"stream", "bar", "framebuffer"}
  BY <1>3 DEF PublishesState
<1>4. CASE Len(c) = 3 /\ Sounds(c[1], c[2], c[3])
  <2>1. PublishesState(c[1], "playing") /\ c[2].do = "stream" /\ PublishesState(c[3], "idle")
    BY <1>4 DEF Sounds, PublishesState
  <2>2. PlayingStatement(c[1]) /\ PlayingStatement(c[2]) /\ Opening(c[1]) /\ c[1].do # "stream"
    BY <2>1 DEF PlayingStatement, Opening, PublishesState
  <2>3. \A j \in 1 .. 2 : j = 1 \/ j = 2
    OBVIOUS
  <2>4. \A j \in 1 .. 3 : j = 1 \/ j = 2 \/ j = 3
    OBVIOUS
  <2>5. \A j \in 1 .. 2 : PlayingStatement(c[j])
    BY <2>2, <2>3
  <2>6. ASSUME NEW j \in 1 .. 2, c[j].do = "stream" PROVE \E i \in 1 .. j - 1 : Opening(c[i])
    <3>1. j = 2
      BY <2>2, <2>3, <2>6
    <3>2. 1 \in 1 .. j - 1
      BY <3>1
    <3> QED
      BY <2>2, <3>2
  <2>7. \A j \in 1 .. 3 : c[j].do \notin {"bar", "framebuffer"}
    BY <1>1, <1>2, <1>3, <2>1, <2>4
  <2>8. Len(c) = 3 /\ c[3].do # "stream"
    BY <1>3, <1>4, <2>1
  <2>9. Ordered(3)
    BY <2>1, <2>5, <2>6, <2>7, <2>8
  <2> QED
    BY <2>9 DEF Tune
<1>5. CASE Len(c) = 4 /\ c[1].do = "set clock" /\ Sounds(c[2], c[3], c[4])
  <2>1. /\ c[1].do = "set clock" /\ PublishesState(c[2], "playing") /\ c[3].do = "stream"
        /\ PublishesState(c[4], "idle")
    BY <1>5 DEF Sounds, PublishesState
  <2>2. /\ PlayingStatement(c[1]) /\ PlayingStatement(c[2]) /\ PlayingStatement(c[3])
        /\ Opening(c[2]) /\ c[1].do # "stream" /\ c[2].do # "stream"
    BY <2>1 DEF PlayingStatement, Opening, PublishesState
  <2>3. \A j \in 1 .. 3 : j = 1 \/ j = 2 \/ j = 3
    OBVIOUS
  <2>4. \A j \in 1 .. 4 : j = 1 \/ j = 2 \/ j = 3 \/ j = 4
    OBVIOUS
  <2>5. \A j \in 1 .. 3 : PlayingStatement(c[j])
    BY <2>2, <2>3
  <2>6. ASSUME NEW j \in 1 .. 3, c[j].do = "stream" PROVE \E i \in 1 .. j - 1 : Opening(c[i])
    <3>1. j = 3
      BY <2>2, <2>3, <2>6
    <3>2. 2 \in 1 .. j - 1
      BY <3>1
    <3> QED
      BY <2>2, <3>2
  <2>7. \A j \in 1 .. 4 : c[j].do \notin {"bar", "framebuffer"}
    BY <1>1, <1>2, <1>3, <2>1, <2>4
  <2>8. Len(c) = 4 /\ c[4].do # "stream"
    BY <1>3, <1>5, <2>1
  <2>9. Ordered(4)
    <3>1. 4 - 1 = 3
      OBVIOUS
    <3> QED
      BY <2>1, <2>5, <2>6, <2>7, <2>8, <3>1, Zenon
  <2> QED
    BY <2>9 DEF Tune
<1> QED
  BY <1>4, <1>5 DEF Tune

LEMMA BarOnTune ==
    ASSUME Shape, BarTold, ~Quiet, ~PlayingStatement(Now), ~EndingStatement(Now),
           NEW called, Tune(called), Continue(called), UNCHANGED <<subs, fb, bar>>
    PROVE  BarTold'
<1>1. ~bar /\ \A j \in 1 .. Len(work) : ~PlayingStatement(work[j])
  BY BarSilent
<1>2. PICK k \in {3, 4} :
          /\ Len(called) = k /\ PublishesState(called[k], "idle") /\ called[k].do # "stream"
          /\ \A j \in 1 .. k - 1 : PlayingStatement(called[j])
          /\ \A j \in 1 .. k - 1 : called[j].do = "stream" => \E i \in 1 .. j - 1 : Opening(called[i])
          /\ \A j \in 1 .. k : called[j].do \notin {"bar", "framebuffer"}
  BY TuneOrder
<1>3. /\ \A i \in 1 .. Len(called) : i \in 1 .. Len(work') /\ work'[i] = called[i]
      /\ \A i \in 1 .. Len(work') :
            \/ i \in 1 .. Len(called) /\ work'[i] = called[i]
            \/ \E j \in 2 .. Len(work) : i = Len(called) + j - 1 /\ work'[i] = work[j]
  BY Places, TuneOrder DEF Shape
<1> DEFINE w == work'
           k1 == Len(work')
<1>4. /\ \A i \in 1 .. k : i \in 1 .. k1 /\ w[i] = called[i]
      /\ \A i \in 1 .. k1 :
            \/ i \in 1 .. k /\ w[i] = called[i]
            \/ \E j \in 2 .. Len(work) : w[i] = work[j]
  BY <1>2, <1>3
<1>5. Len(work) \in Nat \ {0} /\ Now = work[1]
  BY Nowhere
<1> HIDE DEF w, k1
<1>6. ASSUME NEW j \in 2 .. Len(work)
      PROVE  /\ ~PlayingStatement(work[j]) /\ work[j].do # "bar"
             /\ work[j].do = "framebuffer" => Subscribed("display")
  <2>1. j \in 1 .. Len(work) /\ j # 1
    BY <1>5
  <2> QED
    BY <1>1, <2>1 DEF BarTold
<1>7. ~PlayingStatement(called[k])
  BY <1>2, PlayingDoesNotEnd DEF EndingStatement
<1>8. ASSUME NEW i \in 1 .. k1
      PROVE  w[i].do # "bar" /\ (w[i].do = "framebuffer" => Subscribed("display"))
  BY <1>2, <1>4, <1>6
<1>9. ASSUME NEW i \in 1 .. k1, PlayingStatement(w[i])
      PROVE  i \in 1 .. k - 1 /\ w[i] = called[i]
  <2>1. i \in 1 .. k /\ w[i] = called[i]
    BY <1>4, <1>6, <1>9
  <2>2. i # k
    BY <1>7, <1>9, <2>1
  <2> QED
    BY <2>1, <2>2
<1>10. ASSUME NEW i \in 1 .. k1, PlayingStatement(w[i])
       PROVE  \E l \in 1 .. k1 : /\ i < l /\ PublishesState(w[l], "idle")
                                 /\ \A j \in 1 .. l - 1 : PlayingStatement(w[j])
  <2>1. k \in 1 .. k1 /\ i < k /\ PublishesState(w[k], "idle")
    BY <1>2, <1>4, <1>9, <1>10
  <2>2. \A j \in 1 .. k - 1 : PlayingStatement(w[j])
    BY <1>2, <1>4
  <2> QED
    BY <2>1, <2>2
<1>11. ASSUME NEW i \in 1 .. k1, w[i].do = "stream"
       PROVE  \E j \in 1 .. i - 1 : Opening(w[j])
  <2>1. i \in 1 .. k - 1 /\ w[i] = called[i]
    BY <1>9, <1>11 DEF PlayingStatement
  <2>2. PICK j \in 1 .. i - 1 : Opening(called[j])
    BY <1>2, <1>11, <2>1
  <2>3. w[j] = called[j]
    BY <1>4, <2>1
  <2> QED
    BY <2>2, <2>3
<1>12. ~bar' /\ (fb' => Subscribed("display"))
  BY <1>1 DEF BarTold
<1>13. Subscribed("display") => Subscribed("display")'
  BY DEF Subscribed
<1>14. /\ fb' => Subscribed("display")'
       /\ \A i \in 1 .. Len(work') : work'[i].do # "bar"
       /\ \A i \in 1 .. Len(work') : work'[i].do = "framebuffer" => Subscribed("display")'
  BY <1>8, <1>12, <1>13 DEF w, k1
<1>15. \A i \in 1 .. Len(work') :
          PlayingStatement(work'[i]) =>
              \E l \in 1 .. Len(work') : /\ i < l /\ PublishesState(work'[l], "idle")
                                         /\ \A j \in 1 .. l - 1 : PlayingStatement(work'[j])
  BY <1>10 DEF w, k1
<1>16. \A i \in 1 .. Len(work') :
          work'[i].do = "stream" => \E j \in 1 .. i - 1 : Opening(work'[j])
  BY <1>11 DEF w, k1
<1> QED
  BY <1>12, <1>14, <1>15, <1>16 DEF BarTold

LEMMA BarOnPublish ==
    ASSUME Shape, BarTold, Publish
    PROVE  BarTold'
<1>1. ~Quiet /\ Now.do = "publish" /\ UNCHANGED <<subs, fb, bar>>
  BY PublishCalls DEF serviceVars, displayVars
<1>2. PICK called : /\ Proper(called) /\ Continue(called) /\ Len(called) = Len(subs)
                    /\ \A m \in 1 .. Len(subs) :
                          called[m] = [do |-> "callback", service |-> subs[m], n |-> Now]
  BY PublishCalls
<1>3. ASSUME NEW m \in 1 .. Len(called)
      PROVE  /\ called[m].do = "callback" /\ called[m].service = subs[m] /\ called[m].n = Now
             /\ called[m].do \notin {"stream", "framebuffer", "bar"}
  <2>1. called[m] = [do |-> "callback", service |-> subs[m], n |-> Now]
    BY <1>2
  <2> QED
    BY <2>1
<1>4. fb => \E m \in 1 .. Len(called) : called[m].service = "display"
  <2> SUFFICES ASSUME fb PROVE \E m \in 1 .. Len(called) : called[m].service = "display"
    OBVIOUS
  <2>1. PICK m \in 1 .. Len(subs) : subs[m] = "display"
    BY DEF BarTold, Subscribed
  <2> QED
    BY <1>2, <1>3, <2>1
<1>5. bar => fb
  BY DEF BarTold
<1>6. CASE PublishesState(Now, "playing")
  <2>1. PlayingStatement(Now) /\ ~Clearing(Now)
    BY <1>6, PlayingDoesNotEnd DEF PlayingStatement
  <2>2. \A m \in 1 .. Len(called) : PlayingStatement(called[m])
    BY <1>3, <1>6 DEF PlayingStatement, PublishesState
  <2>3. fb => \E m \in 1 .. Len(called) : Opening(called[m])
    BY <1>3, <1>4, <1>6 DEF Opening, PublishesState
  <2> QED
    BY <1>1, <1>2, <1>3, <2>1, <2>2, <2>3, BarFollows
<1>7. CASE PublishesState(Now, "idle")
  <2>1. EndingStatement(Now) /\ ~PlayingStatement(Now) /\ ~Opening(Now)
    BY <1>7, PlayingDoesNotEnd DEF EndingStatement
  <2>2. \A m \in 1 .. Len(called) : EndingStatement(called[m])
    BY <1>3, <1>7 DEF EndingStatement, PublishesState
  <2>3. fb => \E m \in 1 .. Len(called) : Clearing(called[m])
    BY <1>3, <1>4, <1>7 DEF Clearing, PublishesState
  <2> QED
    BY <1>1, <1>2, <1>3, <1>5, <2>1, <2>2, <2>3, BarFollows
<1>8. CASE ~PublishesState(Now, "playing") /\ ~PublishesState(Now, "idle")
  <2>1. ~PlayingStatement(Now) /\ ~EndingStatement(Now)
    BY <1>1, <1>8 DEF PlayingStatement, EndingStatement
  <2>2. \A m \in 1 .. Len(called) : ~PlayingStatement(called[m])
    BY <1>1, <1>3, <1>8 DEF PlayingStatement, PublishesState
  <2>3. \A s : Subscribed(s) => Subscribed(s)'
    BY <1>1 DEF Subscribed
  <2> QED
    BY <1>1, <1>2, <1>3, <2>1, <2>2, <2>3, BarUnrelated
<1> QED
  BY <1>6, <1>7, <1>8

LEMMA BarOnCallback ==
    ASSUME Shape, BarTold, Callback
    PROVE  BarTold'
<1> DEFINE heard == Heard(Now.service, Now.n)
<1>1. /\ ~Quiet /\ Now.do = "callback" /\ UNCHANGED <<subs, fb, bar>>
      /\ Continue(heard) /\ Now.service \in ServiceNames /\ Subscribed(Now.service)
  BY CallbackCalls DEF serviceVars, displayVars
<1>2. \A s : Subscribed(s) => Subscribed(s)'
  BY <1>1 DEF Subscribed
<1>3. CASE Says(Now.n, "playing") \/ Says(Now.n, "idle")
  <2>1. heard = IF Now.service = "display" THEN ShowPlaying(Now.n) ELSE <<>>
    <3>1. Now.service = "display" => Now.n.path \in Paths(Now.service)
      BY <1>3 DEF Says, Paths, DisplayPaths
    <3> QED
      BY <1>1, <1>3, <3>1, StateCalls DEF Heard
  <2> DEFINE drawn == [do |-> "bar", on |-> Now.n.value = "playing"]
  <2>2. ShowPlaying(Now.n) = IF fb THEN <<drawn>> ELSE <<>>
    BY <1>3 DEF ShowPlaying, Says
  <2>3. /\ drawn.do = "bar" /\ drawn.on \in BOOLEAN
        /\ Says(Now.n, "playing") => drawn.on
        /\ Says(Now.n, "idle") => ~drawn.on
    BY DEF Says
  <2> HIDE DEF heard, drawn
  <2>4. CASE heard = <<drawn>> /\ fb
    <3> DEFINE called == <<drawn>>
    <3>1. Proper(called) /\ Len(called) = 1 /\ called[1] = drawn
      BY OneStatement
    <3>2. Continue(called)
      BY <1>1, <2>4
    <3> HIDE DEF called
    <3>3. CASE Says(Now.n, "playing")
      <4>1. PlayingStatement(Now) /\ ~Clearing(Now)
        BY <1>1, <3>3, PlayingDoesNotEnd DEF PlayingStatement
      <4>2. PlayingStatement(drawn) /\ Opening(drawn)
        BY <2>3, <3>3 DEF PlayingStatement, Opening
      <4>3. \A i \in 1 .. Len(called) :
                /\ i = 1 /\ PlayingStatement(called[i]) /\ Opening(called[i])
                /\ called[i].do = "bar" /\ called[i].on \in BOOLEAN
        BY <2>3, <3>1, <4>2
      <4>4. 1 \in 1 .. Len(called)
        BY <3>1
      <4> QED
        BY <1>1, <2>4, <3>1, <3>2, <4>1, <4>3, <4>4, BarFollows
    <3>4. CASE Says(Now.n, "idle")
      <4>1. EndingStatement(Now) /\ ~PlayingStatement(Now) /\ ~Opening(Now)
        BY <1>1, <3>4, PlayingDoesNotEnd DEF EndingStatement
      <4>2. EndingStatement(drawn) /\ Clearing(drawn)
        BY <2>3, <3>4 DEF EndingStatement, Clearing
      <4>3. \A i \in 1 .. Len(called) :
                /\ i = 1 /\ EndingStatement(called[i]) /\ Clearing(called[i])
                /\ called[i].do = "bar" /\ called[i].on \in BOOLEAN
        BY <2>3, <3>1, <4>2
      <4>4. 1 \in 1 .. Len(called)
        BY <3>1
      <4> QED
        BY <1>1, <2>4, <3>1, <3>2, <4>1, <4>3, <4>4, BarFollows
    <3> QED
      BY <1>3, <3>3, <3>4
  <2>5. CASE heard = <<>> /\ (Now.service = "display" => ~fb)
    <3> DEFINE called == <<>>
    <3>1. Proper(called) /\ Len(called) = 0 /\ Continue(called)
      BY <1>1, <2>5, ProperTuples
    <3> HIDE DEF called
    <3>2. \A i \in 1 .. Len(called) : FALSE
      BY <3>1
    <3>3. PlayingStatement(Now) \/ EndingStatement(Now)
      BY <1>1, <1>3 DEF PlayingStatement, EndingStatement
    <3>4. ~(Opening(Now) /\ fb) /\ ~(bar /\ Clearing(Now))
      BY <1>1, <2>5 DEF Opening, Clearing, PublishesState, BarTold
    <3> QED
      BY <1>1, <3>1, <3>2, <3>3, <3>4, BarFollows
  <2> QED
    BY <2>1, <2>2, <2>4, <2>5
<1>4. CASE ~Says(Now.n, "playing") /\ ~Says(Now.n, "idle")
  <2>1. ~PlayingStatement(Now) /\ ~EndingStatement(Now)
    BY <1>1, <1>4 DEF PlayingStatement, EndingStatement, PublishesState
  <2>2. \/ AllHarmless(heard) \/ Mutes(heard) \/ Tune(heard)
        \/ Subscribed("display") /\ heard = <<Framebuffer>>
    <3>1. CASE Now.n.path \notin Paths(Now.service)
      BY <3>1, HarmlessNothing DEF Heard
    <3>2. CASE Now.n.path \in Paths(Now.service)
      <4>1. heard = Handles(Now.service, Now.n)
        BY <3>2 DEF Heard
      <4>2. Now.n.path = "audio/status" /\ heard = ShowPlaying(Now.n) => heard = <<>>
        BY <1>4 DEF ShowPlaying, Says
      <4> HIDE DEF heard
      <4>3. \/ AllHarmless(heard) \/ Mutes(heard) \/ Tune(heard)
            \/ Now.service = "display" /\ heard = <<Framebuffer>>
            \/ Now.n.path = "audio/status" /\ heard = ShowPlaying(Now.n)
        BY <1>1, <3>2, <4>1, HandlerCalls
      <4> QED
        BY <1>1, <4>2, <4>3, HarmlessNothing
    <3> QED
      BY <3>1, <3>2
  <2>3. PICK called : /\ Continue(called)
                      /\ \/ AllHarmless(called) \/ Mutes(called) \/ Tune(called)
                         \/ Subscribed("display") /\ called = <<Framebuffer>>
    BY <1>1, <2>2
  <2>4. ASSUME Proper(called),
               \A i \in 1 .. Len(called) :
                   /\ ~PlayingStatement(called[i]) /\ called[i].do # "bar"
                   /\ called[i].do = "framebuffer" => Subscribed("display")
        PROVE  BarTold'
    BY <1>1, <1>2, <2>1, <2>3, <2>4, BarUnrelated
  <2>5. CASE AllHarmless(called)
    BY <2>4, <2>5, HarmlessIsSilent
  <2>6. CASE Mutes(called)
    <3>1. ASSUME NEW i \in 1 .. Len(called)
          PROVE  /\ ~PlayingStatement(called[i]) /\ called[i].do # "bar"
                 /\ called[i].do # "framebuffer"
      <4>1. i = 1 \/ i = 2
        BY <2>6 DEF Mutes
      <4>2. called[1].do = "mute" /\ called[2].do = "publish" /\ ~Says(called[2], "playing")
        BY <2>6 DEF Mutes, Says
      <4>3. CASE i = 1
        BY <4>2, <4>3 DEF PlayingStatement, PublishesState
      <4>4. CASE i = 2
        BY <4>2, <4>4 DEF PlayingStatement, PublishesState
      <4> QED
        BY <4>1, <4>3, <4>4
    <3>2. Proper(called)
      BY <2>6 DEF Mutes
    <3> QED
      BY <2>4, <3>1, <3>2
  <2>7. CASE Tune(called)
    BY <1>1, <2>1, <2>3, <2>7, BarOnTune
  <2>8. CASE Subscribed("display") /\ called = <<Framebuffer>>
    <3>1. Proper(called) /\ Len(called) = 1 /\ called[1] = Framebuffer
      BY <2>8, OneStatement
    <3>2. ~PlayingStatement(Framebuffer) /\ Framebuffer.do # "bar"
      BY DEF Framebuffer, PlayingStatement, PublishesState
    <3>3. \A i \in 1 .. Len(called) : called[i] = Framebuffer
      BY <3>1
    <3> QED
      BY <2>4, <2>8, <3>1, <3>2, <3>3
  <2> QED
    BY <2>3, <2>5, <2>6, <2>7, <2>8
<1> QED
  BY <1>3, <1>4

LEMMA BarOnPlaying ==
    ASSUME Shape, BarTold, FillBar \/ ((SetClock \/ Stream) /\ UNCHANGED displayVars)
    PROVE  BarTold'
<1>1. ~Quiet /\ Now.do \in {"set clock", "stream", "bar"} /\ Continue(<<>>) /\ subs' = subs
  BY DEF SetClock, Stream, FillBar, Runs, Now
<1> DEFINE called == <<>>
<1>2. Proper(called) /\ Len(called) = 0 /\ Continue(called)
  BY <1>1, ProperTuples
<1> HIDE DEF called
<1>3. \A i \in 1 .. Len(called) : FALSE
  BY <1>2
<1>4. Now.do = "bar" => fb /\ Now.on \in BOOLEAN
  <2>1. Len(work) \in Nat \ {0} /\ Now = work[1]
    BY <1>1, Nowhere
  <2> QED
    BY <2>1 DEF BarTold
<1>5. fb' = fb
  BY DEF FillBar, displayVars
<1>6. CASE Now.do # "bar"
  <2>1. bar' = bar
    BY <1>6 DEF FillBar, Runs, Now, displayVars
  <2>2. PlayingStatement(Now) /\ ~Opening(Now) /\ ~Clearing(Now)
    BY <1>1, <1>6 DEF PlayingStatement, Opening, Clearing, PublishesState
  <2> QED
    BY <1>1, <1>2, <1>3, <1>5, <2>1, <2>2, BarFollows
<1>7. CASE Now.do = "bar"
  <2>1. bar' = Now.on
    BY <1>7 DEF FillBar, SetClock, Stream, Runs, Now
  <2>2. CASE Now.on
    <3>1. PlayingStatement(Now) /\ ~Clearing(Now) /\ bar' /\ fb
      BY <1>4, <1>7, <2>1, <2>2, PlayingDoesNotEnd DEF PlayingStatement
    <3> QED
      BY <1>1, <1>2, <1>3, <1>5, <3>1, BarFollows
  <2>3. CASE ~Now.on
    <3>1. EndingStatement(Now) /\ ~PlayingStatement(Now) /\ ~Opening(Now) /\ ~bar'
      BY <1>7, <2>1, <2>3, PlayingDoesNotEnd DEF EndingStatement
    <3> QED
      BY <1>1, <1>2, <1>3, <1>5, <3>1, BarFollows
  <2> QED
    BY <2>2, <2>3
<1> QED
  BY <1>6, <1>7

LEMMA BarStep == Shape /\ BarTold /\ [Next]_vars => BarTold'
<1> SUFFICES ASSUME Shape, BarTold, [Next]_vars PROVE BarTold'
  OBVIOUS
<1> DEFINE Other == /\ Now.do \notin {"publish", "callback", "set clock", "stream", "bar"}
                    /\ fb' => fb \/ Now.do = "framebuffer"
                    /\ bar' => bar
                    /\ subs' = subs \/ Subscribes
<1>1. Step => \/ Publish \/ Callback \/ FillBar \/ ((SetClock \/ Stream) /\ UNCHANGED displayVars)
              \/ Other
  <2>1. InitFramebuffer \/ Clear => Other
    <3>1. ASSUME InitFramebuffer PROVE Other
      BY <3>1 DEF InitFramebuffer, Runs, Now
    <3>2. ASSUME Clear PROVE Other
      <4>1. Now.do = "clear" /\ fb' = fb /\ ~bar' /\ subs' = subs
        BY <3>2 DEF Clear, Runs, Now
      <4> QED
        BY <4>1
    <3> QED
      BY <3>1, <3>2
  <2>2. Step => \/ Publish \/ Callback \/ FillBar
                \/ ((SetClock \/ Stream) /\ UNCHANGED displayVars)
                \/ InitFramebuffer \/ Clear
                \/ /\ Now.do \notin {"publish", "callback", "set clock", "stream", "bar"}
                   /\ UNCHANGED displayVars
                   /\ subs' = subs \/ Subscribes
    BY DEF Step, serviceVars, CallMain, Subscribes, AudioNext, DacMute, DacVolume, MemFsNext,
       AppendFile, RemoveFile, DisplayNext, BluetoothNext, SetDongle, StorageNext, Open, Decode,
       FreeBuffer, CloseFile, ListRoot, ProbesNext, EmmcReset, Runs, Now
  <2> QED
    BY <2>1, <2>2 DEF displayVars
<1>2. CASE Publish
  BY <1>2, BarOnPublish
<1>3. CASE Callback
  BY <1>3, BarOnCallback
<1>4. CASE FillBar \/ ((SetClock \/ Stream) /\ UNCHANGED displayVars)
  BY <1>4, BarOnPlaying
<1>5. CASE Step /\ ~Publish /\ ~Callback /\ Other
  <2>1. Routine
    BY <1>5, RoutineStep
  <2>2. PICK called : AllHarmless(called) /\ Continue(called)
    BY <2>1 DEF Routine
  <2>3. \A s : Subscribed(s) => Subscribed(s)'
    BY <1>5, SubscribesCalls DEF Subscribed
  <2>4. ~PlayingStatement(Now) /\ ~EndingStatement(Now)
    BY <1>5 DEF PlayingStatement, EndingStatement, PublishesState
  <2>5. fb' => fb \/ Subscribed("display")
    <3>1. Now.do = "framebuffer" => Subscribed("display")
      <4>1. Len(work) \in Nat \ {0} /\ Now = work[1]
        BY <2>1, Nowhere DEF Routine
      <4> QED
        BY <4>1 DEF BarTold
    <3> QED
      BY <1>5, <3>1
  <2>6. ~Quiet /\ (bar' => bar)
    BY <1>5, <2>1 DEF Routine
  <2>7. /\ Proper(called)
        /\ \A i \in 1 .. Len(called) : /\ ~PlayingStatement(called[i]) /\ called[i].do # "bar"
                                       /\ called[i].do # "framebuffer"
    BY <2>2, HarmlessIsSilent
  <2> QED
    BY <2>2, <2>3, <2>4, <2>5, <2>6, <2>7, BarUnrelated
<1>6. CASE Command \/ Plug \/ Unplug
  <2>1. Quiet /\ UNCHANGED <<subs, fb, bar>> /\ \E c : work' = <<c>> /\ c.do = "publish" /\ Harmless(c)
    BY <1>6, Arrivals DEF displayVars
  <2>2. PICK c : work' = <<c>> /\ c.do = "publish" /\ Harmless(c)
    BY <2>1
  <2>3. ~PlayingStatement(c)
    BY <2>2 DEF Harmless, PlayingStatement, PublishesState
  <2>4. Len(work') = 1 /\ work'[1] = c
    BY <2>2, OneStatement
  <2>5. ~bar
    <3>1. Len(work) = 0
      BY <2>1, ProperFacts DEF Quiet, Shape
    <3> QED
      BY <3>1 DEF BarTold
  <2>6. ASSUME NEW i \in 1 .. Len(work')
        PROVE  /\ work'[i].do = "publish" /\ ~PlayingStatement(work'[i])
    BY <2>2, <2>3, <2>4
  <2>7. ~bar' /\ (fb' => Subscribed("display")')
    BY <2>1, <2>5 DEF BarTold, Subscribed
  <2>8. \A i \in 1 .. Len(work') : ~PlayingStatement(work[i])'
    BY <2>6 DEF PlayingStatement, PublishesState
  <2> QED
    BY <2>6, <2>7, <2>8 DEF BarTold
<1>7. CASE UNCHANGED vars \/ MapBuffer
  <2>1. work' = work /\ subs' = subs /\ fb' = fb /\ bar' = bar
    BY <1>7 DEF vars, MapBuffer, busVars, displayVars
  <2> QED
    BY <2>1 DEF BarTold, Subscribed
<1> QED
  BY <1>1, <1>2, <1>3, <1>4, <1>5, <1>6, <1>7 DEF Next

\* While samples go to the FIFO the bar is on the screen, if there is one, and
\* it is gone when the shell waits: no publication of "idle" is overtaken by
\* the "playing" before it (audiomgr.cpp: play_tone and stream_pcm,
\* displaymgr.cpp: the handler of the audio status).
THEOREM BarFollowsAudio == Spec => []BarShowsPlaying
<1>1. Init => BarTold
  <2> SUFFICES ASSUME Init PROVE BarTold
    OBVIOUS
  <2>1. ~fb /\ ~bar
    BY DEF Init, DisplayInit
  <2>2. ASSUME NEW i \in 1 .. Len(work) PROVE work[i].do = "main" /\ ~PlayingStatement(work[i])
    <3>1. work[i].do = "main"
      BY StartsWithMains
    <3> QED
      BY <3>1 DEF PlayingStatement, PublishesState
  <2> QED
    BY <2>1, <2>2 DEF BarTold
<1>2. Shape /\ BarTold => BarShowsPlaying
  <2> SUFFICES ASSUME Shape, BarTold PROVE BarShowsPlaying
    OBVIOUS
  <2>1. ASSUME Runs("stream"), fb PROVE bar
    <3>1. Len(work) \in Nat \ {0} /\ work[1].do = "stream"
      BY <2>1, Nowhere DEF Runs, Now
    <3>2. 1 \in 1 .. Len(work) /\ \A j \in 1 .. 1 - 1 : FALSE
      BY <3>1
    <3> QED
      BY <2>1, <3>1, <3>2 DEF BarTold
  <2>2. ASSUME Quiet PROVE ~bar
    <3>1. Len(work) = 0
      BY <2>2, ProperFacts DEF Quiet, Shape
    <3> QED
      BY <3>1 DEF BarTold
  <2> QED
    BY <2>1, <2>2 DEF BarShowsPlaying
<1> QED
  BY <1>1, <1>2, ShapeHolds, BarStep, PTL DEF Spec

-----------------------------------------------------------------------------
(***************************************************************************)
(* AutoStarted.  As long as a service has not announced itself there is    *)
(* work left that leads there: its entry, its own command behind its       *)
(* subscription, the callback, or the announcement.  What genetmgr and     *)
(* httpmgr say before that has such work behind it.                        *)
(***************************************************************************)
AutoServices == {"emmc", "genet", "http", "display", "usbaudio"}

\* The command a service gives itself.
StartPath(s) ==
    CASE s = "emmc"     -> "cmd/mount"
      [] s = "genet"    -> "cmd/netstart"
      [] s = "http"     -> "cmd/httpstart"
      [] s = "display"  -> "cmd/display"
      [] s = "usbaudio" -> "cmd/usbinit"

Announced(s) ==
    CASE s = "emmc"     -> Published("emmc/status", "state")
      [] s = "genet"    -> Reads("net/status", "state", "waiting for PHY/DMA init")
      [] s = "http"     -> Reads("http/status", "state", "waiting for GENET driver")
      [] s = "display"  -> Published("display/status", "state")
      [] s = "usbaudio" -> Published("usb/status", "ports")

Announces(s, x) ==
    /\ x.do = "publish"
    /\ \/ s = "emmc" /\ x.path = "emmc/status" /\ x.key = "state"
       \/ s = "genet" /\ x.path = "net/status" /\ x.key = "state"
                      /\ x.value = "waiting for PHY/DMA init"
       \/ s = "http" /\ x.path = "http/status" /\ x.key = "state"
                     /\ x.value = "waiting for GENET driver"
       \/ s = "display" /\ x.path = "display/status" /\ x.key = "state"
       \/ s = "usbaudio" /\ x.path = "usb/status" /\ x.key = "ports"

\* A state that takes the place of the one announced.
Retracts(s, x) ==
    /\ x.do = "publish" /\ x.key = "state" /\ ~Announces(s, x)
    /\ (s = "genet" /\ x.path = "net/status") \/ (s = "http" /\ x.path = "http/status")

Leads(s, x) ==
    \/ x.do = "main" /\ x.service = s
    \/ x.do = "callback" /\ x.service = s /\ x.n.path = StartPath(s)
    \/ s = "emmc" /\ x.do = "emmc reset"
    \/ s = "display" /\ x.do = "framebuffer"
    \/ Announces(s, x)

Asks(s, x)  == x.do = "publish" /\ x.path = StartPath(s)
Joins(s, x) == x.do = "subscribe" /\ x.service = s

\* The statement at i of w leads to the announcement.
StartsAt(s, w, i) ==
    \/ Leads(s, w[i])
    \/ Asks(s, w[i]) /\ (Subscribed(s) \/ \E j \in 1 .. i - 1 : Joins(s, w[j]))

StartTold(s) ==
    /\ s \in Started => Announced(s) \/ \E i \in 1 .. Len(work) : StartsAt(s, work, i)
    /\ \A i \in 1 .. Len(work) :
          Retracts(s, work[i]) => \E k \in i + 1 .. Len(work) : StartsAt(s, work, k)

\* What a step calls, and what is left, leads where it led.
LEMMA StartKept ==
    ASSUME Shape, ~Quiet, NEW s, StartTold(s), setup' = setup, Subscribed(s) => Subscribed(s)',
           NEW called, Proper(called), Continue(called),
           Joins(s, Now) => Subscribed(s)',
           \A i \in 1 .. Len(called) :
               Retracts(s, called[i]) => \E k \in i + 1 .. Len(called) : StartsAt(s, called, k)',
           Leads(s, Now) \/ (Asks(s, Now) /\ Subscribed(s)) =>
               Announced(s)' \/ \E k \in 1 .. Len(called) : StartsAt(s, called, k)',
           Announced(s) /\ ~Retracts(s, Now) => Announced(s)'
    PROVE  StartTold(s)'
<1>1. /\ \A i \in 1 .. Len(called) : i \in 1 .. Len(work') /\ work'[i] = called[i]
      /\ \A j \in 2 .. Len(work) : /\ Len(called) + j - 1 \in 1 .. Len(work')
                                   /\ work'[Len(called) + j - 1] = work[j]
      /\ \A i \in 1 .. Len(work') :
            \/ i \in 1 .. Len(called) /\ work'[i] = called[i]
            \/ \E j \in 2 .. Len(work) : i = Len(called) + j - 1 /\ work'[i] = work[j]
  BY Places DEF Shape
<1>2. Len(work) \in Nat \ {0} /\ Now = work[1]
  BY Nowhere
<1> DEFINE m == Len(work)
           n == Len(called)
           k1 == Len(work')
           w == work'
           sub == Subscribed(s)'
           Lead(x, i) == Leads(s, x[i])
                            \/ (Asks(s, x[i]) /\ (sub \/ \E j \in 1 .. i - 1 : Joins(s, x[j])))
<1>3. m \in Nat \ {0} /\ n \in Nat
  BY <1>2, ProperFacts
<1>4. /\ \A i \in 1 .. n : i \in 1 .. k1 /\ w[i] = called[i]
      /\ \A j \in 2 .. m : n + j - 1 \in 1 .. k1 /\ w[n + j - 1] = work[j]
      /\ \A i \in 1 .. k1 : \/ i \in 1 .. n /\ w[i] = called[i]
                            \/ \E j \in 2 .. m : i = n + j - 1 /\ w[i] = work[j]
  BY <1>1
<1>5. /\ \A i \in 1 .. n : Retracts(s, called[i]) => \E k \in i + 1 .. n : Lead(called, k)
      /\ Leads(s, Now) \/ (Asks(s, Now) /\ Subscribed(s)) =>
            Announced(s)' \/ \E k \in 1 .. n : Lead(called, k)
  BY DEF StartsAt
<1>6. /\ s \in Started => Announced(s) \/ \E i \in 1 .. m : StartsAt(s, work, i)
      /\ \A i \in 1 .. m :
            Retracts(s, work[i]) => \E k \in i + 1 .. m : StartsAt(s, work, k)
  BY DEF StartTold
<1>7. (Joins(s, Now) => sub) /\ (Subscribed(s) => sub)
  OBVIOUS
<1> HIDE DEF m, n, k1, w, sub
<1>8. ASSUME NEW k \in 1 .. n, Lead(called, k) PROVE Lead(w, k)
  <2>1. \A j \in 1 .. k - 1 : w[j] = called[j]
    BY <1>3, <1>4
  <2>2. w[k] = called[k]
    BY <1>4
  <2> QED
    BY <1>8, <2>1, <2>2
<1>9. ASSUME NEW k \in 2 .. m, StartsAt(s, work, k) PROVE Lead(w, n + k - 1)
  <2>1. w[n + k - 1] = work[k]
    BY <1>4
  <2>2. CASE Leads(s, work[k])
    BY <2>1, <2>2
  <2>3. CASE Asks(s, work[k]) /\ Subscribed(s)
    BY <1>7, <2>1, <2>3
  <2>4. ASSUME Asks(s, work[k]), NEW j \in 1 .. k - 1, Joins(s, work[j])
        PROVE  Lead(w, n + k - 1)
    <3>1. CASE j = 1
      BY <1>2, <1>7, <2>1, <2>4, <3>1
    <3>2. CASE j # 1
      <4>1. j \in 2 .. m /\ n + j - 1 \in 1 .. (n + k - 1) - 1
        BY <1>3, <3>2
      <4>2. Joins(s, w[n + j - 1])
        BY <1>4, <2>4, <4>1
      <4> QED
        BY <2>1, <2>4, <4>1, <4>2
    <3> QED
      BY <3>1, <3>2
  <2> QED
    BY <1>9, <2>2, <2>3, <2>4 DEF StartsAt
<1>10. ASSUME s \in Started, ~Announced(s)' PROVE \E i \in 1 .. k1 : Lead(w, i)
  <2>1. ASSUME NEW k \in 2 .. m, StartsAt(s, work, k) PROVE \E i \in 1 .. k1 : Lead(w, i)
    BY <1>4, <1>9, <2>1
  <2>2. CASE Announced(s)
    <3>1. Retracts(s, work[1])
      BY <1>2, <1>10, <2>2
    <3>2. PICK k \in 1 + 1 .. m : StartsAt(s, work, k)
      BY <1>3, <1>6, <3>1
    <3> QED
      BY <2>1, <3>2
  <2>3. ASSUME NEW i \in 1 .. m, StartsAt(s, work, i) PROVE \E k \in 1 .. k1 : Lead(w, k)
    <3>1. CASE i = 1
      <4>1. Leads(s, Now) \/ (Asks(s, Now) /\ Subscribed(s))
        BY <1>2, <2>3, <3>1 DEF StartsAt
      <4>2. PICK k \in 1 .. n : Lead(called, k)
        BY <1>5, <1>10, <4>1
      <4> QED
        BY <1>4, <1>8, <4>2
    <3>2. CASE i # 1
      BY <2>1, <2>3, <3>2
    <3> QED
      BY <3>1, <3>2
  <2> QED
    BY <1>6, <1>10, <2>2, <2>3
<1>11. ASSUME NEW i \in 1 .. k1, Retracts(s, w[i]) PROVE \E k \in i + 1 .. k1 : Lead(w, k)
  <2>1. CASE i \in 1 .. n /\ w[i] = called[i]
    <3>1. PICK k \in i + 1 .. n : Lead(called, k)
      BY <1>5, <1>11, <2>1
    <3>2. k \in 1 .. n /\ k \in i + 1 .. k1
      BY <1>3, <1>4, <2>1
    <3> QED
      BY <1>8, <3>1, <3>2
  <2>2. ASSUME NEW j \in 2 .. m, i = n + j - 1, w[i] = work[j]
        PROVE  \E k \in i + 1 .. k1 : Lead(w, k)
    <3>1. PICK k \in j + 1 .. m : StartsAt(s, work, k)
      BY <1>3, <1>6, <1>11, <2>2
    <3>2. k \in 2 .. m
      BY <1>3
    <3>3. n + k - 1 \in i + 1 .. k1
      <4>1. n + k - 1 \in 1 .. k1
        BY <1>4, <3>2
      <4> QED
        BY <1>3, <2>2, <4>1
    <3> QED
      BY <1>9, <3>1, <3>2, <3>3
  <2> QED
    BY <1>4, <2>1, <2>2
<1>12. Started' = Started
  BY DEF Started
<1>13. s \in Started' => Announced(s)' \/ \E i \in 1 .. Len(work') : StartsAt(s, work, i)'
  BY <1>10, <1>12 DEF w, k1, sub, StartsAt
<1>14. \A i \in 1 .. Len(work') :
          Retracts(s, work'[i]) => \E k \in i + 1 .. Len(work') : StartsAt(s, work, k)'
  BY <1>11 DEF w, k1, sub, StartsAt
<1> QED
  BY <1>13, <1>14 DEF StartTold

\* The entry of a service asks for its command once it has subscribed, and says
\* nothing after that.
LEMMA MainStarts ==
    ASSUME NEW s \in AutoServices
    PROVE  \E k \in 1 .. Len(Main(s)) :
              /\ Asks(s, Main(s)[k]) /\ \E j \in 1 .. k - 1 : Joins(s, Main(s)[j])
              /\ \A i \in 1 .. Len(Main(s)) : Retracts(s, Main(s)[i]) => i < k
<1>1. CASE s \in {"emmc", "genet", "display"}
  <2> DEFINE a == Subscribe(s)
             b == Pub(StartPath(s), "value", 1)
  <2>1. Main(s) = <<a, b>>
    BY <1>1 DEF Main, EmmcMain, GenetMain, DisplayMain, StartPath
  <2>2. Joins(s, a) /\ Asks(s, b) /\ ~Retracts(s, b)
    BY DEF Subscribe, Pub, Joins, Asks, Retracts
  <2> HIDE DEF a, b
  <2>3. \A i \in 1 .. 2 : i # 2 => i < 2
    OBVIOUS
  <2>4. Len(<<a, b>>) = 2 /\ <<a, b>>[1] = a /\ <<a, b>>[2] = b
    OBVIOUS
  <2>5. 2 \in 1 .. 2 /\ 1 \in 1 .. 2 - 1
    OBVIOUS
  <2> QED
    BY <2>1, <2>2, <2>3, <2>4, <2>5, Zenon
<1>2. CASE s = "usbaudio"
  <2> DEFINE a == Pub("usb/audio", "state", "init")
             b == Subscribe(s)
             c == Pub(StartPath(s), "value", 1)
  <2>1. Main(s) = <<a, b, c>>
    BY <1>2 DEF Main, UsbAudioMain, StartPath
  <2>2. Joins(s, b) /\ Asks(s, c) /\ ~Retracts(s, c)
    BY DEF Subscribe, Pub, Joins, Asks, Retracts
  <2> HIDE DEF a, b, c
  <2>3. \A i \in 1 .. 3 : i # 3 => i < 3
    OBVIOUS
  <2>4. Len(<<a, b, c>>) = 3 /\ <<a, b, c>>[2] = b /\ <<a, b, c>>[3] = c
    OBVIOUS
  <2>5. 3 \in 1 .. 3 /\ 2 \in 1 .. 3 - 1
    OBVIOUS
  <2> QED
    BY <2>1, <2>2, <2>3, <2>4, <2>5, Zenon
<1>3. CASE s = "http"
  <2> DEFINE a == Pub("http/status", "state", "init")
             b == Pub("http/status", "port", 9090)
             c == Subscribe(s)
             d == Pub(StartPath(s), "value", 1)
  <2>1. Main(s) = <<a, b, c, d>>
    BY <1>3 DEF Main, HttpMain, StartPath
  <2>2. Joins(s, c) /\ Asks(s, d) /\ ~Retracts(s, d)
    BY DEF Subscribe, Pub, Joins, Asks, Retracts
  <2> HIDE DEF a, b, c, d
  <2>3. \A i \in 1 .. 4 : i # 4 => i < 4
    OBVIOUS
  <2>4. Len(<<a, b, c, d>>) = 4 /\ <<a, b, c, d>>[3] = c /\ <<a, b, c, d>>[4] = d
    OBVIOUS
  <2>5. 4 \in 1 .. 4 /\ 3 \in 1 .. 4 - 1
    OBVIOUS
  <2> QED
    BY <2>1, <2>2, <2>3, <2>4, <2>5, Zenon
<1> QED
  BY <1>1, <1>2, <1>3 DEF AutoServices

\* What it does about its command leads on, and it says nothing after that.
LEMMA HandlerStarts ==
    ASSUME NEW s \in AutoServices, NEW n, n.path = StartPath(s)
    PROVE  /\ n.path \in Paths(s)
           /\ \E k \in 1 .. Len(Handles(s, n)) :
                 /\ Leads(s, Handles(s, n)[k])
                 /\ \A i \in 1 .. Len(Handles(s, n)) : Retracts(s, Handles(s, n)[i]) => i < k
<1>1. n.path \in Paths(s)
  BY DEF AutoServices, StartPath, Paths, DisplayPaths
<1>2. CASE s \in {"emmc", "display"}
  <2> DEFINE a == IF s = "emmc" THEN [do |-> "emmc reset"] ELSE Framebuffer
  <2>1. Handles(s, n) = <<a>> /\ Leads(s, a) /\ ~Retracts(s, a)
    <3>1. CASE s = "emmc"
      <4>1. Handles(s, n) = <<a>>
        BY <3>1 DEF Handles, EmmcHandles
      <4> QED
        BY <3>1, <4>1 DEF Leads, Retracts
    <3>2. CASE s = "display"
      <4>1. Handles(s, n) = <<a>>
        BY <3>2 DEF Handles, DisplayHandles, StartPath
      <4> QED
        BY <3>2, <4>1 DEF Framebuffer, Leads, Retracts
    <3> QED
      BY <1>2, <3>1, <3>2
  <2> HIDE DEF a
  <2>2. Len(<<a>>) = 1 /\ <<a>>[1] = a /\ 1 \in 1 .. 1 /\ \A i \in 1 .. 1 : i = 1
    OBVIOUS
  <2> QED
    BY <1>1, <2>1, <2>2, Zenon
<1>3. CASE s = "genet"
  <2> DEFINE a == Pub("net/status", "mac", "read from the UMAC")
             b == Pub("net/status", "state", "reset")
             c == Pub("net/status", "hostname", "rp4.local")
             d == Pub("net/status", "state", "waiting for PHY/DMA init")
  <2>1. Handles(s, n) = <<a, b, c, d>>
    BY <1>3 DEF Handles, GenetHandles
  <2>2. Leads(s, d) /\ ~Retracts(s, d)
    BY <1>3 DEF Pub, Leads, Announces, Retracts
  <2> HIDE DEF a, b, c, d
  <2>3. \A i \in 1 .. 4 : i # 4 => i < 4
    OBVIOUS
  <2>4. Len(<<a, b, c, d>>) = 4 /\ <<a, b, c, d>>[4] = d /\ 4 \in 1 .. 4
    OBVIOUS
  <2> QED
    BY <1>1, <2>1, <2>2, <2>3, <2>4, Zenon
<1>4. CASE s = "http"
  <2> DEFINE a == Pub("http/status", "state", "waiting for GENET driver")
             b == Pub("http/status", "hostname", "rp4.local")
  <2>1. Handles(s, n) = <<a, b>>
    BY <1>4 DEF Handles, HttpHandles
  <2>2. Leads(s, a) /\ ~Retracts(s, a) /\ ~Retracts(s, b)
    BY <1>4 DEF Pub, Leads, Announces, Retracts
  <2> HIDE DEF a, b
  <2>3. \A i \in 1 .. 2 : i = 1 \/ i = 2
    OBVIOUS
  <2>4. Len(<<a, b>>) = 2 /\ <<a, b>>[1] = a /\ <<a, b>>[2] = b /\ 1 \in 1 .. 2
    OBVIOUS
  <2> QED
    BY <1>1, <2>1, <2>2, <2>3, <2>4, Zenon
<1>5. CASE s = "usbaudio"
  <2> DEFINE a == Pub("usb/status", "xhci_version", 1)
             b == Pub("usb/status", "ports", 5)
             c == Pub("usb/audio", "state", "needs xHCI init")
  <2>1. Handles(s, n) = <<a, b, c>>
    BY <1>5 DEF Handles, UsbAudioHandles, StartPath
  <2>2. Leads(s, b) /\ ~Retracts(s, a) /\ ~Retracts(s, b) /\ ~Retracts(s, c)
    BY <1>5 DEF Pub, Leads, Announces, Retracts
  <2> HIDE DEF a, b, c
  <2>3. \A i \in 1 .. 3 : i = 1 \/ i = 2 \/ i = 3
    OBVIOUS
  <2>4. /\ Len(<<a, b, c>>) = 3 /\ 2 \in 1 .. 3
        /\ <<a, b, c>>[1] = a /\ <<a, b, c>>[2] = b /\ <<a, b, c>>[3] = c
    OBVIOUS
  <2> QED
    BY <1>1, <2>1, <2>2, <2>3, <2>4, Zenon
<1> QED
  BY <1>2, <1>3, <1>4, <1>5 DEF AutoServices

\* Nobody else says anything of the kind.
LEMMA SteadyKeepsAnnounced ==
    /\ \A s, x : Steady(x) => ~Retracts(s, x)
    /\ \A s, c : Mutes(c) \/ Tune(c) => \A i \in 1 .. Len(c) : ~Retracts(s, c[i])
    /\ \A s : ~Retracts(s, Framebuffer)
<1>1. \A s, x : Steady(x) => ~Retracts(s, x)
  BY DEF Steady, Retracts
<1>2. ASSUME NEW s, NEW c, Mutes(c), NEW i \in 1 .. Len(c) PROVE ~Retracts(s, c[i])
  <2>1. i = 1 \/ i = 2
    BY <1>2 DEF Mutes
  <2>2. c[1].do = "mute" /\ c[2].path = "audio/status"
    BY <1>2 DEF Mutes, Says
  <2> QED
    BY <2>1, <2>2 DEF Retracts
<1>3. ASSUME NEW s, NEW c, Tune(c), NEW i \in 1 .. Len(c) PROVE ~Retracts(s, c[i])
  <2>1. c[i].do \in {"set clock", "stream"} \/ c[i].path = "audio/status"
    BY <1>3, TuneStatements DEF Says
  <2> QED
    BY <2>1 DEF Retracts
<1>4. \A s : ~Retracts(s, Framebuffer)
  BY DEF Framebuffer, Retracts
<1> QED
  BY <1>1, <1>2, <1>3, <1>4

SaysNothing(s, c) == \A i \in 1 .. Len(c) : ~Retracts(s, c[i])

LEMMA OthersReports ==
    ASSUME NEW s \in AutoServices
    PROVE  /\ s # "genet" => \A n : SaysNothing(s, GenetHandles(n))
           /\ s # "http" => SaysNothing(s, HttpMain) /\ \A n : SaysNothing(s, HttpHandles(n))
<1>1. ASSUME NEW a, NEW b, ~Retracts(s, a), ~Retracts(s, b)
      PROVE  /\ SaysNothing(s, <<a, b>>)
             /\ \A c, d : ~Retracts(s, c) /\ ~Retracts(s, d) => SaysNothing(s, <<a, b, c, d>>)
  BY <1>1 DEF SaysNothing
<1>2. ASSUME s # "genet", NEW n PROVE SaysNothing(s, GenetHandles(n))
  <2>1. \A key, value : ~Retracts(s, Pub("net/status", key, value))
    BY <1>2 DEF Retracts, Pub
  <2> QED
    BY <1>1, <2>1, Zenon DEF GenetHandles
<1>3. ASSUME s # "http"
      PROVE  /\ \A key, value : ~Retracts(s, Pub("http/status", key, value))
             /\ ~Retracts(s, Subscribe("http")) /\ ~Retracts(s, Pub("cmd/httpstart", "value", 1))
  BY <1>3 DEF Retracts, Pub, Subscribe
<1>4. ASSUME s # "http", NEW n PROVE SaysNothing(s, HttpHandles(n))
  BY <1>1, <1>3, <1>4, Zenon DEF HttpHandles
<1>5. ASSUME s # "http" PROVE SaysNothing(s, HttpMain)
  <2>1. ASSUME NEW port
        PROVE  SaysNothing(s, <<Pub("http/status", "state", "init"),
                                Pub("http/status", "port", port), Subscribe("http"),
                                Pub("cmd/httpstart", "value", 1)>>)
    BY <1>1, <1>3, <1>5, Zenon
  <2> QED
    BY <2>1 DEF HttpMain
<1> QED
  BY <1>2, <1>4, <1>5

LEMMA StartAside ==
    ASSUME Shape, ~Quiet, NEW s \in AutoServices, StartTold(s), setup' = setup, objects' = objects,
           Subscribed(s) => Subscribed(s)', Joins(s, Now) => Subscribed(s)',
           NEW called, Proper(called), Continue(called),
           SaysNothing(s, called),
           ~Asks(s, Now),
           Leads(s, Now) => \E k \in 1 .. Len(called) : Leads(s, called[k])
    PROVE  StartTold(s)'
<1>1. Announced(s)' = Announced(s)
  BY DEF Announced, AutoServices, Reads, Published
<1>2. Leads(s, Now) => \E k \in 1 .. Len(called) : StartsAt(s, called, k)'
  BY DEF StartsAt
<1> QED
  BY <1>1, <1>2, StartKept DEF SaysNothing

LEMMA StartOnMain ==
    ASSUME Shape, NEW s \in AutoServices, StartTold(s), CallMain
    PROVE  StartTold(s)'
<1>1. /\ ~Quiet /\ Now.do = "main" /\ Continue(Main(Now.service))
      /\ UNCHANGED <<objects, subs, setup>>
  BY DEF CallMain, Runs, Now, serviceVars
<1>2. Now.service \in ServiceNames
  BY <1>1, Nowhere DEF Shape
<1>3. Proper(Main(Now.service))
  BY <1>2, MainCalls DEF AllHarmless
<1>4. (Subscribed(s) => Subscribed(s)') /\ ~Joins(s, Now) /\ ~Asks(s, Now)
  BY <1>1 DEF Subscribed, Joins, Asks
<1>5. CASE Now.service = s
  <2>0. PICK called :
            /\ Proper(called) /\ Continue(called)
            /\ \E k \in 1 .. Len(called) :
                  /\ Asks(s, called[k]) /\ \E j \in 1 .. k - 1 : Joins(s, called[j])
                  /\ \A i \in 1 .. Len(called) : Retracts(s, called[i]) => i < k
    BY <1>1, <1>3, <1>5, MainStarts
  <2>1. Proper(called) /\ Continue(called)
    BY <2>0
  <2>2. PICK k \in 1 .. Len(called) :
            /\ Asks(s, called[k]) /\ \E j \in 1 .. k - 1 : Joins(s, called[j])
            /\ \A i \in 1 .. Len(called) : Retracts(s, called[i]) => i < k
    BY <2>0
  <2>3. StartsAt(s, called, k)'
    BY <2>2 DEF StartsAt
  <2>4. ASSUME NEW i \in 1 .. Len(called), Retracts(s, called[i])
        PROVE  \E l \in i + 1 .. Len(called) : StartsAt(s, called, l)'
    <3>1. Len(called) \in Nat /\ i < k
      BY <2>1, <2>2, <2>4, ProperFacts
    <3>2. k \in i + 1 .. Len(called)
      BY <3>1
    <3> QED
      BY <2>3, <3>2
  <2>5. Announced(s) => Announced(s)'
    BY <1>1 DEF Announced, AutoServices, Reads, Published
  <2> QED
    BY <1>1, <1>4, <2>1, <2>3, <2>4, <2>5, StartKept
<1>6. CASE Now.service # s
  <2>1. ~Leads(s, Now)
    BY <1>1, <1>6 DEF Leads, Announces
  <2>2. \/ AllSteady(Main(Now.service))
        \/ s # "http" /\ Main(Now.service) = HttpMain
    BY <1>2, <1>6, MainsInDetail, StorageCalls, MemFsCalls DEF AllAside
  <2> DEFINE called == Main(Now.service)
  <2>3. Proper(called) /\ Continue(called)
    BY <1>1, <1>3
  <2>4. SaysNothing(s, called)
    BY <2>2, OthersReports, SteadyKeepsAnnounced DEF AllSteady, SaysNothing
  <2>5. PICK c : Proper(c) /\ Continue(c) /\ SaysNothing(s, c)
    BY <2>3, <2>4
  <2> QED
    BY <1>1, <1>4, <2>1, <2>5, StartAside
<1> QED
  BY <1>5, <1>6

LEMMA StartOnPublish ==
    ASSUME Shape, NEW s \in AutoServices, StartTold(s), Publish
    PROVE  StartTold(s)'
<1>1. ~Quiet /\ Now.do = "publish" /\ subs' = subs /\ setup' = setup
  BY PublishCalls DEF serviceVars
<1>2. PICK called : /\ Proper(called) /\ Continue(called) /\ Len(called) = Len(subs)
                    /\ \A m \in 1 .. Len(subs) :
                          called[m] = [do |-> "callback", service |-> subs[m], n |-> Now]
  BY PublishCalls
<1>3. ASSUME NEW m \in 1 .. Len(called)
      PROVE  called[m].do = "callback" /\ called[m].service = subs[m] /\ called[m].n = Now
  <2>1. called[m] = [do |-> "callback", service |-> subs[m], n |-> Now]
    BY <1>2
  <2> QED
    BY <2>1
<1>4. SaysNothing(s, called)
  BY <1>3 DEF Retracts, SaysNothing
<1>5. (Subscribed(s) => Subscribed(s)') /\ ~Joins(s, Now)
  BY <1>1 DEF Subscribed, Joins
<1>6. ASSUME Asks(s, Now), Subscribed(s)
      PROVE  \E k \in 1 .. Len(called) : StartsAt(s, called, k)'
  <2>1. PICK m \in 1 .. Len(subs) : subs[m] = s
    BY <1>6 DEF Subscribed
  <2>2. m \in 1 .. Len(called) /\ Leads(s, called[m])
    BY <1>2, <1>3, <1>6, <2>1 DEF Leads, Asks
  <2> QED
    BY <2>2 DEF StartsAt
<1>7. Leads(s, Now) => Announces(s, Now)
  BY <1>1 DEF Leads
<1>8. Now.path \notin CommandPaths => objects' = WithAttribute(Now)
  BY DEF Publish
<1>9. objects' = objects \/ objects' = WithAttribute(Now)
  BY DEF Publish
<1>10. Announces(s, Now) => Announced(s)'
  <2> SUFFICES ASSUME Announces(s, Now) PROVE Announced(s)'
    OBVIOUS
  <2>1. Now.path \notin CommandPaths
    BY DEF Announces, CommandPaths, MemFsPaths, StoragePaths, AudioPaths
  <2>2. /\ <<Now.path, Now.key>> \in DOMAIN objects'
        /\ objects'[<<Now.path, Now.key>>] = Now.value
    BY <1>8, <2>1 DEF WithAttribute
  <2> QED
    BY <2>2 DEF Announces, Announced, AutoServices, Reads, Published
<1>11. ASSUME Announced(s), ~Retracts(s, Now) PROVE Announced(s)'
  <2>1. CASE Announces(s, Now)
    BY <1>10, <2>1
  <2>2. CASE ~Announces(s, Now)
    <3>1. \A x \in DOMAIN objects : x \in DOMAIN objects'
      BY <1>9 DEF WithAttribute
    <3>2. \A x \in DOMAIN objects : x # <<Now.path, Now.key>> => objects'[x] = objects[x]
      BY <1>9 DEF WithAttribute
    <3>3. CASE s \in {"emmc", "display", "usbaudio"}
      BY <1>11, <3>1, <3>3 DEF Announced, Published
    <3>4. CASE s = "genet"
      <4>1. ~(Now.path = "net/status" /\ Now.key = "state")
        BY <1>1, <1>11, <2>2, <3>4 DEF Retracts
      <4>2. <<"net/status", "state">> # <<Now.path, Now.key>>
        BY <4>1
      <4> QED
        BY <1>11, <3>1, <3>2, <3>4, <4>2 DEF Announced, Reads, Published
    <3>5. CASE s = "http"
      <4>1. ~(Now.path = "http/status" /\ Now.key = "state")
        BY <1>1, <1>11, <2>2, <3>5 DEF Retracts
      <4>2. <<"http/status", "state">> # <<Now.path, Now.key>>
        BY <4>1
      <4> QED
        BY <1>11, <3>1, <3>2, <3>5, <4>2 DEF Announced, Reads, Published
    <3> QED
      BY <3>3, <3>4, <3>5 DEF AutoServices
  <2> QED
    BY <2>1, <2>2
<1> QED
  BY <1>1, <1>2, <1>4, <1>5, <1>6, <1>7, <1>10, <1>11, StartKept DEF SaysNothing

LEMMA StartOnCallback ==
    ASSUME Shape, NEW s \in AutoServices, StartTold(s), Callback
    PROVE  StartTold(s)'
<1>1. /\ ~Quiet /\ Now.do = "callback" /\ UNCHANGED <<objects, subs, serviceVars>>
      /\ Now.service \in ServiceNames
      /\ Ordinary(Heard(Now.service, Now.n)) /\ Continue(Heard(Now.service, Now.n))
  BY CallbackCalls
<1>2. setup' = setup /\ objects' = objects /\ subs' = subs
  BY <1>1 DEF serviceVars
<1>3. (Subscribed(s) => Subscribed(s)') /\ ~Joins(s, Now) /\ ~Asks(s, Now)
  BY <1>1 DEF Subscribed, Joins, Asks
<1>4. CASE Now.service = s /\ Now.n.path = StartPath(s)
  <2>1. /\ Heard(s, Now.n) = Handles(s, Now.n)
        /\ \E k \in 1 .. Len(Handles(s, Now.n)) :
              /\ Leads(s, Handles(s, Now.n)[k])
              /\ \A i \in 1 .. Len(Handles(s, Now.n)) : Retracts(s, Handles(s, Now.n)[i]) => i < k
    BY <1>4, HandlerStarts DEF Heard
  <2>2. PICK called :
            /\ Ordinary(called) /\ Continue(called)
            /\ \E k \in 1 .. Len(called) :
                  /\ Leads(s, called[k])
                  /\ \A i \in 1 .. Len(called) : Retracts(s, called[i]) => i < k
    BY <1>1, <1>4, <2>1
  <2>3. PICK k \in 1 .. Len(called) :
            /\ Leads(s, called[k])
            /\ \A i \in 1 .. Len(called) : Retracts(s, called[i]) => i < k
    BY <2>2
  <2>4. Proper(called) /\ Continue(called)
    BY <2>2 DEF Ordinary
  <2>5. StartsAt(s, called, k)'
    BY <2>3 DEF StartsAt
  <2>6. ASSUME NEW i \in 1 .. Len(called), Retracts(s, called[i])
        PROVE  \E l \in i + 1 .. Len(called) : StartsAt(s, called, l)'
    <3>1. Len(called) \in Nat /\ i < k
      BY <2>3, <2>4, <2>6, ProperFacts
    <3>2. k \in i + 1 .. Len(called)
      BY <3>1
    <3> QED
      BY <2>5, <3>2
  <2>7. Announced(s) => Announced(s)'
    BY <1>2 DEF Announced, AutoServices, Reads, Published
  <2> QED
    BY <1>1, <1>2, <1>3, <2>4, <2>5, <2>6, <2>7, StartKept
<1>5. CASE ~(Now.service = s /\ Now.n.path = StartPath(s))
  <2>1. ~Leads(s, Now)
    BY <1>1, <1>5 DEF Leads, Announces
  <2>2. SaysNothing(s, Heard(Now.service, Now.n))
    <3>1. CASE Now.n.path \notin Paths(Now.service)
      <4>1. Heard(Now.service, Now.n) = <<>>
        BY <3>1 DEF Heard
      <4>2. Len(<<>>) = 0
        OBVIOUS
      <4> QED
        BY <4>1, <4>2 DEF SaysNothing
    <3>2. CASE Now.n.path \in Paths(Now.service)
      <4> DEFINE c == Handles(Now.service, Now.n)
      <4>1. Heard(Now.service, Now.n) = c
        BY <3>2 DEF Heard
      <4>2. \/ AllSteady(c) \/ Just("append", c) \/ Just("remove", c)
            \/ Now.service = "genet" /\ c = GenetHandles(Now.n)
            \/ Now.service = "http" /\ c = HttpHandles(Now.n)
            \/ Now.service = "audio" /\ (Mutes(c) \/ Tune(c))
            \/ Now.service = "display" /\ c = <<Framebuffer>>
            \/ Now.service = "display" /\ Now.n.path = "audio/status" /\ c = ShowPlaying(Now.n)
        BY <1>1, <3>2, HandlersInDetail, StorageCalls, MemFsCalls DEF AllAside
      <4>3. Now.service \in {"genet", "http"} => Now.service # s
        BY <1>5, <3>2 DEF Paths, StartPath
      <4> SUFFICES SaysNothing(s, c)
        BY <4>1
      <4> HIDE DEF c
      <4>4. CASE AllSteady(c)
        BY <4>4, SteadyKeepsAnnounced DEF AllSteady, SaysNothing
      <4>5. CASE Now.service = "genet" /\ c = GenetHandles(Now.n)
        BY <4>3, <4>5, OthersReports
      <4>6. CASE Now.service = "http" /\ c = HttpHandles(Now.n)
        BY <4>3, <4>6, OthersReports
      <4>7. CASE Mutes(c) \/ Tune(c)
        BY <4>7, SteadyKeepsAnnounced DEF SaysNothing
      <4>8. ASSUME NEW x, c = <<x>>, x.do # "publish" PROVE SaysNothing(s, c)
        <5>1. Len(c) = 1 /\ c[1] = x /\ \A i \in 1 .. 1 : i = 1
          BY <4>8
        <5> QED
          BY <4>8, <5>1 DEF SaysNothing, Retracts
      <4>9. CASE c = <<Framebuffer>>
        <5>1. Framebuffer.do # "publish"
          BY DEF Framebuffer
        <5> QED
          BY <4>8, <4>9, <5>1
      <4>10. CASE c = ShowPlaying(Now.n)
        <5>1. \/ c = <<>>
              \/ \E x : c = <<x>> /\ x.do # "publish"
          BY <4>10 DEF ShowPlaying
        <5>2. Len(<<>>) = 0
          OBVIOUS
        <5>3. CASE c = <<>>
          BY <5>2, <5>3 DEF SaysNothing
        <5> QED
          BY <4>8, <5>1, <5>3
      <4>11. CASE Just("append", c) \/ Just("remove", c)
        <5>1. Len(<<>>) = 0
          OBVIOUS
        <5>2. CASE c = <<>>
          BY <5>1, <5>2 DEF SaysNothing
        <5> QED
          BY <4>8, <4>11, <5>2 DEF Just
      <4> QED
        BY <4>2, <4>4, <4>5, <4>6, <4>7, <4>9, <4>10, <4>11
    <3> QED
      BY <3>1, <3>2
  <2>3. PICK called : Proper(called) /\ Continue(called) /\ SaysNothing(s, called)
    BY <1>1, <2>2 DEF Ordinary
  <2> QED
    BY <1>1, <1>2, <1>3, <2>1, <2>3, StartAside
<1> QED
  BY <1>4, <1>5

\* The two drivers that are waited for report in the end, whatever they meet.
LEMMA DriverReports ==
    /\ EmmcReset => \E called : /\ AllSteady(called) /\ Continue(called)
                                /\ \E k \in 1 .. Len(called) : Leads("emmc", called[k])
    /\ InitFramebuffer => \E called : /\ AllSteady(called) /\ Continue(called)
                                      /\ \E k \in 1 .. Len(called) : Leads("display", called[k])
<1>1. ASSUME EmmcReset
      PROVE  \E called : /\ AllSteady(called) /\ Continue(called)
                         /\ \E k \in 1 .. Len(called) : Leads("emmc", called[k])
  <2> DEFINE a == Pub("emmc/status", "version", 3)
             b == Pub("emmc/status", "state", "reset ok")
             c == Pub("emmc/status", "state", "reset failed")
  <2>1. Steady(a) /\ Steady(b) /\ Steady(c)
    BY SteadyPublications
  <2>2. Leads("emmc", b) /\ Leads("emmc", c)
    BY DEF Leads, Announces, Pub
  <2>3. Continue(<<a, b>>) \/ Continue(<<c>>)
    BY <1>1 DEF EmmcReset
  <2> HIDE DEF a, b, c
  <2>4. AllSteady(<<a, b>>) /\ AllSteady(<<c>>)
    BY <2>1, SteadyTuples
  <2>5. /\ 2 \in 1 .. Len(<<a, b>>) /\ <<a, b>>[2] = b
        /\ 1 \in 1 .. Len(<<c>>) /\ <<c>>[1] = c
    OBVIOUS
  <2> QED
    BY <2>2, <2>3, <2>4, <2>5, Zenon
<1>2. ASSUME InitFramebuffer
      PROVE  \E called : /\ AllSteady(called) /\ Continue(called)
                         /\ \E k \in 1 .. Len(called) : Leads("display", called[k])
  <2> DEFINE c == Pub("display/status", "state", "no HDMI")
             r == DisplayReady
  <2>1. Continue(r) \/ Continue(<<c>>)
    BY <1>2 DEF InitFramebuffer
  <2>2. AllSteady(r) /\ AllSteady(<<c>>)
    BY DisplayCalls DEF AllAside
  <2>3. /\ 2 \in 1 .. Len(r) /\ r[2] = Pub("display/status", "state", "ready")
        /\ 1 \in 1 .. Len(<<c>>) /\ <<c>>[1] = c
    BY DEF DisplayReady
  <2>4. Leads("display", Pub("display/status", "state", "ready")) /\ Leads("display", c)
    BY DEF Leads, Announces, Pub
  <2> HIDE DEF c, r
  <2> QED
    BY <2>1, <2>2, <2>3, <2>4, Zenon
<1> QED
  BY <1>1, <1>2

LEMMA StartOnDriver ==
    ASSUME Shape, NEW s \in AutoServices, StartTold(s), EmmcReset \/ InitFramebuffer, setup' = setup
    PROVE  StartTold(s)'
<1>1. ~Quiet /\ UNCHANGED <<objects, subs>>
  BY DEF EmmcReset, InitFramebuffer, Runs, Now
<1>2. /\ EmmcReset => Now.do = "emmc reset"
      /\ InitFramebuffer => Now.do = "framebuffer"
  BY DEF EmmcReset, InitFramebuffer, Runs, Now
<1>3. (Subscribed(s) => Subscribed(s)') /\ ~Joins(s, Now) /\ ~Asks(s, Now)
  BY <1>1, <1>2 DEF Subscribed, Joins, Asks
<1>4. PICK called : /\ AllSteady(called) /\ Continue(called)
                    /\ Leads(s, Now) => \E k \in 1 .. Len(called) : Leads(s, called[k])
  <2>1. CASE EmmcReset
    <3>1. Leads(s, Now) => s = "emmc"
      BY <1>2, <2>1 DEF Leads, Announces
    <3> QED
      BY <2>1, <3>1, DriverReports
  <2>2. CASE InitFramebuffer
    <3>1. Leads(s, Now) => s = "display"
      BY <1>2, <2>2 DEF Leads, Announces
    <3> QED
      BY <2>2, <3>1, DriverReports
  <2> QED
    BY <2>1, <2>2
<1>5. Proper(called) /\ SaysNothing(s, called)
  BY <1>4, SteadyKeepsAnnounced DEF AllSteady, SaysNothing
<1> QED
  BY <1>1, <1>3, <1>4, <1>5, StartAside

\* All other statements have nothing to do with it.
LEMMA StepKinds ==
    ASSUME Step
    PROVE  \/ CallMain \/ Publish \/ Callback \/ Subscribes \/ EmmcReset \/ InitFramebuffer
           \/ /\ Steadily /\ UNCHANGED <<objects, subs>>
              /\ Now.do \notin {"main", "subscribe", "publish", "callback", "emmc reset",
                                "framebuffer"}
<1> DEFINE Kept == UNCHANGED <<objects, subs>>
           Other == Now.do \notin {"main", "subscribe", "publish", "callback", "emmc reset",
                                   "framebuffer"}
<1>1. AudioNext => Kept /\ Other
  BY DEF AudioNext, DacMute, DacVolume, SetClock, Stream, Runs, Now
<1>2. MemFsNext => Kept /\ Other
  BY DEF MemFsNext, AppendFile, RemoveFile, Runs, Now
<1>3. DisplayNext => InitFramebuffer \/ (Kept /\ Other)
  BY DEF DisplayNext, Clear, FillBar, Runs, Now
<1>4. BluetoothNext => Kept /\ Other
  BY DEF BluetoothNext, SetDongle, Runs, Now
<1>5. StorageNext => Kept /\ Other
  <2>1. StorageNext => Kept
    BY DEF StorageNext, Open, Decode, FreeBuffer, CloseFile, ListRoot
  <2>2. StorageNext => Other
    BY DEF StorageNext, Open, Decode, FreeBuffer, CloseFile, ListRoot, Runs, Now
  <2> QED
    BY <2>1, <2>2
<1>6. ProbesNext => EmmcReset
  BY DEF ProbesNext
<1> QED
  BY <1>1, <1>2, <1>3, <1>4, <1>5, <1>6, SteadyStep DEF Step

LEMMA StartOnStep ==
    ASSUME Shape, NEW s \in AutoServices, StartTold(s), Step
    PROVE  StartTold(s)'
<1>1. setup' = setup
  BY DEF Step, serviceVars, CallMain, Subscribes, Publish, Callback
<1>2. CASE Subscribes
  <2>1. ~Quiet /\ Now.do = "subscribe" /\ Continue(<<>>) /\ objects' = objects
    BY <1>2 DEF Subscribes, Runs, Now
  <2>2. (Subscribed(s) => Subscribed(s)') /\ (Joins(s, Now) => Subscribed(s)')
    BY <1>2, SubscribesCalls DEF Joins
  <2>3. ~Leads(s, Now) /\ ~Asks(s, Now)
    BY <2>1 DEF Leads, Announces, Asks
  <2>4. Proper(<<>>) /\ Len(<<>>) = 0
    BY ProperTuples
  <2>5. PICK called : Proper(called) /\ Continue(called) /\ SaysNothing(s, called)
    BY <2>1, <2>4 DEF SaysNothing
  <2> QED
    BY <1>1, <2>1, <2>2, <2>3, <2>5, StartAside
<1>3. CASE /\ Steadily /\ UNCHANGED <<objects, subs>>
           /\ Now.do \notin {"main", "subscribe", "publish", "callback", "emmc reset",
                             "framebuffer"}
  <2>1. (Subscribed(s) => Subscribed(s)') /\ ~Joins(s, Now) /\ ~Asks(s, Now) /\ ~Leads(s, Now)
    BY <1>3 DEF Subscribed, Joins, Asks, Leads, Announces
  <2>2. PICK called : AllSteady(called) /\ Continue(called)
    BY <1>3 DEF Steadily
  <2>3. Proper(called) /\ SaysNothing(s, called)
    BY <2>2, SteadyKeepsAnnounced DEF AllSteady, SaysNothing
  <2> QED
    BY <1>1, <1>3, <2>1, <2>2, <2>3, StartAside DEF Steadily
<1> QED
  BY <1>1, <1>2, <1>3, StepKinds, StartOnMain, StartOnPublish, StartOnCallback, StartOnDriver

LEMMA StartStep ==
    ASSUME Shape, NEW s \in AutoServices, StartTold(s), [Next]_vars
    PROVE  StartTold(s)'
<1>1. CASE Step
  BY <1>1, StartOnStep
<1>2. CASE Command \/ Plug \/ Unplug
  <2>1. /\ Quiet /\ UNCHANGED <<objects, setup>>
        /\ \E c : work' = <<c>> /\ Steady(c)
    BY <1>2, Arrivals
  <2>2. PICK c : work' = <<c>> /\ Steady(c)
    BY <2>1
  <2>3. Len(work) = 0
    BY <2>1, ProperFacts DEF Quiet, Shape
  <2>4. s \in Started => Announced(s)
    BY <2>3 DEF StartTold
  <2>5. (s \in Started)' = (s \in Started) /\ Announced(s)' = Announced(s)
    BY <2>1 DEF Started, Announced, AutoServices, Reads, Published
  <2>6. Len(work') = 1 /\ work'[1] = c /\ \A i \in 1 .. 1 : i = 1
    BY <2>2, OneStatement
  <2>7. \A i \in 1 .. Len(work') : ~Retracts(s, work'[i])
    BY <2>2, <2>6, SteadyKeepsAnnounced
  <2> QED
    BY <2>4, <2>5, <2>7 DEF StartTold
<1>3. CASE UNCHANGED vars \/ MapBuffer
  <2>1. UNCHANGED <<work, subs, objects, setup>>
    BY <1>3 DEF vars, MapBuffer, busVars
  <2>2. (s \in Started)' = (s \in Started) /\ Announced(s)' = Announced(s)
    BY <2>1 DEF Started, Announced, AutoServices, Reads, Published
  <2>3. \A i : StartsAt(s, work, i)' = StartsAt(s, work, i)
    BY <2>1 DEF StartsAt, Subscribed
  <2> QED
    BY <2>1, <2>2, <2>3 DEF StartTold
<1> QED
  BY <1>1, <1>2, <1>3 DEF Next

\* When the shell gets its first line every command a service gave itself at its
\* start (svc_main of emmcmgr, genetmgr, httpmgr, displaymgr and usbaudmgr) has
\* reached its handler, and what the handler reported still stands: whatever the
\* order of the entries in kernel_main.
THEOREM ServicesStartThemselves == Spec => []AutoStarted
<1> DEFINE AllTold == \A s \in AutoServices : StartTold(s)
<1>1. Init => AllTold
  <2> SUFFICES ASSUME Init, NEW s \in AutoServices PROVE StartTold(s)
    OBVIOUS
  <2>1. \A i \in 1 .. Len(work) : work[i].do = "main"
    BY StartsWithMains
  <2>2. \A i \in 1 .. Len(work) : ~Retracts(s, work[i])
    BY <2>1 DEF Retracts
  <2>3. s \in Started => \E i \in 1 .. Len(work) : StartsAt(s, work, i)
    BY <2>1, StartsWithMains DEF StartsAt, Leads
  <2> QED
    BY <2>2, <2>3 DEF StartTold
<1>2. Shape /\ AllTold /\ [Next]_vars => AllTold'
  BY StartStep
<1>3. Shape /\ AllTold => AutoStarted
  <2> SUFFICES ASSUME Shape, AllTold, Quiet PROVE AutoStarted
    BY DEF AutoStarted
  <2>1. Len(work) = 0
    BY ProperFacts DEF Quiet, Shape
  <2>2. \A s \in AutoServices : s \in Started => Announced(s)
    BY <2>1 DEF StartTold
  <2> QED
    BY <2>2 DEF AutoStarted, AutoServices, Announced
<1> HIDE DEF AllTold
<1> QED
  BY <1>1, <1>2, <1>3, ShapeHolds, PTL DEF Spec

-----------------------------------------------------------------------------
(***************************************************************************)
(* TrackStatusWhole.  What is still to be said of a track is said before   *)
(* anything can play another one, of one track, and title first.           *)
(***************************************************************************)
Rest == {"sample_rate", "channels"}

Tells(s, key) == s.do = "publish" /\ s.path = "audio/status" /\ s.key = key
TellsTrack(s) == \E key \in TrackKeys : Tells(s, key)

\* What an attribute of track t is, and a statement that says so.
Fact(key, t) == IF key = "sample_rate" THEN Card[t].rate ELSE t
Of(s, t)     == IF s.key = "title" THEN s.value.track = t ELSE s.value = Fact(s.key, t)

\* Statements that lead to a track's being played.
Plays(s) == \/ s.do \in {"open", "decode"}
            \/ s.do = "publish" /\ s.path = "cmd/play"
            \/ s.do = "callback" /\ s.n.path = "cmd/play"

\* The track whose title is shown, and whether its other attributes are.
TitleIs(t)    == Published("audio/status", "title") /\ objects[<<"audio/status", "title">>].track = t
Shown(key, t) == Reads("audio/status", key, Fact(key, t))

TrackTold ==
    /\ \A i \in 1 .. Len(work) : \A k \in i + 1 .. Len(work) :
          Plays(work[i]) => ~TellsTrack(work[k])
    /\ \E t : \A i \in 1 .. Len(work) : TellsTrack(work[i]) => Of(work[i], t)
    /\ \A i \in 1 .. Len(work) : \A key \in Rest :
          Tells(work[i], "title") => \E k \in i + 1 .. Len(work) : Tells(work[k], key)
    /\ \A i \in 1 .. Len(work) : \A key \in Rest :
          Tells(work[i], key) => \/ \E k \in 1 .. i - 1 : Tells(work[k], "title")
                                 \/ \E t : TitleIs(t) /\ Of(work[i], t)
    /\ \A t : \A key \in Rest :
          TitleIs(t) => Shown(key, t) \/ \E k \in 1 .. Len(work) : Tells(work[k], key)

\* A sequence of statements that says nothing of a track and plays none, and one
\* that says all of a track.
Plain(c) == Proper(c) /\ \A i \in 1 .. Len(c) : ~Plays(c[i]) /\ ~TellsTrack(c[i])

Coherent(c, t) ==
    /\ Proper(c)
    /\ \A i \in 1 .. Len(c) : ~Plays(c[i]) /\ (TellsTrack(c[i]) => Of(c[i], t))
    /\ \A i \in 1 .. Len(c) : \A key \in Rest :
          Tells(c[i], "title") => \E k \in i + 1 .. Len(c) : Tells(c[k], key)
    /\ \A i \in 1 .. Len(c) : \A key \in Rest :
          Tells(c[i], key) => \E k \in 1 .. i - 1 : Tells(c[k], "title")

LEMMA PlainStatements ==
    /\ \A c : AllAside(c) => Plain(c)
    /\ \A c : Ordinary(c) /\ AllTrackless(c) => Plain(c)
<1>1. \A s : Trackless(s) /\ s.do # "callback" => ~Plays(s) /\ ~TellsTrack(s)
  BY DEF Trackless, Plays, TellsTrack, Tells
<1>2. \A s : Steady(s) => s.do # "callback"
  BY DEF Steady, Harmless
<1> QED
  BY <1>1, <1>2 DEF AllAside, AllSteady, AllApart, Apart, AllTrackless, Ordinary, Plain

\* Where statements about tracks are after a step that calls plain ones.
LEMMA PlainPlaces ==
    ASSUME Shape, ~Quiet, NEW called, Plain(called), Continue(called)
    PROVE  /\ \A i \in 1 .. Len(work') :
                 Plays(work'[i]) \/ TellsTrack(work'[i]) =>
                     \E j \in 2 .. Len(work) : i = Len(called) + j - 1 /\ work'[i] = work[j]
           /\ \A j \in 2 .. Len(work) : /\ Len(called) + j - 1 \in 1 .. Len(work')
                                        /\ work'[Len(called) + j - 1] = work[j]
<1>1. /\ \A j \in 2 .. Len(work) : /\ Len(called) + j - 1 \in 1 .. Len(work')
                                   /\ work'[Len(called) + j - 1] = work[j]
      /\ \A i \in 1 .. Len(work') :
            \/ i \in 1 .. Len(called) /\ work'[i] = called[i]
            \/ \E j \in 2 .. Len(work) : i = Len(called) + j - 1 /\ work'[i] = work[j]
  BY Places DEF Shape, Plain
<1>2. \A i \in 1 .. Len(called) : ~Plays(called[i]) /\ ~TellsTrack(called[i])
  BY DEF Plain
<1>3. ASSUME NEW i \in 1 .. Len(work'), Plays(work'[i]) \/ TellsTrack(work'[i])
      PROVE  \E j \in 2 .. Len(work) : i = Len(called) + j - 1 /\ work'[i] = work[j]
  <2>1. ASSUME i \in 1 .. Len(called), work'[i] = called[i] PROVE FALSE
    BY <1>2, <1>3, <2>1
  <2> QED
    BY <1>1, <2>1
<1> QED
  BY <1>1, <1>3

\* The parts of TrackTold that look at the work alone are kept by such a step.
LEMMA TrackLeft ==
    ASSUME Shape, ~Quiet, TrackTold, NEW called, Plain(called), Continue(called)
    PROVE  /\ \A i \in 1 .. Len(work') : \A k \in i + 1 .. Len(work') :
                 Plays(work'[i]) => ~TellsTrack(work'[k])
           /\ \E t : \A i \in 1 .. Len(work') : TellsTrack(work'[i]) => Of(work'[i], t)
           /\ \A i \in 1 .. Len(work') : \A key \in Rest :
                 Tells(work'[i], "title") => \E k \in i + 1 .. Len(work') : Tells(work'[k], key)
<1> DEFINE m == Len(work)
           n == Len(called)
           l == Len(work')
           w == work'
<1>1. /\ \A i \in 1 .. l : Plays(w[i]) \/ TellsTrack(w[i]) =>
                               \E j \in 2 .. m : i = n + j - 1 /\ w[i] = work[j]
      /\ \A j \in 2 .. m : n + j - 1 \in 1 .. l /\ w[n + j - 1] = work[j]
  BY PlainPlaces
<1>2. m \in Nat /\ n \in Nat /\ l \in Nat
  <2>1. Proper(work')
    BY Continued DEF Shape, Plain
  <2> QED
    BY <2>1, ProperFacts DEF Shape, Plain
<1>3. /\ \A i \in 1 .. m : \A k \in i + 1 .. m : Plays(work[i]) => ~TellsTrack(work[k])
      /\ \E t : \A i \in 1 .. m : TellsTrack(work[i]) => Of(work[i], t)
      /\ \A i \in 1 .. m : \A key \in Rest :
            Tells(work[i], "title") => \E k \in i + 1 .. m : Tells(work[k], key)
  BY DEF TrackTold
<1>4. \A s : Tells(s, "title") => TellsTrack(s)
  BY DEF TellsTrack, TrackKeys
<1> HIDE DEF m, n, l, w
<1>5. ASSUME NEW i \in 1 .. l, NEW k \in i + 1 .. l, Plays(w[i]) PROVE ~TellsTrack(w[k])
  <2>1. SUFFICES ASSUME TellsTrack(w[k]) PROVE FALSE
    OBVIOUS
  <2>2. k \in 1 .. l
    BY <1>2
  <2>3. PICK j \in 2 .. m : i = n + j - 1 /\ w[i] = work[j]
    BY <1>1, <1>5
  <2>4. PICK h \in 2 .. m : k = n + h - 1 /\ w[k] = work[h]
    BY <1>1, <2>1, <2>2
  <2>5. j \in 1 .. m /\ h \in j + 1 .. m
    BY <1>2, <2>3, <2>4
  <2> QED
    BY <1>3, <1>5, <2>1, <2>3, <2>4, <2>5
<1>6. \E t : \A i \in 1 .. l : TellsTrack(w[i]) => Of(w[i], t)
  <2>1. PICK t : \A i \in 1 .. m : TellsTrack(work[i]) => Of(work[i], t)
    BY <1>3
  <2>2. ASSUME NEW i \in 1 .. l, TellsTrack(w[i]) PROVE Of(w[i], t)
    <3>1. PICK j \in 2 .. m : w[i] = work[j]
      BY <1>1, <2>2
    <3>2. j \in 1 .. m
      BY <1>2
    <3> QED
      BY <2>1, <2>2, <3>1, <3>2
  <2> QED
    BY <2>2
<1>7. ASSUME NEW i \in 1 .. l, NEW key \in Rest, Tells(w[i], "title")
      PROVE  \E k \in i + 1 .. l : Tells(w[k], key)
  <2>1. PICK j \in 2 .. m : i = n + j - 1 /\ w[i] = work[j]
    BY <1>1, <1>4, <1>7
  <2>2. j \in 1 .. m
    BY <1>2
  <2>3. PICK k \in j + 1 .. m : Tells(work[k], key)
    BY <1>3, <1>7, <2>1, <2>2
  <2>4. k \in 2 .. m /\ n + k - 1 > i
    BY <1>2, <2>1
  <2>5. n + k - 1 \in 1 .. l /\ w[n + k - 1] = work[k]
    BY <1>1, <2>4
  <2>6. n + k - 1 \in i + 1 .. l
    BY <1>2, <2>4, <2>5
  <2> QED
    BY <2>3, <2>5, <2>6
<1> QED
  BY <1>5, <1>6, <1>7 DEF w, l

\* A statement of another kind leaves all as it is.
LEMMA TrackAside ==
    ASSUME Shape, ~Quiet, TrackTold, ~TellsTrack(Now), NEW called, Plain(called), Continue(called),
           \A t : TitleIs(t)' <=> TitleIs(t),
           \A t : \A key \in Rest : Shown(key, t) => Shown(key, t)'
    PROVE  TrackTold'
<1>1. /\ \A i \in 1 .. Len(work') :
            TellsTrack(work'[i]) => \E j \in 2 .. Len(work) : /\ i = Len(called) + j - 1
                                                             /\ work'[i] = work[j]
      /\ \A j \in 2 .. Len(work) : /\ Len(called) + j - 1 \in 1 .. Len(work')
                                   /\ work'[Len(called) + j - 1] = work[j]
  BY PlainPlaces
<1>2. Len(work) \in Nat /\ Len(called) \in Nat /\ Now = work[1]
  BY Nowhere, ProperFacts DEF Plain
<1>3. \A s : \A key \in Rest \cup {"title"} : Tells(s, key) => TellsTrack(s)
  BY DEF TellsTrack, TrackKeys, Rest
<1>4. /\ \A i \in 1 .. Len(work) : \A key \in Rest :
            Tells(work[i], key) => \/ \E k \in 1 .. i - 1 : Tells(work[k], "title")
                                   \/ \E t : TitleIs(t) /\ Of(work[i], t)
      /\ \A t : \A key \in Rest :
            TitleIs(t) => Shown(key, t) \/ \E k \in 1 .. Len(work) : Tells(work[k], key)
  BY DEF TrackTold
<1>5. ASSUME NEW key \in Rest \cup {"title"}, NEW h \in Int, NEW k \in 1 .. h, h <= Len(work),
             Tells(work[k], key)
      PROVE  \E i \in 1 .. Len(called) + h - 1 : i \in 1 .. Len(work') /\ Tells(work'[i], key)
  <2>1. k # 1
    BY <1>2, <1>3, <1>5
  <2>2. k \in 2 .. Len(work)
    BY <1>2, <1>5, <2>1
  <2>3. Len(called) + k - 1 \in 1 .. Len(called) + h - 1
    BY <1>2, <2>2
  <2> QED
    BY <1>1, <1>5, <2>2, <2>3
<1>6. ASSUME NEW i \in 1 .. Len(work'), NEW key \in Rest, Tells(work'[i], key)
      PROVE  \/ \E k \in 1 .. i - 1 : Tells(work'[k], "title")
             \/ \E t : TitleIs(t)' /\ Of(work'[i], t)
  <2>1. PICK j \in 2 .. Len(work) : i = Len(called) + j - 1 /\ work'[i] = work[j]
    BY <1>1, <1>3, <1>6
  <2>2. j \in 1 .. Len(work)
    BY <1>2
  <2>3. ASSUME NEW k \in 1 .. j - 1, Tells(work[k], "title")
        PROVE  \E x \in 1 .. i - 1 : Tells(work'[x], "title")
    <3>1. j - 1 \in Int /\ j - 1 <= Len(work) /\ Len(called) + (j - 1) - 1 = i - 1
      BY <1>2, <2>1
    <3>2. \E x \in 1 .. Len(called) + (j - 1) - 1 : Tells(work'[x], "title")
      BY <1>5, <2>3, <3>1
    <3> QED
      BY <3>1, <3>2
  <2> QED
    BY <1>4, <1>6, <2>1, <2>2, <2>3
<1>7. ASSUME NEW t, NEW key \in Rest, TitleIs(t)'
      PROVE  Shown(key, t)' \/ \E k \in 1 .. Len(work') : Tells(work'[k], key)
  <2>1. Len(work) \in Int /\ Len(work) <= Len(work)
    BY <1>2
  <2> QED
    BY <1>4, <1>5, <1>7, <2>1
<1>8. /\ \A i \in 1 .. Len(work') : \A k \in i + 1 .. Len(work') :
            Plays(work'[i]) => ~TellsTrack(work'[k])
      /\ \E t : \A i \in 1 .. Len(work') : TellsTrack(work'[i]) => Of(work'[i], t)
      /\ \A i \in 1 .. Len(work') : \A key \in Rest :
            Tells(work'[i], "title") => \E k \in i + 1 .. Len(work') : Tells(work'[k], key)
  BY TrackLeft
<1> QED
  BY <1>6, <1>7, <1>8 DEF TrackTold

\* A statement that leads to a track's being played finds nothing left to say of
\* another one.
LEMMA TrackStarting ==
    ASSUME Shape, ~Quiet, TrackTold, Plays(Now), NEW called, Proper(called), Continue(called),
           (\A i \in 1 .. Len(called) : ~TellsTrack(called[i])) \/ \E t : Coherent(called, t),
           objects' = objects
    PROVE  TrackTold'
<1> DEFINE m == Len(work)
           n == Len(called)
           l == Len(work')
           w == work'
           Said(t)      == Published("audio/status", "title")
                              /\ objects[<<"audio/status", "title">>].track = t
           Seen(key, t) == Reads("audio/status", key, Fact(key, t))
<1>1. /\ \A i \in 1 .. n : i \in 1 .. l /\ w[i] = called[i]
      /\ \A i \in 1 .. l : \/ i \in 1 .. n /\ w[i] = called[i]
                           \/ \E j \in 2 .. m : i = n + j - 1 /\ w[i] = work[j]
  BY Places DEF Shape
<1>2. m \in Nat \ {0} /\ n \in Nat /\ l \in Nat /\ Now = work[1]
  <2>1. Proper(work')
    BY Continued DEF Shape
  <2> QED
    BY <2>1, Nowhere, ProperFacts
<1>3. /\ \A i \in 1 .. m : \A k \in i + 1 .. m : Plays(work[i]) => ~TellsTrack(work[k])
      /\ \A t : \A key \in Rest :
            Said(t) => Seen(key, t) \/ \E k \in 1 .. m : Tells(work[k], key)
  BY DEF TrackTold, TitleIs, Shown
<1>4. \A s : \A key \in Rest \cup {"title"} : Tells(s, key) => TellsTrack(s)
  BY DEF TellsTrack, TrackKeys, Rest
<1>5. \A j \in 2 .. m : ~TellsTrack(work[j])
  <2>1. 1 \in 1 .. m /\ 1 + 1 = 2
    BY <1>2
  <2> QED
    BY <1>2, <1>3, <2>1
<1>6. ~TellsTrack(Now)
  BY DEF TellsTrack, Tells, Plays, TrackKeys
<1>7. \A t : \A key \in Rest : Said(t) => Seen(key, t)
  <2>1. \A k \in 1 .. m : ~TellsTrack(work[k])
    <3>1. \A k \in 1 .. m : k = 1 \/ k \in 2 .. m
      BY <1>2
    <3> QED
      BY <1>2, <1>5, <1>6, <3>1
  <2> QED
    BY <1>3, <1>4, <2>1
<1>8. /\ \A t : TitleIs(t)' <=> Said(t)
      /\ \A t : \A key \in Rest : Shown(key, t)' <=> Seen(key, t)
  BY DEF TitleIs, Shown, Published, Reads
<1> HIDE DEF m, n, l, w, Said, Seen
<1>9. \A i \in 1 .. l : TellsTrack(w[i]) => i \in 1 .. n /\ w[i] = called[i]
  BY <1>1, <1>5
<1>10. CASE \A i \in 1 .. n : ~TellsTrack(called[i])
  <2>1. \A i \in 1 .. l : ~TellsTrack(w[i])
    BY <1>9, <1>10
  <2>2. \A i \in 1 .. l : \A k \in i + 1 .. l : k \in 1 .. l
    BY <1>2
  <2>3. \A i \in 1 .. l : \A k \in i + 1 .. l : Plays(w[i]) => ~TellsTrack(w[k])
    BY <2>1, <2>2
  <2>4. \E t : \A i \in 1 .. l : TellsTrack(w[i]) => Of(w[i], t)
    BY <2>1
  <2>5. \A i \in 1 .. l : \A key \in Rest \cup {"title"} : ~Tells(w[i], key)
    BY <1>4, <2>1
  <2>6. \A t : \A key \in Rest :
           TitleIs(t)' => Shown(key, t)' \/ \E k \in 1 .. l : Tells(w[k], key)
    BY <1>7, <1>8
  <2> QED
    BY <2>3, <2>4, <2>5, <2>6 DEF TrackTold, w, l
<1>11. ASSUME NEW t, Coherent(called, t) PROVE TrackTold'
  <2>1. /\ \A i \in 1 .. n : ~Plays(called[i]) /\ (TellsTrack(called[i]) => Of(called[i], t))
        /\ \A i \in 1 .. n : \A key \in Rest :
              Tells(called[i], "title") => \E k \in i + 1 .. n : Tells(called[k], key)
        /\ \A i \in 1 .. n : \A key \in Rest :
              Tells(called[i], key) => \E k \in 1 .. i - 1 : Tells(called[k], "title")
    BY <1>11 DEF Coherent, n
  <2>2. ASSUME NEW i \in 1 .. l, NEW k \in i + 1 .. l, Plays(w[i]) PROVE ~TellsTrack(w[k])
    <3>1. SUFFICES ASSUME TellsTrack(w[k]) PROVE FALSE
      OBVIOUS
    <3>2. k \in 1 .. l
      BY <1>2
    <3>3. k \in 1 .. n
      BY <1>9, <3>1, <3>2
    <3>4. i \in 1 .. n
      BY <1>2, <3>3
    <3> QED
      BY <1>1, <2>1, <2>2, <3>4
  <2>3. \E x : \A i \in 1 .. l : TellsTrack(w[i]) => Of(w[i], x)
    BY <1>9, <2>1
  <2>4. ASSUME NEW i \in 1 .. l, NEW key \in Rest, Tells(w[i], "title")
        PROVE  \E k \in i + 1 .. l : Tells(w[k], key)
    <3>1. i \in 1 .. n /\ w[i] = called[i]
      BY <1>4, <1>9, <2>4
    <3>2. PICK k \in i + 1 .. n : Tells(called[k], key)
      BY <2>1, <2>4, <3>1
    <3>3. k \in 1 .. n
      BY <1>2, <3>1
    <3>4. k \in 1 .. l /\ w[k] = called[k]
      BY <1>1, <3>3
    <3>5. k \in i + 1 .. l
      BY <1>2, <3>1, <3>2, <3>4
    <3> QED
      BY <3>2, <3>4, <3>5
  <2>5. ASSUME NEW i \in 1 .. l, NEW key \in Rest, Tells(w[i], key)
        PROVE  \E k \in 1 .. i - 1 : Tells(w[k], "title")
    <3>1. i \in 1 .. n /\ w[i] = called[i]
      BY <1>4, <1>9, <2>5
    <3>2. PICK k \in 1 .. i - 1 : Tells(called[k], "title")
      BY <2>1, <2>5, <3>1
    <3>3. k \in 1 .. n
      BY <1>2, <3>1
    <3> QED
      BY <1>1, <3>2, <3>3
  <2>6. \A x : \A key \in Rest :
           TitleIs(x)' => Shown(key, x)' \/ \E k \in 1 .. l : Tells(w[k], key)
    BY <1>7, <1>8
  <2> QED
    BY <2>2, <2>3, <2>4, <2>5, <2>6 DEF TrackTold, w, l
<1> QED
  BY <1>10, <1>11 DEF n

\* What publishing an attribute of a track does to what is shown.
LEMMA TrackAttribute ==
    ASSUME TellsTrack(Now), objects' = WithAttribute(Now)
    PROVE  /\ Tells(Now, "title") => \A t : TitleIs(t)' <=> Of(Now, t)
           /\ ~Tells(Now, "title") => \A t : TitleIs(t)' <=> TitleIs(t)
           /\ \A key \in Rest :
                 /\ Tells(Now, key) => \A t : Of(Now, t) => Shown(key, t)'
                 /\ ~Tells(Now, key) => \A t : Shown(key, t) => Shown(key, t)'
<1>1. /\ DOMAIN objects' = DOMAIN objects \cup {<<Now.path, Now.key>>}
      /\ objects'[<<Now.path, Now.key>>] = Now.value
      /\ \A x \in DOMAIN objects : x # <<Now.path, Now.key>> => objects'[x] = objects[x]
  BY DEF WithAttribute
<1>2. Now.path = "audio/status" /\ Now.key \in TrackKeys /\ Now.do = "publish"
  BY DEF TellsTrack, Tells
<1>3. \A key : Tells(Now, key) <=> Now.key = key
  BY <1>2 DEF Tells
<1>4. \A key : key # Now.key =>
         /\ <<"audio/status", key>> \in DOMAIN objects' <=> <<"audio/status", key>> \in DOMAIN objects
         /\ <<"audio/status", key>> \in DOMAIN objects =>
               objects'[<<"audio/status", key>>] = objects[<<"audio/status", key>>]
  BY <1>1, <1>2
<1>5. <<"audio/status", Now.key>> \in DOMAIN objects'
      /\ objects'[<<"audio/status", Now.key>>] = Now.value
  BY <1>1, <1>2
<1>6. ASSUME Tells(Now, "title"), NEW t PROVE TitleIs(t)' <=> Of(Now, t)
  BY <1>3, <1>5, <1>6 DEF TitleIs, Published, Of
<1>7. ASSUME ~Tells(Now, "title"), NEW t PROVE TitleIs(t)' <=> TitleIs(t)
  BY <1>3, <1>4, <1>7 DEF TitleIs, Published
<1>8. ASSUME NEW key \in Rest, Tells(Now, key), NEW t, Of(Now, t) PROVE Shown(key, t)'
  BY <1>3, <1>5, <1>8 DEF Shown, Reads, Published, Of, Rest
<1>9. ASSUME NEW key \in Rest, ~Tells(Now, key), NEW t, Shown(key, t) PROVE Shown(key, t)'
  BY <1>3, <1>4, <1>9 DEF Shown, Reads, Published
<1> QED
  BY <1>6, <1>7, <1>8, <1>9

LEMMA TrackPublished ==
    ASSUME Shape, ~Quiet, TrackTold, TellsTrack(Now), objects' = WithAttribute(Now),
           NEW called, Plain(called), Continue(called)
    PROVE  TrackTold'
<1>1. /\ \A i \in 1 .. Len(work') :
            TellsTrack(work'[i]) => \E j \in 2 .. Len(work) : /\ i = Len(called) + j - 1
                                                             /\ work'[i] = work[j]
      /\ \A j \in 2 .. Len(work) : /\ Len(called) + j - 1 \in 1 .. Len(work')
                                   /\ work'[Len(called) + j - 1] = work[j]
  BY PlainPlaces
<1>2. Len(work) \in Nat \ {0} /\ Len(called) \in Nat /\ Now = work[1] /\ 1 \in 1 .. Len(work)
  BY Nowhere, ProperFacts DEF Plain
<1>3. \A s : \A key \in Rest \cup {"title"} : Tells(s, key) => TellsTrack(s) /\ s.key = key
  BY DEF TellsTrack, Tells, TrackKeys, Rest
<1>4. /\ \A i \in 1 .. Len(work) : \A key \in Rest :
            Tells(work[i], "title") => \E k \in i + 1 .. Len(work) : Tells(work[k], key)
      /\ \A i \in 1 .. Len(work) : \A key \in Rest :
            Tells(work[i], key) => \/ \E k \in 1 .. i - 1 : Tells(work[k], "title")
                                   \/ \E t : TitleIs(t) /\ Of(work[i], t)
      /\ \A t : \A key \in Rest :
            TitleIs(t) => Shown(key, t) \/ \E k \in 1 .. Len(work) : Tells(work[k], key)
  BY DEF TrackTold
<1>5. PICK track : \A i \in 1 .. Len(work) : TellsTrack(work[i]) => Of(work[i], track)
  BY DEF TrackTold
<1>6. ASSUME NEW i \in 1 .. Len(work'), NEW key \in Rest, Tells(work'[i], key)
      PROVE  \/ \E k \in 1 .. i - 1 : Tells(work'[k], "title")
             \/ \E t : TitleIs(t)' /\ Of(work'[i], t)
  <2>1. PICK j \in 2 .. Len(work) : i = Len(called) + j - 1 /\ work'[i] = work[j]
    BY <1>1, <1>3, <1>6
  <2>2. j \in 1 .. Len(work)
    BY <1>2
  <2>3. CASE Tells(Now, "title")
    <3>1. Of(Now, track) /\ Of(work[j], track)
      BY <1>2, <1>3, <1>5, <1>6, <2>1, <2>2, <2>3
    <3> QED
      BY <2>1, <2>3, <3>1, TrackAttribute
  <2>4. CASE ~Tells(Now, "title")
    <3>1. ASSUME NEW k \in 1 .. j - 1, Tells(work[k], "title")
          PROVE  \E x \in 1 .. i - 1 : Tells(work'[x], "title")
      <4>1. k # 1
        BY <1>2, <2>4, <3>1
      <4>2. k \in 2 .. Len(work) /\ Len(called) + k - 1 \in 1 .. i - 1
        BY <1>2, <2>1, <4>1
      <4> QED
        BY <1>1, <3>1, <4>2
    <3>2. \A t : TitleIs(t)' <=> TitleIs(t)
      BY <2>4, TrackAttribute
    <3> QED
      BY <1>4, <1>6, <2>1, <2>2, <3>1, <3>2
  <2> QED
    BY <2>3, <2>4
<1>7. ASSUME NEW t, NEW key \in Rest, TitleIs(t)'
      PROVE  Shown(key, t)' \/ \E k \in 1 .. Len(work') : Tells(work'[k], key)
  <2>1. ASSUME NEW k \in 1 .. Len(work), k # 1, Tells(work[k], key)
        PROVE  \E x \in 1 .. Len(work') : Tells(work'[x], key)
    <3>1. k \in 2 .. Len(work)
      BY <1>2, <2>1
    <3> QED
      BY <1>1, <2>1, <3>1
  <2>2. CASE Tells(Now, "title")
    <3>1. PICK k \in 1 + 1 .. Len(work) : Tells(work[k], key)
      BY <1>2, <1>4, <2>2
    <3>2. k \in 1 .. Len(work) /\ k # 1
      BY <1>2
    <3> QED
      BY <2>1, <3>1, <3>2
  <2>3. CASE ~Tells(Now, "title")
    <3>1. TitleIs(t)
      BY <1>7, <2>3, TrackAttribute
    <3>2. CASE Tells(Now, key)
      <4>1. \A k \in 1 .. 1 - 1 : FALSE
        OBVIOUS
      <4>2. PICK u : TitleIs(u) /\ Of(Now, u)
        BY <1>2, <1>4, <3>2, <4>1
      <4>3. u = t
        BY <3>1, <4>2 DEF TitleIs
      <4> QED
        BY <3>2, <4>2, <4>3, TrackAttribute
    <3>3. CASE ~Tells(Now, key)
      <4>1. CASE Shown(key, t)
        BY <3>3, <4>1, TrackAttribute
      <4>2. ASSUME NEW k \in 1 .. Len(work), Tells(work[k], key)
            PROVE  \E x \in 1 .. Len(work') : Tells(work'[x], key)
        <5>1. k # 1
          BY <1>2, <3>3, <4>2
        <5> QED
          BY <2>1, <4>2, <5>1
      <4> QED
        BY <1>4, <3>1, <4>1, <4>2
    <3> QED
      BY <3>2, <3>3
  <2> QED
    BY <2>2, <2>3
<1>8. /\ \A i \in 1 .. Len(work') : \A k \in i + 1 .. Len(work') :
            Plays(work'[i]) => ~TellsTrack(work'[k])
      /\ \E t : \A i \in 1 .. Len(work') : TellsTrack(work'[i]) => Of(work'[i], t)
      /\ \A i \in 1 .. Len(work') : \A key \in Rest :
            Tells(work'[i], "title") => \E k \in i + 1 .. Len(work') : Tells(work'[k], key)
  BY TrackLeft
<1> QED
  BY <1>6, <1>7, <1>8 DEF TrackTold

\* What play says of a track: a tuple, or one behind its tags.
LEMMA CoherentConcat ==
    ASSUME NEW t, NEW c, NEW d, Coherent(c, t), Plain(d)
    PROVE  Coherent(c \o d, t)
<1> DEFINE m == Len(c)
           n == Len(d)
           u == c \o d
<1>1. /\ Proper(u) /\ Len(u) = m + n
      /\ \A i \in 1 .. m : u[i] = c[i]
      /\ \A i \in 1 .. n : u[m + i] = d[i]
  BY ProperConcat DEF Coherent, Plain
<1>2. m \in Nat /\ n \in Nat
  BY ProperFacts DEF Coherent, Plain
<1>3. /\ \A i \in 1 .. m : ~Plays(c[i]) /\ (TellsTrack(c[i]) => Of(c[i], t))
      /\ \A i \in 1 .. m : \A key \in Rest :
            Tells(c[i], "title") => \E k \in i + 1 .. m : Tells(c[k], key)
      /\ \A i \in 1 .. m : \A key \in Rest :
            Tells(c[i], key) => \E k \in 1 .. i - 1 : Tells(c[k], "title")
      /\ \A i \in 1 .. n : ~Plays(d[i]) /\ ~TellsTrack(d[i])
  BY DEF Coherent, Plain
<1>4. \A s : \A key \in Rest \cup {"title"} : Tells(s, key) => TellsTrack(s)
  BY DEF TellsTrack, TrackKeys, Rest
<1> HIDE DEF m, n, u
<1>5. ASSUME NEW i \in 1 .. Len(u), i \notin 1 .. m PROVE ~Plays(u[i]) /\ ~TellsTrack(u[i])
  <2>1. i - m \in 1 .. n /\ m + (i - m) = i
    BY <1>1, <1>2, <1>5
  <2> QED
    BY <1>1, <1>3, <2>1
<1>6. \A i \in 1 .. Len(u) : ~Plays(u[i]) /\ (TellsTrack(u[i]) => Of(u[i], t))
  BY <1>1, <1>3, <1>5
<1>7. ASSUME NEW i \in 1 .. Len(u), NEW key \in Rest, Tells(u[i], "title")
      PROVE  \E k \in i + 1 .. Len(u) : Tells(u[k], key)
  <2>1. i \in 1 .. m
    BY <1>4, <1>5, <1>7
  <2>2. PICK k \in i + 1 .. m : Tells(c[k], key)
    BY <1>1, <1>3, <1>7, <2>1
  <2>3. k \in 1 .. m /\ k \in i + 1 .. Len(u)
    BY <1>1, <1>2, <2>1
  <2> QED
    BY <1>1, <2>2, <2>3
<1>8. ASSUME NEW i \in 1 .. Len(u), NEW key \in Rest, Tells(u[i], key)
      PROVE  \E k \in 1 .. i - 1 : Tells(u[k], "title")
  <2>1. i \in 1 .. m
    BY <1>4, <1>5, <1>8
  <2>2. PICK k \in 1 .. i - 1 : Tells(c[k], "title")
    BY <1>1, <1>3, <1>8, <2>1
  <2>3. k \in 1 .. m
    BY <1>2, <2>1
  <2> QED
    BY <1>1, <2>2, <2>3
<1>9. Coherent(u, t)
  BY <1>1, <1>6, <1>7, <1>8 DEF Coherent
<1> QED
  BY <1>9 DEF u

\* Titles in front of what says all of the track.
Titled(c, t) == /\ Proper(c)
                /\ \A i \in 1 .. Len(c) : /\ ~Plays(c[i])
                                          /\ TellsTrack(c[i]) => Tells(c[i], "title") /\ Of(c[i], t)

Complete(c, t) == /\ Coherent(c, t)
                  /\ \A key \in Rest : \E k \in 1 .. Len(c) : Tells(c[k], key)

LEMMA CompleteConcat ==
    ASSUME NEW t, NEW c, NEW d, Titled(c, t), Complete(d, t)
    PROVE  Complete(c \o d, t)
<1> DEFINE m == Len(c)
           n == Len(d)
           u == c \o d
<1>1. /\ Proper(u) /\ Len(u) = m + n
      /\ \A i \in 1 .. m : u[i] = c[i]
      /\ \A i \in 1 .. n : u[m + i] = d[i]
  BY ProperConcat DEF Titled, Complete, Coherent
<1>2. m \in Nat /\ n \in Nat
  BY ProperFacts DEF Titled, Complete, Coherent
<1>3. /\ \A i \in 1 .. n : ~Plays(d[i]) /\ (TellsTrack(d[i]) => Of(d[i], t))
      /\ \A i \in 1 .. n : \A key \in Rest :
            Tells(d[i], "title") => \E k \in i + 1 .. n : Tells(d[k], key)
      /\ \A i \in 1 .. n : \A key \in Rest :
            Tells(d[i], key) => \E k \in 1 .. i - 1 : Tells(d[k], "title")
      /\ \A key \in Rest : \E k \in 1 .. n : Tells(d[k], key)
      /\ \A i \in 1 .. m : /\ ~Plays(c[i])
                           /\ TellsTrack(c[i]) => Tells(c[i], "title") /\ Of(c[i], t)
  BY DEF Titled, Complete, Coherent
<1>4. \A s : \A key \in Rest : Tells(s, key) => TellsTrack(s) /\ ~Tells(s, "title")
  BY DEF TellsTrack, Tells, TrackKeys, Rest
<1> HIDE DEF m, n, u
<1>5. \A i \in 1 .. Len(u) : i \notin 1 .. m => i - m \in 1 .. n /\ u[i] = d[i - m]
  <2> TAKE i \in 1 .. Len(u)
  <2> HAVE i \notin 1 .. m
  <2>1. i - m \in 1 .. n /\ m + (i - m) = i
    BY <1>1, <1>2
  <2> QED
    BY <1>1, <2>1
<1>6. \A i \in 1 .. n : m + i \in 1 .. Len(u)
  BY <1>1, <1>2
<1>7. \A i \in 1 .. Len(u) : ~Plays(u[i]) /\ (TellsTrack(u[i]) => Of(u[i], t))
  BY <1>1, <1>3, <1>5
<1>8. ASSUME NEW i \in 1 .. Len(u), NEW key \in Rest, Tells(u[i], "title")
      PROVE  \E k \in i + 1 .. Len(u) : Tells(u[k], key)
  <2>1. CASE i \in 1 .. m
    <3>1. PICK k \in 1 .. n : Tells(d[k], key)
      BY <1>3
    <3>2. m + k \in i + 1 .. Len(u)
      BY <1>2, <1>6, <2>1
    <3> QED
      BY <1>1, <3>1, <3>2
  <2>2. CASE i \notin 1 .. m
    <3>1. i - m \in 1 .. n /\ u[i] = d[i - m]
      BY <1>5, <2>2
    <3>2. PICK k \in (i - m) + 1 .. n : Tells(d[k], key)
      BY <1>3, <1>8, <3>1
    <3>3. k \in 1 .. n
      BY <1>2, <3>1
    <3>4. m + k \in i + 1 .. Len(u)
      BY <1>2, <1>6, <3>1, <3>3
    <3> QED
      BY <1>1, <3>2, <3>3, <3>4
  <2> QED
    BY <2>1, <2>2
<1>9. ASSUME NEW i \in 1 .. Len(u), NEW key \in Rest, Tells(u[i], key)
      PROVE  \E k \in 1 .. i - 1 : Tells(u[k], "title")
  <2>1. i \notin 1 .. m
    BY <1>1, <1>3, <1>4, <1>9
  <2>2. i - m \in 1 .. n /\ u[i] = d[i - m]
    BY <1>5, <2>1
  <2>3. PICK k \in 1 .. (i - m) - 1 : Tells(d[k], "title")
    BY <1>3, <1>9, <2>2
  <2>4. k \in 1 .. n /\ m + k \in 1 .. i - 1
    BY <1>2, <2>2
  <2> QED
    BY <1>1, <2>3, <2>4
<1>10. \A key \in Rest : \E k \in 1 .. Len(u) : Tells(u[k], key)
  BY <1>1, <1>3, <1>6
<1>11. Complete(u, t)
  BY <1>1, <1>7, <1>8, <1>9, <1>10 DEF Complete, Coherent
<1> QED
  BY <1>11 DEF u

\* A tuple whose first statement is the title says all of the track.
LEMMA CompleteTuple ==
    ASSUME NEW t, NEW c, Proper(c), 1 \in 1 .. Len(c), Tells(c[1], "title"),
           \A i \in 1 .. Len(c) : ~Plays(c[i]) /\ (TellsTrack(c[i]) => Of(c[i], t)),
           \A i \in 2 .. Len(c) : ~Tells(c[i], "title"),
           \A key \in Rest : \E k \in 2 .. Len(c) : Tells(c[k], key)
    PROVE  Complete(c, t)
<1>1. Len(c) \in Nat
  BY ProperFacts
<1>2. ASSUME NEW i \in 1 .. Len(c), NEW key \in Rest, Tells(c[i], "title")
      PROVE  \E k \in i + 1 .. Len(c) : Tells(c[k], key)
  <2>1. i = 1
    <3>1. i = 1 \/ i \in 2 .. Len(c)
      BY <1>1
    <3> QED
      BY <1>2, <3>1
  <2>2. i + 1 = 2
    BY <2>1
  <2> QED
    BY <2>2
<1>3. ASSUME NEW i \in 1 .. Len(c), NEW key \in Rest, Tells(c[i], key)
      PROVE  \E k \in 1 .. i - 1 : Tells(c[k], "title")
  <2>1. i # 1
    BY <1>3 DEF Tells, Rest
  <2>2. 1 \in 1 .. i - 1
    BY <1>1, <2>1
  <2> QED
    BY <2>2
<1>4. \A key \in Rest : \E k \in 1 .. Len(c) : Tells(c[k], key)
  <2>1. \A k \in 2 .. Len(c) : k \in 1 .. Len(c)
    BY <1>1
  <2> QED
    BY <2>1
<1> QED
  BY <1>2, <1>3, <1>4 DEF Complete, Coherent

\* The single statements.
SaidOf(s, t) == ~Plays(s) /\ (TellsTrack(s) => Of(s, t))
Silent(s)    == ~Plays(s) /\ ~TellsTrack(s)

LEMMA TrackSentences ==
    ASSUME NEW name
    PROVE  /\ \A from : LET s == TrackStatus("title", [track |-> name, from |-> from])
                        IN  Tells(s, "title") /\ SaidOf(s, name)
           /\ LET s == TrackStatus("sample_rate", Card[name].rate)
              IN  Tells(s, "sample_rate") /\ ~Tells(s, "title") /\ SaidOf(s, name)
           /\ LET s == TrackStatus("channels", name)
              IN  Tells(s, "channels") /\ ~Tells(s, "title") /\ SaidOf(s, name)
<1>1. ASSUME NEW key, NEW value
      PROVE  LET s == TrackStatus(key, value)
             IN  /\ \A k : Tells(s, k) <=> k = key
                 /\ ~Plays(s)
                 /\ Of(s, name) <=> IF key = "title" THEN value.track = name
                                    ELSE value = Fact(key, name)
  BY DEF TrackStatus, Pub, Tells, Plays, Of
<1>2. ASSUME NEW from
      PROVE  LET s == TrackStatus("title", [track |-> name, from |-> from])
             IN  Tells(s, "title") /\ SaidOf(s, name)
  BY <1>1 DEF SaidOf
<1> QED
  BY <1>1, <1>2 DEF SaidOf, Fact

LEMMA SilentSentences ==
    /\ \A key, value : key \notin TrackKeys => Silent(TrackStatus(key, value))
    /\ \A key, value : Silent(StorageStatus(key, value))
    /\ \A name, bytes : Silent(StoreBuffer(name, bytes))
    /\ \A x : Silent([do |-> "free", buffer |-> x])
    /\ Silent(Close)
    /\ \A s, t : Silent(s) => SaidOf(s, t) /\ ~Tells(s, "title")
<1>1. /\ \A key, value : key \notin TrackKeys => Silent(TrackStatus(key, value))
      /\ \A key, value : Silent(StorageStatus(key, value))
      /\ \A name, bytes : Silent(StoreBuffer(name, bytes))
  BY DEF Silent, Plays, TellsTrack, Tells, TrackStatus, StorageStatus, StoreBuffer, Pub, TrackKeys
<1>2. (\A x : Silent([do |-> "free", buffer |-> x])) /\ Silent(Close)
  BY DEF Silent, Plays, TellsTrack, Tells, Close
<1>3. \A s, t : Silent(s) => SaidOf(s, t) /\ ~Tells(s, "title")
  BY DEF Silent, SaidOf, TellsTrack, TrackKeys
<1> QED
  BY <1>1, <1>2, <1>3

LEMMA PlainTuples ==
    /\ Plain(<<>>)
    /\ \A a : Silent(a) => Plain(<<a>>)
    /\ \A a, b : Silent(a) /\ Silent(b) => Plain(<<a, b>>)
BY ProperTuples DEF Plain, Silent

\* publish_pcm says all of the track, whatever is decoded.
LEMMA PcmIsComplete ==
    ASSUME NEW name
    PROVE  Complete(PublishPcm(name, TRUE), name)
<1> DEFINE title == TrackStatus("title", [track |-> name, from |-> "file name"])
           rate == TrackStatus("sample_rate", Card[name].rate)
           channels == TrackStatus("channels", name)
           store == StoreBuffer(name, Card[name].bytes)
           state == StorageStatus("state", "decoded")
           c == <<title, rate, channels, store, state>>
<1>1. /\ Tells(title, "title") /\ SaidOf(title, name)
      /\ Tells(rate, "sample_rate") /\ ~Tells(rate, "title") /\ SaidOf(rate, name)
      /\ Tells(channels, "channels") /\ ~Tells(channels, "title") /\ SaidOf(channels, name)
  BY TrackSentences
<1>2. /\ SaidOf(store, name) /\ ~Tells(store, "title")
      /\ SaidOf(state, name) /\ ~Tells(state, "title")
  BY SilentSentences
<1>3. PublishPcm(name, TRUE) = c
  BY DEF PublishPcm
<1> HIDE DEF title, rate, channels, store, state
<1>4. /\ Proper(c) /\ Len(c) = 5
      /\ c[1] = title /\ c[2] = rate /\ c[3] = channels /\ c[4] = store /\ c[5] = state
  BY ProperTuples
<1> HIDE DEF c
<1>5. /\ 1 \in 1 .. Len(c) /\ 2 \in 2 .. Len(c) /\ 3 \in 2 .. Len(c)
      /\ \A i \in 2 .. Len(c) : i = 2 \/ i = 3 \/ i = 4 \/ i = 5
      /\ \A i \in 1 .. Len(c) : i = 1 \/ i = 2 \/ i = 3 \/ i = 4 \/ i = 5
  BY <1>4
<1>6. \A i \in 2 .. Len(c) : ~Tells(c[i], "title")
  BY <1>1, <1>2, <1>4, <1>5, Zenon
<1>7. \A i \in 1 .. Len(c) : SaidOf(c[i], name)
  BY <1>1, <1>2, <1>4, <1>5, Zenon
<1>8. \A key \in Rest : \E k \in 2 .. Len(c) : Tells(c[k], key)
  BY <1>1, <1>4, <1>5, Zenon DEF Rest
<1>9. Complete(c, name)
  BY <1>1, <1>4, <1>5, <1>6, <1>7, <1>8, CompleteTuple DEF SaidOf
<1> QED
  BY <1>3, <1>9

\* publish_meta says titles of the same track only.
LEMMA MetaIsTitled ==
    ASSUME NEW name
    PROVE  Titled(PublishMeta(name), name)
<1> DEFINE a == IF Card[name].artist THEN <<TrackStatus("artist", name)>> ELSE <<>>
           title == TrackStatus("title", [track |-> name,
                                          from |-> IF Card[name].titled THEN "tag" ELSE "file name"])
           c == IF Card[name].cover THEN <<StoreBuffer(CoverName, 1), TrackStatus("cover", "true")>>
                ELSE <<>>
<1>1. Tells(title, "title") /\ SaidOf(title, name)
  BY TrackSentences
<1>2. Plain(a) /\ Plain(c)
  <2>1. /\ Silent(TrackStatus("artist", name)) /\ Silent(TrackStatus("cover", "true"))
        /\ Silent(StoreBuffer(CoverName, 1))
    BY SilentSentences DEF TrackKeys
  <2> QED
    BY <2>1, PlainTuples
<1>3. PublishMeta(name) = a \o <<title>> \o c
  BY DEF PublishMeta
<1> HIDE DEF a, title, c
<1>4. \A d : Plain(d) => Titled(d, name)
  BY DEF Plain, Titled
<1>5. Titled(<<title>>, name)
  <2>1. Proper(<<title>>) /\ Len(<<title>>) = 1 /\ <<title>>[1] = title
    BY OneStatement
  <2>2. \A i \in 1 .. 1 : i = 1
    OBVIOUS
  <2> QED
    BY <1>1, <2>1, <2>2 DEF Titled, SaidOf
<1>6. \A d, e : Titled(d, name) /\ Titled(e, name) => Titled(d \o e, name)
  BY ConcatElements DEF Titled
<1> QED
  BY <1>2, <1>3, <1>4, <1>5, <1>6

\* A DSD file says all of the track too, between other attributes.
LEMMA DsdIsComplete ==
    ASSUME NEW name
    PROVE  Complete(<<TrackStatus("title", [track |-> name, from |-> "file name"]),
                      TrackStatus("format", "DoP"),
                      TrackStatus("sample_rate", Card[name].rate),
                      TrackStatus("channels", name),
                      TrackStatus("bits_per_sample", "DSD/1-bit"),
                      StoreBuffer(name, Card[name].bytes),
                      StorageStatus("state", "decoded (DoP)"),
                      [do |-> "free", buffer |-> "packed"]>>, name)
<1> DEFINE title == TrackStatus("title", [track |-> name, from |-> "file name"])
           format == TrackStatus("format", "DoP")
           rate == TrackStatus("sample_rate", Card[name].rate)
           channels == TrackStatus("channels", name)
           bits == TrackStatus("bits_per_sample", "DSD/1-bit")
           store == StoreBuffer(name, Card[name].bytes)
           state == StorageStatus("state", "decoded (DoP)")
           free == [do |-> "free", buffer |-> "packed"]
           c == <<title, format, rate, channels, bits, store, state, free>>
<1>1. /\ Tells(title, "title") /\ SaidOf(title, name)
      /\ Tells(rate, "sample_rate") /\ ~Tells(rate, "title") /\ SaidOf(rate, name)
      /\ Tells(channels, "channels") /\ ~Tells(channels, "title") /\ SaidOf(channels, name)
  BY TrackSentences
<1>2. \A s \in {format, bits, store, state, free} : SaidOf(s, name) /\ ~Tells(s, "title")
  <2>1. Silent(format) /\ Silent(bits)
    BY SilentSentences DEF TrackKeys
  <2>2. Silent(store) /\ Silent(state) /\ Silent(free)
    BY SilentSentences
  <2> HIDE DEF format, bits, store, state, free
  <2> QED
    BY <2>1, <2>2, SilentSentences
<1> HIDE DEF title, format, rate, channels, bits, store, state, free
<1>3. c \in Seq({title, format, rate, channels, bits, store, state, free})
  OBVIOUS
<1>4. /\ Len(c) = 8
      /\ c[1] = title /\ c[2] = format /\ c[3] = rate /\ c[4] = channels
      /\ c[5] = bits /\ c[6] = store /\ c[7] = state /\ c[8] = free
  OBVIOUS
<1>5. Proper(c)
  BY <1>3, ProperIntro
<1> SUFFICES Complete(c, name)
  BY DEF title, format, rate, channels, bits, store, state, free
<1> HIDE DEF c
<1>6. /\ 1 \in 1 .. Len(c) /\ 3 \in 2 .. Len(c) /\ 4 \in 2 .. Len(c)
      /\ \A i \in 2 .. Len(c) : i \in {2, 3, 4, 5, 6, 7, 8}
      /\ \A i \in 1 .. Len(c) : i = 1 \/ i \in 2 .. Len(c)
  BY <1>4
<1>7. \A i \in 2 .. Len(c) : ~Tells(c[i], "title") /\ SaidOf(c[i], name)
  <2>1. \A i \in {2, 3, 4, 5, 6, 7, 8} :
            c[i] \in {format, bits, store, state, free} \/ c[i] = rate \/ c[i] = channels
    BY <1>4
  <2> QED
    BY <1>1, <1>2, <1>6, <2>1, Zenon
<1>8. \A i \in 1 .. Len(c) : SaidOf(c[i], name)
  BY <1>1, <1>4, <1>6, <1>7
<1>9. \A key \in Rest : \E k \in 2 .. Len(c) : Tells(c[k], key)
  BY <1>1, <1>4, <1>6, Zenon DEF Rest
<1> QED
  BY <1>1, <1>4, <1>5, <1>6, <1>7, <1>8, <1>9, CompleteTuple DEF SaidOf

\* In the target build every decoder says all of its track or nothing of it.
LEMMA DecodeTells ==
    ASSUME Decode, build # "host"
    PROVE  \E called : Continue(called) /\ (Plain(called) \/ \E t : Coherent(called, t))
<1>1. Allocs = {TRUE}
  BY DEF Allocs
<1>2. Plain(<<Close>>) /\ Plain(<<>>)
  BY PlainTuples, SilentSentences
<1>3. ASSUME NEW name, DecodeFlac(name) \/ DecodeWhole(name)
      PROVE  \E called : Continue(called) /\ (Plain(called) \/ Coherent(called, name))
  <2>1. Coherent(PublishPcm(name, TRUE) \o <<Close>>, name)
    BY <1>2, PcmIsComplete, CoherentConcat DEF Complete
  <2>2. Coherent(PublishMeta(name) \o PublishPcm(name, TRUE) \o <<Close>>, name)
    <3>1. Complete(PublishMeta(name) \o PublishPcm(name, TRUE), name)
      BY PcmIsComplete, MetaIsTitled, CompleteConcat
    <3> QED
      BY <1>2, <3>1, CoherentConcat DEF Complete
  <2> QED
    BY <1>1, <1>2, <1>3, <2>1, <2>2 DEF DecodeFlac, DecodeWhole
<1>4. ASSUME NEW name, DecodeDsd(name) \/ NotDecoded(name)
      PROVE  \E called : Continue(called) /\ (Plain(called) \/ Coherent(called, name))
  <2> DEFINE error(x) == StorageStatus("error", x)
             statuses == <<TrackStatus("title", [track |-> name, from |-> "file name"]),
                           TrackStatus("format", "DoP"),
                           TrackStatus("sample_rate", Card[name].rate),
                           TrackStatus("channels", name),
                           TrackStatus("bits_per_sample", "DSD/1-bit"),
                           StoreBuffer(name, Card[name].bytes),
                           StorageStatus("state", "decoded (DoP)"),
                           [do |-> "free", buffer |-> "packed"]>>
             freed == <<[do |-> "free", buffer |-> "raw"]>>
  <2>1. (\A x : Plain(<<error(x), Close>>)) /\ Plain(freed)
    BY PlainTuples, SilentSentences
  <2>2. Coherent(statuses, name)
    BY DsdIsComplete DEF Complete
  <2>3. \/ \E x : Continue(<<error(x), Close>>)
        \/ Continue(statuses \o freed \o <<Close>>)
    BY <1>1, <1>4 DEF DecodeDsd, NotDecoded
  <2> HIDE DEF error, statuses, freed
  <2>4. Coherent(statuses \o freed \o <<Close>>, name)
    BY <1>2, <2>1, <2>2, CoherentConcat
  <2> QED
    BY <2>1, <2>3, <2>4 DEF error
<1> QED
  BY <1>3, <1>4 DEF Decode

LEMMA OpenTells ==
    ASSUME Open
    PROVE  \E called : /\ Proper(called) /\ Continue(called)
                       /\ \A i \in 1 .. Len(called) : ~TellsTrack(called[i])
<1> DEFINE f == TrackStatus("format", Card[Now.track].fmt)
           m == TrackStatus("magic", Card[Now.track].fmt)
           d == [do |-> "decode", track |-> Now.track]
           e == StorageStatus("error", "file not found")
<1>1. ~TellsTrack(f) /\ ~TellsTrack(m) /\ ~TellsTrack(d) /\ ~TellsTrack(e)
  <2>1. Silent(f) /\ Silent(m) /\ Silent(e)
    BY SilentSentences DEF TrackKeys
  <2>2. ~TellsTrack(d)
    BY DEF TellsTrack, Tells
  <2> QED
    BY <2>1, <2>2 DEF Silent
<1>2. Continue(<<f, m, d>>) \/ Continue(<<e>>)
  BY DEF Open
<1> HIDE DEF f, m, d, e
<1>3. /\ Proper(<<f, m, d>>) /\ \A i \in 1 .. Len(<<f, m, d>>) : ~TellsTrack(<<f, m, d>>[i])
      /\ Proper(<<e>>) /\ \A i \in 1 .. Len(<<e>>) : ~TellsTrack(<<e>>[i])
  BY <1>1, ProperTuples
<1> QED
  BY <1>2, <1>3

\* Only storagemgr's play leads to a track's being played, and nobody's callback
\* subscribes storagemgr.
LEMMA ReportsApart ==
    /\ \A n : AllApart(GenetHandles(n)) /\ AllApart(HttpHandles(n))
    /\ AllApart(HttpMain)
    /\ \A c : Mutes(c) \/ Tune(c) => AllApart(c)
    /\ AllApart(<<Framebuffer>>)
    /\ \A n : AllApart(ShowPlaying(n))
<1>1. /\ \A key, value : Apart(Pub("net/status", key, value)) /\ Apart(Pub("http/status", key, value))
      /\ Apart(Subscribe("http")) /\ Apart(Pub("cmd/httpstart", "value", 1))
  BY DEF Apart, Trackless, Fileless, Pub, Subscribe
<1>2. \A n : AllApart(GenetHandles(n)) /\ AllApart(HttpHandles(n))
  BY <1>1, ApartTuples, Zenon DEF GenetHandles, HttpHandles
<1>3. AllApart(HttpMain)
  <2>1. ASSUME NEW port
        PROVE  AllApart(<<Pub("http/status", "state", "init"), Pub("http/status", "port", port),
                          Subscribe("http"), Pub("cmd/httpstart", "value", 1)>>)
    BY <1>1, ApartTuples, Zenon
  <2> QED
    BY <2>1 DEF HttpMain
<1>4. ASSUME NEW c, Mutes(c) PROVE AllApart(c)
  <2>1. /\ c[1].do = "mute"
        /\ c[2].do = "publish" /\ c[2].path = "audio/status" /\ c[2].key = "state"
    BY <1>4 DEF Mutes, Says
  <2>2. Apart(c[1]) /\ Apart(c[2])
    BY <2>1 DEF Apart, Trackless, Fileless, TrackKeys
  <2>3. Len(c) = 2
    BY <1>4 DEF Mutes
  <2>4. \A i \in 1 .. Len(c) : i = 1 \/ i = 2
    BY <2>3
  <2> QED
    BY <2>2, <2>4, Zenon DEF AllApart
<1>5. ASSUME NEW c, Tune(c) PROVE AllApart(c)
  <2>1. ASSUME NEW s, \/ s.do \in {"set clock", "stream"}
                      \/ s.do = "publish" /\ (Says(s, "playing") \/ Says(s, "idle"))
        PROVE  Apart(s)
    BY <2>1 DEF Apart, Trackless, Fileless, Says, TrackKeys
  <2> QED
    BY <1>5, <2>1, TuneStatements DEF AllApart
<1>6. AllApart(<<Framebuffer>>)
  BY ApartTuples DEF Framebuffer, Apart, Trackless, Fileless
<1>7. ASSUME NEW n PROVE AllApart(ShowPlaying(n))
  <2>1. \/ ShowPlaying(n) = <<>>
        \/ \E x : ShowPlaying(n) = <<x>> /\ x.do = "bar"
    BY DEF ShowPlaying
  <2>2. \A x : x.do = "bar" => Apart(x)
    BY DEF Apart, Trackless, Fileless
  <2> QED
    BY <2>1, <2>2, ApartTuples
<1> QED
  BY <1>2, <1>3, <1>4, <1>5, <1>6, <1>7

LEMMA HeardApart ==
    ASSUME NEW service \in ServiceNames, NEW n,
           ~(service = "storage" /\ n.path = "cmd/play")
    PROVE  LET c == Heard(service, n)
           IN  /\ Ordinary(c) /\ AllTrackless(c)
               /\ \/ AllApart(c)
                  \/ service = "memfs" /\ n.path = "cmd/store" /\ c = Store(n.value)
                  \/ service = "memfs" /\ n.path = "cmd/memrm" /\ c = MemRm(n.value.name)
<1> DEFINE c == Handles(service, n)
<1>1. Ordinary(Heard(service, n))
  BY HandlerStatements
<1>2. \A d : AllApart(d) => AllTrackless(d)
  BY DEF AllApart, AllTrackless, Apart
<1>3. CASE n.path \notin Paths(service)
  BY <1>1, <1>2, <1>3, ApartTuples DEF Heard
<1>4. CASE n.path \in Paths(service)
  <2>1. \/ AllAside(c) \/ c = GenetHandles(n) \/ c = HttpHandles(n) \/ Mutes(c) \/ Tune(c)
        \/ c = <<Framebuffer>> \/ c = ShowPlaying(n)
        \/ service = "memfs" /\ n.path = "cmd/store" /\ c = Store(n.value)
        \/ service = "memfs" /\ n.path = "cmd/memrm" /\ c = MemRm(n.value.name)
    BY <1>4, HandlersInDetail
  <2>2. Heard(service, n) = c
    BY <1>4 DEF Heard
  <2> HIDE DEF c
  <2>3. /\ AllTrackless(c)
        /\ \/ AllApart(c)
           \/ service = "memfs" /\ n.path = "cmd/store" /\ c = Store(n.value)
           \/ service = "memfs" /\ n.path = "cmd/memrm" /\ c = MemRm(n.value.name)
    BY <1>2, <2>1, ReportsApart, MemFsCalls DEF AllAside
  <2> QED
    BY <1>1, <2>2, <2>3
<1> QED
  BY <1>3, <1>4

LEMMA MainPlain ==
    \A service \in ServiceNames : Plain(Main(service))
<1>1. Plain(HttpMain)
  <2>1. Ordinary(HttpMain)
    BY HttpCalls, OrdinaryStatements
  <2> QED
    BY <2>1, ReportsApart, PlainStatements DEF AllApart, AllTrackless, Apart
<1>2. Plain(StorageMain)
  <2>1. Silent(Subscribe("storage")) /\ \A key, value : Silent(StorageStatus(key, value))
    BY SilentSentences DEF Silent, Subscribe, Plays, TellsTrack, Tells
  <2> QED
    BY <2>1, PlainTuples DEF StorageMain
<1>3. Plain(MemFsMain)
  BY MemFsCalls, SteadyIsHarmless, OrdinaryStatements, PlainStatements
<1> QED
  BY <1>1, <1>2, <1>3, MainsInDetail, PlainStatements

LEMMA PlayTells ==
    \A name : Proper(Play(name)) /\ \A i \in 1 .. Len(Play(name)) : ~TellsTrack(Play(name)[i])
<1> SUFFICES ASSUME NEW name
             PROVE  Proper(Play(name)) /\ \A i \in 1 .. Len(Play(name)) : ~TellsTrack(Play(name)[i])
  OBVIOUS
<1> DEFINE a == StorageStatus("decoding", name)
           b == [do |-> "open", track |-> name]
<1>1. ~TellsTrack(a) /\ ~TellsTrack(b)
  <2>1. Silent(a)
    BY SilentSentences
  <2>2. ~TellsTrack(b)
    BY DEF TellsTrack, Tells
  <2> QED
    BY <2>1, <2>2 DEF Silent
<1>2. Play(name) = <<a, b>>
  BY DEF Play
<1> HIDE DEF a, b
<1>3. Proper(<<a, b>>) /\ \A i \in 1 .. Len(<<a, b>>) : ~TellsTrack(<<a, b>>[i])
  BY <1>1, ProperTuples
<1> QED
  BY <1>2, <1>3

LEMMA TrackUntouched ==
    ASSUME Shape, ~Quiet, TrackTold, ~TellsTrack(Now), objects' = objects,
           NEW called, Plain(called), Continue(called)
    PROVE  TrackTold'
<1>1. /\ \A t : TitleIs(t)' <=> TitleIs(t)
      /\ \A t : \A key \in Rest : Shown(key, t) => Shown(key, t)'
  BY DEF TitleIs, Shown, Published, Reads
<1> QED
  BY <1>1, TrackAside

LEMMA TrackOnMain == Shape /\ TrackTold /\ CallMain => TrackTold'
<1> SUFFICES ASSUME Shape, TrackTold, CallMain PROVE TrackTold'
  OBVIOUS
<1>1. /\ ~Quiet /\ Now.do = "main" /\ Continue(Main(Now.service)) /\ objects' = objects
  BY DEF CallMain, Runs, Now
<1>2. Now.service \in ServiceNames
  BY <1>1, Nowhere DEF Shape
<1>3. ~TellsTrack(Now)
  BY <1>1 DEF TellsTrack, Tells
<1>4. PICK called : Plain(called) /\ Continue(called)
  BY <1>1, <1>2, MainPlain
<1> QED
  BY <1>1, <1>3, <1>4, TrackUntouched

LEMMA TrackOnPublish == Shape /\ TrackTold /\ Publish => TrackTold'
<1> SUFFICES ASSUME Shape, TrackTold, Publish PROVE TrackTold'
  OBVIOUS
<1>1. ~Quiet /\ Now.do = "publish"
  BY PublishCalls
<1>2. PICK called : /\ Proper(called) /\ Continue(called) /\ Len(called) = Len(subs)
                    /\ \A m \in 1 .. Len(subs) :
                          called[m] = [do |-> "callback", service |-> subs[m], n |-> Now]
  BY PublishCalls
<1>3. ASSUME NEW m \in 1 .. Len(called) PROVE called[m].do = "callback" /\ called[m].n = Now
  <2>1. called[m] = [do |-> "callback", service |-> subs[m], n |-> Now]
    BY <1>2
  <2> QED
    BY <2>1
<1>4. \A m \in 1 .. Len(called) : ~TellsTrack(called[m])
  BY <1>3 DEF TellsTrack, Tells
<1>5. Now.path # "cmd/play" => Plain(called)
  BY <1>2, <1>3, <1>4 DEF Plain, Plays
<1>6. objects' = IF Now.path \in CommandPaths THEN objects ELSE WithAttribute(Now)
  BY DEF Publish
<1>7. CASE Now.path = "cmd/play"
  <2>1. Plays(Now)
    BY <1>1, <1>7 DEF Plays
  <2>2. objects' = objects
    BY <1>6, <1>7 DEF CommandPaths, StoragePaths
  <2> QED
    BY <1>1, <1>2, <1>4, <2>1, <2>2, TrackStarting
<1>8. CASE Now.path # "cmd/play" /\ TellsTrack(Now)
  <2>1. Now.path \notin CommandPaths
    BY <1>8 DEF TellsTrack, Tells, CommandPaths, MemFsPaths, StoragePaths, AudioPaths
  <2> QED
    BY <1>1, <1>2, <1>5, <1>6, <1>8, <2>1, TrackPublished
<1>9. CASE Now.path # "cmd/play" /\ ~TellsTrack(Now)
  <2>1. \A key \in TrackKeys : <<"audio/status", key>> # <<Now.path, Now.key>>
    BY <1>1, <1>9 DEF TellsTrack, Tells
  <2>2. /\ \A x : x # <<Now.path, Now.key>> => (x \in DOMAIN objects' <=> x \in DOMAIN objects)
        /\ \A x \in DOMAIN objects : x # <<Now.path, Now.key>> => objects'[x] = objects[x]
    BY <1>6 DEF WithAttribute
  <2>3. \A key \in TrackKeys :
           /\ <<"audio/status", key>> \in DOMAIN objects' <=> <<"audio/status", key>> \in DOMAIN objects
           /\ <<"audio/status", key>> \in DOMAIN objects =>
                 objects'[<<"audio/status", key>>] = objects[<<"audio/status", key>>]
    BY <2>1, <2>2
  <2>4. \A t : TitleIs(t)' <=> TitleIs(t)
    BY <2>3 DEF TitleIs, Published, TrackKeys
  <2>5. \A t : \A key \in Rest : Shown(key, t) => Shown(key, t)'
    BY <2>3 DEF Shown, Reads, Published, TrackKeys, Rest
  <2> QED
    BY <1>1, <1>2, <1>5, <1>9, <2>4, <2>5, TrackAside
<1> QED
  BY <1>7, <1>8, <1>9

LEMMA TrackOnCallback == Shape /\ TrackTold /\ Callback => TrackTold'
<1> SUFFICES ASSUME Shape, TrackTold, Callback PROVE TrackTold'
  OBVIOUS
<1>1. /\ ~Quiet /\ Now.do = "callback" /\ objects' = objects /\ Now.service \in ServiceNames
      /\ Ordinary(Heard(Now.service, Now.n)) /\ Continue(Heard(Now.service, Now.n))
  BY CallbackCalls
<1>2. ~TellsTrack(Now)
  BY <1>1 DEF TellsTrack, Tells
<1>3. CASE ~(Now.service = "storage" /\ Now.n.path = "cmd/play")
  <2>1. Plain(Heard(Now.service, Now.n))
    BY <1>1, <1>3, HeardApart, PlainStatements
  <2>2. PICK called : Plain(called) /\ Continue(called)
    BY <1>1, <2>1
  <2> QED
    BY <1>1, <1>2, <2>2, TrackUntouched
<1>4. CASE Now.service = "storage" /\ Now.n.path = "cmd/play"
  <2>1. Plays(Now)
    BY <1>1, <1>4 DEF Plays
  <2>2. Heard(Now.service, Now.n) = Play(Now.n.value)
    BY <1>4 DEF Heard, Paths, StoragePaths, Handles, StorageHandles
  <2>3. PICK called : /\ Proper(called) /\ Continue(called)
                      /\ \A i \in 1 .. Len(called) : ~TellsTrack(called[i])
    BY <1>1, <2>2, PlayTells
  <2> QED
    BY <1>1, <2>1, <2>3, TrackStarting
<1> QED
  BY <1>3, <1>4

LEMMA TrackOnDecoder ==
    ASSUME Shape, TrackTold, Open \/ Decode, build # "host"
    PROVE  TrackTold'
<1>1. ~Quiet /\ Now.do \in {"open", "decode"} /\ objects' = objects
  BY DEF Open, Decode, Runs, Now
<1>2. Plays(Now)
  BY <1>1 DEF Plays
<1>3. PICK called : /\ Proper(called) /\ Continue(called)
                    /\ \/ \A i \in 1 .. Len(called) : ~TellsTrack(called[i])
                       \/ \E t : Coherent(called, t)
  BY OpenTells, DecodeTells DEF Plain, Coherent
<1> QED
  BY <1>1, <1>2, <1>3, TrackStarting

\* What the step of any other statement is.
LEMMA AsideKinds ==
    ASSUME Step
    PROVE  \/ CallMain \/ Publish \/ Callback \/ Open \/ Decode
           \/ Asidely /\ objects' = objects /\ Now.do # "publish"
<1>1. CASE Subscribes
  <2>1. objects' = objects /\ Now.do # "publish"
    BY <1>1 DEF Subscribes, Runs, Now
  <2> QED
    BY <1>1, <2>1, AsidelyNothing
<1>2. CASE EmmcReset
  <2>1. objects' = objects /\ Now.do # "publish"
    BY <1>2 DEF EmmcReset, Runs, Now
  <2> QED
    BY <1>2, <2>1, AsidelyReports
<1>3. CASE InitFramebuffer
  <2>1. objects' = objects /\ Now.do # "publish"
    BY <1>3 DEF InitFramebuffer, Runs, Now
  <2> QED
    BY <1>3, <2>1, AsidelyReports
<1>4. CASE /\ UNCHANGED <<objects, subs>>
           /\ Now.do \notin {"main", "subscribe", "publish", "callback", "emmc reset", "framebuffer"}
  BY <1>4, AsideStep
<1> QED
  BY <1>1, <1>2, <1>3, <1>4, StepKinds

\* What a driver or the shell publishes is no attribute of a track, apart from
\* rates.
LEMMA ArrivalsApart ==
    ASSUME Shape, Command \/ Plug \/ Unplug
    PROVE  /\ Quiet /\ objects' = objects
           /\ \E c : /\ work' = <<c>> /\ c.do = "publish"
                     /\ \/ c.path # "audio/status"
                        \/ /\ c.key = "sample_rate"
                           /\ \E i \in DOMAIN Commands : \E x \in Commands[i] : x.path = "audio/status"
<1>1. Quiet /\ objects' = objects
  BY Arrivals
<1>2. CASE Command
  <2>1. PICK i \in DOMAIN Commands : \E c \in Commands[i] : work' = <<c>>
    BY <1>2 DEF Command
  <2>2. PICK c \in Commands[i] : work' = <<c>>
    BY <2>1
  <2>3. /\ c = Pub(c.path, c.key, c.value)
        /\ c.path # "audio/status" \/ c.key = "sample_rate"
    BY SetupAssumption DEF Shape, Commands, CommandPaths, MemFsPaths, StoragePaths, AudioPaths
  <2>4. c.do = "publish"
    BY <2>3 DEF Pub
  <2> QED
    BY <1>1, <2>2, <2>3, <2>4
<1>3. CASE Plug
  <2>1. PICK d \in Setups[setup].devices :
            work' = <<Pub(d, "subclass", IF d \in Dongles THEN "bluetooth" ELSE "hid")>>
    BY <1>3 DEF Plug
  <2>2. d # "audio/status"
    BY SetupAssumption DEF Shape
  <2> QED
    BY <1>1, <2>1, <2>2 DEF Pub
<1>4. CASE Unplug
  <2>1. PICK d \in Setups[setup].devices : work' = <<Pub(d, "state", "removed")>>
    BY <1>4 DEF Unplug, Shape
  <2>2. d # "audio/status"
    BY SetupAssumption DEF Shape
  <2> QED
    BY <1>1, <2>1, <2>2 DEF Pub
<1> QED
  BY <1>2, <1>3, <1>4

LEMMA TrackStep ==
    ASSUME Shape, TrackTold, [Next]_vars, build # "host",
           \A i \in DOMAIN Commands : \A c \in Commands[i] : c.path # "audio/status"
    PROVE  TrackTold'
<1>1. CASE Step
  <2>1. CASE Asidely /\ objects' = objects /\ Now.do # "publish"
    <3>1. ~TellsTrack(Now)
      BY <2>1 DEF TellsTrack, Tells
    <3>2. PICK called : Plain(called) /\ Continue(called)
      BY <2>1, PlainStatements DEF Asidely
    <3> QED
      BY <2>1, <3>1, <3>2, TrackUntouched DEF Asidely
  <2> QED
    BY <1>1, <2>1, AsideKinds, TrackOnMain, TrackOnPublish, TrackOnCallback, TrackOnDecoder
<1>2. CASE Command \/ Plug \/ Unplug
  <2>1. /\ Quiet /\ objects' = objects
        /\ \E c : work' = <<c>> /\ c.do = "publish" /\ c.path # "audio/status"
    BY <1>2, ArrivalsApart
  <2>2. PICK c : work' = <<c>> /\ c.path # "audio/status"
    BY <2>1
  <2>3. Len(work) = 0
    BY <2>1, ProperFacts DEF Quiet, Shape
  <2>4. \A t : \A key \in Rest : TitleIs(t) => Shown(key, t)
    BY <2>3 DEF TrackTold
  <2>5. Len(work') = 1 /\ work'[1] = c
    BY <2>2, OneStatement
  <2>6. \A i \in 1 .. Len(work') : ~TellsTrack(work'[i])
    <3>1. \A i \in 1 .. 1 : i = 1
      OBVIOUS
    <3> QED
      BY <2>2, <2>5, <3>1 DEF TellsTrack, Tells
  <2>7. \A i \in 1 .. Len(work') : \A key \in Rest \cup {"title"} : ~Tells(work'[i], key)
    BY <2>6 DEF TellsTrack, TrackKeys, Rest
  <2>8. \A i \in 1 .. Len(work') : \A k \in i + 1 .. Len(work') : ~TellsTrack(work'[k])
    <3>1. \A i \in 1 .. Len(work') : \A k \in i + 1 .. Len(work') : k \in 1 .. Len(work')
      BY <2>5
    <3> QED
      BY <2>6, <3>1
  <2>9. \A t : \A key \in Rest : TitleIs(t)' => Shown(key, t)'
    BY <2>1, <2>4 DEF TitleIs, Shown, Published, Reads
  <2> QED
    BY <2>6, <2>7, <2>8, <2>9 DEF TrackTold
<1>3. CASE UNCHANGED vars \/ MapBuffer
  <2>1. UNCHANGED <<work, objects>>
    BY <1>3 DEF vars, MapBuffer, busVars
  <2> QED
    BY <2>1 DEF TrackTold, TitleIs, Shown, Published, Reads
<1> QED
  BY <1>1, <1>2, <1>3 DEF Next

\* Where storagemgr is not started nothing leads to a title's being published.
Foreign(s) == /\ s.do \notin {"open", "decode"}
              /\ s.do \in {"main", "subscribe"} => s.service # "storage"
              /\ ~Tells(s, "title")

StorageAway == /\ \A i \in 1 .. Len(work) : Foreign(work[i])
               /\ ~Subscribed("storage")
               /\ ~Published("audio/status", "title")

LEMMA ForeignStatements ==
    /\ \A c : AllAside(c) => \A i \in 1 .. Len(c) : Foreign(c[i])
    /\ \A c : Ordinary(c) /\ AllTrackless(c) => \A i \in 1 .. Len(c) : Foreign(c[i])
<1>1. \A s : Trackless(s) /\ s.do # "main" => Foreign(s)
  BY DEF Trackless, Foreign, Tells, TrackKeys
<1>2. \A s : Steady(s) => s.do # "main"
  BY DEF Steady, Harmless
<1> QED
  BY <1>1, <1>2 DEF AllAside, AllSteady, AllApart, Apart, AllTrackless, Ordinary

LEMMA AwayKept ==
    ASSUME Shape, ~Quiet, StorageAway, NEW called, Proper(called), Continue(called),
           \A i \in 1 .. Len(called) : Foreign(called[i]),
           ~Subscribed("storage")', ~Published("audio/status", "title")'
    PROVE  StorageAway'
<1>1. \A i \in 1 .. Len(work') :
         \/ i \in 1 .. Len(called) /\ work'[i] = called[i]
         \/ \E j \in 2 .. Len(work) : i = Len(called) + j - 1 /\ work'[i] = work[j]
  BY Places DEF Shape
<1>2. \A j \in 2 .. Len(work) : j \in 1 .. Len(work)
  BY Nowhere
<1>3. \A i \in 1 .. Len(work') : Foreign(work'[i])
  BY <1>1, <1>2 DEF StorageAway
<1> QED
  BY <1>3 DEF StorageAway

LEMMA AwayStep == Shape /\ StorageAway /\ [Next]_vars => StorageAway'
<1> SUFFICES ASSUME Shape, StorageAway, [Next]_vars PROVE StorageAway'
  OBVIOUS
<1>1. subs' = subs => ~Subscribed("storage")'
  BY DEF StorageAway, Subscribed
<1>2. objects' = objects => ~Published("audio/status", "title")'
  BY DEF StorageAway, Published
<1>3. ~Quiet => Foreign(Now)
  <2>1. ~Quiet => Now = work[1] /\ 1 \in 1 .. Len(work)
    BY Nowhere
  <2> QED
    BY <2>1 DEF StorageAway
<1>4. CASE CallMain
  <2>1. /\ ~Quiet /\ Now.do = "main" /\ Continue(Main(Now.service)) /\ UNCHANGED <<objects, subs>>
    BY <1>4 DEF CallMain, Runs, Now
  <2>2. Now.service \in ServiceNames \ {"storage"}
    BY <1>3, <2>1, Nowhere DEF Shape, Foreign
  <2>3. \/ AllAside(Main(Now.service)) \/ Main(Now.service) = HttpMain
        \/ Main(Now.service) = MemFsMain
    BY <2>2, MainsInDetail
  <2>4. /\ Ordinary(HttpMain) /\ AllTrackless(HttpMain)
        /\ Ordinary(MemFsMain) /\ AllTrackless(MemFsMain)
    BY HttpCalls, MemFsCalls, SteadyIsHarmless, OrdinaryStatements, ReportsApart
    DEF AllApart, AllTrackless, Apart
  <2>5. Proper(Main(Now.service)) /\ \A i \in 1 .. Len(Main(Now.service)) : Foreign(Main(Now.service)[i])
    BY <2>3, <2>4, ForeignStatements DEF AllAside, AllSteady, Ordinary
  <2>6. PICK called : /\ Proper(called) /\ Continue(called)
                      /\ \A i \in 1 .. Len(called) : Foreign(called[i])
    BY <2>1, <2>5
  <2> QED
    BY <1>1, <1>2, <2>1, <2>6, AwayKept
<1>5. CASE Subscribes
  <2>1. /\ ~Quiet /\ Now.do = "subscribe" /\ Continue(<<>>) /\ objects' = objects
        /\ subs' = Append(subs, Now.service)
    BY <1>5 DEF Subscribes, Runs, Now
  <2>2. Now.service # "storage"
    BY <1>3, <2>1 DEF Foreign
  <2>3. /\ Len(subs) \in Nat /\ Len(subs') = Len(subs) + 1
        /\ \A m \in 1 .. Len(subs) : subs'[m] = subs[m]
        /\ subs'[Len(subs) + 1] = Now.service
    BY <2>1, AppendProperties, ProperFacts DEF Shape, Proper
  <2>4. \A m \in 1 .. Len(subs') : m \in 1 .. Len(subs) \/ m = Len(subs) + 1
    BY <2>3
  <2>5. ~Subscribed("storage")'
    BY <2>2, <2>3, <2>4 DEF StorageAway, Subscribed
  <2>6. Proper(<<>>) /\ Len(<<>>) = 0
    BY ProperTuples
  <2> QED
    BY <1>2, <2>1, <2>5, <2>6, AwayKept
<1>6. CASE Publish
  <2>1. ~Quiet /\ Now.do = "publish" /\ subs' = subs
    BY <1>6, PublishCalls
  <2>2. PICK called : /\ Proper(called) /\ Continue(called) /\ Len(called) = Len(subs)
                      /\ \A m \in 1 .. Len(subs) :
                            called[m] = [do |-> "callback", service |-> subs[m], n |-> Now]
    BY <1>6, PublishCalls
  <2>3. ASSUME NEW m \in 1 .. Len(called) PROVE Foreign(called[m])
    <3>1. called[m] = [do |-> "callback", service |-> subs[m], n |-> Now]
      BY <2>2
    <3>2. called[m].do = "callback"
      BY <3>1
    <3> QED
      BY <3>2 DEF Foreign, Tells
  <2>4. objects' = objects \/ objects' = WithAttribute(Now)
    BY <1>6 DEF Publish
  <2>5. <<"audio/status", "title">> # <<Now.path, Now.key>>
    BY <1>3, <2>1 DEF Foreign, Tells
  <2>6. ~Published("audio/status", "title")'
    BY <2>4, <2>5 DEF StorageAway, Published, WithAttribute
  <2> QED
    BY <1>1, <2>1, <2>2, <2>3, <2>6, AwayKept
<1>7. CASE Callback
  <2>1. /\ ~Quiet /\ Now.do = "callback" /\ UNCHANGED <<objects, subs>>
        /\ Now.service \in ServiceNames /\ Subscribed(Now.service)
        /\ Continue(Heard(Now.service, Now.n))
    BY <1>7, CallbackCalls
  <2>2. Now.service # "storage"
    BY <2>1 DEF StorageAway, Subscribed
  <2>3. /\ Proper(Heard(Now.service, Now.n))
        /\ \A i \in 1 .. Len(Heard(Now.service, Now.n)) : Foreign(Heard(Now.service, Now.n)[i])
    BY <2>1, <2>2, HeardApart, ForeignStatements DEF Ordinary
  <2>4. PICK called : /\ Proper(called) /\ Continue(called)
                      /\ \A i \in 1 .. Len(called) : Foreign(called[i])
    BY <2>1, <2>3
  <2> QED
    BY <1>1, <1>2, <2>1, <2>4, AwayKept
<1>8. ~Open /\ ~Decode
  BY <1>3 DEF Open, Decode, Runs, Now, Foreign
<1>9. CASE /\ Steadily /\ UNCHANGED <<objects, subs>>
           /\ Now.do \notin {"main", "subscribe", "publish", "callback", "emmc reset", "framebuffer"}
           /\ Asidely
  <2>1. PICK called : AllAside(called) /\ Continue(called)
    BY <1>9 DEF Asidely
  <2>2. Proper(called) /\ \A i \in 1 .. Len(called) : Foreign(called[i])
    BY <2>1, ForeignStatements DEF AllAside, AllSteady
  <2> QED
    BY <1>1, <1>2, <1>9, <2>1, <2>2, AwayKept DEF Asidely
<1>10. CASE EmmcReset \/ InitFramebuffer
  <2>1. ~Quiet /\ UNCHANGED <<objects, subs>>
    BY <1>10 DEF EmmcReset, InitFramebuffer, Runs
  <2>2. PICK called : AllAside(called) /\ Continue(called)
    BY <1>10, AsidelyReports DEF Asidely
  <2>3. Proper(called) /\ \A i \in 1 .. Len(called) : Foreign(called[i])
    BY <2>2, ForeignStatements DEF AllAside, AllSteady
  <2> QED
    BY <1>1, <1>2, <2>1, <2>2, <2>3, AwayKept
<1>11. CASE Step
  <2>1. CASE /\ Steadily /\ UNCHANGED <<objects, subs>>
             /\ Now.do \notin {"main", "subscribe", "publish", "callback", "emmc reset", "framebuffer"}
    <3>1. ~CallMain /\ ~Publish /\ ~Callback
      BY <2>1 DEF CallMain, Publish, Callback, Runs, Now
    <3>2. Asidely
      BY <1>8, <1>11, <3>1, AsideStep
    <3> QED
      BY <1>9, <2>1, <3>2
  <2> QED
    BY <1>4, <1>5, <1>6, <1>7, <1>10, <1>11, <2>1, StepKinds
<1>12. CASE Command \/ Plug \/ Unplug
  <2>1. UNCHANGED <<objects, subs>>
    BY <1>12, Arrivals
  <2>2. PICK c : /\ work' = <<c>> /\ c.do = "publish"
                 /\ c.path # "audio/status" \/ c.key = "sample_rate"
    BY <1>12, ArrivalsApart
  <2>3. Foreign(c)
    BY <2>2 DEF Foreign, Tells
  <2>4. Len(work') = 1 /\ work'[1] = c /\ \A i \in 1 .. 1 : i = 1
    BY <2>2, OneStatement
  <2>5. \A i \in 1 .. Len(work') : Foreign(work'[i])
    BY <2>3, <2>4
  <2> QED
    BY <1>1, <1>2, <2>1, <2>5 DEF StorageAway
<1>13. CASE UNCHANGED vars \/ MapBuffer
  <2>1. UNCHANGED <<work, objects, subs>>
    BY <1>13 DEF vars, MapBuffer, busVars
  <2> QED
    BY <1>1, <1>2, <2>1 DEF StorageAway
<1> QED
  BY <1>11, <1>12, <1>13 DEF Next

\* In the target build the title, the sample rate and the channels shown when the
\* shell waits are those of one track, whatever is played after whatever, with any
\* tags, errors and subscribers in between (publish_meta and publish_pcm of
\* storagemgr.cpp).  Where storagemgr runs nobody else may announce a rate.
THEOREM TracksStayWhole ==
    ASSUME \A name \in DOMAIN Setups :
               "storage" \in ToSet(Setups[name].started) =>
                   \A i \in DOMAIN Setups[name].commands :
                       \A c \in Setups[name].commands[i] : c.path # "audio/status"
    PROVE  Spec => []TrackStatusWhole
<1> DEFINE Told == IF "storage" \in Started THEN build = "target" => TrackTold ELSE StorageAway
<1>1. Init => Told
  <2> SUFFICES ASSUME Init PROVE Told
    OBVIOUS
  <2>1. /\ Proper(work) /\ Len(subs) = 0 /\ objects = [x \in {} |-> 0]
        /\ \A i \in 1 .. Len(work) : work[i].do = "main"
    BY StartsWithMains DEF Init
  <2>2. TrackTold
    <3>1. Len(work) \in Nat
      BY <2>1, ProperFacts
    <3>2. \A i \in 1 .. Len(work) : ~Plays(work[i]) /\ ~TellsTrack(work[i])
      BY <2>1 DEF Plays, TellsTrack, Tells
    <3>3. \A i \in 1 .. Len(work) : \A key \in Rest \cup {"title"} : ~Tells(work[i], key)
      BY <2>1 DEF Tells
    <3>4. \A t : ~TitleIs(t)
      BY <2>1 DEF TitleIs, Published
    <3> QED
      BY <3>2, <3>3, <3>4 DEF TrackTold
  <2>3. "storage" \notin Started => StorageAway
    <3> SUFFICES ASSUME "storage" \notin Started PROVE StorageAway
      OBVIOUS
    <3>1. ASSUME NEW i \in 1 .. Len(work) PROVE Foreign(work[i])
      <4>1. work[i].service \in Started
        BY StartsWithMains
      <4> QED
        BY <2>1, <4>1 DEF Foreign, Tells
    <3>2. ~Subscribed("storage")
      BY <2>1 DEF Subscribed
    <3> QED
      BY <2>1, <3>1, <3>2 DEF StorageAway, Published
  <2> QED
    BY <2>2, <2>3
<1>2. Shape /\ Told /\ [Next]_vars => Told'
  <2> SUFFICES ASSUME Shape, Told, [Next]_vars PROVE Told'
    OBVIOUS
  <2>1. setup' = setup /\ build' = build
    <3>1. setup' = setup
      BY DEF Next, Step, vars, serviceVars, CallMain, Subscribes, Publish, Callback, Command, Plug,
         Unplug, MapBuffer
    <3>2. StorageNext => build' = build
      BY DEF StorageNext, Open, Decode, FreeBuffer, CloseFile, ListRoot, fixed
    <3>3. build' = build
      BY <3>2 DEF Next, Step, vars, serviceVars, storageVars, CallMain, Subscribes, Publish, Callback,
         Command, Plug, Unplug, MapBuffer
    <3> QED
      BY <3>1, <3>3
  <2>2. Started' = Started
    BY <2>1 DEF Started
  <2>3. CASE "storage" \notin Started
    BY <2>2, <2>3, AwayStep
  <2>4. CASE "storage" \in Started
    <3>1. \A i \in DOMAIN Commands : \A c \in Commands[i] : c.path # "audio/status"
      BY <2>4 DEF Started, Commands, Shape
    <3> QED
      BY <2>1, <2>2, <2>4, <3>1, TrackStep
  <2> QED
    BY <2>3, <2>4
<1>3. Shape /\ Told => TrackStatusWhole
  <2> SUFFICES ASSUME Shape, Told, Quiet, build = "target", Published("audio/status", "title")
               PROVE  LET track == objects[<<"audio/status", "title">>].track
                      IN  /\ Reads("audio/status", "sample_rate", Card[track].rate)
                          /\ Reads("audio/status", "channels", track)
    BY DEF TrackStatusWhole
  <2>1. TrackTold /\ Len(work) = 0
    BY ProperFacts DEF Shape, Quiet, StorageAway
  <2> DEFINE track == objects[<<"audio/status", "title">>].track
  <2>2. TitleIs(track)
    BY DEF TitleIs
  <2> HIDE DEF track
  <2>3. \A key \in Rest : Shown(key, track)
    BY <2>1, <2>2 DEF TrackTold
  <2>4. Shown("sample_rate", track) /\ Shown("channels", track)
    BY <2>3 DEF Rest
  <2> QED
    BY <2>4 DEF Shown, Fact, track
<1> HIDE DEF Told
<1> QED
  BY <1>1, <1>2, <1>3, ShapeHolds, PTL DEF Spec

-----------------------------------------------------------------------------
(***************************************************************************)
(* NamedStoreSpec.  As long as no name is in the table twice, the table is *)
(* a map: where a name is found is where it is.                            *)
(***************************************************************************)
Distinct(fs) == Proper(fs) /\ \A i, j \in 1 .. Len(fs) : fs[i].name = fs[j].name => i = j

NamesOf(fs)       == {fs[i].name : i \in 1 .. Len(fs)}
FirstOf(fs, name) == SelectInSeq(fs, LAMBDA f : f.name = name)
MapOf(fs)         == [name \in NamesOf(fs) |-> fs[FirstOf(fs, name)].cap]

\* Places can be told apart by the smallest of them.
LEMMA Smallest ==
    ASSUME NEW S \in SUBSET Nat, S # {}
    PROVE  Min(S) \in S /\ \A i \in S : Min(S) <= i
<1>1. \E x \in S : \A y \in S : ~(<<y, x>> \in OpToRel(<, Nat))
  BY NatLessThanWellFounded, WFMin
<1>2. PICK x \in S : \A y \in S : ~(y < x)
  BY <1>1 DEF OpToRel
<1>3. \A y \in S : x <= y
  BY <1>2
<1> QED
  BY <1>3 DEF Min

\* The search of find_file and memrm ends at the first entry of the name.
LEMMA FoundFirst ==
    ASSUME NEW fs, Proper(fs), NEW name
    PROVE  /\ name \in NamesOf(fs) => /\ FirstOf(fs, name) \in 1 .. Len(fs)
                                      /\ fs[FirstOf(fs, name)].name = name
           /\ name \notin NamesOf(fs) => FirstOf(fs, name) = 0
<1> DEFINE places == {i \in 1 .. Len(fs) : fs[i].name = name}
<1>1. FirstOf(fs, name) = IF places # {} THEN Min(places) ELSE 0
  BY DEF FirstOf, SelectInSeq
<1>2. places \in SUBSET Nat
  BY ProperFacts
<1>3. (places # {}) = (name \in NamesOf(fs))
  BY DEF NamesOf
<1>4. places # {} => Min(places) \in 1 .. Len(fs) /\ fs[Min(places)].name = name
  <2>1. places # {} => Min(places) \in places
    <3> HIDE DEF places
    <3> QED
      BY <1>2, Smallest
  <2> QED
    BY <2>1
<1> HIDE DEF places
<1> QED
  BY <1>1, <1>3, <1>4

LEMMA Found ==
    ASSUME NEW fs, Distinct(fs), NEW name
    PROVE  /\ \A i \in 1 .. Len(fs) : fs[i].name = name => FirstOf(fs, name) = i
           /\ name \notin NamesOf(fs) => FirstOf(fs, name) = 0
BY FoundFirst DEF Distinct, NamesOf

LEMMA MapLooksUp ==
    ASSUME NEW fs, Distinct(fs)
    PROVE  /\ DOMAIN MapOf(fs) = NamesOf(fs)
           /\ \A i \in 1 .. Len(fs) : MapOf(fs)[fs[i].name] = fs[i].cap
<1>1. DOMAIN MapOf(fs) = NamesOf(fs)
  BY DEF MapOf
<1>2. ASSUME NEW i \in 1 .. Len(fs) PROVE MapOf(fs)[fs[i].name] = fs[i].cap
  <2>1. FirstOf(fs, fs[i].name) = i
    BY Found
  <2>2. fs[i].name \in NamesOf(fs)
    BY DEF NamesOf
  <2> QED
    BY <2>1, <2>2 DEF MapOf
<1> QED
  BY <1>1, <1>2

\* An entry with a new name adds it to the map.
LEMMA Stored ==
    ASSUME NEW fs, Distinct(fs), NEW f, f.name \notin NamesOf(fs)
    PROVE  /\ Distinct(Append(fs, f))
           /\ NamesOf(Append(fs, f)) = NamesOf(fs) \cup {f.name}
           /\ \A n \in NamesOf(Append(fs, f)) :
                 MapOf(Append(fs, f))[n] = IF n = f.name THEN f.cap ELSE MapOf(fs)[n]
<1> DEFINE gs == Append(fs, f)
           l == Len(fs)
           S == {fs[i] : i \in 1 .. l} \cup {f}
<1>1. l \in Nat
  BY ProperFacts DEF Distinct
<1>2. fs \in Seq(S) /\ f \in S
  <2>1. fs \in Seq({fs[i] : i \in 1 .. l})
    BY DEF Distinct, Proper
  <2> QED
    BY <2>1, SeqMonotonic
<1>3. /\ gs \in Seq(S) /\ Len(gs) = l + 1
      /\ \A i \in 1 .. l : gs[i] = fs[i]
      /\ gs[l + 1] = f
  <2> HIDE DEF S
  <2> QED
    BY <1>2, AppendProperties
<1>4. Proper(gs)
  BY <1>3, ProperIntro
<1>5. \A i, j \in 1 .. l : fs[i].name = fs[j].name => i = j
  BY DEF Distinct
<1>6. \A i \in 1 .. l : fs[i].name # f.name
  BY DEF NamesOf
<1> HIDE DEF gs, l, S
<1>7. \A i \in 1 .. Len(gs) : i \in 1 .. l \/ i = l + 1
  BY <1>1, <1>3
<1>8. \A i \in 1 .. l : i \in 1 .. Len(gs)
  BY <1>1, <1>3
<1>9. l + 1 \in 1 .. Len(gs)
  BY <1>1, <1>3
<1>10. Distinct(gs)
  BY <1>3, <1>4, <1>5, <1>6, <1>7 DEF Distinct
<1>11. NamesOf(gs) = NamesOf(fs) \cup {f.name}
  BY <1>3, <1>7, <1>8, <1>9 DEF NamesOf, l
<1>12. ASSUME NEW n \in NamesOf(gs)
       PROVE  MapOf(gs)[n] = IF n = f.name THEN f.cap ELSE MapOf(fs)[n]
  <2>1. CASE n = f.name
    BY <1>3, <1>9, <1>10, <2>1, MapLooksUp
  <2>2. CASE n # f.name
    <3>1. PICK i \in 1 .. l : n = fs[i].name
      BY <1>11, <2>2 DEF NamesOf, l
    <3>2. MapOf(gs)[gs[i].name] = gs[i].cap
      BY <1>8, <1>10, MapLooksUp
    <3>3. MapOf(fs)[fs[i].name] = fs[i].cap
      BY MapLooksUp DEF l
    <3> QED
      BY <1>3, <2>2, <3>1, <3>2, <3>3
  <2> QED
    BY <2>1, <2>2
<1> QED
  BY <1>10, <1>11, <1>12 DEF gs

\* The shift of memrm: the entries in front stay, those behind move up by one.
LEMMA Shifted ==
    ASSUME NEW fs, Proper(fs), NEW x \in 1 .. Len(fs)
    PROVE  LET gs == RemoveAt(fs, x)
               l  == Len(fs)
           IN  /\ l \in Nat /\ Proper(gs) /\ Len(gs) = l - 1
               /\ \A i \in 1 .. x - 1 : i \in 1 .. Len(gs) /\ gs[i] = fs[i]
               /\ \A i \in x + 1 .. l : i - 1 \in 1 .. Len(gs) /\ gs[i - 1] = fs[i]
               /\ \A i \in 1 .. Len(gs) :
                     \E j \in 1 .. l : gs[i] = fs[j] /\ j # x /\ j = IF i < x THEN i ELSE i + 1
<1> DEFINE gs == RemoveAt(fs, x)
           l == Len(fs)
           S == {fs[i] : i \in 1 .. l}
           a == SubSeq(fs, 1, x - 1)
           b == SubSeq(fs, x + 1, l)
<1>1. l \in Nat
  BY ProperFacts
<1>2. /\ a \in Seq(S) /\ Len(a) = x - 1
      /\ \A i \in 1 .. x - 1 : a[i] = fs[i]
  <2>1. x - 1 \in Int /\ \A i \in 1 .. x - 1 : fs[i] \in S
    BY <1>1
  <2>2. /\ SubSeq(fs, 1, x - 1) \in Seq(S)
        /\ Len(SubSeq(fs, 1, x - 1)) = IF 1 <= x - 1 THEN x - 1 - 1 + 1 ELSE 0
        /\ \A i \in 1 .. x - 1 - 1 + 1 : SubSeq(fs, 1, x - 1)[i] = fs[1 + i - 1]
    <3> HIDE DEF S
    <3> QED
      BY <2>1, SubSeqProperties
  <2> HIDE DEF S, a
  <2>3. \A i \in 1 .. x - 1 : i \in 1 .. x - 1 - 1 + 1 /\ 1 + i - 1 = i
    BY <1>1
  <2>4. (IF 1 <= x - 1 THEN x - 1 - 1 + 1 ELSE 0) = x - 1
    BY <1>1
  <2> QED
    BY <2>2, <2>3, <2>4 DEF a
<1>3. /\ b \in Seq(S) /\ Len(b) = l - x
      /\ \A i \in 1 .. l - x : b[i] = fs[x + i]
  <2>1. x + 1 \in Int /\ l \in Int /\ \A i \in x + 1 .. l : fs[i] \in S
    BY <1>1
  <2>2. /\ SubSeq(fs, x + 1, l) \in Seq(S)
        /\ Len(SubSeq(fs, x + 1, l)) = IF x + 1 <= l THEN l - (x + 1) + 1 ELSE 0
        /\ \A i \in 1 .. l - (x + 1) + 1 : SubSeq(fs, x + 1, l)[i] = fs[(x + 1) + i - 1]
    <3> HIDE DEF S, l
    <3> QED
      BY <2>1, SubSeqProperties
  <2> HIDE DEF S, b
  <2>3. \A i \in 1 .. l - x : i \in 1 .. l - (x + 1) + 1 /\ (x + 1) + i - 1 = x + i
    BY <1>1
  <2>4. (IF x + 1 <= l THEN l - (x + 1) + 1 ELSE 0) = l - x
    BY <1>1
  <2> QED
    BY <2>2, <2>3, <2>4 DEF b
<1>4. gs = a \o b
  BY DEF RemoveAt
<1>5. Proper(a) /\ Proper(b)
  <2> HIDE DEF a, b
  <2> QED
    BY <1>2, <1>3, ProperIntro
<1> HIDE DEF a, b, gs, S, l
<1>6. /\ Proper(gs) /\ Len(gs) = Len(a) + Len(b)
      /\ \A i \in 1 .. Len(a) : gs[i] = a[i]
      /\ \A i \in 1 .. Len(b) : gs[Len(a) + i] = b[i]
  BY <1>4, <1>5, ProperConcat
<1>7. x \in 1 .. l
  BY DEF l
<1>8. Len(gs) = l - 1
  BY <1>1, <1>2, <1>3, <1>6, <1>7
<1>9. ASSUME NEW i \in 1 .. x - 1 PROVE i \in 1 .. Len(gs) /\ i \in 1 .. l /\ gs[i] = fs[i] /\ i # x
  BY <1>1, <1>2, <1>6, <1>7, <1>8
<1>10. ASSUME NEW i \in x + 1 .. l PROVE i - 1 \in 1 .. Len(gs) /\ gs[i - 1] = fs[i]
  <2>1. i - x \in 1 .. Len(b) /\ i - x \in 1 .. l - x /\ Len(a) + (i - x) = i - 1 /\ x + (i - x) = i
    BY <1>1, <1>2, <1>3, <1>7
  <2>2. gs[Len(a) + (i - x)] = b[i - x] /\ b[i - x] = fs[x + (i - x)]
    BY <1>3, <1>6, <2>1
  <2>3. gs[i - 1] = fs[i]
    BY <2>1, <2>2
  <2> QED
    BY <1>1, <1>7, <1>8, <2>3
<1>11. ASSUME NEW i \in 1 .. Len(gs)
       PROVE  \/ i \in 1 .. x - 1 /\ gs[i] = fs[i]
              \/ i \in x .. l - 1 /\ i + 1 \in x + 1 .. l /\ gs[i] = fs[i + 1]
  <2>1. CASE i < x
    <3>1. i \in 1 .. x - 1
      BY <1>1, <1>7, <1>8, <2>1
    <3> QED
      BY <1>9, <3>1
  <2>2. CASE i >= x
    <3>1. i + 1 \in x + 1 .. l /\ (i + 1) - 1 = i /\ i \in x .. l - 1
      BY <1>1, <1>7, <1>8, <2>2
    <3>2. gs[(i + 1) - 1] = fs[i + 1]
      BY <1>10, <3>1
    <3> QED
      BY <3>1, <3>2
  <2> QED
    BY <1>1, <1>7, <1>8, <2>1, <2>2
<1>12. \A i \in 1 .. Len(gs) : \E j \in 1 .. l : gs[i] = fs[j] /\ j # x /\ j = IF i < x THEN i ELSE i + 1
  <2> TAKE i \in 1 .. Len(gs)
  <2>1. CASE i \in 1 .. x - 1 /\ gs[i] = fs[i]
    <3>1. i \in 1 .. l /\ i # x /\ i < x
      BY <1>1, <1>7, <2>1
    <3> QED
      BY <2>1, <3>1
  <2>2. CASE i \in x .. l - 1 /\ i + 1 \in x + 1 .. l /\ gs[i] = fs[i + 1]
    <3>1. i + 1 \in 1 .. l /\ i + 1 # x /\ ~(i < x)
      BY <1>1, <1>7, <2>2
    <3> QED
      BY <2>2, <3>1
  <2> QED
    BY <1>11, <2>1, <2>2
<1> QED
  BY <1>1, <1>6, <1>8, <1>9, <1>10, <1>12 DEF gs, l

\* Without an entry the map lacks its name, and nothing else changes.
LEMMA Removed ==
    ASSUME NEW fs, Distinct(fs), NEW x \in 1 .. Len(fs)
    PROVE  /\ Distinct(RemoveAt(fs, x))
           /\ NamesOf(RemoveAt(fs, x)) = NamesOf(fs) \ {fs[x].name}
           /\ MapOf(RemoveAt(fs, x)) = [n \in NamesOf(fs) \ {fs[x].name} |-> MapOf(fs)[n]]
<1> DEFINE gs == RemoveAt(fs, x)
           l == Len(fs)
<1>1. /\ l \in Nat /\ Proper(gs) /\ Len(gs) = l - 1
      /\ \A i \in 1 .. x - 1 : i \in 1 .. Len(gs) /\ gs[i] = fs[i]
      /\ \A i \in x + 1 .. l : i - 1 \in 1 .. Len(gs) /\ gs[i - 1] = fs[i]
      /\ \A i \in 1 .. Len(gs) :
            \E j \in 1 .. l : gs[i] = fs[j] /\ j # x /\ j = IF i < x THEN i ELSE i + 1
  BY Shifted DEF Distinct
<1> HIDE DEF gs, l
<1>2. x \in 1 .. l
  BY DEF l
<1>3. \A i, j \in 1 .. l : fs[i].name = fs[j].name => i = j
  BY DEF Distinct, l
<1>4. Distinct(gs)
  <2>1. ASSUME NEW i \in 1 .. Len(gs), NEW j \in 1 .. Len(gs), gs[i].name = gs[j].name
        PROVE  i = j
    <3>1. PICK p \in 1 .. l : gs[i] = fs[p] /\ p = IF i < x THEN i ELSE i + 1
      BY <1>1
    <3>2. PICK q \in 1 .. l : gs[j] = fs[q] /\ q = IF j < x THEN j ELSE j + 1
      BY <1>1
    <3>3. p = q
      BY <1>3, <2>1, <3>1, <3>2
    <3>4. Len(gs) \in Nat
      BY <1>1, ProperFacts
    <3>5. x \in Int /\ i \in Int /\ j \in Int
      BY <1>2, <3>4
    <3>6. (IF i < x THEN i ELSE i + 1) = (IF j < x THEN j ELSE j + 1)
      BY <3>1, <3>2, <3>3
    <3> QED
      BY <3>5, <3>6
  <2> QED
    BY <1>1, <2>1 DEF Distinct
<1>5. NamesOf(gs) = NamesOf(fs) \ {fs[x].name}
  <2>1. ASSUME NEW n \in NamesOf(gs) PROVE n \in NamesOf(fs) /\ n # fs[x].name
    <3>1. PICK i \in 1 .. Len(gs) : n = gs[i].name
      BY <2>1 DEF NamesOf
    <3>2. PICK j \in 1 .. l : gs[i] = fs[j] /\ j # x
      BY <1>1
    <3>3. fs[j].name # fs[x].name
      BY <1>2, <1>3, <3>2
    <3> QED
      BY <3>1, <3>2, <3>3 DEF NamesOf, l
  <2>2. ASSUME NEW n \in NamesOf(fs), n # fs[x].name PROVE n \in NamesOf(gs)
    <3>1. PICK i \in 1 .. l : n = fs[i].name
      BY <2>2 DEF NamesOf, l
    <3>2. i # x
      BY <2>2, <3>1
    <3>3. i \in 1 .. x - 1 \/ i \in x + 1 .. l
      BY <1>1, <1>2, <3>2
    <3>4. \E k \in 1 .. Len(gs) : gs[k] = fs[i]
      BY <1>1, <3>3
    <3> QED
      BY <3>1, <3>4 DEF NamesOf
  <2> QED
    BY <2>1, <2>2
<1>6. ASSUME NEW n \in NamesOf(gs) PROVE MapOf(gs)[n] = MapOf(fs)[n]
  <2>1. PICK i \in 1 .. Len(gs) : n = gs[i].name
    BY DEF NamesOf
  <2>2. PICK j \in 1 .. l : gs[i] = fs[j]
    BY <1>1
  <2>3. MapOf(gs)[gs[i].name] = gs[i].cap
    BY <1>4, MapLooksUp
  <2>4. MapOf(fs)[fs[j].name] = fs[j].cap
    BY MapLooksUp DEF l
  <2> QED
    BY <2>1, <2>2, <2>3, <2>4
<1>7. MapOf(gs) = [n \in NamesOf(gs) |-> MapOf(gs)[n]]
  BY DEF MapOf
<1> QED
  BY <1>4, <1>5, <1>6, <1>7 DEF gs

\* Statements that lead to a name's being stored, with that name; and statements
\* that lead to memfsmgr's subscribing.
Stores(s) == \/ s.do = "append"
             \/ s.do = "publish" /\ s.path = "cmd/store"
             \/ s.do = "callback" /\ s.service = "memfs" /\ s.n.path = "cmd/store"

Wanted(s) == IF s.do = "append" THEN s.file.name
             ELSE Cut[IF s.do = "publish" THEN s.value.name ELSE s.n.value.name]

Enters(s) == s.do \in {"main", "subscribe"} /\ s.service = "memfs"

\* At most one statement is left that leads to the storing of a name, which is not
\* in the table; an entry is removed right after it was found; and memfsmgr
\* subscribes once.
Removes(s) == s.index \in 1 .. Len(files) /\ files[s.index].name = s.name

StoreTold ==
    /\ Distinct(files)
    /\ \A i, j \in 1 .. Len(work) : Stores(work[i]) /\ Stores(work[j]) => i = j
    /\ \A i \in 1 .. Len(work) : Stores(work[i]) => Wanted(work[i]) \notin NamesOf(files)
    /\ \A i \in 1 .. Len(work) : work[i].do = "remove" => i = 1 /\ Removes(work[i])

EnterTold ==
    /\ \A i, j \in 1 .. Len(work) : Enters(work[i]) /\ Enters(work[j]) => i = j
    /\ \A i, j \in 1 .. Len(subs) : subs[i] = "memfs" /\ subs[j] = "memfs" => i = j
    /\ \A i \in 1 .. Len(work) : Enters(work[i]) => ~Subscribed("memfs")

\* A statement that one of a set replaces is the only one of the set still.
LEMMA OneLeft ==
    ASSUME Shape, ~Quiet, NEW called, Proper(called), Continue(called), NEW S,
           \A i, j \in 1 .. Len(work) : work[i] \in S /\ work[j] \in S => i = j,
           \A i, j \in 1 .. Len(called) : called[i] \in S /\ called[j] \in S => i = j,
           \A i \in 1 .. Len(called) : called[i] \in S => Now \in S
    PROVE  /\ \A i, j \in 1 .. Len(work') : work'[i] \in S /\ work'[j] \in S => i = j
           /\ Now \in S => \A j \in 2 .. Len(work) : work[j] \notin S
<1>1. \A i \in 1 .. Len(work') :
         \/ i \in 1 .. Len(called) /\ work'[i] = called[i]
         \/ \E j \in 2 .. Len(work) : i = Len(called) + j - 1 /\ work'[i] = work[j]
  BY Places DEF Shape
<1>2. Len(work) \in Nat \ {0} /\ Now = work[1]
  BY Nowhere
<1>3. Now \in S => \A j \in 2 .. Len(work) : work[j] \notin S
  <2> SUFFICES ASSUME Now \in S, NEW j \in 2 .. Len(work), work[j] \in S PROVE FALSE
    OBVIOUS
  <2>1. 1 \in 1 .. Len(work) /\ j \in 1 .. Len(work) /\ j # 1
    BY <1>2
  <2> QED
    BY <1>2, <2>1
<1>4. ASSUME NEW i \in 1 .. Len(work'), NEW k \in 1 .. Len(work'), work'[i] \in S, work'[k] \in S
      PROVE  i = k
  <2>1. CASE i \in 1 .. Len(called) /\ work'[i] = called[i]
    <3>1. \A j \in 2 .. Len(work) : work[j] \notin S
      BY <1>3, <1>4, <2>1
    <3>2. k \in 1 .. Len(called) /\ work'[k] = called[k]
      BY <1>1, <1>4, <3>1
    <3> QED
      BY <1>4, <2>1, <3>2
  <2>2. CASE \E j \in 2 .. Len(work) : i = Len(called) + j - 1 /\ work'[i] = work[j]
    <3>1. PICK j \in 2 .. Len(work) : i = Len(called) + j - 1 /\ work'[i] = work[j]
      BY <2>2
    <3>2. Now \notin S
      BY <1>3, <1>4, <3>1
    <3>3. PICK h \in 2 .. Len(work) : k = Len(called) + h - 1 /\ work'[k] = work[h]
      BY <1>1, <1>4, <3>2
    <3>4. j \in 1 .. Len(work) /\ h \in 1 .. Len(work)
      BY <1>2
    <3>5. j = h
      BY <1>4, <3>1, <3>3, <3>4
    <3> QED
      BY <3>1, <3>3, <3>5
  <2> QED
    BY <1>1, <2>1, <2>2
<1> QED
  BY <1>3, <1>4

LEMMA StoreKept ==
    ASSUME Shape, ~Quiet, StoreTold, NEW called, Proper(called), Continue(called),
           Distinct(files)',
           \A i, j \in 1 .. Len(called) : Stores(called[i]) /\ Stores(called[j]) => i = j,
           \A i \in 1 .. Len(called) : Stores(called[i]) => /\ Stores(Now) /\ files' = files
                                                           /\ Wanted(called[i]) = Wanted(Now),
           NamesOf(files)' \subseteq NamesOf(files) \/ Stores(Now),
           \A i \in 1 .. Len(called) : called[i].do = "remove" => i = 1 /\ Removes(called[i])'
    PROVE  StoreTold'
<1>1. \A i \in 1 .. Len(work') :
         \/ i \in 1 .. Len(called) /\ work'[i] = called[i]
         \/ \E j \in 2 .. Len(work) : i = Len(called) + j - 1 /\ work'[i] = work[j]
  BY Places DEF Shape
<1>2. Len(work) \in Nat \ {0} /\ Now = work[1] /\ 1 \in 1 .. Len(work)
  BY Nowhere
<1> DEFINE S == {s \in {work[i] : i \in 1 .. Len(work)} \cup {called[i] : i \in 1 .. Len(called)} :
                     Stores(s)}
<1>3. /\ \A i \in 1 .. Len(work) : work[i] \in S <=> Stores(work[i])
      /\ \A i \in 1 .. Len(called) : called[i] \in S <=> Stores(called[i])
      /\ Now \in S <=> Stores(Now)
  BY <1>2
<1> HIDE DEF S
<1>4. /\ \A i, j \in 1 .. Len(work) : work[i] \in S /\ work[j] \in S => i = j
      /\ \A i, j \in 1 .. Len(called) : called[i] \in S /\ called[j] \in S => i = j
      /\ \A i \in 1 .. Len(called) : called[i] \in S => Now \in S
  BY <1>3 DEF StoreTold
<1>5. /\ \A i, j \in 1 .. Len(work') : work'[i] \in S /\ work'[j] \in S => i = j
      /\ Now \in S => \A j \in 2 .. Len(work) : work[j] \notin S
  BY <1>4, OneLeft
<1>6. \A j \in 2 .. Len(work) : j \in 1 .. Len(work) /\ j # 1
  BY <1>2
<1>7. \A i \in 1 .. Len(work') : Stores(work'[i]) => work'[i] \in S
  BY <1>1, <1>3, <1>6
<1>8. ASSUME NEW i \in 1 .. Len(work'), Stores(work'[i])
      PROVE  Wanted(work'[i]) \notin NamesOf(files')
  <2>1. CASE i \in 1 .. Len(called) /\ work'[i] = called[i]
    <3>1. Stores(Now) /\ files' = files /\ Wanted(called[i]) = Wanted(Now)
      BY <1>8, <2>1
    <3>2. Wanted(Now) \notin NamesOf(files)
      BY <1>2, <3>1 DEF StoreTold
    <3> QED
      BY <2>1, <3>1, <3>2
  <2>2. ASSUME NEW j \in 2 .. Len(work), work'[i] = work[j]
        PROVE  Wanted(work'[i]) \notin NamesOf(files')
    <3>1. j \in 1 .. Len(work) /\ Stores(work[j])
      BY <1>6, <1>8, <2>2
    <3>2. Wanted(work[j]) \notin NamesOf(files)
      BY <3>1 DEF StoreTold
    <3>3. ~Stores(Now)
      BY <1>3, <1>5, <3>1
    <3> QED
      BY <2>2, <3>2, <3>3
  <2> QED
    BY <1>1, <2>1, <2>2
<1>9. ASSUME NEW i \in 1 .. Len(work'), work'[i].do = "remove"
      PROVE  i = 1 /\ Removes(work[i])'
  <2>1. ASSUME NEW j \in 2 .. Len(work), work'[i] = work[j] PROVE FALSE
    BY <1>6, <1>9, <2>1 DEF StoreTold
  <2>2. i \in 1 .. Len(called) /\ work'[i] = called[i]
    BY <1>1, <2>1
  <2> QED
    BY <1>9, <2>2 DEF Removes
<1> QED
  BY <1>5, <1>7, <1>8, <1>9 DEF StoreTold

LEMMA EnterKept ==
    ASSUME Shape, ~Quiet, EnterTold, NEW called, Proper(called), Continue(called),
           \A i, j \in 1 .. Len(called) : Enters(called[i]) /\ Enters(called[j]) => i = j,
           \A i \in 1 .. Len(called) : Enters(called[i]) => Enters(Now) /\ subs' = subs,
           \A i, j \in 1 .. Len(subs') : subs'[i] = "memfs" /\ subs'[j] = "memfs" => i = j,
           ~Subscribed("memfs") => ~Subscribed("memfs")' \/ Enters(Now)
    PROVE  EnterTold'
<1>1. \A i \in 1 .. Len(work') :
         \/ i \in 1 .. Len(called) /\ work'[i] = called[i]
         \/ \E j \in 2 .. Len(work) : i = Len(called) + j - 1 /\ work'[i] = work[j]
  BY Places DEF Shape
<1>2. Len(work) \in Nat \ {0} /\ Now = work[1] /\ 1 \in 1 .. Len(work)
  BY Nowhere
<1> DEFINE S == {s \in {work[i] : i \in 1 .. Len(work)} \cup {called[i] : i \in 1 .. Len(called)} :
                     Enters(s)}
<1>3. /\ \A i \in 1 .. Len(work) : work[i] \in S <=> Enters(work[i])
      /\ \A i \in 1 .. Len(called) : called[i] \in S <=> Enters(called[i])
      /\ Now \in S <=> Enters(Now)
  BY <1>2
<1> HIDE DEF S
<1>4. /\ \A i, j \in 1 .. Len(work) : work[i] \in S /\ work[j] \in S => i = j
      /\ \A i, j \in 1 .. Len(called) : called[i] \in S /\ called[j] \in S => i = j
      /\ \A i \in 1 .. Len(called) : called[i] \in S => Now \in S
  BY <1>3 DEF EnterTold
<1>5. /\ \A i, j \in 1 .. Len(work') : work'[i] \in S /\ work'[j] \in S => i = j
      /\ Now \in S => \A j \in 2 .. Len(work) : work[j] \notin S
  BY <1>4, OneLeft
<1>6. \A j \in 2 .. Len(work) : j \in 1 .. Len(work)
  BY <1>2
<1>7. \A i \in 1 .. Len(work') : Enters(work'[i]) => work'[i] \in S
  BY <1>1, <1>3, <1>6
<1>8. ASSUME NEW i \in 1 .. Len(work'), Enters(work'[i]) PROVE ~Subscribed("memfs")'
  <2>1. CASE i \in 1 .. Len(called) /\ work'[i] = called[i]
    <3>1. Enters(Now) /\ subs' = subs
      BY <1>8, <2>1
    <3> QED
      BY <1>2, <3>1 DEF EnterTold, Subscribed
  <2>2. ASSUME NEW j \in 2 .. Len(work), work'[i] = work[j] PROVE ~Subscribed("memfs")'
    <3>1. j \in 1 .. Len(work) /\ Enters(work[j])
      BY <1>6, <1>8, <2>2
    <3>2. ~Enters(Now)
      BY <1>3, <1>5, <3>1
    <3> QED
      BY <3>1, <3>2 DEF EnterTold
  <2> QED
    BY <1>1, <2>1, <2>2
<1> QED
  BY <1>5, <1>7, <1>8 DEF EnterTold

FileTold == StoreTold /\ EnterTold

\* Statements that have nothing to do with the table.
Idle(c) == Proper(c) /\ \A i \in 1 .. Len(c) : ~Stores(c[i]) /\ ~Enters(c[i]) /\ c[i].do # "remove"

LEMMA IdleStatements ==
    /\ \A c : AllAside(c) => Idle(c)
    /\ \A c : Ordinary(c) /\ AllApart(c) => Idle(c)
<1>1. \A s : Apart(s) /\ s.do \notin {"main", "callback"} => ~Stores(s) /\ ~Enters(s) /\ s.do # "remove"
  BY DEF Apart, Fileless, Stores, Enters
<1>2. \A s : Steady(s) => s.do \notin {"main", "callback"}
  BY DEF Steady, Harmless
<1> QED
  BY <1>1, <1>2 DEF AllAside, AllSteady, AllApart, Ordinary, Idle

LEMMA FilesUntouched ==
    ASSUME Shape, ~Quiet, FileTold, UNCHANGED <<files, subs>>,
           NEW called, Idle(called), Continue(called)
    PROVE  FileTold'
<1>1. /\ Proper(called)
      /\ \A i \in 1 .. Len(called) : /\ ~Stores(called[i]) /\ ~Enters(called[i])
                                     /\ called[i].do # "remove"
  BY DEF Idle
<1>2. StoreTold'
  <2>1. Distinct(files)' /\ NamesOf(files)' \subseteq NamesOf(files)
    BY DEF FileTold, StoreTold
  <2> QED
    BY <1>1, <2>1, StoreKept DEF FileTold
<1>3. EnterTold'
  <2>1. /\ \A i, j \in 1 .. Len(subs') : subs'[i] = "memfs" /\ subs'[j] = "memfs" => i = j
        /\ ~Subscribed("memfs") => ~Subscribed("memfs")'
    BY DEF FileTold, EnterTold, Subscribed
  <2> QED
    BY <1>1, <2>1, EnterKept DEF FileTold
<1> QED
  BY <1>2, <1>3 DEF FileTold

\* memfsmgr subscribes at the end of its entry.
LEMMA MemFsMainEnters ==
    /\ Proper(MemFsMain)
    /\ \A i \in 1 .. Len(MemFsMain) : ~Stores(MemFsMain[i]) /\ MemFsMain[i].do # "remove"
    /\ \A i, j \in 1 .. Len(MemFsMain) : Enters(MemFsMain[i]) /\ Enters(MemFsMain[j]) => i = j
<1> DEFINE a == MemFsStatus(<<>>)
           b == <<Subscribe("memfs")>>
           c == a \o b
<1>1. MemFsMain = c
  BY DEF MemFsMain
<1>2. Idle(a)
  BY MemFsCalls, IdleStatements
<1>3. Proper(b) /\ Len(b) = 1 /\ b[1].do = "subscribe"
  BY ProperTuples DEF Subscribe
<1> HIDE DEF a, b, c
<1>4. Proper(a) /\ Len(a) \in Nat
  BY <1>2, ProperFacts DEF Idle
<1>5. /\ Proper(c) /\ Len(c) = Len(a) + 1
      /\ \A i \in 1 .. Len(a) : c[i] = a[i]
      /\ \A i \in 1 .. Len(b) : c[Len(a) + i] = b[i]
  <2>1. Proper(a) /\ Proper(b)
    BY <1>3, <1>4
  <2>2. /\ Proper(c) /\ Len(c) = Len(a) + Len(b)
        /\ \A i \in 1 .. Len(a) : c[i] = a[i]
        /\ \A i \in 1 .. Len(b) : c[Len(a) + i] = b[i]
    BY <2>1, ProperConcat DEF c
  <2> QED
    BY <1>3, <2>2
<1>6. c[Len(a) + 1] = b[1]
  BY <1>3, <1>5
<1>7. \A i \in 1 .. Len(c) : i \in 1 .. Len(a) \/ i = Len(a) + 1
  BY <1>4, <1>5
<1>8. \A i \in 1 .. Len(a) : ~Stores(a[i]) /\ ~Enters(a[i]) /\ a[i].do # "remove"
  BY <1>2 DEF Idle
<1>9. ~Stores(b[1]) /\ b[1].do # "remove"
  BY <1>3 DEF Stores
<1>10. \A i \in 1 .. Len(c) : /\ ~Stores(c[i]) /\ c[i].do # "remove"
                              /\ Enters(c[i]) => i = Len(a) + 1
  <2>1. \A i \in 1 .. Len(a) : ~Stores(c[i]) /\ ~Enters(c[i]) /\ c[i].do # "remove"
    BY <1>5, <1>8
  <2>2. ~Stores(c[Len(a) + 1]) /\ c[Len(a) + 1].do # "remove"
    BY <1>6, <1>9
  <2> QED
    BY <1>7, <2>1, <2>2, Zenon
<1> QED
  BY <1>1, <1>5, <1>10

LEMMA FilesOnMain == Shape /\ StorageAway /\ FileTold /\ CallMain => FileTold'
<1> SUFFICES ASSUME Shape, StorageAway, FileTold, CallMain PROVE FileTold'
  OBVIOUS
<1>1. /\ ~Quiet /\ Now.do = "main" /\ Continue(Main(Now.service)) /\ UNCHANGED <<files, subs>>
  BY DEF CallMain, Runs, Now, serviceVars
<1>2. Now.service \in ServiceNames /\ Now.service # "storage"
  BY <1>1, Nowhere DEF Shape, StorageAway, Foreign
<1>3. CASE AllAside(Main(Now.service)) \/ Main(Now.service) = HttpMain
  <2>1. Idle(HttpMain)
    BY HttpCalls, OrdinaryStatements, ReportsApart, IdleStatements
  <2>2. PICK called : Idle(called) /\ Continue(called)
    BY <1>1, <1>3, <2>1, IdleStatements
  <2> QED
    BY <1>1, <2>2, FilesUntouched
<1>4. CASE Now.service = "memfs" /\ Main(Now.service) = MemFsMain
  <2>1. PICK called :
           /\ Proper(called) /\ Continue(called)
           /\ \A i \in 1 .. Len(called) : ~Stores(called[i]) /\ called[i].do # "remove"
           /\ \A i, j \in 1 .. Len(called) : Enters(called[i]) /\ Enters(called[j]) => i = j
    BY <1>1, <1>4, MemFsMainEnters
  <2>2. Enters(Now)
    BY <1>1, <1>4 DEF Enters
  <2>3. StoreTold'
    <3>1. Distinct(files)' /\ NamesOf(files)' \subseteq NamesOf(files)
      BY <1>1 DEF FileTold, StoreTold
    <3> QED
      BY <1>1, <2>1, <3>1, StoreKept DEF FileTold
  <2>4. EnterTold'
    <3>1. \A i, j \in 1 .. Len(subs') : subs'[i] = "memfs" /\ subs'[j] = "memfs" => i = j
      BY <1>1 DEF FileTold, EnterTold
    <3> QED
      BY <1>1, <2>1, <2>2, <3>1, EnterKept DEF FileTold
  <2> QED
    BY <2>3, <2>4 DEF FileTold
<1> QED
  BY <1>2, <1>3, <1>4, MainsInDetail

LEMMA FilesOnSubscribes == Shape /\ FileTold /\ Subscribes => FileTold'
<1> SUFFICES ASSUME Shape, FileTold, Subscribes PROVE FileTold'
  OBVIOUS
<1>1. /\ ~Quiet /\ Now.do = "subscribe" /\ Continue(<<>>) /\ files' = files
      /\ subs' = Append(subs, Now.service)
  BY DEF Subscribes, Runs, Now, serviceVars
<1>2. Proper(<<>>) /\ Len(<<>>) = 0
  BY ProperTuples
<1>3. PICK called : Proper(called) /\ Len(called) = 0 /\ Continue(called)
  BY <1>1, <1>2
<1>4. /\ Len(subs) \in Nat /\ Len(subs') = Len(subs) + 1
      /\ \A m \in 1 .. Len(subs) : subs'[m] = subs[m]
      /\ subs'[Len(subs) + 1] = Now.service
  BY <1>1, AppendProperties, ProperFacts DEF Shape, Proper
<1>5. \A m \in 1 .. Len(subs') : m \in 1 .. Len(subs) \/ m = Len(subs) + 1
  BY <1>4
<1>6. Now.service = "memfs" => Enters(Now) /\ ~Subscribed("memfs")
  <2> SUFFICES ASSUME Now.service = "memfs" PROVE Enters(Now) /\ ~Subscribed("memfs")
    OBVIOUS
  <2>1. Enters(Now)
    BY <1>1 DEF Enters
  <2>2. Now = work[1] /\ 1 \in 1 .. Len(work)
    BY <1>1, Nowhere
  <2> QED
    BY <2>1, <2>2 DEF FileTold, EnterTold
<1>7. StoreTold'
  <2>1. Distinct(files)' /\ NamesOf(files)' \subseteq NamesOf(files)
    BY <1>1 DEF FileTold, StoreTold
  <2> QED
    BY <1>1, <1>3, <2>1, StoreKept DEF FileTold
<1>8. EnterTold'
  <2>1. \A i, j \in 1 .. Len(subs) : subs[i] = "memfs" /\ subs[j] = "memfs" => i = j
    BY DEF FileTold, EnterTold
  <2>2. Now.service = "memfs" => \A i \in 1 .. Len(subs) : subs[i] # "memfs"
    BY <1>6 DEF Subscribed
  <2>3. \A i, j \in 1 .. Len(subs') : subs'[i] = "memfs" /\ subs'[j] = "memfs" => i = j
    BY <1>4, <1>5, <2>1, <2>2
  <2>4. ~Subscribed("memfs") => ~Subscribed("memfs")' \/ Enters(Now)
    BY <1>4, <1>5, <1>6 DEF Subscribed
  <2> QED
    BY <1>1, <1>3, <2>3, <2>4, EnterKept DEF FileTold
<1> QED
  BY <1>7, <1>8 DEF FileTold

LEMMA FilesOnPublish == Shape /\ FileTold /\ Publish => FileTold'
<1> SUFFICES ASSUME Shape, FileTold, Publish PROVE FileTold'
  OBVIOUS
<1>1. ~Quiet /\ Now.do = "publish" /\ UNCHANGED <<files, subs>>
  BY PublishCalls DEF serviceVars
<1>2. PICK called : /\ Proper(called) /\ Continue(called) /\ Len(called) = Len(subs)
                    /\ \A m \in 1 .. Len(subs) :
                          called[m] = [do |-> "callback", service |-> subs[m], n |-> Now]
  BY PublishCalls
<1>3. ASSUME NEW m \in 1 .. Len(called)
      PROVE  /\ called[m].do = "callback" /\ called[m].n = Now
             /\ called[m].service = subs[m] /\ m \in 1 .. Len(subs)
  <2>1. called[m] = [do |-> "callback", service |-> subs[m], n |-> Now]
    BY <1>2
  <2> QED
    BY <1>2, <2>1
<1>4. \A m \in 1 .. Len(called) : ~Enters(called[m]) /\ called[m].do # "remove"
  BY <1>3 DEF Enters
<1>5. ASSUME NEW m \in 1 .. Len(called), Stores(called[m])
      PROVE  Stores(Now) /\ Wanted(called[m]) = Wanted(Now) /\ subs[m] = "memfs" /\ m \in 1 .. Len(subs)
  <2>1. called[m].service = "memfs" /\ called[m].n.path = "cmd/store"
    BY <1>3, <1>5 DEF Stores
  <2>2. Stores(Now)
    BY <1>1, <1>3, <2>1 DEF Stores
  <2>3. Wanted(called[m]) = Wanted(Now)
    BY <1>1, <1>3 DEF Wanted
  <2> QED
    BY <1>3, <2>1, <2>2, <2>3
<1>6. \A i, j \in 1 .. Len(called) : Stores(called[i]) /\ Stores(called[j]) => i = j
  BY <1>5 DEF FileTold, EnterTold
<1>7. StoreTold'
  <2>1. Distinct(files)' /\ NamesOf(files)' \subseteq NamesOf(files)
    BY <1>1 DEF FileTold, StoreTold
  <2> QED
    BY <1>1, <1>2, <1>4, <1>5, <1>6, <2>1, StoreKept DEF FileTold
<1>8. EnterTold'
  <2>1. /\ \A i, j \in 1 .. Len(subs') : subs'[i] = "memfs" /\ subs'[j] = "memfs" => i = j
        /\ ~Subscribed("memfs") => ~Subscribed("memfs")'
    BY <1>1 DEF FileTold, EnterTold, Subscribed
  <2> QED
    BY <1>1, <1>2, <1>4, <2>1, EnterKept DEF FileTold
<1> QED
  BY <1>7, <1>8 DEF FileTold

\* memfsmgr asks for a name of its own request, and removes the entry it found.
LEMMA StoreCalls ==
    ASSUME NEW x
    PROVE  /\ Proper(Store(x)) /\ Len(Store(x)) <= 1
           /\ Len(files) >= MaxFiles => Len(Store(x)) = 0
           /\ \A i \in 1 .. Len(Store(x)) :
                 Store(x)[i].do = "append" /\ Store(x)[i].file.name = Cut[x.name]
<1> DEFINE file == [name |-> Cut[x.name], cap |-> x.cap, bytes |-> x.bytes]
           s == [do |-> "append", file |-> file]
<1>1. s.do = "append" /\ s.file.name = Cut[x.name]
  OBVIOUS
<1>2. Store(x) = <<>> \/ (~(Len(files) >= MaxFiles) /\ Store(x) = <<s>>)
  BY DEF Store
<1> HIDE DEF s
<1>3. /\ Proper(<<s>>) /\ Len(<<s>>) = 1 /\ <<s>>[1] = s
      /\ Proper(<<>>) /\ Len(<<>>) = 0
  BY ProperTuples
<1> DEFINE c == Store(x)
<1> HIDE DEF file, c
<1>4. CASE c = <<>>
  BY <1>3, <1>4 DEF c
<1>5. CASE ~(Len(files) >= MaxFiles) /\ c = <<s>>
  <2>1. Proper(c) /\ Len(c) = 1 /\ c[1] = s
    BY <1>3, <1>5
  <2>2. \A i \in 1 .. Len(c) : c[i].do = "append" /\ c[i].file.name = Cut[x.name]
    BY <1>1, <2>1
  <2> QED
    BY <1>5, <2>1, <2>2 DEF c
<1> QED
  BY <1>2, <1>4, <1>5 DEF c

LEMMA MemRmCalls ==
    ASSUME Proper(files), NEW name
    PROVE  /\ Proper(MemRm(name)) /\ Len(MemRm(name)) <= 1
           /\ \A i \in 1 .. Len(MemRm(name)) :
                 MemRm(name)[i].do = "remove" /\ Removes(MemRm(name)[i])
<1> DEFINE s == [do |-> "remove", name |-> name, index |-> FindFile(name)]
<1>1. FindFile(name) = FirstOf(files, name)
  BY DEF FindFile, FirstOf
<1>2. FindFile(name) # 0 => Removes(s)
  BY <1>1, FoundFirst DEF Removes
<1>3. s.do = "remove"
  OBVIOUS
<1>4. MemRm(name) = <<>> \/ (FindFile(name) # 0 /\ MemRm(name) = <<s>>)
  BY DEF MemRm
<1> HIDE DEF s
<1>5. /\ Proper(<<s>>) /\ Len(<<s>>) = 1 /\ <<s>>[1] = s
      /\ Proper(<<>>) /\ Len(<<>>) = 0
  BY ProperTuples
<1> DEFINE c == MemRm(name)
<1> HIDE DEF c
<1>6. c = <<>> \/ (Removes(s) /\ c = <<s>>)
  BY <1>2, <1>4 DEF c
<1>7. /\ Proper(c) /\ Len(c) <= 1
      /\ \A i \in 1 .. Len(c) : c[i].do = "remove" /\ Removes(c[i])
  <2>1. CASE c = <<>>
    BY <1>5, <2>1
  <2>2. CASE Removes(s) /\ c = <<s>>
    <3>1. Len(c) = 1 /\ c[1] = s /\ Proper(c)
      BY <1>5, <2>2
    <3>2. \A i \in 1 .. Len(c) : c[i] = s
      BY <3>1
    <3> QED
      BY <1>3, <2>2, <3>1, <3>2
  <2> QED
    BY <1>6, <2>1, <2>2
<1> QED
  BY <1>7 DEF c

LEMMA FilesOnCallback == Shape /\ StorageAway /\ FileTold /\ Callback => FileTold'
<1> SUFFICES ASSUME Shape, StorageAway, FileTold, Callback PROVE FileTold'
  OBVIOUS
<1>1. /\ ~Quiet /\ Now.do = "callback" /\ UNCHANGED <<files, subs>>
      /\ Now.service \in ServiceNames /\ Subscribed(Now.service)
      /\ Continue(Heard(Now.service, Now.n))
  BY CallbackCalls DEF serviceVars
<1>2. Now.service # "storage"
  BY <1>1 DEF StorageAway, Subscribed
<1>3. /\ Ordinary(Heard(Now.service, Now.n))
      /\ \/ AllApart(Heard(Now.service, Now.n))
         \/ /\ Now.service = "memfs" /\ Now.n.path = "cmd/store"
            /\ Heard(Now.service, Now.n) = Store(Now.n.value)
         \/ Heard(Now.service, Now.n) = MemRm(Now.n.value.name)
  BY <1>1, <1>2, HeardApart
<1>4. StoreTold /\ EnterTold
  BY DEF FileTold
<1>5. Distinct(files)' /\ NamesOf(files)' \subseteq NamesOf(files)
  BY <1>1, <1>4 DEF StoreTold
<1>6. /\ \A i, j \in 1 .. Len(subs') : subs'[i] = "memfs" /\ subs'[j] = "memfs" => i = j
      /\ ~Subscribed("memfs") => ~Subscribed("memfs")'
  BY <1>1, <1>4 DEF EnterTold, Subscribed
<1>7. CASE AllApart(Heard(Now.service, Now.n))
  <2>1. PICK called : Idle(called) /\ Continue(called)
    BY <1>1, <1>3, <1>7, IdleStatements
  <2> QED
    BY <1>1, <2>1, FilesUntouched
<1>8. CASE /\ Now.service = "memfs" /\ Now.n.path = "cmd/store"
           /\ Heard(Now.service, Now.n) = Store(Now.n.value)
  <2>1. PICK called :
           /\ Proper(called) /\ Continue(called) /\ Len(called) <= 1
           /\ \A i \in 1 .. Len(called) :
                 called[i].do = "append" /\ called[i].file.name = Cut[Now.n.value.name]
    BY <1>1, <1>8, StoreCalls
  <2>2. Stores(Now)
    BY <1>1, <1>8 DEF Stores
  <2>3. ASSUME NEW i \in 1 .. Len(called)
        PROVE  /\ Wanted(called[i]) = Wanted(Now) /\ ~Enters(called[i]) /\ called[i].do # "remove"
               /\ i = 1
    <3>1. called[i].do = "append" /\ called[i].file.name = Cut[Now.n.value.name]
      BY <2>1
    <3>2. i = 1
      BY <2>1, ProperFacts
    <3> QED
      BY <1>1, <3>1, <3>2 DEF Wanted, Enters
  <2>4. StoreTold'
    BY <1>1, <1>4, <1>5, <2>1, <2>2, <2>3, StoreKept
  <2>5. EnterTold'
    BY <1>1, <1>4, <1>6, <2>1, <2>3, EnterKept
  <2> QED
    BY <2>4, <2>5 DEF FileTold
<1>9. CASE Heard(Now.service, Now.n) = MemRm(Now.n.value.name)
  <2>1. PICK called :
           /\ Proper(called) /\ Continue(called) /\ Len(called) <= 1
           /\ \A i \in 1 .. Len(called) : called[i].do = "remove" /\ Removes(called[i])
    BY <1>1, <1>4, <1>9, MemRmCalls DEF StoreTold, Distinct
  <2>2. ASSUME NEW i \in 1 .. Len(called)
        PROVE  ~Stores(called[i]) /\ ~Enters(called[i]) /\ i = 1 /\ Removes(called[i])'
    <3>1. ~Stores(called[i]) /\ ~Enters(called[i])
      BY <2>1 DEF Stores, Enters
    <3>2. i = 1
      BY <2>1, ProperFacts
    <3>3. Removes(called[i])'
      BY <1>1, <2>1 DEF Removes
    <3> QED
      BY <3>1, <3>2, <3>3
  <2>3. StoreTold'
    BY <1>1, <1>4, <1>5, <2>1, <2>2, StoreKept
  <2>4. EnterTold'
    BY <1>1, <1>4, <1>6, <2>1, <2>2, EnterKept
  <2> QED
    BY <2>3, <2>4 DEF FileTold
<1> QED
  BY <1>3, <1>7, <1>8, <1>9

\* What memfsmgr does to its table.
LEMMA FilesOnAppend ==
    ASSUME Shape, FileTold, AppendFile
    PROVE  /\ FileTold' /\ Now.file.name \notin NamesOf(files)
           /\ NamesOf(files') = NamesOf(files) \cup {Now.file.name}
           /\ \A n \in NamesOf(files') :
                 MapOf(files')[n] = IF n = Now.file.name THEN Now.file.cap ELSE MapOf(files)[n]
<1>1. /\ ~Quiet /\ Now.do = "append" /\ files' = Append(files, Now.file) /\ subs' = subs
      /\ Continue(MemFsStatus(files'))
  BY DEF AppendFile, Runs, Now
<1>2. PICK called : Idle(called) /\ Continue(called)
  BY <1>1, MemFsCalls, IdleStatements
<1>3. Stores(Now) /\ Wanted(Now) = Now.file.name
  BY <1>1 DEF Stores, Wanted
<1>4. Now.file.name \notin NamesOf(files) /\ Distinct(files)
  <2>1. Now = work[1] /\ 1 \in 1 .. Len(work)
    BY <1>1, Nowhere
  <2>2. Wanted(Now) \notin NamesOf(files)
    BY <1>3, <2>1 DEF FileTold, StoreTold
  <2> QED
    BY <1>3, <2>2 DEF FileTold, StoreTold
<1>5. /\ Distinct(files') /\ NamesOf(files') = NamesOf(files) \cup {Now.file.name}
      /\ \A n \in NamesOf(files') :
            MapOf(files')[n] = IF n = Now.file.name THEN Now.file.cap ELSE MapOf(files)[n]
  <2> DEFINE f == Now.file
  <2>1. files' = Append(files, f) /\ f.name \notin NamesOf(files) /\ Distinct(files)
    BY <1>1, <1>4
  <2> HIDE DEF f
  <2>2. /\ Distinct(Append(files, f)) /\ NamesOf(Append(files, f)) = NamesOf(files) \cup {f.name}
        /\ \A n \in NamesOf(Append(files, f)) :
              MapOf(Append(files, f))[n] = IF n = f.name THEN f.cap ELSE MapOf(files)[n]
    BY <2>1, Stored
  <2>3. /\ Distinct(files') /\ NamesOf(files') = NamesOf(files) \cup {f.name}
        /\ \A n \in NamesOf(files') :
              MapOf(files')[n] = IF n = f.name THEN f.cap ELSE MapOf(files)[n]
    BY <2>1, <2>2
  <2> QED
    BY <2>3 DEF f
<1>6. /\ Proper(called)
      /\ \A i \in 1 .. Len(called) : /\ ~Stores(called[i]) /\ ~Enters(called[i])
                                     /\ called[i].do # "remove"
  BY <1>2 DEF Idle
<1>7. StoreTold'
  <2>1. Distinct(files)'
    BY <1>5 DEF Distinct, Proper
  <2> QED
    BY <1>1, <1>2, <1>3, <1>6, <2>1, StoreKept DEF FileTold
<1>8. EnterTold'
  <2>1. /\ \A i, j \in 1 .. Len(subs') : subs'[i] = "memfs" /\ subs'[j] = "memfs" => i = j
        /\ ~Subscribed("memfs") => ~Subscribed("memfs")'
    BY <1>1 DEF FileTold, EnterTold, Subscribed
  <2> QED
    BY <1>1, <1>2, <1>6, <2>1, EnterKept DEF FileTold
<1> QED
  BY <1>4, <1>5, <1>7, <1>8 DEF FileTold

LEMMA FilesOnRemove ==
    ASSUME Shape, FileTold, RemoveFile
    PROVE  /\ FileTold' /\ Now.name \in NamesOf(files)
           /\ NamesOf(files') = NamesOf(files) \ {Now.name}
           /\ MapOf(files') = [n \in NamesOf(files) \ {Now.name} |-> MapOf(files)[n]]
<1>1. /\ ~Quiet /\ Now.do = "remove" /\ files' = RemoveAt(files, Now.index) /\ subs' = subs
      /\ Continue(MemFsStatus(files'))
  BY DEF RemoveFile, Runs, Now
<1>2. PICK called : Idle(called) /\ Continue(called)
  BY <1>1, MemFsCalls, IdleStatements
<1>3. /\ Now.index \in 1 .. Len(files) /\ files[Now.index].name = Now.name
      /\ Distinct(files)
  <2>1. Now = work[1] /\ 1 \in 1 .. Len(work)
    BY <1>1, Nowhere
  <2>2. Removes(Now)
    BY <1>1, <2>1 DEF FileTold, StoreTold
  <2> QED
    BY <2>2 DEF FileTold, StoreTold, Removes
<1>4. /\ Distinct(files') /\ NamesOf(files') = NamesOf(files) \ {Now.name}
      /\ MapOf(files') = [n \in NamesOf(files) \ {Now.name} |-> MapOf(files)[n]]
  <2>1. /\ Distinct(RemoveAt(files, Now.index))
        /\ NamesOf(RemoveAt(files, Now.index)) = NamesOf(files) \ {files[Now.index].name}
        /\ MapOf(RemoveAt(files, Now.index)) =
              [n \in NamesOf(files) \ {files[Now.index].name} |-> MapOf(files)[n]]
    BY <1>3, Removed
  <2> QED
    BY <1>1, <1>3, <2>1
<1>5. Now.name \in NamesOf(files)
  BY <1>3 DEF NamesOf
<1>6. /\ Proper(called)
      /\ \A i \in 1 .. Len(called) : /\ ~Stores(called[i]) /\ ~Enters(called[i])
                                     /\ called[i].do # "remove"
  BY <1>2 DEF Idle
<1>7. StoreTold'
  <2>1. Distinct(files)' /\ NamesOf(files)' \subseteq NamesOf(files)
    BY <1>4 DEF Distinct, Proper, NamesOf
  <2> QED
    BY <1>1, <1>2, <1>6, <2>1, StoreKept DEF FileTold
<1>8. EnterTold'
  <2>1. /\ \A i, j \in 1 .. Len(subs') : subs'[i] = "memfs" /\ subs'[j] = "memfs" => i = j
        /\ ~Subscribed("memfs") => ~Subscribed("memfs")'
    BY <1>1 DEF FileTold, EnterTold, Subscribed
  <2> QED
    BY <1>1, <1>2, <1>6, <2>1, EnterKept DEF FileTold
<1> QED
  BY <1>4, <1>5, <1>7, <1>8 DEF FileTold

\* Nobody else touches the table.
LEMMA FileKinds ==
    ASSUME Step
    PROVE  \/ CallMain \/ Subscribes \/ Publish \/ Callback \/ AppendFile \/ RemoveFile
           \/ (Open \/ Decode) /\ files' = files
           \/ Asidely /\ UNCHANGED <<files, subs>>
<1>1. CASE ProbesNext /\ UNCHANGED serviceVars
  BY <1>1, AsidelyReports DEF ProbesNext, EmmcReset, serviceVars
<1>2. CASE AudioNext /\ files' = files
  BY <1>2, AsidelyNothing DEF AudioNext, DacMute, DacVolume, SetClock, Stream
<1>3. CASE DisplayNext /\ files' = files
  BY <1>3, AsidelyNothing, AsidelyReports DEF DisplayNext, InitFramebuffer, Clear, FillBar
<1>4. CASE BluetoothNext /\ files' = files
  BY <1>4, AsidelyNothing DEF BluetoothNext, SetDongle
<1>5. CASE StorageNext /\ files' = files
  BY <1>5, AsidelyNothing, AsidelyReports DEF StorageNext, FreeBuffer, CloseFile, ListRoot
<1> QED
  BY <1>1, <1>2, <1>3, <1>4, <1>5 DEF Step, MemFsNext

\* Where the shell stores new names only, a command leads to the storing of a name
\* that is not in the table.
LEMMA FilesOnArrival ==
    ASSUME Shape, FileTold, Setups[setup].fresh, Command \/ Plug \/ Unplug
    PROVE  FileTold' /\ files' = files
<1>1. Quiet /\ UNCHANGED <<subs, files>>
  BY Arrivals
<1>2. ASSUME NEW c, work' = <<c>>, c.do = "publish",
             c.path = "cmd/store" => FindFile(Cut[c.value.name]) = 0
      PROVE  FileTold'
  <2>1. Len(work') = 1 /\ work'[1] = c /\ \A i \in 1 .. 1 : i = 1
    BY <1>2, OneStatement
  <2>2. ~Enters(c) /\ c.do # "remove"
    BY <1>2 DEF Enters
  <2>3. Distinct(files) /\ FileTold
    BY DEF FileTold, StoreTold
  <2>4. Stores(c) => Wanted(c) \notin NamesOf(files)
    <3> SUFFICES ASSUME Stores(c) PROVE Wanted(c) \notin NamesOf(files)
      OBVIOUS
    <3>1. c.path = "cmd/store" /\ Wanted(c) = Cut[c.value.name]
      BY <1>2 DEF Stores, Wanted
    <3>2. FirstOf(files, Wanted(c)) = 0
      BY <1>2, <3>1 DEF FindFile, FirstOf
    <3>3. \A i \in 1 .. Len(files) : files[i].name # Wanted(c)
      <4>1. \A i \in 1 .. Len(files) : files[i].name = Wanted(c) => i = 0
        BY <2>3, <3>2, Found
      <4>2. Len(files) \in Nat
        BY <2>3, ProperFacts DEF Distinct
      <4> QED
        BY <4>1, <4>2
    <3> QED
      BY <3>3 DEF NamesOf
  <2>5. StoreTold'
    <3>1. Distinct(files)' /\ NamesOf(files)' = NamesOf(files)
      BY <1>1, <2>3
    <3>2. \A i \in 1 .. Len(work') : i = 1 /\ work'[i] = c
      BY <2>1
    <3> QED
      BY <2>2, <2>4, <3>1, <3>2 DEF StoreTold
  <2>6. EnterTold'
    <3>1. \A i \in 1 .. Len(work') : i = 1 /\ work'[i] = c
      BY <2>1
    <3> QED
      BY <1>1, <2>2, <2>3, <3>1 DEF FileTold, EnterTold
  <2> QED
    BY <2>5, <2>6 DEF FileTold
<1>3. CASE Command
  <2>1. PICK i \in DOMAIN Commands : \E c \in Commands[i] :
           /\ c.path = "cmd/store" => FindFile(Cut[c.value.name]) = 0
           /\ work' = <<c>>
    BY <1>3 DEF Command
  <2>2. PICK c \in Commands[i] : /\ c.path = "cmd/store" => FindFile(Cut[c.value.name]) = 0
                                 /\ work' = <<c>>
    BY <2>1
  <2>3. c = Pub(c.path, c.key, c.value)
    BY SetupAssumption DEF Shape, Commands
  <2>4. c.do = "publish"
    BY <2>3 DEF Pub
  <2> QED
    BY <1>1, <1>2, <2>2, <2>4
<1>4. \A d \in Setups[setup].devices : d # "cmd/store"
  BY SetupAssumption DEF Shape, CommandPaths, MemFsPaths
<1>5. CASE Plug
  <2>1. PICK d \in Setups[setup].devices :
            work' = <<Pub(d, "subclass", IF d \in Dongles THEN "bluetooth" ELSE "hid")>>
    BY <1>5 DEF Plug
  <2> DEFINE c == Pub(d, "subclass", IF d \in Dongles THEN "bluetooth" ELSE "hid")
  <2>2. c.do = "publish" /\ c.path # "cmd/store"
    BY <1>4 DEF Pub
  <2>3. work' = <<c>>
    BY <2>1
  <2> HIDE DEF c
  <2> QED
    BY <1>1, <1>2, <2>2, <2>3
<1>6. CASE Unplug
  <2>1. PICK d \in Setups[setup].devices : work' = <<Pub(d, "state", "removed")>>
    BY <1>6 DEF Unplug, Shape
  <2> DEFINE c == Pub(d, "state", "removed")
  <2>2. c.do = "publish" /\ c.path # "cmd/store"
    BY <1>4 DEF Pub
  <2>3. work' = <<c>>
    BY <2>1
  <2> HIDE DEF c
  <2> QED
    BY <1>1, <1>2, <2>2, <2>3
<1> QED
  BY <1>3, <1>5, <1>6

\* A step changes the map by what memfsmgr does, or not at all.
LEMMA FilesStep ==
    ASSUME Shape, StorageAway, FileTold, Setups[setup].fresh, [Next]_vars
    PROVE  FileTold' /\ (AppendFile \/ RemoveFile \/ files' = files)
<1>1. CASE Step
  <2>1. ~Open /\ ~Decode
    <3>1. ~Quiet => Now = work[1] /\ 1 \in 1 .. Len(work)
      BY Nowhere
    <3>2. ~Quiet => Foreign(Now)
      BY <3>1 DEF StorageAway
    <3> QED
      BY <3>2 DEF Open, Decode, Runs, Now, Foreign
  <2>2. CASE CallMain \/ Subscribes \/ Publish \/ Callback
    <3>1. files' = files
      BY <2>2 DEF CallMain, Subscribes, Publish, Callback, serviceVars
    <3> QED
      BY <2>2, <3>1, FilesOnMain, FilesOnSubscribes, FilesOnPublish, FilesOnCallback
  <2>3. CASE Asidely /\ UNCHANGED <<files, subs>>
    <3>1. PICK called : Idle(called) /\ Continue(called)
      BY <2>3, IdleStatements DEF Asidely
    <3> QED
      BY <2>3, <3>1, FilesUntouched DEF Asidely
  <2> QED
    BY <1>1, <2>1, <2>2, <2>3, FileKinds, FilesOnAppend, FilesOnRemove
<1>2. CASE Command \/ Plug \/ Unplug
  BY <1>2, FilesOnArrival
<1>3. CASE UNCHANGED vars \/ MapBuffer
  <2>1. UNCHANGED <<work, subs, files>>
    BY <1>3 DEF vars, MapBuffer, busVars
  <2>2. StoreTold'
    BY <2>1 DEF FileTold, StoreTold, Removes
  <2>3. EnterTold'
    BY <2>1 DEF FileTold, EnterTold, Subscribed
  <2> QED
    BY <2>1, <2>2, <2>3 DEF FileTold
<1> QED
  BY <1>1, <1>2, <1>3 DEF Next

\* The table a client sees, and the request that memfsmgr serves.
ClientTable   == [name \in IF Setups[setup].fresh THEN StoredNames ELSE {} |->
                     files[FindFile(name)].cap]
ClientRequest == IF Runs("append") THEN [name |-> Now.file.name, cap |-> Now.file.cap]
                 ELSE IF Runs("remove") THEN [name |-> Now.name, cap |-> 0]
                 ELSE [name |-> "", cap |-> 0]

LEMMA ClientTableIsMap ==
    /\ Distinct(files) /\ Setups[setup].fresh => ClientTable = MapOf(files)
    /\ Distinct(files') /\ Setups[setup'].fresh => ClientTable' = MapOf(files')
    /\ ~Setups[setup].fresh => ClientTable = [x \in {} |-> 0]
    /\ ~Setups[setup'].fresh => ClientTable' = [x \in {} |-> 0]
<1>1. \A name : FindFile(name) = FirstOf(files, name)
  BY DEF FindFile, FirstOf
<1>2. \A name : FindFile(name)' = FirstOf(files', name)
  BY DEF FindFile, FirstOf, SelectInSeq
<1>3. Distinct(files) => StoredNames = NamesOf(files)
  BY ProperFacts DEF StoredNames, NamesOf, Distinct
<1>4. Distinct(files') => StoredNames' = NamesOf(files')
  BY ProperFacts DEF StoredNames, NamesOf, Distinct
<1> QED
  BY <1>1, <1>2, <1>3, <1>4 DEF ClientTable, MapOf

LEMMA ClientStep ==
    ASSUME Shape, StorageAway, FileTold, Setups[setup].fresh, [Next]_vars
    PROVE  Clients!Put \/ Clients!Delete \/ ClientTable' = ClientTable
<1>1. setup' = setup
  BY DEF Next, Step, vars, serviceVars, CallMain, Subscribes, Publish, Callback, Command, Plug,
     Unplug, MapBuffer
<1>2. FileTold' /\ (AppendFile \/ RemoveFile \/ files' = files)
  BY FilesStep
<1>3. Distinct(files) /\ Distinct(files')
  BY <1>2 DEF FileTold, StoreTold
<1>4. ClientTable = MapOf(files) /\ ClientTable' = MapOf(files')
  BY <1>1, <1>3, ClientTableIsMap
<1>5. DOMAIN ClientTable = NamesOf(files)
  BY <1>3, <1>4, MapLooksUp
<1>6. CASE AppendFile
  <2>1. ClientRequest.name = Now.file.name /\ ClientRequest.cap = Now.file.cap
    BY <1>6 DEF AppendFile, ClientRequest
  <2>2. /\ ClientRequest.name \notin DOMAIN ClientTable
        /\ ClientTable' = [n \in DOMAIN ClientTable \cup {ClientRequest.name} |->
                              IF n = ClientRequest.name THEN ClientRequest.cap ELSE ClientTable[n]]
    <3>1. /\ ClientRequest.name \notin NamesOf(files)
          /\ NamesOf(files') = NamesOf(files) \cup {ClientRequest.name}
          /\ \A n \in NamesOf(files') : MapOf(files')[n] = IF n = ClientRequest.name
                                                           THEN ClientRequest.cap
                                                           ELSE MapOf(files)[n]
      BY <1>6, <2>1, FilesOnAppend
    <3>2. MapOf(files') = [n \in NamesOf(files') |-> MapOf(files')[n]]
      BY DEF MapOf
    <3> QED
      BY <1>4, <1>5, <3>1, <3>2
  <2>3. Clients!Put
    BY <2>2, Zenon DEF Clients!Put, ClientTable, ClientRequest
  <2> QED
    BY <2>3
<1>7. CASE RemoveFile
  <2>1. ClientRequest.name = Now.name
    BY <1>7 DEF RemoveFile, ClientRequest, Runs
  <2>2. /\ ClientRequest.name \in DOMAIN ClientTable
        /\ ClientTable' = [n \in DOMAIN ClientTable \ {ClientRequest.name} |-> ClientTable[n]]
    BY <1>4, <1>5, <1>7, <2>1, FilesOnRemove
  <2>3. Clients!Delete
    BY <2>2, Zenon DEF Clients!Delete, ClientTable, ClientRequest
  <2> QED
    BY <2>3
<1>8. CASE files' = files
  BY <1>4, <1>8
<1> QED
  BY <1>2, <1>6, <1>7, <1>8

\* Where the shell stores new names only, the table of memfsmgr is for its clients a
\* map from names to buffers: storing adds the name with its capability, removing
\* deletes that name, and no other entry changes, whatever the services publish and
\* in whatever order they started (store and memrm of memfsmgr.cpp).  storagemgr
\* stores every track it decodes, new or not, so it must be away; and memfsmgr is
\* started once, or it would hear every request twice.
THEOREM FilesAreAMap ==
    ASSUME \A name \in DOMAIN Setups :
               Setups[name].fresh =>
                   /\ "storage" \notin ToSet(Setups[name].started)
                   /\ \A i, j \in DOMAIN Setups[name].started :
                         /\ Setups[name].started[i] = "memfs"
                         /\ Setups[name].started[j] = "memfs"
                         => i = j
    PROVE  Spec => NamedStoreSpec
<1> DEFINE Told == Setups[setup].fresh => StorageAway /\ FileTold
<1>1. Init => Told
  <2> SUFFICES ASSUME Init, Setups[setup].fresh PROVE StorageAway /\ FileTold
    OBVIOUS
  <2>1. /\ setup \in DOMAIN Setups /\ Proper(work) /\ Len(subs) = 0
        /\ objects = [x \in {} |-> 0] /\ files = <<>>
        /\ \A i \in 1 .. Len(work) : /\ work[i].do = "main" /\ work[i].service \in Started
                                     /\ i \in DOMAIN Setups[setup].started
                                     /\ work[i].service = Setups[setup].started[i]
    BY StartsWithMains DEF Init, MemFsInit
  <2>2. StorageAway
    <3>1. "storage" \notin Started
      BY <2>1 DEF Started
    <3>2. \A i \in 1 .. Len(work) : Foreign(work[i])
      BY <2>1, <3>1 DEF Foreign, Tells
    <3> QED
      BY <2>1, <3>2 DEF StorageAway, Subscribed, Published
  <2>3. StoreTold
    <3>1. Distinct(files)
      BY <2>1, ProperTuples DEF Distinct
    <3>2. \A i \in 1 .. Len(work) : ~Stores(work[i]) /\ work[i].do # "remove"
      BY <2>1 DEF Stores
    <3> QED
      BY <3>1, <3>2 DEF StoreTold
  <2>4. EnterTold
    BY <2>1 DEF EnterTold, Enters, Subscribed
  <2> QED
    BY <2>2, <2>3, <2>4 DEF FileTold
<1>2. Shape /\ Told /\ [Next]_vars => Told' /\ [Clients!Put \/ Clients!Delete]_ClientTable
  <2> SUFFICES ASSUME Shape, Told, [Next]_vars
               PROVE  Told' /\ (Clients!Put \/ Clients!Delete \/ ClientTable' = ClientTable)
    OBVIOUS
  <2>1. setup' = setup
    BY DEF Next, Step, vars, serviceVars, CallMain, Subscribes, Publish, Callback, Command, Plug,
       Unplug, MapBuffer
  <2>2. CASE Setups[setup].fresh
    BY <2>1, <2>2, AwayStep, FilesStep, ClientStep
  <2>3. CASE ~Setups[setup].fresh
    BY <2>1, <2>3, ClientTableIsMap
  <2> QED
    BY <2>2, <2>3
<1>3. Init => Clients!Init
  <2> SUFFICES ASSUME Init PROVE ClientTable = [name \in {} |-> 0]
    BY DEF Clients!Init, ClientTable
  <2>1. files = <<>>
    BY DEF Init, MemFsInit
  <2>2. StoredNames = {}
    BY <2>1, ProperTuples, ProperFacts DEF StoredNames
  <2> QED
    BY <2>2 DEF ClientTable
<1> HIDE DEF Told
<1>4. Spec => [][Clients!Put \/ Clients!Delete]_ClientTable
  BY <1>1, <1>2, ShapeHolds, PTL DEF Spec
<1>5. Spec => Clients!Init
  BY <1>3, PTL DEF Spec
<1> QED
  BY <1>4, <1>5, PTL DEF NamedStoreSpec, Clients!Spec, ClientTable

-----------------------------------------------------------------------------
(***************************************************************************)
(* The table in every setup.  Names may be stored again, memfsmgr may be   *)
(* started twice and storagemgr may store: what was found out about the    *)
(* table still holds when the table changes, because the change is the     *)
(* next statement that runs.                                               *)
(***************************************************************************)
TableSafe == /\ Len(files) <= MaxFiles
             /\ Runs("append") => Len(files) < MaxFiles
             /\ Runs("remove") => Removes(Now)

TableTold ==
    /\ Proper(files) /\ Len(files) <= MaxFiles
    /\ \A i \in 1 .. Len(work) : work[i].do = "append" => i = 1 /\ Len(files) < MaxFiles
    /\ \A i \in 1 .. Len(work) : work[i].do = "remove" => i = 1 /\ Removes(work[i])

\* Statements that leave the table alone.
Aloof(c) == Proper(c) /\ \A i \in 1 .. Len(c) : c[i].do \notin {"append", "remove"}

LEMMA AloofStatements ==
    /\ \A c : AllSteady(c) => Aloof(c)
    /\ \A c : Ordinary(c) /\ AllApart(c) => Aloof(c)
BY DEF AllSteady, Steady, Ordinary, AllApart, Apart, Fileless, Aloof

LEMMA TableKept ==
    ASSUME Shape, ~Quiet, TableTold, NEW called, Proper(called), Continue(called),
           Proper(files'), Len(files') <= MaxFiles,
           \A i \in 1 .. Len(called) : called[i].do = "append" => i = 1 /\ Len(files') < MaxFiles,
           \A i \in 1 .. Len(called) : called[i].do = "remove" => i = 1 /\ Removes(called[i])'
    PROVE  TableTold'
<1>1. \A i \in 1 .. Len(work') :
         \/ i \in 1 .. Len(called) /\ work'[i] = called[i]
         \/ \E j \in 2 .. Len(work) : i = Len(called) + j - 1 /\ work'[i] = work[j]
  BY Places DEF Shape
<1>2. \A j \in 2 .. Len(work) : j \in 1 .. Len(work) /\ j # 1
  BY Nowhere
<1>3. \A j \in 2 .. Len(work) : work[j].do \notin {"append", "remove"}
  BY <1>2 DEF TableTold
<1>4. ASSUME NEW i \in 1 .. Len(work'), work'[i].do \in {"append", "remove"}
      PROVE  i \in 1 .. Len(called) /\ work'[i] = called[i]
  BY <1>1, <1>3, <1>4
<1>5. \A i \in 1 .. Len(work') : work'[i].do = "append" => i = 1 /\ Len(files') < MaxFiles
  BY <1>4
<1>6. \A i \in 1 .. Len(work') : work'[i].do = "remove" => i = 1 /\ Removes(work[i])'
  BY <1>4 DEF Removes
<1> QED
  BY <1>5, <1>6 DEF TableTold

LEMMA TableAside ==
    ASSUME Shape, ~Quiet, TableTold, files' = files, NEW called, Aloof(called), Continue(called)
    PROVE  TableTold'
<1>1. Proper(files') /\ Len(files') <= MaxFiles
  BY DEF TableTold
<1> QED
  BY <1>1, TableKept DEF Aloof

LEMMA TableOnMain == Shape /\ TableTold /\ CallMain => TableTold'
<1> SUFFICES ASSUME Shape, TableTold, CallMain PROVE TableTold'
  OBVIOUS
<1>1. ~Quiet /\ Now.do = "main" /\ Continue(Main(Now.service)) /\ files' = files
  BY DEF CallMain, Runs, Now, serviceVars
<1>2. Now.service \in ServiceNames
  BY <1>1, Nowhere DEF Shape
<1>3. Aloof(HttpMain)
  BY HttpCalls, OrdinaryStatements, ReportsApart, AloofStatements
<1>4. Aloof(Main(Now.service))
  BY <1>2, <1>3, MainsInDetail, StorageCalls, MemFsCalls, AloofStatements DEF AllAside
<1>5. PICK called : Aloof(called) /\ Continue(called)
  BY <1>1, <1>4
<1> QED
  BY <1>1, <1>5, TableAside

LEMMA TableOnPublish == Shape /\ TableTold /\ Publish => TableTold'
<1> SUFFICES ASSUME Shape, TableTold, Publish PROVE TableTold'
  OBVIOUS
<1>1. ~Quiet /\ files' = files
  BY PublishCalls DEF serviceVars
<1>2. PICK called : /\ Proper(called) /\ Continue(called) /\ Len(called) = Len(subs)
                    /\ \A m \in 1 .. Len(subs) :
                          called[m] = [do |-> "callback", service |-> subs[m], n |-> Now]
  BY PublishCalls
<1>3. ASSUME NEW m \in 1 .. Len(called) PROVE called[m].do = "callback"
  <2>1. called[m] = [do |-> "callback", service |-> subs[m], n |-> Now]
    BY <1>2
  <2> QED
    BY <2>1
<1>4. Aloof(called)
  BY <1>2, <1>3 DEF Aloof
<1> QED
  BY <1>1, <1>2, <1>4, TableAside

LEMMA TableOnCallback == Shape /\ TableTold /\ Callback => TableTold'
<1> SUFFICES ASSUME Shape, TableTold, Callback PROVE TableTold'
  OBVIOUS
<1>1. /\ ~Quiet /\ files' = files /\ Now.service \in ServiceNames
      /\ Continue(Heard(Now.service, Now.n))
  BY CallbackCalls DEF serviceVars
<1>2. PICK c : c = Heard(Now.service, Now.n)
  OBVIOUS
<1>3. \/ Aloof(c) \/ c = Store(Now.n.value) \/ c = MemRm(Now.n.value.name)
  <2>1. CASE Now.service = "storage" /\ Now.n.path = "cmd/play"
    <3>1. c = Play(Now.n.value)
      BY <1>2, <2>1 DEF Heard, Handles, Paths, StoragePaths, StorageHandles
    <3> QED
      BY <3>1, StorageCalls, AloofStatements
  <2>2. CASE ~(Now.service = "storage" /\ Now.n.path = "cmd/play")
    BY <1>1, <1>2, <2>2, HeardApart, AloofStatements
  <2> QED
    BY <2>1, <2>2
<1>4. Proper(files) /\ Len(files) <= MaxFiles /\ Len(files) \in Nat /\ MaxFiles \in Nat
  BY MemFsAssumption, ProperFacts DEF TableTold
<1>5. Continue(c)
  BY <1>1, <1>2
<1>6. Len(c) <= 1 /\ Proper(c) => \A i \in 1 .. Len(c) : i = 1
  BY ProperFacts
<1>7. CASE Aloof(c)
  BY <1>1, <1>5, <1>7, TableAside
<1>8. CASE c = Store(Now.n.value)
  <2>1. /\ Proper(c) /\ Len(c) <= 1 /\ (Len(files) >= MaxFiles => Len(c) = 0)
        /\ \A i \in 1 .. Len(c) : c[i].do = "append"
    BY <1>8, StoreCalls
  <2>2. ASSUME NEW i \in 1 .. Len(c) PROVE i = 1 /\ Len(files') < MaxFiles
    BY <1>1, <1>4, <1>6, <2>1
  <2>3. Proper(files') /\ Len(files') <= MaxFiles
    BY <1>1, <1>4
  <2>4. \A i \in 1 .. Len(c) : c[i].do # "remove"
    BY <2>1
  <2> QED
    BY <1>1, <1>5, <2>1, <2>2, <2>3, <2>4, TableKept
<1>9. CASE c = MemRm(Now.n.value.name)
  <2>1. /\ Proper(c) /\ Len(c) <= 1
        /\ \A i \in 1 .. Len(c) : c[i].do = "remove" /\ Removes(c[i])
    BY <1>4, <1>9, MemRmCalls
  <2>2. ASSUME NEW i \in 1 .. Len(c) PROVE i = 1 /\ Removes(c[i])'
    <3>1. i = 1
      BY <1>6, <2>1
    <3>2. Removes(c[i])'
      BY <1>1, <2>1 DEF Removes
    <3> QED
      BY <3>1, <3>2
  <2>3. Proper(files') /\ Len(files') <= MaxFiles
    BY <1>1, <1>4
  <2>4. \A i \in 1 .. Len(c) : c[i].do # "append"
    BY <2>1
  <2> QED
    BY <1>1, <1>5, <2>1, <2>2, <2>3, <2>4, TableKept
<1> QED
  BY <1>3, <1>7, <1>8, <1>9

LEMMA TableOnChange == Shape /\ TableTold /\ (AppendFile \/ RemoveFile) => TableTold'
<1> SUFFICES ASSUME Shape, TableTold, AppendFile \/ RemoveFile PROVE TableTold'
  OBVIOUS
<1>1. ~Quiet /\ Now = work[1] /\ 1 \in 1 .. Len(work)
  BY Nowhere DEF AppendFile, RemoveFile, Runs
<1>2. PICK called : Aloof(called) /\ Continue(called)
  BY MemFsCalls, AloofStatements DEF AppendFile, RemoveFile, AllAside
<1>3. Proper(files) /\ Len(files) <= MaxFiles /\ Len(files) \in Nat /\ MaxFiles \in Nat
  BY MemFsAssumption, ProperFacts DEF TableTold
<1>4. CASE AppendFile
  <2> DEFINE f == Now.file  S == {files[i] : i \in 1 .. Len(files)} \cup {f}
  <2>1. files' = Append(files, f) /\ Len(files) < MaxFiles
    BY <1>1, <1>4 DEF AppendFile, Runs, Now, TableTold
  <2>2. files \in Seq(S) /\ f \in S
    <3>1. files \in Seq({files[i] : i \in 1 .. Len(files)})
      BY <1>3 DEF Proper
    <3> QED
      BY <3>1, SeqMonotonic
  <2> HIDE DEF f, S
  <2>3. files' \in Seq(S) /\ Len(files') = Len(files) + 1
    BY <2>1, <2>2, AppendProperties
  <2>4. Proper(files')
    BY <2>3, ProperIntro
  <2>5. Len(files') <= MaxFiles
    BY <1>3, <2>1, <2>3
  <2> QED
    BY <1>1, <1>2, <2>4, <2>5, TableKept DEF Aloof
<1>5. CASE RemoveFile
  <2>1. files' = RemoveAt(files, Now.index) /\ Now.index \in 1 .. Len(files)
    BY <1>1, <1>5 DEF RemoveFile, Runs, Now, TableTold, Removes
  <2>2. Proper(files') /\ Len(files') <= MaxFiles
    BY <1>3, <2>1, Shifted
  <2> QED
    BY <1>1, <1>2, <2>2, TableKept DEF Aloof
<1> QED
  BY <1>4, <1>5

LEMMA TableStep == Shape /\ TableTold /\ [Next]_vars => TableTold'
<1> SUFFICES ASSUME Shape, TableTold, [Next]_vars PROVE TableTold'
  OBVIOUS
<1>1. CASE Step
  <2>1. CASE Steadily /\ files' = files
    <3>1. PICK called : Aloof(called) /\ Continue(called)
      BY <2>1, AloofStatements DEF Steadily
    <3> QED
      BY <2>1, <3>1, TableAside DEF Steadily
  <2>2. Subscribes \/ Asidely => Steadily
    BY AsidelyNothing DEF Asidely, Steadily, AllAside
  <2>3. Open \/ Decode => Steadily
    BY SteadilyOpen, SteadilyDecode
  <2>4. Subscribes => files' = files
    BY DEF Subscribes, serviceVars
  <2> QED
    BY <1>1, <2>1, <2>2, <2>3, <2>4, FileKinds, TableOnMain, TableOnPublish, TableOnCallback,
       TableOnChange
<1>2. CASE Command \/ Plug \/ Unplug
  <2>1. PICK c : work' = <<c>> /\ c.do = "publish"
    BY <1>2, Arrivals
  <2>2. Len(work') = 1 /\ work'[1] = c /\ \A i \in 1 .. 1 : i = 1
    BY <2>1, OneStatement
  <2>3. files' = files
    BY <1>2, Arrivals
  <2> QED
    BY <2>1, <2>2, <2>3 DEF TableTold
<1>3. CASE UNCHANGED vars \/ MapBuffer
  <2>1. UNCHANGED <<work, files>>
    BY <1>3 DEF vars, MapBuffer, busVars
  <2> QED
    BY <2>1 DEF TableTold, Removes
<1> QED
  BY <1>1, <1>2, <1>3 DEF Next

\* The table of memfsmgr never has more entries than it has room for, and an entry is
\* removed at the index at which it was found, whatever is stored how often and by
\* whom, and whichever services run (store and memrm of memfsmgr.cpp): no callback
\* comes between the check and what it was made for.
THEOREM TableNeverOverruns == Spec => []TableSafe
<1>1. Init => TableTold
  <2> SUFFICES ASSUME Init PROVE TableTold
    OBVIOUS
  <2>1. files = <<>> /\ \A i \in 1 .. Len(work) : work[i].do = "main"
    BY StartsWithMains DEF Init, MemFsInit
  <2>2. Proper(files) /\ Len(files) = 0
    BY <2>1, ProperTuples
  <2> QED
    BY <2>1, <2>2, MemFsAssumption DEF TableTold
<1>2. Shape /\ TableTold => TableSafe
  <2> SUFFICES ASSUME Shape, TableTold PROVE TableSafe
    OBVIOUS
  <2>1. ~Quiet => Now = work[1] /\ 1 \in 1 .. Len(work)
    BY Nowhere
  <2> QED
    BY <2>1 DEF TableTold, TableSafe, Runs, Now
<1> QED
  BY <1>1, <1>2, TableStep, ShapeHolds, PTL DEF Spec
=============================================================================
