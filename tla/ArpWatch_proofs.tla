-------------------------- MODULE ArpWatch_proofs --------------------------
(***************************************************************************)
(* The event streams with any number of agents, handlers and streams, and  *)
(* channels of any capacity: the types, and that clients which missed      *)
(* nothing come to know what there is to know.                             *)
(*                                                                         *)
(* WatchersConverge speaks of moments when no handler runs; what holds all *)
(* the time is that a client's last word on an agent is its status, or a   *)
(* handler is about to send it, or the status is one that nobody sends.    *)
(* That a handler is about to rests on the order of its steps (Script):    *)
(* what is set is published next, what is sent was copied by the step      *)
(* before, and a stop that is given up is given up whole.  That what it    *)
(* sends is still true rests on no other handler being at work on the      *)
(* agent (Apart): the copy is taken without the lock.                      *)
(***************************************************************************)
EXTENDS ArpWatchProps, SequenceTheorems, FiniteSetTheorems, WellFoundedInduction, TLAPS

\* The statuses of agents that were made, and none.
Known == (Status \ {"UNSPECIFIED"}) \cup {None}

\* The steps of handlers that work on the agents of a set.
Sends == {"copy", "toAgent", "toWorkspace"}
StepsOn(A) ==
    {Do("set", a, v) : a \in A, v \in Status \ {"UNSPECIFIED"}}
      \cup {Do(w, a, e) : w \in Sends, a \in A, e \in {"changed", "card", "stopped"}}
      \cup {Do("spawned", a, "spawned") : a \in A}
      \cup {Deletion(ids) : ids \in SUBSET A} \cup {Do("destroyed", None, "destroyed")}

\* The steps that come after one another: what is set is published.
After(what) ==
    CASE what = "set" -> {"copy", "spawned"}
      [] what = "spawned" -> {"copy"}
      [] what = "copy" -> {"toAgent"}
      [] what = "toAgent" -> {"toWorkspace"}
      [] OTHER -> {}

Chained(t) ==
    \A i \in 1..Len(t) : After(t[i].what) # {} =>
        /\ i < Len(t)
        /\ t[i + 1].what \in After(t[i].what) /\ t[i + 1].agent = t[i].agent

\* A stop is all there: what it skips when the agent is gone ends where it ends.
Halts(d) == d.what = "set" /\ d.arg = "STOPPING"
Begins(d) == d.what \notin {"toAgent", "toWorkspace"}
Whole(t) ==
    \A i \in 1..Len(t) : Halts(t[i]) =>
        i + 7 <= Len(t) /\ (i + 8 <= Len(t) => Begins(t[i + 8]))

\* Nothing is sent that was not copied by the step before.
Led(t) ==
    \A i \in 1..Len(t) : i < Len(t) /\ ~Begins(t[i + 1]) => t[i + 1].what \in After(t[i].what)

\* What a handler at work on the agents of a set may still have to do, and where it may begin.
Script(A) == {t \in Seq(StepsOn(A)) : Chained(t) /\ Whole(t) /\ Led(t)}
Fresh(A) == {t \in Script(A) : t # <<>> => Begins(t[1])}

HandlerOn(A) == [op : Op, todo : Script(A), copy : Known, toWs : BOOLEAN]

\* The agents that were made.
Made == {a \in Agents : status[a] # "UNSPECIFIED"}

KnownEvent == [type : EventTypes, agent : Agents \cup {None}, status : Known]
Watch == [kind : {"agent", "workspace", None}, agent : Agents \cup {None},
          pc : {"idle", "subscribe", "initial", "loop", "unsubscribe"},
          snapshot : [Agents -> Known], seen : [Agents -> Known], queue : Seq(KnownEvent),
          lost : BOOLEAN]

Types ==
    /\ registered \subseteq Made /\ members \subseteq Made /\ IsFiniteSet(members)
    /\ status \in [Agents -> Status]
    /\ exists \in BOOLEAN /\ everWatched \in BOOLEAN
    /\ handlers \in [Handlers -> HandlerOn(Made)]
    /\ streams \in [Streams -> Watch]
    /\ \A s \in Streams : Len(streams[s].queue) <= BufSize

\* A stream that is on is that of an agent or of a workspace; that of an agent hears of no other.
Base(w) == IF w.pc = "loop" THEN w.seen ELSE w.snapshot
Focused(w) ==
    /\ w.pc # "idle" => w.kind \in {"agent", "workspace"}
    /\ w.pc # "idle" /\ w.kind = "agent" =>
         \A a \in Agents : a # w.agent =>
            /\ w.snapshot[a] = None /\ w.seen[a] = None
            /\ \A i \in 1..Len(w.queue) : w.queue[i].agent # a

\* The last thing a client is told of an agent is that its status is v.
LastAbout(w, a, i) ==
    /\ w.queue[i].agent = a
    /\ \A j \in 1..Len(w.queue) : j > i => w.queue[j].agent # a
Unheard(w, a) == \A i \in 1..Len(w.queue) : w.queue[i].agent # a
Told(w, a, v) ==
    /\ \A i \in 1..Len(w.queue) : LastAbout(w, a, i) => w.queue[i].status = v
    /\ Unheard(w, a) => Base(w)[a] \in {None, v}

\* A handler is about to tell a client of kind k the status of the agent.
DueFrom(h, k, a) ==
    /\ Busy(h) /\ Next1(h).agent = a
    /\ \/ At(h, "spawned") \/ At(h, "copy") \/ At(h, "toAgent")
       \/ At(h, "toWorkspace") /\ k = "workspace"

\* A stream that is on and has missed nothing.
Live(w) == w.pc \in {"subscribe", "initial", "loop"} /\ ~w.lost

\* The client knows the status of the agent, or is about to be told, or it is one nobody tells.
Current(w, a) ==
    \/ status[a] = "ERROR"
    \/ Told(w, a, status[a])
    \/ \E h \in Handlers : DueFrom(h, w.kind, a)

AllCurrent == \A s \in Streams : Live(streams[s]) => \A a \in Agents : Current(streams[s], a)
AllFocused == \A s \in Streams : Focused(streams[s])

\* What is about to be published is the status the agent has.
AllCopied ==
    \A h \in Handlers : At(h, "toAgent") \/ At(h, "toWorkspace") =>
        handlers[h].copy = status[Next1(h).agent]

IInv == Types /\ AllFocused /\ AllCopied /\ AllCurrent

-----------------------------------------------------------------------------
\* A set of numbers that is not empty has a least one.
LEMMA Least ==
    ASSUME NEW S \in SUBSET Nat, S # {}
    PROVE  \E m \in S : \A k \in S : m <= k
<1>1. PICK R : R = OpToRel(<, Nat)
  OBVIOUS
<1>2. IsWellFoundedOn(R, Nat)
  BY <1>1, NatLessThanWellFounded
<1>3. PICK m \in S : \A k \in S : <<k, m>> \notin R
  BY <1>2, WFMin
<1>4. \A k \in S : ~(k < m)
  BY <1>1, <1>3 DEF OpToRel
<1> QED BY <1>4

\* What the parts of a script are.
LEMMA StepsAre ==
    ASSUME NEW A, NEW a \in A
    PROVE  /\ \A v \in Status \ {"UNSPECIFIED"} : Do("set", a, v) \in StepsOn(A)
           /\ \A w \in Sends, e \in {"changed", "card", "stopped"} : Do(w, a, e) \in StepsOn(A)
           /\ Do("spawned", a, "spawned") \in StepsOn(A)
           /\ Deletion(A) \in StepsOn(A) /\ Do("destroyed", None, "destroyed") \in StepsOn(A)
BY DEF StepsOn

\* A script after a script is a script.
LEMMA Joined ==
    ASSUME NEW A, NEW s \in Fresh(A), NEW t \in Fresh(A)
    PROVE  s \o t \in Fresh(A)
<1>1. PICK st : st = s \o t
  OBVIOUS
<1>2. /\ s \in Seq(StepsOn(A)) /\ t \in Seq(StepsOn(A)) /\ Chained(s) /\ Chained(t)
      /\ Len(s) \in Nat /\ Len(t) \in Nat /\ Whole(s) /\ Whole(t)
      /\ Led(s) /\ Led(t)
      /\ s # <<>> => Begins(s[1])
      /\ t # <<>> => Begins(t[1])
  BY DEF Script, Fresh
<1>3. /\ st \in Seq(StepsOn(A)) /\ Len(st) = Len(s) + Len(t)
      /\ \A i \in 1..Len(st) : st[i] = IF i <= Len(s) THEN s[i] ELSE t[i - Len(s)]
  BY <1>1, <1>2, ConcatProperties
<1>4. ASSUME NEW i \in 1..Len(st), After(st[i].what) # {}
      PROVE  /\ i < Len(st)
             /\ st[i + 1].what \in After(st[i].what) /\ st[i + 1].agent = st[i].agent
  <2>1. CASE i <= Len(s)
    <3>1. i \in 1..Len(s) /\ st[i] = s[i]
      BY <1>2, <1>3, <2>1
    <3>2. i < Len(s) /\ s[i + 1].what \in After(s[i].what) /\ s[i + 1].agent = s[i].agent
      BY <1>2, <1>4, <3>1 DEF Chained
    <3>3. i + 1 \in 1..Len(st) /\ i + 1 <= Len(s)
      BY <1>2, <1>3, <3>1, <3>2
    <3>4. st[i + 1] = s[i + 1]
      BY <1>3, <3>3
    <3> QED BY <1>2, <1>3, <3>1, <3>2, <3>3, <3>4
  <2>2. CASE i > Len(s)
    <3>1. PICK k \in 1..Len(t) : k = i - Len(s)
      BY <1>2, <1>3, <2>2
    <3>2. st[i] = t[k]
      BY <1>2, <1>3, <2>2, <3>1
    <3>3. k < Len(t) /\ t[k + 1].what \in After(t[k].what) /\ t[k + 1].agent = t[k].agent
      BY <1>2, <1>4, <3>2 DEF Chained
    <3>4. i + 1 \in 1..Len(st) /\ ~(i + 1 <= Len(s)) /\ i + 1 - Len(s) = k + 1
      BY <1>2, <1>3, <3>1, <3>3
    <3>5. st[i + 1] = t[k + 1]
      BY <1>3, <3>4
    <3> QED BY <1>2, <1>3, <3>2, <3>3, <3>4, <3>5
  <2> QED BY <1>2, <2>1, <2>2
<1>5. Chained(st)
  BY <1>4 DEF Chained
<1>6. ASSUME NEW i \in 1..Len(st), Halts(st[i])
      PROVE  i + 7 <= Len(st) /\ (i + 8 <= Len(st) => Begins(st[i + 8]))
  <2>1. CASE i <= Len(s)
    <3>1. i \in 1..Len(s) /\ st[i] = s[i]
      BY <1>2, <1>3, <2>1
    <3>2. i + 7 <= Len(s) /\ (i + 8 <= Len(s) => Begins(s[i + 8]))
      BY <1>2, <1>6, <3>1 DEF Whole
    <3>3. ASSUME i + 8 <= Len(st)
          PROVE  Begins(st[i + 8])
      <4>1. i + 8 \in 1..Len(st)
        BY <1>2, <1>3, <3>1, <3>3
      <4>2. CASE i + 8 <= Len(s)
        BY <1>3, <3>2, <4>1, <4>2
      <4>3. CASE ~(i + 8 <= Len(s))
        <5>1. i + 8 - Len(s) = 1 /\ t # <<>>
          BY <1>2, <1>3, <3>1, <3>2, <3>3, <4>3
        <5>2. st[i + 8] = t[1]
          BY <1>3, <4>1, <4>3, <5>1
        <5> QED BY <1>2, <5>1, <5>2
      <4> QED BY <4>2, <4>3
    <3> QED BY <1>2, <1>3, <3>1, <3>2, <3>3
  <2>2. CASE i > Len(s)
    <3>1. PICK k \in 1..Len(t) : k = i - Len(s)
      BY <1>2, <1>3, <2>2
    <3>2. st[i] = t[k]
      BY <1>2, <1>3, <2>2, <3>1
    <3>3. k + 7 <= Len(t) /\ (k + 8 <= Len(t) => Begins(t[k + 8]))
      BY <1>2, <1>6, <3>2 DEF Whole
    <3>4. i + 8 <= Len(st) => k + 8 <= Len(t) /\ st[i + 8] = t[k + 8]
      <4>1. ~(i + 8 <= Len(s)) /\ i + 8 - Len(s) = k + 8
            /\ (i + 8 <= Len(st) => i + 8 \in 1..Len(st) /\ k + 8 <= Len(t))
        BY <1>2, <1>3, <2>2, <3>1
      <4> QED BY <1>3, <4>1
    <3> QED BY <1>2, <1>3, <3>1, <3>3, <3>4
  <2> QED BY <1>2, <2>1, <2>2
<1>7. Whole(st)
  BY <1>6 DEF Whole
<1>8. st # <<>> => Begins(st[1])
  <2>1. CASE Len(s) = 0
    <3>1. Len(t) # 0 => t # <<>> /\ 1 \in 1..Len(st) /\ 1 - Len(s) = 1 /\ ~(1 <= Len(s))
      BY <1>2, <1>3, <2>1
    <3>2. Len(t) # 0 => st[1] = t[1]
      BY <1>3, <3>1
    <3> QED BY <1>2, <1>3, <2>1, <3>1, <3>2
  <2>2. CASE Len(s) # 0
    <3>1. s # <<>> /\ 1 \in 1..Len(st) /\ 1 <= Len(s)
      BY <1>2, <1>3, <2>2
    <3> QED BY <1>2, <1>3, <3>1
  <2> QED BY <2>1, <2>2
<1>9. ASSUME NEW i \in 1..Len(st), i < Len(st), ~Begins(st[i + 1])
      PROVE  st[i + 1].what \in After(st[i].what)
  <2>0. i + 1 \in 1..Len(st)
    BY <1>2, <1>3, <1>9
  <2>1. CASE i < Len(s)
    <3>1. i \in 1..Len(s) /\ i <= Len(s) /\ i + 1 <= Len(s)
      BY <1>2, <1>3, <2>1
    <3>2. st[i] = s[i] /\ st[i + 1] = s[i + 1]
      BY <1>3, <2>0, <3>1
    <3> QED BY <1>2, <1>9, <2>1, <3>1, <3>2 DEF Led
  <2>2. CASE i = Len(s)
    <3>1. ~(i + 1 <= Len(s)) /\ i + 1 - Len(s) = 1 /\ Len(t) # 0
      BY <1>2, <1>3, <1>9, <2>2
    <3>2. st[i + 1] = t[1] /\ t # <<>>
      BY <1>2, <1>3, <2>0, <3>1
    <3> QED BY <1>2, <1>9, <3>2
  <2>3. CASE i > Len(s)
    <3>1. PICK k \in 1..Len(t) : k = i - Len(s)
      BY <1>2, <1>3, <2>3
    <3>2. ~(i <= Len(s)) /\ ~(i + 1 <= Len(s)) /\ i + 1 - Len(s) = k + 1 /\ k < Len(t)
      BY <1>2, <1>3, <1>9, <2>3, <3>1
    <3>3. st[i] = t[k] /\ st[i + 1] = t[k + 1]
      BY <1>3, <2>0, <3>1, <3>2
    <3> QED BY <1>2, <1>9, <3>1, <3>2, <3>3 DEF Led
  <2> QED BY <1>2, <2>1, <2>2, <2>3
<1>10. Led(st)
  BY <1>9 DEF Led
<1> QED BY <1>1, <1>3, <1>5, <1>7, <1>8, <1>10 DEF Script, Fresh

\* The rest of a script is a script, and what comes next is chained to what was taken.
LEMMA Rest ==
    ASSUME NEW A, NEW t \in Script(A), NEW n \in Nat \ {0}
    PROVE  /\ SubSeq(t, n + 1, Len(t)) \in Script(A)
           /\ \A i \in 1..Len(SubSeq(t, n + 1, Len(t))) :
                i + n \in 1..Len(t) /\ SubSeq(t, n + 1, Len(t))[i] = t[i + n]
<1>1. PICK r : r = SubSeq(t, n + 1, Len(t))
  OBVIOUS
<1>2. t \in Seq(StepsOn(A)) /\ Chained(t) /\ Whole(t) /\ Led(t) /\ Len(t) \in Nat
  BY DEF Script
<1>3. \A i \in n + 1 .. Len(t) : t[i] \in StepsOn(A)
  <2> TAKE i \in n + 1 .. Len(t)
  <2>1. i \in 1..Len(t)
    BY <1>2
  <2> QED BY <1>2, <2>1, ElementOfSeq
<1>4. /\ r \in Seq(StepsOn(A)) /\ Len(r) = IF n + 1 <= Len(t) THEN Len(t) - (n + 1) + 1 ELSE 0
      /\ \A i \in 1 .. Len(t) - (n + 1) + 1 : r[i] = t[n + 1 + i - 1]
  BY <1>1, <1>2, <1>3, SubSeqProperties
<1>5. \A i \in 1..Len(r) : i + n \in 1..Len(t) /\ r[i] = t[i + n]
  <2> TAKE i \in 1..Len(r)
  <2>1. n + 1 <= Len(t) /\ i \in 1 .. Len(t) - (n + 1) + 1 /\ n + 1 + i - 1 = i + n
    BY <1>2, <1>4
  <2> QED BY <1>2, <1>4, <2>1
<1>6. ASSUME NEW i \in 1..Len(r), After(r[i].what) # {}
      PROVE  i < Len(r) /\ r[i + 1].what \in After(r[i].what) /\ r[i + 1].agent = r[i].agent
  <2>1. PICK k \in 1..Len(t) : k = i + n /\ r[i] = t[k]
    BY <1>5
  <2>2. k < Len(t) /\ t[k + 1].what \in After(t[k].what) /\ t[k + 1].agent = t[k].agent
    BY <1>2, <1>6, <2>1 DEF Chained
  <2>3. Len(r) = Len(t) - n /\ i + 1 \in 1..Len(r)
    BY <1>2, <1>4, <2>1, <2>2
  <2>4. r[i + 1] = t[k + 1]
    <3>1. r[i + 1] = t[(i + 1) + n] /\ (i + 1) + n = k + 1
      BY <1>5, <2>1, <2>3
    <3> QED BY <3>1
  <2> QED BY <2>1, <2>2, <2>3, <2>4
<1>7. Chained(r)
  BY <1>6 DEF Chained
<1>8. ASSUME NEW i \in 1..Len(r), Halts(r[i])
      PROVE  i + 7 <= Len(r) /\ (i + 8 <= Len(r) => Begins(r[i + 8]))
  <2>1. PICK k \in 1..Len(t) : k = i + n /\ r[i] = t[k]
    BY <1>5
  <2>2. k + 7 <= Len(t) /\ (k + 8 <= Len(t) => Begins(t[k + 8]))
    BY <1>2, <1>8, <2>1 DEF Whole
  <2>3. Len(r) = Len(t) - n /\ (i + 8 <= Len(r) => i + 8 \in 1..Len(r) /\ k + 8 <= Len(t))
    BY <1>2, <1>4, <2>1, <2>2
  <2>4. i + 8 <= Len(r) => r[i + 8] = t[k + 8]
    <3>1. i + 8 <= Len(r) => r[i + 8] = t[(i + 8) + n] /\ (i + 8) + n = k + 8
      BY <1>5, <2>1, <2>3
    <3> QED BY <3>1
  <2> QED BY <1>2, <2>1, <2>2, <2>3, <2>4
<1>9. Whole(r)
  BY <1>8 DEF Whole
<1>10. ASSUME NEW i \in 1..Len(r), i < Len(r), ~Begins(r[i + 1])
       PROVE  r[i + 1].what \in After(r[i].what)
  <2>1. PICK k \in 1..Len(t) : k = i + n /\ r[i] = t[k]
    BY <1>5
  <2>2. Len(r) = Len(t) - n /\ i + 1 \in 1..Len(r) /\ k < Len(t)
    BY <1>2, <1>4, <1>10, <2>1
  <2>3. r[i + 1] = t[k + 1]
    <3>1. r[i + 1] = t[(i + 1) + n] /\ (i + 1) + n = k + 1
      BY <1>5, <2>1, <2>2
    <3> QED BY <3>1
  <2> QED BY <1>2, <1>10, <2>1, <2>2, <2>3 DEF Led
<1>11. Led(r)
  BY <1>10 DEF Led
<1> QED BY <1>1, <1>4, <1>5, <1>7, <1>9, <1>11 DEF Script

\* What comes after the first steps of a script.
LEMMA NextAfter ==
    ASSUME NEW A, NEW t \in Script(A), NEW n \in Nat \ {0}, n < Len(t)
    PROVE  /\ SubSeq(t, n + 1, Len(t)) # <<>>
           /\ Head(SubSeq(t, n + 1, Len(t))) = t[n + 1]
<1>1. PICK r : r = SubSeq(t, n + 1, Len(t))
  OBVIOUS
<1>2. t \in Seq(StepsOn(A)) /\ Len(t) \in Nat
  BY DEF Script
<1>3. r \in Seq(StepsOn(A)) /\ \A i \in 1..Len(r) : r[i] = t[i + n]
  BY <1>1, Rest DEF Script
<1>4. Len(r) = Len(t) - n
  BY <1>1, <1>2
<1>5. 1 \in 1..Len(r) /\ 1 + n = n + 1
  BY <1>2, <1>4
<1>6. r[1] = t[n + 1] /\ r # <<>> /\ Head(r) = r[1]
  BY <1>3, <1>5
<1> QED BY <1>1, <1>6

\* The more agents, the more scripts.
LEMMA ScriptsGrow ==
    ASSUME NEW A, NEW B, A \subseteq B
    PROVE  Script(A) \subseteq Script(B) /\ HandlerOn(A) \subseteq HandlerOn(B)
<1>1. StepsOn(A) \subseteq StepsOn(B)
  BY DEF StepsOn
<1>2. ASSUME NEW t \in Script(A)
      PROVE  t \in Script(B)
  BY <1>1, SeqMonotonic DEF Script
<1> QED BY <1>2 DEF HandlerOn

\* What is put before a publication.
LEMMA FourInOrder ==
    ASSUME NEW d, NEW c, NEW g, NEW w
    PROVE  <<d>> \o <<c, g, w>> = <<d, c, g, w>>
<1>1. PICK S : S = {d, c, g, w}
  OBVIOUS
<1>2. PICK s, t, u : s = <<d>> /\ t = <<c, g, w>> /\ u = <<d, c, g, w>>
  OBVIOUS
<1>3. /\ s \in Seq(S) /\ Len(s) = 1 /\ s[1] = d
      /\ t \in Seq(S) /\ Len(t) = 3 /\ t[1] = c /\ t[2] = g /\ t[3] = w
  BY <1>1, <1>2
<1>4. u \in Seq(S) /\ Len(u) = 4 /\ u[1] = d /\ u[2] = c /\ u[3] = g /\ u[4] = w
  BY <1>1, <1>2
<1>5. PICK st : st = s \o t
  OBVIOUS
<1>6. st = u
  <2>1. /\ st \in Seq(S) /\ Len(st) = 4
        /\ \A i \in 1..4 : st[i] = IF i <= 1 THEN s[i] ELSE t[i - 1]
    <3>1. /\ st \in Seq(S) /\ Len(st) = Len(s) + Len(t)
          /\ \A i \in 1 .. Len(s) + Len(t) :
                st[i] = IF i <= Len(s) THEN s[i] ELSE t[i - Len(s)]
      <4>1. s \in Seq(S) /\ t \in Seq(S)
        BY <1>3
      <4> QED BY <1>5, <4>1, ConcatProperties
    <3> QED BY <1>3, <3>1
  <2>2. \A i \in 1..4 : st[i] = u[i]
    <3>1. /\ st[1] = s[1] /\ st[2] = t[1] /\ st[3] = t[2]
          /\ st[4] = t[3]
      BY <2>1
    <3>2. 1..4 = {1, 2, 3, 4}
      OBVIOUS
    <3> QED BY <1>3, <1>4, <3>1, <3>2
  <2> QED BY <1>4, <2>1, <2>2, SeqEqual
<1> QED BY <1>2, <1>5, <1>6

\* The empty script.
LEMMA NoSteps == ASSUME NEW A PROVE <<>> \in Fresh(A)
<1>1. Len(<<>>) = 0
  OBVIOUS
<1>2. \A i \in 1..Len(<<>>) : FALSE
  BY <1>1
<1> QED BY <1>2 DEF Fresh, Script, Chained, Whole, Led

\* What is set and then published is a script, after any other.
LEMMA SetAndPublish ==
    ASSUME NEW A, NEW a \in A, NEW v \in Status \ {"UNSPECIFIED", "STOPPING"},
           NEW e \in {"changed", "card", "stopped"}
    PROVE  /\ PublishAgent(a, e) \in Fresh(A)
           /\ \A t \in Fresh(A) : (t \o <<Do("set", a, v)>>) \o PublishAgent(a, e) \in Fresh(A)
<1>1. PICK d, c, g, w : /\ d = Do("set", a, v) /\ c = Do("copy", a, e)
                        /\ g = Do("toAgent", a, e) /\ w = Do("toWorkspace", a, e)
  OBVIOUS
<1>2. /\ d.what = "set" /\ c.what = "copy" /\ g.what = "toAgent" /\ w.what = "toWorkspace"
      /\ d.agent = a /\ c.agent = a /\ g.agent = a /\ w.agent = a
      /\ d.arg # "STOPPING"
  BY <1>1 DEF Do
<1>3. {d, c, g, w} \subseteq StepsOn(A)
  BY <1>1, StepsAre DEF Sends
<1>4. PublishAgent(a, e) = <<c, g, w>>
  BY <1>1 DEF PublishAgent
<1>5. <<c, g, w>> \in Fresh(A)
  <2>1. PICK t : t = <<c, g, w>>
    OBVIOUS
  <2>2. t \in Seq(StepsOn(A)) /\ Len(t) = 3 /\ t[1] = c /\ t[2] = g /\ t[3] = w
    BY <1>3, <2>1
  <2>3. Chained(t)
    BY <1>2, <2>2 DEF Chained, After
  <2>4. \A i \in 1..3 : ~Halts(t[i])
    BY <1>2, <2>2 DEF Halts
  <2>5. Whole(t) /\ Begins(t[1])
    BY <1>2, <2>2, <2>4 DEF Whole, Begins
  <2>6. Led(t)
    BY <1>2, <2>2 DEF Led, Begins, After
  <2> QED BY <2>1, <2>2, <2>3, <2>5, <2>6 DEF Script, Fresh
<1>6. <<d, c, g, w>> \in Fresh(A)
  <2>1. PICK t : t = <<d, c, g, w>>
    OBVIOUS
  <2>2. t \in Seq(StepsOn(A)) /\ Len(t) = 4 /\ t[1] = d /\ t[2] = c /\ t[3] = g /\ t[4] = w
    BY <1>3, <2>1
  <2>3. Chained(t)
    BY <1>2, <2>2 DEF Chained, After
  <2>4. \A i \in 1..4 : ~Halts(t[i])
    BY <1>2, <2>2 DEF Halts
  <2>5. Whole(t) /\ Begins(t[1])
    BY <1>2, <2>2, <2>4 DEF Whole, Begins
  <2>6. Led(t)
    BY <1>2, <2>2 DEF Led, Begins, After
  <2> QED BY <2>1, <2>2, <2>3, <2>5, <2>6 DEF Script, Fresh
<1>7. <<d>> \o <<c, g, w>> = <<d, c, g, w>>
  BY FourInOrder
<1>8. ASSUME NEW t \in Fresh(A)
      PROVE  (t \o <<d>>) \o <<c, g, w>> \in Fresh(A)
  <2>1. t \in Seq(StepsOn(A)) /\ <<d>> \in Seq(StepsOn(A)) /\ <<c, g, w>> \in Seq(StepsOn(A))
    BY <1>3 DEF Script, Fresh
  <2>2. (t \o <<d>>) \o <<c, g, w>> = t \o (<<d>> \o <<c, g, w>>)
    BY <2>1, ConcatAssociative
  <2> QED BY <1>6, <1>7, <2>2, Joined
<1> QED BY <1>1, <1>4, <1>5, <1>8

\* A stop is eight steps, the first of which is the one that may skip them.
LEMMA StopScript ==
    ASSUME NEW A, NEW a \in A
    PROVE  StopSteps(a) \in Fresh(A) /\ Len(StopSteps(a)) = 8
<1>1. PICK d, c, g, w : /\ d = Do("set", a, "STOPPING") /\ c = Do("copy", a, "changed")
                        /\ g = Do("toAgent", a, "changed") /\ w = Do("toWorkspace", a, "changed")
  OBVIOUS
<1>2. PICK y, k, m, z : /\ y = Do("set", a, "STOPPED") /\ k = Do("copy", a, "stopped")
                        /\ m = Do("toAgent", a, "stopped") /\ z = Do("toWorkspace", a, "stopped")
  OBVIOUS
<1>3. /\ d.what = "set" /\ c.what = "copy" /\ g.what = "toAgent" /\ w.what = "toWorkspace"
      /\ d.agent = a /\ c.agent = a /\ g.agent = a /\ w.agent = a
  BY <1>1 DEF Do
<1>4. /\ y.what = "set" /\ k.what = "copy" /\ m.what = "toAgent" /\ z.what = "toWorkspace"
      /\ y.agent = a /\ k.agent = a /\ m.agent = a /\ z.agent = a
      /\ y.arg # "STOPPING"
  BY <1>2 DEF Do
<1>5. {d, c, g, w} \subseteq StepsOn(A) /\ {y, k, m, z} \subseteq StepsOn(A)
  <2>1. {"STOPPING", "STOPPED"} \subseteq Status \ {"UNSPECIFIED"}
    BY DEF Status
  <2> QED BY <1>1, <1>2, <2>1, StepsAre DEF Sends
<1>6. PICK u, v : u = <<d, c, g, w>> /\ v = <<y, k, m, z>>
  OBVIOUS
<1>7. /\ u \in Seq(StepsOn(A)) /\ Len(u) = 4 /\ u[1] = d /\ u[2] = c /\ u[3] = g /\ u[4] = w
      /\ v \in Seq(StepsOn(A)) /\ Len(v) = 4 /\ v[1] = y /\ v[2] = k /\ v[3] = m /\ v[4] = z
  BY <1>5, <1>6
<1>8. StopSteps(a) = u \o v
  <2>1. StopSteps(a) = (u \o <<y>>) \o <<k, m, z>>
    BY <1>1, <1>2, <1>6, FourInOrder DEF StopSteps, PublishAgent
  <2>2. <<y>> \in Seq(StepsOn(A)) /\ <<k, m, z>> \in Seq(StepsOn(A)) /\ u \in Seq(StepsOn(A))
    BY <1>5, <1>7
  <2>3. (u \o <<y>>) \o <<k, m, z>> = u \o (<<y>> \o <<k, m, z>>)
    BY <2>2, ConcatAssociative
  <2> QED BY <1>6, <2>1, <2>3, FourInOrder
<1>9. PICK t : t = u \o v
  OBVIOUS
<1>10. /\ t \in Seq(StepsOn(A)) /\ Len(t) = 8
       /\ \A i \in 1..8 : t[i] = IF i <= 4 THEN u[i] ELSE v[i - 4]
  <2>1. /\ t \in Seq(StepsOn(A)) /\ Len(t) = Len(u) + Len(v)
        /\ \A i \in 1 .. Len(u) + Len(v) : t[i] = IF i <= Len(u) THEN u[i] ELSE v[i - Len(u)]
    <3>1. u \in Seq(StepsOn(A)) /\ v \in Seq(StepsOn(A))
      BY <1>7
    <3> QED BY <1>9, <3>1, ConcatProperties
  <2> QED BY <1>7, <2>1
<1>11. /\ t[1] = d /\ t[2] = c /\ t[3] = g /\ t[4] = w
       /\ t[5] = y /\ t[6] = k /\ t[7] = m /\ t[8] = z
  BY <1>7, <1>10
<1>12. Chained(t)
  <2>1. \A i \in 1..8 : i \in {1, 2, 3, 4, 5, 6, 7, 8}
    OBVIOUS
  <2>2. After(w.what) = {} /\ After(z.what) = {}
    BY <1>3, <1>4 DEF After
  <2>3. /\ c.what \in After(d.what) /\ g.what \in After(c.what) /\ w.what \in After(g.what)
        /\ k.what \in After(y.what) /\ m.what \in After(k.what) /\ z.what \in After(m.what)
    BY <1>3, <1>4 DEF After
  <2>4. ASSUME NEW i \in 1..8, After(t[i].what) # {}
        PROVE  i < 8 /\ t[i + 1].what \in After(t[i].what) /\ t[i + 1].agent = t[i].agent
    <3>1. i \in {1, 2, 3, 5, 6, 7}
      BY <1>11, <2>1, <2>2, <2>4
    <3> QED BY <1>3, <1>4, <1>11, <2>3, <3>1
  <2> QED BY <1>10, <2>4 DEF Chained
<1>13. Whole(t) /\ Begins(t[1])
  <2>1. \A i \in 1..8 : Halts(t[i]) => i = 1
    <3>1. \A i \in 1..8 : i \in {1, 2, 3, 4, 5, 6, 7, 8}
      OBVIOUS
    <3> QED BY <1>3, <1>4, <1>11, <3>1 DEF Halts
  <2> QED BY <1>3, <1>10, <1>11, <2>1 DEF Whole, Begins
<1>14. Led(t)
  <2>1. \A i \in 1..8 : i \in {1, 2, 3, 4, 5, 6, 7, 8}
    OBVIOUS
  <2>2. /\ g.what \in After(c.what) /\ w.what \in After(g.what)
        /\ m.what \in After(k.what) /\ z.what \in After(m.what)
    BY <1>3, <1>4 DEF After
  <2>3. Begins(c) /\ Begins(y) /\ Begins(k)
    BY <1>3, <1>4 DEF Begins
  <2>4. ASSUME NEW i \in 1..8, i < 8, ~Begins(t[i + 1])
        PROVE  t[i + 1].what \in After(t[i].what)
    <3>1. i \in {2, 3, 6, 7}
      BY <1>11, <2>1, <2>3, <2>4
    <3> QED BY <1>11, <2>2, <3>1
  <2> QED BY <1>10, <2>4 DEF Led
<1> QED BY <1>8, <1>9, <1>10, <1>12, <1>13, <1>14 DEF Script, Fresh

\* The scripts of the handlers of one agent.
LEMMA AgentScripts ==
    ASSUME NEW A, NEW a \in A
    PROVE  StopSteps(a) \in Fresh(A) /\ SpawnSteps(a) \in Fresh(A) /\ RestartSteps(a) \in Fresh(A)
<1>1. "READY" \in Status \ {"UNSPECIFIED", "STOPPING"} /\ "READY" \in Status \ {"UNSPECIFIED"}
  BY DEF Status
<1>2. StopSteps(a) \in Fresh(A)
  BY StopScript
<1>3. RestartSteps(a) \in Fresh(A)
  <2>1. (StopSteps(a) \o <<Do("set", a, "READY")>>) \o PublishAgent(a, "card") \in Fresh(A)
    BY <1>1, <1>2, SetAndPublish
  <2>2. PublishAgent(a, "changed") \in Fresh(A)
    BY <1>1, SetAndPublish
  <2> QED BY <2>1, <2>2, Joined DEF RestartSteps
<1>4. SpawnSteps(a) \in Fresh(A)
  <2>1. PICK d, p, c, g, w : /\ d = Do("set", a, "READY") /\ p = Do("spawned", a, "spawned")
                             /\ c = Do("copy", a, "changed") /\ g = Do("toAgent", a, "changed")
                             /\ w = Do("toWorkspace", a, "changed")
    OBVIOUS
  <2>2. /\ d.what = "set" /\ p.what = "spawned" /\ c.what = "copy" /\ g.what = "toAgent"
        /\ w.what = "toWorkspace"
        /\ d.agent = a /\ p.agent = a /\ c.agent = a /\ g.agent = a /\ w.agent = a
    BY <2>1 DEF Do
  <2>3. {d, p, c, g, w} \subseteq StepsOn(A)
    BY <1>1, <2>1, StepsAre DEF Sends
  <2>4. PICK l, r : l = <<d, p>> /\ r = <<c, g, w>>
    OBVIOUS
  <2>5. SpawnSteps(a) = l \o r
    BY <2>1, <2>4 DEF SpawnSteps, PublishAgent
  <2>6. /\ l \in Seq(StepsOn(A)) /\ Len(l) = 2 /\ l[1] = d /\ l[2] = p
        /\ r \in Seq(StepsOn(A)) /\ Len(r) = 3 /\ r[1] = c /\ r[2] = g /\ r[3] = w
    BY <2>3, <2>4
  <2>7. PICK t : t = l \o r
    OBVIOUS
  <2>8. /\ t \in Seq(StepsOn(A)) /\ Len(t) = Len(l) + Len(r)
        /\ \A i \in 1 .. Len(l) + Len(r) : t[i] = IF i <= Len(l) THEN l[i] ELSE r[i - Len(l)]
    <3>1. l \in Seq(StepsOn(A)) /\ r \in Seq(StepsOn(A))
      BY <2>6
    <3> QED BY <2>7, <3>1, ConcatProperties
  <2>9. Len(t) = 5 /\ t[1] = d /\ t[2] = p /\ t[3] = c /\ t[4] = g /\ t[5] = w
    BY <2>6, <2>8
  <2>10. Chained(t)
    BY <2>2, <2>9 DEF Chained, After
  <2>11. \A i \in 1..5 : ~Halts(t[i])
    <3>1. d.arg = "READY"
      BY <2>1 DEF Do
    <3> QED BY <2>2, <2>9, <3>1 DEF Halts
  <2>12. Whole(t) /\ Begins(t[1])
    BY <2>2, <2>9, <2>11 DEF Whole, Begins
  <2>13. Led(t)
    BY <2>2, <2>9 DEF Led, Begins, After
  <2> QED BY <2>5, <2>7, <2>8, <2>10, <2>12, <2>13 DEF Script, Fresh
<1> QED BY <1>2, <1>3, <1>4

\* What flattening a sequence of scripts goes through.
FlatUpTo(f, m, g) ==
    g = [i \in 1..m |-> IF i = 1 THEN f[i] ELSE g[i - 1] \o f[i]]

\* Scripts one after another are a script.
LEMMA Flattened ==
    ASSUME NEW A, NEW n \in Nat, NEW f \in [1..n -> Fresh(A)]
    PROVE  FlattenSeq(f) \in Fresh(A)
<1>1. f \in Seq(Fresh(A)) /\ Len(f) = n
  OBVIOUS
<1>2. CASE n = 0
  <2>1. f = <<>>
    BY <1>1, <1>2
  <2>2. FlattenSeq(f) = <<>>
    BY <1>1, <1>2, <2>1 DEF FlattenSeq
  <2> QED BY <2>2, NoSteps
<1>3. CASE n # 0
  <2>1. ASSUME NEW m \in 1..n, ~\E g : FlatUpTo(f, m, g)
        PROVE  FALSE
    <3>1. PICK B : B = {k \in 1..n : ~\E g : FlatUpTo(f, k, g)}
      OBVIOUS
    <3>2. PICK k \in B : \A j \in B : k <= j
      <4>1. B \in SUBSET Nat /\ B # {}
        BY <2>1, <3>1
      <4> QED BY <4>1, Least
    <3>3. k \in 1..n /\ ~\E g : FlatUpTo(f, k, g)
      BY <3>1
    <3>4. CASE k = 1
      <4>1. PICK g : g = [i \in 1..1 |-> f[i]]
        OBVIOUS
      <4>2. FlatUpTo(f, 1, g)
        <5>1. [i \in 1..1 |-> f[i]] = [i \in 1..1 |-> IF i = 1 THEN f[i] ELSE g[i - 1] \o f[i]]
          OBVIOUS
        <5> QED BY <4>1, <5>1, Zenon DEF FlatUpTo
      <4> QED BY <3>3, <3>4, <4>2
    <3>5. CASE k # 1
      <4>1. k - 1 \in 1..n /\ k - 1 \notin B
        BY <3>2, <3>3, <3>5
      <4>2. PICK g : FlatUpTo(f, k - 1, g)
        BY <3>1, <4>1
      <4>3. PICK h : h = [i \in 1..k |-> IF i = 1 THEN f[i] ELSE g[i - 1] \o f[i]]
        OBVIOUS
      <4>4. \A i \in 1..k - 1 : h[i] = g[i]
        <5>1. \A i \in 1..k - 1 : g[i] = IF i = 1 THEN f[i] ELSE g[i - 1] \o f[i]
          BY <4>2 DEF FlatUpTo
        <5>2. 1..k - 1 \subseteq 1..k
          BY <3>3
        <5> QED BY <4>3, <5>1, <5>2
      <4>5. \A i \in 1..k : i # 1 => i - 1 \in 1..k - 1
        BY <3>3
      <4>6. h = [i \in 1..k |-> IF i = 1 THEN f[i] ELSE h[i - 1] \o f[i]]
        BY <4>3, <4>4, <4>5
      <4> QED BY <3>3, <4>6 DEF FlatUpTo
    <3> QED BY <3>4, <3>5
  <2>2. PICK g : g = CHOOSE x : FlatUpTo(f, n, x)
    OBVIOUS
  <2>3. FlatUpTo(f, n, g)
    BY <1>3, <2>1, <2>2
  <2>4. \A i \in 1..n : g[i] = IF i = 1 THEN f[i] ELSE g[i - 1] \o f[i]
    BY <2>3 DEF FlatUpTo
  <2>5. ASSUME NEW m \in 1..n, g[m] \notin Fresh(A)
        PROVE  FALSE
    <3>1. PICK B : B = {k \in 1..n : g[k] \notin Fresh(A)}
      OBVIOUS
    <3>2. PICK k \in B : \A j \in B : k <= j
      <4>1. B \in SUBSET Nat /\ B # {}
        BY <2>5, <3>1
      <4> QED BY <4>1, Least
    <3>3. k \in 1..n /\ g[k] \notin Fresh(A) /\ f[k] \in Fresh(A)
      BY <3>1
    <3>4. k # 1
      BY <2>4, <3>3
    <3>5. k - 1 \in 1..n /\ k - 1 \notin B
      BY <3>2, <3>3, <3>4
    <3>6. g[k - 1] \in Fresh(A)
      BY <3>1, <3>5
    <3> QED BY <2>4, <3>3, <3>4, <3>6, Joined
  <2>6. FlattenSeq(f) = g[n]
    BY <1>1, <1>3, <2>2 DEF FlattenSeq, FlatUpTo
  <2> QED BY <1>3, <2>5, <2>6
<1> QED BY <1>2, <1>3

\* The script of DestroyWorkspace, for whatever members there are.
LEMMA DestroyScript ==
    ASSUME NEW A, IsFiniteSet(A), NEW order \in SetToSeqs(A)
    PROVE  FlattenSeq([i \in DOMAIN order |-> StopSteps(order[i])])
             \o <<Deletion(A), Do("destroyed", None, "destroyed")>> \in Fresh(A)
<1>1. PICK n \in Nat : n = Cardinality(A)
  BY FS_CardinalityType
<1>2. order \in [1..n -> A]
  BY <1>1 DEF SetToSeqs
<1>3. [i \in DOMAIN order |-> StopSteps(order[i])] \in [1..n -> Fresh(A)]
  BY <1>2, AgentScripts
<1>4. PICK x, y : x = Deletion(A) /\ y = Do("destroyed", None, "destroyed")
  OBVIOUS
<1>5. x.what = "remove" /\ y.what = "destroyed"
  BY <1>4 DEF Deletion, Do
<1>6. x \in StepsOn(A) /\ y \in StepsOn(A)
  BY <1>4 DEF StepsOn
<1>7. PICK t : t = <<x, y>>
  OBVIOUS
<1>8. t \in Fresh(A)
  <2>1. t \in Seq(StepsOn(A)) /\ Len(t) = 2 /\ t[1] = x /\ t[2] = y
    BY <1>6, <1>7
  <2>2. Chained(t)
    BY <1>5, <2>1 DEF Chained, After
  <2>3. \A i \in 1..2 : ~Halts(t[i])
    BY <1>5, <2>1 DEF Halts
  <2>4. Whole(t) /\ Begins(t[1])
    BY <1>5, <2>1, <2>3 DEF Whole, Begins
  <2>5. Led(t)
    BY <1>5, <2>1 DEF Led, Begins
  <2> QED BY <2>1, <2>2, <2>4, <2>5 DEF Script, Fresh
<1> QED BY <1>3, <1>4, <1>7, <1>8, Flattened, Joined

-----------------------------------------------------------------------------
\* A handler that does nothing has nothing to do.
LEMMA NoHandlerTyped == ASSUME NEW A PROVE NoHandler \in HandlerOn(A)
<1>1. <<>> \in Script(A)
  BY NoSteps DEF Fresh
<1> QED BY <1>1 DEF NoHandler, HandlerOn, Op, Known

\* What the next step of a handler may be.
LEMMA HeadIs ==
    ASSUME Types, NEW h \in Handlers, Busy(h)
    PROVE  /\ handlers[h] \in HandlerOn(Made) /\ handlers[h].todo \in Seq(StepsOn(Made))
           /\ 1 \in 1..Len(handlers[h].todo) /\ Next1(h) = handlers[h].todo[1]
           /\ At(h, "set") => Next1(h).agent \in Made /\ Next1(h).arg \in Status \ {"UNSPECIFIED"}
           /\ At(h, "copy") \/ At(h, "toAgent") \/ At(h, "toWorkspace") =>
                Next1(h).agent \in Made /\ Next1(h).arg \in {"changed", "card", "stopped"}
           /\ At(h, "spawned") => Next1(h).agent \in Made /\ Next1(h).arg = "spawned"
           /\ At(h, "destroyed") => Next1(h).agent = None /\ Next1(h).arg = "destroyed"
           /\ At(h, "remove") => Next1(h).agent = None
<1>1. handlers[h] \in HandlerOn(Made) /\ handlers[h].todo \in Seq(StepsOn(Made))
  BY DEF Types, HandlerOn, Script
<1>2. PICK t : t = handlers[h].todo
  OBVIOUS
<1>3. t \in Seq(StepsOn(Made)) /\ t # <<>> /\ Next1(h) = Head(t)
  BY <1>1, <1>2 DEF Busy, Next1
<1>4. 1 \in 1..Len(t) /\ Next1(h) = t[1] /\ Next1(h) \in StepsOn(Made)
  BY <1>3
<1>5. PICK d : d = Next1(h)
  OBVIOUS
<1>6. /\ d.what = "set" => d.agent \in Made /\ d.arg \in Status \ {"UNSPECIFIED"}
      /\ d.what \in Sends => d.agent \in Made /\ d.arg \in {"changed", "card", "stopped"}
      /\ d.what = "spawned" => d.agent \in Made /\ d.arg = "spawned"
      /\ d.what = "destroyed" => d.agent = None /\ d.arg = "destroyed"
      /\ d.what = "remove" => d.agent = None
  BY <1>4, <1>5 DEF StepsOn, Do, Deletion, Sends
<1> QED BY <1>1, <1>2, <1>4, <1>5, <1>6 DEF At, Sends

\* A handler that goes on has a script, of which it has taken some steps.
LEMMA SkipTyped ==
    ASSUME NEW A, handlers \in [Handlers -> HandlerOn(A)], NEW h \in Handlers, NEW n \in Nat \ {0},
           NEW rec \in HandlerOn(A), Skip(h, n, rec)
    PROVE  handlers' \in [Handlers -> HandlerOn(A)]
<1>1. rec.todo \in Script(A)
  BY DEF HandlerOn
<1>2. PICK t : t = SubSeq(rec.todo, n + 1, Len(rec.todo))
  OBVIOUS
<1>3. t \in Script(A)
  BY <1>1, <1>2, Rest
<1>4. [rec EXCEPT !.todo = t] \in HandlerOn(A)
  BY <1>3 DEF HandlerOn
<1> QED BY <1>2, <1>4, NoHandlerTyped DEF Skip

\* A handler that starts has a script.
LEMMA StartsTyped ==
    ASSUME NEW A, handlers \in [Handlers -> HandlerOn(A)], NEW h \in Handlers, NEW o \in Op,
           NEW t \in Script(A), Starts(h, o, t)
    PROVE  handlers' \in [Handlers -> HandlerOn(A)]
<1>1. [NoHandler EXCEPT !.op = o, !.todo = t] \in HandlerOn(A)
  BY NoHandlerTyped DEF HandlerOn
<1> QED BY <1>1 DEF Starts

\* An agent that was made stays made, and handlers may go on with it.
LEMMA MadeStays ==
    ASSUME Types, \A a \in Agents : status[a] # "UNSPECIFIED" => status'[a] # "UNSPECIFIED"
    PROVE  Made \subseteq Made' /\ HandlerOn(Made) \subseteq HandlerOn(Made')
<1>1. Made \subseteq Made'
  BY DEF Made
<1> QED BY <1>1, ScriptsGrow

\* What is sent to streams keeps their types and the capacity of their channels.
LEMMA SentTyped ==
    ASSUME Types, NEW watching, NEW ev \in KnownEvent, streams' = Sent(watching, ev)
    PROVE  /\ streams' \in [Streams -> Watch]
           /\ \A s \in Streams : Len(streams'[s].queue) <= BufSize
<1>1. streams' = [q \in Streams |-> streams'[q]]
  <2>1. DOMAIN Sent(watching, ev) = Streams
    BY DEF Sent
  <2>2. Sent(watching, ev) = [q \in Streams |-> Sent(watching, ev)[q]]
    BY <2>1 DEF Sent
  <2> QED BY <2>2
<1> SUFFICES ASSUME NEW s \in Streams
             PROVE  streams'[s] \in Watch /\ Len(streams'[s].queue) <= BufSize
  BY <1>1
<1>2. PICK w : w = streams[s]
  OBVIOUS
<1>3. /\ w \in Watch /\ Len(w.queue) <= BufSize /\ w.queue \in Seq(KnownEvent)
      /\ Len(w.queue) \in Nat /\ BufSize \in Nat
  BY <1>2, BufSizeAssumption DEF Types, Watch
<1>4. \/ streams'[s] = w
      \/ streams'[s] = [w EXCEPT !.lost = TRUE]
      \/ Len(w.queue) < BufSize /\ streams'[s] = [w EXCEPT !.queue = Append(@, ev)]
  <2>1. streams'[s] = IF s \notin watching THEN streams[s]
                      ELSE IF Subscribed(s) THEN TrySend(s, ev) ELSE Missed(s)
    BY DEF Sent
  <2>2. streams'[s] \in {streams[s], TrySend(s, ev), Missed(s)}
    BY <2>1
  <2> QED BY <1>2, <2>2 DEF TrySend, Missed
<1>5. Append(w.queue, ev) \in Seq(KnownEvent) /\ Len(Append(w.queue, ev)) = Len(w.queue) + 1
  BY <1>3
<1>6. /\ [w EXCEPT !.lost = TRUE] \in Watch /\ [w EXCEPT !.lost = TRUE].queue = w.queue
      /\ [w EXCEPT !.queue = Append(@, ev)] \in Watch
      /\ [w EXCEPT !.queue = Append(@, ev)].queue = Append(w.queue, ev)
  BY <1>3, <1>5 DEF Watch
<1>7. CASE streams'[s] = w
  BY <1>3, <1>7
<1>8. CASE streams'[s] = [w EXCEPT !.lost = TRUE]
  BY <1>3, <1>6, <1>8
<1>9. CASE Len(w.queue) < BufSize /\ streams'[s] = [w EXCEPT !.queue = Append(@, ev)]
  <2>1. streams'[s].queue = Append(w.queue, ev) /\ streams'[s] \in Watch
    BY <1>6, <1>9
  <2>2. Len(w.queue) + 1 <= BufSize
    BY <1>3, <1>9
  <2> QED BY <1>5, <2>1, <2>2
<1> QED BY <1>4, <1>7, <1>8, <1>9

\* What streams start from and end with.
LEMMA NoStreamTyped ==
    /\ NoStream \in Watch /\ NoStream.queue = <<>>
    /\ \A w \in Watch : [NoStream EXCEPT !.kind = w.kind, !.agent = w.agent, !.pc = "unsubscribe"] \in Watch
<1>1. Nothing \in [Agents -> Known]
  BY DEF Nothing, Known
<1>2. <<>> \in Seq(KnownEvent)
  OBVIOUS
<1> QED BY <1>1, <1>2 DEF NoStream, Watch

\* Requests start scripts of agents that were made.
LEMMA RequestTyped ==
    ASSUME Types, NEW h \in Handlers, Request(h)
    PROVE  Types'
<1>1. CASE CreateWorkspace(h)
  <2>1. Made' = Made
    BY <1>1 DEF CreateWorkspace, Made
  <2> QED BY <1>1, <2>1, FS_EmptySet DEF CreateWorkspace, Types
<1>2. CASE SpawnAgent(h)
  <2>1. PICK a \in Agents :
          /\ Starts(h, "spawn", SpawnSteps(a))
          /\ registered' = registered \cup {a} /\ members' = members \cup {a}
          /\ status' = [status EXCEPT ![a] = "STARTING"]
          /\ UNCHANGED <<exists, everWatched, streams>>
    BY <1>2 DEF SpawnAgent
  <2>2. status' \in [Agents -> Status] /\ status'[a] # "UNSPECIFIED"
        /\ \A b \in Agents : status[b] # "UNSPECIFIED" => status'[b] # "UNSPECIFIED"
    BY <2>1 DEF Types, Status
  <2>3. Made \subseteq Made' /\ HandlerOn(Made) \subseteq HandlerOn(Made') /\ a \in Made'
    BY <2>2, MadeStays DEF Made
  <2>4. handlers \in [Handlers -> HandlerOn(Made')]
    BY <2>3 DEF Types
  <2>5. handlers' \in [Handlers -> HandlerOn(Made')]
    BY <2>1, <2>3, <2>4, StartsTyped, AgentScripts DEF Op, Fresh
  <2>6. IsFiniteSet(members')
    BY <2>1, FS_AddElement DEF Types
  <2> QED BY <2>1, <2>2, <2>3, <2>5, <2>6 DEF Types
<1>3. ASSUME StopAgent(h) \/ RestartAgent(h) \/ DestroyWorkspace(h)
      PROVE  Types'
  <2>1. UNCHANGED <<registered, members, status, exists, everWatched, streams>>
    BY <1>3 DEF StopAgent, RestartAgent, DestroyWorkspace
  <2>2. PICK o \in Op, t \in Script(Made) : Starts(h, o, t)
    <3>1. CASE StopAgent(h)
      <4>1. PICK a \in Made : Starts(h, "stop", StopSteps(a))
        BY <3>1 DEF StopAgent, Types
      <4> QED BY <4>1, AgentScripts DEF Op, Fresh
    <3>2. CASE RestartAgent(h)
      <4>1. PICK a \in Made : Starts(h, "restart", RestartSteps(a))
        BY <3>2 DEF RestartAgent, Types
      <4> QED BY <4>1, AgentScripts DEF Op, Fresh
    <3>3. CASE DestroyWorkspace(h)
      <4>1. PICK order \in SetToSeqs(members) :
              Starts(h, "destroy", FlattenSeq([i \in DOMAIN order |-> StopSteps(order[i])])
                                     \o <<Deletion(members), Do("destroyed", None, "destroyed")>>)
        BY <3>3 DEF DestroyWorkspace
      <4>2. FlattenSeq([i \in DOMAIN order |-> StopSteps(order[i])])
              \o <<Deletion(members), Do("destroyed", None, "destroyed")>> \in Script(members)
        BY DestroyScript DEF Types, Fresh
      <4>3. Script(members) \subseteq Script(Made)
        BY ScriptsGrow DEF Types
      <4> QED BY <4>1, <4>2, <4>3 DEF Op
    <3> QED BY <1>3, <3>1, <3>2, <3>3
  <2>3. handlers' \in [Handlers -> HandlerOn(Made)]
    BY <2>2, StartsTyped DEF Types
  <2>4. Made' = Made
    BY <2>1 DEF Made
  <2> QED BY <2>1, <2>3, <2>4 DEF Types
<1> QED BY <1>1, <1>2, <1>3 DEF Request

\* A handler goes on with a script of agents that were made.
LEMMA HandlerTyped ==
    ASSUME Types, NEW h \in Handlers, HandlerStep(h)
    PROVE  Types'
<1>1. Busy(h)
  BY DEF HandlerStep, SetStatus, StartFails, RemoveWorkspace, CopyAgent, PublishToAgent,
         PublishToWorkspace, PublishWorkspace, At
<1>2. handlers[h] \in HandlerOn(Made) /\ handlers \in [Handlers -> HandlerOn(Made)]
  BY DEF Types
<1>3. CASE SetStatus(h)
  <2>1. PICK a \in Made, v \in Status \ {"UNSPECIFIED"} : a = Next1(h).agent /\ v = Next1(h).arg
    BY <1>1, <1>3, HeadIs DEF SetStatus
  <2>2. PICK n \in Nat \ {0} : Skip(h, n, handlers[h])
    <3>1. Len(StopSteps(a)) \in Nat \ {0}
      <4>1. Len(StopSteps(a)) = 8
        BY StopScript
      <4> QED BY <4>1
    <3>2. PICK n : n = IF Next1(h).arg = "STOPPING" /\ Next1(h).agent \notin registered
                       THEN Len(StopSteps(Next1(h).agent)) ELSE 1
      OBVIOUS
    <3>3. n \in Nat \ {0}
      BY <2>1, <3>1, <3>2
    <3>4. Skip(h, n, handlers[h])
      BY <1>3, <3>2 DEF SetStatus
    <3> QED BY <3>3, <3>4
  <2>3. /\ status' = status \/ status' = [status EXCEPT ![a] = v]
        /\ UNCHANGED <<registered, members, exists, everWatched, streams>>
    BY <1>3, <2>1 DEF SetStatus
  <2>4. status' \in [Agents -> Status]
        /\ \A b \in Agents : status[b] # "UNSPECIFIED" => status'[b] # "UNSPECIFIED"
    BY <2>1, <2>3 DEF Types
  <2>5. handlers' \in [Handlers -> HandlerOn(Made)]
    BY <1>2, <2>2, SkipTyped
  <2> QED BY <2>3, <2>4, <2>5, MadeStays DEF Types
<1>4. CASE StartFails(h)
  <2>1. PICK a \in Made : a = Next1(h).agent
    BY <1>1, <1>4, HeadIs DEF StartFails
  <2>2. /\ status' = status \/ status' = [status EXCEPT ![a] = "ERROR"]
        /\ handlers' = [handlers EXCEPT ![h] = NoHandler]
        /\ UNCHANGED <<registered, members, exists, everWatched, streams>>
    BY <1>4, <2>1 DEF StartFails
  <2>3. status' \in [Agents -> Status]
        /\ \A b \in Agents : status[b] # "UNSPECIFIED" => status'[b] # "UNSPECIFIED"
    BY <2>1, <2>2 DEF Types, Status
  <2>4. handlers' \in [Handlers -> HandlerOn(Made)]
    BY <1>2, <2>2, NoHandlerTyped
  <2> QED BY <2>2, <2>3, <2>4, MadeStays DEF Types
<1>5. CASE RemoveWorkspace(h)
  <2>1. handlers' \in [Handlers -> HandlerOn(Made)] /\ Made' = Made
    BY <1>2, <1>5, SkipTyped DEF RemoveWorkspace, Made
  <2> QED BY <1>5, <2>1 DEF RemoveWorkspace, Types
<1>6. CASE CopyAgent(h)
  <2>1. PICK a \in Made : a = Next1(h).agent
    BY <1>1, <1>6, HeadIs DEF CopyAgent
  <2>2. status[a] \in Known
    BY DEF Types, Made, Known
  <2>3. [handlers[h] EXCEPT !.copy = status[a]] \in HandlerOn(Made)
    BY <1>2, <2>2 DEF HandlerOn
  <2>4. handlers' \in [Handlers -> HandlerOn(Made)] /\ Made' = Made
    <3>1. PICK rec \in HandlerOn(Made) : Skip(h, 1, rec)
      BY <1>6, <2>1, <2>3 DEF CopyAgent
    <3>2. handlers' \in [Handlers -> HandlerOn(Made)]
      BY <1>2, <3>1, SkipTyped
    <3> QED BY <1>6, <3>2 DEF CopyAgent, Made
  <2> QED BY <1>6, <2>4 DEF CopyAgent, Types
<1>7. CASE PublishToAgent(h)
  <2>1. PICK ev : ev = [type |-> Next1(h).arg, agent |-> Next1(h).agent, status |-> handlers[h].copy]
    OBVIOUS
  <2>2. ev \in KnownEvent /\ streams' = Sent(AgentStreams(Next1(h).agent), ev)
    <3>1. /\ Next1(h).agent \in Agents /\ Next1(h).arg \in EventTypes
          /\ handlers[h].copy \in Known
      BY <1>1, <1>2, <1>7, HeadIs DEF PublishToAgent, Made, EventTypes, HandlerOn
    <3> QED BY <1>7, <2>1, <3>1 DEF PublishToAgent, KnownEvent
  <2>3. [handlers[h] EXCEPT !.toWs = exists /\ everWatched] \in HandlerOn(Made)
    BY <1>2 DEF HandlerOn, Types
  <2>4. handlers' \in [Handlers -> HandlerOn(Made)] /\ Made' = Made
    <3>1. PICK rec \in HandlerOn(Made) : Skip(h, 1, rec)
      BY <1>7, <2>3 DEF PublishToAgent
    <3>2. handlers' \in [Handlers -> HandlerOn(Made)]
      BY <1>2, <3>1, SkipTyped
    <3> QED BY <1>7, <3>2 DEF PublishToAgent, Made
  <2> QED BY <1>7, <2>2, <2>4, SentTyped DEF PublishToAgent, Types
<1>8. CASE PublishToWorkspace(h)
  <2>1. PICK ev : ev = [type |-> IF Next1(h).arg = "stopped" THEN "stopped" ELSE "changed",
                        agent |-> Next1(h).agent, status |-> handlers[h].copy]
    OBVIOUS
  <2>2. ev \in KnownEvent
    <3>1. Next1(h).agent \in Agents /\ handlers[h].copy \in Known
      BY <1>1, <1>2, <1>8, HeadIs DEF PublishToWorkspace, Made, HandlerOn
    <3> QED BY <2>1, <3>1 DEF KnownEvent, EventTypes
  <2>3. \/ streams' = Sent(WorkspaceStreams, ev)
        \/ streams' = [s \in Streams |-> IF s \in WorkspaceStreams THEN Missed(s) ELSE streams[s]]
    BY <1>8, <2>1 DEF PublishToWorkspace
  <2>4. /\ streams' \in [Streams -> Watch]
        /\ \A s \in Streams : Len(streams'[s].queue) <= BufSize
    <3>1. \A s \in Streams : Missed(s) \in Watch /\ Missed(s).queue = streams[s].queue
      BY DEF Types, Missed, Watch
    <3> QED BY <2>2, <2>3, <3>1, SentTyped DEF Types
  <2>5. [handlers[h] EXCEPT !.copy = None, !.toWs = FALSE] \in HandlerOn(Made)
    BY <1>2 DEF HandlerOn, Known
  <2>6. handlers' \in [Handlers -> HandlerOn(Made)] /\ Made' = Made
    <3>1. PICK rec \in HandlerOn(Made) : Skip(h, 1, rec)
      BY <1>8, <2>5 DEF PublishToWorkspace
    <3>2. handlers' \in [Handlers -> HandlerOn(Made)]
      BY <1>2, <3>1, SkipTyped
    <3> QED BY <1>8, <3>2 DEF PublishToWorkspace, Made
  <2> QED BY <1>8, <2>4, <2>6 DEF PublishToWorkspace, Types
<1>9. CASE PublishWorkspace(h)
  <2>1. PICK ev : ev = [type |-> Next1(h).arg, agent |-> Next1(h).agent,
                        status |-> IF Next1(h).agent = None THEN None ELSE status[Next1(h).agent]]
    OBVIOUS
  <2>2. ev \in KnownEvent /\ streams' = Sent(WorkspaceStreams, ev)
    <3>1. /\ Next1(h).agent \in Made \cup {None} /\ Next1(h).arg \in EventTypes
      BY <1>1, <1>9, HeadIs DEF PublishWorkspace, EventTypes
    <3>2. ev.status \in Known
      BY <2>1, <3>1 DEF Types, Made, Known
    <3> QED BY <1>9, <2>1, <3>1, <3>2 DEF PublishWorkspace, KnownEvent, Made
  <2>3. handlers' \in [Handlers -> HandlerOn(Made)] /\ Made' = Made
    BY <1>2, <1>9, SkipTyped DEF PublishWorkspace, Made
  <2> QED BY <1>9, <2>2, <2>3, SentTyped DEF PublishWorkspace, Types
<1> QED BY <1>3, <1>4, <1>5, <1>6, <1>7, <1>8, <1>9 DEF HandlerStep

\* Streams come and go, with what they were told.
LEMMA StreamTyped ==
    ASSUME Types, NEW s \in Streams, WatchAgent(s) \/ WatchWorkspace(s) \/ StreamStep(s) \/ Cancel(s)
    PROVE  Types'
<1>1. UNCHANGED <<registered, members, status, exists, handlers>>
  BY DEF WatchAgent, WatchWorkspace, StreamStep, Subscribe, SendInitial, Receive, Unsubscribe, Cancel
<1>2. Made' = Made
  BY <1>1 DEF Made
<1>3. PICK w : w = streams[s]
  OBVIOUS
<1>4. /\ w \in Watch /\ Len(w.queue) <= BufSize /\ Len(w.queue) \in Nat
      /\ streams \in [Streams -> Watch] /\ BufSize \in Nat /\ 0 <= BufSize
  BY <1>3, BufSizeAssumption DEF Types, Watch
<1>5. ASSUME NEW x \in Watch, Len(x.queue) <= BufSize, streams' = [streams EXCEPT ![s] = x],
             everWatched' \in BOOLEAN
      PROVE  Types'
  <2>1. streams' \in [Streams -> Watch] /\ \A q \in Streams : Len(streams'[q].queue) <= BufSize
    BY <1>4, <1>5 DEF Types
  <2> QED BY <1>1, <1>2, <1>5, <2>1 DEF Types
<1>6. /\ Len(<<>>) <= BufSize
      /\ Leaving(s) \in Watch /\ Leaving(s).queue = <<>> /\ NoStream \in Watch /\ NoStream.queue = <<>>
  <2>1. Leaving(s) \in Watch /\ Leaving(s).queue = NoStream.queue
    BY <1>3, <1>4, NoStreamTyped DEF Leaving, Watch
  <2> QED BY <1>4, <2>1, NoStreamTyped
<1>7. CASE WatchAgent(s)
  <2>1. PICK a \in registered : streams' = [streams EXCEPT ![s] = [NoStream EXCEPT !.kind = "agent",
              !.agent = a, !.pc = "subscribe", !.snapshot = [Nothing EXCEPT ![a] = status[a]]]]
    BY <1>7 DEF WatchAgent
  <2>2. PICK x : x = [NoStream EXCEPT !.kind = "agent", !.agent = a, !.pc = "subscribe",
                                      !.snapshot = [Nothing EXCEPT ![a] = status[a]]]
    OBVIOUS
  <2>3. a \in Agents /\ [Nothing EXCEPT ![a] = status[a]] \in [Agents -> Known]
    BY DEF Types, Made, Nothing, Known
  <2>4. x \in Watch /\ x.queue = <<>>
    BY <1>6, <2>2, <2>3 DEF Watch
  <2> QED BY <1>5, <1>6, <1>7, <2>1, <2>2, <2>4 DEF WatchAgent, Types
<1>8. CASE WatchWorkspace(s)
  <2>1. PICK x : x = [NoStream EXCEPT !.kind = "workspace", !.pc = "subscribe",
            !.snapshot = [a \in Agents |-> IF a \in registered THEN status[a] ELSE None]]
    OBVIOUS
  <2>2. [a \in Agents |-> IF a \in registered THEN status[a] ELSE None] \in [Agents -> Known]
    BY DEF Types, Made, Known
  <2>3. x \in Watch /\ x.queue = <<>>
    BY <1>6, <2>1, <2>2 DEF Watch
  <2> QED BY <1>5, <1>6, <1>8, <2>1, <2>3 DEF WatchWorkspace, Types
<1>9. CASE Subscribe(s)
  <2>1. PICK x : x = [w EXCEPT !.pc = "initial"]
    OBVIOUS
  <2>2. x \in Watch /\ x.queue = w.queue /\ streams' = [streams EXCEPT ![s] = x]
    BY <1>3, <1>4, <1>9, <2>1 DEF Watch, Subscribe
  <2>3. everWatched' \in BOOLEAN
    BY <1>9 DEF Subscribe, Types
  <2> QED BY <1>4, <1>5, <2>2, <2>3
<1>10. CASE SendInitial(s)
  <2>1. PICK x : x = [w EXCEPT !.pc = "loop", !.seen = w.snapshot, !.snapshot = Nothing]
    OBVIOUS
  <2>2. Nothing \in [Agents -> Known]
    BY DEF Nothing, Known
  <2>3. x \in Watch /\ x.queue = w.queue
    BY <1>4, <2>1, <2>2 DEF Watch
  <2>4. streams' = [streams EXCEPT ![s] = x]
    BY <1>3, <1>4, <1>10, <2>1 DEF SendInitial
  <2> QED BY <1>4, <1>5, <1>10, <2>3, <2>4 DEF SendInitial, Types
<1>11. CASE Receive(s)
  <2>1. PICK ev : ev = Head(w.queue)
    OBVIOUS
  <2>2. /\ ev \in KnownEvent /\ Tail(w.queue) \in Seq(KnownEvent)
        /\ Len(Tail(w.queue)) <= BufSize
    <3>1. PICK q : q = w.queue
      OBVIOUS
    <3>2. q \in Seq(KnownEvent) /\ q # <<>>
      BY <1>3, <1>4, <1>11, <3>1 DEF Receive, Watch
    <3>3. /\ Head(q) \in KnownEvent /\ Tail(q) \in Seq(KnownEvent)
          /\ Len(Tail(q)) = Len(q) - 1
      BY <3>2, HeadTailProperties
    <3>4. Len(q) - 1 <= BufSize
      BY <1>4, <3>1
    <3> QED BY <2>1, <3>1, <3>3, <3>4
  <2>3. PICK seen : seen = IF ev.agent = None THEN w.seen ELSE [w.seen EXCEPT ![ev.agent] = ev.status]
    OBVIOUS
  <2>4. seen \in [Agents -> Known]
    BY <1>4, <2>2, <2>3 DEF Watch, KnownEvent
  <2>5. PICK x : x = [w EXCEPT !.queue = Tail(w.queue), !.seen = seen]
    OBVIOUS
  <2>6. x \in Watch /\ x.queue = Tail(w.queue)
    BY <1>4, <2>2, <2>4, <2>5 DEF Watch
  <2>7. streams' = [streams EXCEPT ![s] = Leaving(s)] \/ streams' = [streams EXCEPT ![s] = x]
    <3>1. /\ ev = Head(streams[s].queue)
          /\ seen = IF ev.agent = None THEN streams[s].seen
                    ELSE [streams[s].seen EXCEPT ![ev.agent] = ev.status]
          /\ x = [streams[s] EXCEPT !.queue = Tail(streams[s].queue), !.seen = seen]
      BY <1>3, <2>1, <2>3, <2>5, Zenon
    <3>2. streams' = [streams EXCEPT ![s] = IF ev.type = Closing(s) THEN Leaving(s) ELSE x]
      BY <1>11, <3>1 DEF Receive
    <3> QED BY <3>2
  <2> QED BY <1>5, <1>6, <1>11, <2>2, <2>6, <2>7 DEF Receive, Types
<1>12. CASE Cancel(s)
  BY <1>5, <1>6, <1>12 DEF Cancel, Types
<1>13. CASE Unsubscribe(s)
  BY <1>5, <1>6, <1>13 DEF Unsubscribe, Types
<1> QED BY <1>7, <1>8, <1>9, <1>10, <1>11, <1>12, <1>13 DEF StreamStep

\* Nothing was made at first.
LEMMA TypesInit == Init => Types
<1> SUFFICES ASSUME Init PROVE Types
  OBVIOUS
<1>1. handlers \in [Handlers -> HandlerOn(Made)]
  BY NoHandlerTyped DEF Init
<1>2. Len(<<>>) <= BufSize
  BY BufSizeAssumption
<1> QED BY <1>1, <1>2, NoStreamTyped, FS_EmptySet DEF Init, Types, Status

\* Every step keeps the types.
LEMMA TypesNext == Types /\ [Next]_vars => Types'
<1> SUFFICES ASSUME Types, [Next]_vars PROVE Types'
  OBVIOUS
<1>1. CASE UNCHANGED vars
  <2>1. UNCHANGED <<registered, members, status, exists, everWatched, handlers, streams>>
    BY <1>1 DEF vars
  <2>2. Made' = Made
    BY <2>1 DEF Made
  <2> QED BY <2>1, <2>2 DEF Types
<1> QED BY <1>1, RequestTyped, HandlerTyped, StreamTyped DEF Next

\* A channel never holds more than it has room for, and every handler goes on with steps of the
\* agents it has been asked to change (server.go:380-465, discovery.go:56-156).
THEOREM TypeCorrect == Spec => []TypeOK
<1>1. Types => TypeOK
  <2> SUFFICES ASSUME Types PROVE TypeOK
    OBVIOUS
  <2>1. \A w \in Watch : w \in Stream
    <3>1. Known \subseteq Status \cup {None}
      BY DEF Known
    <3>2. KnownEvent \subseteq Event
      BY <3>1 DEF KnownEvent, Event
    <3>3. Seq(KnownEvent) \subseteq Seq(Event)
      BY <3>2, SeqMonotonic
    <3>4. [Agents -> Known] \subseteq Seen
      BY <3>1 DEF Seen
    <3> QED BY <3>3, <3>4 DEF Watch, Stream
  <2>2. \A h \in Handlers : /\ DOMAIN handlers[h] = DOMAIN NoHandler
                            /\ handlers[h].op \in Op /\ handlers[h].copy \in Status \cup {None}
    <3> TAKE h \in Handlers
    <3>1. handlers[h] \in HandlerOn(Made)
      BY DEF Types
    <3>2. DOMAIN handlers[h] = {"op", "todo", "copy", "toWs"}
      BY <3>1 DEF HandlerOn
    <3>3. DOMAIN NoHandler = {"op", "todo", "copy", "toWs"}
      BY DEF NoHandler
    <3> QED BY <3>1, <3>2, <3>3 DEF HandlerOn, Known
  <2> QED BY <2>1, <2>2 DEF Types, TypeOK, Made
<1> QED BY <1>1, TypesInit, TypesNext, PTL DEF Spec

-----------------------------------------------------------------------------
\* A client is told last what was sent to it last.
LEMMA Appended ==
    ASSUME NEW w \in Watch, NEW ev \in KnownEvent, NEW x, x = [w EXCEPT !.queue = Append(@, ev)]
    PROVE  /\ Told(x, ev.agent, ev.status)
           /\ \A b, v : b # ev.agent /\ Told(w, b, v) => Told(x, b, v)
           /\ Focused(w) /\ (w.kind = "agent" => ev.agent = w.agent) => Focused(x)
<1>1. PICK q, n : q = w.queue /\ n = Len(w.queue) + 1
  OBVIOUS
<1>2. q \in Seq(KnownEvent) /\ Len(q) \in Nat /\ n = Len(q) + 1
  BY <1>1 DEF Watch
<1>3. x.queue = Append(q, ev) /\ x.pc = w.pc /\ x.seen = w.seen /\ x.snapshot = w.snapshot
      /\ x.kind = w.kind /\ x.agent = w.agent
  BY <1>1 DEF Watch
<1>4. /\ Len(x.queue) = n /\ x.queue[n] = ev
      /\ \A i \in 1..Len(q) : x.queue[i] = q[i]
  BY <1>2, <1>3, AppendProperties
<1>5. n \in 1..n /\ \A i \in 1..n : i = n \/ (i \in 1..Len(q) /\ i < n)
  BY <1>2
<1>6. Base(x) = Base(w)
  BY <1>3 DEF Base
<1>7. Told(x, ev.agent, ev.status)
  <2>1. ~Unheard(x, ev.agent)
    BY <1>4, <1>5 DEF Unheard
  <2>2. \A i \in 1..Len(x.queue) : LastAbout(x, ev.agent, i) => x.queue[i].status = ev.status
    BY <1>4, <1>5 DEF LastAbout
  <2> QED BY <2>1, <2>2 DEF Told
<1>8. ASSUME NEW b, NEW v, b # ev.agent, Told(w, b, v)
      PROVE  Told(x, b, v)
  <2>1. ASSUME NEW i \in 1..Len(x.queue), LastAbout(x, b, i)
        PROVE  x.queue[i].status = v
    <3>1. i \in 1..Len(q) /\ q[i] = x.queue[i]
      BY <1>4, <1>5, <1>8, <2>1 DEF LastAbout
    <3>2. \A j \in 1..Len(q) : j \in 1..n /\ x.queue[j] = q[j]
      BY <1>2, <1>4
    <3>3. LastAbout(w, b, i)
      BY <1>1, <1>4, <2>1, <3>1, <3>2 DEF LastAbout
    <3> QED BY <1>1, <1>8, <3>1, <3>3 DEF Told
  <2>2. Unheard(x, b) => Unheard(w, b)
    <3>1. \A j \in 1..Len(q) : j \in 1..n /\ x.queue[j] = q[j]
      BY <1>2, <1>4
    <3> QED BY <1>1, <1>4, <3>1 DEF Unheard
  <2> QED BY <1>6, <1>8, <2>1, <2>2 DEF Told
<1>9. ASSUME Focused(w), w.kind = "agent" => ev.agent = w.agent
      PROVE  Focused(x)
  BY <1>1, <1>3, <1>4, <1>5, <1>9 DEF Focused
<1> QED BY <1>7, <1>8, <1>9

\* What a stream is when its reader has taken the next event.
ReadFrom(w) ==
    LET ev == Head(w.queue)
        seen == IF ev.agent = None THEN w.seen ELSE [w.seen EXCEPT ![ev.agent] = ev.status]
    IN  [w EXCEPT !.queue = Tail(w.queue), !.seen = seen]

\* The reader of a stream takes the next event, or leaves.
LEMMA ReceiveReads ==
    ASSUME NEW s \in Streams, streams \in [Streams -> Watch], Receive(s)
    PROVE  /\ streams[s].pc = "loop" /\ streams[s].queue # <<>>
           /\ streams' = [streams EXCEPT ![s] = Leaving(s)]
              \/ streams' = [streams EXCEPT ![s] = ReadFrom(streams[s])]
BY DEF Receive, ReadFrom

\* Reading what was sent tells nothing that was not about to be told.
LEMMA Popped ==
    ASSUME NEW w \in Watch, w.pc = "loop", w.queue # <<>>
    PROVE  /\ \A b \in Agents : \A v : Told(w, b, v) => Told(ReadFrom(w), b, v)
           /\ Focused(w) => Focused(ReadFrom(w))
<1> DEFINE ev == Head(w.queue)
           seen == IF ev.agent = None THEN w.seen ELSE [w.seen EXCEPT ![ev.agent] = ev.status]
<1> SUFFICES ASSUME NEW x, x = [w EXCEPT !.queue = Tail(w.queue), !.seen = seen]
             PROVE  /\ \A b \in Agents : \A v : Told(w, b, v) => Told(x, b, v)
                    /\ Focused(w) => Focused(x)
  BY DEF ReadFrom
<1>1. PICK q, r : q = w.queue /\ r = Tail(w.queue)
  OBVIOUS
<1>2. /\ q \in Seq(KnownEvent) /\ Len(q) \in Nat /\ q # <<>> /\ 1 \in 1..Len(q) /\ ev = q[1]
      /\ ev \in KnownEvent
  BY <1>1 DEF Watch
<1>3. /\ r \in Seq(KnownEvent) /\ Len(r) = Len(q) - 1
      /\ \A i \in 1..Len(r) : r[i] = q[i + 1] /\ i + 1 \in 1..Len(q)
  BY <1>1, <1>2, HeadTailProperties
<1>4. x.queue = r /\ x.pc = "loop" /\ x.seen = seen /\ x.snapshot = w.snapshot
      /\ x.kind = w.kind /\ x.agent = w.agent
  BY <1>1 DEF Watch
<1>5. Base(x) = seen /\ Base(w) = w.seen
  BY <1>4 DEF Base
<1>6. \A i \in 1..Len(q) : i = 1 \/ (i - 1 \in 1..Len(r) /\ q[i] = r[i - 1])
  <2> TAKE i \in 1..Len(q)
  <2>1. i # 1 => i - 1 \in 1..Len(r) /\ (i - 1) + 1 = i
    BY <1>2, <1>3
  <2> QED BY <1>3, <2>1
<1>7. w.seen \in [Agents -> Known] /\ ev.agent \in Agents \cup {None} /\ None \notin Agents
  BY <1>2, NoneAssumption DEF Watch, KnownEvent
<1>8. ASSUME NEW b \in Agents, NEW v, Told(w, b, v)
      PROVE  Told(x, b, v)
  <2>1. ASSUME NEW i \in 1..Len(r), LastAbout(x, b, i)
        PROVE  r[i].status = v
    <3>1. i + 1 \in 1..Len(q) /\ q[i + 1] = r[i]
      BY <1>3
    <3>2. ASSUME NEW j \in 1..Len(q), j > i + 1
          PROVE  q[j].agent # b
      <4>1. j - 1 \in 1..Len(r) /\ q[j] = r[j - 1] /\ j - 1 > i
        BY <1>6, <3>2
      <4> QED BY <1>4, <2>1, <4>1 DEF LastAbout
    <3>3. LastAbout(w, b, i + 1)
      BY <1>1, <1>4, <2>1, <3>1, <3>2 DEF LastAbout
    <3> QED BY <1>1, <1>8, <3>1, <3>3 DEF Told
  <2>2. ASSUME Unheard(x, b)
        PROVE  seen[b] \in {None, v}
    <3>1. \A j \in 1..Len(q) : j # 1 => q[j].agent # b
      BY <1>4, <1>6, <2>2 DEF Unheard
    <3>2. CASE ev.agent = b
      <4>1. LastAbout(w, b, 1)
        BY <1>1, <1>2, <3>1, <3>2 DEF LastAbout
      <4>2. ev.status = v
        BY <1>1, <1>2, <1>8, <4>1 DEF Told
      <4>3. seen[b] = ev.status
        BY <1>7, <3>2
      <4> QED BY <4>2, <4>3
    <3>3. CASE ev.agent # b
      <4>1. Unheard(w, b)
        BY <1>1, <1>2, <3>1, <3>3 DEF Unheard
      <4>2. seen[b] = w.seen[b]
        BY <1>7, <3>3
      <4> QED BY <1>5, <1>8, <4>1, <4>2 DEF Told
    <3> QED BY <3>2, <3>3
  <2> QED BY <1>4, <1>5, <2>1, <2>2 DEF Told
<1>9. ASSUME Focused(w)
      PROVE  Focused(x)
  <2> SUFFICES ASSUME x.kind = "agent", NEW a \in Agents, a # x.agent
               PROVE  /\ x.snapshot[a] = None /\ x.seen[a] = None
                      /\ \A i \in 1..Len(x.queue) : x.queue[i].agent # a
    BY <1>4, <1>9 DEF Focused
  <2>1. /\ w.snapshot[a] = None /\ w.seen[a] = None
        /\ \A i \in 1..Len(q) : q[i].agent # a
    BY <1>1, <1>4, <1>9 DEF Focused
  <2>2. seen[a] = None
    BY <1>2, <1>7, <2>1
  <2> QED BY <1>3, <1>4, <2>1, <2>2
<1> QED BY <1>8, <1>9

\* A client that starts to watch knows what it has seen.
LEMMA Watching ==
    ASSUME NEW x \in Watch, x.queue = <<>>, NEW a, NEW v, Base(x)[a] \in {None, v}
    PROVE  Told(x, a, v)
<1>1. Len(x.queue) = 0
  OBVIOUS
<1>2. \A i \in 1..Len(x.queue) : FALSE
  BY <1>1
<1> QED BY <1>2 DEF Told

\* What sending makes of a stream.
LEMMA SentIs ==
    ASSUME NEW watching, NEW ev, streams' = Sent(watching, ev), NEW s \in Streams
    PROVE  /\ s \notin watching => streams'[s] = streams[s]
           /\ s \in watching =>
                \/ streams'[s] = [streams[s] EXCEPT !.lost = TRUE]
                \/ streams'[s] = [streams[s] EXCEPT !.queue = Append(@, ev)]
<1>1. streams'[s] = IF s \notin watching THEN streams[s]
                    ELSE IF Subscribed(s) THEN TrySend(s, ev) ELSE Missed(s)
  BY DEF Sent
<1>2. s \in watching => streams'[s] \in {TrySend(s, ev), Missed(s)}
  BY <1>1
<1>3. s \notin watching => streams'[s] = streams[s]
  BY <1>1
<1>4. /\ Missed(s) = [streams[s] EXCEPT !.lost = TRUE]
      /\ TrySend(s, ev) \in {Missed(s), [streams[s] EXCEPT !.queue = Append(@, ev)]}
  BY DEF TrySend, Missed
<1> QED BY <1>2, <1>3, <1>4

\* A publication, by whom it is made and what is sent to whom.
Publishes(h, ev) ==
    \/ /\ PublishToAgent(h) /\ streams' = Sent(AgentStreams(Next1(h).agent), ev)
       /\ ev.status = handlers[h].copy
    \/ /\ PublishToWorkspace(h) /\ ev.status = handlers[h].copy
       /\ \/ streams' = Sent(WorkspaceStreams, ev)
          \/ streams' = [s \in Streams |-> IF s \in WorkspaceStreams THEN Missed(s) ELSE streams[s]]
    \/ /\ PublishWorkspace(h) /\ streams' = Sent(WorkspaceStreams, ev)

\* Every publication is of an event about the agent of the handler's next step.
LEMMA PublishesOne ==
    ASSUME Types, NEW h \in Handlers,
           PublishToAgent(h) \/ PublishToWorkspace(h) \/ PublishWorkspace(h)
    PROVE  \E ev \in KnownEvent : ev.agent = Next1(h).agent /\ Publishes(h, ev)
<1>1. Busy(h) /\ handlers[h] \in HandlerOn(Made)
  BY DEF PublishToAgent, PublishToWorkspace, PublishWorkspace, At, Types
<1>2. CASE PublishToAgent(h)
  <2>1. PICK ev : ev = [type |-> Next1(h).arg, agent |-> Next1(h).agent, status |-> handlers[h].copy]
    OBVIOUS
  <2>2. ev \in KnownEvent /\ streams' = Sent(AgentStreams(Next1(h).agent), ev)
    <3>1. /\ Next1(h).agent \in Agents /\ Next1(h).arg \in EventTypes
          /\ handlers[h].copy \in Known
      BY <1>1, <1>2, HeadIs DEF PublishToAgent, Made, EventTypes, HandlerOn
    <3> QED BY <1>2, <2>1, <3>1 DEF PublishToAgent, KnownEvent
  <2>3. ev.agent = Next1(h).agent /\ ev.status = handlers[h].copy
    BY <2>1
  <2> QED BY <1>2, <2>2, <2>3 DEF Publishes
<1>3. CASE PublishToWorkspace(h)
  <2>1. PICK ev : ev = [type |-> IF Next1(h).arg = "stopped" THEN "stopped" ELSE "changed",
                        agent |-> Next1(h).agent, status |-> handlers[h].copy]
    OBVIOUS
  <2>2. ev \in KnownEvent
    <3>1. Next1(h).agent \in Agents /\ handlers[h].copy \in Known
      BY <1>1, <1>3, HeadIs DEF PublishToWorkspace, Made, HandlerOn
    <3> QED BY <2>1, <3>1 DEF KnownEvent, EventTypes
  <2>3. \/ streams' = Sent(WorkspaceStreams, ev)
        \/ streams' = [s \in Streams |-> IF s \in WorkspaceStreams THEN Missed(s) ELSE streams[s]]
    BY <1>3, <2>1 DEF PublishToWorkspace
  <2>4. ev.agent = Next1(h).agent /\ ev.status = handlers[h].copy
    BY <2>1
  <2> QED BY <1>3, <2>2, <2>3, <2>4 DEF Publishes
<1>4. CASE PublishWorkspace(h)
  <2>1. PICK ev : ev = [type |-> Next1(h).arg, agent |-> Next1(h).agent,
                        status |-> IF Next1(h).agent = None THEN None ELSE status[Next1(h).agent]]
    OBVIOUS
  <2>2. ev \in KnownEvent /\ streams' = Sent(WorkspaceStreams, ev)
    <3>1. Next1(h).agent \in Made \cup {None} /\ Next1(h).arg \in EventTypes
      BY <1>1, <1>4, HeadIs DEF PublishWorkspace, EventTypes
    <3>2. ev.status \in Known
      BY <2>1, <3>1 DEF Types, Made, Known
    <3> QED BY <1>4, <2>1, <3>1, <3>2 DEF PublishWorkspace, KnownEvent, Made
  <2>3. ev.agent = Next1(h).agent
    BY <2>1
  <2> QED BY <1>4, <2>2, <2>3 DEF Publishes
<1> QED BY <1>2, <1>3, <1>4

\* What a publication makes of a stream: the event is sent to it, or missed, or not for it.
LEMMA PublishedTo ==
    ASSUME Types, NEW h \in Handlers, NEW ev \in KnownEvent, ev.agent = Next1(h).agent,
           Publishes(h, ev), NEW s \in Streams
    PROVE  /\ \/ streams'[s] = streams[s]
              \/ streams'[s] = [streams[s] EXCEPT !.lost = TRUE]
              \/ /\ streams'[s] = [streams[s] EXCEPT !.queue = Append(@, ev)]
                 /\ streams[s].kind = "agent" => streams[s].agent = ev.agent
           /\ streams'[s].pc = streams[s].pc /\ streams'[s].kind = streams[s].kind
           /\ /\ streams[s].pc # "idle"
              /\ \/ At(h, "toAgent") /\ streams[s].kind = "agent" /\ streams[s].agent = ev.agent
                 \/ At(h, "toWorkspace") /\ streams[s].kind = "workspace"
              => streams'[s] # streams[s] \/ streams[s].lost
<1>1. streams[s] \in Watch
  BY DEF Types
<1>2. PICK w : w = streams[s]
  OBVIOUS
<1>3. /\ w \in Watch /\ Append(w.queue, ev) # w.queue
      /\ [w EXCEPT !.lost = TRUE].pc = w.pc /\ [w EXCEPT !.lost = TRUE].kind = w.kind
      /\ [w EXCEPT !.lost = TRUE].lost
      /\ [w EXCEPT !.queue = Append(@, ev)].pc = w.pc
      /\ [w EXCEPT !.queue = Append(@, ev)].kind = w.kind
      /\ [w EXCEPT !.queue = Append(@, ev)].queue = Append(w.queue, ev)
  <2>1. w \in Watch /\ w.queue \in Seq(KnownEvent)
    BY <1>1, <1>2 DEF Watch
  <2>2. Len(Append(w.queue, ev)) = Len(w.queue) + 1 /\ Len(w.queue) \in Nat
    BY <2>1
  <2>3. Append(w.queue, ev) # w.queue
    BY <2>2
  <2> QED BY <2>1, <2>3 DEF Watch
<1>4. /\ [w EXCEPT !.lost = TRUE] # w \/ w.lost
      /\ [w EXCEPT !.queue = Append(@, ev)] # w
  BY <1>3
<1>5. PICK watching :
        /\ \/ streams' = Sent(watching, ev)
           \/ streams' = [q \in Streams |-> IF q \in watching THEN Missed(q) ELSE streams[q]]
        /\ \/ watching = WorkspaceStreams /\ ~At(h, "toAgent")
           \/ watching = AgentStreams(Next1(h).agent) /\ ~At(h, "toWorkspace")
  BY DEF Publishes, PublishToAgent, PublishToWorkspace, PublishWorkspace, At
<1>6. /\ s \notin watching => streams'[s] = w
      /\ s \in watching =>
           \/ streams'[s] = [w EXCEPT !.lost = TRUE]
           \/ streams'[s] = [w EXCEPT !.queue = Append(@, ev)]
  <2>1. CASE streams' = Sent(watching, ev)
    BY <1>2, <2>1, SentIs
  <2>2. CASE streams' = [q \in Streams |-> IF q \in watching THEN Missed(q) ELSE streams[q]]
    BY <1>2, <2>2 DEF Missed
  <2> QED BY <1>5, <2>1, <2>2
<1>7. s \in watching /\ w.kind = "agent" => w.agent = ev.agent
  BY <1>2, <1>5 DEF AgentStreams, WorkspaceStreams
<1>8. /\ w.pc # "idle"
      /\ \/ At(h, "toAgent") /\ w.kind = "agent" /\ w.agent = ev.agent
         \/ At(h, "toWorkspace") /\ w.kind = "workspace"
      => s \in watching
  BY <1>2, <1>5 DEF AgentStreams, WorkspaceStreams, At
<1> QED BY <1>2, <1>3, <1>4, <1>6, <1>7, <1>8

\* What a stream's own step makes of it.
LEMMA StreamsFocused ==
    ASSUME Types, AllFocused, [Next]_vars
    PROVE  AllFocused'
<1> SUFFICES ASSUME NEW s \in Streams
             PROVE  Focused(streams'[s])
  BY DEF AllFocused
<1>1. PICK w : w = streams[s]
  OBVIOUS
<1>2. w \in Watch /\ Focused(w) /\ streams \in [Streams -> Watch]
  BY <1>1 DEF Types, AllFocused
<1>3. CASE streams' = streams
  BY <1>1, <1>2, <1>3
<1>4. ASSUME NEW h \in Handlers,
             PublishToAgent(h) \/ PublishToWorkspace(h) \/ PublishWorkspace(h)
      PROVE  Focused(streams'[s])
  <2>1. PICK ev \in KnownEvent : ev.agent = Next1(h).agent /\ Publishes(h, ev)
    BY <1>4, PublishesOne
  <2>2. \/ streams'[s] = w
        \/ streams'[s] = [w EXCEPT !.lost = TRUE]
        \/ /\ streams'[s] = [w EXCEPT !.queue = Append(@, ev)]
           /\ w.kind = "agent" => w.agent = ev.agent
    BY <1>1, <2>1, PublishedTo
  <2>3. Focused([w EXCEPT !.lost = TRUE])
    BY <1>2 DEF Watch, Focused
  <2> QED BY <1>2, <2>2, <2>3, Appended
<1>5. ASSUME NEW q \in Streams,
             WatchAgent(q) \/ WatchWorkspace(q) \/ StreamStep(q) \/ Cancel(q)
      PROVE  Focused(streams'[s])
  <2>1. CASE q # s
    <3>1. streams'[s] = w
      BY <1>1, <1>2, <1>5, <2>1 DEF WatchAgent, WatchWorkspace, StreamStep, Subscribe, SendInitial,
           Receive, Unsubscribe, Cancel
    <3> QED BY <1>2, <3>1
  <2>2. CASE q = s
    <3>1. /\ \A i \in 1..Len(<<>>) : FALSE
          /\ \A a \in Agents : Nothing[a] = None
      <4>1. Len(<<>>) = 0
        OBVIOUS
      <4> QED BY <4>1 DEF Nothing
    <3>2. NoStream \in Watch /\ NoStream.queue = <<>> /\ NoStream.snapshot = Nothing
          /\ NoStream.seen = Nothing /\ NoStream.pc = "idle"
      BY NoStreamTyped DEF NoStream
    <3>3. Focused(NoStream)
      BY <3>2 DEF Focused
    <3>4. w.pc # "idle" => Focused(Leaving(s))
      <4>1. /\ Leaving(s).kind = w.kind /\ Leaving(s).agent = w.agent
            /\ Leaving(s).queue = <<>> /\ Leaving(s).snapshot = Nothing /\ Leaving(s).seen = Nothing
        BY <1>1, <3>2 DEF Leaving, NoStream
      <4> QED BY <1>2, <3>1, <4>1 DEF Focused
    <3>5. CASE WatchAgent(s)
      <4>1. PICK a \in registered : streams' = [streams EXCEPT ![s] = [NoStream EXCEPT !.kind = "agent",
                  !.agent = a, !.pc = "subscribe", !.snapshot = [Nothing EXCEPT ![a] = status[a]]]]
        BY <3>5 DEF WatchAgent
      <4>2. PICK x : x = [NoStream EXCEPT !.kind = "agent", !.agent = a, !.pc = "subscribe",
                                          !.snapshot = [Nothing EXCEPT ![a] = status[a]]]
        OBVIOUS
      <4>3. streams'[s] = x
        BY <1>2, <4>1, <4>2
      <4>4. /\ x.kind = "agent" /\ x.agent = a /\ x.queue = <<>> /\ x.seen = Nothing
            /\ x.snapshot = [Nothing EXCEPT ![a] = status[a]]
        BY <3>2, <4>2 DEF NoStream
      <4>5. \A b \in Agents : b # a => x.snapshot[b] = None
        BY <3>1, <4>4 DEF Nothing
      <4>6. Focused(x)
        BY <3>1, <4>4, <4>5 DEF Focused
      <4> QED BY <4>3, <4>6
    <3>6. CASE WatchWorkspace(s)
      <4>1. streams'[s].kind = "workspace"
        BY <1>2, <3>6 DEF WatchWorkspace, NoStream
      <4> QED BY <4>1 DEF Focused
    <3>7. CASE Subscribe(s)
      <4>1. streams'[s] = [w EXCEPT !.pc = "initial"] /\ w.pc = "subscribe"
        BY <1>1, <1>2, <3>7 DEF Subscribe
      <4> QED BY <1>2, <4>1 DEF Focused, Watch
    <3>8. CASE SendInitial(s)
      <4>1. streams'[s] = [w EXCEPT !.pc = "loop", !.seen = w.snapshot, !.snapshot = Nothing]
            /\ w.pc = "initial"
        BY <1>1, <1>2, <3>8 DEF SendInitial
      <4> QED BY <1>2, <3>1, <4>1 DEF Focused, Watch
    <3>9. CASE Receive(s)
      <4>1. w.pc = "loop" /\ w.queue # <<>> /\ streams'[s] \in {Leaving(s), ReadFrom(w)}
        BY <1>1, <1>2, <3>9, ReceiveReads
      <4> QED BY <1>2, <3>4, <4>1, Popped
    <3>10. CASE Cancel(s)
      BY <1>1, <1>2, <3>4, <3>10 DEF Cancel
    <3>11. CASE Unsubscribe(s)
      BY <1>1, <1>2, <3>3, <3>11 DEF Unsubscribe
    <3> QED BY <1>5, <2>2, <3>5, <3>6, <3>7, <3>8, <3>9, <3>10, <3>11 DEF StreamStep
  <2> QED BY <2>1, <2>2
<1>6. ASSUME NEW h \in Handlers, Request(h) \/ SetStatus(h) \/ StartFails(h) \/ RemoveWorkspace(h)
                                 \/ CopyAgent(h)
      PROVE  streams' = streams
  BY <1>6 DEF Request, CreateWorkspace, SpawnAgent, StopAgent, RestartAgent, DestroyWorkspace,
       SetStatus, StartFails, RemoveWorkspace, CopyAgent
<1>7. UNCHANGED vars => streams' = streams
  BY DEF vars
<1> QED BY <1>3, <1>4, <1>5, <1>6, <1>7 DEF Next, HandlerStep

-----------------------------------------------------------------------------
\* Only the handler at work on an agent is about to tell of it.
LEMMA OnlyOneTells ==
    ASSUME Types, Apart, NEW g \in Handlers, NEW h \in Handlers, Busy(g), Busy(h),
           Next1(g).agent = Next1(h).agent, Next1(h).agent \in Agents
    PROVE  g = h
<1>1. /\ 1 \in DOMAIN handlers[g].todo /\ Next1(g) = handlers[g].todo[1]
      /\ 1 \in DOMAIN handlers[h].todo /\ Next1(h) = handlers[h].todo[1]
  BY HeadIs
<1>2. Next1(h).agent \in WorksOn(g) /\ Next1(h).agent \in WorksOn(h)
  BY <1>1 DEF WorksOn
<1> QED BY <1>2 DEF Apart

\* A handler is about to tell of agents only.
LEMMA DueOfMade ==
    ASSUME Types, NEW h \in Handlers, NEW k, NEW a, DueFrom(h, k, a)
    PROVE  a \in Made
BY HeadIs DEF DueFrom

\* A step of a handler leaves it to the others to tell what they are about to.
LEMMA OthersTell ==
    ASSUME Types, Apart, NEW h \in Handlers, Busy(h), NEW a \in Agents, a # Next1(h).agent,
           \A g \in Handlers : g # h => handlers'[g] = handlers[g],
           NEW w, Current(w, a), status'[a] = status[a], NEW x, x.kind = w.kind,
           Told(w, a, status[a]) => Told(x, a, status[a])
    PROVE  Current(x, a)'
<1>1. CASE status[a] = "ERROR" \/ Told(w, a, status[a])
  BY <1>1 DEF Current
<1>2. ASSUME NEW g \in Handlers, DueFrom(g, w.kind, a)
      PROVE  Current(x, a)'
  <2>1. g # h
    BY <1>2 DEF DueFrom
  <2>2. DueFrom(g, w.kind, a)'
    BY <1>2, <2>1 DEF DueFrom, Busy, Next1, At
  <2> QED BY <2>2 DEF Current
<1> QED BY <1>1, <1>2 DEF Current

\* Nor does it change what they are about to publish.
LEMMA OthersCopied ==
    ASSUME Types, Apart, AllCopied, NEW h \in Handlers, Busy(h),
           \A g \in Handlers : g # h => handlers'[g] = handlers[g],
           \A a \in Agents : a # Next1(h).agent => status'[a] = status[a],
           NEW g \in Handlers, g # h, (At(g, "toAgent") \/ At(g, "toWorkspace"))'
    PROVE  handlers'[g].copy = status'[Next1(g)'.agent]
<1>1. /\ At(g, "toAgent") \/ At(g, "toWorkspace")
      /\ Next1(g)' = Next1(g) /\ handlers'[g].copy = handlers[g].copy
  BY DEF At, Busy, Next1
<1>2. Busy(g) /\ Next1(g).agent \in Agents
  BY <1>1, HeadIs DEF At, Made
<1>3. Next1(g).agent # Next1(h).agent
  BY <1>2, OnlyOneTells
<1> QED BY <1>1, <1>2, <1>3 DEF AllCopied

\* After a step that more follow to, the next is one of these, about the same agent.
LEMMA GoesOn ==
    ASSUME Types, NEW h \in Handlers, Busy(h), After(Next1(h).what) # {}, NEW rec,
           rec.todo = handlers[h].todo, rec \in HandlerOn(Made), Skip(h, 1, rec)
    PROVE  /\ Busy(h)' /\ Next1(h)'.agent = Next1(h).agent
           /\ Next1(h)'.what \in After(Next1(h).what)
           /\ handlers'[h].copy = rec.copy
<1>1. PICK t : t = handlers[h].todo
  OBVIOUS
<1>2. /\ t \in Script(Made) /\ t \in Seq(StepsOn(Made)) /\ 1 \in 1..Len(t) /\ Next1(h) = t[1]
      /\ Chained(t) /\ Len(t) \in Nat
  BY <1>1, HeadIs DEF HandlerOn, Script
<1>3. 1 < Len(t) /\ t[1 + 1].what \in After(t[1].what) /\ t[1 + 1].agent = t[1].agent
  BY <1>2 DEF Chained
<1>4. PICK r : r = SubSeq(t, 1 + 1, Len(t))
  OBVIOUS
<1>7. r # <<>> /\ Head(r) = t[1 + 1]
  BY <1>2, <1>3, <1>4, NextAfter
<1>8. handlers' = [handlers EXCEPT ![h] = [rec EXCEPT !.todo = r]]
  <2>1. Len(t) # 1 /\ rec.todo = t
    BY <1>1, <1>2, <1>3
  <2>2. handlers' = [handlers EXCEPT ![h] = IF Len(t) = 1 THEN NoHandler ELSE [rec EXCEPT !.todo = r]]
    BY <1>4, <2>1 DEF Skip
  <2> QED BY <2>1, <2>2
<1>9. handlers'[h].todo = r /\ handlers'[h].copy = rec.copy
  <2>1. handlers \in [Handlers -> HandlerOn(Made)]
    BY DEF Types
  <2> QED BY <1>8, <2>1 DEF HandlerOn
<1> QED BY <1>2, <1>3, <1>7, <1>9 DEF Busy, Next1

\* A handler that gives up a stop goes on with what follows it.
LEMMA StopSkipped ==
    ASSUME Types, NEW h \in Handlers, Busy(h), Halts(Next1(h)), Skip(h, 8, handlers[h])
    PROVE  Busy(h)' => Begins(Next1(h)')
<1>1. PICK t : t = handlers[h].todo
  OBVIOUS
<1>2. /\ t \in Script(Made) /\ t \in Seq(StepsOn(Made)) /\ 1 \in 1..Len(t) /\ Next1(h) = t[1]
      /\ Whole(t) /\ Len(t) \in Nat
  BY <1>1, HeadIs DEF HandlerOn, Script
<1>3. 1 + 7 <= Len(t) /\ (1 + 8 <= Len(t) => Begins(t[1 + 8]))
  BY <1>2 DEF Whole
<1>4. handlers \in [Handlers -> HandlerOn(Made)]
  BY DEF Types
<1>5. PICK r : r = SubSeq(t, 8 + 1, Len(t))
  OBVIOUS
<1>6. handlers' = [handlers EXCEPT ![h] = IF Len(t) = 8 THEN NoHandler ELSE [handlers[h] EXCEPT !.todo = r]]
  BY <1>1, <1>5 DEF Skip
<1>7. CASE Len(t) = 8
  <2>1. handlers'[h].todo = <<>>
    BY <1>4, <1>6, <1>7 DEF NoHandler
  <2> QED BY <2>1 DEF Busy
<1>8. CASE Len(t) # 8
  <2>1. handlers'[h].todo = r
    BY <1>4, <1>6, <1>8 DEF HandlerOn
  <2>2. 8 < Len(t) /\ 1 + 8 <= Len(t)
    <3>1. PICK n \in Nat : n = Len(t)
      BY <1>2
    <3>2. 1 + 7 <= n /\ n # 8
      BY <1>3, <1>8, <3>1
    <3>3. 8 < n /\ 1 + 8 <= n
      BY <3>2
    <3> QED BY <3>1, <3>3
  <2>3. Head(r) = t[8 + 1]
    BY <1>2, <1>5, <2>2, NextAfter
  <2> QED BY <1>3, <2>1, <2>2, <2>3 DEF Next1
<1> QED BY <1>7, <1>8

\* A status that is set is about to be told of; and one that nobody could be told of was not set.
LEMMA SetCurrent ==
    ASSUME IInv, Apart, NEW h \in Handlers, SetStatus(h) \/ StartFails(h)
    PROVE  AllCurrent' /\ AllCopied'
<1>1. PICK b \in Made : b = Next1(h).agent
  BY HeadIs DEF IInv, SetStatus, StartFails, At
<1>2. /\ Busy(h) /\ At(h, "set") /\ streams' = streams /\ Types
      /\ \A g \in Handlers : g # h => handlers'[g] = handlers[g]
      /\ \A a \in Agents : a # b => status'[a] = status[a]
  BY <1>1 DEF IInv, SetStatus, StartFails, At, Skip, Types
<1>3. \/ status' = status \/ status'[b] = "ERROR"
      \/ Skip(h, 1, handlers[h])
  BY <1>1, <1>2 DEF SetStatus, StartFails, Types, Made
<1>4. Skip(h, 1, handlers[h]) =>
         /\ Busy(h)' /\ Next1(h)'.agent = b /\ Next1(h)'.what \in {"copy", "spawned"}
  <2>1. After(Next1(h).what) = {"copy", "spawned"} /\ handlers[h] \in HandlerOn(Made)
    BY <1>2 DEF At, After, Types
  <2> QED BY <1>1, <1>2, <2>1, GoesOn
<1>5. AllCurrent'
  <2> SUFFICES ASSUME NEW s \in Streams, Live(streams[s]), NEW a \in Agents
               PROVE  Current(streams[s], a)'
    BY <1>2 DEF AllCurrent
  <2>1. Current(streams[s], a)
    BY DEF IInv, AllCurrent
  <2>2. CASE a # b
    <3>1. PICK w : w = streams[s]
      OBVIOUS
    <3>2. Current(w, a)'
      BY <1>1, <1>2, <2>1, <2>2, <3>1, OthersTell
    <3> QED BY <1>2, <3>1, <3>2
  <2>3. CASE a = b
    <3>1. ~\E g \in Handlers : DueFrom(g, streams[s].kind, a)
      <4> SUFFICES ASSUME NEW g \in Handlers, DueFrom(g, streams[s].kind, a)
                   PROVE  FALSE
        OBVIOUS
      <4>1. g = h
        BY <1>1, <1>2, <2>3, OnlyOneTells DEF DueFrom, Made
      <4> QED BY <1>2, <4>1 DEF DueFrom, At
    <3>2. CASE status' = status
      BY <1>2, <2>1, <3>1, <3>2 DEF Current
    <3>3. CASE status'[b] = "ERROR"
      BY <2>3, <3>3 DEF Current
    <3>4. CASE Skip(h, 1, handlers[h])
      <4>1. DueFrom(h, streams[s].kind, a)'
        BY <1>4, <2>3, <3>4 DEF DueFrom, At
      <4> QED BY <4>1 DEF Current
    <3> QED BY <1>3, <3>2, <3>3, <3>4
  <2> QED BY <2>2, <2>3
<1>6. AllCopied'
  <2> SUFFICES ASSUME NEW g \in Handlers, (At(g, "toAgent") \/ At(g, "toWorkspace"))'
               PROVE  handlers'[g].copy = status'[Next1(g)'.agent]
    BY DEF AllCopied
  <2>1. CASE g # h
    BY <1>1, <1>2, <2>1, OthersCopied DEF IInv
  <2>2. CASE g = h
    <3>1. ~Skip(h, 1, handlers[h])
      BY <1>4, <2>2 DEF At
    <3>2. CASE StartFails(h)
      <4>1. handlers'[h].todo = <<>>
        BY <1>2, <3>2 DEF StartFails, NoHandler, Types
      <4> QED BY <2>2, <4>1 DEF At, Busy
    <3>3. CASE SetStatus(h)
      <4>1. Halts(Next1(h)) /\ Skip(h, Len(StopSteps(b)), handlers[h])
        BY <1>1, <1>2, <3>1, <3>3 DEF SetStatus, Halts, At
      <4>2. Skip(h, 8, handlers[h])
        <5>1. Len(StopSteps(b)) = 8
          BY StopScript
        <5> QED BY <4>1, <5>1
      <4>3. Busy(h)' => Begins(Next1(h)')
        BY <1>2, <4>1, <4>2, StopSkipped
      <4> QED BY <2>2, <4>3 DEF At, Begins
    <3> QED BY <3>2, <3>3
  <2> QED BY <2>1, <2>2
<1> QED BY <1>5, <1>6

\* After a step that nothing has to follow, nothing is sent that was not copied.
LEMMA Ends ==
    ASSUME Types, NEW h \in Handlers, Busy(h), After(Next1(h).what) = {}, NEW rec,
           rec.todo = handlers[h].todo, rec \in HandlerOn(Made), Skip(h, 1, rec)
    PROVE  ~(At(h, "toAgent") \/ At(h, "toWorkspace"))'
<1>1. PICK t : t = handlers[h].todo
  OBVIOUS
<1>2. /\ t \in Script(Made) /\ t \in Seq(StepsOn(Made)) /\ 1 \in 1..Len(t) /\ Next1(h) = t[1]
      /\ Led(t) /\ Len(t) \in Nat
  BY <1>1, HeadIs DEF HandlerOn, Script
<1>3. handlers \in [Handlers -> HandlerOn(Made)]
  BY DEF Types
<1>4. PICK r : r = SubSeq(t, 1 + 1, Len(t))
  OBVIOUS
<1>5. handlers' = [handlers EXCEPT ![h] = IF Len(t) = 1 THEN NoHandler ELSE [rec EXCEPT !.todo = r]]
  BY <1>1, <1>4 DEF Skip
<1>6. CASE Len(t) = 1
  <2>1. handlers'[h].todo = <<>>
    BY <1>3, <1>5, <1>6 DEF NoHandler
  <2> QED BY <2>1 DEF At, Busy
<1>7. CASE Len(t) # 1
  <2>1. handlers'[h].todo = r
    BY <1>3, <1>5, <1>7 DEF HandlerOn
  <2>3. 1 < Len(t)
    <3>1. PICK n \in Nat : n = Len(t)
      BY <1>2
    <3>2. n \in Nat /\ n # 1 /\ 1 \in 1..n
      BY <1>2, <1>7, <3>1
    <3>3. 1 < n
      BY <3>2
    <3> QED BY <3>1, <3>3
  <2>5. Head(r) = t[1 + 1]
    BY <1>2, <1>4, <2>3, NextAfter
  <2>6. Begins(t[1 + 1])
    BY <1>2, <2>3 DEF Led
  <2> QED BY <2>1, <2>5, <2>6 DEF At, Next1, Begins
<1> QED BY <1>6, <1>7

\* Once the status was copied, it is about to be sent.
LEMMA CopyCurrent ==
    ASSUME IInv, Apart, NEW h \in Handlers, CopyAgent(h)
    PROVE  AllCurrent' /\ AllCopied'
<1>1. PICK b \in Made : b = Next1(h).agent
  BY HeadIs DEF IInv, CopyAgent, At
<1>2. PICK rec : rec = [handlers[h] EXCEPT !.copy = status[b]]
  OBVIOUS
<1>3. /\ Busy(h) /\ At(h, "copy") /\ streams' = streams /\ status' = status /\ Types
      /\ \A g \in Handlers : g # h => handlers'[g] = handlers[g]
      /\ Skip(h, 1, rec) /\ handlers[h] \in HandlerOn(Made)
  BY <1>1, <1>2 DEF IInv, CopyAgent, At, Skip, Types
<1>4. rec.todo = handlers[h].todo /\ rec \in HandlerOn(Made) /\ rec.copy = status[b]
  <2>1. status[b] \in Known
    BY <1>3 DEF Types, Made, Known
  <2> QED BY <1>2, <1>3, <2>1 DEF HandlerOn
<1>5. After(Next1(h).what) = {"toAgent"}
  BY <1>3 DEF At, After
<1>6. /\ Busy(h)' /\ Next1(h)'.agent = b /\ Next1(h)'.what = "toAgent"
      /\ handlers'[h].copy = status[b]
  BY <1>1, <1>3, <1>4, <1>5, GoesOn
<1>7. AllCurrent'
  <2> SUFFICES ASSUME NEW s \in Streams, Live(streams[s]), NEW a \in Agents
               PROVE  Current(streams[s], a)'
    BY <1>3 DEF AllCurrent
  <2>1. Current(streams[s], a)
    BY DEF IInv, AllCurrent
  <2>2. CASE a # b
    <3>1. PICK w : w = streams[s]
      OBVIOUS
    <3>2. Current(w, a)'
      BY <1>1, <1>3, <2>1, <2>2, <3>1, OthersTell
    <3> QED BY <1>3, <3>1, <3>2
  <2>3. CASE a = b
    <3>1. DueFrom(h, streams[s].kind, a)'
      BY <1>6, <2>3 DEF DueFrom, At
    <3> QED BY <3>1 DEF Current
  <2> QED BY <2>2, <2>3
<1>8. AllCopied'
  <2> SUFFICES ASSUME NEW g \in Handlers, (At(g, "toAgent") \/ At(g, "toWorkspace"))'
               PROVE  handlers'[g].copy = status'[Next1(g)'.agent]
    BY DEF AllCopied
  <2>1. CASE g # h
    BY <1>1, <1>3, <2>1, OthersCopied DEF IInv
  <2>2. CASE g = h
    BY <1>3, <1>6, <2>2
  <2> QED BY <2>1, <2>2
<1> QED BY <1>7, <1>8

\* The workspace is removed by a handler that tells of no agent.
LEMMA RemoveCurrent ==
    ASSUME IInv, Apart, NEW h \in Handlers, RemoveWorkspace(h)
    PROVE  AllCurrent' /\ AllCopied'
<1>1. /\ Busy(h) /\ At(h, "remove") /\ streams' = streams /\ status' = status /\ Types
      /\ \A g \in Handlers : g # h => handlers'[g] = handlers[g]
      /\ Skip(h, 1, handlers[h]) /\ handlers[h] \in HandlerOn(Made)
  BY DEF IInv, RemoveWorkspace, At, Skip, Types
<1>2. Next1(h).agent = None /\ After(Next1(h).what) = {}
  BY <1>1, HeadIs DEF At, After
<1>3. AllCurrent'
  <2> SUFFICES ASSUME NEW s \in Streams, Live(streams[s]), NEW a \in Agents
               PROVE  Current(streams[s], a)'
    BY <1>1 DEF AllCurrent
  <2>1. Current(streams[s], a) /\ a # Next1(h).agent
    BY <1>2, NoneAssumption DEF IInv, AllCurrent
  <2>2. PICK w : w = streams[s]
    OBVIOUS
  <2>3. Current(w, a)'
    BY <1>1, <2>1, <2>2, OthersTell
  <2> QED BY <1>1, <2>2, <2>3
<1>4. AllCopied'
  <2> SUFFICES ASSUME NEW g \in Handlers, (At(g, "toAgent") \/ At(g, "toWorkspace"))'
               PROVE  handlers'[g].copy = status'[Next1(g)'.agent]
    BY DEF AllCopied
  <2>1. CASE g # h
    BY <1>1, <2>1, OthersCopied DEF IInv
  <2>2. CASE g = h
    BY <1>1, <1>2, <2>2, Ends
  <2> QED BY <2>1, <2>2
<1> QED BY <1>3, <1>4

\* What a stream is told of an agent that it does not watch: nothing.
LEMMA NotWatched ==
    ASSUME NEW w, Focused(w), w.pc # "idle", w.kind = "agent", NEW a \in Agents, a # w.agent, NEW v
    PROVE  Told(w, a, v)
<1>1. w.snapshot[a] = None /\ w.seen[a] = None /\ \A i \in 1..Len(w.queue) : w.queue[i].agent # a
  BY DEF Focused
<1>2. Base(w)[a] = None
  BY <1>1 DEF Base
<1> QED BY <1>1, <1>2 DEF Told, LastAbout

\* Whoever is sent an event about an agent is told what it says, and of the others what he was.
LEMMA PublishCurrent ==
    ASSUME IInv, Apart, NEW h \in Handlers,
           PublishToAgent(h) \/ PublishToWorkspace(h) \/ PublishWorkspace(h)
    PROVE  AllCurrent' /\ AllCopied'
<1>1. PICK ev \in KnownEvent : ev.agent = Next1(h).agent /\ Publishes(h, ev)
  BY PublishesOne DEF IInv
<1>2. PICK rec \in HandlerOn(Made) :
        /\ rec.todo = handlers[h].todo /\ Skip(h, 1, rec)
        /\ At(h, "toAgent") => rec.copy = handlers[h].copy
  <2>1. handlers[h] \in HandlerOn(Made) /\ (exists /\ everWatched) \in BOOLEAN /\ None \in Known
    BY DEF IInv, Types, Known
  <2>2. CASE PublishToAgent(h)
    <3>1. PICK rec : rec = [handlers[h] EXCEPT !.toWs = exists /\ everWatched]
      OBVIOUS
    <3>2. rec \in HandlerOn(Made) /\ rec.todo = handlers[h].todo /\ rec.copy = handlers[h].copy
      BY <2>1, <3>1 DEF HandlerOn
    <3> QED BY <2>2, <3>1, <3>2 DEF PublishToAgent
  <2>3. CASE PublishToWorkspace(h)
    <3>1. PICK rec : rec = [handlers[h] EXCEPT !.copy = None, !.toWs = FALSE]
      OBVIOUS
    <3>2. rec \in HandlerOn(Made) /\ rec.todo = handlers[h].todo
      BY <2>1, <3>1 DEF HandlerOn
    <3> QED BY <2>3, <3>1, <3>2 DEF PublishToWorkspace, At
  <2>4. CASE PublishWorkspace(h)
    BY <2>1, <2>4 DEF PublishWorkspace, At
  <2> QED BY <2>2, <2>3, <2>4
<1>3. /\ Busy(h) /\ status' = status /\ Types
      /\ At(h, "toAgent") \/ At(h, "toWorkspace") \/ At(h, "spawned") \/ At(h, "destroyed")
      /\ \A g \in Handlers : g # h => handlers'[g] = handlers[g]
  BY <1>2 DEF IInv, PublishToAgent, PublishToWorkspace, PublishWorkspace, At, Skip, Types
<1>4. /\ At(h, "toAgent") => /\ Busy(h)' /\ Next1(h)'.agent = ev.agent
                             /\ Next1(h)'.what = "toWorkspace"
                             /\ handlers'[h].copy = handlers[h].copy
      /\ At(h, "spawned") => Busy(h)' /\ Next1(h)'.agent = ev.agent /\ Next1(h)'.what = "copy"
      /\ At(h, "toWorkspace") \/ At(h, "destroyed") => ~(At(h, "toAgent") \/ At(h, "toWorkspace"))'
  <2>1. CASE At(h, "toAgent")
    <3>1. After(Next1(h).what) = {"toWorkspace"} /\ ~At(h, "spawned") /\ ~At(h, "toWorkspace")
          /\ ~At(h, "destroyed")
      BY <2>1 DEF At, After
    <3> QED BY <1>1, <1>2, <1>3, <2>1, <3>1, GoesOn
  <2>2. CASE At(h, "spawned")
    <3>1. After(Next1(h).what) = {"copy"} /\ ~At(h, "toAgent") /\ ~At(h, "toWorkspace")
          /\ ~At(h, "destroyed")
      BY <2>2 DEF At, After
    <3> QED BY <1>1, <1>2, <1>3, <2>2, <3>1, GoesOn
  <2>3. CASE At(h, "toWorkspace") \/ At(h, "destroyed")
    <3>1. After(Next1(h).what) = {} /\ ~At(h, "toAgent") /\ ~At(h, "spawned")
      BY <2>3 DEF At, After
    <3> QED BY <1>2, <1>3, <2>3, <3>1, Ends
  <2> QED BY <1>3, <2>1, <2>2, <2>3
<1>5. ASSUME NEW s \in Streams, NEW x, x = streams'[s], Live(x), NEW a \in Agents
      PROVE  Current(x, a)'
  <2>1. PICK w : w = streams[s]
    OBVIOUS
  <2>2. /\ w \in Watch /\ Focused(w) /\ x.pc = w.pc /\ x.kind = w.kind
        /\ \/ x = w
           \/ x = [w EXCEPT !.lost = TRUE]
           \/ x = [w EXCEPT !.queue = Append(@, ev)]
        /\ w.pc # "idle" /\ (\/ At(h, "toAgent") /\ w.kind = "agent" /\ w.agent = ev.agent
                             \/ At(h, "toWorkspace") /\ w.kind = "workspace")
              => x # w \/ w.lost
    <3>1. w \in Watch /\ Focused(w)
      BY <2>1 DEF IInv, AllFocused, Types
    <3>2. /\ \/ streams'[s] = streams[s]
             \/ streams'[s] = [streams[s] EXCEPT !.lost = TRUE]
             \/ streams'[s] = [streams[s] EXCEPT !.queue = Append(@, ev)]
          /\ streams'[s].pc = streams[s].pc /\ streams'[s].kind = streams[s].kind
          /\ /\ streams[s].pc # "idle"
             /\ \/ At(h, "toAgent") /\ streams[s].kind = "agent" /\ streams[s].agent = ev.agent
                \/ At(h, "toWorkspace") /\ streams[s].kind = "workspace"
             => streams'[s] # streams[s] \/ streams[s].lost
      BY <1>1, <1>3, PublishedTo
    <3> QED BY <1>5, <2>1, <3>1, <3>2
  <2>3. Live(w) /\ (x = w \/ x = [w EXCEPT !.queue = Append(@, ev)])
    BY <1>5, <2>2 DEF Live, Watch
  <2>4. Current(w, a)
    BY <2>1, <2>3 DEF IInv, AllCurrent
  <2>5. CASE a # ev.agent
    <3>1. Told(w, a, status[a]) => Told(x, a, status[a])
      BY <2>2, <2>3, <2>5, Appended
    <3> QED BY <1>1, <1>3, <2>2, <2>4, <2>5, <3>1, OthersTell
  <2>6. CASE a = ev.agent
    <3>1. ~At(h, "destroyed")
      BY <1>1, <1>3, <2>6, HeadIs, NoneAssumption
    <3>2. CASE At(h, "spawned")
      <4>1. DueFrom(h, x.kind, a)'
        BY <1>4, <2>6, <3>2 DEF DueFrom, At
      <4> QED BY <4>1 DEF Current
    <3>3. CASE (At(h, "toAgent") \/ At(h, "toWorkspace")) /\ x = [w EXCEPT !.queue = Append(@, ev)]
      <4>1. ev.status = handlers[h].copy
        BY <1>1, <3>3 DEF Publishes, PublishWorkspace, At
      <4>2. handlers[h].copy = status[a]
        BY <1>1, <2>6, <3>3 DEF IInv, AllCopied
      <4>3. Told(x, a, status[a])
        BY <2>2, <2>6, <3>3, <4>1, <4>2, Appended
      <4> QED BY <1>3, <4>3 DEF Current
    <3>4. CASE At(h, "toAgent") /\ x = w
      <4>1. CASE w.kind = "workspace"
        <5>1. DueFrom(h, x.kind, a)'
          BY <1>4, <2>2, <2>6, <3>4, <4>1 DEF DueFrom, At
        <5> QED BY <5>1 DEF Current
      <4>2. CASE w.kind = "agent"
        <5>1. w.pc # "idle" /\ ~w.lost
          BY <2>3 DEF Live
        <5>2. a # w.agent
          BY <2>2, <2>6, <3>4, <4>2, <5>1
        <5>3. Told(x, a, status[a])
          BY <2>2, <3>4, <4>2, <5>1, <5>2, NotWatched
        <5> QED BY <1>3, <5>3 DEF Current
      <4> QED BY <2>2, <2>3, <4>1, <4>2 DEF Focused, Live
    <3>5. CASE At(h, "toWorkspace") /\ x = w
      <4>1. w.pc # "idle" /\ ~w.lost
        BY <2>3 DEF Live
      <4>2. w.kind = "agent"
        BY <2>2, <3>5, <4>1 DEF Focused
      <4>3. ~\E g \in Handlers : DueFrom(g, w.kind, a)
        <5> SUFFICES ASSUME NEW g \in Handlers, DueFrom(g, w.kind, a)
                     PROVE  FALSE
          OBVIOUS
        <5>1. g = h
          BY <1>1, <1>3, <2>6, OnlyOneTells DEF DueFrom
        <5> QED BY <3>5, <4>2, <5>1 DEF DueFrom, At
      <4>4. status[a] = "ERROR" \/ Told(x, a, status[a])
        BY <2>4, <3>5, <4>3 DEF Current
      <4> QED BY <1>3, <4>4 DEF Current
    <3> QED BY <1>3, <2>3, <3>1, <3>2, <3>3, <3>4, <3>5
  <2> QED BY <2>5, <2>6
<1>6. AllCopied'
  <2> SUFFICES ASSUME NEW g \in Handlers, (At(g, "toAgent") \/ At(g, "toWorkspace"))'
               PROVE  handlers'[g].copy = status'[Next1(g)'.agent]
    BY DEF AllCopied
  <2>1. CASE g # h
    BY <1>3, <2>1, OthersCopied DEF IInv
  <2>2. CASE g = h
    <3>1. CASE At(h, "toAgent")
      <4>1. handlers[h].copy = status[Next1(h).agent]
        BY <3>1 DEF IInv, AllCopied
      <4> QED BY <1>1, <1>3, <1>4, <2>2, <3>1, <4>1
    <3>2. CASE ~At(h, "toAgent")
      BY <1>3, <1>4, <2>2, <3>2 DEF At
    <3> QED BY <3>1, <3>2
  <2> QED BY <2>1, <2>2
<1>7. AllCurrent'
  <2> SUFFICES ASSUME NEW s \in Streams, Live(streams[s])', NEW a \in Agents
               PROVE  Current(streams[s], a)'
    BY DEF AllCurrent
  <2>1. PICK x : x = streams'[s]
    OBVIOUS
  <2>2. Live(x)
    BY <2>1 DEF Live
  <2>3. Current(x, a)'
    BY <1>5, <2>1, <2>2
  <2> QED BY <2>1, <2>3 DEF Current
<1> QED BY <1>6, <1>7

\* Requests start with steps that send nothing, and a spawn is of an agent nobody heard of.
LEMMA RequestCurrent ==
    ASSUME IInv, NEW h \in Handlers, Request(h)
    PROVE  AllCurrent' /\ AllCopied'
<1>1. /\ Types /\ streams' = streams /\ ~Busy(h)
      /\ handlers \in [Handlers -> HandlerOn(Made)]
      /\ \A g \in Handlers : g # h => handlers'[g] = handlers[g]
  BY DEF IInv, Types, Request, CreateWorkspace, SpawnAgent, StopAgent, RestartAgent,
         DestroyWorkspace, Starts
<1>2. \/ status' = status
      \/ \E a \in Agents : status[a] = "UNSPECIFIED" /\ status' = [status EXCEPT ![a] = "STARTING"]
  BY DEF Request, CreateWorkspace, SpawnAgent, StopAgent, RestartAgent, DestroyWorkspace
<1>3. \A a \in Made : status'[a] = status[a]
  BY <1>1, <1>2 DEF Made, Types
<1>4. ~(At(h, "toAgent") \/ At(h, "toWorkspace"))'
  <2>1. CASE CreateWorkspace(h)
    BY <1>1, <2>1 DEF CreateWorkspace, At, Busy
  <2>2. CASE ~CreateWorkspace(h)
    <3>0. PICK A : \E o \in Op, t \in Fresh(A) : Starts(h, o, t)
      <4>1. CASE SpawnAgent(h)
        BY <4>1, AgentScripts DEF SpawnAgent, Op
      <4>2. CASE StopAgent(h)
        BY <4>2, AgentScripts DEF StopAgent, Op
      <4>3. CASE RestartAgent(h)
        BY <4>3, AgentScripts DEF RestartAgent, Op
      <4>4. CASE DestroyWorkspace(h)
        <5>1. IsFiniteSet(members)
          BY <1>1 DEF Types
        <5> QED BY <4>4, <5>1, DestroyScript DEF DestroyWorkspace, Op
      <4> QED BY <2>2, <4>1, <4>2, <4>3, <4>4 DEF Request
    <3>1. PICK o \in Op, t \in Fresh(A) : Starts(h, o, t)
      BY <3>0
    <3>2. handlers'[h].todo = t
      BY <1>1, <3>1 DEF Starts, NoHandler
    <3>3. t # <<>> => Begins(Head(t))
      <4>1. t \in Seq(StepsOn(A)) /\ (t # <<>> => Begins(t[1]))
        BY DEF Fresh, Script
      <4> QED BY <4>1
    <3> QED BY <3>2, <3>3 DEF At, Busy, Next1, Begins
  <2> QED BY <2>1, <2>2
<1>5. AllCopied'
  <2> SUFFICES ASSUME NEW g \in Handlers, (At(g, "toAgent") \/ At(g, "toWorkspace"))'
               PROVE  handlers'[g].copy = status'[Next1(g)'.agent]
    BY DEF AllCopied
  <2>1. g # h
    BY <1>4
  <2>2. /\ At(g, "toAgent") \/ At(g, "toWorkspace")
        /\ Next1(g)' = Next1(g) /\ handlers'[g].copy = handlers[g].copy
    BY <1>1, <2>1 DEF At, Busy, Next1
  <2>3. Busy(g) /\ Next1(g).agent \in Made
    BY <1>1, <2>2, HeadIs DEF At
  <2> QED BY <1>3, <2>2, <2>3 DEF IInv, AllCopied
<1>6. AllCurrent'
  <2> SUFFICES ASSUME NEW s \in Streams, Live(streams[s]), NEW a \in Agents
               PROVE  Current(streams[s], a)'
    BY <1>1 DEF AllCurrent
  <2>1. PICK w : w = streams[s]
    OBVIOUS
  <2>2. w \in Watch /\ Current(w, a)
    BY <1>1, <2>1 DEF IInv, Types, AllCurrent
  <2>3. CASE \E g \in Handlers : DueFrom(g, w.kind, a)
    <3>1. PICK g \in Handlers : DueFrom(g, w.kind, a)
      BY <2>3
    <3>2. g # h
      BY <1>1, <3>1 DEF DueFrom
    <3>3. DueFrom(g, w.kind, a)'
      BY <1>1, <3>1, <3>2 DEF DueFrom, Busy, Next1, At
    <3>4. Current(w, a)'
      BY <3>3 DEF Current
    <3> QED BY <1>1, <2>1, <3>4
  <2>4. CASE status[a] = "ERROR" \/ Told(w, a, status[a])
    <3>1. CASE status'[a] = status[a]
      <4>1. Current(w, a)'
        BY <2>4, <3>1 DEF Current
      <4> QED BY <1>1, <2>1, <4>1
    <3>2. CASE status'[a] # status[a]
      <4>1. status[a] = "UNSPECIFIED" /\ "UNSPECIFIED" \notin Known
        BY <1>3, <3>2, NoneAssumption DEF Made, Known, Status
      <4>2. \A i \in 1..Len(w.queue) : w.queue[i].status \in Known
        <5>1. w.queue \in Seq(KnownEvent)
          BY <2>2 DEF Watch
        <5>2. \A i \in 1..Len(w.queue) : w.queue[i] \in KnownEvent
          BY <5>1
        <5> QED BY <5>2 DEF KnownEvent
      <4>3. Base(w)[a] \in Known
        BY <2>2 DEF Base, Watch
      <4>4. Told(w, a, status'[a])
        BY <2>4, <4>1, <4>2, <4>3 DEF Told
      <4>5. Current(w, a)'
        BY <4>4 DEF Current
      <4> QED BY <1>1, <2>1, <4>5
    <3> QED BY <3>1, <3>2
  <2> QED BY <2>2, <2>3, <2>4 DEF Current
<1> QED BY <1>5, <1>6

\* A stream that comes to be starts from what is; one that goes on reads what it was sent.
LEMMA StreamCurrent ==
    ASSUME IInv, NEW q \in Streams,
           WatchAgent(q) \/ WatchWorkspace(q) \/ StreamStep(q) \/ Cancel(q)
    PROVE  AllCurrent' /\ AllCopied'
<1>1. handlers' = handlers /\ status' = status /\ Types /\ streams \in [Streams -> Watch]
  BY DEF IInv, Types, WatchAgent, WatchWorkspace, StreamStep, Subscribe, SendInitial, Receive,
         Unsubscribe, Cancel
<1>2. AllCopied'
  <2>1. AllCopied
    BY DEF IInv
  <2> QED BY <1>1, <2>1 DEF AllCopied, At, Busy, Next1
<1>3. ASSUME NEW w, NEW x, NEW a, Current(w, a), x.kind = w.kind,
             Told(w, a, status[a]) => Told(x, a, status[a])
      PROVE  Current(x, a)'
  BY <1>1, <1>3 DEF Current, DueFrom, At, Busy, Next1
<1>4. ASSUME NEW s \in Streams, NEW x, x = streams'[s], Live(x), NEW a \in Agents
      PROVE  Current(x, a)'
  <2>1. PICK w : w = streams[s]
    OBVIOUS
  <2>2. w \in Watch /\ (Live(w) => Current(w, a))
    BY <1>1, <2>1 DEF IInv, AllCurrent
  <2>3. CASE x = w
    BY <1>3, <1>4, <2>2, <2>3
  <2>4. CASE x # w
    <3>1. s = q
      BY <1>1, <1>4, <2>1, <2>4 DEF WatchAgent, WatchWorkspace, StreamStep, Subscribe, SendInitial,
           Receive, Unsubscribe, Cancel
    <3>2. NoStream.queue = <<>> /\ NoStream.pc = "idle" /\ NoStream \in Watch
      BY NoStreamTyped DEF NoStream
    <3>3. x # NoStream /\ x # Leaving(s)
      <4>1. Leaving(s).pc = "unsubscribe"
        BY <3>2 DEF Leaving, NoStream
      <4> QED BY <1>4, <3>2, <4>1 DEF Live
    <3>4. ASSUME x \in Watch, x.pc = "subscribe", x.queue = <<>>, x.snapshot[a] \in {None, status[a]}
          PROVE  Current(x, a)'
      <4>1. Base(x)[a] \in {None, status[a]}
        BY <3>4 DEF Base
      <4>2. Told(x, a, status[a])
        BY <3>4, <4>1, Watching
      <4> QED BY <1>1, <4>2 DEF Current
    <3>5. CASE WatchAgent(s)
      <4>1. PICK b \in registered : x = [NoStream EXCEPT !.kind = "agent", !.agent = b,
                  !.pc = "subscribe", !.snapshot = [Nothing EXCEPT ![b] = status[b]]]
        BY <1>1, <1>4, <3>5 DEF WatchAgent
      <4>2. /\ b \in Agents /\ [Nothing EXCEPT ![b] = status[b]] \in [Agents -> Known]
            /\ [Nothing EXCEPT ![b] = status[b]][a] \in {None, status[a]}
        BY <1>1 DEF Types, Made, Nothing, Known
      <4>3. x \in Watch /\ x.pc = "subscribe" /\ x.queue = <<>>
            /\ x.snapshot = [Nothing EXCEPT ![b] = status[b]]
        BY <3>2, <4>1, <4>2 DEF Watch
      <4> QED BY <3>4, <4>2, <4>3
    <3>6. CASE WatchWorkspace(s)
      <4>1. PICK snap : snap = [b \in Agents |-> IF b \in registered THEN status[b] ELSE None]
        OBVIOUS
      <4>2. x = [NoStream EXCEPT !.kind = "workspace", !.pc = "subscribe", !.snapshot = snap]
        BY <1>1, <1>4, <3>6, <4>1 DEF WatchWorkspace
      <4>3. snap \in [Agents -> Known] /\ snap[a] \in {None, status[a]}
        BY <1>1, <4>1 DEF Types, Made, Known
      <4>4. x \in Watch /\ x.pc = "subscribe" /\ x.queue = <<>> /\ x.snapshot = snap
        BY <3>2, <4>2, <4>3 DEF Watch
      <4> QED BY <3>4, <4>3, <4>4
    <3>7. CASE Subscribe(s)
      <4>1. x = [w EXCEPT !.pc = "initial"] /\ w.pc = "subscribe"
        BY <1>1, <1>4, <2>1, <3>7 DEF Subscribe
      <4>2. x.pc = "initial" /\ x.kind = w.kind /\ x.queue = w.queue /\ x.snapshot = w.snapshot
            /\ x.lost = w.lost
        BY <2>2, <4>1 DEF Watch
      <4>3. Base(x) = Base(w) /\ Live(w)
        BY <1>4, <4>1, <4>2 DEF Base, Live
      <4>4. Told(w, a, status[a]) => Told(x, a, status[a])
        BY <4>2, <4>3 DEF Told, LastAbout, Unheard
      <4> QED BY <1>3, <2>2, <4>2, <4>3, <4>4
    <3>8. CASE SendInitial(s)
      <4>1. x = [w EXCEPT !.pc = "loop", !.seen = w.snapshot, !.snapshot = Nothing]
            /\ w.pc = "initial"
        BY <1>1, <1>4, <2>1, <3>8 DEF SendInitial
      <4>2. x.pc = "loop" /\ x.kind = w.kind /\ x.queue = w.queue /\ x.seen = w.snapshot
            /\ x.lost = w.lost
        BY <2>2, <4>1 DEF Watch
      <4>3. Base(x) = Base(w) /\ Live(w)
        BY <1>4, <4>1, <4>2 DEF Base, Live
      <4>4. Told(w, a, status[a]) => Told(x, a, status[a])
        BY <4>2, <4>3 DEF Told, LastAbout, Unheard
      <4> QED BY <1>3, <2>2, <4>2, <4>3, <4>4
    <3>9. CASE Receive(s)
      <4>1. w.pc = "loop" /\ w.queue # <<>> /\ x = ReadFrom(w)
        BY <1>1, <1>4, <2>1, <3>3, <3>9, ReceiveReads
      <4>2. Told(w, a, status[a]) => Told(x, a, status[a])
        BY <2>2, <4>1, Popped
      <4>3. x.kind = w.kind /\ x.lost = w.lost
        BY <2>2, <4>1 DEF ReadFrom, Watch
      <4>4. Live(w)
        BY <1>4, <4>1, <4>3 DEF Live
      <4> QED BY <1>3, <2>2, <4>2, <4>3, <4>4
    <3>10. CASE Cancel(s) \/ Unsubscribe(s)
      BY <1>1, <1>4, <3>3, <3>10 DEF Cancel, Unsubscribe
    <3> QED BY <3>1, <3>5, <3>6, <3>7, <3>8, <3>9, <3>10 DEF StreamStep
  <2> QED BY <2>3, <2>4
<1>5. AllCurrent'
  <2> SUFFICES ASSUME NEW s \in Streams, Live(streams[s])', NEW a \in Agents
               PROVE  Current(streams[s], a)'
    BY DEF AllCurrent
  <2>1. PICK x : x = streams'[s]
    OBVIOUS
  <2>2. Live(x)
    BY <2>1 DEF Live
  <2>3. Current(x, a)'
    BY <1>4, <2>1, <2>2
  <2> QED BY <2>1, <2>3 DEF Current
<1> QED BY <1>2, <1>5

\* At first nobody watches.
LEMMA InvInit == Init => IInv
<1> SUFFICES ASSUME Init PROVE IInv
  OBVIOUS
<1>1. \A s \in Streams : streams[s].pc = "idle"
  BY DEF Init, NoStream
<1>2. \A h \in Handlers : ~Busy(h)
  BY DEF Init, NoHandler, Busy
<1>3. AllFocused /\ AllCurrent
  BY <1>1 DEF AllFocused, Focused, AllCurrent, Live
<1>4. AllCopied
  BY <1>2 DEF AllCopied, At
<1> QED BY <1>3, <1>4, TypesInit DEF IInv

\* Every step of handlers that work on different agents keeps what clients know up to date.
LEMMA InvNext == IInv /\ Apart /\ [Next]_vars => IInv'
<1> SUFFICES ASSUME IInv, Apart, [Next]_vars PROVE IInv'
  OBVIOUS
<1>1. Types' /\ AllFocused'
  BY TypesNext, StreamsFocused DEF IInv
<1>2. AllCurrent' /\ AllCopied'
  <2>1. CASE UNCHANGED vars
    <3>1. status' = status /\ handlers' = handlers /\ streams' = streams /\ AllCurrent /\ AllCopied
      BY <2>1 DEF vars, IInv
    <3>2. AllCopied'
      BY <3>1 DEF AllCopied, At, Busy, Next1
    <3>3. AllCurrent'
      BY <3>1 DEF AllCurrent, Current, DueFrom, At, Busy, Next1
    <3> QED BY <3>2, <3>3
  <2>2. ASSUME NEW h \in Handlers, HandlerStep(h)
        PROVE  AllCurrent' /\ AllCopied'
    BY <2>2, SetCurrent, CopyCurrent, RemoveCurrent, PublishCurrent DEF HandlerStep
  <2> QED BY <2>1, <2>2, RequestCurrent, StreamCurrent DEF Next
<1> QED BY <1>1, <1>2 DEF IInv

\* Clients that missed nothing and read all they were sent know what there is to know, as long as
\* no two handlers are at work on one agent (discovery.go:65-76, server.go:402-429).
THEOREM Converge == Spec /\ []Apart => []WatchersConverge
<1>1. IInv => WatchersConverge
  <2> SUFFICES ASSUME IInv, Quiescent, NEW s \in Streams, streams[s].pc = "loop",
                      streams[s].queue = <<>>, ~streams[s].lost, NEW a \in Watched(s)
               PROVE  status[a] \in {streams[s].seen[a], "ERROR"}
    BY DEF WatchersConverge
  <2>1. PICK w : w = streams[s]
    OBVIOUS
  <2>2. a \in Agents /\ w.seen[a] # None
    BY <2>1 DEF Watched
  <2>3. Current(w, a)
    BY <2>1, <2>2 DEF IInv, AllCurrent, Live
  <2>4. ~\E h \in Handlers : DueFrom(h, w.kind, a)
    BY DEF Quiescent, DueFrom
  <2>5. Unheard(w, a)
    <3>1. Len(w.queue) = 0
      BY <2>1
    <3> QED BY <3>1 DEF Unheard
  <2>6. Told(w, a, status[a]) => w.seen[a] \in {None, status[a]}
    BY <2>1, <2>5 DEF Told, Base
  <2> QED BY <2>1, <2>2, <2>3, <2>4, <2>6 DEF Current
<1> QED BY <1>1, InvInit, InvNext, PTL DEF Spec

\* So they do when one handler runs at a time.
THEOREM ConvergeAlone ==
    ASSUME \A g, h \in Handlers : g = h
    PROVE  Spec => []WatchersConverge
<1>1. Apart
  BY DEF Apart
<1>2. []Apart
  BY <1>1, PTL
<1> QED BY <1>2, Converge, PTL
=============================================================================
