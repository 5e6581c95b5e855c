---------------------------- MODULE ProcessProofs ----------------------------
(* What is proved about the process scheduler: however loops, handlers and    *)
(* events are nested, and wherever an exception cuts them short.             *)
EXTENDS ProcessScheduler, FiniteOrders, SequenceTheorems

\* A thread is called at most once for each time it was asked for, and one call is
\* still owed to a thread that is pending.
AskedThread ==
  {th \in Thread : /\ th.attempts <= th.asked
                   /\ th.state = "PENDING" => th.attempts < th.asked}

Process == [threads : Seq(AskedThread), state : {"RUNNING", "FINISHED"}]

Entry(ids) == [proc : ids, start : Names \cup {NoName}]

\* The calls that processes P allow.
Frames(P) ==
  [kind : {"loop"}, proc : DOMAIN P, upTo : Nat]
  \cup {f \in [kind : {"handler"}, proc : DOMAIN P, thread : Nat] :
          f.thread \in DOMAIN P[f.proc].threads}
  \cup [kind : {"publish"}, todo : Seq(Entry(DOMAIN P))]

\* A handler is called by a loop of its process.
Nested(s) ==
  \A k \in DOMAIN s : s[k].kind = "handler" =>
    k > 1 /\ s[k - 1].kind = "loop" /\ s[k - 1].proc = s[k].proc

HandlersIn(s) == {f \in {s[k] : k \in DOMAIN s} : f.kind = "handler"}
LoopProcs(s) == {f.proc : f \in {g \in {s[k] : k \in DOMAIN s} : g.kind = "loop"}}

\* Processes that are not busy have nothing to run, and their end was noticed.
Ended(x) == \A t \in DOMAIN x.threads : x.threads[t].state = "FINISHED"

Settled(P, busy) ==
  \A p \in DOMAIN P \ busy :
    Ready(P[p].threads) = {} /\ (Ended(P[p]) => P[p].state = "FINISHED")

\* The threads of P that say RUNNING have one of these handler calls.
Attended(P, calls) ==
  \A p \in DOMAIN P : \A t \in DOMAIN P[p].threads :
    P[p].threads[t].state = "RUNNING" => Handling(p, t) \in calls

ProcInv ==
  /\ DOMAIN procs \subseteq Procs /\ procs \in [DOMAIN procs -> Process]
  /\ subs \in [Topics -> Seq(Entry(DOMAIN procs))]
  /\ handlers \subseteq Handlers
  /\ stack \in Seq(Frames(procs)) /\ Nested(stack)
  /\ acts \in 0..ActBound
  /\ aborted \subseteq DOMAIN procs
  /\ Attended(procs, HandlersIn(stack))
  /\ Settled(procs, aborted \cup LoopProcs(stack))

-----------------------------------------------------------------------------
(* Sequences.                                                              *)

LEMMA Indices ==
  ASSUME NEW S, NEW s \in Seq(S)
  PROVE  /\ Len(s) \in Nat /\ DOMAIN s = 1..Len(s)
         /\ \A k \in DOMAIN s : s[k] \in S
         /\ s # <<>> <=> Len(s) > 0
BY LenProperties, ElementOfSeq, EmptySeq

LEMMA Push ==
  ASSUME NEW S, NEW s \in Seq(S), NEW f \in S
  PROVE  /\ Append(s, f) \in Seq(S)
         /\ DOMAIN Append(s, f) = 1..(Len(s) + 1) /\ Len(Append(s, f)) = Len(s) + 1
         /\ \A k \in 1..Len(s) : Append(s, f)[k] = s[k]
         /\ Append(s, f)[Len(s) + 1] = f
         /\ {Append(s, f)[k] : k \in DOMAIN Append(s, f)} = {s[k] : k \in DOMAIN s} \cup {f}
<1>1. /\ Append(s, f) \in Seq(S)
      /\ DOMAIN Append(s, f) = 1..(Len(s) + 1) /\ Len(Append(s, f)) = Len(s) + 1
      /\ \A k \in 1..Len(s) : Append(s, f)[k] = s[k]
      /\ Append(s, f)[Len(s) + 1] = f
  BY AppendProperties, LenProperties
<1>2. DOMAIN s = 1..Len(s) /\ Len(s) \in Nat
  BY Indices
<1>3. 1..(Len(s) + 1) = 1..Len(s) \cup {Len(s) + 1}
  BY <1>2
<1>4. {Append(s, f)[k] : k \in DOMAIN Append(s, f)} = {s[k] : k \in DOMAIN s} \cup {f}
  <2>1. \A x : x \in {Append(s, f)[k] : k \in DOMAIN Append(s, f)}
                 <=> \E k \in 1..Len(s) \cup {Len(s) + 1} : x = Append(s, f)[k]
    BY <1>1, <1>3
  <2>2. \A x : x \in {s[k] : k \in DOMAIN s} \cup {f}
                 <=> x = f \/ \E k \in 1..Len(s) : x = s[k]
    BY <1>2
  <2>3. QED BY <1>1, <2>1, <2>2
<1>5. QED BY <1>1, <1>4

\* The first n elements.
LEMMA Prefix ==
  ASSUME NEW S, NEW s \in Seq(S), NEW n \in 0..Len(s)
  PROVE  LET t == SubSeq(s, 1, n) IN
         /\ t \in Seq(S) /\ Len(t) = n /\ DOMAIN t = 1..n
         /\ \A k \in 1..n : t[k] = s[k]
<1>1. Len(s) \in Nat /\ n \in Nat /\ \A k \in 1..n : s[k] \in S
  BY Indices
<1>2. /\ SubSeq(s, 1, n) \in Seq(S)
      /\ Len(SubSeq(s, 1, n)) = IF 1 <= n THEN n - 1 + 1 ELSE 0
      /\ \A k \in 1..(n - 1 + 1) : SubSeq(s, 1, n)[k] = s[1 + k - 1]
  BY <1>1, SubSeqProperties
<1>3. Len(SubSeq(s, 1, n)) = n /\ \A k \in 1..n : SubSeq(s, 1, n)[k] = s[k]
  BY <1>1, <1>2
<1>4. DOMAIN SubSeq(s, 1, n) = 1..n
  BY <1>2, <1>3, LenProperties
<1>5. QED BY <1>2, <1>3, <1>4

\* The calls below the top, which they make up the stack with.
LEMMA BelowTop ==
  ASSUME NEW S, stack \in Seq(S), stack # <<>>
  PROVE  /\ Top \in S /\ Below \in Seq(S)
         /\ Len(Below) = Len(stack) - 1 /\ DOMAIN Below = 1..(Len(stack) - 1)
         /\ Len(stack) \in Nat \ {0} /\ DOMAIN stack = 1..Len(stack)
         /\ \A k \in 1..(Len(stack) - 1) : Below[k] = stack[k]
         /\ {stack[k] : k \in DOMAIN stack} = {Below[k] : k \in DOMAIN Below} \cup {Top}
<1>1. Len(stack) \in Nat \ {0} /\ DOMAIN stack = 1..Len(stack)
      /\ \A k \in DOMAIN stack : stack[k] \in S
  BY Indices
<1>2. Top \in S
  BY <1>1 DEF Top
<1>3. /\ Below \in Seq(S)
      /\ Len(Below) = Len(stack) - 1 /\ DOMAIN Below = 1..(Len(stack) - 1)
      /\ \A k \in 1..(Len(stack) - 1) : Below[k] = stack[k]
  BY <1>1, Prefix DEF Below
<1>4. {stack[k] : k \in DOMAIN stack} = {Below[k] : k \in DOMAIN Below} \cup {Top}
  <2>1. 1..Len(stack) = 1..(Len(stack) - 1) \cup {Len(stack)}
    BY <1>1
  <2>2. \A x : x \in {stack[k] : k \in DOMAIN stack}
                 <=> \E k \in 1..(Len(stack) - 1) \cup {Len(stack)} : x = stack[k]
    BY <1>1, <2>1
  <2>3. \A x : x \in {Below[k] : k \in DOMAIN Below} \cup {Top}
                 <=> x = stack[Len(stack)] \/ \E k \in 1..(Len(stack) - 1) : x = stack[k]
    BY <1>3 DEF Top
  <2>4. QED BY <2>2, <2>3
<1>5. QED BY <1>1, <1>2, <1>3, <1>4

LEMMA LastAt ==
  ASSUME NEW S, NEW s \in Seq(S)
  PROVE  /\ Landing(s) \in 0..Len(s)
         /\ \A k \in DOMAIN s : k > Landing(s) => s[k].kind # "handler"
<1> DEFINE I == {k \in 1..Len(s) : s[k].kind = "handler"}
<1>1. Landing(s) = IF I # {} THEN Max(I) ELSE 0
  BY DEF Landing, SelectLastInSeq
<1>2. Len(s) \in Nat /\ DOMAIN s = 1..Len(s) /\ I \in SUBSET (1..Len(s))
  BY Indices
<1>3. \A k \in DOMAIN s : s[k].kind = "handler" => k \in I
  BY <1>2
<1> HIDE DEF I
<1>4. CASE I = {}
  BY <1>1, <1>2, <1>3, <1>4
<1>5. CASE I # {}
  <2>1. \E m \in I : \A x \in I : m >= x
    <3>1. PICK m \in I : \A x \in I : x <= m
      BY <1>2, <1>5, GreatestIndex
    <3>2. \A x \in I : m >= x
      BY <1>2, <3>1
    <3>3. QED BY <3>2
  <2>2. Max(I) \in I /\ \A x \in I : Max(I) >= x
    BY <2>1 DEF Max
  <2>3. Landing(s) \in I /\ \A x \in I : Landing(s) >= x
    BY <1>1, <1>5, <2>2
  <2>4. Landing(s) \in 1..Len(s)
    BY <1>2, <2>3
  <2>5. ASSUME NEW k \in DOMAIN s, k > Landing(s) PROVE s[k].kind # "handler"
    BY <1>2, <1>3, <2>3, <2>4, <2>5
  <2>6. QED BY <1>2, <2>4, <2>5
<1>6. QED BY <1>4, <1>5

\* The place of a name is 0, or that of a thread of this name.
LEMMA BasePlace ==
  ASSUME NEW S, NEW ts \in Seq(S), NEW n
  PROVE  Base(ts, n) = 0 \/ (Base(ts, n) \in DOMAIN ts /\ ts[Base(ts, n)].name = n)
<1> DEFINE I == {k \in 1..Len(ts) : ts[k].name = n}
<1>1. Base(ts, n) = IF I # {} THEN Min(I) ELSE 0
  BY DEF Base, SelectInSeq
<1>2. DOMAIN ts = 1..Len(ts) /\ I \in SUBSET Nat
  BY Indices
<1>3. \A k \in I : k \in DOMAIN ts /\ ts[k].name = n
  BY <1>2
<1> HIDE DEF I
<1>4. CASE I = {}
  BY <1>1, <1>4
<1>5. CASE I # {}
  <2>1. \E m \in I : \A x \in I : m <= x
    BY <1>2, <1>5, LeastNatural
  <2>2. Min(I) \in I
    BY <2>1 DEF Min
  <2>3. QED BY <1>1, <1>3, <1>5, <2>2
<1>6. QED BY <1>4, <1>5

-----------------------------------------------------------------------------
(* The stack.                                                              *)

LEMMA FramesOf ==
  ASSUME NEW P, NEW f \in Frames(P)
  PROVE  /\ f.kind \in {"loop", "handler", "publish"}
         /\ f.kind = "loop" => f.proc \in DOMAIN P /\ f.upTo \in Nat
         /\ f.kind = "handler" => /\ f.proc \in DOMAIN P
                                  /\ f.thread \in DOMAIN P[f.proc].threads
                                  /\ f = Handling(f.proc, f.thread)
         /\ f.kind = "publish" => f = [kind |-> "publish", todo |-> f.todo]
                                  /\ f.todo \in Seq(Entry(DOMAIN P))
<1>1. CASE f \in [kind : {"loop"}, proc : DOMAIN P, upTo : Nat]
  BY <1>1
<1>2. CASE f \in {g \in [kind : {"handler"}, proc : DOMAIN P, thread : Nat] :
                    g.thread \in DOMAIN P[g.proc].threads}
  <2>1. f = [kind |-> f.kind, proc |-> f.proc, thread |-> f.thread]
    BY <1>2
  <2>2. QED BY <1>2, <2>1 DEF Handling
<1>3. CASE f \in [kind : {"publish"}, todo : Seq(Entry(DOMAIN P))]
  BY <1>3
<1>4. QED BY <1>1, <1>2, <1>3 DEF Frames

\* Processes Q have all the threads that processes P have.
Grown(P, Q) ==
  /\ DOMAIN P \subseteq DOMAIN Q
  /\ \A p \in DOMAIN P : DOMAIN P[p].threads \subseteq DOMAIN Q[p].threads

LEMMA SubscriptionsGrow ==
  ASSUME NEW I, NEW J, I \subseteq J, NEW q \in Seq(Entry(I))
  PROVE  q \in Seq(Entry(J))
<1>1. Entry(I) \subseteq Entry(J)
  BY DEF Entry
<1>2. QED BY <1>1, SeqMonotonic, ElementOfSeq

LEMMA FramesGrow ==
  ASSUME NEW P, NEW Q, Grown(P, Q)
  PROVE  Frames(P) \subseteq Frames(Q)
<1>1. [kind : {"loop"}, proc : DOMAIN P, upTo : Nat] \subseteq Frames(Q)
  BY DEF Frames, Grown
<1>2. {f \in [kind : {"handler"}, proc : DOMAIN P, thread : Nat] :
         f.thread \in DOMAIN P[f.proc].threads} \subseteq Frames(Q)
  BY DEF Frames, Grown
<1>3. [kind : {"publish"}, todo : Seq(Entry(DOMAIN P))] \subseteq Frames(Q)
  <2>1. Seq(Entry(DOMAIN P)) \subseteq Seq(Entry(DOMAIN Q))
    BY SubscriptionsGrow DEF Grown
  <2>2. QED BY <2>1 DEF Frames
<1>4. QED BY <1>1, <1>2, <1>3 DEF Frames

LEMMA StackGrows ==
  ASSUME NEW P, NEW Q, Grown(P, Q), NEW s \in Seq(Frames(P))
  PROVE  s \in Seq(Frames(Q))
BY FramesGrow, SeqMonotonic, ElementOfSeq

\* The stack t goes on from s: it keeps the handlers, and the loops of s and of the
\* processes also are in t, or were cut short and are excused in ab.
Carries(P, s, t, also, ab) ==
  /\ t \in Seq(Frames(P)) /\ Nested(t)
  /\ HandlersIn(s) \subseteq HandlersIn(t)
  /\ LoopProcs(s) \cup also \subseteq LoopProcs(t) \cup ab
  /\ aborted \subseteq ab /\ ab \subseteq DOMAIN P

LEMMA CarriesPush ==
  ASSUME NEW P, NEW s \in Seq(Frames(P)), Nested(s), NEW f \in Frames(P),
         f.kind # "handler", aborted \subseteq DOMAIN P
  PROVE  Carries(P, s, Append(s, f), IF f.kind = "loop" THEN {f.proc} ELSE {}, aborted)
<1> DEFINE t == Append(s, f)
           fs == {s[k] : k \in DOMAIN s}
           ft == {t[k] : k \in DOMAIN t}
<1>1. /\ t \in Seq(Frames(P))
      /\ DOMAIN t = 1..(Len(s) + 1) /\ DOMAIN s = 1..Len(s) /\ Len(s) \in Nat
      /\ \A k \in 1..Len(s) : t[k] = s[k]
      /\ t[Len(s) + 1] = f
      /\ ft = fs \cup {f}
  BY Push, Indices
<1> HIDE DEF t
<1>2. Nested(t)
  <2> SUFFICES ASSUME NEW k \in DOMAIN t, t[k].kind = "handler"
               PROVE  k > 1 /\ t[k - 1].kind = "loop" /\ t[k - 1].proc = t[k].proc
    BY DEF Nested
  <2>1. k \in 1..Len(s)
    BY <1>1
  <2>2. k > 1 /\ s[k - 1].kind = "loop" /\ s[k - 1].proc = s[k].proc
    BY <1>1, <2>1 DEF Nested
  <2>3. k - 1 \in 1..Len(s)
    BY <1>1, <2>1, <2>2
  <2>4. QED BY <1>1, <2>1, <2>2, <2>3
<1> HIDE DEF fs, ft
<1>3. /\ HandlersIn(s) = {g \in fs : g.kind = "handler"}
      /\ HandlersIn(t) = {g \in ft : g.kind = "handler"}
  BY DEF HandlersIn, fs, ft
<1>4. /\ LoopProcs(s) = {h.proc : h \in {g \in fs : g.kind = "loop"}}
      /\ LoopProcs(t) = {h.proc : h \in {g \in ft : g.kind = "loop"}}
  BY DEF LoopProcs, fs, ft
<1>5. HandlersIn(s) \subseteq HandlersIn(t)
  BY <1>1, <1>3
<1>6. LoopProcs(s) \cup (IF f.kind = "loop" THEN {f.proc} ELSE {}) \subseteq LoopProcs(t)
  BY <1>1, <1>4
<1>7. QED BY <1>1, <1>2, <1>5, <1>6 DEF Carries, t

\* An exception spares the handlers, and the loops it cuts are excused.
LEMMA CarriesRaise ==
  ASSUME NEW P, NEW s \in Seq(Frames(P)), Nested(s), NEW also \in SUBSET DOMAIN P,
         aborted \subseteq DOMAIN P, Raises(s, also)
  PROVE  Carries(P, s, stack', also, aborted')
<1> DEFINE n == Landing(s)
           t == SubSeq(s, 1, n)
           cut == {s[k].proc : k \in {l \in DOMAIN s : l > n /\ s[l].kind = "loop"}}
           ab == aborted \cup also \cup cut
<1>1. stack' = t /\ aborted' = ab
  BY DEF Raises
<1>2. /\ n \in 0..Len(s) /\ Len(s) \in Nat /\ DOMAIN s = 1..Len(s)
      /\ \A k \in DOMAIN s : k > n => s[k].kind # "handler"
      /\ \A k \in DOMAIN s : s[k] \in Frames(P)
  BY LastAt, Indices
<1> HIDE DEF n
<1>3. t \in Seq(Frames(P)) /\ DOMAIN t = 1..n /\ \A k \in 1..n : t[k] = s[k]
  BY <1>2, Prefix
<1> HIDE DEF t
<1>4. Nested(t)
  <2>1. \A k \in 1..n : k \in DOMAIN s /\ (k > 1 => k - 1 \in 1..n)
    BY <1>2
  <2>2. QED BY <1>2, <1>3, <2>1 DEF Nested
<1>5. HandlersIn(s) \subseteq HandlersIn(t)
  <2>1. ASSUME NEW k \in DOMAIN s, s[k].kind = "handler"
        PROVE  k \in DOMAIN t /\ t[k] = s[k]
    BY <1>2, <1>3, <2>1
  <2>2. QED BY <2>1 DEF HandlersIn
<1>6. LoopProcs(s) \subseteq LoopProcs(t) \cup cut
  <2>1. ASSUME NEW k \in DOMAIN s, s[k].kind = "loop"
        PROVE  s[k].proc \in LoopProcs(t) \cup cut
    <3>1. CASE k > n
      BY <2>1, <3>1
    <3>2. CASE k <= n
      <4>1. k \in DOMAIN t /\ t[k] = s[k]
        BY <1>2, <1>3, <3>2
      <4>2. QED BY <2>1, <4>1 DEF LoopProcs
    <3>3. QED BY <1>2, <3>1, <3>2
  <2>2. QED BY <2>1 DEF LoopProcs
<1>7. cut \subseteq DOMAIN P
  BY <1>2, FramesOf
<1>8. QED BY <1>1, <1>3, <1>4, <1>5, <1>6, <1>7 DEF Carries

\* The call of _run_ready enters a loop, or raises.
LEMMA CarriesRun ==
  ASSUME NEW P, NEW s \in Seq(Frames(P)), Nested(s), NEW p \in DOMAIN P,
         NEW S, NEW ts \in Seq(S), aborted \subseteq DOMAIN P, RunReady(s, p, ts)
  PROVE  Carries(P, s, stack', {p}, aborted')
<1>1. CASE stack' = Append(s, Loop(p, ts)) /\ UNCHANGED aborted
  <2>1. Loop(p, ts) \in Frames(P) /\ Loop(p, ts).kind = "loop" /\ Loop(p, ts).proc = p
    BY Indices DEF Loop, Frames
  <2>2. Carries(P, s, Append(s, Loop(p, ts)), {p}, aborted)
    BY <2>1, CarriesPush
  <2>3. QED BY <1>1, <2>2
<1>2. CASE Raises(s, {p})
  <2>1. {p} \in SUBSET DOMAIN P
    OBVIOUS
  <2>2. QED BY <1>2, <2>1, CarriesRaise
<1>3. QED BY <1>1, <1>2 DEF RunReady

-----------------------------------------------------------------------------
(* Threads.                                                                *)

LEMMA NextIsReady ==
  ASSUME NEW f, NEW ts \in Seq(AskedThread), Ready(ts) # {}
  PROVE  /\ NextOf(f, ts) \in DOMAIN ts
         /\ ts[NextOf(f, ts)] \in AskedThread
         /\ ts[NextOf(f, ts)].state = "PENDING"
<1> DEFINE K == Ready(ts)
           Better(u, t) ==
             \/ ts[u].priority > ts[t].priority
             \/ /\ ts[u].priority = ts[t].priority
                /\ \/ TieBreak(f, u) < TieBreak(f, t)
                   \/ TieBreak(f, u) = TieBreak(f, t) /\ u < t
           R == {x \in K \X K : Better(x[1], x[2])}
<1>1. DOMAIN ts = 1..Len(ts) /\ Len(ts) \in Nat /\ \A t \in DOMAIN ts : ts[t] \in AskedThread
  BY Indices
<1>2. /\ K \subseteq 1..Len(ts)
      /\ \A t \in K : t \in DOMAIN ts /\ ts[t].state = "PENDING"
  BY <1>1 DEF Ready
<1>3. \A t \in K : t \in Nat /\ ts[t].priority \in Int /\ TieBreak(f, t) \in Nat
  BY <1>1, <1>2 DEF AskedThread, Thread, TieBreak
<1>4. IsFiniteSet(K)
  <2>1. IsFiniteSet(1..Len(ts))
    BY <1>1, FS_Interval, SMT
  <2> HIDE DEF K
  <2>2. QED BY <1>2, <2>1, FS_Subset
<1> HIDE DEF K
<1>5. /\ \A t \in K : ~ Better(t, t)
      /\ \A u, v, w \in K : Better(u, v) /\ Better(v, w) => Better(u, w)
  BY <1>3
<1>6. \A u, t \in K :
        ~ Better(u, t) <=>
          \/ ts[t].priority > ts[u].priority
          \/ /\ ts[t].priority = ts[u].priority
             /\ \/ TieBreak(f, t) < TieBreak(f, u)
                \/ TieBreak(f, t) = TieBreak(f, u) /\ t <= u
  BY <1>3
<1>7. \A u, t \in K : <<u, t>> \in R <=> Better(u, t)
  OBVIOUS
<1> HIDE DEF R, Better
<1>8. PICK t \in K : \A u \in K : <<u, t>> \notin R
  BY <1>4, <1>5, <1>7, FirstElement DEF K
<1>9. \A u \in K : ~ Better(u, t)
  BY <1>7, <1>8
<1>10. NextOf(f, ts) \in K
  BY <1>6, <1>9 DEF NextOf, K
<1>11. QED BY <1>1, <1>2, <1>10

LEMMA ThreadSet ==
  ASSUME NEW ts \in Seq(AskedThread), NEW t \in DOMAIN ts, NEW th \in AskedThread
  PROVE  LET new == [ts EXCEPT ![t] = th] IN
         /\ new \in Seq(AskedThread) /\ DOMAIN new = DOMAIN ts
         /\ new[t] = th /\ \A u \in DOMAIN ts \ {t} : new[u] = ts[u]
<1>1. t \in 1..Len(ts) /\ DOMAIN ts = 1..Len(ts)
  BY Indices
<1>2. [ts EXCEPT ![t] = th] \in Seq(AskedThread)
  BY <1>1, ExceptSeq
<1>3. QED BY <1>1, <1>2

LEMMA StateSet ==
  ASSUME NEW th \in AskedThread, NEW s \in States \ {"PENDING"}
  PROVE  /\ [th EXCEPT !.state = s] \in AskedThread
         /\ [th EXCEPT !.state = s].state = s
BY DEF AskedThread, Thread

LEMMA Asked ==
  ASSUME NEW th \in AskedThread, NEW p \in Int
  PROVE  LET w == [th EXCEPT !.priority = p, !.state = "PENDING", !.asked = @ + 1] IN
         w \in AskedThread /\ w.state = "PENDING"
<1> DEFINE w == [th EXCEPT !.priority = p, !.state = "PENDING", !.asked = @ + 1]
           n == th.asked + 1
<1>1. th \in Thread /\ th.attempts <= th.asked /\ th.asked \in Nat /\ th.attempts \in Nat
  BY DEF AskedThread, Thread
<1>2. n \in Nat /\ th.attempts < n /\ th.attempts <= n
  BY <1>1
<1>3. w = [th EXCEPT !.priority = p, !.state = "PENDING", !.asked = n]
  BY <1>1 DEF Thread
<1> HIDE DEF n, w
<1>4. w \in Thread /\ w.state = "PENDING" /\ w.attempts = th.attempts /\ w.asked = n
  BY <1>1, <1>2, <1>3 DEF Thread, States
<1>5. w \in AskedThread
  BY <1>2, <1>4 DEF AskedThread
<1>6. QED BY <1>4, <1>5 DEF w

LEMMA NewThreadAsked ==
  ASSUME NEW x, x.name \in Names, x.handler \in Handlers, x.deps \in SUBSET Names,
         x.priority \in Int, NEW s \in {"WAITING", "PENDING"}
  PROVE  NewThread(x, s) \in AskedThread /\ NewThread(x, s).state = s
BY DEF NewThread, AskedThread, Thread, States

LEMMA SpawnedThreads ==
  ASSUME NEW ts \in Seq(AskedThread), NEW x, x.name \in Names, x.handler \in Handlers,
         x.deps \in SUBSET Names, x.priority \in Int
  PROVE  /\ Spawned(ts, x) \in Seq(AskedThread)
         /\ DOMAIN ts \subseteq DOMAIN Spawned(ts, x)
         /\ \A t \in DOMAIN Spawned(ts, x) :
              Spawned(ts, x)[t].state = "RUNNING" => t \in DOMAIN ts /\ ts[t].state = "RUNNING"
<1> DEFINE base == Base(ts, x.name)
<1>1. DOMAIN ts = 1..Len(ts) /\ Len(ts) \in Nat /\ \A t \in DOMAIN ts : ts[t] \in AskedThread
  BY Indices
<1>2. CASE base # 0 /\ ts[base].state = "WAITING"
  <2> DEFINE th == [ts[base] EXCEPT !.priority = x.priority, !.state = "PENDING",
                                    !.asked = @ + 1]
  <2>1. base \in DOMAIN ts
    BY <1>2, BasePlace
  <2> HIDE DEF base
  <2>2. th \in AskedThread /\ th.state = "PENDING"
    BY <1>1, <2>1, Asked
  <2>3. Spawned(ts, x) = [ts EXCEPT ![base] = th]
    <3>1. Spawned(ts, x) = [ts EXCEPT ![base].priority = x.priority,
                                      ![base].state = "PENDING", ![base].asked = @ + 1]
      BY <1>2 DEF Spawned, base
    <3>2. ts \in [1..Len(ts) -> AskedThread]
      BY <1>1
    <3>3. QED BY <1>1, <2>1, <3>1, <3>2 DEF AskedThread, Thread
  <2> HIDE DEF th
  <2>4. QED BY <2>1, <2>2, <2>3, ThreadSet
<1>3. CASE ~ (base # 0 /\ ts[base].state = "WAITING")
  <2>1. Spawned(ts, x) = Append(ts, NewThread(x, "PENDING"))
    BY <1>3 DEF Spawned
  <2>2. NewThread(x, "PENDING") \in AskedThread /\ NewThread(x, "PENDING").state = "PENDING"
    BY NewThreadAsked
  <2>3. /\ Spawned(ts, x) \in Seq(AskedThread)
        /\ DOMAIN Spawned(ts, x) = 1..(Len(ts) + 1)
        /\ \A k \in 1..Len(ts) : Spawned(ts, x)[k] = ts[k]
        /\ Spawned(ts, x)[Len(ts) + 1].state = "PENDING"
    BY <2>1, <2>2, Push
  <2>4. QED BY <1>1, <2>3
<1>4. QED BY <1>2, <1>3

-----------------------------------------------------------------------------
(* A change to the threads of one process.                                 *)

LEMMA Touched ==
  ASSUME DOMAIN procs \subseteq Procs, procs \in [DOMAIN procs -> Process],
         NEW p \in DOMAIN procs, NEW ts \in Seq(AskedThread),
         DOMAIN procs[p].threads \subseteq DOMAIN ts,
         NEW Q, Q = [procs EXCEPT ![p].threads = ts]
  PROVE  /\ DOMAIN Q = DOMAIN procs /\ Q \in [DOMAIN procs -> Process]
         /\ Q[p].threads = ts /\ Q[p].state = procs[p].state
         /\ \A q \in DOMAIN procs \ {p} : Q[q] = procs[q]
         /\ Grown(procs, Q)
<1>1. DOMAIN Q = DOMAIN procs /\ Q[p] = [procs[p] EXCEPT !.threads = ts]
      /\ \A q \in DOMAIN procs \ {p} : Q[q] = procs[q]
  OBVIOUS
<1>2. procs[p] \in Process
  OBVIOUS
<1>3. Q[p] \in Process /\ Q[p].threads = ts /\ Q[p].state = procs[p].state
  BY <1>1, <1>2 DEF Process
<1>4. Q \in [DOMAIN procs -> Process]
  BY <1>1, <1>3
<1>5. Grown(procs, Q)
  BY <1>1, <1>3 DEF Grown
<1>6. QED BY <1>1, <1>3, <1>4, <1>5

\* If the process has a loop to look after it, or got nothing to run, all is settled.
LEMMA SettledStep ==
  ASSUME NEW Q, NEW p \in DOMAIN procs, DOMAIN Q = DOMAIN procs,
         \A q \in DOMAIN procs \ {p} : Q[q] = procs[q],
         NEW busy, NEW after, Settled(procs, busy), busy \subseteq after,
         \/ p \in after
         \/ /\ Ready(Q[p].threads) \subseteq Ready(procs[p].threads)
            /\ Ended(Q[p]) => Ended(procs[p]) \/ Q[p].state = "FINISHED"
            /\ procs[p].state = "FINISHED" => Q[p].state = "FINISHED"
  PROVE  Settled(Q, after)
<1> SUFFICES ASSUME NEW q \in DOMAIN Q \ after
             PROVE  Ready(Q[q].threads) = {} /\ (Ended(Q[q]) => Q[q].state = "FINISHED")
  BY DEF Settled
<1>1. Ready(procs[q].threads) = {} /\ (Ended(procs[q]) => procs[q].state = "FINISHED")
  BY DEF Settled
<1>2. CASE q # p
  BY <1>1, <1>2
<1>3. CASE q = p
  BY <1>1, <1>3
<1>4. QED BY <1>2, <1>3

\* A step that makes threads of p ready and runs _run_ready.
LEMMA ServeInv ==
  ASSUME ProcInv, NEW p \in DOMAIN procs, NEW ts \in Seq(AskedThread),
         DOMAIN procs[p].threads \subseteq DOMAIN ts,
         \A t \in DOMAIN ts : ts[t].state = "RUNNING" =>
           t \in DOMAIN procs[p].threads /\ procs[p].threads[t].state = "RUNNING",
         procs' = [procs EXCEPT ![p].threads = ts],
         NEW s \in Seq(Frames(procs)), Nested(s),
         HandlersIn(stack) \subseteq HandlersIn(s), LoopProcs(stack) \subseteq LoopProcs(s),
         RunReady(s, p, ts), UNCHANGED <<subs, handlers>>, acts' \in 0..ActBound
  PROVE  ProcInv'
<1>1. /\ DOMAIN procs \subseteq Procs /\ procs \in [DOMAIN procs -> Process]
      /\ subs \in [Topics -> Seq(Entry(DOMAIN procs))] /\ handlers \subseteq Handlers
      /\ aborted \subseteq DOMAIN procs
      /\ Attended(procs, HandlersIn(stack))
      /\ Settled(procs, aborted \cup LoopProcs(stack))
  BY DEF ProcInv
<1>2. /\ DOMAIN procs' = DOMAIN procs /\ procs' \in [DOMAIN procs -> Process]
      /\ procs'[p].threads = ts /\ procs'[p].state = procs[p].state
      /\ \A q \in DOMAIN procs \ {p} : procs'[q] = procs[q]
      /\ Grown(procs, procs')
  <2> DEFINE new == [procs EXCEPT ![p].threads = ts]
  <2>1. /\ DOMAIN new = DOMAIN procs /\ new \in [DOMAIN procs -> Process]
        /\ new[p].threads = ts /\ new[p].state = procs[p].state
        /\ \A q \in DOMAIN procs \ {p} : new[q] = procs[q]
        /\ Grown(procs, new)
    BY <1>1, Touched
  <2>2. procs' = new
    OBVIOUS
  <2> HIDE DEF new
  <2>3. QED BY <2>1, <2>2
<1>3. Carries(procs', s, stack', {p}, aborted')
  <2>1. s \in Seq(Frames(procs')) /\ p \in DOMAIN procs' /\ aborted \subseteq DOMAIN procs'
    BY <1>1, <1>2, StackGrows
  <2>2. QED BY <2>1, CarriesRun
<1>4. /\ stack' \in Seq(Frames(procs')) /\ Nested(stack')
      /\ HandlersIn(stack) \subseteq HandlersIn(stack')
      /\ aborted \cup LoopProcs(stack) \subseteq aborted' \cup LoopProcs(stack')
      /\ p \in aborted' \cup LoopProcs(stack')
      /\ aborted' \subseteq DOMAIN procs'
  BY <1>3 DEF Carries
<1>5. Attended(procs', HandlersIn(stack'))
  BY <1>1, <1>2, <1>4 DEF Attended
<1>6. Settled(procs', aborted' \cup LoopProcs(stack'))
  <2> DEFINE busy == aborted \cup LoopProcs(stack)
             after == aborted' \cup LoopProcs(stack')
  <2>1. /\ Settled(procs, busy) /\ busy \subseteq after /\ p \in after
        /\ DOMAIN procs' = DOMAIN procs
        /\ \A q \in DOMAIN procs \ {p} : procs'[q] = procs[q]
    BY <1>1, <1>2, <1>4
  <2> HIDE DEF busy, after
  <2>2. Settled(procs', after)
    BY <2>1, SettledStep
  <2>3. QED BY <2>2 DEF after
<1>7. QED BY <1>1, <1>2, <1>4, <1>5, <1>6 DEF ProcInv

\* Changes after which no more threads are ready.
LEMMA ReadyShrinks ==
  ASSUME NEW ts \in Seq(AskedThread), NEW new \in Seq(AskedThread), DOMAIN new = DOMAIN ts,
         \A t \in DOMAIN ts :
           /\ new[t].name = ts[t].name /\ new[t].deps = ts[t].deps
           /\ new[t].state = "PENDING" => ts[t].state = "PENDING"
           /\ new[t].state = "FINISHED" => ts[t].state = "FINISHED"
  PROVE  Ready(new) \subseteq Ready(ts)
<1>1. DOMAIN ts = 1..Len(ts) /\ Len(new) = Len(ts)
  <2>1. Len(ts) \in Nat /\ DOMAIN ts = 1..Len(ts) /\ Len(new) \in Nat /\ DOMAIN new = 1..Len(new)
    BY Indices
  <2>2. QED BY <2>1
<1>2. \A n : Base(new, n) = Base(ts, n)
  <2> SUFFICES ASSUME NEW n PROVE Base(new, n) = Base(ts, n)
    OBVIOUS
  <2> DEFINE I == {k \in 1..Len(ts) : ts[k].name = n}
             J == {k \in 1..Len(new) : new[k].name = n}
  <2>1. I = J
    BY <1>1
  <2>2. Base(ts, n) = (IF I # {} THEN Min(I) ELSE 0) /\ Base(new, n) = IF J # {} THEN Min(J) ELSE 0
    BY DEF Base, SelectInSeq
  <2> HIDE DEF I, J
  <2>3. QED BY <2>1, <2>2
<1>3. SUFFICES ASSUME NEW t \in Ready(new) PROVE t \in Ready(ts)
  OBVIOUS
<1>4. t \in DOMAIN ts /\ ts[t].state = "PENDING"
  BY <1>3 DEF Ready
<1>5. ASSUME NEW n \in ts[t].deps PROVE Base(ts, n) # 0 /\ ts[Base(ts, n)].state = "FINISHED"
  <2>1. Base(new, n) # 0 /\ new[Base(new, n)].state = "FINISHED"
    BY <1>3, <1>4, <1>5 DEF Ready
  <2>2. Base(ts, n) # 0 /\ new[Base(ts, n)].state = "FINISHED"
    BY <1>2, <2>1
  <2>3. Base(ts, n) \in DOMAIN ts
    BY <2>2, BasePlace
  <2>4. QED BY <2>2, <2>3
<1>6. QED BY <1>4, <1>5 DEF Ready

\* What a call on top adds.
LEMMA PushSet ==
  ASSUME NEW S, NEW s \in Seq(S), NEW f \in S
  PROVE  /\ HandlersIn(Append(s, f)) = HandlersIn(s) \cup {g \in {f} : g.kind = "handler"}
         /\ LoopProcs(s) \subseteq LoopProcs(Append(s, f))
<1> DEFINE t == Append(s, f)
           fs == {s[k] : k \in DOMAIN s}
           ft == {t[k] : k \in DOMAIN t}
<1>1. ft = fs \cup {f}
  BY Push
<1> HIDE DEF t
<1>2. /\ HandlersIn(s) = {g \in fs : g.kind = "handler"}
      /\ HandlersIn(t) = {g \in ft : g.kind = "handler"}
  BY DEF HandlersIn
<1>3. /\ LoopProcs(s) = {h.proc : h \in {g \in fs : g.kind = "loop"}}
      /\ LoopProcs(t) = {h.proc : h \in {g \in ft : g.kind = "loop"}}
  BY DEF LoopProcs
<1> HIDE DEF fs, ft
<1>4. LoopProcs(s) \subseteq LoopProcs(t)
  BY <1>1, <1>3
<1>5. HandlersIn(t) = HandlersIn(s) \cup {g \in {f} : g.kind = "handler"}
  BY <1>1, <1>2
<1>6. QED BY <1>4, <1>5 DEF t

-----------------------------------------------------------------------------
(* Steps by what they change.                                              *)

\* A step that leaves the processes alone.
LEMMA SteadyInv ==
  ASSUME ProcInv, UNCHANGED procs, subs' \in [Topics -> Seq(Entry(DOMAIN procs))],
         handlers' \subseteq Handlers, acts' \in 0..ActBound,
         Carries(procs, stack, stack', {}, aborted')
  PROVE  ProcInv'
<1>1. /\ DOMAIN procs \subseteq Procs /\ procs \in [DOMAIN procs -> Process]
      /\ Attended(procs, HandlersIn(stack))
      /\ Settled(procs, aborted \cup LoopProcs(stack))
  BY DEF ProcInv
<1>2. /\ stack' \in Seq(Frames(procs)) /\ Nested(stack')
      /\ HandlersIn(stack) \subseteq HandlersIn(stack')
      /\ aborted \cup LoopProcs(stack) \subseteq aborted' \cup LoopProcs(stack')
      /\ aborted' \subseteq DOMAIN procs
  BY DEF Carries
<1>3. Attended(procs, HandlersIn(stack'))
  BY <1>1, <1>2 DEF Attended
<1>4. Settled(procs, aborted' \cup LoopProcs(stack'))
  BY <1>1, <1>2 DEF Settled
<1>5. QED BY <1>1, <1>2, <1>3, <1>4 DEF ProcInv

\* A step that changes threads of p, which has a loop or no more ready threads.
LEMMA CalmInv ==
  ASSUME ProcInv, NEW p \in DOMAIN procs, NEW ts \in Seq(AskedThread),
         DOMAIN ts = DOMAIN procs[p].threads,
         procs' = [procs EXCEPT ![p].threads = ts],
         UNCHANGED <<subs, handlers, aborted>>, acts' \in 0..ActBound,
         stack' \in Seq(Frames(procs)), Nested(stack'),
         LoopProcs(stack) \subseteq LoopProcs(stack'),
         \A t \in DOMAIN ts : ts[t].state = "RUNNING" => Handling(p, t) \in HandlersIn(stack'),
         \A f \in HandlersIn(stack) : f \in HandlersIn(stack') \/ f.proc = p,
         \/ p \in LoopProcs(stack')
         \/ /\ Ready(ts) \subseteq Ready(procs[p].threads)
            /\ (\A t \in DOMAIN ts : ts[t].state = "FINISHED") => Ended(procs[p])
  PROVE  ProcInv'
<1>1. /\ DOMAIN procs \subseteq Procs /\ procs \in [DOMAIN procs -> Process]
      /\ subs \in [Topics -> Seq(Entry(DOMAIN procs))] /\ handlers \subseteq Handlers
      /\ aborted \subseteq DOMAIN procs
      /\ Attended(procs, HandlersIn(stack))
      /\ Settled(procs, aborted \cup LoopProcs(stack))
  BY DEF ProcInv
<1>2. /\ DOMAIN procs' = DOMAIN procs /\ procs' \in [DOMAIN procs -> Process]
      /\ procs'[p].threads = ts /\ procs'[p].state = procs[p].state
      /\ \A q \in DOMAIN procs \ {p} : procs'[q] = procs[q]
      /\ Grown(procs, procs')
  <2> DEFINE new == [procs EXCEPT ![p].threads = ts]
  <2>1. /\ DOMAIN new = DOMAIN procs /\ new \in [DOMAIN procs -> Process]
        /\ new[p].threads = ts /\ new[p].state = procs[p].state
        /\ \A q \in DOMAIN procs \ {p} : new[q] = procs[q]
        /\ Grown(procs, new)
    BY <1>1, Touched
  <2>2. procs' = new
    OBVIOUS
  <2> HIDE DEF new
  <2>3. QED BY <2>1, <2>2
<1>3. stack' \in Seq(Frames(procs'))
  BY <1>2, StackGrows
<1>4. Attended(procs', HandlersIn(stack'))
  <2> SUFFICES ASSUME NEW q \in DOMAIN procs', NEW t \in DOMAIN procs'[q].threads,
                      procs'[q].threads[t].state = "RUNNING"
               PROVE  Handling(q, t) \in HandlersIn(stack')
    BY DEF Attended
  <2>1. CASE q = p
    BY <1>2, <2>1
  <2>2. CASE q # p
    <3>1. Handling(q, t) \in HandlersIn(stack) /\ Handling(q, t).proc = q
      BY <1>1, <1>2, <2>2 DEF Attended, Handling
    <3>2. QED BY <2>2, <3>1
  <2>3. QED BY <2>1, <2>2
<1>5. Settled(procs', aborted' \cup LoopProcs(stack'))
  <2> DEFINE busy == aborted \cup LoopProcs(stack)
             after == aborted' \cup LoopProcs(stack')
  <2>1. /\ Settled(procs, busy) /\ busy \subseteq after
        /\ DOMAIN procs' = DOMAIN procs
        /\ \A q \in DOMAIN procs \ {p} : procs'[q] = procs[q]
        /\ procs[p].state = "FINISHED" => procs'[p].state = "FINISHED"
    BY <1>1, <1>2
  <2>2. \/ p \in after
        \/ /\ Ready(procs'[p].threads) \subseteq Ready(procs[p].threads)
           /\ Ended(procs'[p]) => Ended(procs[p])
    BY <1>2 DEF Ended
  <2> HIDE DEF busy, after
  <2>3. Settled(procs', after)
    BY <2>1, <2>2, SettledStep
  <2>4. QED BY <2>3 DEF after
<1>6. QED BY <1>1, <1>2, <1>3, <1>4, <1>5 DEF ProcInv

\* The top of the stack is left.
LEMMA Pop ==
  ASSUME ProcInv, stack # <<>>
  PROVE  /\ Below \in Seq(Frames(procs)) /\ Nested(Below) /\ Top \in Frames(procs)
         /\ HandlersIn(stack) = HandlersIn(Below) \cup {f \in {Top} : f.kind = "handler"}
         /\ LoopProcs(stack) =
              LoopProcs(Below) \cup {f.proc : f \in {g \in {Top} : g.kind = "loop"}}
         /\ Top.kind = "handler" => Top.proc \in LoopProcs(Below)
<1> DEFINE fs == {stack[k] : k \in DOMAIN stack}
           fb == {Below[k] : k \in DOMAIN Below}
<1>1. stack \in Seq(Frames(procs)) /\ Nested(stack)
  BY DEF ProcInv
<1>2. /\ Top \in Frames(procs) /\ Below \in Seq(Frames(procs))
      /\ DOMAIN Below = 1..(Len(stack) - 1)
      /\ Len(stack) \in Nat \ {0} /\ DOMAIN stack = 1..Len(stack)
      /\ \A k \in 1..(Len(stack) - 1) : Below[k] = stack[k]
      /\ fs = fb \cup {Top}
  BY <1>1, BelowTop
<1>3. Nested(Below)
  <2>1. \A k \in 1..(Len(stack) - 1) : k \in DOMAIN stack /\ (k > 1 => k - 1 \in 1..(Len(stack) - 1))
    BY <1>2
  <2>2. QED BY <1>1, <1>2, <2>1 DEF Nested
<1>4. Top.kind = "handler" => Top.proc \in LoopProcs(Below)
  <2> SUFFICES ASSUME Top.kind = "handler" PROVE Top.proc \in LoopProcs(Below)
    OBVIOUS
  <2> DEFINE n == Len(stack)
  <2>1. n \in DOMAIN stack /\ stack[n] = Top
    BY <1>2 DEF Top
  <2> HIDE DEF n
  <2>2. n > 1 /\ stack[n - 1].kind = "loop" /\ stack[n - 1].proc = stack[n].proc
    BY <1>1, <2>1 DEF Nested
  <2>3. n - 1 \in DOMAIN Below /\ Below[n - 1] = stack[n - 1]
    BY <1>2, <2>2 DEF n
  <2>4. QED BY <2>1, <2>2, <2>3 DEF LoopProcs
<1>5. HandlersIn(stack) = {f \in fs : f.kind = "handler"} /\ HandlersIn(Below) = {f \in fb : f.kind = "handler"}
  BY DEF HandlersIn
<1>6. /\ LoopProcs(stack) = {h.proc : h \in {g \in fs : g.kind = "loop"}}
      /\ LoopProcs(Below) = {h.proc : h \in {g \in fb : g.kind = "loop"}}
  BY DEF LoopProcs
<1> HIDE DEF fs, fb
<1>7. HandlersIn(stack) = HandlersIn(Below) \cup {f \in {Top} : f.kind = "handler"}
  BY <1>2, <1>5
<1>8. LoopProcs(stack) = LoopProcs(Below) \cup {f.proc : f \in {g \in {Top} : g.kind = "loop"}}
  BY <1>2, <1>6
<1>9. QED BY <1>2, <1>3, <1>4, <1>7, <1>8

LEMMA PublishingFrame ==
  ASSUME ProcInv, NEW topic \in Topics
  PROVE  Publishing(topic) \in Frames(procs) /\ Publishing(topic).kind = "publish"
<1>1. "*" \in Topics /\ subs[topic] \in Seq(Entry(DOMAIN procs)) /\ subs["*"] \in Seq(Entry(DOMAIN procs))
  BY TopicsAssumption DEF ProcInv
<1>2. subs[topic] \o subs["*"] \in Seq(Entry(DOMAIN procs))
  BY <1>1, ConcatProperties
<1>3. QED BY <1>2 DEF Publishing, Frames

LEMMA ActsCount ==
  ASSUME ProcInv, Acts
  PROVE  acts' \in 0..ActBound
BY BoundsAssumption DEF ProcInv, Acts

\* Without a change of the processes or calls.
LEMMA CarriesSame ==
  ASSUME ProcInv
  PROVE  Carries(procs, stack, stack, {}, aborted)
BY DEF ProcInv, Carries

-----------------------------------------------------------------------------
(* The steps.                                                              *)

LEMMA RegisterInv ==
  ASSUME ProcInv, NEW h \in Handlers, Register(h)
  PROVE  ProcInv'
<1>1. acts' \in 0..ActBound
  BY ActsCount DEF Register
<1>2. Carries(procs, stack, stack', {}, aborted')
  BY CarriesSame DEF Register
<1>3. QED BY <1>1, <1>2, SteadyInv DEF Register, ProcInv

LEMMA UnsubscribeInv ==
  ASSUME ProcInv, NEW topic \in Topics, NEW p \in DOMAIN procs, Unsubscribe(topic, p)
  PROVE  ProcInv'
<1> DEFINE E == Entry(DOMAIN procs)
<1>1. acts' \in 0..ActBound
  BY ActsCount DEF Unsubscribe
<1>2. Carries(procs, stack, stack', {}, aborted')
  BY CarriesSame DEF Unsubscribe
<1>3. subs \in [Topics -> Seq(E)] /\ handlers \subseteq Handlers
  BY DEF ProcInv
<1> HIDE DEF E
<1>4. subs' \in [Topics -> Seq(E)]
  <2> DEFINE s == subs[topic]
  <2>1. PICK k \in DOMAIN s : subs' = [subs EXCEPT ![topic] = RemoveAt(s, k)]
    BY DEF Unsubscribe
  <2>2. s \in Seq(E) /\ Len(s) \in Nat /\ k \in 1..Len(s) /\ \A j \in 1..Len(s) : s[j] \in E
    BY <1>3, Indices
  <2> HIDE DEF s
  <2>3. SubSeq(s, 1, k - 1) \in Seq(E)
    <3>1. 1 \in Int /\ k - 1 \in Int /\ \A i \in 1..(k - 1) : s[i] \in E
      BY <2>2
    <3>2. QED BY <3>1, SubSeqProperties
  <2>4. SubSeq(s, k + 1, Len(s)) \in Seq(E)
    <3>1. k + 1 \in Int /\ Len(s) \in Int /\ \A i \in (k + 1)..Len(s) : s[i] \in E
      BY <2>2
    <3>2. QED BY <3>1, SubSeqProperties
  <2>5. RemoveAt(s, k) \in Seq(E)
    BY <2>3, <2>4, ConcatProperties DEF RemoveAt
  <2>6. QED BY <1>3, <2>1, <2>5
<1>5. QED BY <1>1, <1>2, <1>3, <1>4, SteadyInv DEF Unsubscribe, E

LEMMA PublishInv ==
  ASSUME ProcInv, NEW topic \in Topics, Publish(topic)
  PROVE  ProcInv'
<1>1. acts' \in 0..ActBound
  BY ActsCount DEF Publish
<1>2. /\ stack \in Seq(Frames(procs)) /\ Nested(stack) /\ aborted \subseteq DOMAIN procs
      /\ subs \in [Topics -> Seq(Entry(DOMAIN procs))] /\ handlers \subseteq Handlers
  BY DEF ProcInv
<1> DEFINE f == Publishing(topic)
<1>3. f \in Frames(procs) /\ f.kind = "publish"
  BY PublishingFrame
<1>4. /\ stack' = Append(stack, f) /\ aborted' = aborted
      /\ UNCHANGED <<procs, subs, handlers>>
  BY DEF Publish
<1> HIDE DEF f
<1>5. Carries(procs, stack, stack', {}, aborted')
  <2>1. Carries(procs, stack, Append(stack, f), IF f.kind = "loop" THEN {f.proc} ELSE {}, aborted)
    BY <1>2, <1>3, CarriesPush
  <2>2. QED BY <1>3, <1>4, <2>1
<1>6. QED BY <1>1, <1>2, <1>4, <1>5, SteadyInv

LEMMA PublishedInv ==
  ASSUME ProcInv, Published
  PROVE  ProcInv'
<1>1. stack # <<>> /\ Top.kind = "publish" /\ stack' = Below
      /\ UNCHANGED <<procs, subs, handlers, acts, aborted>>
  BY DEF Published, InKind
<1>2. Carries(procs, stack, Below, {}, aborted)
  <2>1. /\ Below \in Seq(Frames(procs)) /\ Nested(Below)
        /\ HandlersIn(stack) = HandlersIn(Below) /\ LoopProcs(stack) = LoopProcs(Below)
    BY <1>1, Pop
  <2>2. QED BY <2>1 DEF Carries, ProcInv
<1>3. /\ subs' \in [Topics -> Seq(Entry(DOMAIN procs))]
      /\ handlers' \subseteq Handlers /\ acts' \in 0..ActBound
  BY <1>1 DEF ProcInv
<1>4. QED BY <1>1, <1>2, <1>3, SteadyInv

\* A command that only takes threads of p away from those to run.
LEMMA CommandInv ==
  ASSUME ProcInv, NEW p \in DOMAIN procs, NEW ts \in Seq(AskedThread),
         DOMAIN ts = DOMAIN procs[p].threads,
         \A t \in DOMAIN ts :
           \/ ts[t] = procs[p].threads[t]
           \/ /\ ts[t].name = procs[p].threads[t].name
              /\ ts[t].deps = procs[p].threads[t].deps
              /\ ts[t].state \in {"PAUSED", "CANCELLED"},
         procs' = [procs EXCEPT ![p].threads = ts],
         Acts, UNCHANGED <<subs, handlers, stack, aborted>>
  PROVE  ProcInv'
<1>1. /\ acts' \in 0..ActBound /\ stack' = stack /\ stack \in Seq(Frames(procs)) /\ Nested(stack)
      /\ Attended(procs, HandlersIn(stack))
  BY ActsCount DEF ProcInv
<1> DEFINE old == procs[p].threads
<1>2. procs \in [DOMAIN procs -> Process]
  BY DEF ProcInv
<1>3. old \in Seq(AskedThread)
  BY <1>2 DEF Process
<1>4. \A t \in DOMAIN old : old[t].state = "RUNNING" => Handling(p, t) \in HandlersIn(stack)
  BY <1>1 DEF Attended
<1> HIDE DEF old
<1>5. \A t \in DOMAIN old :
        /\ ts[t].name = old[t].name /\ ts[t].deps = old[t].deps
        /\ ts[t].state \in {"PENDING", "RUNNING", "FINISHED"} => ts[t] = old[t]
  BY DEF old
<1>6. Ready(ts) \subseteq Ready(old)
  BY <1>3, <1>5, ReadyShrinks DEF old
<1>7. (\A t \in DOMAIN ts : ts[t].state = "FINISHED") => Ended(procs[p])
  BY <1>5 DEF Ended, old
<1>8. \A t \in DOMAIN ts : ts[t].state = "RUNNING" => Handling(p, t) \in HandlersIn(stack)
  BY <1>4, <1>5 DEF old
<1>9. QED BY <1>1, <1>6, <1>7, <1>8, CalmInv DEF old

LEMMA PauseOrCancelInv ==
  ASSUME ProcInv, NEW p \in DOMAIN procs, NEW t \in DOMAIN procs[p].threads,
         NEW c \in DOMAIN CommandState, PauseOrCancel(p, t, c)
  PROVE  ProcInv'
<1> DEFINE old == procs[p].threads
           th == [old[t] EXCEPT !.state = CommandState[c]]
           ts == [old EXCEPT ![t] = th]
<1>1. procs \in [DOMAIN procs -> Process]
  BY DEF ProcInv
<1>2. old \in Seq(AskedThread)
  BY <1>1 DEF Process
<1>3. old[t] \in AskedThread
  BY <1>2, Indices
<1>4. CommandState[c] \in {"PAUSED", "CANCELLED"}
  BY DEF CommandState
<1>5. /\ th \in AskedThread /\ th.state \in {"PAUSED", "CANCELLED"}
      /\ th.name = old[t].name /\ th.deps = old[t].deps
  <2>1. th \in AskedThread /\ th.state = CommandState[c]
    BY <1>3, <1>4, StateSet DEF States
  <2>2. QED BY <1>3, <1>4, <2>1 DEF AskedThread, Thread
<1>6. procs' = [procs EXCEPT ![p].threads = ts]
  BY DEF PauseOrCancel
<1> HIDE DEF th
<1>7. /\ ts \in Seq(AskedThread) /\ DOMAIN ts = DOMAIN old
      /\ ts[t] = th /\ \A u \in DOMAIN old \ {t} : ts[u] = old[u]
  BY <1>2, <1>5, ThreadSet
<1>8. Acts /\ UNCHANGED <<subs, handlers, stack, aborted>>
  BY DEF PauseOrCancel
<1> HIDE DEF ts
<1>9. QED BY <1>5, <1>6, <1>7, <1>8, CommandInv

LEMMA PreemptInv ==
  ASSUME ProcInv, NEW p \in DOMAIN procs, NEW threshold, Preempt(p, threshold)
  PROVE  ProcInv'
<1> DEFINE old == procs[p].threads
           ts == [t \in DOMAIN old |->
                    IF old[t].state \in {"PENDING", "RUNNING", "PAUSED"}
                         /\ old[t].priority < threshold
                    THEN [old[t] EXCEPT !.state = "PAUSED"] ELSE old[t]]
<1>1. procs \in [DOMAIN procs -> Process]
  BY DEF ProcInv
<1>2. old \in Seq(AskedThread)
  BY <1>1 DEF Process
<1>3. procs' = [procs EXCEPT ![p].threads = ts]
  BY DEF Preempt
<1>4. Acts /\ UNCHANGED <<subs, handlers, stack, aborted>>
  BY DEF Preempt
<1>5. ASSUME NEW t \in DOMAIN old
      PROVE  /\ ts[t] \in AskedThread
             /\ \/ ts[t] = old[t]
                \/ /\ ts[t].name = old[t].name /\ ts[t].deps = old[t].deps
                   /\ ts[t].state \in {"PAUSED", "CANCELLED"}
  <2> DEFINE th == [old[t] EXCEPT !.state = "PAUSED"]
  <2>1. old[t] \in AskedThread
    BY <1>2, Indices
  <2>2. th \in AskedThread /\ th.state = "PAUSED"
    BY <2>1, StateSet DEF States
  <2>3. th.name = old[t].name /\ th.deps = old[t].deps
    BY <2>1 DEF AskedThread, Thread
  <2>4. ts[t] = old[t] \/ ts[t] = th
    OBVIOUS
  <2> HIDE DEF th, ts
  <2>5. QED BY <2>1, <2>2, <2>3, <2>4
<1>6. DOMAIN ts = DOMAIN old
  OBVIOUS
<1> HIDE DEF ts
<1>7. ts \in Seq(AskedThread)
  <2>1. DOMAIN old = 1..Len(old) /\ Len(old) \in Nat
    BY <1>2, Indices
  <2>2. ts \in [1..Len(old) -> AskedThread]
    <3>1. ts = [t \in DOMAIN old |-> ts[t]]
      BY DEF ts
    <3>2. QED BY <1>5, <2>1, <3>1
  <2>3. QED BY <2>1, <2>2, SeqDef
<1>8. \A t \in DOMAIN ts :
        \/ ts[t] = old[t]
        \/ /\ ts[t].name = old[t].name /\ ts[t].deps = old[t].deps
           /\ ts[t].state \in {"PAUSED", "CANCELLED"}
  BY <1>5, <1>6
<1>9. /\ DOMAIN ts = DOMAIN procs[p].threads
      /\ \A t \in DOMAIN ts :
           \/ ts[t] = procs[p].threads[t]
           \/ /\ ts[t].name = procs[p].threads[t].name
              /\ ts[t].deps = procs[p].threads[t].deps
              /\ ts[t].state \in {"PAUSED", "CANCELLED"}
  BY <1>6, <1>8
<1> HIDE DEF old
<1>10. QED BY <1>3, <1>4, <1>7, <1>9, CommandInv

LEMMA FinishUnhandledInv ==
  ASSUME ProcInv, FinishUnhandled
  PROVE  ProcInv'
<1> DEFINE p == Top.proc
           old == procs[p].threads
           t == NextOf(Top, old)
           th == [old[t] EXCEPT !.state = "FINISHED"]
           ts == [old EXCEPT ![t] = th]
           f == Publishing(EndTopic.FINISHED)
<1>1. /\ stack # <<>> /\ Top.kind = "loop" /\ Ready(old) # {}
      /\ procs' = [procs EXCEPT ![p].threads = ts]
      /\ stack' = Append(stack, f)
      /\ UNCHANGED <<subs, handlers, acts, aborted>>
  BY DEF FinishUnhandled, InKind
<1>2. /\ procs \in [DOMAIN procs -> Process] /\ stack \in Seq(Frames(procs)) /\ Nested(stack)
      /\ Attended(procs, HandlersIn(stack)) /\ acts' \in 0..ActBound /\ aborted \subseteq DOMAIN procs
  BY <1>1 DEF ProcInv
<1>3. p \in DOMAIN procs /\ p \in LoopProcs(stack)
  <2>1. Top \in Frames(procs) /\ p \in LoopProcs(stack)
    BY <1>1, Pop
  <2>2. QED BY <1>1, <2>1, FramesOf
<1>4. old \in Seq(AskedThread)
  BY <1>2, <1>3 DEF Process
<1>5. t \in DOMAIN old /\ old[t] \in AskedThread
  BY <1>1, <1>4, NextIsReady
<1>6. \A u \in DOMAIN old : old[u].state = "RUNNING" => Handling(p, u) \in HandlersIn(stack)
  BY <1>2, <1>3 DEF Attended
<1>7. f \in Frames(procs) /\ f.kind = "publish"
  BY TopicsAssumption, PublishingFrame
<1> HIDE DEF p, f
<1>8. Carries(procs, stack, stack', {}, aborted)
  <2>1. Carries(procs, stack, Append(stack, f), IF f.kind = "loop" THEN {f.proc} ELSE {}, aborted)
    BY <1>2, <1>7, CarriesPush
  <2>2. QED BY <1>1, <1>7, <2>1
<1> HIDE DEF old, t
<1>9. th \in AskedThread /\ th.state = "FINISHED"
  BY <1>5, StateSet DEF States
<1> HIDE DEF th
<1>10. /\ ts \in Seq(AskedThread) /\ DOMAIN ts = DOMAIN old
       /\ ts[t] = th /\ \A u \in DOMAIN old \ {t} : ts[u] = old[u]
  BY <1>4, <1>5, <1>9, ThreadSet
<1> HIDE DEF ts
<1>11. stack' \in Seq(Frames(procs)) /\ Nested(stack') /\ HandlersIn(stack) \subseteq HandlersIn(stack')
  BY <1>8 DEF Carries
<1>12. LoopProcs(stack) \subseteq LoopProcs(stack')
  BY <1>1, <1>2, <1>7, PushSet
<1>13. QED
  <2>1. \A u \in DOMAIN ts : ts[u].state = "RUNNING" => Handling(p, u) \in HandlersIn(stack')
    BY <1>6, <1>9, <1>10, <1>11
  <2>2. QED BY <1>1, <1>2, <1>3, <1>10, <1>11, <1>12, <2>1, CalmInv DEF old

LEMMA CallHandlerInv ==
  ASSUME ProcInv, CallHandler
  PROVE  ProcInv'
<1> DEFINE p == Top.proc
           old == procs[p].threads
           t == NextOf(Top, old)
           th == [old[t] EXCEPT !.state = "RUNNING", !.attempts = @ + 1]
           ts == [old EXCEPT ![t] = th]
           f == Handling(p, t)
<1>1. /\ stack # <<>> /\ Top.kind = "loop" /\ Ready(old) # {}
      /\ procs' = [procs EXCEPT ![p].threads[t].state = "RUNNING",
                                ![p].threads[t].attempts = @ + 1]
      /\ stack' = Append(stack, f)
      /\ UNCHANGED <<subs, handlers, acts, aborted>>
  BY DEF CallHandler, InKind
<1>2. /\ procs \in [DOMAIN procs -> Process] /\ stack \in Seq(Frames(procs)) /\ Nested(stack)
      /\ Attended(procs, HandlersIn(stack)) /\ acts' \in 0..ActBound
  BY <1>1 DEF ProcInv
<1>3. p \in DOMAIN procs /\ p \in LoopProcs(stack)
  <2>1. Top \in Frames(procs) /\ p \in LoopProcs(stack)
    BY <1>1, Pop
  <2>2. QED BY <1>1, <2>1, FramesOf
<1>4. old \in Seq(AskedThread)
  BY <1>2, <1>3 DEF Process
<1>5. t \in DOMAIN old /\ old[t] \in AskedThread /\ old[t].state = "PENDING"
  BY <1>1, <1>4, NextIsReady
<1>6. \A u \in DOMAIN old : old[u].state = "RUNNING" => Handling(p, u) \in HandlersIn(stack)
  BY <1>2, <1>3 DEF Attended
<1>7. f \in Frames(procs) /\ f.kind = "handler" /\ f.proc = p
  <2>1. t \in Nat
    BY <1>4, <1>5, Indices
  <2> HIDE DEF t
  <2>2. QED BY <1>3, <1>5, <2>1 DEF Handling, Frames
<1>8. procs' = [procs EXCEPT ![p].threads = ts]
  <2> HIDE DEF p, t
  <2>1. procs[p] \in Process /\ procs[p].threads[t] \in AskedThread
    BY <1>2, <1>3, <1>5
  <2>2. QED BY <1>1, <1>2, <1>3, <1>5, <2>1 DEF Process, AskedThread, Thread
<1> HIDE DEF p, t, old
<1>9. th \in AskedThread /\ th.state = "RUNNING"
  <2> DEFINE n == old[t].attempts + 1
  <2>1. old[t] \in Thread /\ old[t].attempts \in Nat /\ old[t].asked \in Nat
        /\ old[t].attempts < old[t].asked
    BY <1>5 DEF AskedThread, Thread
  <2>2. n \in Nat /\ n <= old[t].asked
    BY <2>1
  <2>3. th = [old[t] EXCEPT !.state = "RUNNING", !.attempts = n]
    BY <2>1 DEF Thread
  <2> HIDE DEF n, th
  <2>4. th \in Thread /\ th.state = "RUNNING" /\ th.attempts = n /\ th.asked = old[t].asked
    BY <2>1, <2>2, <2>3 DEF Thread, States
  <2>5. QED BY <2>2, <2>4 DEF AskedThread
<1> HIDE DEF th
<1>10. /\ ts \in Seq(AskedThread) /\ DOMAIN ts = DOMAIN old
       /\ ts[t] = th /\ \A u \in DOMAIN old \ {t} : ts[u] = old[u]
  BY <1>4, <1>5, <1>9, ThreadSet
<1> HIDE DEF ts
<1>11. /\ stack' \in Seq(Frames(procs))
       /\ HandlersIn(stack') = HandlersIn(stack) \cup {f}
       /\ LoopProcs(stack) \subseteq LoopProcs(stack')
  <2> HIDE DEF f
  <2>1. HandlersIn(Append(stack, f)) = HandlersIn(stack) \cup {g \in {f} : g.kind = "handler"}
    BY <1>2, <1>7, PushSet
  <2>2. /\ Append(stack, f) \in Seq(Frames(procs))
        /\ LoopProcs(stack) \subseteq LoopProcs(Append(stack, f))
    BY <1>2, <1>7, Push, PushSet
  <2>3. QED BY <1>1, <1>7, <2>1, <2>2
<1>12. Nested(stack')
  <2> HIDE DEF f
  <2> DEFINE n == Len(stack)
  <2>1. /\ DOMAIN stack' = 1..(n + 1) /\ DOMAIN stack = 1..n
        /\ \A k \in 1..n : stack'[k] = stack[k]
        /\ stack'[n + 1] = f
        /\ n \in Nat \ {0} /\ stack[n] = Top
    BY <1>1, <1>2, <1>7, Push, Indices, BelowTop DEF Top
  <2> HIDE DEF n
  <2> SUFFICES ASSUME NEW k \in DOMAIN stack', stack'[k].kind = "handler"
               PROVE  k > 1 /\ stack'[k - 1].kind = "loop" /\ stack'[k - 1].proc = stack'[k].proc
    BY DEF Nested
  <2>2. CASE k = n + 1
    <3>1. k - 1 = n /\ n \in 1..n
      BY <2>1, <2>2
    <3>2. stack'[k - 1] = Top
      BY <2>1, <3>1
    <3>3. QED BY <1>1, <1>7, <2>1, <2>2, <3>2 DEF p
  <2>3. CASE k # n + 1
    <3>1. k \in 1..n
      BY <2>1, <2>3
    <3>2. k > 1 /\ stack[k - 1].kind = "loop" /\ stack[k - 1].proc = stack[k].proc
      BY <1>2, <2>1, <3>1 DEF Nested
    <3>3. k - 1 \in 1..n
      BY <2>1, <3>1, <3>2
    <3>4. QED BY <2>1, <3>1, <3>2, <3>3
  <2>4. QED BY <2>2, <2>3
<1>13. \A u \in DOMAIN ts : ts[u].state = "RUNNING" => Handling(p, u) \in HandlersIn(stack')
  BY <1>6, <1>10, <1>11
<1>14. QED BY <1>1, <1>2, <1>3, <1>8, <1>10, <1>11, <1>12, <1>13, CalmInv DEF old

LEMMA HandlerEndsInv ==
  ASSUME ProcInv, NEW s \in DOMAIN EndTopic, HandlerEnds(s)
  PROVE  ProcInv'
<1> DEFINE p == Top.proc
           old == procs[p].threads
           t == Top.thread
           th == [old[t] EXCEPT !.state = s]
           ts == [old EXCEPT ![t] = th]
           f == Publishing(EndTopic[s])
<1>1. /\ stack # <<>> /\ Top.kind = "handler"
      /\ procs' = [procs EXCEPT ![p].threads = ts]
      /\ stack' = Append(Below, f)
      /\ UNCHANGED <<subs, handlers, acts, aborted>>
  BY DEF HandlerEnds, InKind
<1>2. /\ procs \in [DOMAIN procs -> Process] /\ aborted \subseteq DOMAIN procs
      /\ Attended(procs, HandlersIn(stack)) /\ acts' \in 0..ActBound
  BY <1>1 DEF ProcInv
<1>3. /\ Below \in Seq(Frames(procs)) /\ Nested(Below) /\ Top \in Frames(procs)
      /\ HandlersIn(stack) = HandlersIn(Below) \cup {Top}
      /\ LoopProcs(stack) = LoopProcs(Below)
      /\ p \in LoopProcs(Below)
  <2>1. /\ Below \in Seq(Frames(procs)) /\ Nested(Below) /\ Top \in Frames(procs)
        /\ HandlersIn(stack) = HandlersIn(Below) \cup {g \in {Top} : g.kind = "handler"}
        /\ LoopProcs(stack) =
              LoopProcs(Below) \cup {h.proc : h \in {g \in {Top} : g.kind = "loop"}}
        /\ Top.kind = "handler" => Top.proc \in LoopProcs(Below)
    BY <1>1, Pop
  <2>2. {g \in {Top} : g.kind = "handler"} = {Top} /\ {g \in {Top} : g.kind = "loop"} = {}
    BY <1>1
  <2>3. QED BY <1>1, <2>1, <2>2
<1>4. p \in DOMAIN procs /\ t \in DOMAIN old /\ Top = Handling(p, t)
  BY <1>1, <1>3, FramesOf
<1>5. old \in Seq(AskedThread)
  BY <1>2, <1>4 DEF Process
<1>6. old[t] \in AskedThread
  BY <1>4, <1>5, Indices
<1>7. f \in Frames(procs) /\ f.kind = "publish"
  <2>1. EndTopic[s] \in Topics
    BY TopicsAssumption DEF EndTopic
  <2>2. QED BY <2>1, PublishingFrame
<1>8. \A u \in DOMAIN old : old[u].state = "RUNNING" => Handling(p, u) \in HandlersIn(stack)
  BY <1>2, <1>4 DEF Attended
<1>9. s \in {"FINISHED", "FAILED"}
  BY DEF EndTopic
<1> HIDE DEF p, f, t, old
<1>10. th \in AskedThread /\ th.state = s
  BY <1>6, <1>9, StateSet DEF States
<1> HIDE DEF th
<1>11. /\ ts \in Seq(AskedThread) /\ DOMAIN ts = DOMAIN old
       /\ ts[t] = th /\ \A u \in DOMAIN old \ {t} : ts[u] = old[u]
  BY <1>4, <1>5, <1>10, ThreadSet
<1> HIDE DEF ts
<1>12. /\ stack' \in Seq(Frames(procs)) /\ Nested(stack')
       /\ HandlersIn(Below) \subseteq HandlersIn(stack')
       /\ LoopProcs(Below) \subseteq LoopProcs(stack')
  <2>1. Carries(procs, Below, Append(Below, f), IF f.kind = "loop" THEN {f.proc} ELSE {}, aborted)
    BY <1>2, <1>3, <1>7, CarriesPush
  <2>2. LoopProcs(Below) \subseteq LoopProcs(Append(Below, f))
    BY <1>3, <1>7, PushSet
  <2>3. QED BY <1>1, <2>1, <2>2 DEF Carries
<1>13. ASSUME NEW u \in DOMAIN ts, ts[u].state = "RUNNING"
       PROVE  Handling(p, u) \in HandlersIn(stack')
  <2>1. u # t
    BY <1>9, <1>10, <1>11, <1>13
  <2>2. u \in DOMAIN old /\ old[u].state = "RUNNING"
    BY <1>11, <1>13, <2>1
  <2>3. Handling(p, u) # Handling(p, t)
    BY <2>1 DEF Handling
  <2>4. QED BY <1>3, <1>4, <1>8, <1>12, <2>2, <2>3
<1>14. \A g \in HandlersIn(stack) : g \in HandlersIn(stack') \/ g.proc = p
  BY <1>3, <1>12 DEF p
<1>15. QED
  BY <1>1, <1>2, <1>3, <1>4, <1>11, <1>12, <1>13, <1>14, CalmInv DEF old

LEMMA LeaveInv ==
  ASSUME ProcInv, Leave
  PROVE  ProcInv'
<1> DEFINE p == Top.proc
           ts == procs[p].threads
<1>1. /\ stack # <<>> /\ Top.kind = "loop" /\ Ready(ts) = {}
      /\ procs' = IF \A t \in DOMAIN ts : ts[t].state \in {"FINISHED", "CANCELLED"}
                  THEN [procs EXCEPT ![p].state = "FINISHED"] ELSE procs
      /\ aborted' = aborted \ {p} /\ stack' = Below
      /\ UNCHANGED <<subs, handlers, acts>>
  BY DEF Leave, InKind
<1>2. /\ DOMAIN procs \subseteq Procs /\ procs \in [DOMAIN procs -> Process]
      /\ subs \in [Topics -> Seq(Entry(DOMAIN procs))] /\ handlers \subseteq Handlers
      /\ acts \in 0..ActBound /\ aborted \subseteq DOMAIN procs
      /\ Attended(procs, HandlersIn(stack))
      /\ Settled(procs, aborted \cup LoopProcs(stack))
  BY DEF ProcInv
<1>3. /\ Below \in Seq(Frames(procs)) /\ Nested(Below) /\ Top \in Frames(procs)
      /\ HandlersIn(stack) = HandlersIn(Below)
      /\ LoopProcs(stack) = LoopProcs(Below) \cup {p}
  <2>1. /\ Below \in Seq(Frames(procs)) /\ Nested(Below) /\ Top \in Frames(procs)
        /\ HandlersIn(stack) = HandlersIn(Below) \cup {g \in {Top} : g.kind = "handler"}
        /\ LoopProcs(stack) =
              LoopProcs(Below) \cup {h.proc : h \in {g \in {Top} : g.kind = "loop"}}
    BY <1>1, Pop
  <2>2. {g \in {Top} : g.kind = "handler"} = {} /\ {g \in {Top} : g.kind = "loop"} = {Top}
    BY <1>1
  <2>3. QED BY <2>1, <2>2
<1>4. p \in DOMAIN procs
  BY <1>1, <1>3, FramesOf
<1> HIDE DEF p
<1>5. /\ DOMAIN procs' = DOMAIN procs /\ procs' \in [DOMAIN procs -> Process]
      /\ \A q \in DOMAIN procs : procs'[q].threads = procs[q].threads
      /\ \A q \in DOMAIN procs \ {p} : procs'[q] = procs[q]
      /\ (\A t \in DOMAIN ts : ts[t].state = "FINISHED") => procs'[p].state = "FINISHED"
  <2> DEFINE new == [procs EXCEPT ![p].state = "FINISHED"]
  <2>1. procs[p] \in Process
    BY <1>2, <1>4
  <2>2. /\ DOMAIN new = DOMAIN procs
        /\ new[p] = [procs[p] EXCEPT !.state = "FINISHED"]
        /\ \A q \in DOMAIN procs \ {p} : new[q] = procs[q]
    BY <1>4
  <2>3. new[p] \in Process /\ new[p].threads = procs[p].threads /\ new[p].state = "FINISHED"
    BY <2>1, <2>2 DEF Process
  <2>4. new \in [DOMAIN procs -> Process] /\ \A q \in DOMAIN procs : new[q].threads = procs[q].threads
    BY <1>2, <2>2, <2>3
  <2>5. CASE \A t \in DOMAIN ts : ts[t].state \in {"FINISHED", "CANCELLED"}
    <3>1. procs' = new
      BY <1>1, <2>5
    <3> HIDE DEF new
    <3>2. QED BY <2>2, <2>3, <2>4, <3>1
  <2>6. CASE ~ \A t \in DOMAIN ts : ts[t].state \in {"FINISHED", "CANCELLED"}
    BY <1>1, <1>2, <2>6
  <2>7. QED BY <2>5, <2>6
<1>6. Below \in Seq(Frames(procs'))
  <2>1. Grown(procs, procs')
    BY <1>5 DEF Grown
  <2>2. QED BY <1>3, <2>1, StackGrows
<1>7. Attended(procs', HandlersIn(Below))
  BY <1>2, <1>3, <1>5 DEF Attended
<1>8. Settled(procs', (aborted \ {p}) \cup LoopProcs(Below))
  <2> SUFFICES ASSUME NEW q \in DOMAIN procs \ ((aborted \ {p}) \cup LoopProcs(Below))
               PROVE  /\ Ready(procs'[q].threads) = {}
                      /\ Ended(procs'[q]) => procs'[q].state = "FINISHED"
    BY <1>5 DEF Settled
  <2>1. CASE q = p
    BY <1>1, <1>4, <1>5, <2>1 DEF Ended
  <2>2. CASE q # p
    <3>1. q \in DOMAIN procs \ (aborted \cup LoopProcs(stack))
      BY <1>3, <2>2
    <3>2. QED BY <1>2, <1>5, <2>2, <3>1 DEF Settled
  <2>3. QED BY <2>1, <2>2
<1>9. QED BY <1>1, <1>2, <1>3, <1>5, <1>6, <1>7, <1>8 DEF ProcInv

LEMMA SpawnInv ==
  ASSUME ProcInv, NEW p \in DOMAIN procs, NEW x \in SpawnInputs, Spawn(p, x)
  PROVE  ProcInv'
<1> DEFINE old == procs[p].threads
           ts == Spawned(old, x)
<1>1. /\ procs \in [DOMAIN procs -> Process] /\ stack \in Seq(Frames(procs)) /\ Nested(stack)
  BY DEF ProcInv
<1>2. old \in Seq(AskedThread)
  BY <1>1 DEF Process
<1>3. x.name \in Names /\ x.handler \in Handlers /\ x.deps \in SUBSET Names /\ x.priority \in Int
  BY InputsAssumption
<1>4. acts' \in 0..ActBound
  BY ActsCount DEF Spawn
<1>5. /\ procs' = [procs EXCEPT ![p].threads = ts]
      /\ RunReady(stack, p, ts) /\ UNCHANGED <<subs, handlers>>
  BY DEF Spawn
<1> HIDE DEF old
<1>6. /\ ts \in Seq(AskedThread) /\ DOMAIN old \subseteq DOMAIN ts
      /\ \A t \in DOMAIN ts : ts[t].state = "RUNNING" => t \in DOMAIN old /\ old[t].state = "RUNNING"
  BY <1>2, <1>3, SpawnedThreads
<1> HIDE DEF ts
<1>7. QED BY <1>1, <1>4, <1>5, <1>6, ServeInv DEF old

LEMMA ResumeInv ==
  ASSUME ProcInv, NEW p \in DOMAIN procs, NEW t \in DOMAIN procs[p].threads, Resume(p, t)
  PROVE  ProcInv'
<1> DEFINE old == procs[p].threads
           th == [old[t] EXCEPT !.state = "PENDING", !.asked = @ + 1]
           ts == [old EXCEPT ![t] = th]
<1>1. procs \in [DOMAIN procs -> Process] /\ stack \in Seq(Frames(procs)) /\ Nested(stack)
  BY DEF ProcInv
<1>2. old \in Seq(AskedThread)
  BY <1>1 DEF Process
<1>3. old[t] \in AskedThread
  BY <1>2, Indices
<1>4. acts' \in 0..ActBound
  BY ActsCount DEF Resume
<1>5. /\ procs' = [procs EXCEPT ![p].threads = ts]
      /\ RunReady(stack, p, ts) /\ UNCHANGED <<subs, handlers>>
  <2> DEFINE as == [procs[p].threads EXCEPT ![t].state = "PENDING", ![t].asked = @ + 1]
  <2>1. /\ procs' = [procs EXCEPT ![p].threads = as]
        /\ RunReady(stack, p, as) /\ UNCHANGED <<subs, handlers>>
    BY DEF Resume
  <2>2. as = ts
    <3>1. old \in [1..Len(old) -> AskedThread] /\ t \in 1..Len(old)
      BY <1>2, Indices
    <3>2. QED BY <1>3, <3>1 DEF AskedThread, Thread
  <2> HIDE DEF as, ts
  <2>3. QED BY <2>1, <2>2
<1>6. th \in AskedThread /\ th.state = "PENDING"
  <2> DEFINE same == old[t].priority
             w == [old[t] EXCEPT !.priority = same, !.state = "PENDING", !.asked = @ + 1]
  <2>1. same \in Int /\ th = w
    BY <1>3 DEF AskedThread, Thread
  <2> HIDE DEF same, th
  <2>2. w \in AskedThread /\ w.state = "PENDING"
    BY <1>3, <2>1, Asked
  <2>3. QED BY <2>1, <2>2
<1> HIDE DEF th
<1>7. /\ ts \in Seq(AskedThread) /\ DOMAIN ts = DOMAIN old
      /\ ts[t] = th /\ \A u \in DOMAIN old \ {t} : ts[u] = old[u]
  BY <1>2, <1>6, ThreadSet
<1> HIDE DEF ts
<1>8. /\ DOMAIN procs[p].threads \subseteq DOMAIN ts
      /\ \A u \in DOMAIN ts : ts[u].state = "RUNNING" =>
           u \in DOMAIN procs[p].threads /\ procs[p].threads[u].state = "RUNNING"
  BY <1>6, <1>7
<1> HIDE DEF old
<1>9. QED BY <1>1, <1>4, <1>5, <1>7, <1>8, ServeInv

\* The event is on its way to the rest of its subscribers.
LEMMA Delivered ==
  ASSUME ProcInv, InKind("publish"), Top.todo # <<>>
  PROVE  LET rest == Append(Below, [Top EXCEPT !.todo = Tail(@)]) IN
         /\ Head(Top.todo) \in Entry(DOMAIN procs)
         /\ Carries(procs, stack, rest, {}, aborted)
         /\ HandlersIn(stack) \subseteq HandlersIn(rest) /\ LoopProcs(stack) \subseteq LoopProcs(rest)
<1> DEFINE f == [Top EXCEPT !.todo = Tail(@)]
           rest == Append(Below, f)
<1>1. stack # <<>> /\ Top.kind = "publish"
  BY DEF InKind
<1>2. /\ Below \in Seq(Frames(procs)) /\ Nested(Below) /\ Top \in Frames(procs)
      /\ HandlersIn(stack) = HandlersIn(Below) /\ LoopProcs(stack) = LoopProcs(Below)
  BY <1>1, Pop
<1>3. Top = [kind |-> "publish", todo |-> Top.todo] /\ Top.todo \in Seq(Entry(DOMAIN procs))
  BY <1>1, <1>2, FramesOf
<1>4. Head(Top.todo) \in Entry(DOMAIN procs) /\ Tail(Top.todo) \in Seq(Entry(DOMAIN procs))
  BY <1>3, HeadTailProperties
<1>5. f = [kind |-> "publish", todo |-> Tail(Top.todo)]
  BY <1>3
<1> HIDE DEF f
<1>6. f \in Frames(procs) /\ f.kind = "publish"
  BY <1>4, <1>5 DEF Frames
<1>7. aborted \subseteq DOMAIN procs
  BY DEF ProcInv
<1>8. Carries(procs, Below, rest, IF f.kind = "loop" THEN {f.proc} ELSE {}, aborted)
  BY <1>2, <1>6, <1>7, CarriesPush
<1>9. LoopProcs(Below) \subseteq LoopProcs(rest)
  BY <1>2, <1>6, PushSet
<1> HIDE DEF rest
<1>10. Carries(procs, stack, rest, {}, aborted) /\ HandlersIn(stack) \subseteq HandlersIn(rest)
  BY <1>2, <1>6, <1>8 DEF Carries
<1>11. QED BY <1>2, <1>4, <1>9, <1>10 DEF rest, f

LEMMA DeliverInv ==
  ASSUME ProcInv, Deliver
  PROVE  ProcInv'
<1> DEFINE sub == Head(Top.todo)
           rest == Append(Below, [Top EXCEPT !.todo = Tail(@)])
           old == procs[sub.proc].threads
           base == Base(old, sub.start)
           x == [name |-> sub.start, handler |-> old[base].handler, deps |-> {}, priority |-> 0]
           ts == Spawned(old, x)
<1>1. /\ procs \in [DOMAIN procs -> Process] /\ stack \in Seq(Frames(procs)) /\ Nested(stack)
      /\ subs \in [Topics -> Seq(Entry(DOMAIN procs))] /\ handlers \subseteq Handlers
      /\ aborted \subseteq DOMAIN procs /\ acts \in 0..ActBound
  BY DEF ProcInv
<1>2. /\ InKind("publish") /\ Top.todo # <<>>
      /\ UNCHANGED <<subs, handlers, acts>>
      /\ \/ sub.start = NoName /\ stack' = rest /\ UNCHANGED <<procs, aborted>>
         \/ Raises(stack, {}) /\ UNCHANGED procs
         \/ /\ sub.start # NoName /\ base # 0
            /\ procs' = [procs EXCEPT ![sub.proc].threads = ts]
            /\ RunReady(rest, sub.proc, ts)
  BY DEF Deliver
<1>3. /\ sub \in Entry(DOMAIN procs)
      /\ Carries(procs, stack, rest, {}, aborted)
      /\ HandlersIn(stack) \subseteq HandlersIn(rest) /\ LoopProcs(stack) \subseteq LoopProcs(rest)
  BY <1>2, Delivered
<1>4. sub.proc \in DOMAIN procs /\ sub.start \in Names \cup {NoName}
  BY <1>3 DEF Entry
<1>5. old \in Seq(AskedThread)
  BY <1>1, <1>4 DEF Process
<1>6. /\ subs' \in [Topics -> Seq(Entry(DOMAIN procs))]
      /\ handlers' \subseteq Handlers /\ acts' \in 0..ActBound
  BY <1>1, <1>2
<1> HIDE DEF rest
<1>7. CASE sub.start = NoName /\ stack' = rest /\ UNCHANGED <<procs, aborted>>
  BY <1>3, <1>6, <1>7, SteadyInv
<1>8. CASE Raises(stack, {}) /\ UNCHANGED procs
  <2> DEFINE none == {}
  <2>1. none \in SUBSET DOMAIN procs /\ Raises(stack, none)
    BY <1>8
  <2> HIDE DEF none
  <2>2. Carries(procs, stack, stack', none, aborted')
    BY <1>1, <2>1, CarriesRaise
  <2>3. Carries(procs, stack, stack', {}, aborted')
    BY <2>2 DEF none
  <2>4. QED BY <1>6, <1>8, <2>3, SteadyInv
<1>9. CASE /\ sub.start # NoName /\ base # 0
           /\ procs' = [procs EXCEPT ![sub.proc].threads = ts]
           /\ RunReady(rest, sub.proc, ts)
  <2> DEFINE p == sub.proc
  <2>1. base \in DOMAIN old
    BY <1>5, <1>9, BasePlace
  <2>2. old[base] \in AskedThread
    BY <1>5, <2>1, Indices
  <2>3. x.name \in Names /\ x.handler \in Handlers /\ x.deps \in SUBSET Names /\ x.priority \in Int
    <3>1. old[base].handler \in Handlers
      BY <2>2 DEF AskedThread, Thread
    <3>2. sub.start \in Names
      BY <1>4, <1>9
    <3> HIDE DEF old, base, sub
    <3>3. QED BY <3>1, <3>2
  <2>4. p \in DOMAIN procs /\ old = procs[p].threads
    BY <1>4
  <2>5. procs' = [procs EXCEPT ![p].threads = ts] /\ RunReady(rest, p, ts)
    BY <1>9
  <2> HIDE DEF p, old, x
  <2>6. /\ ts \in Seq(AskedThread) /\ DOMAIN old \subseteq DOMAIN ts
        /\ \A t \in DOMAIN ts : ts[t].state = "RUNNING" => t \in DOMAIN old /\ old[t].state = "RUNNING"
    BY <1>5, <2>3, SpawnedThreads
  <2> HIDE DEF ts
  <2>7. rest \in Seq(Frames(procs)) /\ Nested(rest)
    BY <1>3 DEF Carries
  <2>8. QED BY <1>2, <1>3, <1>6, <2>4, <2>5, <2>6, <2>7, ServeInv
<1>10. QED BY <1>2, <1>7, <1>8, <1>9

LEMMA NewProcessTypes ==
  ASSUME NEW d \in Definitions
  PROVE  /\ NewProcess(d) \in Process
         /\ NewProcess(d).threads \in Seq(AskedThread)
         /\ \A t \in DOMAIN NewProcess(d).threads : NewProcess(d).threads[t].state # "RUNNING"
<1> DEFINE ts == [k \in DOMAIN d.threads |->
                    NewThread(d.threads[k],
                              IF d.threads[k].triggered THEN "WAITING" ELSE "PENDING")]
<1>1. d.threads \in Seq(ThreadSpec)
  BY InputsAssumption DEF DefinitionOK
<1>2. DOMAIN d.threads = 1..Len(d.threads) /\ Len(d.threads) \in Nat
  BY <1>1, Indices
<1>3. ASSUME NEW k \in DOMAIN d.threads
      PROVE  ts[k] \in AskedThread /\ ts[k].state # "RUNNING"
  <2> DEFINE x == d.threads[k]
             st == IF x.triggered THEN "WAITING" ELSE "PENDING"
  <2>1. x \in ThreadSpec
    BY <1>1, Indices
  <2>2. x.name \in Names /\ x.handler \in Handlers /\ x.deps \in SUBSET Names /\ x.priority \in Int
    BY <2>1 DEF ThreadSpec
  <2>3. ts[k] = NewThread(x, st) /\ st \in {"WAITING", "PENDING"}
    OBVIOUS
  <2> HIDE DEF x, st, ts
  <2>4. NewThread(x, st) \in AskedThread /\ NewThread(x, st).state = st
    BY <2>2, <2>3, NewThreadAsked
  <2>5. QED BY <2>3, <2>4
<1>4. DOMAIN ts = DOMAIN d.threads /\ ts = [k \in DOMAIN d.threads |-> ts[k]]
  OBVIOUS
<1>5. NewProcess(d) = [threads |-> ts, state |-> "RUNNING"]
  BY DEF NewProcess
<1> HIDE DEF ts
<1>6. ts \in [1..Len(d.threads) -> AskedThread]
  BY <1>2, <1>3, <1>4
<1>7. ts \in Seq(AskedThread)
  BY <1>2, <1>6, SeqDef
<1>8. \A t \in DOMAIN ts : ts[t].state # "RUNNING"
  BY <1>3, <1>4
<1>9. [threads |-> ts, state |-> "RUNNING"] \in Process
  BY <1>7 DEF Process
<1>10. NewProcess(d).threads = ts
  BY <1>5
<1>11. QED BY <1>5, <1>7, <1>8, <1>9, <1>10

LEMMA SubscribedTypes ==
  ASSUME NEW d \in Definitions, NEW I, NEW p \in I, NEW J, J \subseteq I,
         subs \in [Topics -> Seq(Entry(J))]
  PROVE  Subscribed(p, d) \in [Topics -> Seq(Entry(I))]
<1> DEFINE mine(topic) == {k \in DOMAIN d.subs : d.subs[k].topic = topic}
           new(topic) == IF mine(topic) = {} THEN subs[topic]
                         ELSE Append(subs[topic], [proc |-> p, start |-> d.subs[Max(mine(topic))].start])
<1>1. d.subs \in Seq([topic : Topics, start : Names \cup {NoName}])
  BY InputsAssumption DEF DefinitionOK
<1>2. /\ DOMAIN d.subs = 1..Len(d.subs) /\ Len(d.subs) \in Nat
      /\ \A k \in DOMAIN d.subs : d.subs[k].start \in Names \cup {NoName}
  <2> DEFINE s == d.subs
             S == [topic : Topics, start : Names \cup {NoName}]
  <2>1. s \in Seq(S)
    BY <1>1
  <2>2. \A x \in S : x.start \in Names \cup {NoName}
    OBVIOUS
  <2> HIDE DEF s, S
  <2>3. DOMAIN s = 1..Len(s) /\ Len(s) \in Nat /\ \A k \in DOMAIN s : s[k] \in S
    BY <2>1, Indices
  <2>4. \A k \in DOMAIN s : s[k].start \in Names \cup {NoName}
    BY <2>2, <2>3
  <2>5. QED BY <2>3, <2>4 DEF s
<1>3. ASSUME NEW topic \in Topics PROVE new(topic) \in Seq(Entry(I))
  <2> DEFINE M == mine(topic)
  <2>1. subs[topic] \in Seq(Entry(I))
    BY SubscriptionsGrow
  <2>2. M \in SUBSET (1..Len(d.subs)) /\ M \subseteq DOMAIN d.subs
    BY <1>2
  <2>3. new(topic) = IF M = {} THEN subs[topic]
                     ELSE Append(subs[topic], [proc |-> p, start |-> d.subs[Max(M)].start])
    OBVIOUS
  <2> HIDE DEF M, new
  <2>4. ASSUME M # {} PROVE Max(M) \in M
    <3>1. PICK m \in M : \A x \in M : x <= m
      BY <1>2, <2>2, <2>4, GreatestIndex
    <3>2. \A x \in M : m >= x
      BY <1>2, <2>2, <3>1
    <3>3. QED BY <3>2 DEF Max
  <2>5. ASSUME M # {}
        PROVE  Append(subs[topic], [proc |-> p, start |-> d.subs[Max(M)].start]) \in Seq(Entry(I))
    <3> DEFINE e == [proc |-> p, start |-> d.subs[Max(M)].start]
    <3>1. d.subs[Max(M)].start \in Names \cup {NoName}
      BY <1>2, <2>2, <2>4, <2>5
    <3>2. e \in Entry(I)
      BY <3>1 DEF Entry
    <3> HIDE DEF e
    <3>3. Append(subs[topic], e) \in Seq(Entry(I))
      BY <2>1, <3>2, AppendProperties
    <3>4. QED BY <3>3 DEF e
  <2>6. QED BY <2>1, <2>3, <2>5
<1>4. Subscribed(p, d) = [topic \in Topics |-> new(topic)]
  BY DEF Subscribed
<1> HIDE DEF new
<1>5. QED BY <1>3, <1>4

LEMMA CreateInv ==
  ASSUME ProcInv, NEW d \in Definitions, Create(d)
  PROVE  ProcInv'
<1> DEFINE p == CHOOSE q \in Procs : q \notin DOMAIN procs
           new == NewProcess(d)
           all == [q \in DOMAIN procs \cup {p} |-> IF q = p THEN new ELSE procs[q]]
<1>1. /\ DOMAIN procs \subseteq Procs /\ procs \in [DOMAIN procs -> Process]
      /\ subs \in [Topics -> Seq(Entry(DOMAIN procs))] /\ handlers \subseteq Handlers
      /\ stack \in Seq(Frames(procs)) /\ Nested(stack) /\ aborted \subseteq DOMAIN procs
      /\ Attended(procs, HandlersIn(stack))
      /\ Settled(procs, aborted \cup LoopProcs(stack))
  BY DEF ProcInv
<1>2. /\ DOMAIN procs # Procs /\ procs' = all /\ subs' = Subscribed(p, d)
      /\ RunReady(stack, p, new.threads) /\ UNCHANGED handlers
  BY DEF Create
<1>3. acts' \in 0..ActBound
  BY ActsCount DEF Create
<1>4. p \in Procs /\ p \notin DOMAIN procs
  BY <1>1, <1>2
<1> HIDE DEF p, new
<1>5. /\ DOMAIN procs' = DOMAIN procs \cup {p} /\ procs'[p] = new
      /\ \A q \in DOMAIN procs : procs'[q] = procs[q]
      /\ procs' = [q \in DOMAIN procs \cup {p} |-> procs'[q]]
  BY <1>2, <1>4
<1>6. /\ new \in Process /\ new.threads \in Seq(AskedThread)
      /\ \A t \in DOMAIN new.threads : new.threads[t].state # "RUNNING"
  BY NewProcessTypes DEF new
<1>7. /\ DOMAIN procs' \subseteq Procs /\ procs' \in [DOMAIN procs' -> Process]
      /\ Grown(procs, procs') /\ p \in DOMAIN procs' /\ aborted \subseteq DOMAIN procs'
  BY <1>1, <1>4, <1>5, <1>6 DEF Grown
<1>8. subs' \in [Topics -> Seq(Entry(DOMAIN procs'))]
  <2> DEFINE I == DOMAIN procs \cup {p}
  <2>1. p \in I /\ DOMAIN procs \subseteq I
    OBVIOUS
  <2> HIDE DEF I
  <2>2. Subscribed(p, d) \in [Topics -> Seq(Entry(I))]
    BY <1>1, <2>1, SubscribedTypes
  <2>3. QED BY <1>2, <1>5, <2>2 DEF I
<1>9. Carries(procs', stack, stack', {p}, aborted')
  <2>1. stack \in Seq(Frames(procs'))
    BY <1>1, <1>7, StackGrows
  <2>2. QED BY <1>1, <1>2, <1>6, <1>7, <2>1, CarriesRun
<1>10. /\ stack' \in Seq(Frames(procs')) /\ Nested(stack')
       /\ HandlersIn(stack) \subseteq HandlersIn(stack')
       /\ aborted \cup LoopProcs(stack) \subseteq aborted' \cup LoopProcs(stack')
       /\ p \in aborted' \cup LoopProcs(stack')
       /\ aborted' \subseteq DOMAIN procs'
  BY <1>9 DEF Carries
<1>11. Attended(procs', HandlersIn(stack'))
  BY <1>1, <1>5, <1>6, <1>10 DEF Attended
<1>12. Settled(procs', aborted' \cup LoopProcs(stack'))
  <2> DEFINE after == aborted' \cup LoopProcs(stack')
  <2>1. aborted \cup LoopProcs(stack) \subseteq after /\ p \in after
    BY <1>10
  <2> HIDE DEF after
  <2>2. Settled(procs', after)
    BY <1>1, <1>5, <2>1 DEF Settled
  <2>3. QED BY <2>2 DEF after
<1>13. QED BY <1>1, <1>2, <1>3, <1>7, <1>8, <1>10, <1>11, <1>12 DEF ProcInv

LEMMA InitInv == Init => ProcInv
<1> SUFFICES ASSUME Init PROVE ProcInv
  OBVIOUS
<1>1. /\ procs = <<>> /\ subs = [topic \in Topics |-> <<>>] /\ handlers = Registered
      /\ stack = <<>> /\ acts = 0 /\ aborted = {}
  BY DEF Init
<1>2. DOMAIN procs = {} /\ procs \in [DOMAIN procs -> Process]
  BY <1>1
<1>3. subs \in [Topics -> Seq(Entry(DOMAIN procs))]
  <2>1. <<>> \in Seq(Entry(DOMAIN procs))
    BY EmptySeq
  <2>2. QED BY <1>1, <2>1
<1>4. stack \in Seq(Frames(procs)) /\ DOMAIN stack = {}
  BY <1>1, EmptySeq
<1>5. Nested(stack)
  BY <1>4 DEF Nested
<1>6. Attended(procs, HandlersIn(stack)) /\ Settled(procs, aborted \cup LoopProcs(stack))
  BY <1>2 DEF Attended, Settled
<1>7. QED
  BY <1>1, <1>2, <1>3, <1>4, <1>5, <1>6, InputsAssumption, BoundsAssumption DEF ProcInv

LEMMA StepInv ==
  ASSUME ProcInv, [Next]_vars
  PROVE  ProcInv'
<1>1. ASSUME Operation PROVE ProcInv'
  BY <1>1, RegisterInv, CreateInv, PublishInv, SpawnInv, ResumeInv, PauseOrCancelInv,
     PreemptInv, UnsubscribeInv DEF Operation
<1>2. ASSUME Proceed PROVE ProcInv'
  BY <1>2, CallHandlerInv, FinishUnhandledInv, LeaveInv, HandlerEndsInv, DeliverInv,
     PublishedInv DEF Proceed
<1>3. ASSUME UNCHANGED vars PROVE ProcInv'
  BY <1>3 DEF vars, ProcInv
<1>4. QED BY <1>1, <1>2, <1>3 DEF Next

-----------------------------------------------------------------------------
(* The theorems.                                                           *)

\* Whatever clients and handlers do: every handler call has a loop of its process
\* below it, a thread that says RUNNING has its handler on the stack, every thread
\* that is ready has a loop of its process that is busy, or an exception that cut
\* one short, and no thread has been called more often than it was asked for.
THEOREM ProcInvariance == Spec => []ProcInv
<1>1. Init => ProcInv
  BY InitInv
<1>2. ProcInv /\ [Next]_vars => ProcInv'
  BY StepInv
<1>3. QED BY <1>1, <1>2, PTL DEF Spec

\* The shapes of processes, subscriptions and calls are kept for any definitions and
\* any nesting of calls; above all, calls name threads that exist.
THEOREM ProcessTypes == Spec => []ProcTypeOK
<1>1. ProcInv => ProcTypeOK
  <2> SUFFICES ASSUME ProcInv PROVE ProcTypeOK
    OBVIOUS
  <2>1. /\ DOMAIN procs \subseteq Procs /\ procs \in [DOMAIN procs -> Process]
        /\ subs \in [Topics -> Seq(Entry(DOMAIN procs))] /\ handlers \subseteq Handlers
        /\ stack \in Seq(Frames(procs)) /\ acts \in 0..ActBound /\ aborted \subseteq DOMAIN procs
    BY DEF ProcInv
  <2>2. ASSUME NEW p \in DOMAIN procs
        PROVE  /\ procs[p].state \in {"RUNNING", "FINISHED"}
               /\ \A t \in DOMAIN procs[p].threads : procs[p].threads[t] \in Thread
    <3>1. procs[p].threads \in Seq(AskedThread) /\ procs[p].state \in {"RUNNING", "FINISHED"}
      BY <2>1 DEF Process
    <3>2. \A t \in DOMAIN procs[p].threads : procs[p].threads[t] \in AskedThread
      BY <3>1, Indices
    <3>3. QED BY <3>1, <3>2 DEF AskedThread
  <2>3. ASSUME NEW topic \in Topics, NEW k \in DOMAIN subs[topic]
        PROVE  subs[topic][k] \in [proc : DOMAIN procs, start : Names \cup {NoName}]
    <3>1. subs[topic] \in Seq(Entry(DOMAIN procs))
      BY <2>1
    <3>2. subs[topic][k] \in Entry(DOMAIN procs)
      BY <3>1, Indices
    <3>3. QED BY <3>2 DEF Entry
  <2>4. ASSUME NEW k \in DOMAIN stack
        PROVE  \/ stack[k].kind = "loop" /\ stack[k].proc \in DOMAIN procs
               \/ /\ stack[k].kind = "handler"
                  /\ stack[k].thread \in DOMAIN procs[stack[k].proc].threads
               \/ stack[k].kind = "publish"
    <3>1. stack[k] \in Frames(procs)
      BY <2>1, Indices
    <3>2. QED BY <3>1, FramesOf
  <2>5. QED BY <2>1, <2>2, <2>3, <2>4 DEF ProcTypeOK
<1>2. QED BY <1>1, ProcInvariance, PTL

\* For any processes, definitions and depth of nesting, a thread that is ready has a
\* loop of its process that will get to it, unless an exception cut one short.
THEOREM ReadyThreadsAreServed == Spec => []ReadyIsServed
<1>1. ProcInv => ReadyIsServed
  <2> SUFFICES ASSUME ProcInv, NEW p \in DOMAIN procs \ aborted, LoopsOf(p) = {}
               PROVE  Ready(procs[p].threads) = {}
    BY DEF ReadyIsServed
  <2>1. p \notin LoopProcs(stack)
    BY DEF LoopsOf, LoopProcs
  <2>2. QED BY <2>1 DEF ProcInv, Settled
<1>2. QED BY <1>1, ProcInvariance, PTL

\* No exception, command or nested loop ever leaves a thread RUNNING with no call of
\* its handler in progress.
THEOREM RunningThreadsExecute == Spec => []RunningIsExecuting
<1>1. ProcInv => RunningIsExecuting
  BY DEF ProcInv, Attended, RunningIsExecuting, Executing, HandlersIn
<1>2. QED BY <1>1, ProcInvariance, PTL

\* Nested loops of a process never call a handler more often than its thread was
\* created, woken or resumed.
THEOREM CallsAreAsked == Spec => []RunsAreAsked
<1>1. ProcInv => RunsAreAsked
  <2> SUFFICES ASSUME ProcInv, NEW p \in DOMAIN procs, NEW t \in DOMAIN procs[p].threads
               PROVE  procs[p].threads[t].attempts <= procs[p].threads[t].asked
    BY DEF RunsAreAsked
  <2>1. procs[p].threads \in Seq(AskedThread)
    BY DEF ProcInv, Process
  <2>2. procs[p].threads[t] \in AskedThread
    BY <2>1, Indices
  <2>3. QED BY <2>2 DEF AskedThread
<1>2. QED BY <1>1, ProcInvariance, PTL

\* Control never returns to the client with a process all of whose threads are
\* finished and that does not say so, unless an exception cut its loop short.
THEOREM EndsAreNoticed == Spec => []EndIsNoticed
<1>1. ProcInv => EndIsNoticed
  <2> SUFFICES ASSUME ProcInv, stack = <<>>, NEW p \in DOMAIN procs \ aborted,
                      \A t \in DOMAIN procs[p].threads : procs[p].threads[t].state = "FINISHED"
               PROVE  procs[p].state = "FINISHED"
    BY DEF EndIsNoticed
  <2>1. DOMAIN stack = {}
    OBVIOUS
  <2>2. p \notin LoopProcs(stack)
    BY <2>1 DEF LoopProcs
  <2>3. QED BY <2>2 DEF ProcInv, Settled, Ended
<1>2. QED BY <1>1, ProcInvariance, PTL
=============================================================================
