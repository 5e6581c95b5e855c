------------------------------- MODULE MCProcess -------------------------------
(* An instance of ProcessScheduler for TLC.                                 *)
EXTENDS ProcessScheduler

CONSTANTS a, b, c, called, bare

DefThread(n, h, ds, pr, tr) ==
  [name |-> n, handler |-> h, deps |-> ds, priority |-> pr, triggered |-> tr]
Sub(topic, n) == [topic |-> topic, start |-> n]

\* Two threads in a row, and one that is triggered by the topic to which the
\* process subscribes twice.
Chain ==
  [threads |-> <<DefThread(a, called, {}, 0, FALSE), DefThread(b, called, {a}, 1, FALSE),
                 DefThread(c, bare, {b}, 1, TRUE)>>,
   subs |-> <<Sub("amended", a), Sub("amended", c)>>]

\* Starts a thread whenever one ends, its own too, and one it does not declare
\* when one fails; and listens to everything without starting any.
Follower ==
  [threads |-> <<DefThread(a, bare, {}, 0, TRUE)>>,
   subs |-> <<Sub("*", NoName), Sub("fina.thread.finished", a),
              Sub("fina.thread.failed", c)>>]

TheDefinitions == {Chain, Follower}
TheTopics == {"*", "amended", "fina.thread.finished", "fina.thread.failed"}
TheInputs ==
  {[name |-> b, handler |-> called, deps |-> {a}, priority |-> 1],
   [name |-> c, handler |-> bare, deps |-> {}, priority |-> 0]}
=============================================================================
