----------------------------- MODULE MCSessions -----------------------------
(* Applications for the model checker.  What they leave out is what the       *)
(* other configuration shows to fail.                                         *)
EXTENDS Sessions

Anywhere == Callbacks \X {"send"}
BetweenRuns == {"none"} \X {"send", "disconnect", "stop"}

MCManners ==
    { \* one that sends whenever it likes, and ends things between two runs only
      [big |-> {}, calls |-> BetweenRuns \cup Anywhere],
      \* one that ends things in its callbacks, but not in on_send_result, and sends
      \* nothing there
      [big |-> {}, calls |-> BetweenRuns \cup ((Callbacks \ {"result"}) \X {"disconnect", "stop"})],
      \* one that sends big messages too, and leaves all ends to the others
      [big |-> Messages \ Reliable, calls |-> Anywhere] }

\* An application that answers a message and, still in the callback, stops.
MCLastWords ==
    { [big |-> {}, calls |-> ({"received"} \X {"send", "stop"}) \cup BetweenRuns] }

\* The first ones are what NoAssertionFails is proved of; the last one is not.
ASSUME MannersAreOrderly == \A x \in MCManners : Orderly(x)
ASSUME LastWordsAreNot == \A x \in MCLastWords : ~ Orderly(x)
=============================================================================
