---------------------------- MODULE SessionEvents ----------------------------
(* What the callbacks of include/pomelo/api.h promise an application: a       *)
(* session is announced, taken back if it was announced, and cleaned up once, *)
(* in this order; a message that was handed over is answered once.  A session *)
(* may be cleaned up without on_disconnected: that is what a stop does.       *)
CONSTANTS Sessions, Messages

VARIABLES seen,         \* what each session's callbacks have told
          message       \* "idle", "sent" or "answered"

eventVars == <<seen, message>>

SessionStages == {"fresh", "silent", "connected", "disconnected", "gone"}

EventsInit ==
    /\ seen = [c \in Sessions |-> "fresh"]
    /\ message = [m \in Messages |-> "idle"]

Exists(c) == seen[c] = "fresh" /\ seen' = [seen EXCEPT ![c] = "silent"] /\ UNCHANGED message

Announced(c) == seen[c] = "silent" /\ seen' = [seen EXCEPT ![c] = "connected"] /\ UNCHANGED message

TakenBack(c) == seen[c] = "connected" /\ seen' = [seen EXCEPT ![c] = "disconnected"] /\ UNCHANGED message

\* A stop cleans up all the sessions in one step.
CleanedUp(C) ==
    /\ \A c \in C : seen[c] \in {"silent", "connected", "disconnected"}
    /\ seen' = [c \in Sessions |-> IF c \in C THEN "gone" ELSE seen[c]]
    /\ UNCHANGED message

Sent(m) == message[m] = "idle" /\ message' = [message EXCEPT ![m] = "sent"] /\ UNCHANGED seen

\* A message for nobody is answered inside the call.
Answered(m) ==
    /\ message[m] \in {"idle", "sent"}
    /\ message' = [message EXCEPT ![m] = "answered"] /\ UNCHANGED seen

EventsNext ==
    \/ \E c \in Sessions : Exists(c) \/ Announced(c) \/ TakenBack(c)
    \/ \E C \in (SUBSET Sessions) \ {{}} : CleanedUp(C)
    \/ \E m \in Messages : Sent(m) \/ Answered(m)

EventsSpec == EventsInit /\ [][EventsNext]_eventVars
=============================================================================
