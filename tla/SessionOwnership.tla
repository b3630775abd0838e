-------------------------- MODULE SessionOwnership --------------------------
(***************************************************************************)
(* What the persistent OpenVPN supervisor promises, without its loops, its *)
(* database and its network: a component has at most one appointed worker, *)
(* only a running worker opens a tunnel, a worker closes its tunnel before *)
(* it quits, and nobody is appointed while a former worker of the          *)
(* component runs, unless that one is overdue.                             *)
(***************************************************************************)
CONSTANTS Components, Threads, None

VARIABLES holder,   \* the appointed worker of a component
          home,     \* the component a thread works for
          running,  \* threads that run
          open,     \* threads that hold an OpenVPN process
          overdue   \* dismissed threads nobody waits for any more

ownershipVars == <<holder, home, running, open, overdue>>

Init ==
  /\ holder = [c \in Components |-> None]
  /\ home \in [Threads -> Components]
  /\ running = {} /\ open = {} /\ overdue = {}

Appoint(c, t) ==
  /\ holder[c] = None /\ t \notin running
  /\ \A u \in running : home[u] = c => u \in overdue
  /\ holder' = [holder EXCEPT ![c] = t]
  /\ home' = [home EXCEPT ![t] = c]
  /\ running' = running \cup {t}
  /\ overdue' = overdue \ {t}
  /\ UNCHANGED open

Dismiss(c) ==
  /\ holder[c] # None
  /\ holder' = [holder EXCEPT ![c] = None]
  /\ UNCHANGED <<home, running, open, overdue>>

GiveUpOn(t) ==
  /\ t \in running /\ holder[home[t]] # t
  /\ overdue' = overdue \cup {t}
  /\ UNCHANGED <<holder, home, running, open>>

Open(t) ==
  /\ t \in running
  /\ open' = open \cup {t}
  /\ UNCHANGED <<holder, home, running, overdue>>

Close(t) ==
  /\ open' = open \ {t}
  /\ UNCHANGED <<holder, home, running, overdue>>

Quit(t) ==
  /\ t \in running \ open
  /\ running' = running \ {t}
  /\ UNCHANGED <<holder, home, open, overdue>>

Next ==
  \/ \E c \in Components, t \in Threads : Appoint(c, t)
  \/ \E c \in Components : Dismiss(c)
  \/ \E t \in Threads : GiveUpOn(t) \/ Open(t) \/ Close(t) \/ Quit(t)

Spec == Init /\ [][Next]_ownershipVars
=============================================================================
