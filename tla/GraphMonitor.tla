---------------------------- MODULE GraphMonitor ----------------------------
(***************************************************************************)
(* The process-wide monitor of the ROS graph (graph_monitor.cpp).          *)
(*                                                                         *)
(* Publishers register with instance() and leave with removeListener();    *)
(* the last one to leave tells the monitor to end, and its detached thread *)
(* clears instance_ when it does, without mutex_. A publisher that comes   *)
(* while a monitor is ending spins until instance_ is clear, and holds     *)
(* mutex_ meanwhile.                                                       *)
(***************************************************************************)
EXTENDS FiniteSets

CONSTANT Publishers  \* the listeners

free == "free"
thread == "thread"

ASSUME PublishersAssumption ==
    IsFiniteSet(Publishers) /\ free \notin Publishers /\ thread \notin Publishers

VARIABLES
    instance,   \* instance_ is set
    flag,       \* shutdown_flag_ of that monitor
    event,      \* event_ is set: the ROS graph has changed
    listeners,  \* listeners_ of that monitor
    mutex,      \* who holds mutex_
    loop,       \* where the monitor's thread is
    pc,         \* where each publisher is: "out", "entering", "found" (it holds
                \* mutex_ and has seen that instance_ is set), "spinning" or "in"
    crashed,    \* the process is gone
    unaware     \* history: listeners that were not called since the last change

monitorVars == <<instance, flag, event, listeners>>
vars == <<monitorVars, mutex, loop, pc, crashed, unaware>>

Init ==
    /\ instance = FALSE /\ flag = FALSE /\ event = FALSE /\ listeners = {}
    /\ mutex = free
    /\ loop = "none"
    /\ pc = [p \in Publishers |-> "out"]
    /\ crashed = FALSE
    /\ unaware = {}

At(p, place) == ~crashed /\ pc[p] = place

Goto(p, place) == pc' = [pc EXCEPT ![p] = place]

-----------------------------------------------------------------------------
(* Publishers.                                                             *)

\* instance_.reset(new GraphMonitor(node)), and p is its first listener.
Create(p) ==
    /\ instance' = TRUE /\ flag' = FALSE /\ event' = FALSE
    /\ listeners' = {p}
    /\ loop' = "top"
    /\ mutex' = free
    /\ Goto(p, "in")
    /\ UNCHANGED <<crashed, unaware>>

Enter(p) ==
    /\ At(p, "out")
    /\ Goto(p, "entering")
    /\ UNCHANGED <<monitorVars, mutex, loop, crashed, unaware>>

\* instance() locks and tests instance_.
Instance(p) ==
    /\ At(p, "entering") /\ mutex = free
    /\ \/ /\ instance
          /\ mutex' = p
          /\ Goto(p, "found")
          /\ UNCHANGED <<monitorVars, loop, crashed, unaware>>
       \/ ~instance /\ Create(p)

\* Mutant: a monitor that is ending is used like any other.
IsEndingNot == FALSE

IsEnding == flag

\* instance_ is used: join the monitor, or wait for its end.
UseInstance(p) ==
    /\ At(p, "found") /\ instance
    /\ \/ /\ ~IsEnding
          /\ listeners' = listeners \cup {p}
          /\ mutex' = free
          /\ Goto(p, "in")
       \/ /\ IsEnding
          /\ Goto(p, "spinning")
          /\ UNCHANGED <<listeners, mutex>>
    /\ UNCHANGED <<instance, flag, event, loop, crashed, unaware>>

\* The thread has cleared instance_ since it was tested: the process dies, or
\* p still sees the flag of the monitor that is gone.
UseAfterReset(p) ==
    /\ At(p, "found") /\ ~instance
    /\ \/ crashed' = TRUE /\ UNCHANGED pc
       \/ Goto(p, "spinning") /\ UNCHANGED crashed
    /\ UNCHANGED <<monitorVars, mutex, loop, unaware>>

SpinEnds(p) ==
    /\ At(p, "spinning") /\ ~instance
    /\ Create(p)

RemoveListener(p) ==
    /\ At(p, "in") /\ mutex = free
    /\ listeners' = listeners \ {p}
    /\ flag' = (flag \/ listeners' = {})
    /\ event' = (event \/ listeners' = {})
    /\ unaware' = unaware \ {p}
    /\ Goto(p, "out")
    /\ UNCHANGED <<instance, mutex, loop, crashed>>

-----------------------------------------------------------------------------
(* The ROS graph and the monitor's thread.                                 *)

ThreadAt(place) == ~crashed /\ loop = place

GraphChanges ==
    /\ ~crashed /\ instance
    /\ event' = TRUE
    /\ unaware' = listeners
    /\ UNCHANGED <<instance, flag, listeners, mutex, loop, pc, crashed>>

\* Mutant: the event is cleared before it is waited for.
TopClearsEvent ==
    /\ ThreadAt("top")
    /\ loop' = IF flag THEN "ending" ELSE "waiting"
    /\ event' = FALSE
    /\ UNCHANGED <<instance, flag, listeners, mutex, pc, crashed, unaware>>

\* while (!shutdown_flag_)
Top ==
    /\ ThreadAt("top")
    /\ loop' = IF flag THEN "ending" ELSE "waiting"
    /\ UNCHANGED <<monitorVars, mutex, pc, crashed, unaware>>

\* wait_for_graph_change() returns on the event and after ten seconds.
Wake ==
    /\ ThreadAt("waiting")
    /\ loop' = IF event /\ ~flag THEN "locking" ELSE "top"
    /\ event' = FALSE
    /\ UNCHANGED <<instance, flag, listeners, mutex, pc, crashed, unaware>>

Lock ==
    /\ ThreadAt("locking") /\ mutex = free
    /\ mutex' = thread
    /\ loop' = "calling"
    /\ UNCHANGED <<monitorVars, pc, crashed, unaware>>

\* onGraphChange() of every listener, then unlock.
CallListeners ==
    /\ ThreadAt("calling")
    /\ unaware' = unaware \ listeners
    /\ mutex' = free
    /\ loop' = "top"
    /\ UNCHANGED <<monitorVars, pc, crashed>>

\* Mutant: instance_ is not cleared.
ResetInstanceNot == UNCHANGED instance

ResetInstance == instance' = FALSE

\* Without mutex_.
End ==
    /\ ThreadAt("ending")
    /\ ResetInstance
    /\ loop' = "none"
    /\ UNCHANGED <<flag, event, listeners, mutex, pc, crashed, unaware>>

-----------------------------------------------------------------------------

Thread == Top \/ Wake \/ Lock \/ CallListeners \/ End

Publisher(p) ==
    Enter(p) \/ Instance(p) \/ UseInstance(p) \/ UseAfterReset(p) \/ SpinEnds(p)
    \/ RemoveListener(p)

Next ==
    \/ \E p \in Publishers : Publisher(p)
    \/ GraphChanges
    \/ Thread

Spec == Init /\ [][Next]_vars

\* The thread runs, a call of instance() goes on, and whoever waits for mutex_
\* gets it if it is released again and again.
FairSpec ==
    /\ Spec
    /\ WF_vars(Top) /\ WF_vars(Wake) /\ WF_vars(CallListeners) /\ WF_vars(End)
    /\ SF_vars(Lock)
    /\ \A p \in Publishers :
         SF_vars(Instance(p)) /\ WF_vars(UseInstance(p) \/ UseAfterReset(p) \/ SpinEnds(p))

-----------------------------------------------------------------------------
(* Properties.                                                             *)

\* instance() holds mutex_ and waits for a thread that waits for mutex_.
Trapped == loop = "locking" /\ \E p \in Publishers : pc[p] = "spinning"

\* A registered publisher has a monitor that keeps running, and exactly the
\* registered ones, no destroyed one, are called back. Registration never joins
\* a monitor that has been told to end, and while anybody is registered nobody
\* who comes is caught by the end of a monitor: neither by the null instance_
\* nor by the thread that waits for mutex_.
RegisteredMonitorRuns ==
    /\ listeners = {p \in Publishers : pc[p] = "in"}
    /\ listeners # {} =>
         instance /\ ~flag /\ loop \notin {"none", "ending"} /\ ~crashed /\ ~Trapped

\* instance() returns, except in the two ways it can be caught by the end of a
\* monitor that the last publisher has left: instance_ is cleared between its
\* test and its use, or the thread has just decided to call listeners.
InstanceReturns ==
    \A p \in Publishers : pc[p] = "entering" ~> pc[p] = "in" \/ Trapped \/ crashed

\* No change of the graph is lost on a registered publisher.
ChangesAreReported ==
    \A p \in Publishers : p \in unaware ~> p \notin unaware \/ crashed

=============================================================================
