-------------------------- MODULE GraphMonitorProofs --------------------------
(***************************************************************************)
(* What the monitor of the ROS graph guarantees for any set of publishers. *)
(***************************************************************************)
EXTENDS GraphMonitor, TLAPS

TypeOK ==
    /\ pc \in [Publishers -> {"out", "entering", "found", "spinning", "in"}]
    /\ mutex \in Publishers \cup {free, thread}

\* There is a thread as long as instance_ is set, and it ends only when it
\* has been told to.
ThreadState ==
    /\ instance \in BOOLEAN /\ flag \in BOOLEAN
    /\ instance <=> loop # "none"
    /\ loop = "ending" => flag

\* Who is in instance() holds mutex_, as the thread does that calls listeners,
\* and waits for the end of a monitor only when the last listener is gone.
MutexState ==
    /\ \A p \in Publishers : pc[p] \in {"found", "spinning"} => mutex = p
    /\ \A p \in Publishers : pc[p] = "spinning" => listeners = {}
    /\ loop = "calling" => mutex = thread

\* A change that a registered publisher has not been told of is in event_, or
\* the thread is on its way to tell everybody.
ChangeIsPending ==
    /\ unaware \subseteq listeners
    /\ unaware # {} => event \/ loop \in {"locking", "calling"}

IInv == TypeOK /\ RegisteredMonitorRuns /\ ThreadState /\ MutexState /\ ChangeIsPending

-----------------------------------------------------------------------------

\* What IInv says of the end of a monitor: nobody is registered any more, and
\* nobody is caught by it while somebody is.
LEMMA EndIsAlone ==
    ASSUME IInv
    PROVE  /\ flag \/ ~instance \/ crashed \/ Trapped => listeners = {}
           /\ free \notin Publishers /\ thread \notin Publishers /\ free # thread
BY PublishersAssumption DEF IInv, RegisteredMonitorRuns, free, thread

\* A new monitor has the publisher that creates it as its only listener.
LEMMA CreateIInv ==
    ASSUME IInv, NEW p \in Publishers, ~instance, ~crashed, Create(p),
           mutex = free \/ pc[p] = "spinning"
    PROVE  IInv'
<1>1. listeners = {} /\ unaware = {} /\ \A q \in Publishers : pc[q] # "in"
  BY DEF IInv, RegisteredMonitorRuns, ThreadState, ChangeIsPending
<1>2. \A q \in Publishers \ {p} : pc[q] \notin {"found", "spinning"}
  BY EndIsAlone DEF IInv, MutexState
<1>3. pc' = [pc EXCEPT ![p] = "in"] /\ \A q \in Publishers : pc'[q] \notin {"found", "spinning"}
  BY <1>2 DEF Create, Goto, IInv, TypeOK
<1>4. TypeOK'
  BY <1>3 DEF Create, IInv, TypeOK
<1>5. RegisteredMonitorRuns'
  BY <1>1, <1>3 DEF Create, IInv, TypeOK, RegisteredMonitorRuns, Trapped
<1>6. ThreadState' /\ ChangeIsPending' /\ MutexState'
  BY <1>1, <1>3 DEF Create, ThreadState, ChangeIsPending, MutexState
<1> QED
  BY <1>4, <1>5, <1>6 DEF IInv

\* Steps of the publishers.
LEMMA PublisherIInv ==
    ASSUME IInv, NEW p \in Publishers, Publisher(p)
    PROVE  IInv'
<1> USE EndIsAlone
<1>1. CASE Enter(p)
  BY <1>1 DEF Enter, At, Goto, monitorVars, IInv, TypeOK, RegisteredMonitorRuns, Trapped,
              ThreadState, MutexState, ChangeIsPending
<1>2. CASE Instance(p)
  <2>1. CASE instance
    <3>1. /\ pc[p] = "entering" /\ mutex = free /\ mutex' = p
          /\ pc' = [pc EXCEPT ![p] = "found"]
          /\ UNCHANGED <<instance, flag, event, listeners, loop, crashed, unaware>>
      BY <1>2, <2>1 DEF Instance, Create, At, Goto, monitorVars
    <3>2. /\ \A q \in Publishers : pc[q] \notin {"found", "spinning"}
          /\ pc'[p] = "found" /\ \A q \in Publishers \ {p} : pc'[q] = pc[q]
      BY <3>1 DEF IInv, TypeOK, MutexState
    <3> QED
      BY <3>1, <3>2 DEF IInv, TypeOK, RegisteredMonitorRuns, Trapped, ThreadState, MutexState,
                        ChangeIsPending
  <2>2. CASE ~instance
    BY <1>2, <2>2, CreateIInv DEF Instance, At
  <2> QED
    BY <2>1, <2>2
<1>3. CASE UseInstance(p)
  <2>1. /\ pc[p] = "found" /\ mutex = p /\ instance /\ ~crashed
        /\ \A q \in Publishers \ {p} : pc[q] \notin {"found", "spinning"}
        /\ UNCHANGED <<instance, flag, event, loop, crashed, unaware>>
    BY <1>3 DEF UseInstance, At, IInv, MutexState
  <2>2. CASE ~IsEnding
    <3>1. /\ listeners' = listeners \cup {p} /\ mutex' = free /\ ~flag
          /\ pc' = [pc EXCEPT ![p] = "in"]
      BY <1>3, <2>2 DEF UseInstance, Goto, IsEnding
    <3>2. /\ listeners' = {q \in Publishers : pc'[q] = "in"}
          /\ \A q \in Publishers : pc'[q] \notin {"found", "spinning"}
      BY <2>1, <3>1 DEF IInv, TypeOK, RegisteredMonitorRuns
    <3> QED
      BY <2>1, <3>1, <3>2 DEF IInv, TypeOK, RegisteredMonitorRuns, Trapped, ThreadState,
                              MutexState, ChangeIsPending
  <2>3. CASE IsEnding
    <3>1. /\ UNCHANGED <<listeners, mutex>> /\ flag /\ listeners = {}
          /\ pc' = [pc EXCEPT ![p] = "spinning"]
      BY <1>3, <2>3 DEF UseInstance, Goto, IsEnding
    <3> QED
      BY <2>1, <3>1 DEF IInv, TypeOK, RegisteredMonitorRuns, Trapped, ThreadState, MutexState,
                        ChangeIsPending
  <2> QED
    BY <2>2, <2>3
<1>4. CASE UseAfterReset(p)
  <2>1. /\ pc[p] = "found" /\ mutex = p /\ ~instance /\ listeners = {}
        /\ pc' = pc \/ pc' = [pc EXCEPT ![p] = "spinning"]
        /\ crashed' \in BOOLEAN \/ crashed' = crashed
        /\ UNCHANGED <<instance, flag, event, listeners, mutex, loop, unaware>>
    BY <1>4 DEF UseAfterReset, At, Goto, monitorVars, IInv, MutexState
  <2> QED
    BY <2>1 DEF IInv, TypeOK, RegisteredMonitorRuns, Trapped, ThreadState, MutexState,
                ChangeIsPending
<1>5. CASE SpinEnds(p)
  BY <1>5, CreateIInv DEF SpinEnds, At
<1>6. CASE RemoveListener(p)
  <2>1. /\ listeners' = {q \in Publishers : pc'[q] = "in"}
        /\ \A q \in Publishers : pc'[q] \notin {"found", "spinning"}
    BY <1>6 DEF RemoveListener, At, Goto, IInv, TypeOK, RegisteredMonitorRuns, MutexState
  <2> QED
    BY <1>6, <2>1 DEF RemoveListener, At, Goto, IInv, TypeOK, RegisteredMonitorRuns, Trapped,
                      ThreadState, MutexState, ChangeIsPending
<1> QED
  BY <1>1, <1>2, <1>3, <1>4, <1>5, <1>6 DEF Publisher

\* Steps of the monitor's thread, and of the graph that wakes it up. A thread
\* that goes to its end has been told to, so that nobody is registered.
LEMMA ThreadIInv ==
    ASSUME IInv, GraphChanges \/ Thread
    PROVE  IInv'
<1> USE EndIsAlone DEF ThreadAt, monitorVars, IInv, TypeOK, RegisteredMonitorRuns, Trapped,
                       ThreadState, MutexState, ChangeIsPending
<1>1. listeners # {} => instance /\ ~flag /\ loop \notin {"none", "ending"}
  OBVIOUS
<1>2. CASE GraphChanges
  BY <1>2 DEF GraphChanges
<1>3. CASE Top
  BY <1>3 DEF Top
<1>4. CASE Wake
  BY <1>1, <1>4 DEF Wake
<1>5. CASE Lock
  BY <1>5 DEF Lock
<1>6. CASE CallListeners
  BY <1>6 DEF CallListeners
<1>7. CASE End
  BY <1>1, <1>7 DEF End, ResetInstance
<1> QED
  BY <1>2, <1>3, <1>4, <1>5, <1>6, <1>7 DEF Thread

\* IInv is inductive.
THEOREM Invariance == Spec => []IInv
<1>1. Init => IInv
  BY PublishersAssumption DEF Init, IInv, TypeOK, RegisteredMonitorRuns, Trapped, ThreadState,
                              MutexState, ChangeIsPending, free, thread
<1>2. IInv /\ [Next]_vars => IInv'
  <2> SUFFICES ASSUME IInv, [Next]_vars PROVE IInv'
    OBVIOUS
  <2>1. CASE UNCHANGED vars
    BY <2>1 DEF vars, monitorVars, IInv, TypeOK, RegisteredMonitorRuns, Trapped, ThreadState,
                MutexState, ChangeIsPending
  <2> QED
    BY <2>1, PublisherIInv, ThreadIInv DEF Next
<1> QED
  BY <1>1, <1>2, PTL DEF Spec

\* However many publishers come and go while a monitor ends, instance() never
\* joins one that has been told to end, onGraphChange() is called of exactly
\* those that are registered, and as long as anybody is registered, nobody who
\* comes meets the null instance_ or the deadlock of a monitor's end.
THEOREM RegisteredRuns == Spec => []RegisteredMonitorRuns
<1>1. IInv => RegisteredMonitorRuns
  BY DEF IInv
<1> QED
  BY <1>1, Invariance, PTL

\* A change of the graph is never forgotten before the registered publishers
\* have been called: event_ is cleared only on the way to call them, or when
\* nobody is left.
THEOREM NoChangeIsForgotten == Spec => []ChangeIsPending
<1>1. IInv => ChangeIsPending
  BY DEF IInv
<1> QED
  BY <1>1, Invariance, PTL

=============================================================================
