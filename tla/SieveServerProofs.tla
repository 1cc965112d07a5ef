--------------------------- MODULE SieveServerProofs ---------------------------
(***************************************************************************)
(* The safety theorems of SieveServer, for any number of connections.      *)
(***************************************************************************)
EXTENDS SieveServer, TLAPS

\* Close cancels the context before anything else, and s.conns does not change
\* while it holds s.mu to walk it.
WalkInv ==
    /\ closer # "idle" => shutdown
    /\ closer # "walk" => toKick = {}
    /\ closer = "walk" => \A k \in conns : k \in toKick \/ k \in poisoned
    /\ closer \in {"wait", "returned"} =>
          \A k \in Conns : pc[k] \in InCommand \ {"relay"} => k \in poisoned

\* Which connections s.conns and s.wg hold.
TrackInv ==
    \A k \in Conns :
       /\ pc[k] \in Serving \ {"relay", "close", "unregister"} => k \in conns
       /\ pc[k] \in {"new", "got", "start", "recover", "finish", "gone"} => k \notin conns
       /\ pc[k] \in {"new", "got", "gone"} => k \notin wg

\* A poisoned deadline stays; a hijacked connection is on its way out.
FlagInv ==
    \A k \in Conns :
       /\ k \in poisoned => rdl[k] = "kicked"
       /\ pc[k] \in {"release", "relay"} => k \in hijacked
       /\ k \in hijacked =>
             pc[k] \in {"release", "relay", "close", "unregister", "recover",
                        "finish", "gone"}
       /\ k \in hijacked /\ pc[k] # "release" => k \notin conns

\* What has been done of the teardown at each point.
TeardownInv ==
    \A k \in Conns :
       /\ pc[k] \in {"new", "got", "start", "newsession"} => k \notin created /\ closes[k] = 0
       /\ pc[k] \in InCommand \cup {"greet", "top", "close"} => k \in created /\ closes[k] = 0
       /\ pc[k] \in {"unregister", "recover", "finish", "gone"} =>
             closes[k] = IF k \in created THEN 1 ELSE 0
       /\ pc[k] = "unregister" => k \in panicking \cup sockClosed \cup hijacked
       /\ pc[k] = "recover" => k \in panicking
       /\ pc[k] \in {"finish", "gone"} => k \in sockClosed \cup hijacked

Inv == TypeOK /\ WalkInv /\ TrackInv /\ FlagInv /\ TeardownInv

\* Serve's own steps keep the invariant: they touch a connection only to start it.
LEMMA ServeKeepsInv ==
  ASSUME Inv,
         \/ ServeCalled \/ SetListener \/ AcceptError
         \/ Backoff \/ OwnerClosesListener
  PROVE  Inv'
<1> USE DEF Inv, TypeOK, WalkInv, TrackInv, FlagInv, TeardownInv, ServePcs, ClosePcs,
        InCommand, Serving, Pcs, Deadlines, Goto, MuFree, ConnsUnchanged
<1>1. CASE ServeCalled BY <1>1 DEF ServeCalled
<1>2. CASE SetListener BY <1>2 DEF SetListener
<1>3. CASE AcceptError BY <1>3 DEF AcceptError
<1>4. CASE Backoff BY <1>4 DEF Backoff
<1>5. CASE OwnerClosesListener BY <1>5 DEF OwnerClosesListener
<1> QED BY <1>1, <1>2, <1>3, <1>4, <1>5

\* The steps of Close keep the invariant: at the end of its walk every registered
\* connection is poisoned.
LEMMA CloserKeepsInv ==
  ASSUME Inv,
         \/ Cancel \/ CloseListener \/ BeginWalk \/ EndWalk
         \/ CloseReturn
  PROVE  Inv'
<1> USE DEF Inv, TypeOK, WalkInv, TrackInv, FlagInv, TeardownInv, ServePcs, ClosePcs,
        InCommand, Serving, Pcs, Deadlines, Goto, MuFree, CloserUnchanged
<1>1. CASE Cancel BY <1>1 DEF Cancel
<1>2. CASE CloseListener BY <1>2 DEF CloseListener
<1>3. CASE BeginWalk BY <1>3 DEF BeginWalk
<1>4. CASE EndWalk BY <1>4 DEF EndWalk
<1>5. CASE CloseReturn BY <1>5 DEF CloseReturn
<1> QED BY <1>1, <1>2, <1>3, <1>4, <1>5

\* Accepting, spawning and registering a connection, and NewSession, keep the
\* invariant.
LEMMA StartKeepsInv ==
  ASSUME Inv, NEW k \in Conns,
         \/ Accept(k) \/ Spawn(k) \/ ServeConn(k)
         \/ RegisterConn(k) \/ NewSession(k) \/ NewSessionRejects(k)
  PROVE  Inv'
<1> USE DEF Inv, TypeOK, WalkInv, TrackInv, FlagInv, TeardownInv, ServePcs, ClosePcs,
        InCommand, Serving, Pcs, Deadlines, Goto, MuFree, ConnsUnchanged, serverVars
<1>1. CASE Accept(k) BY <1>1 DEF Accept
<1>2. CASE Spawn(k) BY <1>2 DEF Spawn
<1>3. CASE ServeConn(k) BY <1>3 DEF ServeConn
<1>4. CASE RegisterConn(k) BY <1>4 DEF RegisterConn
<1>5. CASE NewSession(k) BY <1>5 DEF NewSession
<1>6. CASE NewSessionRejects(k) BY <1>6 DEF NewSessionRejects
<1> QED BY <1>1, <1>2, <1>3, <1>4, <1>5, <1>6

\* forceReadUnblock keeps the invariant.
LEMMA KickKeepsInv ==
  ASSUME Inv, NEW k \in Conns,
         ForceReadUnblock(k)
  PROVE  Inv'
<1> USE DEF Inv, TypeOK, WalkInv, TrackInv, FlagInv, TeardownInv, ServePcs, ClosePcs,
        InCommand, Serving, Pcs, Deadlines, Goto, MuFree, CloserUnchanged
<1> QED BY DEF ForceReadUnblock

\* The command loop keeps the invariant: no step passes the context check after
\* the cancellation, none lifts a poison.
LEMMA LoopKeepsInv ==
  ASSUME Inv, NEW k \in Conns,
         \/ Greet(k) \/ CheckContext(k) \/ Arm(k)
         \/ ReadCommand(k) \/ ReadKicked(k) \/ ReadFails(k)
         \/ ReadOn(k) \/ MidReadDone(k) \/ CommandEnds(k)
  PROVE  Inv'
<1> USE DEF Inv, TypeOK, WalkInv, TrackInv, FlagInv, TeardownInv, ServePcs, ClosePcs,
        InCommand, Serving, Pcs, Deadlines, Goto, MuFree, ArmRead, SetDeadline, OnlyPc, serverVars
<1>1. CASE Greet(k) BY <1>1 DEF Greet
<1>2. CASE CheckContext(k) BY <1>2 DEF CheckContext
<1>3. CASE Arm(k) BY <1>3 DEF Arm
<1>4. CASE ReadCommand(k) BY <1>4 DEF ReadCommand
<1>5. CASE ReadKicked(k) BY <1>5 DEF ReadKicked
<1>6. CASE ReadFails(k) BY <1>6 DEF ReadFails
<1>7. CASE ReadOn(k) BY <1>7 DEF ReadOn
<1>8. CASE MidReadDone(k) BY <1>8 DEF MidReadDone
<1>9. CASE CommandEnds(k) BY <1>9 DEF CommandEnds
<1> QED BY <1>1, <1>2, <1>3, <1>4, <1>5, <1>6, <1>7, <1>8, <1>9

\* Hijack keeps the invariant: it marks the connection before it gives it up.
LEMMA HijackKeepsInv ==
  ASSUME Inv, NEW k \in Conns,
         \/ HijackBegins(k) \/ HijackMarks(k) \/ HijackReleases(k)
         \/ HijackReturns(k)
  PROVE  Inv'
<1> USE DEF Inv, TypeOK, WalkInv, TrackInv, FlagInv, TeardownInv, ServePcs, ClosePcs,
        InCommand, Serving, Pcs, Deadlines, Goto, MuFree, SetDeadline, OnlyPc, serverVars
<1>1. CASE HijackBegins(k) BY <1>1 DEF HijackBegins
<1>2. CASE HijackMarks(k) BY <1>2 DEF HijackMarks
<1>3. CASE HijackReleases(k) BY <1>3 DEF HijackReleases
<1>4. CASE HijackReturns(k) BY <1>4 DEF HijackReturns
<1> QED BY <1>1, <1>2, <1>3, <1>4

\* Panics and the deferred calls keep the invariant.
LEMMA TeardownKeepsInv ==
  ASSUME Inv, NEW k \in Conns,
         \/ CallbackPanics(k) \/ CloseConn(k) \/ UnregisterConn(k)
         \/ RecoverConn(k) \/ Finish(k)
  PROVE  Inv'
<1> USE DEF Inv, TypeOK, WalkInv, TrackInv, FlagInv, TeardownInv, ServePcs, ClosePcs,
        InCommand, Serving, Pcs, Deadlines, Goto, MuFree, Unwind, serverVars
<1>1. CASE CallbackPanics(k) BY <1>1 DEF CallbackPanics
<1>2. CASE CloseConn(k) BY <1>2 DEF CloseConn
<1>3. CASE UnregisterConn(k) BY <1>3 DEF UnregisterConn
<1>4. CASE RecoverConn(k) BY <1>4 DEF RecoverConn
<1>5. CASE Finish(k) BY <1>5 DEF Finish
<1> QED BY <1>1, <1>2, <1>3, <1>4, <1>5

\* Every step keeps the invariant.
LEMMA NextKeepsInv == Inv /\ [Next]_vars => Inv'
<1> SUFFICES ASSUME Inv, [Next]_vars PROVE Inv' OBVIOUS
<1>1. CASE UNCHANGED vars
      BY <1>1 DEF Inv, TypeOK, WalkInv, TrackInv, FlagInv, TeardownInv, vars,
                  serverVars, connVars
<1>2. CASE ServeCalled \/ ServeStep \/ AcceptTransient \/ OwnerClosesListener
      BY <1>2, ServeKeepsInv, StartKeepsInv
      DEF ServeStep, AcceptOnClosed, AcceptTransient
<1>3. CASE Cancel \/ CloseStep
      BY <1>3, CloserKeepsInv, KickKeepsInv DEF CloseStep
<1>4. ASSUME NEW k \in Conns, Runs(k) \/ Happens(k) PROVE Inv'
      BY <1>4, StartKeepsInv, LoopKeepsInv, HijackKeepsInv, TeardownKeepsInv
      DEF Runs, Happens
<1> QED BY <1>1, <1>2, <1>3, <1>4 DEF Next

\* The invariant holds throughout, for any number of connections.
THEOREM Invariance == Spec => []Inv
<1>1. Init => Inv
  <2> SUFFICES ASSUME Init PROVE Inv OBVIOUS
  <2>1. TypeOK BY DEF Init, TypeOK, ServePcs, ClosePcs, Pcs, Deadlines
  <2>2. WalkInv BY DEF Init, WalkInv
  <2>3. TrackInv BY DEF Init, TrackInv, Serving, InCommand
  <2>4. FlagInv BY DEF Init, FlagInv
  <2>5. TeardownInv BY DEF Init, TeardownInv, InCommand
  <2> QED BY <2>1, <2>2, <2>3, <2>4, <2>5 DEF Inv
<1>2. Inv /\ [Next]_vars => Inv' BY NextKeepsInv
<1> QED BY <1>1, <1>2, PTL DEF Spec

\* The variables of the server and of its connections keep their types, and no
\* connection leaves s.conns while Close ranges over it.
THEOREM TypeCorrect == Spec => []TypeOK
<1>1. Inv => TypeOK BY DEF Inv
<1> QED BY <1>1, Invariance, PTL

\* Close misses no connection: once it waits, whoever is past the context check
\* is poisoned or hijacked, however many connections there are and wherever they
\* were when Close was called.
THEOREM WalkMissesNone == Spec => []NoMissedKick
<1>1. Inv => NoMissedKick
      BY DEF Inv, TypeOK, WalkInv, FlagInv, NoMissedKick, InCommand
<1> QED BY <1>1, Invariance, PTL

\* handleConn and its deferred calls release everything exactly once, whichever
\* way a connection ends.
THEOREM TeardownComplete == Spec => []TornDown
<1>1. Inv => TornDown
  <2> SUFFICES ASSUME Inv, NEW k \in Conns
               PROVE  /\ closes[k] <= 1
                      /\ pc[k] = "gone" =>
                            /\ closes[k] = IF k \in created THEN 1 ELSE 0
                            /\ k \in sockClosed \/ k \in hijacked
                            /\ k \notin conns \cup wg
      BY DEF TornDown
  <2>1. pc[k] \in Pcs BY DEF Inv, TypeOK
  <2>2. closes[k] \in {0, 1} BY <2>1 DEF Inv, TeardownInv, Pcs, Serving, InCommand
  <2>3. closes[k] <= 1 BY <2>2
  <2>4. ASSUME pc[k] = "gone"
        PROVE  /\ closes[k] = IF k \in created THEN 1 ELSE 0
               /\ k \in sockClosed \/ k \in hijacked
               /\ k \notin conns \cup wg
        BY <2>4 DEF Inv, TrackInv, TeardownInv
  <2> QED BY <2>3, <2>4
<1> QED BY <1>1, Invariance, PTL

\* Neither Close nor the command loop touches a connection that Hijack has
\* released, unless a callback of that connection panics.
THEOREM HijackRespected == Spec => HijackedUntouched
<1> DEFINE Untouched == \A k \in hijacked : pc[k] # "release" =>
                           /\ rdl'[k] = rdl[k]
                           /\ k \in sockClosed' \ sockClosed => k \in panicking
<1>1. Inv /\ [Next]_vars => [Untouched]_vars
  <2> SUFFICES ASSUME Inv, Next, NEW h \in hijacked, pc[h] # "release"
               PROVE  /\ rdl'[h] = rdl[h]
                      /\ h \in sockClosed' \ sockClosed => h \in panicking
      OBVIOUS
  <2>1. /\ h \in Conns /\ h \notin conns /\ h \notin toKick
        /\ pc[h] \in {"relay", "close", "unregister", "recover", "finish", "gone"}
        /\ pc[h] = "recover" => h \in panicking
        BY DEF Inv, TypeOK, FlagInv, WalkInv, TeardownInv
  <2>2. CASE ServeCalled \/ ServeStep \/ AcceptTransient \/ OwnerClosesListener
        BY <2>2 DEF ServeCalled, ServeStep, SetListener, AcceptOnClosed, AcceptError,
           AcceptTransient, Backoff, Spawn, OwnerClosesListener, ConnsUnchanged
  <2>3. CASE Cancel \/ CloseStep
        BY <2>1, <2>3 DEF Inv, TypeOK, Cancel, CloseStep, CloseListener, BeginWalk, EndWalk,
           CloseReturn, ForceReadUnblock, CloserUnchanged
  <2>4. ASSUME NEW k \in Conns, Runs(k)
        PROVE  /\ rdl'[h] = rdl[h]
               /\ h \in sockClosed' \ sockClosed => h \in panicking
        BY <2>1, <2>4 DEF Inv, TypeOK, Runs, RegisterConn, NewSession, NewSessionRejects,
           Greet, CheckContext, Arm, ArmRead, SetDeadline, ReadKicked, CommandEnds,
           HijackMarks, HijackReleases, HijackReturns, CloseConn, UnregisterConn,
           RecoverConn, Finish, OnlyPc
  <2>5. ASSUME NEW k \in Conns, Happens(k)
        PROVE  /\ rdl'[h] = rdl[h]
               /\ h \in sockClosed' \ sockClosed => h \in panicking
        BY <2>1, <2>5 DEF Inv, TypeOK, Happens, Accept, ServeConn, ReadCommand, ReadFails,
           ReadOn, ArmRead, SetDeadline, MidReadDone, HijackBegins, CallbackPanics,
           ConnsUnchanged, OnlyPc
  <2> QED BY <2>2, <2>3, <2>4, <2>5 DEF Next
<1>2. QED BY <1>1, Invariance, PTL DEF Spec, HijackedUntouched
===============================================================================
