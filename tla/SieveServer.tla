----------------------------- MODULE SieveServer -----------------------------
(***************************************************************************)
(* The life of a go-managesieve Server and of its connections: Serve,      *)
(* ServeConn, handleConn, recoverConn and Close (src/managesieveserver/    *)
(* server.go), Conn.Hijack and the points of Conn.serve at which a         *)
(* connection meets a shutdown (conn.go).  What a command does is left to  *)
(* SieveConn: here it finishes, quits, reads on, hijacks or panics.        *)
(***************************************************************************)
EXTENDS Naturals

CONSTANTS
    Conns,         \* the connections that clients may open
    Direct,        \* those the application hands to ServeConn itself
    IdleTimeout,   \* an idle timeout is enabled
    MayPanic,      \* callbacks may panic
    OwnerCloses    \* the listener may be closed by its owner, not by Close

ASSUME ConnsAssumption ==
    /\ Direct \subseteq Conns
    /\ {IdleTimeout, MayPanic, OwnerCloses} \subseteq BOOLEAN

VARIABLES
    serve,      \* where the goroutine that calls Serve is
    lnOpen,     \* the listener is open
    closer,     \* where the goroutine that calls Close is
    shutdown,   \* s.ctx is cancelled
    toKick,     \* connections the walk of Close has still to visit
    wg,         \* connections counted by s.wg
    conns,      \* s.conns
    pc,         \* where each connection's goroutine is
    rdl,        \* the read deadline of each socket
    poisoned, authenticated, hijacked, \* flags of Conn: the set where set
    panicking,  \* connections whose goroutine is unwinding a panic
    created,    \* connections whose NewSession returned a session
    closes,     \* how often Session.Close was called
    sockClosed  \* connections whose socket the library has closed

serverVars == <<serve, lnOpen, closer, shutdown, toKick, wg, conns>>
connVars   == <<pc, rdl, poisoned, authenticated, hijacked, panicking, created,
                closes, sockClosed>>
vars       == <<serverVars, connVars>>

ServePcs  == {"idle", "called", "accept", "got", "backoff", "returned"}
ClosePcs  == {"idle", "cancelled", "unlistened", "walk", "wait", "returned"}
\* Past the context check at the top of the loop, and not yet leaving it.
InCommand == {"arm", "read", "exec", "midread", "hijack", "release", "relay"}
Serving   == InCommand \cup {"newsession", "greet", "top", "close", "unregister"}
Pcs       == Serving \cup {"new", "got", "start", "recover", "finish", "gone"}
Deadlines == {"none", "armed", "kicked"}

Init ==
    /\ serve = "idle" /\ lnOpen = TRUE /\ closer = "idle" /\ shutdown = FALSE
    /\ toKick = {} /\ wg = {} /\ conns = {}
    /\ pc = [k \in Conns |-> "new"] /\ rdl = [k \in Conns |-> "none"]
    /\ poisoned = {} /\ authenticated = {} /\ hijacked = {} /\ panicking = {}
    /\ created = {} /\ closes = [k \in Conns |-> 0] /\ sockClosed = {}

\* s.mu is held by Close during its walk.
MuFree == closer # "walk"

Goto(k, l) == pc' = [pc EXCEPT ![k] = l]

-----------------------------------------------------------------------------
(***************************************************************************)
(* Serve.                                                                  *)
(***************************************************************************)
ConnsUnchanged == UNCHANGED <<closer, shutdown, toKick, conns, rdl, poisoned,
                              authenticated, hijacked, panicking, created,
                              closes, sockClosed>>

ServeCalled == /\ serve = "idle" /\ serve' = "called"
               /\ UNCHANGED <<lnOpen, wg, pc>> /\ ConnsUnchanged

\* "s.listener = ln", not ordered with Close, which reads it.
SetListener == /\ serve = "called" /\ serve' = "accept"
               /\ UNCHANGED <<lnOpen, wg, pc>> /\ ConnsUnchanged

Accept(k) ==
    /\ serve = "accept" /\ lnOpen
    /\ k \notin Direct /\ pc[k] = "new"
    /\ serve' = "got" /\ Goto(k, "got")
    /\ UNCHANGED <<lnOpen, wg>> /\ ConnsUnchanged

\* "s.wg.Add(1); go func() ...".
Spawn(k) ==
    /\ serve = "got" /\ pc[k] = "got"
    /\ serve' = "accept" /\ wg' = wg \cup {k} /\ Goto(k, "start")
    /\ UNCHANGED lnOpen /\ ConnsUnchanged

\* Mutant: the context is not consulted.
AcceptErrorRetried ==
    /\ serve = "accept" /\ serve' = "accept"
    /\ UNCHANGED <<lnOpen, wg, pc>> /\ ConnsUnchanged

AcceptError ==
    /\ serve = "accept"
    /\ serve' = IF shutdown THEN "returned" ELSE "backoff"
    /\ UNCHANGED <<lnOpen, wg, pc>> /\ ConnsUnchanged

\* Accept fails because the listener is closed, or for a transient reason.
AcceptOnClosed  == ~lnOpen /\ AcceptError
AcceptTransient == lnOpen /\ AcceptError

\* The select on the backoff timer and the context.
Backoff ==
    /\ serve = "backoff"
    /\ serve' \in {"accept"} \cup (IF shutdown THEN {"returned"} ELSE {})
    /\ UNCHANGED <<lnOpen, wg, pc>> /\ ConnsUnchanged

OwnerClosesListener ==
    /\ OwnerCloses /\ lnOpen /\ lnOpen' = FALSE
    /\ UNCHANGED <<serve, wg, pc>> /\ ConnsUnchanged

\* ServeConn: handleConn in the caller's goroutine, not counted by s.wg.
ServeConn(k) ==
    /\ k \in Direct /\ pc[k] = "new" /\ Goto(k, "start")
    /\ UNCHANGED <<serve, lnOpen, wg>> /\ ConnsUnchanged

-----------------------------------------------------------------------------
(***************************************************************************)
(* Close.                                                                  *)
(***************************************************************************)
CloserUnchanged == UNCHANGED <<serve, wg, conns, pc, authenticated, hijacked,
                               panicking, created, closes, sockClosed>>

Cancel == /\ closer = "idle" /\ closer' = "cancelled" /\ shutdown' = TRUE
          /\ UNCHANGED <<lnOpen, toKick, rdl, poisoned>> /\ CloserUnchanged

\* "s.listener.Close()", if Serve has set it.
CloseListener ==
    /\ closer = "cancelled" /\ closer' = "unlistened"
    /\ lnOpen' = (lnOpen /\ serve \in {"idle", "called"})
    /\ UNCHANGED <<shutdown, toKick, rdl, poisoned>> /\ CloserUnchanged

\* Lock s.mu and range over s.conns.
BeginWalk ==
    /\ closer = "unlistened" /\ closer' = "walk" /\ toKick' = conns
    /\ UNCHANGED <<lnOpen, shutdown, rdl, poisoned>> /\ CloserUnchanged

\* Mutant: the deadline is expired, but not for good.
ForceReadUnblockOnce(k) ==
    /\ closer = "walk" /\ k \in toKick /\ toKick' = toKick \ {k}
    /\ rdl' = [rdl EXCEPT ![k] = "kicked"]
    /\ UNCHANGED <<lnOpen, closer, shutdown, poisoned>> /\ CloserUnchanged

ForceReadUnblock(k) ==
    /\ closer = "walk" /\ k \in toKick /\ toKick' = toKick \ {k}
    /\ poisoned' = poisoned \cup {k} /\ rdl' = [rdl EXCEPT ![k] = "kicked"]
    /\ UNCHANGED <<lnOpen, closer, shutdown>> /\ CloserUnchanged

EndWalk ==
    /\ closer = "walk" /\ toKick = {} /\ closer' = "wait"
    /\ UNCHANGED <<lnOpen, shutdown, toKick, rdl, poisoned>> /\ CloserUnchanged

\* s.wg.Wait returns.
CloseReturn ==
    /\ closer = "wait" /\ wg = {} /\ closer' = "returned"
    /\ UNCHANGED <<lnOpen, shutdown, toKick, rdl, poisoned>> /\ CloserUnchanged

-----------------------------------------------------------------------------
(***************************************************************************)
(* handleConn up to the command loop.                                      *)
(***************************************************************************)
\* Most steps of a connection touch its program counter only.
OnlyPc == UNCHANGED <<serverVars, rdl, poisoned, authenticated, hijacked,
                      panicking, created, closes, sockClosed>>

RegisterConn(k) ==
    /\ pc[k] = "start" /\ MuFree
    /\ conns' = conns \cup {k} /\ Goto(k, "newsession")
    /\ UNCHANGED <<serve, lnOpen, closer, shutdown, toKick, wg, rdl, poisoned,
                   authenticated, hijacked, panicking, created, closes, sockClosed>>

NewSession(k) ==
    /\ pc[k] = "newsession"
    /\ created' = created \cup {k} /\ Goto(k, "greet")
    /\ UNCHANGED <<serverVars, rdl, poisoned, authenticated, hijacked, panicking,
                   closes, sockClosed>>

\* A NO or a silent reject: the socket is closed here, there is no session.
NewSessionRejects(k) ==
    /\ pc[k] = "newsession"
    /\ sockClosed' = sockClosed \cup {k} /\ Goto(k, "unregister")
    /\ UNCHANGED <<serverVars, rdl, poisoned, authenticated, hijacked, panicking,
                   created, closes>>

\* Mutant: the panic skips the deferred close of serve.
UnwindSkipsClose(k) == "unregister"

\* Where a panic first runs deferred code: Conn.close once serve has begun.
Unwind(k) == IF k \in created THEN "close" ELSE "unregister"

\* A panic in NewSession or in a session callback.
CallbackPanics(k) ==
    /\ MayPanic /\ pc[k] \in {"newsession", "exec", "relay"}
    /\ panicking' = panicking \cup {k} /\ Goto(k, Unwind(k))
    /\ UNCHANGED <<serverVars, rdl, poisoned, authenticated, hijacked, created,
                   closes, sockClosed>>

-----------------------------------------------------------------------------
(***************************************************************************)
(* Conn.serve.                                                             *)
(***************************************************************************)
\* The greeting reaches the client, or its write fails.
Greet(k) == pc[k] = "greet" /\ (Goto(k, "top") \/ Goto(k, "close")) /\ OnlyPc

\* Mutant: the loop does not look at the context.
CheckContextSkipped(k) == pc[k] = "top" /\ Goto(k, "arm") /\ OnlyPc

CheckContext(k) ==
    pc[k] = "top" /\ Goto(k, IF shutdown THEN "close" ELSE "arm") /\ OnlyPc

\* setReadDeadline / setDeadline under deadlineMu.
SetDeadline(k, d) == rdl' = IF k \in poisoned THEN rdl ELSE [rdl EXCEPT ![k] = d]

\* nextReadDeadline is zero without timeouts, and then nothing is armed.
ArmRead(k, l) ==
    /\ IF IdleTimeout THEN SetDeadline(k, "armed") ELSE UNCHANGED rdl
    /\ Goto(k, l)
    /\ UNCHANGED <<serverVars, poisoned, authenticated, hijacked, panicking,
                   created, closes, sockClosed>>

Arm(k) == pc[k] = "arm" /\ ArmRead(k, "read")

\* A complete command line: run it without a deadline.
ReadCommand(k) ==
    /\ pc[k] = "read" /\ SetDeadline(k, "none") /\ Goto(k, "exec")
    /\ UNCHANGED <<serverVars, poisoned, authenticated, hijacked, panicking,
                   created, closes, sockClosed>>

\* A read fails on an expired deadline ...
ReadKicked(k) ==
    pc[k] \in {"read", "midread"} /\ rdl[k] = "kicked" /\ Goto(k, "close") /\ OnlyPc

\* ... at EOF, on a timer or on bad framing.
ReadFails(k) == pc[k] \in {"read", "midread"} /\ Goto(k, "close") /\ OnlyPc

\* The command needs a literal, a SASL response or a TLS handshake.
ReadOn(k) == pc[k] = "exec" /\ ArmRead(k, "midread")

MidReadDone(k) ==
    /\ pc[k] = "midread" /\ SetDeadline(k, "none") /\ Goto(k, "exec")
    /\ UNCHANGED <<serverVars, poisoned, authenticated, hijacked, panicking,
                   created, closes, sockClosed>>

\* The response is flushed; the loop goes on, or quits (LOGOUT, closePending,
\* MaxErrors, a failed write).
CommandEnds(k) ==
    /\ pc[k] = "exec" /\ (Goto(k, "top") \/ Goto(k, "close"))
    /\ authenticated' \in {authenticated, authenticated \cup {k}}
    /\ UNCHANGED <<serverVars, rdl, poisoned, hijacked, panicking, created,
                   closes, sockClosed>>

-----------------------------------------------------------------------------
(***************************************************************************)
(* Conn.Hijack, called by a login method.                                  *)
(***************************************************************************)
HijackBegins(k) ==
    /\ pc[k] = "exec" /\ k \notin authenticated
    /\ SetDeadline(k, "none") /\ Goto(k, "hijack")
    /\ UNCHANGED <<serverVars, poisoned, authenticated, hijacked, panicking,
                   created, closes, sockClosed>>

HijackMarks(k) ==
    /\ pc[k] = "hijack" /\ hijacked' = hijacked \cup {k} /\ Goto(k, "release")
    /\ UNCHANGED <<serverVars, rdl, poisoned, authenticated, panicking, created,
                   closes, sockClosed>>

\* Mutant: the connection stays in the server's set.
HijackReleasesNothing(k) ==
    /\ pc[k] = "release" /\ MuFree /\ Goto(k, "relay") /\ OnlyPc

\* Mutant: the set is changed without s.mu.
HijackReleasesUnlocked(k) ==
    /\ pc[k] = "release"
    /\ conns' = conns \ {k} /\ Goto(k, "relay")
    /\ UNCHANGED <<serve, lnOpen, closer, shutdown, toKick, wg, rdl, poisoned,
                   authenticated, hijacked, panicking, created, closes, sockClosed>>

\* unregisterConn, and the caller owns the socket.
HijackReleases(k) ==
    /\ pc[k] = "release" /\ MuFree
    /\ conns' = conns \ {k} /\ Goto(k, "relay")
    /\ UNCHANGED <<serve, lnOpen, closer, shutdown, toKick, wg, rdl, poisoned,
                   authenticated, hijacked, panicking, created, closes, sockClosed>>

\* The login method returns and the loop exits.
HijackReturns(k) == pc[k] = "relay" /\ Goto(k, "close") /\ OnlyPc

-----------------------------------------------------------------------------
(***************************************************************************)
(* The deferred calls, in their order.                                     *)
(***************************************************************************)
\* Conn.close; Session.Close may itself panic.
CloseConn(k) ==
    /\ pc[k] = "close"
    /\ closes' = [closes EXCEPT ![k] = @ + 1] /\ Goto(k, "unregister")
    /\ \/ /\ sockClosed' = IF k \in hijacked THEN sockClosed ELSE sockClosed \cup {k}
          /\ UNCHANGED panicking
       \/ /\ MayPanic /\ panicking' = panicking \cup {k}
          /\ UNCHANGED sockClosed
    /\ UNCHANGED <<serverVars, rdl, poisoned, authenticated, hijacked, created>>

UnregisterConn(k) ==
    /\ pc[k] = "unregister" /\ MuFree
    /\ conns' = conns \ {k}
    /\ Goto(k, IF k \in panicking THEN "recover" ELSE "finish")
    /\ UNCHANGED <<serve, lnOpen, closer, shutdown, toKick, wg, rdl, poisoned,
                   authenticated, hijacked, panicking, created, closes, sockClosed>>

RecoverConn(k) ==
    /\ pc[k] = "recover"
    /\ sockClosed' = sockClosed \cup {k} /\ Goto(k, "finish")
    /\ UNCHANGED <<serverVars, rdl, poisoned, authenticated, hijacked, panicking,
                   created, closes>>

\* s.wg.Done, for the goroutines that Serve started.
Finish(k) ==
    /\ pc[k] = "finish" /\ wg' = wg \ {k} /\ Goto(k, "gone")
    /\ UNCHANGED <<serve, lnOpen, closer, shutdown, toKick, conns, rdl, poisoned,
                   authenticated, hijacked, panicking, created, closes, sockClosed>>

-----------------------------------------------------------------------------
ServeStep == \/ SetListener \/ AcceptOnClosed \/ Backoff
             \/ \E k \in Conns : Spawn(k)

CloseStep == \/ CloseListener \/ BeginWalk \/ EndWalk \/ CloseReturn
             \/ \E k \in Conns : ForceReadUnblock(k)

\* What a connection's goroutine does without waiting for its client.
Runs(k) == \/ RegisterConn(k) \/ NewSession(k) \/ NewSessionRejects(k)
           \/ Greet(k) \/ CheckContext(k) \/ Arm(k) \/ ReadKicked(k)
           \/ CommandEnds(k) \/ HijackMarks(k) \/ HijackReleases(k)
           \/ HijackReturns(k) \/ CloseConn(k) \/ UnregisterConn(k)
           \/ RecoverConn(k) \/ Finish(k)

\* What depends on the client or on the callbacks' choice.
Happens(k) == \/ Accept(k) \/ ServeConn(k) \/ ReadCommand(k) \/ ReadFails(k)
              \/ ReadOn(k) \/ MidReadDone(k) \/ HijackBegins(k) \/ CallbackPanics(k)

Next == \/ ServeCalled \/ ServeStep \/ AcceptTransient \/ OwnerClosesListener
        \/ Cancel \/ CloseStep
        \/ \E k \in Conns : Runs(k) \/ Happens(k)

Spec == Init /\ [][Next]_vars

\* Goroutines run, callbacks return, a Close that began goes on.  Nothing is
\* assumed of the clients: none need come, and a read that is not kicked may
\* last for ever.
Fairness == /\ WF_vars(ServeStep) /\ WF_vars(CloseStep)
            /\ \A k \in Conns : WF_vars(Runs(k))

FairSpec == Spec /\ Fairness

-----------------------------------------------------------------------------
(***************************************************************************)
(* Properties.                                                             *)
(***************************************************************************)
\* Every variable has its type, and the connections that the walk of Close has
\* still to visit are in s.conns: no goroutine takes one out of the map, which
\* s.mu guards, while Close ranges over it.
TypeOK ==
    /\ serve \in ServePcs /\ closer \in ClosePcs
    /\ lnOpen \in BOOLEAN /\ shutdown \in BOOLEAN
    /\ pc \in [Conns -> Pcs] /\ rdl \in [Conns -> Deadlines]
    /\ closes \in [Conns -> Nat]
    /\ toKick \subseteq conns
    /\ wg \cup conns \cup poisoned \cup authenticated \cup hijacked
          \cup panicking \cup created \cup sockClosed \subseteq Conns

\* "A connection accepted concurrently with this walk is not missed": once
\* Close waits, every connection past its context check has been poisoned or
\* belongs to a hijacker, so none can block Close in a read.
NoMissedKick ==
    closer \in {"wait", "returned"} =>
       \A k \in Conns : pc[k] \in InCommand =>
          \/ k \in hijacked
          \/ k \in poisoned /\ rdl[k] = "kicked"

\* However a connection ends (quit, kick, reject, hijack, a panic in any
\* callback), Session.Close has run exactly once if there was a session, its
\* socket is closed unless a hijacker owns it, and the server has let go of it.
TornDown ==
    \A k \in Conns :
       /\ closes[k] <= 1
       /\ pc[k] = "gone" =>
             /\ closes[k] = IF k \in created THEN 1 ELSE 0
             /\ k \in sockClosed \/ k \in hijacked
             /\ k \notin conns \cup wg

\* Once Hijack has released a connection, neither Close nor the loop touches
\* its deadline, and only a panic of its own callbacks closes its socket.
HijackedUntouched ==
    [][\A k \in hijacked : pc[k] # "release" =>
          /\ rdl'[k] = rdl[k]
          /\ k \in sockClosed' \ sockClosed => k \in panicking]_vars

\* After a shutdown every connection comes to its end, also those that Close
\* does not wait for.
ShutdownDrains ==
    \A k \in Conns : (shutdown /\ pc[k] # "new") ~> pc[k] = "gone"

\* Close returns, with silent clients and whatever the connections were doing
\* when it was called, and Serve returns once Close has closed its listener.
ShutdownReturns ==
    /\ closer # "idle" ~> closer = "returned"
    /\ (shutdown /\ ~lnOpen /\ serve \in {"accept", "got", "backoff"})
          ~> serve = "returned"

(***************************************************************************)
(* Claims of the repository that the code does not keep.                   *)
(***************************************************************************)
\* Close "waits for them to finish": when it has closed the listener and
\* returned, no connection of Serve is being handled.  (With the listener still
\* open Close has overtaken Serve, which ServeEndsWithServer is about.)
CloseDrains ==
    (closer = "returned" /\ ~lnOpen) =>
       \A k \in Conns \ Direct : pc[k] \in {"new", "got", "gone"}

\* Serve "blocks until [...] the server is shut down via Close".
ServeEndsWithServer == (shutdown /\ serve # "idle") ~> serve = "returned"
=============================================================================
