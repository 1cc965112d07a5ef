----------------------------- MODULE SieveClient -----------------------------
(***************************************************************************)
(* The proxy client (src/managesieveclient/client.go): NewClient, its      *)
(* STARTTLS upgrade and the operations that follow one another on it, each *)
(* with a context of its own, the goroutine that guard starts for each     *)
(* operation, and the deadlines of the socket that all of them share.      *)
(*                                                                         *)
(* Operations are numbered; 1 is NewClient.  A deadline on the socket is   *)
(* the number of the operation whose context has set it.  A line of the    *)
(* server is two tokens, its head and its tail, so that a read can be cut  *)
(* in the middle of it.                                                    *)
(***************************************************************************)
EXTENDS Naturals, Sequences, FiniteSets

CONSTANTS
    MaxOps,       \* bound: operations, NewClient included
    MaxCaps,      \* Options.MaxCapabilityLines
    Modes,        \* what Options.TLSConfig and Options.STARTTLS ask for
    Calls         \* bound: the calls of the callers, <<mode, op, kind, context>>

ASSUME ClientAssumption ==
    /\ MaxOps \in Nat \ {0} /\ MaxCaps \in Nat \ {0}
    /\ Modes \subseteq {"plain", "implicit", "starttls"}

VARIABLES
    pc,        \* where the caller's goroutine is
    mode,      \* how this client uses TLS
    op, kind,  \* the number and the kind of the current operation
    stage,     \* what the line being read is for
    ctx,       \* the context of each operation
    over,      \* operations whose context is done: cancelled ...
    expired,   \* ... or its deadline has passed
    guards,    \* operations whose guard's goroutine runs
    stopped,   \* operations whose done channel is closed
    poisoned, rdl, wdl, tls, caps,
    block,     \* the lines of the capability block being read
    buf,       \* tokens in the bufio.Reader
    net,       \* tokens in the socket
    eof,       \* the server has closed
    inbox,     \* commands the server has not answered yet
    ncmd,      \* commands written
    result,    \* what the last operation returned
    werr,      \* the error that the bufio.Writer keeps, and whose it was
    disturbed, \* history: a read or a write has failed or was cut short
    leftover,  \* history: an answer beyond the limits was given up, its rest unread
    revived,   \* history: the caller has cleared the deadlines of a poisoned client
    inFlight   \* history: operations whose context was done before they were

ctxVars  == <<ctx, over, expired, inFlight>>
lockVars == <<guards, stopped, poisoned, revived>>
netVars  == <<buf, net, eof, inbox, ncmd>>
opVars   == <<mode, op, kind, stage, block, result, caps, tls, werr, disturbed, leftover>>
vars     == <<pc, opVars, ctxVars, lockVars, rdl, wdl, netVars>>

None == 0            \* no deadline
Past == MaxOps + 1   \* the deadline that guard has forced into the past
Ops  == 1 .. MaxOps

\* The contexts that callers pass: without Done; with Done only; with a
\* deadline (and Done).
Contexts == {"background", "cancel", "deadline"}
Kinds  == {"NEWCLIENT", "CAPABILITY", "AUTHENTICATE", "CMD"}
Stages == {"caps", "tlsok", "status"}
Pcs    == {"new", "implicit", "idle", "armw", "write", "armr", "read", "tlsdl",
           "handshake", "stop", "closed"}
\* A capability, the statuses, a fragment of a line, a line beyond maxLine.
Says   == {"cap", "OK", "NO", "BYE", "junk", "long"}

Line  == [cmd : Nat, says : Says, tls : BOOLEAN, of : Nat, cut : BOOLEAN]
Token == [line : Line, part : {"head", "tail"}]
NoErr  == [op |-> 0, how |-> "none"]
NoLine == [cmd |-> 0, says |-> "junk", tls |-> FALSE, of |-> 0, cut |-> FALSE]

Init ==
    /\ pc = "new" /\ mode \in Modes /\ op = 0 /\ kind = "NEWCLIENT" /\ stage = "caps"
    /\ ctx = [i \in Ops |-> "background"] /\ over = {} /\ expired = {}
    /\ guards = {} /\ stopped = {} /\ poisoned = FALSE
    /\ rdl = None /\ wdl = None /\ tls = FALSE /\ caps = <<>> /\ block = <<>>
    /\ buf = <<>> /\ net = <<>> /\ eof = FALSE /\ inbox = <<>> /\ ncmd = 0
    /\ result = [op |-> 0, how |-> "none", line |-> NoLine]
    /\ werr = NoErr /\ disturbed = FALSE /\ leftover = FALSE /\ revived = FALSE
    /\ inFlight = {}

HasDeadline == ctx[op] = "deadline"
Passed(d)   == d = Past \/ d \in expired

-----------------------------------------------------------------------------
(***************************************************************************)
(* The beginning and the end of an operation.                              *)
(***************************************************************************)
\* guard: a context without Done needs no goroutine.
Guarded(i, x) == IF x = "background" THEN guards ELSE guards \cup {i}

\* NewClient; with implicit TLS the handshake comes before the guard.  The
\* server greets.
NewClient(x) ==
    /\ pc = "new" /\ <<mode, 1, "NEWCLIENT", x>> \in Calls
    /\ op' = 1 /\ ctx' = [ctx EXCEPT ![1] = x]
    /\ inbox' = <<[cmd |-> 0, kind |-> "CAPABILITY"]>>
    /\ IF mode = "implicit"
       THEN /\ pc' = "implicit" /\ UNCHANGED guards
            /\ rdl' = (IF x = "deadline" THEN 1 ELSE None) /\ wdl' = rdl'
       ELSE pc' = "armr" /\ guards' = Guarded(1, x) /\ UNCHANGED <<rdl, wdl>>
    /\ UNCHANGED <<mode, kind, stage, block, result, caps, tls, werr, disturbed,
                   leftover, over, expired, inFlight, stopped, poisoned, revived, buf, net,
                   eof, ncmd>>

ImplicitSucceeds ==
    /\ pc = "implicit" /\ op \notin over /\ ~Passed(rdl) /\ ~eof
    /\ tls' = TRUE /\ pc' = "armr" /\ guards' = Guarded(op, ctx[op])
    /\ UNCHANGED <<mode, op, kind, stage, block, result, caps, werr, disturbed, leftover,
                   ctxVars, stopped, poisoned, revived, rdl, wdl, netVars>>

ImplicitFails ==
    /\ pc = "implicit" /\ pc' = "closed"
    /\ UNCHANGED <<opVars, ctxVars, lockVars, rdl, wdl, netVars>>

\* Capability, AuthenticatePlain and Cmd: guard, then writeCmd.
Begin(k, x) ==
    /\ pc = "idle" /\ op < MaxOps /\ k # "NEWCLIENT"
    /\ <<mode, op + 1, k, x>> \in Calls
    /\ op' = op + 1 /\ ctx' = [ctx EXCEPT ![op + 1] = x]
    /\ guards' = Guarded(op + 1, x)
    /\ kind' = k /\ stage' = (IF k = "CAPABILITY" THEN "caps" ELSE "status")
    /\ pc' = "armw" /\ block' = <<>>
    /\ UNCHANGED <<mode, result, caps, tls, werr, disturbed, leftover, over, expired,
                   inFlight, stopped, poisoned, revived, rdl, wdl, netVars>>

\* The operation is about to return h, and l where it returns a line.
Ends(h, l) == pc' = "stop" /\ result' = [op |-> op, how |-> h, line |-> l]

\* The deferred stop.  A NewClient that failed has closed the connection.
Stop ==
    /\ pc = "stop" /\ stopped' = stopped \cup {op}
    /\ pc' = IF kind = "NEWCLIENT" /\ result.how # "ok" THEN "closed" ELSE "idle"
    /\ UNCHANGED <<opVars, ctxVars, guards, poisoned, revived, rdl, wdl, netVars>>

\* Client.Close.
CloseClient ==
    /\ pc = "idle" /\ pc' = "closed"
    /\ UNCHANGED <<opVars, ctxVars, lockVars, rdl, wdl, netVars>>

\* Client.SetDeadline with the zero time.  It does not ask for poisoned either.
ClearDeadlines ==
    /\ pc = "idle" /\ rdl' = None /\ wdl' = None /\ revived' = poisoned
    /\ UNCHANGED <<pc, opVars, ctxVars, guards, stopped, poisoned, netVars>>

-----------------------------------------------------------------------------
(***************************************************************************)
(* Contexts and guards.                                                    *)
(***************************************************************************)
Done(i) ==
    /\ i \in 1 .. op \ over /\ over' = over \cup {i}
    /\ inFlight' = IF i \in stopped THEN inFlight ELSE inFlight \cup {i}
    /\ UNCHANGED <<pc, opVars, ctx, lockVars, rdl, wdl, netVars>>

\* The caller cancels the context, perhaps long after the operation.
Cancel(i) == ctx[i] # "background" /\ Done(i) /\ UNCHANGED expired

Expire(i) == ctx[i] = "deadline" /\ Done(i) /\ expired' = expired \cup {i}

\* A context cancelled earlier does not stop the socket's clock.
SocketExpires(i) ==
    /\ i \in {rdl, wdl} \cap over /\ i \notin expired
    /\ expired' = expired \cup {i}
    /\ UNCHANGED <<pc, opVars, ctx, over, inFlight, lockVars, rdl, wdl, netVars>>

\* Mutant: the goroutine does not look at done again under the mutex.
GuardFiresLate(i) ==
    /\ i \in guards \cap over /\ guards' = guards \ {i}
    /\ poisoned' = TRUE /\ revived' = FALSE /\ rdl' = Past /\ wdl' = Past
    /\ UNCHANGED <<pc, opVars, ctxVars, stopped, netVars>>

\* guard's goroutine sees ctx.Done: all of this under deadlineMu.
GuardFires(i) ==
    /\ i \in guards \cap over /\ guards' = guards \ {i}
    /\ IF i \in stopped THEN UNCHANGED <<poisoned, revived, rdl, wdl>>
       ELSE poisoned' = TRUE /\ revived' = FALSE /\ rdl' = Past /\ wdl' = Past
    /\ UNCHANGED <<pc, opVars, ctxVars, stopped, netVars>>

\* It sees done.
GuardExits(i) ==
    /\ i \in guards \cap stopped /\ guards' = guards \ {i}
    /\ UNCHANGED <<pc, opVars, ctxVars, stopped, poisoned, revived, rdl, wdl, netVars>>

-----------------------------------------------------------------------------
(***************************************************************************)
(* Writing a command and reading a line.                                   *)
(***************************************************************************)
\* Mutant: a poisoned deadline is armed again.
ArmAlways(d) == IF HasDeadline THEN op ELSE d

\* Mutant: a context without a deadline is armed like one that has it.
ArmBlindly(d) == IF ~poisoned THEN op ELSE d

\* Mutant: a deadline that is there already is left alone.
ArmOnce(d) == IF HasDeadline /\ ~poisoned /\ d = None THEN op ELSE d

\* armReadDeadline and armWriteDeadline, under deadlineMu.
Arm(d) == IF HasDeadline /\ ~poisoned THEN op ELSE d

ArmWrite ==
    /\ pc = "armw" /\ pc' = "write" /\ wdl' = Arm(wdl)
    /\ UNCHANGED <<opVars, ctxVars, lockVars, rdl, netVars>>

\* The command line is flushed; what it is follows from where we are.
WriteCmd ==
    /\ pc = "write" /\ werr.how = "none" /\ ~Passed(wdl)
    /\ ncmd' = ncmd + 1
    /\ inbox' = Append(inbox, [cmd |-> ncmd + 1,
                               kind |-> IF stage = "tlsok" THEN "STARTTLS" ELSE kind])
    /\ pc' = "armr"
    /\ UNCHANGED <<opVars, ctxVars, lockVars, rdl, wdl, buf, net, eof>>

\* The writer keeps its first error and returns it from then on; the clock is
\* looked at before the socket.
WriteFails ==
    /\ pc = "write" /\ (werr.how # "none" \/ Passed(wdl) \/ eof)
    /\ werr' = (IF werr.how # "none" THEN werr
                ELSE [op |-> op, how |-> IF Passed(wdl) THEN "timeout" ELSE "error"])
    /\ Ends(werr'.how, NoLine) /\ disturbed' = TRUE
    /\ UNCHANGED <<mode, op, kind, stage, block, caps, tls, leftover, ctxVars, lockVars,
                   rdl, wdl, netVars>>

ArmRead ==
    /\ pc = "armr" /\ pc' = "read" /\ rdl' = Arm(rdl)
    /\ UNCHANGED <<opVars, ctxVars, lockVars, wdl, netVars>>

\* A line that ReadLine can return without asking the socket.  (A fragment
\* that a cut has left behind reads as a line.)
HasLine == \/ buf # <<>> /\ (buf[1].part = "tail" \/ buf[1].line.says = "long")
           \/ Len(buf) > 1

\* Some of what the server has sent arrives.
Fill ==
    /\ pc = "read" /\ ~HasLine /\ ~Passed(rdl)
    /\ \E k \in 1 .. Len(net) : /\ buf' = buf \o SubSeq(net, 1, k)
                                /\ net' = SubSeq(net, k + 1, Len(net))
    /\ UNCHANGED <<pc, opVars, ctxVars, lockVars, rdl, wdl, eof, inbox, ncmd>>

-----------------------------------------------------------------------------
(***************************************************************************)
(* What an operation does with a line.                                     *)
(***************************************************************************)
\* Mutant: the block ends at its first line.
CapabilityLineFirst(l) ==
    /\ caps' = Append(block, l) /\ block' = <<>> /\ Ends("ok", l)
    /\ UNCHANGED stage

\* readCapabilityBlock: the map is replaced only by a whole block; NewClient
\* goes on to STARTTLS.
CapabilityLine(l) ==
    IF l.says = "OK"
    THEN /\ caps' = Append(block, l) /\ block' = <<>>
         /\ IF kind = "NEWCLIENT" /\ mode = "starttls" /\ ~tls
            THEN pc' = "armw" /\ stage' = "tlsok" /\ UNCHANGED result
            ELSE Ends("ok", l) /\ UNCHANGED stage
    ELSE IF l.says \in {"NO", "BYE"}
    THEN Ends("refused", l) /\ UNCHANGED <<caps, block, stage>>
    ELSE /\ block' = Append(block, l)
         /\ IF Len(block) + 1 >= MaxCaps THEN Ends("toolong", NoLine)
                                         ELSE pc' = "armr" /\ UNCHANGED result
         /\ UNCHANGED <<caps, stage>>

\* AuthenticatePlain (and Logout) want OK; Cmd returns any line.
StatusLine(l) ==
    /\ Ends(IF kind = "CMD" \/ l.says = "OK" THEN "ok" ELSE "refused", l)
    /\ UNCHANGED <<caps, block, stage>>

StartTLSLine(l) ==
    /\ IF l.says = "OK" THEN pc' = "tlsdl" /\ UNCHANGED result ELSE Ends("refused", l)
    /\ UNCHANGED <<caps, block, stage>>

UseLine(l) ==
    CASE stage = "caps"   -> CapabilityLine(l)
      [] stage = "tlsok"  -> StartTLSLine(l)
      [] stage = "status" -> StatusLine(l)

\* A block that is given up leaves its rest in the stream.
ReadLine ==
    /\ pc = "read" /\ HasLine /\ (buf[1].part = "head" => buf[1].line.says # "long")
    /\ IF buf[1].part = "tail"
       THEN buf' = Tail(buf) /\ UseLine([buf[1].line EXCEPT !.says = "junk"])
       ELSE buf' = SubSeq(buf, 3, Len(buf)) /\ UseLine(buf[1].line)
    /\ leftover' = (leftover \/ (pc' = "stop" /\ result'.how = "toolong"))
    /\ UNCHANGED <<mode, op, kind, tls, werr, disturbed, ctxVars, lockVars, rdl, wdl, net,
                   eof, inbox, ncmd>>

\* A line beyond maxLine is given up where the limit is passed: in its middle,
\* so that its rest stays in the stream, or in its last chunk.
ReadTooLong ==
    /\ pc = "read" /\ HasLine /\ buf[1].part = "head" /\ buf[1].line.says = "long"
    /\ \/ buf' = Tail(buf) /\ leftover' = TRUE
       \/ /\ Len(buf) > 1 /\ buf' = SubSeq(buf, 3, Len(buf))
          /\ leftover' = (leftover \/ stage = "caps")
    /\ Ends("toolong", NoLine)
    /\ UNCHANGED <<mode, op, kind, stage, block, caps, tls, werr, disturbed, ctxVars,
                   lockVars, rdl, wdl, net, eof, inbox, ncmd>>

\* The socket fails under a read that needs it.
SocketFails == pc = "read" /\ ~HasLine /\ (Passed(rdl) \/ (eof /\ net = <<>>))

ReadFails ==
    /\ SocketFails /\ buf = <<>> /\ disturbed' = TRUE
    /\ Ends(IF Passed(rdl) THEN "timeout" ELSE "error", NoLine)
    /\ UNCHANGED <<mode, op, kind, stage, block, caps, tls, werr, leftover, ctxVars,
                   lockVars, rdl, wdl, netVars>>

\* bufio.Reader.ReadLine returns what it has got of a line, and no error.
ReadCut ==
    /\ SocketFails /\ buf # <<>> /\ buf' = <<>> /\ disturbed' = TRUE
    /\ \E s \in {buf[1].line.says, "junk"} :
          UseLine([buf[1].line EXCEPT !.says = s, !.cut = TRUE])
    /\ UNCHANGED <<mode, op, kind, tls, werr, leftover, ctxVars, lockVars, rdl, wdl, net,
                   eof, inbox, ncmd>>

-----------------------------------------------------------------------------
(***************************************************************************)
(* startTLS behind the server's OK.                                        *)
(***************************************************************************)
\* tconn.SetDeadline, which does not ask for poisoned.
TLSDeadline ==
    /\ pc = "tlsdl" /\ pc' = "handshake"
    /\ IF HasDeadline THEN rdl' = op /\ wdl' = op ELSE UNCHANGED <<rdl, wdl>>
    /\ UNCHANGED <<opVars, ctxVars, lockVars, netVars>>

\* Mutant: the reader over the plain connection is kept.
HandshakeKeepsReader ==
    /\ pc = "handshake" /\ op \notin over /\ ~Passed(rdl) /\ ~eof /\ net = <<>>
    /\ tls' = TRUE /\ werr' = NoErr /\ stage' = "caps" /\ pc' = "armr"
    /\ inbox' = Append(inbox, [cmd |-> ncmd, kind |-> "CAPABILITY"])
    /\ UNCHANGED <<mode, op, kind, block, result, caps, disturbed, leftover, ctxVars,
                   lockVars, rdl, wdl, buf, net, eof, ncmd>>

\* HandshakeContext succeeds only while its context is not done, and not over
\* plaintext that is still in the socket.  The server lists its capabilities.
HandshakeSucceeds ==
    /\ pc = "handshake" /\ op \notin over /\ ~Passed(rdl) /\ ~eof /\ net = <<>>
    /\ tls' = TRUE /\ buf' = <<>> /\ werr' = NoErr /\ stage' = "caps" /\ pc' = "armr"
    /\ inbox' = Append(inbox, [cmd |-> ncmd, kind |-> "CAPABILITY"])
    /\ UNCHANGED <<mode, op, kind, block, result, caps, disturbed, leftover, ctxVars,
                   lockVars, rdl, wdl, net, eof, ncmd>>

HandshakeFails ==
    /\ pc = "handshake" /\ Ends("error", NoLine) /\ disturbed' = TRUE
    /\ UNCHANGED <<mode, op, kind, stage, block, caps, tls, werr, leftover, ctxVars,
                   lockVars, rdl, wdl, netVars>>

-----------------------------------------------------------------------------
(***************************************************************************)
(* The server (external): answers in order, and may close at any point.    *)
(***************************************************************************)
Sends(k, s, n) == LET l == [cmd |-> k, says |-> s, tls |-> tls, of |-> n, cut |-> FALSE]
                  IN  <<[line |-> l, part |-> "head"], [line |-> l, part |-> "tail"]>>

Answers(c) ==
    CASE c.kind = "CAPABILITY" ->
            {Sends(c.cmd, "NO", 0),
             Sends(c.cmd, "cap", 0) \o Sends(c.cmd, "OK", 1),
             Sends(c.cmd, "cap", 0) \o Sends(c.cmd, "cap", 0) \o Sends(c.cmd, "OK", 2)}
      \* The OK may come with more plaintext behind it.
      [] c.kind = "STARTTLS" ->
            {Sends(c.cmd, "NO", 0), Sends(c.cmd, "OK", 0),
             Sends(c.cmd, "OK", 0) \o Sends(c.cmd, "OK", 0)}
      [] OTHER -> {Sends(c.cmd, s, 0) : s \in {"OK", "NO", "long"}}

ServerAnswers ==
    /\ inbox # <<>> /\ ~eof /\ pc # "implicit"
    /\ \E r \in Answers(Head(inbox)) : net' = net \o r
    /\ inbox' = Tail(inbox)
    /\ UNCHANGED <<pc, opVars, ctxVars, lockVars, rdl, wdl, buf, eof, ncmd>>

\* It says BYE or dies, and then some of what it sent may be lost.
ServerCloses ==
    /\ op > 0 /\ ~eof /\ eof' = TRUE
    /\ \/ net' = net \o Sends(ncmd, "BYE", 0)
       \/ \E k \in 0 .. Len(net) : net' = SubSeq(net, 1, k)
    /\ UNCHANGED <<pc, opVars, ctxVars, lockVars, rdl, wdl, buf, inbox, ncmd>>

-----------------------------------------------------------------------------
\* What the client does by itself, without waiting for its server.
ClientStep == \/ Stop \/ ArmWrite \/ WriteFails \/ ArmRead \/ ReadLine \/ ReadTooLong
              \/ ReadFails \/ ReadCut \/ TLSDeadline
              \/ (op \in over \/ Passed(rdl)) /\ (HandshakeFails \/ ImplicitFails)

GuardStep(i) == GuardFires(i) \/ GuardExits(i)

Next == \/ ClientStep
        \/ \E x \in Contexts : NewClient(x) \/ \E k \in Kinds : Begin(k, x)
        \/ ImplicitSucceeds \/ ImplicitFails \/ CloseClient \/ ClearDeadlines
        \/ WriteCmd \/ Fill \/ HandshakeSucceeds \/ HandshakeFails
        \/ \E i \in Ops : Cancel(i) \/ Expire(i) \/ SocketExpires(i) \/ GuardStep(i)
        \/ ServerAnswers \/ ServerCloses

Spec == Init /\ [][Next]_vars

\* Goroutines run.  Nothing is assumed of the server, of the callers that
\* cancel, or of a deadline, which may be distant.
Fairness == WF_vars(ClientStep) /\ \A i \in Ops : WF_vars(GuardStep(i))

FairSpec == Spec /\ Fairness

-----------------------------------------------------------------------------
(***************************************************************************)
(* Properties.                                                             *)
(***************************************************************************)
Deadlines == {None, Past} \cup {i \in Ops : i <= op /\ ctx[i] = "deadline"}

\* Every variable has its type; a deadline on the socket is that of a context
\* that has one, or the past.
TypeOK ==
    /\ pc \in Pcs /\ mode \in Modes /\ op \in 0 .. MaxOps
    /\ kind \in Kinds /\ stage \in Stages
    /\ ctx \in [Ops -> Contexts]
    /\ over \cup expired \cup inFlight \cup guards \cup stopped \subseteq 1 .. op
    /\ poisoned \in BOOLEAN /\ tls \in BOOLEAN /\ eof \in BOOLEAN
    /\ disturbed \in BOOLEAN /\ leftover \in BOOLEAN /\ revived \in BOOLEAN
    /\ rdl \in Deadlines /\ wdl \in Deadlines
    /\ caps \in Seq(Line) /\ block \in Seq(Line) /\ ncmd \in Nat
    /\ buf \in Seq(Token) /\ net \in Seq(Token)
    /\ werr \in [op : 0 .. MaxOps, how : {"none", "timeout", "error"}]
    /\ result \in [op : 0 .. MaxOps, line : Line,
                   how : {"none", "ok", "refused", "toolong", "timeout", "error"}]

\* "A cancellation arriving afterwards (e.g. a deferred cancel) must not poison
\* the connection for subsequent operations": the client is only unusable when
\* a context was done while its own operation was under way, however late the
\* goroutines of earlier guards run.
NoLateKick == poisoned => inFlight # {}

\* "Once poisoned is set, no later arm may resurrect a live deadline": no read
\* or write that follows blocks, of this operation and of later ones, until the
\* caller itself clears the deadlines with SetDeadline.  (The deadline that
\* startTLS sets without asking is met by HandshakeContext.)
PoisonHolds ==
    poisoned /\ ~revived /\ pc \in {"armw", "write", "armr", "read", "idle"} =>
       rdl = Past /\ wdl = Past

\* An operation whose context has a deadline times out by that context or by
\* the poison, never by a deadline that earlier contexts have left on the
\* socket.  (What an earlier operation does leave is a write that timed out:
\* the bufio.Writer returns that error to every operation that follows.)
OwnDeadlineRules ==
    result.how = "timeout" /\ ctx[result.op] = "deadline" =>
       \/ result.op \in over \/ poisoned
       \/ werr.how = "timeout" /\ werr.op < result.op

\* The capability map is a whole block of one answer, never a mixture or a part.
CapsWhole ==
    caps # <<>> =>
       LET last == caps[Len(caps)]
       IN  /\ last.says = "OK" /\ last.of = Len(caps) - 1
           /\ \A i \in DOMAIN caps : caps[i].cmd = last.cmd /\ caps[i].tls = last.tls

\* As long as no read or write has failed, and no answer was given up beyond
\* MaxLineLength or MaxCapabilityLines with its rest unread, what an operation
\* returns or refuses by is the answer to its own command (or the server's
\* farewell), and all of it, across STARTTLS, refusals, lines that are given up
\* at their very end and capability blocks up to the limit.
AnswerIsOwn ==
    ~disturbed /\ ~leftover =>
       /\ CapsWhole
       /\ pc = "stop" /\ result.how \in {"ok", "refused"} /\ result.line.says # "BYE" =>
             result.line.cmd = ncmd

\* Once TLS is on, no line that came in the clear is used: what was buffered
\* behind the OK is discarded and the capabilities of a client that is ready
\* are those sent under TLS, after a failure too.
NoPlaintextUsed ==
    /\ tls => \A i \in DOMAIN block : block[i].tls
    /\ tls /\ pc = "idle" => \A i \in DOMAIN caps : caps[i].tls
    /\ tls /\ pc = "stop" /\ result.how = "ok" => result.line.tls

\* "A cancellation forces the in-flight read/write to unblock immediately":
\* an operation whose context is done ends, though the server is silent and
\* the deadline far away.
CancelUnblocks ==
    \A i \in Ops : (i \in over /\ op = i) ~> (op # i \/ pc \in {"idle", "closed"})

(***************************************************************************)
(* Claims of the repository that the code does not keep.                   *)
(***************************************************************************)
\* Cmd "returns the server's single-line response verbatim": all of it.
Verbatim ==
    pc = "stop" /\ kind = "CMD" /\ result.how = "ok" => ~result.line.cut

\* It is the response to that command, on a connection on which no read and no
\* write has failed.
OwnResponse ==
    pc = "stop" /\ kind = "CMD" /\ result.how = "ok" /\ ~disturbed =>
       result.line.cmd = ncmd \/ result.line.says = "BYE"
=============================================================================
