------------------------------ MODULE SieveConn ------------------------------
(***************************************************************************)
(* One server connection of go-managesieve: Conn.serve, the literal and    *)
(* SASL reads, the command handlers, the central enforcement at the end of *)
(* the loop (src/managesieveserver/conn.go), against a client, a socket    *)
(* with deadlines, and a server that may be shut down at any point.        *)
(*                                                                         *)
(* The byte stream is a sequence of tokens: a command line, a literal      *)
(* body, the rest of the command after a body.  Names, scripts and         *)
(* credentials are abstracted to whether the code accepts them.            *)
(***************************************************************************)
EXTENDS Naturals, Sequences

CONSTANTS
    Commands,        \* token sequences a client may send, one per command
    MaxCommands,     \* bound: commands the client sends
    MaxInFlight,     \* bound: tokens in the socket, not yet read
    MaxErrors,       \* Options.MaxErrors; 0 stands for a disabled limit
    TLSConfig,       \* Options.TLSConfig # nil
    InitTLS,         \* whether connections may be, or not be, TLS from the start
    InsecureAuth,    \* Options.InsecureAuth
    AuthFailuresExempt, \* Options.AuthFailuresExemptFromMaxErrors
    SessionLogin,    \* the session implements SessionLogin
    UnknownHandler,  \* Options.UnknownCommandHandler # nil
    IdleTimeout, AuthIdleTimeout, AbsoluteTimeout, \* the timer is enabled
    MayShutdown      \* Server.Close may be called

\* What the code tells apart in a value; "nopass" is a well-formed response
\* without a password.
PlainArgs == {"ok", "bad", "big", "empty", "nopass", "*"}
Literals  == {"s", "n", "sBig", "nBig", "sBad", "nBad"}
NonSync   == {"n", "nBig", "nBad"}
Malformed == {"sBad", "nBad"}
Oversized == {"sBig", "nBig"}

ScriptVerbs  == {"LISTSCRIPTS", "GETSCRIPT", "PUTSCRIPT", "CHECKSCRIPT",
                 "HAVESPACE", "RENAMESCRIPT", "SETACTIVE", "DELETESCRIPT"}
ContentVerbs == {"PUTSCRIPT", "CHECKSCRIPT"}
AuthVerbs    == {"AUTHENTICATE", "LOGIN"}
KnownVerbs   == ScriptVerbs \cup AuthVerbs
                  \cup {"CAPABILITY", "STARTTLS", "NOOP", "LOGOUT"}
\* Not commands: a blank line, a line with an unclosed quote, a SASL
\* response, the rest of a command, a literal body, a body sent too early.
OtherVerbs == {"XUNKNOWN", "BLANK", "PARSEERR", "CONT", "REST", "DATA", "ROGUE"}
Verbs == KnownVerbs \cup OtherVerbs

\* "long" and "nocrlf" are the two framing errors of readBoundedLine.
Token == [k    : {"line", "cont", "rest", "body", "long", "nocrlf"},
          verb : Verbs,
          args : Seq(PlainArgs \cup Literals),
          wait : BOOLEAN]     \* the client waits for an answer after it

ASSUME OptionsAssumption ==
    /\ MaxCommands \in Nat /\ MaxInFlight \in Nat /\ MaxErrors \in Nat
    /\ InitTLS \subseteq BOOLEAN
    /\ {TLSConfig, InsecureAuth, AuthFailuresExempt, SessionLogin,
        UnknownHandler, IdleTimeout, AuthIdleTimeout, AbsoluteTimeout,
        MayShutdown} \subseteq BOOLEAN

ASSUME CommandsAssumption ==
    \A m \in Commands : m \in Seq(Token) /\ m # <<>>

VARIABLES
    c,          \* the Conn: its fields, the locals of serve, the write buffer
    buf,        \* bytes in bufio.Reader
    net,        \* bytes in the socket
    todo,       \* what the client has still to send of its command
    waiting,    \* the client waits for a continuation, a challenge or TLS
    started,    \* commands the client has begun
    peerClosed, \* the client has closed its end
    shutdown,   \* Server.Close has cancelled the server's context
    absDone,    \* the connection context's absolute deadline has fired
    clock       \* 1: past the context's deadline; 2: past startTime + Abs

vars      == <<c, buf, net, todo, waiting, started, peerClosed, shutdown,
               absDone, clock>>
clientVars == <<todo, waiting, started, peerClosed>>
envVars    == <<shutdown, absDone, clock>>

BodyPcs == {"argbody", "authbody", "scriptbody"}
LinePcs == {"line", "argrest", "contline", "authcrlf", "scriptcrlf"}
ReadPcs == BodyPcs \cup LinePcs
Pcs     == ReadPcs \cup {"greet", "top", "arm", "resolve", "dispatch",
                         "session", "handshake", "enforce", "closed"}
Timers  == {"none", "idle", "auth", "abs", "kick"}
Final   == {"OK", "NO", "EXT"}   \* EXT: written by UnknownCommandHandler
Byes    == {"BYE-idle", "BYE-abs", "BYE-down", "BYE-errs"}
Replies == Final \cup Byes \cup {"GREETING", "CONTINUE", "CHALLENGE"}

ConnType ==
    [pc : Pcs, verb : Verbs, args : Seq(PlainArgs \cup Literals),
     val : PlainArgs \cup Literals,
     authenticated : BOOLEAN, isTLS : BOOLEAN, errorCount : Nat,
     closePending : BOOLEAN, hijacked : BOOLEAN, lastErr : BOOLEAN,
     quit : BOOLEAN, dispatched : BOOLEAN,
     poisoned : BOOLEAN, rdl : Timers, expired : BOOLEAN,
     out : Seq(Replies), dirty : BOOLEAN, wfail : BOOLEAN,
     hook : {"", "idle", "absolute"},          \* OnTimeout's argument
     kicked : {"", "idle", "mid", "busy"},     \* what Close interrupted
     gated : BOOLEAN, misparsed : BOOLEAN]

InitConn(t) ==
    [pc |-> "greet", verb |-> "BLANK", args |-> <<>>, val |-> "ok",
     authenticated |-> FALSE, isTLS |-> t, errorCount |-> 0,
     closePending |-> FALSE, hijacked |-> FALSE, lastErr |-> FALSE,
     quit |-> FALSE, dispatched |-> FALSE,
     poisoned |-> FALSE, rdl |-> "none", expired |-> FALSE,
     out |-> <<>>, dirty |-> FALSE, wfail |-> FALSE,
     hook |-> "", kicked |-> "", gated |-> FALSE, misparsed |-> FALSE]

Init ==
    /\ \E t \in InitTLS : c = InitConn(t)
    /\ buf = <<>> /\ net = <<>>
    /\ todo = <<>> /\ waiting = FALSE /\ started = 0
    /\ peerClosed = FALSE /\ shutdown = FALSE /\ absDone = FALSE /\ clock = 0

-----------------------------------------------------------------------------
(***************************************************************************)
(* Helpers of Conn, as functions from a connection to a connection.        *)
(***************************************************************************)
CtxDone == shutdown \/ absDone

\* Conn.writeLine, ok and no: into the write buffer, not yet on the wire.
Write(x, r) == [x EXCEPT !.out = Append(@, r), !.dirty = TRUE]

\* writer.Flush: the buffered replies reach the client or the connection is
\* broken for good (bufio.Writer keeps its first error).
Flush(x) == IF x.dirty /\ ~x.wfail
            THEN {[x EXCEPT !.dirty = FALSE], [x EXCEPT !.wfail = TRUE]}
            ELSE {x}

Goto(x, l)      == [x EXCEPT !.pc = l]
Failed(x)       == [x EXCEPT !.lastErr = TRUE]
MustClose(x, b) == [x EXCEPT !.closePending = @ \/ b]

\* clientError: the choke point that feeds MaxErrors.
ClientError(x) == Write(Failed([x EXCEPT !.errorCount = @ + 1]), "NO")

\* sessionError: close is what the session's *Error or ErrCloseConnection asks.
SessionError(x, close) == MustClose(Write(Failed(x), "NO"), close)

AuthFailure(x, close) ==
    SessionError(IF AuthFailuresExempt THEN x
                 ELSE [x EXCEPT !.errorCount = @ + 1], close)

\* quotaMaxSize: NO (QUOTA/MAXSIZE), not counted as a client error.
QuotaMaxSize(x) == Write(Failed(x), "NO")

\* Mutant: the limit is off by one.
MaxErrorsExceededLate(x) == MaxErrors > 0 /\ x.errorCount > MaxErrors

MaxErrorsExceeded(x) == MaxErrors > 0 /\ x.errorCount >= MaxErrors

\* Mutant: the deadline is set without looking at poisoned.
SetReadDeadlineAlways(x, d) == [x EXCEPT !.rdl = d, !.expired = FALSE]

\* setReadDeadline and the read half of setDeadline.
SetReadDeadline(x, d) ==
    IF x.poisoned THEN x ELSE [x EXCEPT !.rdl = d, !.expired = FALSE]

IdleTimer(auth) == IF ~auth /\ AuthIdleTimeout THEN "auth"
                   ELSE IF IdleTimeout THEN "idle" ELSE "none"

\* nextReadDeadline: which timer bounds the next read.  With both enabled,
\* the absolute limit wins when it comes first.
NextReadDeadline(auth) ==
    IF ~AbsoluteTimeout THEN {IdleTimer(auth)}
    ELSE {"abs"} \cup ({IdleTimer(auth)} \ {"none"})

\* "if d := c.nextReadDeadline(); !d.IsZero() { c.setReadDeadline(d) }"
Arm(x) == {IF d = "none" THEN x ELSE SetReadDeadline(x, d) :
              d \in NextReadDeadline(x.authenticated)}

AuthAllowed(x) == InsecureAuth \/ x.isTLS

\* Mutant: the connection just ends.
ShutdownSilent(x) == x

\* shutdownBye: the client is told which of the two ended its connection.
ShutdownBye(x) ==
    IF AbsoluteTimeout /\ clock = 2
    THEN [Write(x, "BYE-abs") EXCEPT !.hook = "absolute"]
    ELSE Write(x, "BYE-down")

\* The tail of serve: leaving the loop closes the socket unless hijacked.
Leave(x) == {Goto(f, "closed") : f \in Flush(x)}

-----------------------------------------------------------------------------
(***************************************************************************)
(* The command loop up to a complete command line.                         *)
(***************************************************************************)
ServerUnchanged == UNCHANGED <<net, clientVars, envVars>>

Greet ==
    /\ c.pc = "greet"
    /\ \E f \in Flush(Write(c, "GREETING")) :
          c' = Goto(f, IF f.wfail THEN "closed" ELSE "top")
    /\ UNCHANGED buf /\ ServerUnchanged

\* Top of the loop: a shutdown that landed during a command ends it here.
NextIteration(x) == [x EXCEPT !.out = <<>>, !.quit = FALSE,
                              !.dispatched = FALSE, !.args = <<>>,
                              !.verb = "BLANK"]

CheckContext ==
    /\ c.pc = "top"
    /\ IF CtxDone THEN c' \in Leave(ShutdownBye(NextIteration(c)))
                  ELSE c' = Goto(NextIteration(c), "arm")
    /\ UNCHANGED buf /\ ServerUnchanged

ArmCommandRead ==
    /\ c.pc = "arm"
    /\ \E a \in Arm(c) : c' = Goto(a, "line")
    /\ UNCHANGED buf /\ ServerUnchanged

\* bufio.Reader refills when it is empty: some of what the socket holds.
Fill ==
    /\ c.pc \in ReadPcs /\ buf = <<>> /\ ~c.expired
    /\ \E n \in 1..Len(net) : /\ buf' = SubSeq(net, 1, n)
                              /\ net' = SubSeq(net, n + 1, Len(net))
    /\ UNCHANGED <<c, clientVars, envVars>>

\* A read that needs the socket fails on an expired deadline, or at EOF.
ReadError == buf = <<>> /\ (c.expired \/ (peerClosed /\ net = <<>>))

\* Mutant: the absolute limit is not told apart from idleness.
CommandReadFailsIdle ==
    /\ c.pc = "line" /\ ReadError
    /\ c' \in Leave(IF CtxDone THEN ShutdownBye(c)
                    ELSE IF ~c.expired THEN c
                    ELSE [Write(c, "BYE-idle") EXCEPT !.hook = "idle"])
    /\ UNCHANGED buf /\ ServerUnchanged

\* The next command does not come: say why (not on EOF) and leave.
CommandReadFails ==
    /\ c.pc = "line" /\ ReadError
    /\ c' \in Leave(
          IF CtxDone THEN ShutdownBye(c)
          ELSE IF ~c.expired THEN c
          ELSE IF AbsoluteTimeout /\ clock = 2
               THEN [Write(c, "BYE-abs") EXCEPT !.hook = "absolute"]
               ELSE [Write(c, "BYE-idle") EXCEPT !.hook = "idle"])
    /\ UNCHANGED buf /\ ServerUnchanged

BadLine(t) == t.k \in {"long", "nocrlf"}

\* The token that the read in progress consumes.
Next1 == Head(buf)

Takes(l) == /\ c.pc = l /\ buf # <<>>
            /\ buf' = Tail(buf) /\ ServerUnchanged

\* Too long, or not ended by CRLF: the stream cannot resume.
RejectLine ==
    /\ Takes("line") /\ BadLine(Next1)
    /\ c' \in Leave(IF CtxDone THEN ShutdownBye(c) ELSE Write(c, "NO"))

SkipBlankLine ==
    /\ Takes("line") /\ ~BadLine(Next1) /\ Next1.verb = "BLANK"
    /\ c' = Goto(c, "top")

ParseLineFails ==
    /\ Takes("line") /\ ~BadLine(Next1) /\ Next1.verb = "PARSEERR"
    /\ c' = Goto(ClientError(Failed(c)), "enforce")

\* parseLine splits verb and arguments.  A body met here is one that no
\* literal read consumed: its octets are parsed as a command.
AcceptLine ==
    /\ Takes("line") /\ ~BadLine(Next1)
    /\ Next1.verb \notin {"BLANK", "PARSEERR"}
    /\ c' = [c EXCEPT !.pc = "resolve", !.verb = Next1.verb,
                      !.args = Next1.args,
                      !.misparsed = @ \/ (Next1.k = "body" /\ Next1.verb # "ROGUE")]

-----------------------------------------------------------------------------
(***************************************************************************)
(* Literals and SASL responses: the reads inside a command.                *)
(***************************************************************************)
LastArg == c.args[Len(c.args)]

\* literalDeferred: content literals are read by their handlers.
LiteralDeferred(verb, n) == \/ verb \in {"PUTSCRIPT", "AUTHENTICATE"} /\ n = 2
                            \/ verb = "CHECKSCRIPT" /\ n = 1

InlineLiteral == /\ c.args # <<>> /\ LastArg \in Literals
                 /\ ~LiteralDeferred(c.verb, Len(c.args))

\* Server steps that neither read the stream nor touch the environment.
Quietly == UNCHANGED buf /\ ServerUnchanged

ArgsResolved ==
    /\ c.pc = "resolve" /\ ~InlineLiteral
    /\ c' = Goto(c, "dispatch") /\ Quietly

\* Mutant: a malformed marker is always answered and forgotten.
RejectArgLiteralOpen ==
    /\ c.pc = "resolve" /\ InlineLiteral
    /\ LastArg \in Malformed \cup Oversized
    /\ c' = Goto(MustClose(ClientError(c),
                           LastArg \in Oversized /\ buf # <<>>), "enforce")
    /\ Quietly

\* A rejected literal ends the command; the connection too when its body is
\* already committed: a non-synchronizing one, or bytes wrongly pipelined.
RejectArgLiteral ==
    /\ c.pc = "resolve" /\ InlineLiteral
    /\ LastArg \in Malformed \cup Oversized
    /\ c' = Goto(MustClose(ClientError(c),
                           \/ LastArg \in NonSync
                           \/ LastArg \in Oversized /\ buf # <<>>), "enforce")
    /\ Quietly

\* Mutant: the "+" stays in the write buffer.
StartLiteralUnflushed(x, arg, l) ==
    IF arg \in NonSync THEN {Goto(a, l) : a \in Arm(x)}
    ELSE {Goto(a, l) : a \in Arm(Write(x, "CONTINUE"))}

\* Begin a literal read at l, after a "+" for the synchronizing form.
StartLiteral(x, arg, l) ==
    IF arg \in NonSync THEN {Goto(a, l) : a \in Arm(x)}
    ELSE UNION {IF f.wfail THEN {Goto(MustClose(f, TRUE), "enforce")}
                ELSE {Goto(a, l) : a \in Arm(f)} : f \in Flush(Write(x, "CONTINUE"))}

BeginArgLiteral ==
    /\ c.pc = "resolve" /\ InlineLiteral
    /\ LastArg \notin Malformed \cup Oversized
    /\ c' \in StartLiteral(c, LastArg, "argbody")
    /\ Quietly

\* Mutant: the whole remainder is taken for the value.
ValUnsplit(t) == t.args

\* The value the octets of a body or a response stand for.
Val(t) == IF t.args = <<>> THEN "empty" ELSE t.args[1]

AfterBody == [argbody |-> "argrest", authbody |-> "authcrlf",
              scriptbody |-> "scriptcrlf"]

\* io.ReadFull / io.CopyN got the declared number of octets.
ReadBody ==
    /\ c.pc \in BodyPcs /\ Takes(c.pc)
    /\ c' = [c EXCEPT !.val = Val(Next1), !.pc = AfterBody[c.pc]]

\* A read inside a command failed: NO, and the stream is given up.
GiveUpRead(x) ==
    Goto(MustClose(Write(Failed(SetReadDeadline(x, "none")), "NO"), TRUE), "enforce")

CommandCut ==
    /\ c.pc \in ReadPcs \ {"line"} /\ ReadError
    /\ c' = GiveUpRead(c) /\ Quietly

TrailerRejected ==
    /\ c.pc \in LinePcs \ {"line"} /\ Takes(c.pc) /\ BadLine(Next1)
    /\ c' = GiveUpRead(c)

\* The value of the body becomes the n-th argument, as a quoted string.  Every
\* handler unquotes its arguments but HAVESPACE, whose size must be bare digits.
Requoted(verb, n, v) == IF verb = "HAVESPACE" /\ n = 2 THEN "bad" ELSE v

\* The rest of the command line behind an argument's literal body.
ReadArgRest ==
    /\ Takes("argrest") /\ ~BadLine(Next1)
    /\ LET x == SetReadDeadline(c, "none")
           n == Len(c.args)
       IN  c' = IF Next1.verb = "PARSEERR"
                THEN Goto(ClientError(Failed(x)), "enforce")
                ELSE [x EXCEPT !.pc = "resolve",
                               !.args = SubSeq(@, 1, n - 1)
                                           \o <<Requoted(c.verb, n, c.val)>> \o Next1.args]

\* handleAuthenticate from the base64 decoding on: data that does not decode to
\* three parts (an empty response among it) is a client error, an empty
\* password a failed login, the rest is the session's.
AuthPayload(x, v) ==
    IF v = "ok" THEN Goto(x, "session")
    ELSE Goto(IF v = "nopass" THEN AuthFailure(x, FALSE) ELSE ClientError(x), "enforce")

\* Mutant: the pre-auth literal read has no deadline.
StartAuthLiteralUnarmed(x, v) ==
    IF v \in Malformed \cup Oversized
    THEN {Goto(MustClose(ClientError(x), TRUE), "enforce")}
    ELSE {Goto(x, "authbody")}

\* A PLAIN response that is itself a literal marker.
StartAuthLiteral(x, v) ==
    IF v \in Malformed \cup Oversized
    THEN {Goto(MustClose(ClientError(x), TRUE), "enforce")}
    ELSE {Goto(a, "authbody") : a \in Arm(x)}

ReadSaslResponse ==
    /\ Takes("contline") /\ ~BadLine(Next1)
    /\ LET x == SetReadDeadline(c, "none")
           v == Val(Next1)
       IN  c' \in IF v = "*" THEN {Goto(Write(Failed(x), "NO"), "enforce")}
                  ELSE IF v \in Literals THEN StartAuthLiteral(x, v)
                  ELSE {AuthPayload(x, v)}

ReadAuthLiteral ==
    /\ Takes("authcrlf") /\ ~BadLine(Next1)
    /\ c' = AuthPayload(SetReadDeadline(c, "none"), c.val)

\* Mutant: no return after the invalid name was answered.
ScriptContentFallsThrough(x, v) ==
    IF x.verb = "PUTSCRIPT" /\ x.args[1] \in {"bad", "empty"}
    THEN Goto(ClientError(x), "session")
    ELSE IF v = "big" THEN Goto(QuotaMaxSize(x), "enforce")
    ELSE Goto(x, "session")

\* handlePutScript / handleCheckScript once the content is known.
ScriptContent(x, v) ==
    IF x.verb = "PUTSCRIPT" /\ x.args[1] \in {"bad", "empty"}
    THEN Goto(ClientError(x), "enforce")
    ELSE IF v = "big" THEN Goto(QuotaMaxSize(x), "enforce")
    ELSE Goto(x, "session")

ReadScriptLiteral ==
    /\ Takes("scriptcrlf") /\ ~BadLine(Next1)
    /\ c' = ScriptContent(SetReadDeadline(c, "none"), c.val)

-----------------------------------------------------------------------------
(***************************************************************************)
(* dispatch and the handlers.                                              *)
(***************************************************************************)
\* Mutant: lastErr is not reset.
ExecutingStale(x) == [SetReadDeadline(x, "none") EXCEPT !.dispatched = TRUE]

\* What serve does before dispatch: no read deadline while a command runs.
Executing(x) == [SetReadDeadline(x, "none") EXCEPT !.lastErr = FALSE,
                                                   !.dispatched = TRUE]

Dispatches(verbs) == c.pc = "dispatch" /\ c.verb \in verbs /\ Quietly

Done(x)      == Goto(x, "enforce")
Refused(x)   == Done(ClientError(x))
AndQuit(x)   == [x EXCEPT !.quit = TRUE]

HandleCapabilityOrNoop ==
    Dispatches({"CAPABILITY", "NOOP"}) /\ c' = Done(Write(Executing(c), "OK"))

HandleLogout ==
    Dispatches({"LOGOUT"}) /\ c' = AndQuit(Done(Write(Executing(c), "OK")))

Unrecognised == c.verb \notin KnownVerbs \/ (c.verb = "LOGIN" /\ ~SessionLogin)

\* UnknownCommandHandler consumes the command, or declines it ...
UnknownHandled ==
    /\ c.pc = "dispatch" /\ Unrecognised /\ UnknownHandler /\ Quietly
    /\ \E close \in BOOLEAN :
          c' = [Done(Write(Executing(c), "EXT")) EXCEPT !.quit = close]

\* ... and an unhandled command is a client error.
UnknownRejected ==
    /\ c.pc = "dispatch" /\ Unrecognised /\ Quietly
    /\ c' = Refused(Failed(Executing(c)))

\* Whether the client is sending a literal body that nobody is going to read.
CommitsBody == /\ c.args # <<>> /\ LastArg \in Literals
               /\ c.verb = "AUTHENTICATE" \/ LastArg \in NonSync

AbandonsBody(x) == [x EXCEPT !.gated = @ \/ CommitsBody]

\* Mutant: the cleartext gate is missing.
MayAuthenticateInClear(x) ==
    ~x.authenticated /\ x.args # <<>> /\ x.args[1] = "ok"

\* Non-authenticated state, a mechanism, the cleartext gate, PLAIN ("ok").
MayAuthenticate(x) ==
    ~x.authenticated /\ x.args # <<>> /\ AuthAllowed(x) /\ x.args[1] = "ok"

AuthenticateRefused ==
    /\ Dispatches({"AUTHENTICATE"}) /\ ~MayAuthenticate(c)
    /\ c' = AbandonsBody(Refused(Executing(c)))

AuthenticateAccepted == Dispatches({"AUTHENTICATE"}) /\ MayAuthenticate(c)

AuthenticateInitialResponse ==
    /\ AuthenticateAccepted /\ Len(c.args) > 1
    /\ c' \in IF c.args[2] \in Literals
              THEN StartAuthLiteral(Executing(c), c.args[2])
              ELSE {AuthPayload(Executing(c), c.args[2])}

AuthenticateChallenge ==
    /\ AuthenticateAccepted /\ Len(c.args) = 1
    /\ \E f \in Flush(Write(Executing(c), "CHALLENGE")) :
          IF f.wfail THEN c' = Done(MustClose(f, TRUE))
                     ELSE \E a \in Arm(f) : c' = Goto(a, "contline")

HandleLogin ==
    /\ Dispatches({"LOGIN"}) /\ SessionLogin
    /\ c' = IF c.authenticated \/ ~AuthAllowed(c) \/ Len(c.args) < 2
            THEN Refused(Executing(c))
            ELSE Goto(Executing(c), "session")

StartTLSRefused ==
    /\ Dispatches({"STARTTLS"})
    /\ ~TLSConfig \/ c.isTLS \/ c.authenticated
    /\ c' = Refused(Executing(c))

StartTLSAccepted == /\ Dispatches({"STARTTLS"})
                    /\ TLSConfig /\ ~c.isTLS /\ ~c.authenticated

\* Plaintext behind STARTTLS must not be processed after the upgrade.
StartTLSPipelined ==
    /\ StartTLSAccepted /\ buf # <<>>
    /\ c' = AndQuit(Done(Write(Failed(Executing(c)), "NO")))

\* Mutant: no check for pipelined plaintext.
StartTLSBeginsUnchecked ==
    /\ StartTLSAccepted
    /\ \E f \in Flush(Write(Executing(c), "OK")) :
          IF f.wfail THEN c' = AndQuit(Done(f))
                     ELSE \E a \in Arm(f) : c' = Goto(a, "handshake")

\* Mutant: the handshake has no deadline.
StartTLSBeginsUnarmed ==
    /\ StartTLSAccepted /\ buf = <<>>
    /\ \E f \in Flush(Write(Executing(c), "OK")) :
          c' = IF f.wfail THEN AndQuit(Done(f)) ELSE Goto(f, "handshake")

StartTLSBegins ==
    /\ StartTLSAccepted /\ buf = <<>>
    /\ \E f \in Flush(Write(Executing(c), "OK")) :
          IF f.wfail THEN c' = AndQuit(Done(f))
                     ELSE \E a \in Arm(f) : c' = Goto(a, "handshake")

\* The new reader starts empty; capabilities are sent again.  That nothing is
\* left in the socket is crypto/tls (external): a handshake that meets plaintext
\* fails, and one that succeeds has consumed the client's side of it.
HandshakeSucceeds ==
    /\ c.pc = "handshake" /\ net = <<>>
    /\ ~c.expired /\ ~CtxDone /\ ~peerClosed
    /\ c' = Done(Write([SetReadDeadline(c, "none") EXCEPT !.isTLS = TRUE], "GREETING"))
    /\ buf' = <<>> /\ ServerUnchanged

HandshakeFailed ==
    c' = AndQuit(Done(Failed(SetReadDeadline(c, "none")))) /\ Quietly

\* The peer does not speak TLS, or an alert or CommandTimeout ends it.
HandshakeFails == c.pc = "handshake" /\ HandshakeFailed

HandshakeAborts ==
    c.pc = "handshake" /\ (c.expired \/ CtxDone \/ peerClosed) /\ HandshakeFailed

\* Script commands need the AUTHENTICATED state.
NotAuthenticated ==
    /\ Dispatches(ScriptVerbs) /\ ~c.authenticated
    /\ c' = AbandonsBody(Refused(Executing(c)))

MinArgs == [LISTSCRIPTS |-> 0, GETSCRIPT |-> 1, SETACTIVE |-> 1,
            DELETESCRIPT |-> 1, HAVESPACE |-> 2, RENAMESCRIPT |-> 2,
            CHECKSCRIPT |-> 1, PUTSCRIPT |-> 2]

\* An argument the handler itself turns down, before the session sees it.
ArgsFault(verb, args) ==
    \/ Len(args) < MinArgs[verb]
    \/ verb = "HAVESPACE" /\ args[2] \notin {"ok", "big"}
    \/ verb = "RENAMESCRIPT" /\ (args[1] = "empty" \/ args[2] \in {"bad", "empty"})

HandleScriptCommand ==
    /\ Dispatches(ScriptVerbs \ ContentVerbs) /\ c.authenticated
    /\ c' = IF ArgsFault(c.verb, c.args) THEN Refused(Executing(c))
            ELSE IF c.verb = "HAVESPACE" /\ c.args[2] = "big"
                 THEN Done(QuotaMaxSize(Executing(c)))
                 ELSE Goto(Executing(c), "session")

ContentArg == c.args[MinArgs[c.verb]]

\* readScriptArgument: size checked before a byte of the body is read.
HandleScriptContent ==
    /\ Dispatches(ContentVerbs) /\ c.authenticated
    /\ LET x == Executing(c) IN
       c' \in IF Len(c.args) < MinArgs[c.verb] THEN {Refused(x)}
              ELSE IF ContentArg \notin Literals THEN {ScriptContent(x, ContentArg)}
              ELSE IF ContentArg \in Malformed
                   THEN {MustClose(Refused(x), ContentArg \in NonSync)}
              ELSE IF ContentArg \in Oversized
                   THEN {MustClose(Done(QuotaMaxSize(x)),
                                   ContentArg \in NonSync \/ buf # <<>>)}
              ELSE StartLiteral(x, ContentArg, "scriptbody")

-----------------------------------------------------------------------------
(***************************************************************************)
(* The consumer's Session callbacks.                                       *)
(***************************************************************************)
SessionSucceeds ==
    /\ c.pc = "session" /\ Quietly
    /\ c' = Done(Write([c EXCEPT !.authenticated = @ \/ c.verb \in AuthVerbs], "OK"))

SessionFails ==
    /\ c.pc = "session" /\ Quietly
    /\ \E close \in BOOLEAN :
          c' = Done(IF c.verb \in AuthVerbs THEN AuthFailure(c, close)
                                            ELSE SessionError(c, close))

\* Conn.Hijack from within AuthenticatePlain or Login, which then returns
\* nil or an error; the latter's NO stays in the abandoned write buffer.
SessionHijacks ==
    /\ c.pc = "session" /\ c.verb \in AuthVerbs /\ ~c.authenticated /\ Quietly
    /\ LET x == [SetReadDeadline(c, "none") EXCEPT !.hijacked = TRUE]
       IN  c' \in {Done(x), Done(AuthFailure(x, FALSE))}

\* A panic in a callback unwinds to recoverConn, which closes the socket.
CallbackPanics ==
    /\ c.pc = "session" \/ (c.pc = "dispatch" /\ Unrecognised /\ UnknownHandler)
    /\ c' = Goto(c, "closed") /\ Quietly

-----------------------------------------------------------------------------
(***************************************************************************)
(* The end of an iteration: hijack, closePending, MaxErrors, flush.        *)
(***************************************************************************)
\* Mutant: a response that asked for closing does not end the loop.
VerdictForgetful(x) ==
    IF x.quit THEN AndQuit(x)
    ELSE IF MaxErrorsExceeded(x) THEN AndQuit(Write(x, "BYE-errs"))
    ELSE x

Verdict(x) ==
    IF x.quit \/ x.closePending THEN AndQuit(x)
    ELSE IF MaxErrorsExceeded(x) THEN AndQuit(Write(x, "BYE-errs"))
    ELSE x

\* Mutant: serve goes on after a Hijack.
EnforceIgnoresHijack ==
    /\ c.pc = "enforce" /\ Quietly
    /\ \E f \in Flush(Verdict(c)) :
          c' = Goto(f, IF f.wfail \/ f.quit THEN "closed" ELSE "top")

Enforce ==
    /\ c.pc = "enforce" /\ Quietly
    /\ IF c.hijacked THEN c' = Goto(c, "closed")
       ELSE \E f \in Flush(Verdict(c)) :
               c' = Goto(f, IF f.wfail \/ f.quit THEN "closed" ELSE "top")

-----------------------------------------------------------------------------
(***************************************************************************)
(* The client (external).  It sends the tokens of a command in order and,  *)
(* where the protocol has a synchronisation point, waits for it.           *)
(***************************************************************************)
\* The tokens of a command, as RFC 5804 has a client put them together.  A
\* literal marker ends its line; a line that breaks the framing, a blank one
\* and one with an unclosed quote have no arguments; a response is one string.
Shaped(t) ==
    /\ \A i \in 1 .. Len(t.args) - 1 : t.args[i] \in PlainArgs
    /\ BadLine(t) \/ t.verb \in {"BLANK", "PARSEERR"} => t.args = <<>>
    /\ t.k = "body" => /\ t.verb \in {"DATA", "ROGUE"}
                       /\ \A i \in DOMAIN t.args : t.args[i] \in PlainArgs
    /\ t.k = "rest" => t.verb \in {"REST", "BLANK", "PARSEERR"}
    /\ t.k = "cont" => t.verb = "CONT" /\ Len(t.args) <= 1

Marked(args) == args # <<>> /\ args[Len(args)] \in Literals
Opened(args) == Marked(args) /\ args[Len(args)] \notin Malformed \cup Oversized

Starts    == {"line", "long", "nocrlf"}   \* of a command
Trailers  == {"rest", "long", "nocrlf"}   \* what follows a body
Responses == {"cont", "long", "nocrlf"}   \* what follows a challenge

\* A body is sent before it is asked for only where the marker says so, where
\* nobody is going to ask (a SASL response), or by mistake ("ROGUE").
CommitsTo(t) == \/ t.wait \/ t.args[Len(t.args)] \in NonSync \/ t.k = "cont"
                \/ t.verb = "AUTHENTICATE" /\ Len(t.args) = 2

Follows(t, u) ==
    /\ u.k = "body" => Marked(t.args) /\ (u.verb = "ROGUE" \/ CommitsTo(t))
    /\ u.k = "cont" => t.wait
    /\ t.wait /\ ~Marked(t.args) => u.k \in Responses

\* s[j] is the line behind the body of the last of n arguments: nothing but
\* the end of the line is behind a content, and a mechanism without an initial
\* response waits for the challenge.
TrailerFits(verb, n, s, j) ==
    LET total == n + Len(s[j].args)
    IN  IF LiteralDeferred(verb, n) THEN ~Marked(s[j].args)
        ELSE /\ LiteralDeferred(verb, total) /\ Opened(s[j].args) => ~Marked(s[j + 2].args)
             /\ verb = "AUTHENTICATE" /\ total = 1 =>
                   BadLine(s[j]) \/ s[j].verb = "PARSEERR" \/ s[j].wait

\* The i-th token of s and what is around it.
Framed(s, i) ==
    LET t == s[i]
    IN  /\ Shaped(t)
        /\ i < Len(s) => Follows(t, s[i + 1])
        /\ Opened(t.args) =>
              /\ i + 2 <= Len(s) /\ s[i + 1].k = "body" /\ s[i + 2].k \in Trailers
              /\ t.k = "line" => TrailerFits(t.verb, Len(t.args), s, i + 2)
              /\ t.k = "cont" => ~Marked(s[i + 2].args)
        /\ t.k = "line" /\ t.verb = "AUTHENTICATE" /\ Len(t.args) = 1 /\ ~Marked(t.args) => t.wait

ASSUME FramingAssumption ==
    \A m \in Commands : m[1].k \in Starts /\ \A i \in 1 .. Len(m) : Framed(m, i)

ClientUnchanged == UNCHANGED <<c, buf, envVars>>

Sends(t) == /\ ~peerClosed /\ Len(net) < MaxInFlight
            /\ net' = Append(net, t)
            /\ waiting' = t.wait /\ UNCHANGED peerClosed

ClientBegins ==
    /\ todo = <<>> /\ ~waiting /\ started < MaxCommands /\ c.pc # "closed"
    /\ \E m \in Commands : Sends(Head(m)) /\ todo' = Tail(m)
    /\ started' = started + 1
    /\ ClientUnchanged

\* The answer the client waits for has arrived: "+" or the SASL challenge.
Prompted == /\ c.pc \in {"argbody", "scriptbody", "contline"} /\ ~c.dirty
            /\ buf = <<>> /\ net = <<>>

ClientContinues ==
    /\ todo # <<>> /\ (waiting => Prompted) /\ c.pc # "closed"
    /\ Sends(Head(todo)) /\ todo' = Tail(todo)
    /\ UNCHANGED started /\ ClientUnchanged

\* It was refused instead (or STARTTLS is over): the command is dropped.
ClientResumes ==
    /\ waiting /\ c.pc = "line" /\ buf = <<>> /\ net = <<>>
    /\ waiting' = FALSE /\ todo' = <<>>
    /\ UNCHANGED <<net, started, peerClosed>> /\ ClientUnchanged

ClientCloses ==
    /\ ~peerClosed /\ peerClosed' = TRUE
    /\ UNCHANGED <<net, todo, waiting, started>> /\ ClientUnchanged

-----------------------------------------------------------------------------
(***************************************************************************)
(* Time and shutdown.                                                      *)
(***************************************************************************)
EnvOnly == UNCHANGED <<buf, net, clientVars>> /\ c.pc # "closed"

\* The connection context's deadline is computed just before startTime.
ClockTicks == /\ AbsoluteTimeout /\ clock < 2 /\ clock' = clock + 1
              /\ UNCHANGED <<c, shutdown, absDone>> /\ EnvOnly

ContextExpires == /\ clock > 0 /\ ~absDone /\ absDone' = TRUE
                  /\ UNCHANGED <<c, shutdown, clock>> /\ EnvOnly

DeadlineExpires ==
    /\ ~c.expired /\ c.rdl # "none" /\ (c.rdl = "abs" => clock = 2)
    /\ c' = [c EXCEPT !.expired = TRUE]
    /\ UNCHANGED envVars /\ EnvOnly

\* Server.Close: cancel the contexts, then walk the connections.
ServerCancels == /\ MayShutdown /\ ~shutdown /\ shutdown' = TRUE
                 /\ UNCHANGED <<c, absDone, clock>> /\ EnvOnly

Interrupted == IF c.pc \in ReadPcs /\ buf = <<>> /\ ~c.expired
               THEN IF c.pc = "line" THEN "idle" ELSE "mid"
               ELSE "busy"

\* forceReadUnblock; a hijacked connection is no longer tracked.
ForceReadUnblock ==
    /\ shutdown /\ ~c.poisoned /\ ~c.hijacked
    /\ c' = [c EXCEPT !.poisoned = TRUE, !.rdl = "kick", !.expired = TRUE,
                      !.kicked = Interrupted]
    /\ UNCHANGED envVars /\ EnvOnly

-----------------------------------------------------------------------------
ReadStep == \/ Fill \/ CommandReadFails \/ RejectLine \/ SkipBlankLine
            \/ ParseLineFails \/ AcceptLine \/ ReadBody \/ CommandCut
            \/ TrailerRejected \/ ReadArgRest \/ ReadSaslResponse
            \/ ReadAuthLiteral \/ ReadScriptLiteral

HandlerStep == \/ HandleCapabilityOrNoop \/ HandleLogout \/ UnknownHandled
               \/ UnknownRejected \/ AuthenticateRefused
               \/ AuthenticateInitialResponse \/ AuthenticateChallenge
               \/ HandleLogin \/ StartTLSRefused \/ StartTLSPipelined
               \/ StartTLSBegins \/ NotAuthenticated \/ HandleScriptCommand
               \/ HandleScriptContent

LoopStep == \/ Greet \/ CheckContext \/ ArmCommandRead \/ ArgsResolved
            \/ RejectArgLiteral \/ BeginArgLiteral \/ Enforce

SessionReturns == SessionSucceeds \/ SessionFails \/ SessionHijacks

ServerStep == ReadStep \/ HandlerStep \/ LoopStep \/ HandshakeAborts

ClientStep == ClientBegins \/ ClientContinues \/ ClientResumes \/ ClientCloses

EnvStep == \/ ClockTicks \/ ContextExpires \/ DeadlineExpires
           \/ ServerCancels \/ ForceReadUnblock

\* A closed connection takes no further step.
Closed == c.pc = "closed" /\ UNCHANGED vars

Next == \/ ServerStep \/ SessionReturns \/ CallbackPanics
        \/ HandshakeSucceeds \/ HandshakeFails
        \/ ClientStep \/ EnvStep \/ Closed

Spec == Init /\ [][Next]_vars

\* The goroutine of the connection runs, callbacks return and a Close that began
\* goes on; timers fire as long as the connection is not authenticated.  Nothing
\* is assumed of the client, nor of the timers of an authenticated connection:
\* its idle timer may be off, and Close must end it without their help.
Fairness == /\ WF_vars(ServerStep) /\ WF_vars(SessionReturns)
            /\ WF_vars(~c.authenticated /\ DeadlineExpires)
            /\ WF_vars(~c.authenticated /\ ClockTicks)
            /\ WF_vars(ForceReadUnblock)

FairSpec == Spec /\ Fairness

-----------------------------------------------------------------------------
(***************************************************************************)
(* Properties.                                                             *)
(***************************************************************************)
\* Every variable has its type: the fields of Conn, the two halves of the
\* byte stream, the client and the environment.
TypeOK ==
    /\ c \in ConnType
    /\ buf \in Seq(Token) /\ net \in Seq(Token) /\ todo \in Seq(Token)
    /\ waiting \in BOOLEAN /\ started \in Nat /\ peerClosed \in BOOLEAN
    /\ shutdown \in BOOLEAN /\ absDone \in BOOLEAN /\ clock \in 0..2

\* MaxErrors is a hard budget: no path through the handlers (bad literals,
\* failed logins, unknown commands, syntax) lets a client go on with another
\* command once the budget is used up, and none overruns it ("no path can
\* bypass MaxErrors", serve).
ErrorBudget ==
    MaxErrors > 0 => /\ c.errorCount <= MaxErrors
                     /\ c.pc \notin {"enforce", "closed"} => c.errorCount < MaxErrors

\* The contract the library keeps towards a Session: a script method runs only
\* after a successful login, a login method only before one, and neither on a
\* connection where the cleartext gate forbids authentication.
SessionContract ==
    /\ c.authenticated => AuthAllowed(c)
    /\ c.pc = "session" =>
          /\ AuthAllowed(c)
          /\ IF c.verb \in AuthVerbs THEN ~c.authenticated
             ELSE c.verb \in ScriptVerbs /\ c.authenticated

\* Every command that is neither hijacked nor cut by a broken socket gets
\* exactly one final response, whichever error path it took; STARTTLS' second
\* capability listing is not one.
OneFinalReply ==
    c.pc = "enforce" /\ ~c.hijacked /\ ~c.wfail =>
       \E i \in DOMAIN c.out :
          /\ c.out[i] \in Final
          /\ \A j \in DOMAIN c.out : c.out[j] \in Final => j = i

\* The server never waits for the client while the client waits for something
\* still in the server's write buffer.
FlushedBeforeBlock == c.pc \in ReadPcs \cup {"handshake"} => ~c.dirty

\* Whenever the server waits for the peer, the socket carries the deadline
\* that the options call for in this state: never none by omission, never one
\* left over from before authentication.
DeadlineFresh ==
    c.pc \in ReadPcs \cup {"handshake"} /\ ~c.poisoned =>
       c.rdl \in NextReadDeadline(c.authenticated)

\* A shutdown that poisoned the connection is never undone: no handler
\* re-arms or clears the expired deadline.
PoisonSticks == c.poisoned => c.expired /\ c.rdl = "kick"

\* OnCommand is given an error exactly for the commands that were answered NO
\* or whose handshake failed: lastErr never leaks from an earlier command and
\* is never forgotten by an error path (broken sockets excepted).
HookAccurate ==
    c.pc = "enforce" /\ c.dispatched /\ ~c.wfail =>
       (c.lastErr <=> \/ \E i \in DOMAIN c.out : c.out[i] = "NO"
                      \/ c.verb = "STARTTLS" /\ c.quit)

\* What OnTimeout is told is true and is what the client was told: an absolute
\* limit is never passed for idleness, an idle client is never reported before
\* its timer ran out, and the report is the last act on the connection, behind
\* the BYE with the same reason.  (Which timers are reported is TimerReported.)
TimeoutTruthful ==
    /\ c.hook # "" => c.pc = "closed"
    /\ c.hook = "idle" => /\ c.expired /\ c.rdl \in {"idle", "auth"}
                          /\ \E i \in DOMAIN c.out : c.out[i] = "BYE-idle"
    /\ c.hook = "absolute" => /\ AbsoluteTimeout /\ clock = 2
                              /\ \E i \in DOMAIN c.out : c.out[i] = "BYE-abs"

\* A response that asked for closing the connection (a committed literal body,
\* a broken stream, the session's wish) is the last one: not one more byte is
\* read, whichever path wrote it, and it is not put off to a later command.
CloseIsPrompt == c.closePending => c.pc \in {"enforce", "closed"}

\* A client that Server.Close finds waiting between two commands is told BYE,
\* whatever the interleaving with timers, arriving bytes and EOF.
IdleKickSaysBye ==
    c.pc = "closed" /\ c.kicked = "idle" /\ ~c.wfail =>
       \E i \in DOMAIN c.out : c.out[i] \in Byes

\* The server and the client agree on the framing: a body read meets a body,
\* and octets sent as a literal body are parsed as commands only after a
\* refusal that came before the literal was looked at (see BodyNeverCommand).
FramingKept ==
    /\ c.pc \in BodyPcs /\ buf \o net # <<>> => Head(buf \o net).k = "body"
    /\ c.misparsed => c.gated

\* No input is lost: a step leaves the unread stream as it is, adds at its
\* end, or consumes its head in a read of serve or a handler; in particular the
\* reader that STARTTLS drops held nothing, and the one handed out by Hijack
\* holds everything the client pipelined.
NoInputLost ==
    [][LET s == buf \o net
           t == buf' \o net'
       IN  \/ t = s
           \/ c.pc \in ReadPcs /\ s # <<>> /\ t = Tail(s)
           \/ t # <<>> /\ s = SubSeq(t, 1, Len(t) - 1)]_vars

\* What a Session sees of its connection.
Phase == IF c.pc = "closed" THEN "closed"
         ELSE IF c.hijacked THEN "hijacked"
         ELSE IF c.authenticated THEN "auth" ELSE "nonauth"

Call == IF c.pc # "session" THEN "none"
        ELSE IF c.verb \in AuthVerbs THEN "login" ELSE "script"

Protocol == INSTANCE SessionProtocol WITH phase <- Phase, tls <- c.isTLS, call <- Call

\* The connection implements the state machine that session.go promises to the
\* author of a Session: no method runs in the wrong state, none after a hijack
\* or the end, TLS is entered once and before authentication, and only a
\* successful login authenticates, whatever the client sends and however its
\* commands, timers and Server.Close interleave.
ImplementsProtocol == Protocol!Spec

\* With a timeout before authentication, a client that stops sending (at any
\* point: before a command, inside a literal or the SASL exchange, in the TLS
\* handshake) does not hold a connection that it has not authenticated on.
SilentClientDropped == ~c.authenticated ~> (c.authenticated \/ c.pc = "closed")

\* Once Server.Close has cancelled the context, the connection ends, also
\* where no timeout is enabled and the client never sends another byte.
ShutdownEnds == shutdown ~> (c.pc = "closed")

(***************************************************************************)
(* Claims of the repository that the code does not keep.                   *)
(***************************************************************************)
\* A literal body is never parsed as commands: the server closes "rather than
\* misparse the body as commands".
BodyNeverCommand == ~c.misparsed

\* A timer that ends a wait of the server for its client is reported: OnTimeout
\* is called "when the server disconnects a client because a connection-level
\* timer expired".
TimerReported ==
    (c.pc \in ReadPcs /\ buf = <<>> /\ c.expired /\ ~peerClosed) ~> (c.hook # "")
=============================================================================
