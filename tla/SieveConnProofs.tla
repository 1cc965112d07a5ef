--------------------------- MODULE SieveConnProofs ----------------------------
(***************************************************************************)
(* The safety theorems of SieveConn: one lemma per action or group of      *)
(* actions, the induction, and the properties it yields.                   *)
(***************************************************************************)
EXTENDS SieveConnLemmas, SequenceTheorems

\* sendGreeting keeps the invariant.
LEMMA GreetStep == ASSUME CI(c), Greet PROVE CI(c')
<1>1. Core(c) /\ c \in ConnType BY DEF Greet, CI, Core
<1>2. "GREETING" \in Replies BY DEF Replies
<1>3. PICK f \in Flush(Write(c, "GREETING")) :
         c' = Goto(f, IF f.wfail THEN "closed" ELSE "top")
      BY DEF Greet
<1> DEFINE w == Write(c, "GREETING")
<1>4. w \in ConnType /\ SameBut(c, w, {"out", "dirty"}) BY <1>1, <1>2, WriteSpec
<1>5. f \in ConnType /\ SameBut(w, f, {"dirty", "wfail"}) /\ (~f.wfail => ~f.dirty)
      BY <1>4, <1>3, FlushSpec
<1> HIDE DEF w
<1>6. SameBut(c, f, {"out", "dirty", "wfail"}) BY <1>4, <1>5 DEF SameBut, Fields
<1>7. CASE f.wfail
  <2>1. c' \in ConnType /\ SameBut(f, c', {"pc"}) /\ c'.pc = "closed"
        BY <1>3, <1>5, <1>7, GotoSpec DEF Pcs
  <2>2. SameBut(c, c', Parting)
        BY <1>6, <2>1 DEF SameBut, Parting, Fields
  <2>3. Ended(c') BY <1>1, <2>1, <2>2, EndedSame
  <2> QED BY <2>1, <2>3 DEF CI
<1>8. CASE ~f.wfail
  <2>1. Core(f) BY <1>1, <1>5, <1>6, <1>8 DEF Core, SameBut, Fields, DeadlineSane,
           AuthAllowed
  <2>2. Core(c') /\ c'.pc = "top" BY <1>3, <1>8, <2>1, CoreGoto DEF Pcs
  <2> QED BY <2>2 DEF CI, Stage, ReadPcs, LinePcs, BodyPcs, AuthPcs, ScriptPcs
<1> QED BY <1>7, <1>8

\* The context check at the top of the loop keeps the invariant.
LEMMA CheckContextStep == ASSUME CI(c), CheckContext PROVE CI(c')
<1>1. Core(c) BY DEF CheckContext, CI
<1> DEFINE x == NextIteration(c)
<1>2. Core(x) /\ NoFinal(x) BY <1>1, IterationSpec
<1> HIDE DEF x
<1>3. CASE c' \in Leave(ShutdownBye(x))
      BY <1>2, <1>3, ShutdownByeEnded, LeaveEnded
<1>4. CASE c' = Goto(x, "arm")
  <2>1. Core(c') /\ c'.pc = "arm" /\ SameBut(x, c', {"pc"}) BY <1>2, <1>4, CoreGoto DEF Pcs
  <2>2. NoFinal(c') BY <1>2, <2>1 DEF NoFinal, SameBut, Fields
  <2> QED BY <2>1, <2>2 DEF CI, Stage, ReadPcs, LinePcs, BodyPcs, AuthPcs, ScriptPcs
<1> QED BY <1>3, <1>4 DEF CheckContext, x

\* Arming the command read keeps the invariant.
LEMMA ArmCommandReadStep == ASSUME CI(c), ArmCommandRead PROVE CI(c')
<1>1. Core(c) /\ NoFinal(c) BY DEF ArmCommandRead, CI, Stage
<1>2. PICK a \in Arm(c) : c' = Goto(a, "line") BY DEF ArmCommandRead
<1>3. /\ Core(a) /\ SameBut(c, a, {"rdl", "expired"})
      /\ ~a.poisoned => a.rdl \in NextReadDeadline(a.authenticated)
      BY <1>1, <1>2, CoreArm
<1>4. Core(c') /\ c'.pc = "line" /\ SameBut(a, c', {"pc"})
      BY <1>2, <1>3, CoreGoto DEF Pcs, ReadPcs, LinePcs
<1>5. NoFinal(c') /\ (~c'.poisoned => c'.rdl \in NextReadDeadline(c'.authenticated))
      BY <1>1, <1>3, <1>4 DEF NoFinal, SameBut, Fields
<1> QED BY <1>4, <1>5, PlainStage

\* A failed command read keeps the invariant.
LEMMA CommandReadFailsStep == ASSUME CI(c), CommandReadFails PROVE CI(c')
<1>1. Core(c) /\ c \in ConnType BY DEF CommandReadFails, CI, Core
<1>2. Ended(c)
  <2>1. SameBut(c, c, Parting)
        BY DEF SameBut, Parting
  <2> QED BY <1>1, <2>1, EndedSame
<1>3. "BYE-abs" \in Replies /\ "BYE-idle" \in Replies BY DEF Replies, Byes
<1>4. PICK x : /\ x \in {ShutdownBye(c), c,
                       [Write(c, "BYE-abs") EXCEPT !.hook = "absolute"],
                       [Write(c, "BYE-idle") EXCEPT !.hook = "idle"]}
               /\ c' \in Leave(x)
      BY DEF CommandReadFails
<1> DEFINE a == [Write(c, "BYE-abs") EXCEPT !.hook = "absolute"]
           i == [Write(c, "BYE-idle") EXCEPT !.hook = "idle"]
           s == ShutdownBye(c)
<1>5. Ended(a) /\ a \in ConnType BY <1>1, <1>3, ByeEnded
<1>6. Ended(i) /\ i \in ConnType BY <1>1, <1>3, ByeEnded
<1>7. Ended(s) /\ s \in ConnType BY <1>1, ShutdownByeEnded
<1>8. x \in {s, c, a, i} BY <1>4
<1> HIDE DEF a, i, s
<1>9. Ended(x) /\ x \in ConnType BY <1>1, <1>2, <1>5, <1>6, <1>7, <1>8
<1> QED BY <1>4, <1>9, LeaveEnded

\* A command line, good or bad, keeps the invariant.
LEMMA ReadLineSteps ==
  ASSUME TypeOK, CI(c), RejectLine \/ SkipBlankLine \/ ParseLineFails \/ AcceptLine
  PROVE  CI(c')
<1>1. Core(c) /\ c \in ConnType /\ NoFinal(c) /\ c.pc = "line"
      BY DEF RejectLine, SkipBlankLine, ParseLineFails, AcceptLine, Takes, CI, Core, Stage
<1>2. CASE RejectLine
  <2>1. "NO" \in Replies BY DEF Replies, Final
  <2>2. PICK x \in {ShutdownBye(c), Write(c, "NO")} : c' \in Leave(x) BY <1>2 DEF RejectLine
  <2>3. Ended(x) /\ x \in ConnType BY <1>1, <2>1, <2>2, ShutdownByeEnded, ByeEnded
  <2> QED BY <2>2, <2>3, LeaveEnded
<1>3. CASE SkipBlankLine
  <2>1. Core(c') /\ c'.pc = "top" BY <1>1, <1>3, CoreGoto DEF SkipBlankLine, Pcs
  <2> QED BY <2>1 DEF CI, Stage, ReadPcs, LinePcs, BodyPcs, AuthPcs, ScriptPcs
<1>4. CASE ParseLineFails
  <2> DEFINE x == Failed(c)
  <2>1. x \in ConnType /\ SameBut(c, x, {"lastErr"}) BY <1>1, FailedSpec
  <2> HIDE DEF x
  <2>2. SameBut(c, x, Bookkeeping)
        BY <2>1 DEF SameBut, Bookkeeping, Fields
  <2>3. Core(x) BY <1>1, <2>1, <2>2, CoreSame
  <2>4. NoFinal(x) BY <1>1, <2>1 DEF NoFinal, SameBut, Fields
  <2>5. c' = Refused(x) BY <1>4 DEF ParseLineFails, Refused, Done, x
  <2> QED BY <2>3, <2>4, <2>5, RefusedEnds
<1>5. CASE AcceptLine
  <2> DEFINE t == Next1
             m == c.misparsed \/ (t.k = "body" /\ t.verb # "ROGUE")
  <2>1. t \in Token BY <1>5 DEF AcceptLine, Takes, TypeOK, Next1
  <2>2. t.verb \in Verbs /\ t.args \in Seq(PlainArgs \cup Literals)
        BY <2>1 DEF Token
  <2>a. m \in BOOLEAN OBVIOUS
  <2>3. c' = [c EXCEPT !.pc = "resolve", !.verb = t.verb, !.args = t.args, !.misparsed = m]
        BY <1>5 DEF AcceptLine
  <2> HIDE DEF t, m
  <2>4. "resolve" \in Pcs BY DEF Pcs
  <2>5. c' \in ConnType BY <1>1, <2>2, <2>a, <2>3, <2>4, Zenon DEF ConnType
  <2>6. c'.pc = "resolve" /\ SameBut(c, c', {"pc", "verb", "args", "misparsed"})
        BY <1>1, <2>3 DEF ConnType, SameBut, Fields
  <2>7. SameBut(c, c', Bookkeeping)
        BY <2>6 DEF SameBut, Bookkeeping, Fields
  <2>8. Core(c') BY <1>1, <2>5, <2>7, CoreSame
  <2>9. NoFinal(c') BY <1>1, <2>6 DEF NoFinal, SameBut, Fields
  <2> QED BY <2>6, <2>8, <2>9, PlainStage
<1> QED BY <1>2, <1>3, <1>4, <1>5

\* resolveLiteralArgs, up to its reads, keeps the invariant.
LEMMA ResolveSteps ==
  ASSUME CI(c), ArgsResolved \/ RejectArgLiteral \/ BeginArgLiteral
  PROVE  CI(c')
<1>1. Core(c) /\ NoFinal(c)
      BY DEF ArgsResolved, RejectArgLiteral, BeginArgLiteral, CI, Stage
<1>2. CASE ArgsResolved
  <2>1. Core(c') /\ c'.pc = "dispatch" /\ SameBut(c, c', {"pc"})
        BY <1>1, <1>2, CoreGoto DEF ArgsResolved, Pcs
  <2>2. NoFinal(c') BY <1>1, <2>1 DEF NoFinal, SameBut, Fields
  <2> QED BY <2>1, <2>2, PlainStage
<1>3. CASE RejectArgLiteral
  <2> DEFINE b == \/ LastArg \in NonSync
                  \/ LastArg \in Oversized /\ buf # <<>>
  <2>1. b \in BOOLEAN OBVIOUS
  <2>2. c' = Goto(MustClose(ClientError(c), b), "enforce") BY <1>3 DEF RejectArgLiteral
  <2> HIDE DEF b
  <2> QED BY <1>1, <2>1, <2>2, RefusedClosing
<1>4. CASE BeginArgLiteral
  <2>1. "argbody" \in ReadPcs /\ ReadsAt(c, "argbody")
        BY DEF ReadPcs, BodyPcs, ReadsAt, AuthPcs, ScriptPcs
  <2>2. c' \in StartLiteral(c, LastArg, "argbody") BY <1>4 DEF BeginArgLiteral
  <2> QED BY <1>1, <2>1, <2>2, StartLiteralStage
<1> QED BY <1>2, <1>3, <1>4

\* What a read inside a command may rely on.
LEMMA ReadingFacts ==
  ASSUME CI(c), c.pc \in ReadPcs
  PROVE  /\ c \in ConnType /\ Core(c) /\ NoFinal(c) /\ ReadsAt(c, c.pc)
         /\ ~c.poisoned => c.rdl \in NextReadDeadline(c.authenticated)
<1>1. c.pc \notin {"enforce", "closed", "greet", "top", "handshake"}
      BY DEF ReadPcs, LinePcs, BodyPcs
<1> QED BY <1>1 DEF CI, Core, Stage, ReadsAt

\* Reading a literal body keeps the invariant.
LEMMA ReadBodyStep == ASSUME TypeOK, CI(c), ReadBody PROVE CI(c')
<1> DEFINE v == Val(Next1)
           l == AfterBody[c.pc]
<1>1. c.pc \in BodyPcs /\ c.pc \in ReadPcs BY DEF ReadBody, ReadPcs
<1>2. /\ c \in ConnType /\ Core(c) /\ NoFinal(c) /\ ReadsAt(c, c.pc)
      /\ ~c.poisoned => c.rdl \in NextReadDeadline(c.authenticated)
      BY <1>1, ReadingFacts
<1>3. Next1 \in Token BY DEF ReadBody, Takes, TypeOK, Next1
<1>4. v \in PlainArgs \cup Literals BY <1>3, ValType
<1>5. /\ l \in {"argrest", "authcrlf", "scriptcrlf"}
      /\ l \in AuthPcs => c.pc \in AuthPcs
      /\ l \in ScriptPcs => c.pc \in ScriptPcs
      BY <1>1 DEF AfterBody, BodyPcs, AuthPcs, ScriptPcs
<1>6. l \in Pcs /\ l \in ReadPcs BY <1>5 DEF Pcs, ReadPcs, LinePcs
<1>7. c' = [c EXCEPT !.val = v, !.pc = l] BY DEF ReadBody
<1> HIDE DEF v, l
<1>8. c' \in ConnType BY <1>2, <1>4, <1>6, <1>7, Zenon DEF ConnType
<1>9. c'.pc = l /\ SameBut(c, c', {"pc", "val"}) BY <1>2, <1>7 DEF ConnType, SameBut, Fields
<1>10. SameBut(c, c', Bookkeeping)
       BY <1>9 DEF SameBut, Bookkeeping, Fields
<1>11. Core(c') BY <1>2, <1>8, <1>10, CoreSame
<1>12. /\ NoFinal(c') /\ ReadsAt(c', l)
       /\ ~c'.poisoned => c'.rdl \in NextReadDeadline(c'.authenticated)
       BY <1>2, <1>5, <1>9 DEF NoFinal, ReadsAt, AuthAllowed, SameBut, Fields
<1>13. Stage(c') BY <1>5, <1>9, <1>12 DEF Stage, ReadsAt, ReadPcs, LinePcs, BodyPcs
<1> QED BY <1>5, <1>9, <1>11, <1>13 DEF CI

\* A read cut by a deadline, EOF or bad framing keeps the invariant.
LEMMA CutSteps == ASSUME CI(c), CommandCut \/ TrailerRejected, TypeOK PROVE CI(c')
<1>1. c.pc \in ReadPcs BY DEF CommandCut, TrailerRejected, ReadPcs
<1>2. c \in ConnType /\ Core(c) /\ NoFinal(c) BY <1>1, ReadingFacts
<1>3. CASE TrailerRejected BY <1>2, <1>3, GiveUpReadEnds DEF TrailerRejected
<1>4. CASE CommandCut BY <1>2, <1>4, GiveUpReadEnds DEF CommandCut
<1> QED BY <1>3, <1>4

\* What a handler may rely on after it cleared the deadline of its read.
LEMMA DisarmedFacts ==
  ASSUME CI(c), c.pc \in ReadPcs
  PROVE  LET x == SetReadDeadline(c, "none") IN
         /\ x \in ConnType /\ Core(x) /\ NoFinal(x) /\ ReadsAt(x, c.pc)
         /\ c.pc \in AuthPcs \cup ScriptPcs => CallsSession(x)
         /\ SameBut(c, x, {"rdl", "expired"})
<1> DEFINE x == SetReadDeadline(c, "none")
<1>1. c \in ConnType /\ Core(c) /\ NoFinal(c) /\ ReadsAt(c, c.pc) BY ReadingFacts
<1>2. /\ Core(x) /\ SameBut(c, x, {"rdl", "expired"})
      /\ ~c.poisoned => x.rdl = "none"
      BY <1>1, CoreDisarm
<1> HIDE DEF x
<1>3. x \in ConnType BY <1>2 DEF Core
<1>4. NoFinal(x) /\ ReadsAt(x, c.pc)
      BY <1>1, <1>2 DEF NoFinal, ReadsAt, AuthAllowed, SameBut, Fields
<1>5. ~x.poisoned => x.rdl = "none" BY <1>2 DEF SameBut, Fields
<1>6. c.pc \in AuthPcs => CallsSession(x)
      BY <1>4, <1>5 DEF ReadsAt, CallsSession, AuthVerbs
<1>7. c.pc \in ScriptPcs => CallsSession(x)
      BY <1>2, <1>4, <1>5 DEF ReadsAt, CallsSession, AuthVerbs, ContentVerbs,
               ScriptVerbs, Core
<1> QED BY <1>2, <1>3, <1>4, <1>6, <1>7 DEF x

\* The rest of the line behind an argument keeps the invariant.
LEMMA ReadArgRestStep == ASSUME TypeOK, CI(c), ReadArgRest PROVE CI(c')
<1> DEFINE x == SetReadDeadline(c, "none")
           n == Len(c.args)
           v == Requoted(c.verb, n, c.val)
           s == SubSeq(x.args, 1, n - 1) \o <<v>> \o Next1.args
<1>1. c.pc = "argrest" /\ c.pc \in ReadPcs BY DEF ReadArgRest, Takes, ReadPcs, LinePcs
<1>2. c \in ConnType /\ x \in ConnType /\ Core(x) /\ NoFinal(x)
      BY <1>1, DisarmedFacts, ReadingFacts
<1>3. CASE c' = Goto(ClientError(Failed(x)), "enforce")
  <2> DEFINE y == Failed(x)
  <2> HIDE DEF x
  <2>1. y \in ConnType /\ SameBut(x, y, {"lastErr"}) BY <1>2, FailedSpec
  <2> HIDE DEF y
  <2>2. SameBut(x, y, Bookkeeping)
        BY <2>1 DEF SameBut, Bookkeeping, Fields
  <2>3. Core(y) BY <1>2, <2>1, <2>2, CoreSame
  <2>4. NoFinal(y) BY <1>2, <2>1 DEF NoFinal, SameBut, Fields
  <2>5. c' = Refused(y) BY <1>3 DEF Refused, Done, y
  <2> QED BY <2>3, <2>4, <2>5, RefusedEnds
<1>4. CASE c' = [x EXCEPT !.pc = "resolve", !.args = s]
  <2>1. Next1 \in Token BY DEF ReadArgRest, Takes, TypeOK, Next1
  <2>2. Next1.args \in Seq(PlainArgs \cup Literals) BY <2>1 DEF Token
  <2>3. c.val \in PlainArgs \cup Literals /\ x.args \in Seq(PlainArgs \cup Literals)
        /\ x.args = c.args
    <3> HIDE DEF x
    <3>1. SameBut(c, x, {"rdl", "expired"}) BY <1>1, DisarmedFacts DEF x
    <3> QED BY <1>2, <3>1 DEF ConnType, SameBut, Fields
  <2>4. SubSeq(x.args, 1, n - 1) \in Seq(PlainArgs \cup Literals)
    <3>1. n \in Nat /\ n = Len(x.args) BY <2>3
    <3>2. \A i \in 1..(n - 1) : x.args[i] \in PlainArgs \cup Literals
          BY <2>3, <3>1, ElementOfSeq
    <3> QED BY <3>1, <3>2, SubSeqProperties, <2>3
  <2>a. v \in PlainArgs \cup Literals BY <2>3, Zenon DEF Requoted, PlainArgs
  <2> HIDE DEF v
  <2>5. s \in Seq(PlainArgs \cup Literals) BY <2>2, <2>4, <2>a
  <2> HIDE DEF s, x
  <2>6. "resolve" \in Pcs BY DEF Pcs
  <2>7. c' \in ConnType BY <1>2, <1>4, <2>5, <2>6, Zenon DEF ConnType
  <2>8. c'.pc = "resolve" /\ SameBut(x, c', {"pc", "args"})
        BY <1>2, <1>4 DEF ConnType, SameBut, Fields
  <2>9. SameBut(x, c', Bookkeeping)
        BY <2>8 DEF SameBut, Bookkeeping, Fields
  <2>10. Core(c') BY <1>2, <2>7, <2>9, CoreSame
  <2>11. NoFinal(c') BY <1>2, <2>8 DEF NoFinal, SameBut, Fields
  <2> QED BY <2>8, <2>10, <2>11, PlainStage
<1> QED BY <1>3, <1>4 DEF ReadArgRest

\* The ends of the SASL and script literal reads keep the invariant.
LEMMA ResponseSteps ==
  ASSUME CI(c), ReadSaslResponse \/ ReadAuthLiteral \/ ReadScriptLiteral
  PROVE  CI(c')
<1> DEFINE x == SetReadDeadline(c, "none")
<1>1. c.pc \in AuthPcs \cup ScriptPcs /\ c.pc \in ReadPcs
      BY DEF ReadSaslResponse, ReadAuthLiteral, ReadScriptLiteral, Takes,
             AuthPcs, ScriptPcs, ReadPcs, LinePcs
<1>2. Core(x) /\ NoFinal(x) /\ CallsSession(x) /\ ReadsAt(x, c.pc)
      BY <1>1, DisarmedFacts
<1> HIDE DEF x
<1>3. CASE ReadSaslResponse
  <2> DEFINE v == Val(Next1)
  <2>1. ReadsAt(x, "authbody")
        BY <1>2, <1>3 DEF ReadSaslResponse, Takes, ReadsAt, AuthPcs, ScriptPcs
  <2>2. \/ c' = Done(Write(Failed(x), "NO"))
        \/ c' \in StartAuthLiteral(x, v)
        \/ c' = AuthPayload(x, v)
        BY <1>3 DEF ReadSaslResponse, Done, x
  <2>3. End(Write(Failed(x), "NO")) BY <1>2, FailureEnds
  <2> HIDE DEF v
  <2> QED BY <1>2, <2>1, <2>2, <2>3, DoneEnds, StartAuthLiteralStage, AuthPayloadStage
<1>4. CASE ReadAuthLiteral
      BY <1>2, <1>4, AuthPayloadStage DEF ReadAuthLiteral, x
<1>5. CASE ReadScriptLiteral
      BY <1>2, <1>5, ScriptContentStage DEF ReadScriptLiteral, x
<1> QED BY <1>3, <1>4, <1>5

\* What every handler finds when dispatch calls it.
LEMMA DispatchFacts ==
  ASSUME CI(c), c.pc = "dispatch"
  PROVE  LET x == Executing(c) IN
         /\ Core(x) /\ NoFinal(x) /\ ~x.lastErr
         /\ x.verb = c.verb /\ x.authenticated = c.authenticated
         /\ x.isTLS = c.isTLS /\ x.args = c.args
         /\ ~x.poisoned => x.rdl = "none"
<1> DEFINE x == Executing(c)
<1>1. Core(c) /\ NoFinal(c) BY DEF CI, Stage
<1>2. /\ Core(x) /\ ~x.lastErr
      /\ SameBut(c, x, {"rdl", "expired", "lastErr", "dispatched"})
      /\ ~c.poisoned => x.rdl = "none"
      BY <1>1, CoreExecuting
<1> HIDE DEF x
<1>3. /\ x.verb = c.verb /\ x.authenticated = c.authenticated
      /\ x.isTLS = c.isTLS /\ x.args = c.args
      /\ x.poisoned = c.poisoned /\ x.out = c.out
      BY <1>2 DEF SameBut, Fields
<1>4. NoFinal(x) BY <1>1, <1>3 DEF NoFinal
<1> QED BY <1>2, <1>3, <1>4 DEF x

\* The handlers that answer at once keep the invariant.
LEMMA SimpleHandlerSteps ==
  ASSUME CI(c), \/ HandleCapabilityOrNoop \/ HandleLogout \/ UnknownHandled
                \/ UnknownRejected \/ NotAuthenticated \/ AuthenticateRefused
                \/ StartTLSRefused
  PROVE  CI(c')
<1> DEFINE x == Executing(c)
<1>1. c.pc = "dispatch"
      BY DEF HandleCapabilityOrNoop, HandleLogout, UnknownHandled, UnknownRejected,
             NotAuthenticated, AuthenticateRefused, StartTLSRefused, Dispatches
<1>2. Core(x) /\ NoFinal(x) /\ ~x.lastErr /\ x.verb = c.verb BY <1>1, DispatchFacts
<1> HIDE DEF x
<1>3. End(Refused(x)) /\ CI(Refused(x)) /\ Refused(x).pc = "enforce" BY <1>2, RefusedEnds
<1>4. ASSUME NEW r \in {"OK", "EXT"}
      PROVE  LET y == Done(Write(x, r)) IN
             CI(y) /\ End(y) /\ y.pc = "enforce" /\ y.verb = c.verb
  <2> DEFINE w == Write(x, r)
             y == Done(w)
  <2>1. End(w) /\ SameBut(x, w, {"out", "dirty"}) BY <1>2, SuccessEnds
  <2> HIDE DEF w
  <2>2. CI(y) /\ End(y) /\ y.pc = "enforce" /\ SameBut(w, y, {"pc"}) BY <2>1, DoneEnds
  <2> HIDE DEF y
  <2>3. y.verb = c.verb BY <1>2, <2>1, <2>2 DEF SameBut, Fields
  <2> QED BY <2>2, <2>3 DEF y, w
<1>5. CASE HandleCapabilityOrNoop BY <1>4, <1>5 DEF HandleCapabilityOrNoop, x
<1>6. CASE HandleLogout
  <2>1. c' = [Done(Write(x, "OK")) EXCEPT !.quit = TRUE] /\ c.verb = "LOGOUT"
        BY <1>6 DEF HandleLogout, Dispatches, AndQuit, x
  <2> QED BY <1>4, <2>1, QuitEnds
<1>7. CASE UnknownHandled
  <2>1. PICK close \in BOOLEAN : c' = [Done(Write(x, "EXT")) EXCEPT !.quit = close]
        BY <1>7 DEF UnknownHandled, x
  <2>2. c.verb # "STARTTLS" BY <1>7 DEF UnknownHandled, Unrecognised, KnownVerbs
  <2> QED BY <1>4, <2>1, <2>2, QuitEnds
<1>8. CASE UnknownRejected
  <2> DEFINE y == Failed(x)
  <2>1. x \in ConnType BY <1>2 DEF Core
  <2>2. y \in ConnType /\ SameBut(x, y, {"lastErr"}) BY <2>1, FailedSpec
  <2>3. c' = Refused(y) BY <1>8 DEF UnknownRejected, x
  <2> HIDE DEF y
  <2>4. SameBut(x, y, Bookkeeping)
        BY <2>2 DEF SameBut, Bookkeeping, Fields
  <2>5. Core(y) BY <1>2, <2>2, <2>4, CoreSame
  <2>6. NoFinal(y) BY <1>2, <2>2 DEF NoFinal, SameBut, Fields
  <2> QED BY <2>3, <2>5, <2>6, RefusedEnds
<1>9. CASE NotAuthenticated \/ AuthenticateRefused
      BY <1>3, <1>9, AbandonsBodyEnds DEF NotAuthenticated, AuthenticateRefused, x
<1>10. CASE StartTLSRefused BY <1>3, <1>10 DEF StartTLSRefused, x
<1> QED BY <1>5, <1>6, <1>7, <1>8, <1>9, <1>10

\* handleAuthenticate and handleLogin keep the invariant.
LEMMA AuthenticateSteps ==
  ASSUME CI(c), AuthenticateInitialResponse \/ AuthenticateChallenge \/ HandleLogin
  PROVE  CI(c')
<1> DEFINE x == Executing(c)
<1>1. c.pc = "dispatch" /\ c.verb \in AuthVerbs
      BY DEF AuthenticateInitialResponse, AuthenticateChallenge, HandleLogin,
             AuthenticateAccepted, Dispatches, AuthVerbs
<1>2. /\ Core(x) /\ NoFinal(x) /\ ~x.lastErr
      /\ x.verb = c.verb /\ x.authenticated = c.authenticated /\ x.isTLS = c.isTLS
      /\ ~x.poisoned => x.rdl = "none"
      BY <1>1, DispatchFacts
<1> HIDE DEF x
<1>3. ~c.authenticated /\ AuthAllowed(c) => CallsSession(x)
      BY <1>1, <1>2 DEF CallsSession, AuthAllowed
<1>4. CASE AuthenticateInitialResponse \/ AuthenticateChallenge
  <2>1. c.verb = "AUTHENTICATE" /\ ~c.authenticated /\ AuthAllowed(c)
        BY <1>4 DEF AuthenticateInitialResponse, AuthenticateChallenge,
                    AuthenticateAccepted, MayAuthenticate, Dispatches
  <2>2. ReadsAt(x, "authbody") /\ ReadsAt(x, "contline")
        BY <1>2, <2>1 DEF ReadsAt, AuthAllowed, AuthPcs, ScriptPcs
  <2>3. CASE AuthenticateInitialResponse
    <3>1. c' \in StartAuthLiteral(x, c.args[2]) \/ c' = AuthPayload(x, c.args[2])
          BY <2>3 DEF AuthenticateInitialResponse, x
    <3> QED BY <1>2, <1>3, <2>1, <2>2, <3>1, StartAuthLiteralStage, AuthPayloadStage
  <2>4. CASE AuthenticateChallenge
    <3>1. "CHALLENGE" \in Replies /\ "CHALLENGE" \notin Final BY DEF Replies, Final
    <3>2. PICK f \in Flush(Write(x, "CHALLENGE")) :
             IF f.wfail THEN c' = Done(MustClose(f, TRUE))
                        ELSE \E a \in Arm(f) : c' = Goto(a, "contline")
          BY <2>4 DEF AuthenticateChallenge, x
    <3>3. /\ SameBut(x, f, {"out", "dirty", "wfail"}) /\ NoFinal(f)
          /\ f.wfail => End(f)
          /\ ~f.wfail => Core(f)
          BY <1>2, <3>1, <3>2, PromptSent
    <3>4. ReadsAt(f, "contline") BY <2>2, <3>3 DEF ReadsAt, AuthAllowed, SameBut, Fields
    <3>5. CASE f.wfail BY <3>2, <3>3, <3>5, MustCloseEnds, DoneEnds
    <3>6. CASE ~f.wfail
          BY <3>2, <3>3, <3>4, <3>6, ReadStage DEF ReadPcs, LinePcs
    <3> QED BY <3>5, <3>6
  <2> QED BY <1>4, <2>3, <2>4
<1>5. CASE HandleLogin
  <2>1. \/ c' = Refused(x)
        \/ c' = Goto(x, "session") /\ ~c.authenticated /\ AuthAllowed(c)
        BY <1>5 DEF HandleLogin, x
  <2> QED BY <1>2, <1>3, <2>1, RefusedEnds, SessionStage
<1> QED BY <1>4, <1>5

\* handleStartTLS up to the handshake keeps the invariant.
LEMMA StartTLSSteps ==
  ASSUME CI(c), StartTLSPipelined \/ StartTLSBegins
  PROVE  CI(c')
<1> DEFINE x == Executing(c)
<1>1. c.pc = "dispatch" /\ c.verb = "STARTTLS" /\ ~c.authenticated
      BY DEF StartTLSPipelined, StartTLSBegins, StartTLSAccepted, Dispatches
<1>2. /\ Core(x) /\ NoFinal(x) /\ ~x.lastErr
      /\ x.verb = c.verb /\ x.authenticated = c.authenticated
      BY <1>1, DispatchFacts
<1> HIDE DEF x
<1>3. CASE StartTLSPipelined
  <2> DEFINE w == Write(Failed(x), "NO")
             y == Done(w)
  <2>1. End(w) BY <1>2, FailureEnds
  <2>2. w.lastErr
    <3>1. x \in ConnType BY <1>2 DEF Core
    <3>2. Failed(x) \in ConnType /\ Failed(x).lastErr BY <3>1, FailedSpec
    <3>3. SameBut(Failed(x), w, {"out", "dirty"}) BY <3>2, WriteSpec DEF Replies, Final
    <3> QED BY <3>2, <3>3 DEF SameBut, Fields
  <2> HIDE DEF w
  <2>3. End(y) /\ y.pc = "enforce" /\ SameBut(w, y, {"pc"}) BY <2>1, DoneEnds
  <2>4. y.lastErr BY <2>2, <2>3 DEF SameBut, Fields
  <2>5. c' = [y EXCEPT !.quit = TRUE] BY <1>3 DEF StartTLSPipelined, AndQuit, x, w
  <2> QED BY <2>3, <2>4, <2>5, QuitEnds
<1>4. CASE StartTLSBegins
  <2>1. "OK" \in Replies /\ "OK" \in Final BY DEF Replies, Final
  <2>2. PICK f \in Flush(Write(x, "OK")) :
           IF f.wfail THEN c' = AndQuit(Done(f))
                      ELSE \E a \in Arm(f) : c' = Goto(a, "handshake")
        BY <1>4 DEF StartTLSBegins, x
  <2>3. /\ SameBut(x, f, {"out", "dirty", "wfail"}) /\ OneFinal(f) /\ ~SaidNo(f)
        /\ f.wfail => End(f)
        /\ ~f.wfail => Core(f)
        BY <1>2, <2>1, <2>2, PromptSent
  <2>4. CASE f.wfail
    <3> DEFINE y == Done(f)
    <3>1. End(y) /\ y.pc = "enforce" /\ SameBut(f, y, {"pc"}) BY <2>3, <2>4, DoneEnds
    <3>2. y.wfail BY <2>4, <3>1 DEF SameBut, Fields
    <3>3. c' = [y EXCEPT !.quit = TRUE] BY <2>2, <2>4 DEF AndQuit
    <3> QED BY <3>1, <3>2, <3>3, QuitEnds
  <2>5. CASE ~f.wfail
    <3>1. PICK a \in Arm(f) : c' = Goto(a, "handshake") BY <2>2, <2>5
    <3>2. /\ Core(a) /\ SameBut(f, a, {"rdl", "expired"})
          /\ ~a.poisoned => a.rdl \in NextReadDeadline(a.authenticated)
          BY <2>3, <2>5, <3>1, CoreArm
    <3>3. Core(c') /\ c'.pc = "handshake" /\ SameBut(a, c', {"pc"})
          BY <3>1, <3>2, CoreGoto DEF Pcs
    <3>4. SameBut(x, c', {"pc", "out", "dirty", "wfail", "rdl", "expired"})
             /\ c'.out = f.out
          /\ (~c'.poisoned => c'.rdl \in NextReadDeadline(c'.authenticated))
          BY <2>3, <3>2, <3>3 DEF SameBut, Fields
    <3>5. /\ OneFinal(c') /\ ~SaidNo(c')
          /\ c'.verb = "STARTTLS" /\ ~c'.authenticated /\ ~c'.lastErr
          BY <1>1, <1>2, <2>3, <3>4 DEF OneFinal, SaidNo, SameBut, Fields
    <3> QED BY <3>3, <3>4, <3>5 DEF CI, Stage, AuthPcs, ScriptPcs
  <2> QED BY <2>4, <2>5
<1> QED BY <1>3, <1>4

\* The end of the handshake, however it ends, keeps the invariant.
LEMMA HandshakeSteps ==
  ASSUME CI(c), HandshakeSucceeds \/ HandshakeFails \/ HandshakeAborts
  PROVE  CI(c')
<1> DEFINE x == SetReadDeadline(c, "none")
<1>1. /\ Core(c) /\ c.verb = "STARTTLS" /\ ~c.authenticated /\ ~c.lastErr
      /\ OneFinal(c) /\ ~SaidNo(c)
      BY DEF HandshakeSucceeds, HandshakeFails, HandshakeAborts, CI, Stage
<1>2. Core(x) /\ SameBut(c, x, {"rdl", "expired"}) BY <1>1, CoreDisarm
<1> HIDE DEF x
<1>3. /\ x \in ConnType /\ x.verb = "STARTTLS" /\ ~x.authenticated /\ ~x.lastErr
      /\ OneFinal(x) /\ ~SaidNo(x) /\ x.errorCount \in Nat /\ MaxErrors \in Nat
  <2>1. x \in ConnType BY <1>2 DEF Core
  <2>2. x.errorCount \in Nat /\ MaxErrors \in Nat BY <2>1, OptionsAssumption DEF ConnType
  <2>3. x.verb = "STARTTLS" /\ ~x.authenticated /\ ~x.lastErr
        BY <1>1, <1>2 DEF SameBut, Fields
  <2>4. OneFinal(x) /\ ~SaidNo(x) BY <1>1, <1>2 DEF SameBut, Fields, OneFinal, SaidNo
  <2> QED BY <2>1, <2>2, <2>3, <2>4
<1>4. CASE HandshakeFails \/ HandshakeAborts
  <2> DEFINE f == Failed(x)
             g == Goto(f, "enforce")
             y == AndQuit(g)
  <2>1. c' = y BY <1>4 DEF HandshakeFails, HandshakeAborts, HandshakeFailed, Done, x
  <2>2. f \in ConnType /\ SameBut(x, f, {"lastErr"}) /\ f.lastErr BY <1>3, FailedSpec
  <2> HIDE DEF f
  <2>3. g \in ConnType /\ SameBut(f, g, {"pc"}) /\ g.pc = "enforce"
        BY <2>2, GotoSpec DEF Pcs
  <2> HIDE DEF g
  <2>4. y \in ConnType /\ SameBut(g, y, {"quit"}) /\ y.quit BY <2>3, AndQuitSpec
  <2> HIDE DEF y
  <2>5. SameBut(x, y, {"lastErr", "pc", "quit"}) /\ y.lastErr /\ y.pc = "enforce"
        BY <2>2, <2>3, <2>4 DEF SameBut, Fields
  <2>6. OneFinal(y) /\ y.verb = "STARTTLS" BY <1>3, <2>5 DEF OneFinal, SameBut, Fields
  <2>7. DeadlineSane(y) /\ (y.authenticated => AuthAllowed(y))
        BY <1>2, <2>5 DEF Core, DeadlineSane, AuthAllowed, SameBut, Fields
  <2>8. MaxErrors > 0 => y.errorCount <= MaxErrors
        BY <1>2, <1>3, <2>5 DEF Core, SameBut, Fields
  <2>9. End(y) BY <2>4, <2>5, <2>6, <2>7, <2>8 DEF End
  <2> QED BY <2>1, <2>5, <2>9 DEF CI
<1>5. CASE HandshakeSucceeds
  <2> DEFINE t == [x EXCEPT !.isTLS = TRUE]
             w == Write(t, "GREETING")
             y == Goto(w, "enforce")
  <2>1. c' = y BY <1>5 DEF HandshakeSucceeds, Done, x
  <2>2. t \in ConnType BY <1>3, Zenon DEF ConnType
  <2>3. SameBut(x, t, {"isTLS"}) /\ t.isTLS BY <1>3 DEF ConnType, SameBut, Fields
  <2> HIDE DEF t
  <2>4. "GREETING" \in Replies /\ "GREETING" \notin Final BY DEF Replies, Final, Byes
  <2>5. /\ w \in ConnType /\ SameBut(t, w, {"out", "dirty"})
        /\ w.out = Append(t.out, "GREETING")
        BY <2>2, <2>4, WriteSpec
  <2> HIDE DEF w
  <2>6. y \in ConnType /\ SameBut(w, y, {"pc"}) /\ y.pc = "enforce"
        BY <2>5, GotoSpec DEF Pcs
  <2> HIDE DEF y
  <2>7. /\ SameBut(x, y, {"isTLS", "out", "dirty", "pc"}) /\ y.isTLS
        /\ y.out = Append(x.out, "GREETING")
        BY <2>3, <2>5, <2>6 DEF SameBut, Fields
  <2>8. OneFinal(y) /\ ~SaidNo(y)
    <3> DEFINE s == x.out
               n == Len(s) + 1
               u == Append(s, "GREETING")
    <3>1. s \in Seq(Replies) BY <1>3 DEF ConnType
    <3>2. PICK i \in DOMAIN s : s[i] \in Final
             /\ \A j \in DOMAIN s : s[j] \in Final => j = i
          BY <1>3 DEF OneFinal
    <3>3. \A j \in DOMAIN s : s[j] # "NO" BY <1>3 DEF SaidNo
    <3> HIDE DEF s
    <3>4. /\ u[n] = "GREETING"
          /\ \A j \in DOMAIN u : j # n => j \in DOMAIN s /\ u[j] = s[j]
          /\ \A j \in DOMAIN s : j \in DOMAIN u /\ u[j] = s[j]
          BY <3>1
    <3>5. y.out = u BY <2>7 DEF s
    <3> HIDE DEF u, n
    <3>6. \E k \in DOMAIN u : u[k] \in Final /\ \A j \in DOMAIN u : u[j] \in Final => j = k
          BY <2>4, <3>2, <3>4
    <3>7. \A j \in DOMAIN u : u[j] # "NO" BY <3>3, <3>4
    <3> QED BY <3>5, <3>6, <3>7 DEF OneFinal, SaidNo
  <2>9. /\ ~y.authenticated /\ ~y.lastErr /\ ~y.quit
        BY <1>2, <1>3, <2>7 DEF Core, SameBut, Fields
  <2>10. DeadlineSane(y) BY <1>2, <2>7 DEF Core, DeadlineSane, SameBut, Fields
  <2>11. MaxErrors > 0 => y.errorCount <= MaxErrors
        BY <1>2, <1>3, <2>7 DEF Core, SameBut, Fields
  <2>12. End(y) BY <2>6, <2>8, <2>9, <2>10, <2>11 DEF End
  <2> QED BY <2>1, <2>6, <2>12 DEF CI
<1> QED BY <1>4, <1>5

\* The script command handlers keep the invariant.
LEMMA ScriptHandlerSteps ==
  ASSUME CI(c), HandleScriptCommand \/ HandleScriptContent
  PROVE  CI(c')
<1> DEFINE x == Executing(c)
<1>1. c.pc = "dispatch" /\ c.verb \in ScriptVerbs /\ c.authenticated
      BY DEF HandleScriptCommand, HandleScriptContent, Dispatches, ScriptVerbs, ContentVerbs
<1>2. /\ Core(x) /\ NoFinal(x) /\ ~x.lastErr
      /\ x.verb = c.verb /\ x.authenticated = c.authenticated
      /\ ~x.poisoned => x.rdl = "none"
      BY <1>1, DispatchFacts
<1> HIDE DEF x
<1>3. CallsSession(x) BY <1>1, <1>2 DEF CallsSession, Core, ScriptVerbs, AuthVerbs
<1>4. CASE HandleScriptCommand
  <2>1. c' \in {Refused(x), Done(QuotaMaxSize(x)), Goto(x, "session")}
        BY <1>4 DEF HandleScriptCommand, x
  <2>2. CI(Refused(x)) BY <1>2, RefusedEnds
  <2>3. CI(Done(QuotaMaxSize(x))) BY <1>2, QuotaEnds
  <2>4. CI(Goto(x, "session")) BY <1>2, <1>3, SessionStage
  <2> QED BY <2>1, <2>2, <2>3, <2>4
<1>5. CASE HandleScriptContent
  <2>1. \/ c' = Refused(x)
        \/ c' = ScriptContent(x, ContentArg)
        \/ \E b \in BOOLEAN : c' = MustClose(Refused(x), b)
        \/ \E b \in BOOLEAN : c' = MustClose(Done(QuotaMaxSize(x)), b)
        \/ c' \in StartLiteral(x, ContentArg, "scriptbody")
    <3> DEFINE b1 == ContentArg \in NonSync
               b2 == ContentArg \in NonSync \/ buf # <<>>
    <3>1. b1 \in BOOLEAN /\ b2 \in BOOLEAN OBVIOUS
    <3>2. \/ c' = Refused(x)
          \/ c' = ScriptContent(x, ContentArg)
          \/ c' = MustClose(Refused(x), b1)
          \/ c' = MustClose(Done(QuotaMaxSize(x)), b2)
          \/ c' \in StartLiteral(x, ContentArg, "scriptbody")
          BY <1>5, Zenon DEF HandleScriptContent, x
    <3> HIDE DEF b1, b2
    <3> QED BY <3>1, <3>2
  <2>2. ReadsAt(x, "scriptbody") /\ "scriptbody" \in ReadPcs
        BY <1>1, <1>2, <1>5 DEF ReadsAt, AuthPcs, ScriptPcs, ReadPcs, BodyPcs,
                                HandleScriptContent, Dispatches
  <2>3. ASSUME NEW y, End(y), y.pc = "enforce", NEW b \in BOOLEAN
        PROVE  CI(MustClose(y, b))
    <3>1. y \in ConnType BY <2>3 DEF End
    <3>2. SameBut(y, MustClose(y, b), {"closePending"}) BY <3>1, MustCloseSpec
    <3>3. MustClose(y, b).pc = "enforce" BY <2>3, <3>2 DEF SameBut, Fields
    <3> QED BY <2>3, <3>3, MustCloseEnds DEF CI
  <2>4. End(Refused(x)) /\ CI(Refused(x)) /\ Refused(x).pc = "enforce" BY <1>2, RefusedEnds
  <2>5. End(Done(QuotaMaxSize(x))) /\ Done(QuotaMaxSize(x)).pc = "enforce"
        BY <1>2, QuotaEnds
  <2>6. CI(ScriptContent(x, ContentArg)) BY <1>2, <1>3, ScriptContentStage
  <2> QED BY <1>2, <2>1, <2>2, <2>3, <2>4, <2>5, <2>6, StartLiteralStage
<1> QED BY <1>4, <1>5

\* The return of a session callback, a hijacking one included, keeps the
\* invariant.
LEMMA SessionReturnsStep == ASSUME CI(c), SessionReturns PROVE CI(c')
<1>1. c.pc = "session"
      BY DEF SessionReturns, SessionSucceeds, SessionFails, SessionHijacks
<1>2. /\ Core(c) /\ NoFinal(c) /\ AuthAllowed(c) /\ ~c.lastErr
      /\ ~c.poisoned => c.rdl = "none"
      BY <1>1 DEF CI, Stage
<1>3. c \in ConnType BY <1>2 DEF Core
<1>4. CASE SessionSucceeds
  <2> DEFINE b == c.authenticated \/ c.verb \in AuthVerbs
             y == [c EXCEPT !.authenticated = b]
  <2>1. b \in BOOLEAN OBVIOUS
  <2>2. c' = Done(Write(y, "OK")) BY <1>4 DEF SessionSucceeds
  <2> HIDE DEF b
  <2>3. y \in ConnType BY <1>3, <2>1, Zenon DEF ConnType
  <2>4. SameBut(c, y, {"authenticated"}) BY <1>3 DEF ConnType, SameBut, Fields
  <2> HIDE DEF y
  <2>5. DeadlineSane(y) BY <1>2, <2>4 DEF DeadlineSane, Core, SameBut, Fields
  <2>6. Core(y) /\ NoFinal(y) /\ ~y.lastErr
        BY <1>2, <2>3, <2>4, <2>5 DEF Core, NoFinal, AuthAllowed, SameBut, Fields
  <2> QED BY <2>2, <2>6, SuccessEnds, DoneEnds
<1>5. CASE SessionFails
  <2>1. PICK b \in BOOLEAN : c' = Done(AuthFailure(c, b)) \/ c' = Done(SessionError(c, b))
        BY <1>5 DEF SessionFails
  <2> QED BY <1>2, <2>1, SessionErrorEnds, DoneEnds
<1>6. CASE SessionHijacks
  <2> DEFINE a == SetReadDeadline(c, "none")
             y == [a EXCEPT !.hijacked = TRUE]
  <2>1. c' \in {Done(y), Done(AuthFailure(y, FALSE))} BY <1>6 DEF SessionHijacks
  <2>2. Core(a) /\ SameBut(c, a, {"rdl", "expired"}) BY <1>2, CoreDisarm
  <2>3. a \in ConnType BY <2>2 DEF Core
  <2> HIDE DEF a
  <2>4. y \in ConnType BY <2>3, Zenon DEF ConnType
  <2>5. SameBut(a, y, {"hijacked"}) /\ y.hijacked BY <2>3 DEF ConnType, SameBut, Fields
  <2> HIDE DEF y
  <2>6. Live(y) BY <2>2, <2>4, <2>5 DEF Core, Live, DeadlineSane, AuthAllowed, SameBut,
           Fields
  <2>7. NoFinal(y) /\ ~y.lastErr /\ y.verb = c.verb
        BY <1>2, <2>2, <2>5 DEF NoFinal, SameBut, Fields
  <2>8. c.verb # "STARTTLS" BY <1>6 DEF SessionHijacks, AuthVerbs
  <2>9. ~SaidNo(y) BY <2>7 DEF NoFinal, SaidNo, Final
  <2>10. y.errorCount \in Nat /\ MaxErrors \in Nat BY <2>4, OptionsAssumption DEF ConnType
  <2>11. End(y) BY <2>5, <2>6, <2>7, <2>8, <2>9, <2>10 DEF End, Live
  <2>12. FALSE \in BOOLEAN OBVIOUS
  <2>13. End(AuthFailure(y, FALSE)) BY <2>6, <2>7, <2>12, SessionErrorEnds
  <2> QED BY <2>1, <2>11, <2>13, DoneEnds
<1> QED BY <1>4, <1>5, <1>6 DEF SessionReturns

\* A panic in a callback keeps the invariant.
LEMMA CallbackPanicsStep == ASSUME CI(c), CallbackPanics PROVE CI(c')
<1>1. Core(c) BY DEF CI, CallbackPanics
<1> QED BY <1>1, ClosesEnded DEF CallbackPanics

\* The end of an iteration keeps the invariant.
LEMMA EnforceStep == ASSUME CI(c), Enforce PROVE CI(c')
<1>1. End(c) /\ c \in ConnType BY DEF CI, Enforce, End
<1>2. CASE c.hijacked BY <1>1, <1>2, ClosesEnded DEF Enforce
<1>3. CASE ~c.hijacked
  <2> DEFINE v == Verdict(c)
  <2>1. PICK f \in Flush(v) : c' = Goto(f, IF f.wfail \/ f.quit THEN "closed" ELSE "top")
        BY <1>3 DEF Enforce
  <2>2. /\ v \in ConnType /\ SameBut(c, v, {"out", "dirty", "quit"})
        /\ ~v.quit => v = c /\ ~c.closePending /\ ~MaxErrorsExceeded(c)
        BY <1>1, VerdictSpec
  <2> HIDE DEF v
  <2>3. /\ f \in ConnType /\ SameBut(v, f, {"dirty", "wfail"})
        /\ ~f.wfail => ~f.dirty
        BY <2>1, <2>2, FlushSpec
  <2>4. SameBut(c, f, {"out", "dirty", "quit", "wfail"}) /\ f.quit = v.quit
        BY <2>2, <2>3 DEF SameBut, Fields
  <2>5. CASE f.wfail \/ f.quit
    <3>1. SameBut(c, f, Parting)
          BY <2>4 DEF SameBut, Parting, Fields
    <3>2. Ended(f) BY <1>1, <2>3, <3>1, EndedSame
    <3> QED BY <2>1, <2>5, <3>2, ClosesEnded
  <2>6. CASE ~(f.wfail \/ f.quit)
    <3>1. ~c.closePending /\ ~MaxErrorsExceeded(c) BY <2>2, <2>4, <2>6
    <3>2. c.errorCount \in Nat /\ MaxErrors \in Nat BY <1>1, OptionsAssumption DEF ConnType
    <3>3. MaxErrors > 0 => c.errorCount < MaxErrors BY <3>1, <3>2 DEF MaxErrorsExceeded
    <3>4. DeadlineSane(f) BY <1>1, <2>4 DEF End, DeadlineSane, SameBut, Fields
    <3>5. Core(f)
          BY <1>1, <1>3, <2>3, <2>4, <2>6, <3>1, <3>3, <3>4
          DEF Core, End, AuthAllowed, SameBut, Fields
    <3>6. "top" \in Pcs BY DEF Pcs
    <3>7. Core(c') /\ c'.pc = "top" BY <2>1, <2>6, <3>5, <3>6, CoreGoto
    <3> QED BY <3>7 DEF CI, Stage, ReadPcs, LinePcs, BodyPcs, AuthPcs, ScriptPcs
  <2> QED BY <2>5, <2>6
<1> QED BY <1>2, <1>3

\* The expiry of a deadline keeps the invariant, at any point.
LEMMA DeadlineExpiresStep == ASSUME CI(c), DeadlineExpires PROVE CI(c')
<1> DEFINE y == [c EXCEPT !.expired = TRUE]
<1>1. c \in ConnType BY CIConnType
<1>2. y \in ConnType BY <1>1, Zenon DEF ConnType
<1>3. SameBut(c, y, {"expired"}) /\ y.expired BY <1>1 DEF ConnType, SameBut, Fields
<1>4. c' = y BY DEF DeadlineExpires
<1> HIDE DEF y
<1>5. DeadlineSane(c) BY DEF CI, Core, End, Ended
<1>6. DeadlineSane(y) BY <1>3, <1>5 DEF DeadlineSane, SameBut, Fields
<1>7. /\ SameBut(c, y, {"poisoned", "rdl", "expired", "kicked"})
      /\ ~y.poisoned => ~c.poisoned /\ y.rdl = c.rdl
      BY <1>3 DEF SameBut, Fields
<1> QED BY <1>2, <1>4, <1>6, <1>7, TimersKeepCI

\* The kick of Server.Close keeps the invariant, at any point.
LEMMA ForceReadUnblockStep == ASSUME CI(c), ForceReadUnblock PROVE CI(c')
<1> DEFINE k == Interrupted
           y == [c EXCEPT !.poisoned = TRUE, !.rdl = "kick", !.expired = TRUE, !.kicked = k]
<1>1. c \in ConnType BY CIConnType
<1>2. k \in {"", "idle", "mid", "busy"} BY DEF Interrupted
<1>3. "kick" \in Timers BY DEF Timers
<1>4. c' = y BY DEF ForceReadUnblock
<1> HIDE DEF k
<1>5. y \in ConnType BY <1>1, <1>2, <1>3, Zenon DEF ConnType
<1>6. /\ SameBut(c, y, {"poisoned", "rdl", "expired", "kicked"})
      /\ y.poisoned /\ y.expired /\ y.rdl = "kick"
      BY <1>1 DEF ConnType, SameBut, Fields
<1> HIDE DEF y
<1>7. DeadlineSane(y) BY <1>6 DEF DeadlineSane
<1> QED BY <1>4, <1>5, <1>6, <1>7, TimersKeepCI

\* The part of TypeOK that is not the connection.
Streams == /\ buf \in Seq(Token) /\ net \in Seq(Token) /\ todo \in Seq(Token)
           /\ waiting \in BOOLEAN /\ started \in Nat /\ peerClosed \in BOOLEAN
           /\ shutdown \in BOOLEAN /\ absDone \in BOOLEAN /\ clock \in 0..2

\* Server steps that leave a typed buffer keep Streams.
LEMMA BufferSteps ==
  ASSUME Streams, buf' \in Seq(Token), ServerUnchanged
  PROVE  Streams'
BY DEF Streams, ServerUnchanged, clientVars, envVars

\* The buffer is left alone, dropped or consumed.
LEMMA ConsumeSteps ==
  ASSUME Streams, UNCHANGED buf \/ buf' = <<>> \/ (buf # <<>>
           /\ buf' = Tail(buf)), ServerUnchanged
  PROVE  Streams'
<1>1. buf \in Seq(Token) /\ <<>> \in Seq(Token) BY DEF Streams
<1>2. buf # <<>> => Tail(buf) \in Seq(Token) BY <1>1
<1>3. buf' \in Seq(Token) BY <1>1, <1>2
<1> QED BY <1>3, BufferSteps

\* A refill of the reader keeps Streams.
LEMMA FillStep == ASSUME Streams, Fill PROVE Streams'
<1>1. buf \in Seq(Token) /\ net \in Seq(Token) BY DEF Streams
<1>2. PICK n \in 1..Len(net) : /\ buf' = SubSeq(net, 1, n)
                               /\ net' = SubSeq(net, n + 1, Len(net)) BY DEF Fill
<1>3. buf' \in Seq(Token) /\ net' \in Seq(Token) BY <1>1, <1>2
<1> QED BY <1>3 DEF Streams, Fill, clientVars, envVars

\* The client sends tokens.
LEMMA SendsTypes ==
  ASSUME Streams, c \in ConnType, NEW t \in Token, Sends(t)
  PROVE  net' \in Seq(Token) /\ waiting' \in BOOLEAN /\ peerClosed' = peerClosed
<1>1. t.wait \in BOOLEAN BY Zenon DEF Token
<1>2. net \in Seq(Token) BY DEF Streams
<1>3. net' = Append(net, t) /\ waiting' = t.wait /\ peerClosed' = peerClosed BY DEF Sends
<1>4. net' \in Seq(Token) BY <1>2, <1>3
<1> QED BY <1>1, <1>3, <1>4

\* The client keeps Streams.
LEMMA ClientSteps == ASSUME Streams, c \in ConnType, ClientStep PROVE Streams'
<1>0. todo \in Seq(Token) /\ started \in Nat BY DEF Streams
<1>1. CASE ClientBegins
  <2>1. PICK m \in Commands : Sends(Head(m)) /\ todo' = Tail(m) BY <1>1 DEF ClientBegins
  <2>2. m \in Seq(Token) /\ m # <<>> BY CommandsAssumption
  <2>3. Head(m) \in Token /\ Tail(m) \in Seq(Token) BY <2>2
  <2>4. net' \in Seq(Token) /\ waiting' \in BOOLEAN /\ peerClosed' = peerClosed
        BY <2>1, <2>3, SendsTypes
  <2>5. started' \in Nat BY <1>0, <1>1 DEF ClientBegins
  <2> QED BY <1>1, <2>1, <2>3, <2>4, <2>5 DEF Streams, ClientBegins, ClientUnchanged,
           envVars
<1>2. CASE ClientContinues
  <2>1. Head(todo) \in Token /\ Tail(todo) \in Seq(Token)
        BY <1>0, <1>2 DEF ClientContinues
  <2>2. net' \in Seq(Token) /\ waiting' \in BOOLEAN /\ peerClosed' = peerClosed
        BY <1>2, <2>1, SendsTypes DEF ClientContinues
  <2> QED BY <1>2, <2>1, <2>2 DEF Streams, ClientContinues, ClientUnchanged, envVars
<1>3. CASE ClientResumes
  <2>1. <<>> \in Seq(Token) /\ FALSE \in BOOLEAN OBVIOUS
  <2> QED BY <1>3, <2>1 DEF Streams, ClientResumes, ClientUnchanged, envVars
<1>4. CASE ClientCloses
  <2>1. TRUE \in BOOLEAN OBVIOUS
  <2> QED BY <1>4, <2>1 DEF Streams, ClientCloses, ClientUnchanged, envVars
<1> QED BY <1>1, <1>2, <1>3, <1>4 DEF ClientStep

\* Time and shutdown keep Streams.
LEMMA EnvSteps == ASSUME Streams, EnvStep PROVE Streams'
<1>1. clock \in 0..2 /\ TRUE \in BOOLEAN BY DEF Streams
<1>2. CASE ClockTicks
  <2>1. clock' \in 0..2 BY <1>1, <1>2 DEF ClockTicks
  <2> QED BY <1>2, <2>1 DEF Streams, ClockTicks, EnvOnly, clientVars
<1>3. CASE ContextExpires BY <1>1, <1>3 DEF Streams, ContextExpires, EnvOnly, clientVars
<1>4. CASE DeadlineExpires
      BY <1>4 DEF Streams, DeadlineExpires, EnvOnly, clientVars, envVars
<1>5. CASE ServerCancels BY <1>1, <1>5 DEF Streams, ServerCancels, EnvOnly, clientVars
<1>6. CASE ForceReadUnblock
      BY <1>6 DEF Streams, ForceReadUnblock, EnvOnly, clientVars, envVars
<1> QED BY <1>2, <1>3, <1>4, <1>5, <1>6 DEF EnvStep

\* Handlers, callbacks and the loop do not read the stream.
LEMMA HandlersQuiet ==
  ASSUME HandlerStep \/ HandshakeFails \/ HandshakeAborts \/ SessionReturns
            \/ CallbackPanics \/ LoopStep
  PROVE  UNCHANGED buf /\ ServerUnchanged
<1>1. CASE HandlerStep
      BY <1>1 DEF HandlerStep, HandleCapabilityOrNoop, HandleLogout, UnknownHandled,
         UnknownRejected, AuthenticateRefused, AuthenticateInitialResponse,
         AuthenticateChallenge, AuthenticateAccepted, HandleLogin, StartTLSRefused,
         StartTLSPipelined, StartTLSBegins, StartTLSAccepted, NotAuthenticated,
         HandleScriptCommand, HandleScriptContent, Dispatches, Quietly
<1>2. CASE HandshakeFails \/ HandshakeAborts
      BY <1>2 DEF HandshakeFails, HandshakeAborts, HandshakeFailed, Quietly
<1>3. CASE SessionReturns \/ CallbackPanics
      BY <1>3 DEF SessionReturns, SessionSucceeds, SessionFails, SessionHijacks,
         CallbackPanics, Quietly
<1>4. CASE LoopStep
      BY <1>4 DEF LoopStep, Greet, CheckContext, ArmCommandRead, ArgsResolved,
         RejectArgLiteral, BeginArgLiteral, Enforce, Quietly
<1> QED BY <1>1, <1>2, <1>3, <1>4

\* A read step refills the reader, or consumes its head, or fails.
LEMMA ReadsConsume ==
  ASSUME ReadStep
  PROVE  Fill \/ (ServerUnchanged /\ (UNCHANGED buf \/ (buf # <<>> /\ buf' = Tail(buf))))
BY DEF ReadStep, CommandReadFails, RejectLine, SkipBlankLine, ParseLineFails, AcceptLine,
       ReadBody, CommandCut, TrailerRejected, ReadArgRest, ReadSaslResponse,
       ReadAuthLiteral, ReadScriptLiteral, Takes, Quietly

\* Every step keeps Streams.
LEMMA StreamSteps == ASSUME Streams, c \in ConnType, Next PROVE Streams'
<1>1. CASE ReadStep BY <1>1, ReadsConsume, FillStep, ConsumeSteps
<1>2. CASE HandlerStep \/ HandshakeFails \/ HandshakeAborts \/ SessionReturns
              \/ CallbackPanics \/ LoopStep
      BY <1>2, HandlersQuiet, ConsumeSteps
<1>3. CASE HandshakeSucceeds BY <1>3, ConsumeSteps DEF HandshakeSucceeds
<1>4. CASE ClientStep BY <1>4, ClientSteps
<1>5. CASE EnvStep BY <1>5, EnvSteps
<1>6. CASE Closed BY <1>6 DEF Closed, vars, Streams
<1> QED BY <1>1, <1>2, <1>3, <1>4, <1>5, <1>6 DEF Next, ServerStep

\* Every step keeps the invariant of the connection.
LEMMA ConnSteps == ASSUME TypeOK, CI(c), Next PROVE CI(c')
<1>1. CASE ReadStep
      BY <1>1, CommandReadFailsStep, ReadLineSteps, ReadBodyStep, CutSteps,
         ReadArgRestStep, ResponseSteps
      DEF ReadStep, Fill
<1>2. CASE HandlerStep
      BY <1>2, SimpleHandlerSteps, AuthenticateSteps, StartTLSSteps, ScriptHandlerSteps
      DEF HandlerStep
<1>3. CASE LoopStep
      BY <1>3, GreetStep, CheckContextStep, ArmCommandReadStep, ResolveSteps, EnforceStep
      DEF LoopStep
<1>4. CASE HandshakeSucceeds \/ HandshakeFails \/ HandshakeAborts BY <1>4, HandshakeSteps
<1>5. CASE SessionReturns \/ CallbackPanics
      BY <1>5, SessionReturnsStep, CallbackPanicsStep
<1>6. CASE ClientStep
  <2>1. UNCHANGED c BY <1>6 DEF ClientStep, ClientBegins, ClientContinues, ClientResumes,
                                ClientCloses, ClientUnchanged
  <2> QED BY <2>1
<1>7. CASE EnvStep
      BY <1>7, DeadlineExpiresStep, ForceReadUnblockStep
      DEF EnvStep, ClockTicks, ContextExpires, ServerCancels
<1>8. CASE Closed BY <1>8 DEF Closed, vars
<1> QED BY <1>1, <1>2, <1>3, <1>4, <1>5, <1>6, <1>7, <1>8 DEF Next, ServerStep

\* The inductive invariant.
Inv == TypeOK /\ CI(c)

\* TypeOK is the type of the connection and Streams.
LEMMA TypeOKParts == TypeOK <=> c \in ConnType /\ Streams
BY DEF TypeOK, Streams

\* The invariant holds when serve starts.
LEMMA InitInv == Init => Inv
<1> SUFFICES ASSUME Init PROVE Inv OBVIOUS
<1>1. PICK t \in InitTLS : c = InitConn(t) BY DEF Init
<1>2. t \in BOOLEAN /\ MaxErrors \in Nat BY OptionsAssumption
<1>3. /\ <<>> \in Seq(Replies) /\ <<>> \in Seq(PlainArgs \cup Literals)
         /\ <<>> \in Seq(Token)
      /\ 0 \in Nat /\ 0 \in 0..2 /\ FALSE \in BOOLEAN
      OBVIOUS
<1>4. "greet" \in Pcs /\ "BLANK" \in Verbs /\ "ok" \in PlainArgs \cup Literals
      /\ "none" \in Timers
      BY DEF Pcs, Verbs, OtherVerbs, PlainArgs, Timers
<1>5. c \in ConnType BY <1>1, <1>2, <1>3, <1>4, Zenon DEF InitConn, ConnType
<1>6. /\ c.pc = "greet" /\ c.errorCount = 0 /\ c.out = <<>>
      /\ ~c.dirty /\ ~c.wfail /\ ~c.quit /\ ~c.closePending /\ ~c.hijacked
      /\ ~c.authenticated /\ ~c.poisoned /\ c.rdl = "none"
      BY <1>1 DEF InitConn
<1>7. Core(c) BY <1>2, <1>5, <1>6 DEF Core, DeadlineSane
<1>8. CI(c) BY <1>6, <1>7 DEF CI, Stage, ReadPcs, LinePcs, BodyPcs, AuthPcs, ScriptPcs
<1>9. Streams BY <1>3 DEF Init, Streams
<1> QED BY <1>5, <1>8, <1>9, TypeOKParts DEF Inv

\* Every step keeps the invariant.
LEMMA NextInv == Inv /\ [Next]_vars => Inv'
<1> SUFFICES ASSUME Inv, [Next]_vars PROVE Inv' OBVIOUS
<1>1. TypeOK /\ CI(c) /\ Streams /\ c \in ConnType BY TypeOKParts DEF Inv
<1>2. CASE Next
  <2>1. CI(c') BY <1>1, <1>2, ConnSteps
  <2>2. c' \in ConnType BY <2>1, CIConnType
  <2>3. Streams' BY <1>1, <1>2, StreamSteps
  <2>4. TypeOK' BY <2>2, <2>3 DEF TypeOK, Streams
  <2>5. CI(c)' BY <2>1 DEF CI, Core, End, Ended, Stage, AuthAllowed, DeadlineSane,
           NoFinal, OneFinal, SaidNo
  <2> QED BY <2>4, <2>5 DEF Inv
<1>3. CASE UNCHANGED vars
  <2>1. TypeOK' BY <1>1, <1>3 DEF TypeOK, vars
  <2>2. CI(c') BY <1>1, <1>3 DEF vars
  <2>3. CI(c)' BY <2>2 DEF CI, Core, End, Ended, Stage, AuthAllowed, DeadlineSane,
           NoFinal, OneFinal, SaidNo
  <2> QED BY <2>1, <2>3 DEF Inv
<1> QED BY <1>2, <1>3

\* The invariant holds throughout, for every set of options, every command
\* set and any number of commands in flight.
THEOREM Invariance == Spec => []Inv
<1>1. Init => Inv BY InitInv
<1>2. Inv /\ [Next]_vars => Inv' BY NextInv
<1> QED BY <1>1, <1>2, PTL DEF Spec

\* Every field of Conn and both halves of the stream keep their types.
THEOREM TypeCorrect == Spec => []TypeOK
<1>1. Inv => TypeOK BY DEF Inv
<1> QED BY <1>1, Invariance, PTL

\* No path through the handlers of serve bypasses or overruns MaxErrors.
THEOREM BudgetKept == Spec => []ErrorBudget
<1>1. Inv => ErrorBudget
  <2> SUFFICES ASSUME Inv, MaxErrors > 0
               PROVE  /\ c.errorCount <= MaxErrors
                      /\ c.pc \notin {"enforce", "closed"} => c.errorCount < MaxErrors
      BY DEF ErrorBudget
  <2>1. c \in ConnType BY DEF Inv, TypeOK
  <2>2. c.errorCount \in Nat /\ MaxErrors \in Nat BY <2>1, OptionsAssumption DEF ConnType
  <2> QED BY <2>2 DEF Inv, CI, Core, End, Ended
<1> QED BY <1>1, Invariance, PTL

\* The session is called only in the state its method is for, and never past
\* the cleartext gate of authAllowed.
THEOREM ContractKept == Spec => []SessionContract
<1>1. Inv => SessionContract BY DEF Inv, CI, Core, End, Ended, Stage, SessionContract
<1> QED BY <1>1, Invariance, PTL

\* Every command that reaches the end of the loop has exactly one final
\* response, unless it was hijacked or the socket is broken.
THEOREM ReplyKept == Spec => []OneFinalReply
<1>1. Inv => OneFinalReply BY DEF Inv, CI, End, OneFinal, OneFinalReply
<1> QED BY <1>1, Invariance, PTL

\* What OnCommand is told is what the client was told.
THEOREM HookKept == Spec => []HookAccurate
<1>1. Inv => HookAccurate BY DEF Inv, CI, End, SaidNo, HookAccurate
<1> QED BY <1>1, Invariance, PTL

\* The server never blocks in a read with replies in its write buffer.
THEOREM NeverBlocksUnflushed == Spec => []FlushedBeforeBlock
<1>1. Inv => FlushedBeforeBlock
      BY DEF Inv, CI, Core, FlushedBeforeBlock, ReadPcs, LinePcs, BodyPcs
<1> QED BY <1>1, Invariance, PTL

\* Every read of serve is bounded by the timer that the options call for.
THEOREM DeadlineKept == Spec => []DeadlineFresh
<1>1. Inv => DeadlineFresh
      BY DEF Inv, CI, Stage, DeadlineFresh, ReadPcs, LinePcs, BodyPcs
<1> QED BY <1>1, Invariance, PTL

\* A connection that a response asked to close reads nothing more, whatever wrote
\* the response: closePending is seen before the next read.
THEOREM CloseKept == Spec => []CloseIsPrompt
<1>1. Inv => CloseIsPrompt BY DEF Inv, CI, Core, CloseIsPrompt
<1> QED BY <1>1, Invariance, PTL

\* No handler undoes the deadline that Server.Close has forced.
THEOREM PoisonKept == Spec => []PoisonSticks
<1>1. Inv => PoisonSticks BY DEF Inv, CI, Core, End, Ended, DeadlineSane, PoisonSticks
<1> QED BY <1>1, Invariance, PTL
===============================================================================
