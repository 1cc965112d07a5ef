---------------------------- MODULE SieveConnFrame ----------------------------
(***************************************************************************)
(* What the steps of a connection leave alone, and the theorems that rest  *)
(* on it: the connection implements SessionProtocol, timers are reported   *)
(* truthfully, an idle client that is kicked is told so, no input is lost  *)
(* or carried over from plaintext into TLS, and the server agrees with a   *)
(* client on what is a command and what is the body of a literal.          *)
(***************************************************************************)
EXTENDS SieveConnProofs, SequenceTheorems

\* From x to y, nothing happens that a Session, the shutdown or a timer's
\* report would show; a deadline that has expired stays as it is or is replaced.
Steady(x, y) ==
    /\ y \in ConnType
    /\ y.authenticated = x.authenticated /\ y.isTLS = x.isTLS /\ y.hijacked = x.hijacked
    /\ y.poisoned = x.poisoned /\ y.kicked = x.kicked /\ y.hook = x.hook
    /\ y.expired => x.expired /\ y.rdl = x.rdl

\* The fields that a steady step is free to change.
Work == {"pc", "verb", "args", "val", "errorCount", "closePending", "lastErr", "quit",
         "dispatched", "out", "dirty", "wfail", "gated", "misparsed"}

-----------------------------------------------------------------------------
(***************************************************************************)
(* The helpers of Conn are steady.                                         *)
(***************************************************************************)
LEMMA SteadySelf == ASSUME NEW x \in ConnType PROVE Steady(x, x)
BY DEF Steady

LEMMA SteadyWork ==
  ASSUME NEW x, NEW y, NEW z \in ConnType, Steady(x, y), NEW F, SameBut(y, z, F), F \subseteq Work
  PROVE  Steady(x, z)
<1>1. /\ z.authenticated = y.authenticated /\ z.isTLS = y.isTLS /\ z.hijacked = y.hijacked
      /\ z.poisoned = y.poisoned /\ z.kicked = y.kicked /\ z.hook = y.hook
      /\ z.expired = y.expired /\ z.rdl = y.rdl
      BY DEF SameBut, Fields, Work
<1> QED BY <1>1 DEF Steady

LEMMA ThenWrite ==
  ASSUME NEW x, NEW y, Steady(x, y), NEW r \in Replies
  PROVE  Steady(x, Write(y, r))
<1>1. y \in ConnType BY DEF Steady
<1>2. Write(y, r) \in ConnType /\ SameBut(y, Write(y, r), {"out", "dirty"}) BY <1>1, WriteSpec
<1>3. {"out", "dirty"} \subseteq Work BY DEF Work
<1> QED BY <1>2, <1>3, SteadyWork

LEMMA ThenGoto ==
  ASSUME NEW x, NEW y, Steady(x, y), NEW l \in Pcs
  PROVE  Steady(x, Goto(y, l)) /\ Goto(y, l).pc = l
<1>1. y \in ConnType BY DEF Steady
<1>2. Goto(y, l) \in ConnType /\ SameBut(y, Goto(y, l), {"pc"}) /\ Goto(y, l).pc = l
      BY <1>1, GotoSpec
<1>3. {"pc"} \subseteq Work BY DEF Work
<1> QED BY <1>2, <1>3, SteadyWork

LEMMA ThenFailed == ASSUME NEW x, NEW y, Steady(x, y) PROVE Steady(x, Failed(y))
<1>1. y \in ConnType BY DEF Steady
<1>2. Failed(y) \in ConnType /\ SameBut(y, Failed(y), {"lastErr"}) BY <1>1, FailedSpec
<1>3. {"lastErr"} \subseteq Work BY DEF Work
<1> QED BY <1>2, <1>3, SteadyWork

LEMMA ThenMustClose ==
  ASSUME NEW x, NEW y, Steady(x, y), NEW b \in BOOLEAN
  PROVE  Steady(x, MustClose(y, b))
<1>1. y \in ConnType BY DEF Steady
<1>2. MustClose(y, b) \in ConnType /\ SameBut(y, MustClose(y, b), {"closePending"})
      BY <1>1, MustCloseSpec
<1>3. {"closePending"} \subseteq Work BY DEF Work
<1> QED BY <1>2, <1>3, SteadyWork

LEMMA ThenCounted == ASSUME NEW x, NEW y, Steady(x, y) PROVE Steady(x, Counted(y))
<1>1. y \in ConnType BY DEF Steady
<1>2. Counted(y) \in ConnType /\ SameBut(y, Counted(y), {"errorCount"}) BY <1>1, CountedSpec
<1>3. {"errorCount"} \subseteq Work BY DEF Work
<1> QED BY <1>2, <1>3, SteadyWork

LEMMA ThenQuit == ASSUME NEW x, NEW y, Steady(x, y) PROVE Steady(x, AndQuit(y))
<1>1. y \in ConnType BY DEF Steady
<1>2. AndQuit(y) \in ConnType /\ SameBut(y, AndQuit(y), {"quit"}) BY <1>1, AndQuitSpec
<1>3. {"quit"} \subseteq Work BY DEF Work
<1> QED BY <1>2, <1>3, SteadyWork

LEMMA ThenFlush == ASSUME NEW x, NEW y, Steady(x, y), NEW f \in Flush(y) PROVE Steady(x, f)
<1>1. y \in ConnType BY DEF Steady
<1>2. f \in ConnType /\ SameBut(y, f, {"dirty", "wfail"}) BY <1>1, FlushSpec
<1>3. {"dirty", "wfail"} \subseteq Work BY DEF Work
<1> QED BY <1>2, <1>3, SteadyWork

LEMMA ThenDeadline ==
  ASSUME NEW x, NEW y, Steady(x, y), NEW d \in Timers
  PROVE  Steady(x, SetReadDeadline(y, d))
<1> DEFINE z == SetReadDeadline(y, d)
<1>1. y \in ConnType BY DEF Steady
<1>2. /\ z \in ConnType /\ SameBut(y, z, {"rdl", "expired"})
      /\ y.poisoned => z = y
      /\ ~y.poisoned => ~z.expired
      BY <1>1, SetReadDeadlineSpec
<1> HIDE DEF z
<1>3. /\ z.authenticated = y.authenticated /\ z.isTLS = y.isTLS /\ z.hijacked = y.hijacked
      /\ z.poisoned = y.poisoned /\ z.kicked = y.kicked /\ z.hook = y.hook
      BY <1>2 DEF SameBut, Fields
<1>4. Steady(x, z) BY <1>2, <1>3 DEF Steady
<1> QED BY <1>4 DEF z

LEMMA ThenArm == ASSUME NEW x, NEW y, Steady(x, y), NEW a \in Arm(y) PROVE Steady(x, a)
<1>1. PICK d \in NextReadDeadline(y.authenticated) :
         a = IF d = "none" THEN y ELSE SetReadDeadline(y, d)
      BY DEF Arm
<1>2. d \in Timers BY NextReadDeadlineTimers
<1> QED BY <1>1, <1>2, ThenDeadline

\* Replies that the handlers use.
LEMMA SomeReplies ==
  {"OK", "NO", "EXT", "GREETING", "CONTINUE", "CHALLENGE", "BYE-errs"} \subseteq Replies
BY DEF Replies, Final, Byes

LEMMA SomePcs ==
  /\ {"enforce", "closed", "session", "handshake", "top", "arm", "resolve", "dispatch"} \subseteq Pcs
  /\ ReadPcs \subseteq Pcs
BY DEF Pcs

LEMMA ThenClientError == ASSUME NEW x, NEW y, Steady(x, y) PROVE Steady(x, ClientError(y))
<1>1. Steady(x, Write(Failed(Counted(y)), "NO"))
      BY ThenCounted, ThenFailed, ThenWrite, SomeReplies
<1> QED BY <1>1 DEF ClientError, Counted

LEMMA ThenFailure ==
  ASSUME NEW x, NEW y, Steady(x, y), NEW b \in BOOLEAN
  PROVE  /\ Steady(x, SessionError(y, b)) /\ Steady(x, AuthFailure(y, b))
         /\ Steady(x, QuotaMaxSize(y))
<1>1. Steady(x, Write(Failed(y), "NO")) BY ThenFailed, ThenWrite, SomeReplies
<1>2. Steady(x, SessionError(y, b)) BY <1>1, ThenMustClose DEF SessionError
<1>3. Steady(x, AuthFailure(y, b))
  <2>1. CASE AuthFailuresExempt BY <1>2, <2>1 DEF AuthFailure
  <2>2. CASE ~AuthFailuresExempt
    <3>1. AuthFailure(y, b) = MustClose(ClientError(y), b)
          BY <2>2 DEF AuthFailure, SessionError, ClientError
    <3> QED BY <3>1, ThenClientError, ThenMustClose
  <2> QED BY <2>1, <2>2
<1> QED BY <1>1, <1>2, <1>3 DEF QuotaMaxSize

LEMMA ThenDone ==
  ASSUME NEW x, NEW y, Steady(x, y)
  PROVE  /\ Steady(x, Done(y)) /\ Done(y).pc = "enforce"
         /\ Steady(x, Refused(y)) /\ Refused(y).pc = "enforce"
BY ThenGoto, ThenClientError, SomePcs DEF Done, Refused

LEMMA ThenExecuting == ASSUME NEW x, NEW y, Steady(x, y) PROVE Steady(x, Executing(y))
<1> DEFINE a == SetReadDeadline(y, "none")
           z == [a EXCEPT !.lastErr = FALSE, !.dispatched = TRUE]
<1>1. Steady(x, a) BY ThenDeadline DEF Timers
<1>2. a \in ConnType BY <1>1 DEF Steady
<1> HIDE DEF a
<1>3. z \in ConnType BY <1>2, Zenon DEF ConnType
<1>4. SameBut(a, z, {"lastErr", "dispatched"}) BY <1>2 DEF ConnType, SameBut, Fields
<1>5. {"lastErr", "dispatched"} \subseteq Work BY DEF Work
<1> HIDE DEF z
<1>6. Steady(x, z) BY <1>1, <1>3, <1>4, <1>5, SteadyWork
<1> QED BY <1>6 DEF z, a, Executing

LEMMA ThenStartLiteral ==
  ASSUME NEW x, NEW y, Steady(x, y), NEW arg, NEW l \in ReadPcs, NEW z \in StartLiteral(y, arg, l)
  PROVE  Steady(x, z) /\ z.pc \in {l, "enforce"}
<1>0. l \in Pcs /\ "enforce" \in Pcs BY SomePcs
<1>1. CASE arg \in NonSync
  <2>1. PICK a \in Arm(y) : z = Goto(a, l) BY <1>1 DEF StartLiteral
  <2> QED BY <1>0, <2>1, ThenArm, ThenGoto
<1>2. CASE arg \notin NonSync
  <2>1. PICK f \in Flush(Write(y, "CONTINUE")) :
           z \in IF f.wfail THEN {Goto(MustClose(f, TRUE), "enforce")}
                 ELSE {Goto(a, l) : a \in Arm(f)}
        BY <1>2 DEF StartLiteral
  <2>2. Steady(x, f) BY <2>1, ThenWrite, ThenFlush, SomeReplies
  <2>3. Steady(x, MustClose(f, TRUE)) BY <2>2, ThenMustClose
  <2>4. CASE z = Goto(MustClose(f, TRUE), "enforce") BY <1>0, <2>3, <2>4, ThenGoto
  <2>5. CASE \E a \in Arm(f) : z = Goto(a, l) BY <1>0, <2>2, <2>5, ThenArm, ThenGoto
  <2> QED BY <2>1, <2>4, <2>5
<1> QED BY <1>1, <1>2

LEMMA ThenAuthLiteral ==
  ASSUME NEW x, NEW y, Steady(x, y), NEW v, NEW z \in StartAuthLiteral(y, v)
  PROVE  Steady(x, z) /\ z.pc \in {"authbody", "enforce"}
<1>1. "authbody" \in Pcs /\ "enforce" \in Pcs BY DEF Pcs, ReadPcs, BodyPcs
<1>2. Steady(x, MustClose(ClientError(y), TRUE)) BY ThenClientError, ThenMustClose
<1>3. CASE z = Goto(MustClose(ClientError(y), TRUE), "enforce") BY <1>1, <1>2, <1>3, ThenGoto
<1>4. CASE \E a \in Arm(y) : z = Goto(a, "authbody") BY <1>1, <1>4, ThenArm, ThenGoto
<1> QED BY <1>3, <1>4 DEF StartAuthLiteral

LEMMA ThenPayload ==
  ASSUME NEW x, NEW y, Steady(x, y), NEW v
  PROVE  /\ Steady(x, AuthPayload(y, v)) /\ AuthPayload(y, v).pc \in {"session", "enforce"}
         /\ Steady(x, ScriptContent(y, v)) /\ ScriptContent(y, v).pc \in {"session", "enforce"}
<1>1. /\ Steady(x, Goto(y, "session")) /\ Goto(y, "session").pc = "session"
      BY ThenGoto, SomePcs
<1>2. Steady(x, AuthFailure(y, FALSE)) /\ Steady(x, ClientError(y)) /\ Steady(x, QuotaMaxSize(y))
      BY ThenFailure, ThenClientError
<1>3. \A z : Steady(x, z) => Steady(x, Goto(z, "enforce")) /\ Goto(z, "enforce").pc = "enforce"
      BY ThenGoto, SomePcs
<1>4. AuthPayload(y, v) \in {Goto(y, "session"), Goto(AuthFailure(y, FALSE), "enforce"),
                             Goto(ClientError(y), "enforce")}
      BY DEF AuthPayload
<1>5. ScriptContent(y, v) \in {Goto(y, "session"), Goto(QuotaMaxSize(y), "enforce"),
                               Goto(ClientError(y), "enforce")}
      BY DEF ScriptContent
<1> QED BY <1>1, <1>2, <1>3, <1>4, <1>5

LEMMA ThenGiveUp ==
  ASSUME NEW x, NEW y, Steady(x, y)
  PROVE  Steady(x, GiveUpRead(y)) /\ GiveUpRead(y).pc = "enforce"
<1>1. Steady(x, SetReadDeadline(y, "none")) BY ThenDeadline DEF Timers
<1>2. Steady(x, Write(Failed(SetReadDeadline(y, "none")), "NO"))
      BY <1>1, ThenFailed, ThenWrite, SomeReplies
<1>3. Steady(x, MustClose(Write(Failed(SetReadDeadline(y, "none")), "NO"), TRUE))
      BY <1>2, ThenMustClose
<1> QED BY <1>3, ThenGoto, SomePcs DEF GiveUpRead

LEMMA ThenQuits ==
  ASSUME NEW x, NEW y, Steady(x, y), NEW b \in BOOLEAN
  PROVE  Steady(x, [y EXCEPT !.quit = b])
<1> DEFINE z == [y EXCEPT !.quit = b]
<1>1. y \in ConnType BY DEF Steady
<1>2. z \in ConnType BY <1>1, Zenon DEF ConnType
<1>3. SameBut(y, z, {"quit"}) BY <1>1 DEF ConnType, SameBut, Fields
<1>4. {"quit"} \subseteq Work BY DEF Work
<1> HIDE DEF z
<1>5. Steady(x, z) BY <1>2, <1>3, <1>4, SteadyWork
<1> QED BY <1>5 DEF z

LEMMA ThenAbandons == ASSUME NEW x, NEW y, Steady(x, y) PROVE Steady(x, AbandonsBody(y))
<1> DEFINE b == y.gated \/ CommitsBody
           z == [y EXCEPT !.gated = b]
<1>1. b \in BOOLEAN /\ y \in ConnType BY DEF Steady
<1>2. AbandonsBody(y) = z BY DEF AbandonsBody
<1> HIDE DEF b
<1>3. z \in ConnType BY <1>1, Zenon DEF ConnType
<1>4. SameBut(y, z, {"gated"}) BY <1>1 DEF ConnType, SameBut, Fields
<1>5. {"gated"} \subseteq Work BY DEF Work
<1> HIDE DEF z
<1> QED BY <1>2, <1>3, <1>4, <1>5, SteadyWork

LEMMA ThenVerdict == ASSUME NEW x, NEW y, Steady(x, y) PROVE Steady(x, Verdict(y))
<1>1. Steady(x, Write(y, "BYE-errs")) BY ThenWrite, SomeReplies
<1>2. Steady(x, AndQuit(y)) /\ Steady(x, AndQuit(Write(y, "BYE-errs"))) BY <1>1, ThenQuit
<1>3. Verdict(y) \in {y, AndQuit(y), AndQuit(Write(y, "BYE-errs"))} BY DEF Verdict
<1> QED BY <1>2, <1>3

LEMMA ThenIteration == ASSUME NEW x, NEW y, Steady(x, y) PROVE Steady(x, NextIteration(y))
<1> DEFINE z == NextIteration(y)
<1>1. y \in ConnType BY DEF Steady
<1>2. <<>> \in Seq(Replies) /\ <<>> \in Seq(PlainArgs \cup Literals) OBVIOUS
<1>3. "BLANK" \in Verbs BY DEF Verbs, OtherVerbs
<1>4. z \in ConnType BY <1>1, <1>2, <1>3, Zenon DEF NextIteration, ConnType
<1>5. SameBut(y, z, {"out", "quit", "dispatched", "args", "verb"})
      BY <1>1 DEF NextIteration, ConnType, SameBut, Fields
<1>6. {"out", "quit", "dispatched", "args", "verb"} \subseteq Work BY DEF Work
<1> HIDE DEF z
<1>7. Steady(x, z) BY <1>4, <1>5, <1>6, SteadyWork
<1> QED BY <1>7 DEF z

\* The results of a handler do not move the program counter.
LEMMA KeepsPc ==
  ASSUME NEW y \in ConnType, NEW b \in BOOLEAN
  PROVE  /\ MustClose(y, b).pc = y.pc /\ AndQuit(y).pc = y.pc
         /\ AbandonsBody(y).pc = y.pc /\ [y EXCEPT !.quit = b].pc = y.pc
BY DEF MustClose, AndQuit, AbandonsBody, ConnType

-----------------------------------------------------------------------------
(***************************************************************************)
(* The steps of the server that are steady.                                *)
(***************************************************************************)
\* A steady step of the server: not on a closed connection, not while the
\* command read has nothing buffered; it enters a handshake with an empty
\* reader only, and a callback that is running does not go on.
Moves == /\ Steady(c, c')
         /\ c.pc # "closed" /\ (c.pc = "line" => buf # <<>>)
         /\ c'.pc = "session" => c.pc # "session"
         /\ c'.pc = "handshake" => buf' = <<>>

LEMMA LoopMoves ==
  ASSUME c \in ConnType, \/ Greet \/ ArmCommandRead \/ ArgsResolved \/ Enforce
                         \/ CheckContext /\ ~CtxDone
  PROVE  Moves
<1>0. Steady(c, c) BY SteadySelf
<1>1. CASE Greet
  <2>1. PICK f \in Flush(Write(c, "GREETING")) :
           c' = Goto(f, IF f.wfail THEN "closed" ELSE "top")
        BY <1>1 DEF Greet
  <2>2. Steady(c, f) BY <1>0, <2>1, ThenWrite, ThenFlush, SomeReplies
  <2>3. Steady(c, c') /\ c'.pc \in {"closed", "top"} BY <2>1, <2>2, ThenGoto, SomePcs
  <2> QED BY <1>1, <2>3 DEF Moves, Greet
<1>2. CASE ArmCommandRead
  <2>1. PICK a \in Arm(c) : c' = Goto(a, "line") BY <1>2 DEF ArmCommandRead
  <2>2. "line" \in Pcs BY DEF Pcs, ReadPcs, LinePcs
  <2>3. Steady(c, c') /\ c'.pc = "line" BY <1>0, <2>1, <2>2, ThenArm, ThenGoto
  <2> QED BY <1>2, <2>3 DEF Moves, ArmCommandRead
<1>3. CASE ArgsResolved
  <2>1. Steady(c, c') /\ c'.pc = "dispatch"
        BY <1>0, <1>3, ThenGoto, SomePcs DEF ArgsResolved
  <2> QED BY <1>3, <2>1 DEF Moves, ArgsResolved
<1>4. CASE Enforce
  <2>1. CASE c.hijacked
    <3>1. Steady(c, c') /\ c'.pc = "closed"
          BY <1>0, <1>4, <2>1, ThenGoto, SomePcs DEF Enforce
    <3> QED BY <1>4, <3>1 DEF Moves, Enforce
  <2>2. CASE ~c.hijacked
    <3>1. PICK f \in Flush(Verdict(c)) :
             c' = Goto(f, IF f.wfail \/ f.quit THEN "closed" ELSE "top")
          BY <1>4, <2>2 DEF Enforce
    <3>2. Steady(c, f) BY <1>0, <3>1, ThenVerdict, ThenFlush
    <3>3. Steady(c, c') /\ c'.pc \in {"closed", "top"} BY <3>1, <3>2, ThenGoto, SomePcs
    <3> QED BY <1>4, <3>3 DEF Moves, Enforce
  <2> QED BY <2>1, <2>2
<1>5. CASE CheckContext /\ ~CtxDone
  <2>1. c' = Goto(NextIteration(c), "arm") BY <1>5 DEF CheckContext
  <2>2. Steady(c, c') /\ c'.pc = "arm" BY <1>0, <2>1, ThenIteration, ThenGoto, SomePcs
  <2> QED BY <1>5, <2>2 DEF Moves, CheckContext
<1> QED BY <1>1, <1>2, <1>3, <1>4, <1>5

LEMMA LiteralMoves ==
  ASSUME c \in ConnType, RejectArgLiteral \/ BeginArgLiteral
  PROVE  Moves
<1>0. Steady(c, c) BY SteadySelf
<1>1. CASE RejectArgLiteral
  <2> DEFINE b == \/ LastArg \in NonSync
                  \/ LastArg \in Oversized /\ buf # <<>>
  <2>1. b \in BOOLEAN OBVIOUS
  <2>2. c' = Goto(MustClose(ClientError(c), b), "enforce") BY <1>1 DEF RejectArgLiteral
  <2> HIDE DEF b
  <2>3. Steady(c, c') /\ c'.pc = "enforce"
        BY <1>0, <2>1, <2>2, ThenClientError, ThenMustClose, ThenGoto, SomePcs
  <2> QED BY <1>1, <2>3 DEF Moves, RejectArgLiteral
<1>2. CASE BeginArgLiteral
  <2>1. "argbody" \in ReadPcs BY DEF ReadPcs, BodyPcs
  <2>2. c' \in StartLiteral(c, LastArg, "argbody") BY <1>2 DEF BeginArgLiteral
  <2>3. Steady(c, c') /\ c'.pc \in {"argbody", "enforce"}
        BY <1>0, <2>1, <2>2, ThenStartLiteral
  <2> QED BY <1>2, <2>3 DEF Moves, BeginArgLiteral
<1> QED BY <1>1, <1>2

LEMMA LineMoves ==
  ASSUME Inv, SkipBlankLine \/ ParseLineFails \/ AcceptLine
  PROVE  Moves
<1>0. c \in ConnType /\ Steady(c, c) BY SteadySelf DEF Inv, TypeOK
<1>a. c.pc = "line" /\ buf # <<>>
      BY DEF SkipBlankLine, ParseLineFails, AcceptLine, Takes
<1>1. CASE SkipBlankLine
  <2>1. Steady(c, c') /\ c'.pc = "top" BY <1>0, <1>1, ThenGoto, SomePcs DEF SkipBlankLine
  <2> QED BY <1>a, <2>1 DEF Moves
<1>2. CASE ParseLineFails
  <2>1. Steady(c, ClientError(Failed(c))) BY <1>0, ThenFailed, ThenClientError
  <2>2. Steady(c, c') /\ c'.pc = "enforce"
        BY <1>2, <2>1, ThenGoto, SomePcs DEF ParseLineFails
  <2> QED BY <1>a, <2>2 DEF Moves
<1>3. CASE AcceptLine
  <2>1. c' \in ConnType BY <1>3, ReadLineSteps, CIConnType DEF Inv
  <2>2. c'.pc = "resolve" /\ SameBut(c, c', {"pc", "verb", "args", "misparsed"})
        BY <1>0, <1>3 DEF AcceptLine, ConnType, SameBut, Fields
  <2>3. {"pc", "verb", "args", "misparsed"} \subseteq Work BY DEF Work
  <2>4. Steady(c, c') BY <1>0, <2>1, <2>2, <2>3, SteadyWork
  <2> QED BY <1>a, <2>2, <2>4 DEF Moves
<1> QED BY <1>1, <1>2, <1>3

LEMMA BodyMoves ==
  ASSUME Inv, ReadBody \/ CommandCut \/ TrailerRejected \/ ReadArgRest
  PROVE  Moves
<1>0. c \in ConnType /\ Steady(c, c) BY SteadySelf DEF Inv, TypeOK
<1>a. c.pc \notin {"closed", "line", "session", "handshake"}
      BY DEF ReadBody, CommandCut, TrailerRejected, ReadArgRest, Takes, ReadPcs, BodyPcs, LinePcs
<1>1. CASE ReadBody
  <2>1. c' \in ConnType BY <1>1, ReadBodyStep, CIConnType DEF Inv
  <2>2. c.pc \in BodyPcs BY <1>1 DEF ReadBody
  <2>3. AfterBody[c.pc] \in {"argrest", "authcrlf", "scriptcrlf"}
        BY <2>2 DEF AfterBody, BodyPcs
  <2>4. c'.pc = AfterBody[c.pc] /\ SameBut(c, c', {"pc", "val"})
        BY <1>0, <1>1 DEF ReadBody, ConnType, SameBut, Fields
  <2>5. {"pc", "val"} \subseteq Work BY DEF Work
  <2>6. Steady(c, c') BY <1>0, <2>1, <2>4, <2>5, SteadyWork
  <2> QED BY <1>a, <2>3, <2>4, <2>6 DEF Moves
<1>2. CASE CommandCut \/ TrailerRejected
  <2>1. c' = GiveUpRead(c) BY <1>2 DEF CommandCut, TrailerRejected
  <2>2. Steady(c, c') /\ c'.pc = "enforce" BY <1>0, <2>1, ThenGiveUp
  <2> QED BY <1>a, <2>2 DEF Moves
<1>3. CASE ReadArgRest
  <2> DEFINE x == SetReadDeadline(c, "none")
             s == SubSeq(x.args, 1, Len(c.args) - 1)
                     \o <<Requoted(c.verb, Len(c.args), c.val)>> \o Next1.args
  <2>1. Steady(c, x) BY <1>0, ThenDeadline DEF Timers
  <2>2. c' = Goto(ClientError(Failed(x)), "enforce")
          \/ c' = [x EXCEPT !.pc = "resolve", !.args = s]
        BY <1>3 DEF ReadArgRest
  <2>3. c' \in ConnType BY <1>3, ReadArgRestStep, CIConnType DEF Inv
  <2> HIDE DEF x, s
  <2>4. CASE c' = Goto(ClientError(Failed(x)), "enforce")
    <3>1. Steady(c, ClientError(Failed(x))) BY <2>1, ThenFailed, ThenClientError
    <3>2. Steady(c, c') /\ c'.pc = "enforce" BY <2>4, <3>1, ThenGoto, SomePcs
    <3> QED BY <1>a, <3>2 DEF Moves
  <2>5. CASE c' = [x EXCEPT !.pc = "resolve", !.args = s]
    <3>1. x \in ConnType BY <2>1 DEF Steady
    <3>2. c'.pc = "resolve" /\ SameBut(x, c', {"pc", "args"})
          BY <2>5, <3>1 DEF ConnType, SameBut, Fields
    <3>3. {"pc", "args"} \subseteq Work BY DEF Work
    <3>4. Steady(c, c') BY <2>1, <2>3, <3>2, <3>3, SteadyWork
    <3> QED BY <1>a, <3>2, <3>4 DEF Moves
  <2> QED BY <2>2, <2>4, <2>5
<1> QED BY <1>1, <1>2, <1>3

LEMMA ResponseMoves ==
  ASSUME c \in ConnType, ReadSaslResponse \/ ReadAuthLiteral \/ ReadScriptLiteral
  PROVE  Moves
<1> DEFINE x == SetReadDeadline(c, "none")
<1>0. Steady(c, x) BY SteadySelf, ThenDeadline DEF Timers
<1>a. c.pc \notin {"closed", "line", "session", "handshake"}
      BY DEF ReadSaslResponse, ReadAuthLiteral, ReadScriptLiteral, Takes
<1>1. CASE ReadSaslResponse
  <2> DEFINE v == Val(Next1)
  <2>1. \/ c' = Done(Write(Failed(x), "NO"))
        \/ c' \in StartAuthLiteral(x, v)
        \/ c' = AuthPayload(x, v)
        BY <1>1 DEF ReadSaslResponse, Done
  <2> HIDE DEF v, x
  <2>2. Steady(c, Write(Failed(x), "NO")) BY <1>0, ThenFailed, ThenWrite, SomeReplies
  <2>3. Steady(c, c') /\ c'.pc \in {"authbody", "session", "enforce"}
        BY <1>0, <2>1, <2>2, ThenDone, ThenAuthLiteral, ThenPayload
  <2> QED BY <1>a, <2>3 DEF Moves
<1>2. CASE ReadAuthLiteral
  <2>1. c' = AuthPayload(x, c.val) BY <1>2 DEF ReadAuthLiteral
  <2> HIDE DEF x
  <2> QED BY <1>0, <1>a, <2>1, ThenPayload DEF Moves
<1>3. CASE ReadScriptLiteral
  <2>1. c' = ScriptContent(x, c.val) BY <1>3 DEF ReadScriptLiteral
  <2> HIDE DEF x
  <2> QED BY <1>0, <1>a, <2>1, ThenPayload DEF Moves
<1> QED BY <1>1, <1>2, <1>3

LEMMA AnswerMoves ==
  ASSUME c \in ConnType, \/ HandleCapabilityOrNoop \/ HandleLogout \/ UnknownHandled
                         \/ UnknownRejected \/ NotAuthenticated \/ AuthenticateRefused
                         \/ StartTLSRefused \/ StartTLSPipelined
  PROVE  Moves
<1> DEFINE x == Executing(c)
<1>0. Steady(c, x) BY SteadySelf, ThenExecuting
<1>a. c.pc = "dispatch"
      BY DEF HandleCapabilityOrNoop, HandleLogout, UnknownHandled, UnknownRejected,
             NotAuthenticated, AuthenticateRefused, StartTLSRefused, StartTLSPipelined,
             StartTLSAccepted, Dispatches
<1> SUFFICES Steady(c, c') /\ c'.pc = "enforce" BY <1>a DEF Moves
<1> HIDE DEF x
<1>1. ASSUME NEW r \in Replies
      PROVE  Steady(c, Done(Write(x, r))) /\ Done(Write(x, r)).pc = "enforce"
      BY <1>0, ThenWrite, ThenDone
<1>b. \A y : Steady(c, y) => y \in ConnType BY DEF Steady
<1>2. CASE HandleCapabilityOrNoop
      BY <1>1, <1>2, SomeReplies DEF HandleCapabilityOrNoop, x
<1>3. CASE HandleLogout
  <2>1. c' = AndQuit(Done(Write(x, "OK"))) BY <1>3 DEF HandleLogout, x
  <2> QED BY <1>1, <1>b, <2>1, SomeReplies, ThenQuit, KeepsPc
<1>4. CASE UnknownHandled
  <2>1. PICK close \in BOOLEAN : c' = [Done(Write(x, "EXT")) EXCEPT !.quit = close]
        BY <1>4 DEF UnknownHandled, x
  <2> QED BY <1>1, <1>b, <2>1, SomeReplies, ThenQuits, KeepsPc
<1>5. CASE UnknownRejected
  <2>1. c' = Refused(Failed(x)) BY <1>5 DEF UnknownRejected, x
  <2> QED BY <1>0, <2>1, ThenFailed, ThenDone
<1>6. CASE NotAuthenticated \/ AuthenticateRefused
  <2>1. c' = AbandonsBody(Refused(x)) BY <1>6 DEF NotAuthenticated, AuthenticateRefused, x
  <2>2. Steady(c, Refused(x)) /\ Refused(x).pc = "enforce" BY <1>0, ThenDone
  <2> QED BY <1>b, <2>1, <2>2, ThenAbandons, KeepsPc
<1>7. CASE StartTLSRefused
  <2>1. c' = Refused(x) BY <1>7 DEF StartTLSRefused, x
  <2> QED BY <1>0, <2>1, ThenDone
<1>8. CASE StartTLSPipelined
  <2> DEFINE y == Done(Write(Failed(x), "NO"))
  <2>1. c' = AndQuit(y) BY <1>8 DEF StartTLSPipelined, x
  <2>2. Steady(c, Write(Failed(x), "NO")) BY <1>0, ThenFailed, ThenWrite, SomeReplies
  <2>3. Steady(c, y) /\ y.pc = "enforce" BY <2>2, ThenDone
  <2> HIDE DEF y
  <2> QED BY <1>b, <2>1, <2>3, ThenQuit, KeepsPc
<1> QED BY <1>2, <1>3, <1>4, <1>5, <1>6, <1>7, <1>8

LEMMA AuthMoves ==
  ASSUME c \in ConnType, AuthenticateInitialResponse \/ AuthenticateChallenge \/ HandleLogin
  PROVE  Moves
<1> DEFINE x == Executing(c)
<1>0. Steady(c, x) BY SteadySelf, ThenExecuting
<1>a. c.pc = "dispatch"
      BY DEF AuthenticateInitialResponse, AuthenticateChallenge, HandleLogin,
             AuthenticateAccepted, Dispatches
<1> SUFFICES Steady(c, c') /\ c'.pc # "handshake" BY <1>a DEF Moves
<1> HIDE DEF x
<1>1. CASE AuthenticateInitialResponse
  <2>1. c' \in StartAuthLiteral(x, c.args[2]) \/ c' = AuthPayload(x, c.args[2])
        BY <1>1 DEF AuthenticateInitialResponse, x
  <2>2. Steady(c, c') /\ c'.pc \in {"authbody", "session", "enforce"}
        BY <1>0, <2>1, ThenAuthLiteral, ThenPayload
  <2> QED BY <2>2
<1>2. CASE AuthenticateChallenge
  <2>1. PICK f \in Flush(Write(x, "CHALLENGE")) :
           IF f.wfail THEN c' = Done(MustClose(f, TRUE))
                      ELSE \E a \in Arm(f) : c' = Goto(a, "contline")
        BY <1>2 DEF AuthenticateChallenge, x
  <2>2. Steady(c, f) BY <1>0, <2>1, ThenWrite, ThenFlush, SomeReplies
  <2>3. Steady(c, MustClose(f, TRUE)) BY <2>2, ThenMustClose
  <2>4. "contline" \in Pcs BY DEF Pcs, ReadPcs, LinePcs
  <2>5. Steady(c, c') /\ c'.pc \in {"contline", "enforce"}
    <3>1. CASE f.wfail BY <2>1, <2>3, <3>1, ThenDone
    <3>2. CASE ~f.wfail BY <2>1, <2>2, <2>4, <3>2, ThenArm, ThenGoto
    <3> QED BY <3>1, <3>2
  <2> QED BY <2>5
<1>3. CASE HandleLogin
  <2>1. c' = Refused(x) \/ c' = Goto(x, "session") BY <1>3 DEF HandleLogin, x
  <2>2. Steady(c, c') /\ c'.pc \in {"session", "enforce"}
    <3>1. CASE c' = Refused(x) BY <1>0, <3>1, ThenDone
    <3>2. CASE c' = Goto(x, "session") BY <1>0, <3>2, ThenGoto, SomePcs
    <3> QED BY <2>1, <3>1, <3>2
  <2> QED BY <2>2
<1> QED BY <1>1, <1>2, <1>3

LEMMA StartTLSMoves == ASSUME c \in ConnType, StartTLSBegins PROVE Moves
<1> DEFINE x == Executing(c)
<1>0. Steady(c, x) BY SteadySelf, ThenExecuting
<1>a. c.pc = "dispatch" /\ buf' = <<>>
      BY DEF StartTLSBegins, StartTLSAccepted, Dispatches, Quietly
<1> SUFFICES Steady(c, c') BY <1>a DEF Moves
<1> HIDE DEF x
<1>1. PICK f \in Flush(Write(x, "OK")) :
         IF f.wfail THEN c' = AndQuit(Done(f))
                    ELSE \E a \in Arm(f) : c' = Goto(a, "handshake")
      BY DEF StartTLSBegins, x
<1>2. Steady(c, f) BY <1>0, <1>1, ThenWrite, ThenFlush, SomeReplies
<1>3. Steady(c, AndQuit(Done(f))) BY <1>2, ThenDone, ThenQuit
<1> QED BY <1>1, <1>2, <1>3, ThenArm, ThenGoto, SomePcs

LEMMA ScriptMoves ==
  ASSUME c \in ConnType, HandleScriptCommand \/ HandleScriptContent
  PROVE  Moves
<1> DEFINE x == Executing(c)
<1>0. Steady(c, x) BY SteadySelf, ThenExecuting
<1>a. c.pc = "dispatch" BY DEF HandleScriptCommand, HandleScriptContent, Dispatches
<1> SUFFICES Steady(c, c') /\ c'.pc \in {"scriptbody", "session", "enforce"} BY <1>a DEF Moves
<1> HIDE DEF x
<1>1. /\ Steady(c, Refused(x)) /\ Refused(x).pc = "enforce"
      /\ Steady(c, Done(QuotaMaxSize(x))) /\ Done(QuotaMaxSize(x)).pc = "enforce"
      BY <1>0, ThenFailure, ThenDone
<1>2. CASE HandleScriptCommand
  <2>1. c' \in {Refused(x), Done(QuotaMaxSize(x)), Goto(x, "session")}
        BY <1>2 DEF HandleScriptCommand, x
  <2>2. Steady(c, Goto(x, "session")) /\ Goto(x, "session").pc = "session"
        BY <1>0, ThenGoto, SomePcs
  <2> QED BY <1>1, <2>1, <2>2
<1>3. CASE HandleScriptContent
  <2> DEFINE b1 == ContentArg \in NonSync
             b2 == ContentArg \in NonSync \/ buf # <<>>
  <2>1. b1 \in BOOLEAN /\ b2 \in BOOLEAN OBVIOUS
  <2>2. \/ c' = Refused(x)
        \/ c' = ScriptContent(x, ContentArg)
        \/ c' = MustClose(Refused(x), b1)
        \/ c' = MustClose(Done(QuotaMaxSize(x)), b2)
        \/ c' \in StartLiteral(x, ContentArg, "scriptbody")
        BY <1>3, Zenon DEF HandleScriptContent, x
  <2> HIDE DEF b1, b2
  <2>3. "scriptbody" \in ReadPcs BY DEF ReadPcs, BodyPcs
  <2>4. ASSUME NEW y, Steady(c, y), y.pc = "enforce", NEW b \in BOOLEAN
        PROVE  Steady(c, MustClose(y, b)) /\ MustClose(y, b).pc = "enforce"
        BY <2>4, ThenMustClose, KeepsPc DEF Steady
  <2>5. CASE c' = Refused(x) BY <1>1, <2>5
  <2>6. CASE c' = ScriptContent(x, ContentArg) BY <1>0, <2>6, ThenPayload
  <2>7. CASE c' = MustClose(Refused(x), b1) BY <1>1, <2>1, <2>4, <2>7
  <2>8. CASE c' = MustClose(Done(QuotaMaxSize(x)), b2) BY <1>1, <2>1, <2>4, <2>8
  <2>9. CASE c' \in StartLiteral(x, ContentArg, "scriptbody")
        BY <1>0, <2>3, <2>9, ThenStartLiteral
  <2> QED BY <2>2, <2>5, <2>6, <2>7, <2>8, <2>9
<1> QED BY <1>2, <1>3

LEMMA EndingMoves ==
  ASSUME c \in ConnType, SessionFails \/ CallbackPanics \/ HandshakeFails \/ HandshakeAborts
  PROVE  Moves
<1>0. Steady(c, c) BY SteadySelf
<1>1. CASE SessionFails
  <2>1. PICK close \in BOOLEAN :
           c' = Done(IF c.verb \in AuthVerbs THEN AuthFailure(c, close)
                                             ELSE SessionError(c, close))
        BY <1>1 DEF SessionFails
  <2>2. Steady(c, AuthFailure(c, close)) /\ Steady(c, SessionError(c, close))
        BY <1>0, ThenFailure
  <2>3. Steady(c, c') /\ c'.pc = "enforce" BY <2>1, <2>2, ThenDone
  <2> QED BY <1>1, <2>3 DEF Moves, SessionFails
<1>2. CASE CallbackPanics
  <2>1. Steady(c, c') /\ c'.pc = "closed"
        BY <1>0, <1>2, ThenGoto, SomePcs DEF CallbackPanics
  <2> QED BY <1>2, <2>1 DEF Moves, CallbackPanics
<1>3. CASE HandshakeFails \/ HandshakeAborts
  <2> DEFINE y == Done(Failed(SetReadDeadline(c, "none")))
  <2>1. Steady(c, SetReadDeadline(c, "none")) BY <1>0, ThenDeadline DEF Timers
  <2>2. Steady(c, y) /\ y.pc = "enforce" BY <2>1, ThenFailed, ThenDone
  <2>3. c' = AndQuit(y) BY <1>3 DEF HandshakeFails, HandshakeAborts, HandshakeFailed
  <2>4. y \in ConnType BY <2>2 DEF Steady
  <2> HIDE DEF y
  <2>5. Steady(c, c') /\ c'.pc = "enforce" BY <2>2, <2>3, <2>4, ThenQuit, KeepsPc
  <2> QED BY <1>3, <2>5 DEF Moves, HandshakeFails, HandshakeAborts
<1> QED BY <1>1, <1>2, <1>3

\* The steps of the server that are not steady: a session that returns or
\* hijacks, a handshake that ends well, and leaving the loop with a BYE.
Leaves == CommandReadFails \/ RejectLine \/ (CheckContext /\ CtxDone)

\* Every other step of the server is steady, or refills the reader.
LEMMA ServerMoves ==
  ASSUME Inv, ServerStep \/ SessionFails \/ CallbackPanics \/ HandshakeFails
  PROVE  Moves \/ Leaves \/ Fill
<1>0. c \in ConnType BY DEF Inv, TypeOK
<1>1. CASE ReadStep BY <1>0, <1>1, LineMoves, BodyMoves, ResponseMoves DEF ReadStep, Leaves
<1>2. CASE HandlerStep
      BY <1>0, <1>2, AnswerMoves, AuthMoves, StartTLSMoves, ScriptMoves DEF HandlerStep
<1>3. CASE LoopStep BY <1>0, <1>3, LoopMoves, LiteralMoves DEF LoopStep, Leaves
<1>4. CASE HandshakeAborts \/ SessionFails \/ CallbackPanics \/ HandshakeFails
      BY <1>0, <1>4, EndingMoves
<1> QED BY <1>1, <1>2, <1>3, <1>4 DEF ServerStep

-----------------------------------------------------------------------------
(***************************************************************************)
(* The steps that are not steady.                                          *)
(***************************************************************************)
\* The client is told BYE in this iteration.
SaysBye(x) == \E i \in DOMAIN x.out : x.out[i] \in Byes
Says(x, r) == \E i \in DOMAIN x.out : x.out[i] = r

LEMMA ByeSpec ==
  ASSUME NEW x \in ConnType, NEW r \in Byes, NEW h \in {"idle", "absolute"}
  PROVE  /\ Write(x, r) \in ConnType /\ SameBut(x, Write(x, r), {"out", "dirty"})
         /\ SaysBye(Write(x, r))
         /\ [Write(x, r) EXCEPT !.hook = h] \in ConnType
         /\ SameBut(x, [Write(x, r) EXCEPT !.hook = h], {"out", "dirty", "hook"})
         /\ SaysBye([Write(x, r) EXCEPT !.hook = h])
         /\ Says([Write(x, r) EXCEPT !.hook = h], r)
         /\ [Write(x, r) EXCEPT !.hook = h].hook = h
<1> DEFINE w == Write(x, r)
           y == [w EXCEPT !.hook = h]
<1>1. r \in Replies BY DEF Replies
<1>2. w \in ConnType /\ SameBut(x, w, {"out", "dirty"}) /\ w.out = Append(x.out, r)
      BY <1>1, WriteSpec
<1>3. x.out \in Seq(Replies) BY DEF ConnType
<1>4. /\ Len(x.out) + 1 \in DOMAIN Append(x.out, r)
      /\ Append(x.out, r)[Len(x.out) + 1] = r
      BY <1>1, <1>3
<1> HIDE DEF w
<1>5. SaysBye(w) /\ Says(w, r) BY <1>2, <1>4 DEF SaysBye, Says
<1>6. y \in ConnType BY <1>2, Zenon DEF ConnType
<1>7. SameBut(w, y, {"hook"}) /\ y.hook = h BY <1>2 DEF ConnType, SameBut, Fields
<1> HIDE DEF y
<1>8. SameBut(x, y, {"out", "dirty", "hook"}) /\ y.out = w.out
      BY <1>2, <1>7 DEF SameBut, Fields
<1>9. SaysBye(y) /\ Says(y, r) BY <1>5, <1>8 DEF SaysBye, Says
<1> QED BY <1>2, <1>5, <1>6, <1>7, <1>8, <1>9 DEF y, w

\* How the hook of a closing connection relates to its clock: nothing is
\* reported, or the absolute limit, or idleness, and the client is told the same.
Reported(x, y) ==
    \/ y.hook = x.hook
    \/ y.hook = "absolute" /\ Says(y, "BYE-abs") /\ AbsoluteTimeout /\ clock = 2
    \/ /\ y.hook = "idle" /\ Says(y, "BYE-idle") /\ x.expired
       /\ ~CtxDone /\ ~(AbsoluteTimeout /\ clock = 2)

\* y is a way to leave the loop from x.
Parted(x, y) == /\ y \in ConnType /\ SameBut(x, y, Parting)
                /\ Reported(x, y) /\ (CtxDone => SaysBye(y))

LEMMA ShutdownByeParts == ASSUME NEW x \in ConnType PROVE Parted(x, ShutdownBye(x))
<1>1. "BYE-abs" \in Byes /\ "BYE-down" \in Byes BY DEF Byes
<1> DEFINE a == [Write(x, "BYE-abs") EXCEPT !.hook = "absolute"]
           d == Write(x, "BYE-down")
<1>2. /\ a \in ConnType /\ SameBut(x, a, {"out", "dirty", "hook"})
      /\ SaysBye(a) /\ Says(a, "BYE-abs") /\ a.hook = "absolute"
      BY <1>1, ByeSpec
<1>3. d \in ConnType /\ SameBut(x, d, {"out", "dirty"}) /\ SaysBye(d) BY <1>1, ByeSpec
<1>4. \/ ShutdownBye(x) = a /\ AbsoluteTimeout /\ clock = 2
      \/ ShutdownBye(x) = d
      BY DEF ShutdownBye
<1> HIDE DEF a, d
<1>5. SameBut(x, a, Parting) BY <1>2 DEF SameBut, Fields, Parting
<1>6. SameBut(x, d, Parting) /\ d.hook = x.hook BY <1>3 DEF SameBut, Fields, Parting
<1> QED BY <1>2, <1>3, <1>4, <1>5, <1>6 DEF Parted, Reported

LEMMA LeaveParts ==
  ASSUME NEW x, NEW y, Parted(x, y), NEW z \in Leave(y)
  PROVE  Parted(x, z) /\ z.pc = "closed"
<1>1. PICK f \in Flush(y) : z = Goto(f, "closed") BY DEF Leave
<1>2. y \in ConnType BY DEF Parted
<1>3. f \in ConnType /\ SameBut(y, f, {"dirty", "wfail"}) BY <1>1, <1>2, FlushSpec
<1>4. z \in ConnType /\ SameBut(f, z, {"pc"}) /\ z.pc = "closed"
      BY <1>1, <1>3, GotoSpec, SomePcs
<1>5. z.hook = y.hook /\ z.out = y.out BY <1>3, <1>4 DEF SameBut, Fields
<1>6. SameBut(x, z, Parting) BY <1>3, <1>4 DEF Parted, SameBut, Fields, Parting
<1>7. Reported(x, z) BY <1>5 DEF Parted, Reported, Says
<1>8. CtxDone => SaysBye(z) BY <1>5 DEF Parted, SaysBye
<1> QED BY <1>4, <1>6, <1>7, <1>8 DEF Parted

\* Every way out of the loop: the hook tells the truth, and a client whose
\* context is done is told BYE.
LEMMA LeavesSpec ==
  ASSUME c \in ConnType, Leaves
  PROVE  /\ Parted(c, c') /\ c'.pc = "closed" /\ c.pc \in {"line", "top"}
<1>0. SameBut(c, c, Parting) BY DEF SameBut
<1>1. CASE CommandReadFails
  <2> DEFINE a == [Write(c, "BYE-abs") EXCEPT !.hook = "absolute"]
             i == [Write(c, "BYE-idle") EXCEPT !.hook = "idle"]
  <2>1. "BYE-abs" \in Byes /\ "BYE-idle" \in Byes BY DEF Byes
  <2>2. /\ a \in ConnType /\ SameBut(c, a, {"out", "dirty", "hook"})
        /\ a.hook = "absolute" /\ Says(a, "BYE-abs")
        /\ i \in ConnType /\ SameBut(c, i, {"out", "dirty", "hook"})
        /\ i.hook = "idle" /\ Says(i, "BYE-idle")
        BY <2>1, ByeSpec
  <2>3. PICK x : /\ c' \in Leave(x)
                 /\ \/ CtxDone /\ x = ShutdownBye(c)
                    \/ ~CtxDone /\ x = c
                    \/ ~CtxDone /\ x = a /\ AbsoluteTimeout /\ clock = 2
                    \/ /\ ~CtxDone /\ x = i /\ c.expired
                       /\ ~(AbsoluteTimeout /\ clock = 2)
        BY <1>1 DEF CommandReadFails
  <2> HIDE DEF a, i
  <2>4. SameBut(c, a, Parting) /\ SameBut(c, i, Parting)
        BY <2>2 DEF SameBut, Fields, Parting
  <2>5. Parted(c, x)
        BY <1>0, <2>2, <2>3, <2>4, ShutdownByeParts DEF Parted, Reported
  <2>6. Parted(c, c') /\ c'.pc = "closed" BY <2>3, <2>5, LeaveParts
  <2> QED BY <1>1, <2>6 DEF CommandReadFails
<1>2. CASE RejectLine
  <2> DEFINE w == Write(c, "NO")
  <2>1. w \in ConnType /\ SameBut(c, w, {"out", "dirty"}) BY WriteSpec, SomeReplies
  <2>2. PICK x : /\ c' \in Leave(x)
                 /\ \/ CtxDone /\ x = ShutdownBye(c)
                    \/ ~CtxDone /\ x = w
        BY <1>2 DEF RejectLine
  <2> HIDE DEF w
  <2>3. SameBut(c, w, Parting) /\ w.hook = c.hook BY <2>1 DEF SameBut, Fields, Parting
  <2>4. Parted(c, x) BY <2>1, <2>2, <2>3, ShutdownByeParts DEF Parted, Reported
  <2>5. Parted(c, c') /\ c'.pc = "closed" BY <2>2, <2>4, LeaveParts
  <2> QED BY <1>2, <2>5 DEF RejectLine, Takes
<1>3. CASE CheckContext /\ CtxDone
  <2> DEFINE x == NextIteration(c)
             y == ShutdownBye(x)
  <2>1. Steady(c, x) BY SteadySelf, ThenIteration
  <2>2. x \in ConnType BY <2>1 DEF Steady
  <2>3. SameBut(c, x, {"out", "quit", "dispatched", "args", "verb"})
        BY DEF NextIteration, ConnType, SameBut, Fields
  <2>4. c' \in Leave(y) BY <1>3 DEF CheckContext
  <2> HIDE DEF x
  <2>5. Parted(x, y) BY <2>2, ShutdownByeParts
  <2> HIDE DEF y
  <2>6. Parted(x, c') /\ c'.pc = "closed" BY <2>4, <2>5, LeaveParts
  <2>7. x.hook = c.hook /\ x.expired = c.expired BY <2>3 DEF SameBut, Fields
  <2>8. SameBut(c, c', Parting) BY <2>3, <2>6 DEF Parted, SameBut, Fields, Parting
  <2>9. Parted(c, c') BY <2>6, <2>7, <2>8 DEF Parted, Reported
  <2> QED BY <1>3, <2>6, <2>9 DEF CheckContext
<1> QED BY <1>1, <1>2, <1>3 DEF Leaves

\* What every step of the server leaves to the timers and to Server.Close.
Timed(x, y) == /\ y.poisoned = x.poisoned /\ y.kicked = x.kicked /\ y.hook = x.hook
               /\ y.expired => x.expired /\ y.rdl = x.rdl

\* A callback that returns authenticates by a login only.
LEMMA SucceedsSpec ==
  ASSUME c \in ConnType, SessionSucceeds
  PROVE  /\ c.pc = "session" /\ c'.pc = "enforce" /\ Timed(c, c')
         /\ c'.authenticated = (c.authenticated \/ c.verb \in AuthVerbs)
         /\ c'.isTLS = c.isTLS /\ c'.hijacked = c.hijacked
<1> DEFINE b == c.authenticated \/ c.verb \in AuthVerbs
           x == [c EXCEPT !.authenticated = b]
<1>1. b \in BOOLEAN OBVIOUS
<1>2. c' = Done(Write(x, "OK")) BY DEF SessionSucceeds
<1> HIDE DEF b
<1>3. x \in ConnType BY <1>1, Zenon DEF ConnType
<1>4. SameBut(c, x, {"authenticated"}) /\ x.authenticated = b
      BY DEF ConnType, SameBut, Fields
<1> HIDE DEF x
<1>5. Steady(x, c') /\ c'.pc = "enforce"
      BY <1>2, <1>3, SteadySelf, ThenWrite, ThenDone, SomeReplies
<1>6. /\ x.isTLS = c.isTLS /\ x.hijacked = c.hijacked /\ x.poisoned = c.poisoned
      /\ x.kicked = c.kicked /\ x.hook = c.hook /\ x.expired = c.expired /\ x.rdl = c.rdl
      BY <1>4 DEF SameBut, Fields
<1> QED BY <1>4, <1>5, <1>6 DEF Steady, Timed, SessionSucceeds, b

\* A hijack changes nothing that the session was told.
LEMMA HijacksSpec ==
  ASSUME c \in ConnType, SessionHijacks
  PROVE  /\ c.pc = "session" /\ c'.pc = "enforce" /\ Timed(c, c')
         /\ c'.authenticated = c.authenticated /\ c'.isTLS = c.isTLS /\ c'.hijacked
<1> DEFINE d == SetReadDeadline(c, "none")
           x == [d EXCEPT !.hijacked = TRUE]
<1>1. Steady(c, d) BY SteadySelf, ThenDeadline DEF Timers
<1>2. c' \in {Done(x), Done(AuthFailure(x, FALSE))} BY DEF SessionHijacks
<1> HIDE DEF d
<1>3. d \in ConnType BY <1>1 DEF Steady
<1>4. x \in ConnType BY <1>3, Zenon DEF ConnType
<1>5. SameBut(d, x, {"hijacked"}) /\ x.hijacked BY <1>3 DEF ConnType, SameBut, Fields
<1> HIDE DEF x
<1>6. Steady(x, x) BY <1>4, SteadySelf
<1>7. Steady(x, AuthFailure(x, FALSE)) BY <1>6, ThenFailure
<1>8. Steady(x, c') /\ c'.pc = "enforce" BY <1>2, <1>6, <1>7, ThenDone
<1>9. /\ x.isTLS = d.isTLS /\ x.authenticated = d.authenticated /\ x.poisoned = d.poisoned
      /\ x.kicked = d.kicked /\ x.hook = d.hook /\ x.expired = d.expired /\ x.rdl = d.rdl
      BY <1>5 DEF SameBut, Fields
<1> QED BY <1>1, <1>5, <1>8, <1>9 DEF Steady, Timed, SessionHijacks

\* The handshake turns TLS on and nothing else.
LEMMA SecuresSpec ==
  ASSUME c \in ConnType, HandshakeSucceeds
  PROVE  /\ c.pc = "handshake" /\ c'.pc = "enforce" /\ Timed(c, c')
         /\ c'.authenticated = c.authenticated /\ c'.isTLS /\ c'.hijacked = c.hijacked
<1> DEFINE d == SetReadDeadline(c, "none")
           x == [d EXCEPT !.isTLS = TRUE]
<1>1. Steady(c, d) BY SteadySelf, ThenDeadline DEF Timers
<1>2. c' = Done(Write(x, "GREETING")) BY DEF HandshakeSucceeds
<1> HIDE DEF d
<1>3. d \in ConnType BY <1>1 DEF Steady
<1>4. x \in ConnType BY <1>3, Zenon DEF ConnType
<1>5. SameBut(d, x, {"isTLS"}) /\ x.isTLS BY <1>3 DEF ConnType, SameBut, Fields
<1> HIDE DEF x
<1>6. Steady(x, c') /\ c'.pc = "enforce"
      BY <1>2, <1>4, SteadySelf, ThenWrite, ThenDone, SomeReplies
<1>7. /\ x.hijacked = d.hijacked /\ x.authenticated = d.authenticated
      /\ x.poisoned = d.poisoned /\ x.kicked = d.kicked /\ x.hook = d.hook
      /\ x.expired = d.expired /\ x.rdl = d.rdl
      BY <1>5 DEF SameBut, Fields
<1> QED BY <1>1, <1>5, <1>6, <1>7 DEF Steady, Timed, HandshakeSucceeds

-----------------------------------------------------------------------------
(***************************************************************************)
(* Timers and shutdown: the invariant, and the two properties it yields.   *)
(***************************************************************************)
\* A poisoned connection belongs to a server that is closing; a deadline that
\* has expired was set, and the absolute one only after its time.
TimersReal == /\ c.poisoned => shutdown
              /\ c.expired => c.rdl # "none" /\ (c.rdl = "abs" => clock = 2)

\* An idle client that was kicked is still where it was, with nothing to read,
\* or its connection is over and it was told so.
IdleKick == c.kicked = "idle" =>
               /\ c.poisoned
               /\ \/ c.pc = "line" /\ buf = <<>>
                  \/ c.pc = "closed" /\ SaysBye(c)

\* A handshake starts with nothing buffered.
CleanHandshake == c.pc = "handshake" => buf = <<>>

Timely == TimersReal /\ TimeoutTruthful /\ IdleKick /\ CleanHandshake

LEMMA InitTimely == Init => Timely
<1> SUFFICES ASSUME Init PROVE Timely OBVIOUS
<1>1. /\ c.pc = "greet" /\ c.hook = "" /\ c.kicked = "" /\ ~c.poisoned /\ ~c.expired
  <2>1. PICK t \in InitTLS : c = InitConn(t) BY DEF Init
  <2> QED BY <2>1 DEF InitConn
<1> QED BY <1>1 DEF Timely, TimersReal, TimeoutTruthful, IdleKick, CleanHandshake

\* A step of the server on an open connection that is timed.
LEMMA TimedKeeps ==
  ASSUME Timely, Timed(c, c'), c.pc # "closed", UNCHANGED envVars,
         c.pc = "line" => buf # <<>>, c'.pc = "handshake" => buf' = <<>>
  PROVE  Timely'
<1>1. c.hook = "" BY DEF Timely, TimeoutTruthful
<1>2. c'.hook = "" BY <1>1 DEF Timed
<1>3. UNCHANGED <<shutdown, clock>> BY DEF envVars
<1>4. TimersReal' BY <1>3 DEF Timely, TimersReal, Timed
<1>5. TimeoutTruthful' BY <1>2 DEF TimeoutTruthful
<1>6. c.kicked # "idle" BY DEF Timely, IdleKick
<1>7. IdleKick' BY <1>6 DEF IdleKick, Timed
<1>8. CleanHandshake' BY DEF CleanHandshake
<1> QED BY <1>4, <1>5, <1>7, <1>8 DEF Timely

\* Leaving the loop: what is reported is what happened, and the kicked client
\* is told, because a poisoned connection is one whose context is done.
LEMMA LeavesKeeps ==
  ASSUME Inv, Timely, Leaves, UNCHANGED envVars
  PROVE  Timely'
<1>0. c \in ConnType BY DEF Inv, TypeOK
<1>1. Parted(c, c') /\ c'.pc = "closed" /\ c.pc \in {"line", "top"} BY <1>0, LeavesSpec
<1>2. /\ c'.poisoned = c.poisoned /\ c'.expired = c.expired /\ c'.rdl = c.rdl
      /\ c'.kicked = c.kicked
      BY <1>1 DEF Parted, SameBut, Fields, Parting
<1>3. UNCHANGED <<shutdown, clock>> BY DEF envVars
<1>4. TimersReal' BY <1>2, <1>3 DEF Timely, TimersReal
<1>5. c.hook = "" BY <1>1 DEF Timely, TimeoutTruthful
<1>6. ASSUME c.expired, ~CtxDone, ~(AbsoluteTimeout /\ clock = 2)
      PROVE  c.rdl \in {"idle", "auth"}
  <2>1. ~c.poisoned BY <1>6 DEF Timely, TimersReal, CtxDone
  <2>2. DeadlineSane(c) BY <1>1 DEF Inv, CI, Core
  <2>3. c.rdl # "none" /\ (c.rdl = "abs" => clock = 2) BY <1>6 DEF Timely, TimersReal
  <2>4. c.rdl \in NextReadDeadline(c.authenticated) BY <2>1, <2>2, <2>3 DEF DeadlineSane
  <2>5. c.rdl = "abs" => AbsoluteTimeout BY <2>4 DEF NextReadDeadline, IdleTimer
  <2> QED BY <1>6, <2>3, <2>4, <2>5 DEF NextReadDeadline, IdleTimer
<1>7. TimeoutTruthful'
  <2>1. CASE c'.hook = c.hook BY <1>1, <1>5, <2>1 DEF TimeoutTruthful
  <2>2. CASE c'.hook = "absolute" /\ Says(c', "BYE-abs") /\ AbsoluteTimeout /\ clock = 2
        BY <1>1, <1>3, <2>2 DEF TimeoutTruthful, Says
  <2>3. CASE /\ c'.hook = "idle" /\ Says(c', "BYE-idle") /\ c.expired
             /\ ~CtxDone /\ ~(AbsoluteTimeout /\ clock = 2)
        BY <1>1, <1>2, <1>6, <2>3 DEF TimeoutTruthful, Says
  <2> QED BY <1>1, <2>1, <2>2, <2>3 DEF Parted, Reported
<1>8. IdleKick'
  <2> SUFFICES ASSUME c'.kicked = "idle" PROVE c'.poisoned /\ SaysBye(c)'
      BY <1>1 DEF IdleKick
  <2>1. c.poisoned BY <1>2 DEF Timely, IdleKick
  <2>2. CtxDone BY <2>1 DEF Timely, TimersReal, CtxDone
  <2>3. SaysBye(c') BY <1>1, <2>2 DEF Parted
  <2> QED BY <1>2, <2>1, <2>3 DEF SaysBye
<1>9. CleanHandshake' BY <1>1 DEF CleanHandshake
<1> QED BY <1>4, <1>7, <1>8, <1>9 DEF Timely

\* Steps that leave the connection alone.
LEMMA IdlesKeeps ==
  ASSUME Timely, UNCHANGED c, UNCHANGED buf \/ (Inv /\ Fill),
         shutdown => shutdown', clock = 2 => clock' = 2
  PROVE  Timely'
<1>1. TimersReal' BY DEF Timely, TimersReal
<1>2. TimeoutTruthful' BY DEF Timely, TimeoutTruthful
<1>3. CASE UNCHANGED buf
  <2>1. IdleKick' /\ CleanHandshake'
        BY <1>3 DEF Timely, IdleKick, CleanHandshake, SaysBye
  <2> QED BY <1>1, <1>2, <2>1 DEF Timely
<1>4. CASE Inv /\ Fill
  <2>1. c.pc \in ReadPcs /\ ~c.expired BY <1>4 DEF Fill
  <2>2. c.pc # "closed" /\ c.pc # "handshake" BY <2>1 DEF ReadPcs, LinePcs, BodyPcs
  <2>3. ~c.poisoned
    <3>1. DeadlineSane(c) BY <1>4 DEF Inv, CI, Core, End, Ended
    <3> QED BY <2>1, <3>1 DEF DeadlineSane
  <2>4. IdleKick' /\ CleanHandshake'
        BY <2>2, <2>3 DEF Timely, IdleKick, CleanHandshake
  <2> QED BY <1>1, <1>2, <2>4 DEF Timely
<1> QED BY <1>3, <1>4

LEMMA EnvKeeps ==
  ASSUME Inv, Timely, EnvStep
  PROVE  Timely'
<1>0. c \in ConnType /\ c.pc # "closed" /\ UNCHANGED buf
      BY DEF Inv, TypeOK, EnvStep, ClockTicks, ContextExpires, DeadlineExpires,
             ServerCancels, ForceReadUnblock, EnvOnly
<1>1. CASE ClockTicks
  <2>1. clock \in 0..2 BY DEF Inv, TypeOK
  <2>2. clock < 2 => clock # 2 BY <2>1
  <2>3. UNCHANGED <<c, shutdown>> /\ clock # 2 BY <1>1, <2>2 DEF ClockTicks
  <2> QED BY <1>0, <2>3, IdlesKeeps
<1>2. CASE ContextExpires \/ ServerCancels
  <2>1. UNCHANGED <<c, clock>> /\ (shutdown => shutdown')
        BY <1>2 DEF ContextExpires, ServerCancels
  <2> QED BY <1>0, <2>1, IdlesKeeps
<1>3. c.hook = "" BY <1>0 DEF Timely, TimeoutTruthful
<1>4. CASE DeadlineExpires
  <2>1. UNCHANGED <<shutdown, clock>> BY <1>4 DEF DeadlineExpires, envVars
  <2>2. SameBut(c, c', {"expired"})
        BY <1>0, <1>4 DEF DeadlineExpires, ConnType, SameBut, Fields
  <2>3. /\ c'.pc = c.pc /\ c'.hook = "" /\ c'.rdl = c.rdl /\ c'.poisoned = c.poisoned
        /\ c'.kicked = c.kicked
        BY <1>3, <2>2 DEF SameBut, Fields
  <2>4. TimersReal' BY <1>4, <2>1, <2>3 DEF Timely, TimersReal, DeadlineExpires
  <2>5. TimeoutTruthful' BY <2>3 DEF TimeoutTruthful
  <2>6. IdleKick' /\ CleanHandshake'
        BY <1>0, <2>3 DEF Timely, IdleKick, CleanHandshake
  <2> QED BY <2>4, <2>5, <2>6 DEF Timely
<1>5. CASE ForceReadUnblock
  <2>1. UNCHANGED <<shutdown, clock>> /\ shutdown BY <1>5 DEF ForceReadUnblock, envVars
  <2>2. /\ SameBut(c, c', {"poisoned", "rdl", "expired", "kicked"})
        /\ c'.poisoned /\ c'.rdl = "kick" /\ c'.kicked = Interrupted
        BY <1>0, <1>5 DEF ForceReadUnblock, ConnType, SameBut, Fields
  <2>3. c'.pc = c.pc /\ c'.hook = "" BY <1>3, <2>2 DEF SameBut, Fields
  <2>4. TimersReal' BY <2>1, <2>2 DEF TimersReal
  <2>5. TimeoutTruthful' BY <2>3 DEF TimeoutTruthful
  <2>6. Interrupted = "idle" => c.pc = "line" /\ buf = <<>> BY DEF Interrupted
  <2>7. IdleKick' BY <1>0, <2>2, <2>3, <2>6 DEF IdleKick
  <2>8. CleanHandshake' BY <1>0, <2>3 DEF Timely, CleanHandshake
  <2> QED BY <2>4, <2>5, <2>7, <2>8 DEF Timely
<1> QED BY <1>1, <1>2, <1>4, <1>5 DEF EnvStep

\* The server and the client do not move time, nor the shutdown.
LEMMA EnvUntouched ==
  ASSUME Next, ~EnvStep
  PROVE  UNCHANGED envVars
<1>1. CASE ReadStep BY <1>1, ReadsConsume DEF Fill, ServerUnchanged
<1>2. CASE HandlerStep \/ HandshakeFails \/ HandshakeAborts \/ SessionReturns
              \/ CallbackPanics \/ LoopStep
      BY <1>2, HandlersQuiet DEF ServerUnchanged
<1>3. CASE HandshakeSucceeds BY <1>3 DEF HandshakeSucceeds, ServerUnchanged
<1>4. CASE ClientStep
      BY <1>4 DEF ClientStep, ClientBegins, ClientContinues, ClientResumes, ClientCloses,
                  ClientUnchanged
<1>5. CASE Closed BY <1>5 DEF Closed, vars, envVars
<1> QED BY <1>1, <1>2, <1>3, <1>4, <1>5 DEF Next, ServerStep

LEMMA NextTimely == Inv /\ Timely /\ [Next]_vars => Timely'
<1> SUFFICES ASSUME Inv, Timely, [Next]_vars PROVE Timely' OBVIOUS
<1>0. c \in ConnType BY DEF Inv, TypeOK
<1>1. CASE EnvStep BY <1>1, EnvKeeps
<1>2. CASE Next /\ ~EnvStep
  <2>0. UNCHANGED envVars BY <1>2, EnvUntouched
  <2>a. UNCHANGED <<shutdown, clock>> BY <2>0 DEF envVars
  <2>1. CASE Moves
    <3>1. Timed(c, c') BY <2>1 DEF Moves, Steady, Timed
    <3> QED BY <2>0, <2>1, <3>1, TimedKeeps DEF Moves
  <2>2. CASE Leaves BY <2>0, <2>2, LeavesKeeps
  <2>3. CASE Fill BY <2>3, <2>a, IdlesKeeps DEF Fill
  <2>4. CASE SessionSucceeds \/ SessionHijacks \/ HandshakeSucceeds
    <3>1. Timed(c, c') /\ c.pc \in {"session", "handshake"} /\ c'.pc = "enforce"
          BY <1>0, <2>4, SucceedsSpec, HijacksSpec, SecuresSpec
    <3> QED BY <2>0, <3>1, TimedKeeps
  <2>5. CASE ClientStep
    <3>1. UNCHANGED <<c, buf>>
          BY <2>5 DEF ClientStep, ClientBegins, ClientContinues, ClientResumes,
                      ClientCloses, ClientUnchanged
    <3> QED BY <2>a, <3>1, IdlesKeeps
  <2>6. CASE Closed BY <2>6, <2>a, IdlesKeeps DEF Closed, vars
  <2> QED BY <1>2, <2>1, <2>2, <2>3, <2>4, <2>5, <2>6, ServerMoves DEF Next, SessionReturns
<1>3. CASE UNCHANGED vars
  <2>1. UNCHANGED <<c, buf, shutdown, clock>> BY <1>3 DEF vars
  <2> QED BY <2>1, IdlesKeeps
<1> QED BY <1>1, <1>2, <1>3

\* The timers and the shutdown are what the connection takes them for, for
\* every set of options and every interleaving with the client.
THEOREM TimersKept == Spec => [](Inv /\ Timely)
<1>1. Init => Inv /\ Timely BY InitInv, InitTimely
<1>2. Inv /\ Timely /\ [Next]_vars => Inv' /\ Timely' BY NextInv, NextTimely
<1> QED BY <1>1, <1>2, PTL DEF Spec

\* Whatever OnTimeout is told is true: an absolute limit never as idleness,
\* nothing before its timer ran out, only as the last act of serve, and with the
\* reason of the BYE in front of it.  It does not say that every timer is told:
\* those that cut a command are not (TimerReported).
THEOREM TimeoutTold == Spec => []TimeoutTruthful
<1>1. Inv /\ Timely => TimeoutTruthful BY DEF Timely
<1> QED BY <1>1, TimersKept, PTL

\* A client that forceReadUnblock finds between two commands is told BYE.
THEOREM IdleKickTold == Spec => []IdleKickSaysBye
<1>1. Inv /\ Timely => IdleKickSaysBye BY DEF Timely, IdleKick, IdleKickSaysBye, SaysBye
<1> QED BY <1>1, TimersKept, PTL

-----------------------------------------------------------------------------
(***************************************************************************)
(* The connection implements SessionProtocol.                              *)
(***************************************************************************)
\* A step that a Session can explain.
ProtocolStep == [Protocol!Next]_(Protocol!vars)

LEMMA Unseen ==
  ASSUME Phase' = Phase, c'.isTLS = c.isTLS, Call' = Call
  PROVE  ProtocolStep
BY DEF ProtocolStep, Protocol!vars

LEMMA Closes ==
  ASSUME c.pc # "closed", c'.pc = "closed", c'.isTLS = c.isTLS
  PROVE  ProtocolStep
<1>1. Phase # "closed" /\ Phase' = "closed" /\ Call' = "none" BY DEF Phase, Call
<1>2. Protocol!End BY <1>1 DEF Protocol!End
<1> QED BY <1>2 DEF ProtocolStep, Protocol!Next

\* While a callback runs, the connection is in the state the callback is for.
LEMMA Calling ==
  ASSUME NEW x, CI(x), x.pc = "session"
  PROVE  /\ ~x.hijacked /\ (InsecureAuth \/ x.isTLS)
         /\ x.verb \in AuthVerbs <=> ~x.authenticated
BY DEF CI, Core, Stage, AuthAllowed

LEMMA MovesExplained ==
  ASSUME CI(c'), Moves
  PROVE  ProtocolStep
<1>1. /\ c'.authenticated = c.authenticated /\ c'.isTLS = c.isTLS
      /\ c'.hijacked = c.hijacked /\ c.pc # "closed"
      BY DEF Moves, Steady
<1>2. CASE c'.pc = "closed" BY <1>1, <1>2, Closes
<1>3. CASE c'.pc # "closed"
  <2>1. Phase' = Phase BY <1>1, <1>3 DEF Phase
  <2>2. CASE c.pc = "session"
    <3>1. c'.pc # "session" BY <2>2 DEF Moves
    <3>2. Call # "none" /\ Call' = "none" BY <2>2, <3>1 DEF Call
    <3>3. Protocol!Fail BY <1>1, <2>1, <3>2 DEF Protocol!Fail, Protocol!Return
    <3> QED BY <3>3 DEF ProtocolStep, Protocol!Next
  <2>3. CASE c.pc # "session" /\ c'.pc # "session"
        BY <1>1, <2>1, <2>3, Unseen DEF Call
  <2>4. CASE c.pc # "session" /\ c'.pc = "session"
    <3>1. /\ ~c'.hijacked /\ (InsecureAuth \/ c'.isTLS)
          /\ c'.verb \in AuthVerbs <=> ~c'.authenticated
          BY <2>4, Calling
    <3>2. Call = "none" BY <2>4 DEF Call
    <3>3. CASE c'.authenticated
      <4>1. Phase = "auth" /\ Call' = "script" BY <1>1, <2>4, <3>1, <3>3 DEF Phase, Call
      <4>2. Protocol!CallScript BY <1>1, <2>1, <3>2, <4>1 DEF Protocol!CallScript
      <4> QED BY <4>2 DEF ProtocolStep, Protocol!Next
    <3>4. CASE ~c'.authenticated
      <4>1. Phase = "nonauth" /\ Call' = "login" BY <1>1, <2>4, <3>1, <3>4 DEF Phase, Call
      <4>2. Protocol!CallLogin BY <1>1, <2>1, <3>1, <3>2, <4>1 DEF Protocol!CallLogin
      <4> QED BY <4>2 DEF ProtocolStep, Protocol!Next
    <3> QED BY <3>3, <3>4
  <2> QED BY <2>2, <2>3, <2>4
<1> QED BY <1>2, <1>3

LEMMA ReturnsExplained ==
  ASSUME Inv, SessionSucceeds \/ SessionHijacks
  PROVE  ProtocolStep
<1>0. c \in ConnType /\ CI(c) BY DEF Inv, TypeOK
<1>1. CASE SessionSucceeds
  <2>1. /\ c.pc = "session" /\ c'.pc = "enforce"
        /\ c'.authenticated = (c.authenticated \/ c.verb \in AuthVerbs)
        /\ c'.isTLS = c.isTLS /\ c'.hijacked = c.hijacked
        BY <1>0, <1>1, SucceedsSpec
  <2>2. ~c.hijacked /\ (c.verb \in AuthVerbs <=> ~c.authenticated)
        BY <1>0, <2>1, Calling
  <2>3. Phase' = "auth" BY <2>1, <2>2 DEF Phase
  <2>4. Call # "none" /\ Call' = "none" BY <2>1 DEF Call
  <2>5. Protocol!Succeed BY <2>1, <2>3, <2>4 DEF Protocol!Succeed, Protocol!Return
  <2> QED BY <2>5 DEF ProtocolStep, Protocol!Next
<1>2. CASE SessionHijacks
  <2>1. c.pc = "session" /\ c'.pc = "enforce" /\ c'.isTLS = c.isTLS /\ c'.hijacked
        BY <1>0, <1>2, HijacksSpec
  <2>2. c.verb \in AuthVerbs BY <1>2 DEF SessionHijacks
  <2>3. Phase' = "hijacked" BY <2>1 DEF Phase
  <2>4. Call = "login" /\ Call' = "none" BY <2>1, <2>2 DEF Call
  <2>5. Protocol!Hijack BY <2>1, <2>3, <2>4 DEF Protocol!Hijack, Protocol!Return
  <2> QED BY <2>5 DEF ProtocolStep, Protocol!Next
<1> QED BY <1>1, <1>2

\* The handshake happens before authentication and outside every callback.
LEMMA SecuresExplained ==
  ASSUME Inv, HandshakeSucceeds
  PROVE  ProtocolStep
<1>0. c \in ConnType /\ CI(c) BY DEF Inv, TypeOK
<1>1. /\ c.pc = "handshake" /\ c'.pc = "enforce"
      /\ c'.authenticated = c.authenticated /\ c'.isTLS /\ c'.hijacked = c.hijacked
      BY <1>0, SecuresSpec
<1>2. ~c.authenticated /\ ~c.hijacked BY <1>0, <1>1 DEF CI, Core, Stage
<1>3. Phase = "nonauth" /\ Phase' = "nonauth" /\ Call = "none" /\ Call' = "none"
      BY <1>1, <1>2 DEF Phase, Call
<1>4. c.isTLS \in BOOLEAN /\ c'.isTLS \in BOOLEAN
  <2>1. CI(c') BY HandshakeSteps DEF Inv
  <2>2. c' \in ConnType BY <2>1, CIConnType
  <2> QED BY <1>0, <2>2, Zenon DEF ConnType
<1>5. c'.isTLS = TRUE BY <1>1, <1>4
<1>6. CASE c.isTLS
  <2>1. c'.isTLS = c.isTLS BY <1>4, <1>5, <1>6
  <2> QED BY <1>3, <2>1, Unseen
<1>7. CASE ~c.isTLS
  <2>1. Protocol!Secure BY <1>3, <1>5, <1>7 DEF Protocol!Secure
  <2> QED BY <2>1 DEF ProtocolStep, Protocol!Next
<1> QED BY <1>6, <1>7

\* Time, the shutdown and the client are not seen by the session.
LEMMA OutsideExplained ==
  ASSUME c \in ConnType, EnvStep \/ ClientStep \/ Fill \/ Closed
  PROVE  ProtocolStep
<1>1. CASE UNCHANGED c BY <1>1, Unseen DEF Phase, Call
<1>2. CASE DeadlineExpires \/ ForceReadUnblock
  <2>1. /\ c'.pc = c.pc /\ c'.verb = c.verb /\ c'.hijacked = c.hijacked
        /\ c'.authenticated = c.authenticated /\ c'.isTLS = c.isTLS
        BY <1>2 DEF DeadlineExpires, ForceReadUnblock, ConnType
  <2> QED BY <2>1, Unseen DEF Phase, Call
<1>3. UNCHANGED c \/ DeadlineExpires \/ ForceReadUnblock
      BY DEF EnvStep, ClockTicks, ContextExpires, ServerCancels, ClientStep, ClientBegins,
             ClientContinues, ClientResumes, ClientCloses, ClientUnchanged, Fill, Closed, vars
<1> QED BY <1>1, <1>2, <1>3

LEMMA NextExplained == ASSUME Inv, Next PROVE ProtocolStep
<1>0. c \in ConnType BY DEF Inv, TypeOK
<1>1. CI(c') BY ConnSteps DEF Inv
<1>2. CASE Leaves
  <2>1. Parted(c, c') /\ c'.pc = "closed" /\ c.pc # "closed" BY <1>0, <1>2, LeavesSpec
  <2>2. c'.isTLS = c.isTLS BY <2>1 DEF Parted, SameBut, Fields, Parting
  <2> QED BY <2>1, <2>2, Closes
<1>3. CASE Moves BY <1>1, <1>3, MovesExplained
<1>4. CASE EnvStep \/ ClientStep \/ Fill \/ Closed BY <1>0, <1>4, OutsideExplained
<1>5. CASE SessionSucceeds \/ SessionHijacks BY <1>5, ReturnsExplained
<1>6. CASE HandshakeSucceeds BY <1>6, SecuresExplained
<1> QED BY <1>2, <1>3, <1>4, <1>5, <1>6, ServerMoves DEF Next, SessionReturns

LEMMA InitExplained == ASSUME Init PROVE Protocol!Init
<1>0. PICK t \in InitTLS : c = InitConn(t) BY DEF Init
<1>1. c.pc = "greet" /\ ~c.hijacked /\ ~c.authenticated /\ c.isTLS = t
      BY <1>0 DEF InitConn
<1>2. Phase = "nonauth" /\ Call = "none" BY <1>1 DEF Phase, Call
<1>3. c.isTLS \in BOOLEAN BY <1>1, OptionsAssumption
<1> QED BY <1>2, <1>3 DEF Protocol!Init

\* The connection implements the state machine that session.go promises, for
\* every set of options, every command stream and every interleaving with the
\* timers and Server.Close.
THEOREM SessionPromiseKept == Spec => ImplementsProtocol
<1>1. ASSUME Inv, [Next]_vars PROVE [Protocol!Next]_(Protocol!vars)
  <2>1. CASE Next BY <1>1, <2>1, NextExplained DEF ProtocolStep
  <2>2. CASE UNCHANGED vars
    <3>1. UNCHANGED c BY <2>2 DEF vars
    <3> QED BY <3>1, Unseen DEF Phase, Call, ProtocolStep
  <2> QED BY <1>1, <2>1, <2>2
<1> QED BY <1>1, InitExplained, Invariance, PTL DEF Spec, ImplementsProtocol, Protocol!Spec

-----------------------------------------------------------------------------
(***************************************************************************)
(* The byte stream: what a step does to it.                                *)
(***************************************************************************)
\* The unread stream.
Unread == buf \o net

LEMMA TailOfConcat ==
  ASSUME NEW S, NEW s \in Seq(S), s # <<>>, NEW t \in Seq(S)
  PROVE  Tail(s \o t) = Tail(s) \o t
<1> DEFINE a == Tail(s \o t)
           b == Tail(s) \o t
<1>1. Len(s) \in Nat /\ Len(t) \in Nat /\ Len(s) > 0 OBVIOUS
<1>2. /\ s \o t \in Seq(S) /\ Len(s \o t) = Len(s) + Len(t)
      /\ \A i \in 1 .. Len(s) + Len(t) :
            (s \o t)[i] = IF i <= Len(s) THEN s[i] ELSE t[i - Len(s)]
      OBVIOUS
<1>3. s \o t # <<>> BY <1>1, <1>2
<1>4. /\ a \in Seq(S) /\ Len(a) = Len(s) + Len(t) - 1
      /\ \A i \in 1 .. Len(a) : a[i] = (s \o t)[i + 1]
      BY <1>1, <1>2, <1>3
<1>5. /\ Tail(s) \in Seq(S) /\ Len(Tail(s)) = Len(s) - 1
      /\ \A i \in 1 .. Len(s) - 1 : Tail(s)[i] = s[i + 1]
      BY <1>1
<1>6. /\ b \in Seq(S) /\ Len(b) = Len(s) - 1 + Len(t)
      /\ \A i \in 1 .. Len(b) :
            b[i] = IF i <= Len(s) - 1 THEN Tail(s)[i] ELSE t[i - (Len(s) - 1)]
      BY <1>5
<1> HIDE DEF a, b
<1>7. ASSUME NEW i \in 1 .. Len(a) PROVE a[i] = b[i]
  <2>1. CASE i <= Len(s) - 1
    <3>1. i \in 1 .. Len(b) /\ i + 1 \in 1 .. Len(s) + Len(t) /\ i + 1 <= Len(s)
          BY <1>1, <1>4, <1>6, <2>1
    <3>2. a[i] = s[i + 1] BY <1>2, <1>4, <3>1
    <3>3. b[i] = Tail(s)[i] BY <1>6, <2>1, <3>1
    <3>4. Tail(s)[i] = s[i + 1] BY <1>1, <1>4, <1>5, <2>1
    <3> QED BY <3>2, <3>3, <3>4
  <2>2. CASE ~(i <= Len(s) - 1)
    <3>1. (i + 1) - Len(s) = i - (Len(s) - 1) BY <1>1, <1>4
    <3>2. a[i] = t[(i + 1) - Len(s)] BY <1>1, <1>2, <1>4, <2>2
    <3>3. b[i] = t[i - (Len(s) - 1)] BY <1>1, <1>4, <1>6, <2>2
    <3> QED BY <3>1, <3>2, <3>3
  <2> QED BY <2>1, <2>2
<1>8. Len(a) = Len(b) BY <1>1, <1>4, <1>6
<1>9. a = b BY <1>4, <1>6, <1>7, <1>8, SeqEqual
<1> QED BY <1>9 DEF a, b

LEMMA AppendedAtEnd ==
  ASSUME NEW S, NEW s \in Seq(S), NEW t \in Seq(S), NEW e \in S
  PROVE  LET u == s \o Append(t, e) IN u # <<>> /\ s \o t = SubSeq(u, 1, Len(u) - 1)
<1> DEFINE p == s \o t
           u == s \o Append(t, e)
<1>1. <<e>> \in Seq(S) /\ p \in Seq(S) OBVIOUS
<1>2. u = p \o <<e>>
  <2>1. Append(t, e) = t \o <<e>> BY AppendIsConcat
  <2> QED BY <1>1, <2>1, ConcatAssociative
<1> HIDE DEF p, u
<1>3. u = Append(p, e) BY <1>1, <1>2, AppendIsConcat
<1>4. u \in Seq(S) /\ u # <<>> /\ Len(u) = Len(p) + 1 BY <1>1, <1>3, AppendProperties
<1>5. SubSeq(u, 1, Len(u) - 1) = p
  <2>1. Len(p) \in Nat /\ Len(u) - 1 = Len(p) BY <1>1, <1>4
  <2>2. /\ SubSeq(u, 1, Len(p)) \in Seq(S) /\ Len(SubSeq(u, 1, Len(p))) = Len(p)
        /\ \A i \in 1 .. Len(p) : SubSeq(u, 1, Len(p))[i] = p[i]
    <3>1. \A i \in 1 .. Len(p) : u[i] \in S /\ u[i] = p[i] BY <1>1, <1>3
    <3> QED BY <2>1, <3>1, SubSeqProperties
  <2>3. SubSeq(u, 1, Len(p)) = p BY <1>1, <2>1, <2>2, SeqEqual
  <2> QED BY <2>1, <2>3
<1> QED BY <1>4, <1>5 DEF p, u

LEMMA RefillKeeps == ASSUME TypeOK, Fill PROVE Unread' = Unread
<1>1. buf = <<>> /\ net \in Seq(Token) BY DEF TypeOK, Fill
<1>2. PICK n \in 1 .. Len(net) : /\ buf' = SubSeq(net, 1, n)
                                 /\ net' = SubSeq(net, n + 1, Len(net))
      BY DEF Fill
<1>3. SubSeq(net, 1, n) \o SubSeq(net, n + 1, Len(net)) = SubSeq(net, 1, Len(net))
  <2>1. /\ 1 \in 1 .. Len(net) + 1 /\ n \in 1 - 1 .. Len(net) /\ Len(net) \in n .. Len(net)
        BY <1>1
  <2> QED BY <1>1, <2>1, ConcatAdjacentSubSeq
<1>4. buf' \o net' = net BY <1>1, <1>2, <1>3, SubSeqFull
<1>5. buf \o net = net BY <1>1, ConcatEmptySeq
<1> QED BY <1>4, <1>5 DEF Unread

\* The client adds one token.
LEMMA SendsOne ==
  ASSUME TypeOK, ClientStep
  PROVE  UNCHANGED <<c, buf>> /\ (UNCHANGED net \/ \E u \in Token : net' = Append(net, u))
<1>1. ASSUME NEW t \in Token, Sends(t) PROVE \E u \in Token : net' = Append(net, u)
      BY <1>1 DEF Sends
<1>2. CASE ClientBegins
  <2>1. PICK m \in Commands : Sends(Head(m)) BY <1>2 DEF ClientBegins
  <2>2. Head(m) \in Token BY CommandsAssumption
  <2> QED BY <1>1, <1>2, <2>1, <2>2 DEF ClientBegins, ClientUnchanged
<1>3. CASE ClientContinues
  <2>1. Head(todo) \in Token BY <1>3 DEF ClientContinues, TypeOK
  <2> QED BY <1>1, <1>3, <2>1 DEF ClientContinues, ClientUnchanged
<1>4. CASE ClientResumes \/ ClientCloses
      BY <1>4 DEF ClientResumes, ClientCloses, ClientUnchanged
<1> QED BY <1>2, <1>3, <1>4 DEF ClientStep

\* What a step of the model does to the two halves of the stream.
LEMMA StreamMoves ==
  ASSUME Inv, Timely, Next
  PROVE  \/ UNCHANGED <<buf, net>>
         \/ c.pc \in ReadPcs /\ buf # <<>> /\ buf' = Tail(buf) /\ UNCHANGED net
         \/ Fill
         \/ UNCHANGED <<c, buf>> /\ \E u \in Token : net' = Append(net, u)
<1>1. CASE ReadStep
  <2>1. c.pc \in ReadPcs
        BY <1>1 DEF ReadStep, Fill, CommandReadFails, RejectLine, SkipBlankLine,
           ParseLineFails, AcceptLine, ReadBody, CommandCut, TrailerRejected, ReadArgRest,
           ReadSaslResponse, ReadAuthLiteral, ReadScriptLiteral, Takes, ReadPcs, LinePcs,
           BodyPcs
  <2> QED BY <1>1, <2>1, ReadsConsume DEF ServerUnchanged
<1>2. CASE HandlerStep \/ HandshakeFails \/ HandshakeAborts \/ SessionReturns
              \/ CallbackPanics \/ LoopStep
      BY <1>2, HandlersQuiet DEF ServerUnchanged
<1>3. CASE HandshakeSucceeds
      BY <1>3 DEF HandshakeSucceeds, ServerUnchanged, Timely, CleanHandshake
<1>4. CASE ClientStep BY <1>4, SendsOne DEF Inv
<1>5. CASE EnvStep
      BY <1>5 DEF EnvStep, ClockTicks, ContextExpires, DeadlineExpires, ServerCancels,
                  ForceReadUnblock, EnvOnly
<1>6. CASE Closed BY <1>6 DEF Closed, vars
<1> QED BY <1>1, <1>2, <1>3, <1>4, <1>5, <1>6 DEF Next, ServerStep

\* A step leaves the unread stream, reads its head or adds at its end.
Lossless == \/ Unread' = Unread
            \/ c.pc \in ReadPcs /\ Unread # <<>> /\ Unread' = Tail(Unread)
            \/ Unread' # <<>> /\ Unread = SubSeq(Unread', 1, Len(Unread') - 1)

LEMMA StepLossless == ASSUME Inv, Timely, [Next]_vars PROVE Lossless
<1>0. TypeOK /\ buf \in Seq(Token) /\ net \in Seq(Token) BY DEF Inv, TypeOK
<1>1. CASE UNCHANGED <<buf, net>> BY <1>1 DEF Lossless, Unread
<1>2. CASE c.pc \in ReadPcs /\ buf # <<>> /\ buf' = Tail(buf) /\ UNCHANGED net
  <2>1. Tail(buf \o net) = Tail(buf) \o net BY <1>0, <1>2, TailOfConcat
  <2>2. buf \o net # <<>> BY <1>0, <1>2, ConcatEqualIffEmpty
  <2> QED BY <1>2, <2>1, <2>2 DEF Lossless, Unread
<1>3. CASE Fill BY <1>0, <1>3, RefillKeeps DEF Lossless
<1>4. CASE UNCHANGED buf /\ \E u \in Token : net' = Append(net, u)
  <2>1. PICK u \in Token : net' = Append(net, u) BY <1>4
  <2>2. LET v == buf \o Append(net, u) IN v # <<>> /\ buf \o net = SubSeq(v, 1, Len(v) - 1)
        BY <1>0, AppendedAtEnd
  <2> QED BY <1>4, <2>1, <2>2 DEF Lossless, Unread
<1>5. CASE UNCHANGED vars BY <1>1, <1>5 DEF vars
<1> QED BY <1>1, <1>2, <1>3, <1>4, <1>5, StreamMoves

\* The input of the client reaches the handlers complete and in order: no
\* refill, rejected command, STARTTLS or Hijack drops or reorders a byte.
THEOREM InputKept == Spec => NoInputLost
<1>1. ASSUME Inv, Timely, [Next]_vars
      PROVE  [LET s == buf \o net
                  t == buf' \o net'
              IN  \/ t = s
                  \/ c.pc \in ReadPcs /\ s # <<>> /\ t = Tail(s)
                  \/ t # <<>> /\ s = SubSeq(t, 1, Len(t) - 1)]_vars
      BY <1>1, StepLossless DEF Lossless, Unread
<1> QED BY <1>1, TimersKept, PTL DEF Spec, NoInputLost

-----------------------------------------------------------------------------
(***************************************************************************)
(* Framing: what a handler keeps of the command it serves.                 *)
(***************************************************************************)
\* y serves the same command as x, and has not taken back a decision to close.
Serves(x, y) ==
    /\ y \in ConnType
    /\ y.verb = x.verb /\ y.args = x.args
    /\ y.gated = x.gated /\ y.misparsed = x.misparsed
    /\ x.closePending => y.closePending

\* The fields that have no part in it.
Chores == Fields \ {"verb", "args", "gated", "misparsed", "closePending"}

LEMMA ServesSelf == ASSUME NEW x \in ConnType PROVE Serves(x, x)
BY DEF Serves

LEMMA ServesChores ==
  ASSUME NEW x, NEW y, NEW z \in ConnType, Serves(x, y), NEW F, SameBut(y, z, F), F \subseteq Chores
  PROVE  Serves(x, z)
<1>1. /\ z.verb = y.verb /\ z.args = y.args /\ z.gated = y.gated
      /\ z.misparsed = y.misparsed /\ z.closePending = y.closePending
      BY DEF SameBut, Fields, Chores
<1> QED BY <1>1 DEF Serves

LEMMA ServesWrite ==
  ASSUME NEW x, NEW y, Serves(x, y), NEW r \in Replies
  PROVE  Serves(x, Write(y, r))
<1>1. y \in ConnType BY DEF Serves
<1>2. Write(y, r) \in ConnType /\ SameBut(y, Write(y, r), {"out", "dirty"}) BY <1>1, WriteSpec
<1>3. {"out", "dirty"} \subseteq Chores BY DEF Chores, Fields
<1> QED BY <1>2, <1>3, ServesChores

LEMMA ServesGoto ==
  ASSUME NEW x, NEW y, Serves(x, y), NEW l \in Pcs
  PROVE  Serves(x, Goto(y, l)) /\ Goto(y, l).pc = l
<1>1. y \in ConnType BY DEF Serves
<1>2. Goto(y, l) \in ConnType /\ SameBut(y, Goto(y, l), {"pc"}) /\ Goto(y, l).pc = l
      BY <1>1, GotoSpec
<1>3. {"pc"} \subseteq Chores BY DEF Chores, Fields
<1> QED BY <1>2, <1>3, ServesChores

LEMMA ServesFailed == ASSUME NEW x, NEW y, Serves(x, y) PROVE Serves(x, Failed(y))
<1>1. y \in ConnType BY DEF Serves
<1>2. Failed(y) \in ConnType /\ SameBut(y, Failed(y), {"lastErr"}) BY <1>1, FailedSpec
<1>3. {"lastErr"} \subseteq Chores BY DEF Chores, Fields
<1> QED BY <1>2, <1>3, ServesChores

\* The one helper that decides to close.
LEMMA ServesMustClose ==
  ASSUME NEW x, NEW y, Serves(x, y), NEW b \in BOOLEAN
  PROVE  Serves(x, MustClose(y, b)) /\ (b => MustClose(y, b).closePending)
<1>1. y \in ConnType BY DEF Serves
<1>2. MustClose(y, b) \in ConnType /\ SameBut(y, MustClose(y, b), {"closePending"})
      BY <1>1, MustCloseSpec
<1>3. MustClose(y, b).closePending = (y.closePending \/ b) BY <1>1 DEF MustClose, ConnType
<1>4. /\ MustClose(y, b).verb = y.verb /\ MustClose(y, b).args = y.args
      /\ MustClose(y, b).gated = y.gated /\ MustClose(y, b).misparsed = y.misparsed
      BY <1>2 DEF SameBut, Fields
<1> QED BY <1>2, <1>3, <1>4 DEF Serves

LEMMA ServesCounted == ASSUME NEW x, NEW y, Serves(x, y) PROVE Serves(x, Counted(y))
<1>1. y \in ConnType BY DEF Serves
<1>2. Counted(y) \in ConnType /\ SameBut(y, Counted(y), {"errorCount"}) BY <1>1, CountedSpec
<1>3. {"errorCount"} \subseteq Chores BY DEF Chores, Fields
<1> QED BY <1>2, <1>3, ServesChores

LEMMA ServesQuit == ASSUME NEW x, NEW y, Serves(x, y) PROVE Serves(x, AndQuit(y))
<1>1. y \in ConnType BY DEF Serves
<1>2. AndQuit(y) \in ConnType /\ SameBut(y, AndQuit(y), {"quit"}) BY <1>1, AndQuitSpec
<1>3. {"quit"} \subseteq Chores BY DEF Chores, Fields
<1> QED BY <1>2, <1>3, ServesChores

LEMMA ServesFlush == ASSUME NEW x, NEW y, Serves(x, y), NEW f \in Flush(y) PROVE Serves(x, f)
<1>1. y \in ConnType BY DEF Serves
<1>2. f \in ConnType /\ SameBut(y, f, {"dirty", "wfail"}) BY <1>1, FlushSpec
<1>3. {"dirty", "wfail"} \subseteq Chores BY DEF Chores, Fields
<1> QED BY <1>2, <1>3, ServesChores

LEMMA ServesDeadline ==
  ASSUME NEW x, NEW y, Serves(x, y), NEW d \in Timers
  PROVE  Serves(x, SetReadDeadline(y, d))
<1>1. y \in ConnType BY DEF Serves
<1>2. /\ SetReadDeadline(y, d) \in ConnType
      /\ SameBut(y, SetReadDeadline(y, d), {"rdl", "expired"})
      BY <1>1, SetReadDeadlineSpec
<1>3. {"rdl", "expired"} \subseteq Chores BY DEF Chores, Fields
<1> QED BY <1>2, <1>3, ServesChores

LEMMA ServesArm == ASSUME NEW x, NEW y, Serves(x, y), NEW a \in Arm(y) PROVE Serves(x, a)
<1>1. PICK d \in NextReadDeadline(y.authenticated) :
         a = IF d = "none" THEN y ELSE SetReadDeadline(y, d)
      BY DEF Arm
<1>2. d \in Timers BY NextReadDeadlineTimers
<1> QED BY <1>1, <1>2, ServesDeadline

LEMMA ServesClientError == ASSUME NEW x, NEW y, Serves(x, y) PROVE Serves(x, ClientError(y))
<1>1. Serves(x, Write(Failed(Counted(y)), "NO"))
      BY ServesCounted, ServesFailed, ServesWrite, SomeReplies
<1> QED BY <1>1 DEF ClientError, Counted

LEMMA ServesFailure ==
  ASSUME NEW x, NEW y, Serves(x, y), NEW b \in BOOLEAN
  PROVE  /\ Serves(x, SessionError(y, b)) /\ Serves(x, AuthFailure(y, b))
         /\ Serves(x, QuotaMaxSize(y))
<1>1. Serves(x, Write(Failed(y), "NO")) BY ServesFailed, ServesWrite, SomeReplies
<1>2. Serves(x, SessionError(y, b)) BY <1>1, ServesMustClose DEF SessionError
<1>3. Serves(x, AuthFailure(y, b))
  <2>1. CASE AuthFailuresExempt BY <1>2, <2>1 DEF AuthFailure
  <2>2. CASE ~AuthFailuresExempt
    <3>1. AuthFailure(y, b) = MustClose(ClientError(y), b)
          BY <2>2 DEF AuthFailure, SessionError, ClientError
    <3> QED BY <3>1, ServesClientError, ServesMustClose
  <2> QED BY <2>1, <2>2
<1> QED BY <1>1, <1>2, <1>3 DEF QuotaMaxSize

LEMMA ServesDone ==
  ASSUME NEW x, NEW y, Serves(x, y)
  PROVE  /\ Serves(x, Done(y)) /\ Done(y).pc = "enforce"
         /\ Serves(x, Refused(y)) /\ Refused(y).pc = "enforce"
BY ServesGoto, ServesClientError, SomePcs DEF Done, Refused

LEMMA ServesExecuting == ASSUME NEW x, NEW y, Serves(x, y) PROVE Serves(x, Executing(y))
<1> DEFINE a == SetReadDeadline(y, "none")
           z == [a EXCEPT !.lastErr = FALSE, !.dispatched = TRUE]
<1>1. Serves(x, a) BY ServesDeadline DEF Timers
<1>2. a \in ConnType BY <1>1 DEF Serves
<1> HIDE DEF a
<1>3. z \in ConnType BY <1>2, Zenon DEF ConnType
<1>4. SameBut(a, z, {"lastErr", "dispatched"}) BY <1>2 DEF ConnType, SameBut, Fields
<1>5. {"lastErr", "dispatched"} \subseteq Chores BY DEF Chores, Fields
<1> HIDE DEF z
<1>6. Serves(x, z) BY <1>1, <1>3, <1>4, <1>5, ServesChores
<1> QED BY <1>6 DEF z, a, Executing

\* A literal read begins, or the prompt cannot be sent and the connection closes.
LEMMA ServesStartLiteral ==
  ASSUME NEW x, NEW y, Serves(x, y), NEW arg, NEW l \in ReadPcs, NEW z \in StartLiteral(y, arg, l)
  PROVE  Serves(x, z) /\ (z.pc = l \/ (z.pc = "enforce" /\ z.closePending))
<1>0. l \in Pcs /\ "enforce" \in Pcs BY SomePcs
<1>1. CASE arg \in NonSync
  <2>1. PICK a \in Arm(y) : z = Goto(a, l) BY <1>1 DEF StartLiteral
  <2> QED BY <1>0, <2>1, ServesArm, ServesGoto
<1>2. CASE arg \notin NonSync
  <2>1. PICK f \in Flush(Write(y, "CONTINUE")) :
           z \in IF f.wfail THEN {Goto(MustClose(f, TRUE), "enforce")}
                 ELSE {Goto(a, l) : a \in Arm(f)}
        BY <1>2 DEF StartLiteral
  <2>2. Serves(x, f) BY <2>1, ServesWrite, ServesFlush, SomeReplies
  <2>3. CASE z = Goto(MustClose(f, TRUE), "enforce")
    <3>1. MustClose(f, TRUE).closePending /\ Serves(x, MustClose(f, TRUE))
          BY <2>2, ServesMustClose
    <3>2. MustClose(f, TRUE) \in ConnType BY <3>1 DEF Serves
    <3>3. Serves(MustClose(f, TRUE), z) BY <1>0, <2>3, <3>2, ServesSelf, ServesGoto
    <3>4. z.closePending BY <3>1, <3>3 DEF Serves
    <3> QED BY <1>0, <2>3, <3>1, <3>4, ServesGoto
  <2>4. CASE \E a \in Arm(f) : z = Goto(a, l) BY <1>0, <2>2, <2>4, ServesArm, ServesGoto
  <2> QED BY <2>1, <2>3, <2>4
<1> QED BY <1>1, <1>2

\* A refusal that closes.
LEMMA ServesClosing ==
  ASSUME NEW x, NEW y, Serves(x, y), NEW b \in BOOLEAN
  PROVE  LET z == Goto(MustClose(y, b), "enforce")
         IN  Serves(x, z) /\ z.pc = "enforce" /\ (b => z.closePending)
<1> DEFINE m == MustClose(y, b)
           z == Goto(m, "enforce")
<1>1. Serves(x, m) /\ (b => m.closePending) BY ServesMustClose
<1>2. m \in ConnType BY <1>1 DEF Serves
<1> HIDE DEF m
<1>3. Serves(x, z) /\ z.pc = "enforce" BY <1>1, ServesGoto, SomePcs
<1>4. Serves(m, z) BY <1>2, ServesSelf, ServesGoto, SomePcs
<1>5. b => z.closePending BY <1>1, <1>4 DEF Serves
<1> QED BY <1>3, <1>5 DEF m

LEMMA ServesAuthLiteral ==
  ASSUME NEW x, NEW y, Serves(x, y), NEW v, NEW z \in StartAuthLiteral(y, v)
  PROVE  /\ Serves(x, z)
         /\ IF v \in Malformed \cup Oversized THEN z.pc = "enforce" /\ z.closePending
            ELSE z.pc = "authbody"
<1>1. "authbody" \in Pcs BY DEF Pcs, ReadPcs, BodyPcs
<1>2. CASE v \in Malformed \cup Oversized
  <2>1. z = Goto(MustClose(ClientError(y), TRUE), "enforce") BY <1>2 DEF StartAuthLiteral
  <2> QED BY <1>2, <2>1, ServesClientError, ServesClosing
<1>3. CASE v \notin Malformed \cup Oversized
  <2>1. PICK a \in Arm(y) : z = Goto(a, "authbody") BY <1>3 DEF StartAuthLiteral
  <2> QED BY <1>1, <1>3, <2>1, ServesArm, ServesGoto
<1> QED BY <1>2, <1>3

LEMMA ServesPayload ==
  ASSUME NEW x, NEW y, Serves(x, y), NEW v
  PROVE  /\ Serves(x, AuthPayload(y, v)) /\ AuthPayload(y, v).pc \in {"session", "enforce"}
         /\ Serves(x, ScriptContent(y, v)) /\ ScriptContent(y, v).pc \in {"session", "enforce"}
<1>1. /\ Serves(x, Goto(y, "session")) /\ Goto(y, "session").pc = "session"
      BY ServesGoto, SomePcs
<1>2. Serves(x, AuthFailure(y, FALSE)) /\ Serves(x, ClientError(y)) /\ Serves(x, QuotaMaxSize(y))
      BY ServesFailure, ServesClientError
<1>3. \A z : Serves(x, z) => Serves(x, Goto(z, "enforce")) /\ Goto(z, "enforce").pc = "enforce"
      BY ServesGoto, SomePcs
<1>4. AuthPayload(y, v) \in {Goto(y, "session"), Goto(AuthFailure(y, FALSE), "enforce"),
                             Goto(ClientError(y), "enforce")}
      BY DEF AuthPayload
<1>5. ScriptContent(y, v) \in {Goto(y, "session"), Goto(QuotaMaxSize(y), "enforce"),
                               Goto(ClientError(y), "enforce")}
      BY DEF ScriptContent
<1> QED BY <1>1, <1>2, <1>3, <1>4, <1>5

-----------------------------------------------------------------------------
(***************************************************************************)
(* Framing: where the server is in the client's stream.                    *)
(***************************************************************************)
\* All that the client has committed itself to: the unread stream, and what is
\* still to come of the command that it is sending.
Ahead == Unread \o todo

\* The server has the token that the client waits for an answer to.
Blocked == waiting /\ Unread = <<>>

\* The client waits for an answer to the last token that it has sent.
Awaited == \A i \in 1 .. Len(Unread) : Unread[i].wait <=> (waiting /\ i = Len(Unread))

WellFramed(s) == \A i \in 1 .. Len(s) : Framed(s, i)

PlainButLast(args) == \A i \in 1 .. Len(args) - 1 : args[i] \in PlainArgs

\* A literal's body comes next, and then the line behind it.
LiteralNext(s) == Len(s) >= 2 /\ s[1].k = "body" /\ s[2].k \in Trailers

\* Between two commands: a body is there by mistake or left by a gate, and a
\* response is not sent before its challenge.
BetweenCommands(x, s, b) ==
    s # <<>> /\ ~b => s[1].k # "cont" /\ (s[1].k = "body" => s[1].verb = "ROGUE" \/ x.gated)

\* The line of a command has been read: what its last argument announces is
\* what comes next, and a body that would stay behind if the command were
\* refused here is one that closes the connection or counts as gated.
CommandRead(x, s, b) ==
    LET n == Len(x.args)
    IN  /\ PlainButLast(x.args)
        /\ Opened(x.args) => LiteralNext(s) /\ TrailerFits(x.verb, n, s, 2)
        /\ s # <<>> /\ ~b => s[1].k # "cont"
        /\ s # <<>> /\ ~b /\ s[1].k = "body" /\ s[1].verb # "ROGUE" =>
              x.args[n] \in NonSync \/ (x.verb = "AUTHENTICATE" /\ n = 2)
        /\ s # <<>> /\ ~Marked(x.args) => s[1].k # "body" /\ (b => s[1].k \in Responses)
        /\ x.verb = "AUTHENTICATE" /\ n = 1 /\ ~Marked(x.args) => b

\* The body of an argument, and the line behind it.
ArgumentNext(x, s) ==
    /\ PlainButLast(x.args) /\ Opened(x.args) /\ ~LiteralDeferred(x.verb, Len(x.args))
    /\ LiteralNext(s) /\ TrailerFits(x.verb, Len(x.args), s, 2)

RestNext(x, s) ==
    /\ PlainButLast(x.args) /\ x.args # <<>> /\ ~LiteralDeferred(x.verb, Len(x.args))
    /\ x.val \in PlainArgs
    /\ s # <<>> /\ s[1].k \in Trailers /\ TrailerFits(x.verb, Len(x.args), s, 1)

LinePlaces == {"greet", "top", "arm", "line", "session", "handshake", "enforce"}

\* Connection x, with the stream s ahead of it, is where the client means it to
\* be; b says that the client waits for it.
Place(x, s, b) ==
    /\ x.pc \in LinePlaces => BetweenCommands(x, s, b)
    /\ x.pc \in {"resolve", "dispatch"} => CommandRead(x, s, b)
    /\ x.pc = "dispatch" /\ Marked(x.args) => LiteralDeferred(x.verb, Len(x.args))
    /\ x.pc = "argbody" => ArgumentNext(x, s)
    /\ x.pc = "argrest" => RestNext(x, s)
    /\ x.pc = "contline" => IF s = <<>> THEN b ELSE s[1].k \in Responses
    /\ x.pc \in {"authbody", "scriptbody"} => LiteralNext(s) /\ ~Marked(s[2].args)
    /\ x.pc \in {"authcrlf", "scriptcrlf"} => s # <<>> /\ s[1].k \in Trailers /\ ~Marked(s[1].args)

\* The connection is closed, or about to be.
Over(x) == x.pc = "closed" \/ (x.pc = "enforce" /\ x.closePending)

InStep == WellFramed(Ahead) /\ Awaited /\ Place(c, Ahead, Blocked)

Framing == (c.misparsed => c.gated) /\ (Over(c) \/ InStep)

-----------------------------------------------------------------------------
\* Two tokens that are the same to the framing.
Alike(t, u) == u.k = t.k /\ u.verb = t.verb /\ u.args = t.args /\ u.wait = t.wait

\* t begins with s, and goes on with a new command.
Prolongs(s, t) == /\ Len(s) <= Len(t)
                  /\ \A i \in 1 .. Len(s) : Alike(s[i], t[i])
                  /\ Len(s) < Len(t) => t[Len(s) + 1].k \in Starts

LEMMA FramedTail ==
  ASSUME NEW s \in Seq(Token), s # <<>>, WellFramed(s)
  PROVE  /\ Tail(s) \in Seq(Token) /\ Len(Tail(s)) = Len(s) - 1
         /\ \A i \in 1 .. Len(s) - 1 : Tail(s)[i] = s[i + 1]
         /\ WellFramed(Tail(s))
<1> DEFINE t == Tail(s)
<1>1. Len(s) \in Nat /\ Len(s) > 0 OBVIOUS
<1>2. /\ t \in Seq(Token) /\ Len(t) = Len(s) - 1
      /\ \A i \in 1 .. Len(s) - 1 : t[i] = s[i + 1]
      BY <1>1
<1> HIDE DEF t
<1>3. ASSUME NEW i \in 1 .. Len(t) PROVE Framed(t, i)
  <2>1. i \in Nat /\ i + 1 \in 1 .. Len(s) /\ t[i] = s[i + 1] BY <1>1, <1>2
  <2>2. Framed(s, i + 1) BY <2>1 DEF WellFramed
  <2>3. i < Len(t) => i + 1 < Len(s) /\ t[i + 1] = s[(i + 1) + 1] BY <1>1, <1>2
  <2>4. Shaped(t[i]) /\ (i < Len(t) => Follows(t[i], t[i + 1])) BY <2>1, <2>2, <2>3 DEF Framed
  <2>5. ASSUME Opened(t[i].args)
        PROVE  /\ i + 2 <= Len(t) /\ t[i + 1].k = "body" /\ t[i + 2].k \in Trailers
               /\ t[i].k = "line" => TrailerFits(t[i].verb, Len(t[i].args), t, i + 2)
               /\ t[i].k = "cont" => ~Marked(t[i + 2].args)
    <3>1. /\ (i + 1) + 2 <= Len(s) /\ s[(i + 1) + 1].k = "body" /\ s[(i + 1) + 2].k \in Trailers
          /\ t[i].k = "line" => TrailerFits(t[i].verb, Len(t[i].args), s, (i + 1) + 2)
          /\ t[i].k = "cont" => ~Marked(s[(i + 1) + 2].args)
          BY <2>1, <2>2, <2>5 DEF Framed
    <3>2. i + 2 <= Len(t) /\ t[i + 1] = s[(i + 1) + 1] /\ t[i + 2] = s[(i + 1) + 2]
          BY <1>1, <1>2, <2>1, <3>1
    <3>3. Opened(t[i + 2].args) => t[(i + 2) + 2] = s[((i + 1) + 2) + 2]
      <4>1. SUFFICES ASSUME Opened(t[i + 2].args) PROVE t[(i + 2) + 2] = s[((i + 1) + 2) + 2]
            OBVIOUS
      <4>2. (i + 1) + 2 \in 1 .. Len(s) BY <1>1, <2>1, <3>1
      <4>3. Framed(s, (i + 1) + 2) BY <4>2 DEF WellFramed
      <4>4. ((i + 1) + 2) + 2 <= Len(s) BY <3>2, <4>1, <4>3 DEF Framed
      <4> QED BY <1>1, <1>2, <2>1, <4>4
    <3> QED BY <3>1, <3>2, <3>3 DEF TrailerFits
  <2> QED BY <2>1, <2>2, <2>4, <2>5 DEF Framed
<1>4. WellFramed(t) BY <1>3 DEF WellFramed
<1> QED BY <1>2, <1>4 DEF t

\* The condition on a trailer looks at two tokens only.
LEMMA TrailerMoves ==
  ASSUME NEW v, NEW n, NEW s, NEW i, NEW t, NEW j, Alike(s[i], t[j]),
         Opened(s[i].args) => Alike(s[i + 2], t[j + 2]), TrailerFits(v, n, s, i)
  PROVE  TrailerFits(v, n, t, j)
<1>1. t[j].args = s[i].args /\ t[j].verb = s[i].verb /\ t[j].wait = s[i].wait
      BY DEF Alike
<1>2. BadLine(t[j]) <=> BadLine(s[i]) BY DEF Alike, BadLine
<1>3. Opened(s[i].args) => t[j + 2].args = s[i + 2].args BY DEF Alike
<1>4. CASE LiteralDeferred(v, n) BY <1>1, <1>4 DEF TrailerFits
<1>5. CASE ~LiteralDeferred(v, n) BY <1>1, <1>2, <1>3, <1>5 DEF TrailerFits
<1> QED BY <1>4, <1>5

\* What makes a token fit in s makes it fit in any t that begins like s.
LEMMA FramedProlonged ==
  ASSUME NEW s \in Seq(Token), NEW t \in Seq(Token), Prolongs(s, t), WellFramed(s),
         \A i \in 1 .. Len(s) : i = Len(s) /\ i < Len(t) => ~s[i].wait,
         NEW i \in 1 .. Len(s)
  PROVE  Framed(t, i)
<1>0. Len(s) \in Nat /\ Len(t) \in Nat /\ Len(s) <= Len(t) /\ i \in Nat BY DEF Prolongs
<1>1. Framed(s, i) /\ Alike(s[i], t[i]) BY DEF WellFramed, Prolongs
<1>2. Shaped(t[i]) BY <1>1 DEF Framed, Shaped, Alike, BadLine
<1>3. ASSUME i < Len(t) PROVE Follows(t[i], t[i + 1])
  <2>1. CASE i < Len(s)
    <3>1. Alike(s[i + 1], t[i + 1]) BY <1>0, <2>1 DEF Prolongs
    <3>2. Follows(s[i], s[i + 1]) BY <1>1, <2>1 DEF Framed
    <3> QED BY <1>1, <3>1, <3>2 DEF Follows, Alike, CommitsTo
  <2>2. CASE i = Len(s)
    <3>1. t[i + 1].k \in Starts BY <1>3, <2>2 DEF Prolongs
    <3>2. ~t[i].wait BY <1>1, <1>3, <2>2 DEF Alike
    <3> QED BY <3>1, <3>2 DEF Follows, Starts
  <2> QED BY <1>0, <2>1, <2>2
<1>4. ASSUME Opened(t[i].args)
      PROVE  /\ i + 2 <= Len(t) /\ t[i + 1].k = "body" /\ t[i + 2].k \in Trailers
             /\ t[i].k = "line" => TrailerFits(t[i].verb, Len(t[i].args), t, i + 2)
             /\ t[i].k = "cont" => ~Marked(t[i + 2].args)
  <2>1. /\ i + 2 <= Len(s) /\ s[i + 1].k = "body" /\ s[i + 2].k \in Trailers
        /\ t[i].k = "line" => TrailerFits(t[i].verb, Len(t[i].args), s, i + 2)
        /\ t[i].k = "cont" => ~Marked(s[i + 2].args)
        BY <1>1, <1>4 DEF Framed, Alike
  <2>2. Alike(s[i + 1], t[i + 1]) /\ Alike(s[i + 2], t[i + 2]) BY <1>0, <2>1 DEF Prolongs
  <2>3. Opened(s[i + 2].args) => Alike(s[(i + 2) + 2], t[(i + 2) + 2])
    <3>1. SUFFICES ASSUME Opened(s[i + 2].args) PROVE Alike(s[(i + 2) + 2], t[(i + 2) + 2])
          OBVIOUS
    <3>2. i + 2 \in 1 .. Len(s) BY <1>0, <2>1
    <3>3. (i + 2) + 2 <= Len(s) BY <3>1, <3>2 DEF WellFramed, Framed
    <3> QED BY <1>0, <3>3 DEF Prolongs
  <2>4. t[i].k = "line" => TrailerFits(t[i].verb, Len(t[i].args), t, i + 2)
        BY <2>1, <2>2, <2>3, TrailerMoves
  <2> QED BY <1>0, <2>1, <2>2, <2>4 DEF Alike
<1>5. t[i].k = "line" /\ t[i].verb = "AUTHENTICATE" /\ Len(t[i].args) = 1 /\ ~Marked(t[i].args)
        => t[i].wait
      BY <1>1 DEF Framed, Alike
<1> QED BY <1>2, <1>3, <1>4, <1>5 DEF Framed

-----------------------------------------------------------------------------
(***************************************************************************)
(* Framing: what the steps do to the stream ahead.                         *)
(***************************************************************************)
LEMMA AheadTypes ==
  ASSUME TypeOK
  PROVE  /\ buf \in Seq(Token) /\ net \in Seq(Token) /\ todo \in Seq(Token)
         /\ Unread \in Seq(Token) /\ Ahead \in Seq(Token)
         /\ Len(Ahead) = Len(Unread) + Len(todo)
         /\ \A i \in 1 .. Len(Unread) : Ahead[i] = Unread[i]
<1>1. buf \in Seq(Token) /\ net \in Seq(Token) /\ todo \in Seq(Token) BY DEF TypeOK
<1>2. Unread \in Seq(Token) BY <1>1 DEF Unread
<1>3. /\ Ahead \in Seq(Token) /\ Len(Ahead) = Len(Unread) + Len(todo)
      /\ \A i \in 1 .. Len(Unread) : Ahead[i] = Unread[i]
      BY <1>1, <1>2 DEF Ahead
<1> QED BY <1>1, <1>2, <1>3

\* A step that does not touch the stream.
LEMMA AheadStays ==
  ASSUME Unread' = Unread, UNCHANGED <<todo, waiting>>
  PROVE  Ahead' = Ahead /\ Blocked' = Blocked /\ (Awaited => Awaited')
BY DEF Ahead, Blocked, Awaited

\* The server takes one token.  It was waited for if the client now waits.
LEMMA AheadTaken ==
  ASSUME TypeOK, WellFramed(Ahead), Awaited, buf # <<>>, buf' = Tail(buf), ServerUnchanged
  PROVE  /\ Ahead \in Seq(Token) /\ Ahead # <<>> /\ Ahead[1] = Next1 /\ Next1 \in Token
         /\ Ahead' = Tail(Ahead) /\ WellFramed(Ahead') /\ Awaited'
         /\ Blocked = FALSE /\ Blocked' = Next1.wait
<1>0. /\ buf \in Seq(Token) /\ net \in Seq(Token) /\ todo \in Seq(Token)
      /\ Unread \in Seq(Token) /\ Ahead \in Seq(Token)
      /\ Len(Ahead) = Len(Unread) + Len(todo)
      /\ \A i \in 1 .. Len(Unread) : Ahead[i] = Unread[i]
      BY AheadTypes
<1>1. UNCHANGED <<net, todo, waiting>> BY DEF ServerUnchanged, clientVars
<1>2. Unread # <<>> /\ Unread[1] = Next1 /\ Next1 \in Token
  <2>1. Len(buf) \in Nat /\ Len(buf) > 0 BY <1>0
  <2>2. Len(Unread) = Len(buf) + Len(net) /\ Unread[1] = buf[1] BY <1>0, <2>1 DEF Unread
  <2>3. Unread # <<>> BY <1>0, <2>1, <2>2
  <2> QED BY <1>0, <2>1, <2>2, <2>3 DEF Next1
<1>3. Unread' = Tail(Unread) BY <1>0, <1>1, TailOfConcat DEF Unread
<1>4. Len(Unread) \in Nat /\ Len(Unread) > 0 BY <1>0, <1>2
<1>5. Ahead # <<>> /\ Ahead[1] = Next1 BY <1>0, <1>2, <1>4
<1>6. Ahead' = Tail(Ahead) BY <1>0, <1>1, <1>2, <1>3, TailOfConcat DEF Ahead
<1>7. WellFramed(Ahead') BY <1>0, <1>5, <1>6, FramedTail
<1>8. /\ Unread' \in Seq(Token) /\ Len(Unread') = Len(Unread) - 1
      /\ \A i \in 1 .. Len(Unread) - 1 : Unread'[i] = Unread[i + 1]
      BY <1>0, <1>2, <1>3, <1>4
<1>9. Awaited'
  <2>1. ASSUME NEW i \in 1 .. Len(Unread')
        PROVE  Unread'[i].wait <=> (waiting' /\ i = Len(Unread'))
    <3>1. i + 1 \in 1 .. Len(Unread) /\ Unread'[i] = Unread[i + 1] BY <1>4, <1>8
    <3>2. Unread[i + 1].wait <=> (waiting /\ i + 1 = Len(Unread)) BY <3>1 DEF Awaited
    <3>3. i + 1 = Len(Unread) <=> i = Len(Unread') BY <1>4, <1>8
    <3> QED BY <1>1, <3>1, <3>2, <3>3
  <2> QED BY <2>1 DEF Awaited
<1>10. ~Blocked /\ (Blocked' <=> Next1.wait)
  <2>0. 1 \in 1 .. Len(Unread) BY <1>4
  <2>a. Unread[1].wait <=> (waiting /\ 1 = Len(Unread)) BY <2>0 DEF Awaited
  <2>1. Next1.wait <=> (waiting /\ 1 = Len(Unread)) BY <1>2, <2>a
  <2>2. Unread' = <<>> <=> Len(Unread) = 1 BY <1>4, <1>8
  <2> QED BY <1>1, <1>2, <2>1, <2>2 DEF Blocked
<1>11. Next1.wait \in BOOLEAN BY <1>2 DEF Token
<1>12. Blocked = FALSE /\ Blocked' = Next1.wait BY <1>10, <1>11 DEF Blocked
<1> QED BY <1>0, <1>2, <1>5, <1>6, <1>7, <1>9, <1>12

-----------------------------------------------------------------------------
(***************************************************************************)
(* Framing: where a read leaves the connection.                            *)
(***************************************************************************)
LEMMA NotEmpty == ASSUME NEW t \in Seq(Token), Len(t) >= 1 PROVE t # <<>>
OBVIOUS

\* The second token, seen from the first.
LEMMA SecondFollows ==
  ASSUME NEW s \in Seq(Token), s # <<>>, WellFramed(s)
  PROVE  /\ Framed(s, 1) /\ Shaped(s[1]) /\ s[1] \in Token
         /\ Tail(s) # <<>> => Len(s) > 1 /\ Tail(s)[1] = s[2] /\ Follows(s[1], Tail(s)[1])
<1>1. Len(s) \in Nat /\ Len(s) > 0 /\ 1 \in 1 .. Len(s) OBVIOUS
<1>2. Framed(s, 1) BY <1>1 DEF WellFramed
<1>3. /\ Tail(s) \in Seq(Token) /\ Len(Tail(s)) = Len(s) - 1
      /\ \A i \in 1 .. Len(s) - 1 : Tail(s)[i] = s[i + 1]
      BY FramedTail
<1>4. ASSUME Tail(s) # <<>> PROVE Len(s) > 1 /\ Tail(s)[1] = s[1 + 1]
  <2>1. Len(Tail(s)) # 0 BY <1>3, <1>4
  <2>2. Len(s) > 1 BY <1>1, <1>3, <2>1
  <2>3. 1 \in 1 .. Len(s) - 1 BY <1>1, <2>2
  <2> QED BY <1>3, <2>2, <2>3
<1>5. Tail(s) # <<>> => Follows(s[1], Tail(s)[1]) BY <1>2, <1>4 DEF Framed
<1> QED BY <1>1, <1>2, <1>4, <1>5 DEF Framed

\* Behind a token that announces nothing.
LEMMA BehindUnmarked ==
  ASSUME NEW s \in Seq(Token), s # <<>>, WellFramed(s), ~Marked(s[1].args), NEW y
  PROVE  BetweenCommands(y, Tail(s), s[1].wait)
BY SecondFollows DEF BetweenCommands, Follows

\* What a literal that is going to be read announces.
LEMMA LiteralAhead ==
  ASSUME NEW s \in Seq(Token), s # <<>>, WellFramed(s), Opened(s[1].args)
  PROVE  /\ LiteralNext(Tail(s)) /\ Tail(s)[2] = s[3]
         /\ s[1].k = "line" => TrailerFits(s[1].verb, Len(s[1].args), Tail(s), 2)
         /\ s[1].k = "cont" => ~Marked(Tail(s)[2].args)
<1>1. Framed(s, 1) BY SecondFollows
<1>2. /\ 1 + 2 <= Len(s) /\ s[1 + 1].k = "body" /\ s[1 + 2].k \in Trailers
      /\ s[1].k = "line" => TrailerFits(s[1].verb, Len(s[1].args), s, 1 + 2)
      /\ s[1].k = "cont" => ~Marked(s[1 + 2].args)
      BY <1>1 DEF Framed
<1>3. /\ Tail(s) \in Seq(Token) /\ Len(Tail(s)) = Len(s) - 1 /\ Len(s) \in Nat
      /\ \A i \in 1 .. Len(s) - 1 : Tail(s)[i] = s[i + 1]
      BY FramedTail
<1>4. 3 <= Len(s) /\ 1 \in 1 .. Len(s) - 1 /\ 2 \in 1 .. Len(s) - 1 BY <1>2, <1>3
<1>5. Tail(s)[1] = s[1 + 1] /\ Tail(s)[2] = s[1 + 2] BY <1>3, <1>4
<1>6. LiteralNext(Tail(s)) BY <1>2, <1>3, <1>4, <1>5 DEF LiteralNext
<1>7. Opened(s[1 + 2].args) => Alike(s[(1 + 2) + 2], Tail(s)[2 + 2])
  <2>1. SUFFICES ASSUME Opened(s[1 + 2].args) PROVE Alike(s[(1 + 2) + 2], Tail(s)[2 + 2])
        OBVIOUS
  <2>2. 1 + 2 \in 1 .. Len(s) BY <1>3, <1>4
  <2>3. (1 + 2) + 2 <= Len(s) BY <2>1, <2>2 DEF WellFramed, Framed
  <2>4. 4 \in 1 .. Len(s) - 1 BY <1>3, <2>3
  <2> QED BY <1>3, <2>4 DEF Alike
<1>8. s[1].k = "line" => TrailerFits(s[1].verb, Len(s[1].args), Tail(s), 2)
      BY <1>2, <1>5, <1>7, TrailerMoves DEF Alike
<1> QED BY <1>2, <1>5, <1>6, <1>8

\* AcceptLine.
LEMMA PlaceAccepted ==
  ASSUME NEW s \in Seq(Token), s # <<>>, WellFramed(s), ~BadLine(s[1]), s[1].k # "cont",
         NEW y, y.verb = s[1].verb, y.args = s[1].args
  PROVE  CommandRead(y, Tail(s), s[1].wait)
<1> DEFINE t == s[1]
           u == Tail(s)
           n == Len(t.args)
<1>0. t \in Token /\ Shaped(t) /\ Framed(s, 1) /\ (u # <<>> => Follows(t, u[1]))
      BY SecondFollows
<1>a. t.k \in {"line", "rest", "body"} BY <1>0 DEF Token, BadLine
<1>b. t.k # "line" => t.verb \in {"REST", "BLANK", "PARSEERR", "DATA", "ROGUE"}
      BY <1>0, <1>a DEF Shaped
<1>1. PlainButLast(t.args) BY <1>0 DEF Shaped, PlainButLast
<1>2. ASSUME Opened(t.args) PROVE LiteralNext(u) /\ TrailerFits(t.verb, n, u, 2)
  <2>1. LiteralNext(u) /\ (t.k = "line" => TrailerFits(t.verb, n, u, 2))
        BY <1>2, LiteralAhead
  <2>2. t.k # "line" => TrailerFits(t.verb, n, u, 2) BY <1>b DEF TrailerFits, LiteralDeferred
  <2> QED BY <2>1, <2>2
<1>3. ASSUME u # <<>>
      PROVE  /\ ~t.wait => u[1].k # "cont"
             /\ ~t.wait /\ u[1].k = "body" /\ u[1].verb # "ROGUE" =>
                   t.args[n] \in NonSync \/ (t.verb = "AUTHENTICATE" /\ n = 2)
             /\ ~Marked(t.args) => u[1].k # "body" /\ (t.wait => u[1].k \in Responses)
      BY <1>0, <1>a, <1>3 DEF Follows, CommitsTo
<1>4. t.verb = "AUTHENTICATE" /\ n = 1 /\ ~Marked(t.args) => t.wait
      BY <1>0, <1>a, <1>b DEF Framed
<1> QED BY <1>1, <1>2, <1>3, <1>4 DEF CommandRead

\* ReadBody, of an argument.
LEMMA PlaceBody ==
  ASSUME NEW s \in Seq(Token), s # <<>>, WellFramed(s), NEW x \in ConnType, ArgumentNext(x, s),
         NEW y, y.verb = x.verb, y.args = x.args, y.val = Val(s[1])
  PROVE  RestNext(y, Tail(s))
<1> DEFINE n == Len(x.args)
<1>1. /\ Tail(s) \in Seq(Token) /\ Len(Tail(s)) = Len(s) - 1 /\ Len(s) \in Nat
      /\ \A i \in 1 .. Len(s) - 1 : Tail(s)[i] = s[i + 1]
      BY FramedTail
<1>2. 2 <= Len(s) /\ s[1].k = "body" /\ s[2].k \in Trailers /\ TrailerFits(x.verb, n, s, 2)
      BY DEF ArgumentNext, LiteralNext
<1>3. 1 \in 1 .. Len(s) - 1 /\ 2 \in 1 .. Len(s) BY <1>1, <1>2
<1>4. Tail(s)[1] = s[2] BY <1>1, <1>3
<1>5. Opened(s[2].args) => Alike(s[2 + 2], Tail(s)[1 + 2])
  <2>1. SUFFICES ASSUME Opened(s[2].args) PROVE Alike(s[2 + 2], Tail(s)[1 + 2]) OBVIOUS
  <2>2. 2 + 2 <= Len(s) BY <1>3, <2>1 DEF WellFramed, Framed
  <2>3. 3 \in 1 .. Len(s) - 1 BY <1>1, <2>2
  <2> QED BY <1>1, <2>3 DEF Alike
<1>6. TrailerFits(x.verb, n, Tail(s), 1) BY <1>2, <1>4, <1>5, TrailerMoves DEF Alike
<1>7. Val(s[1]) \in PlainArgs
  <2>1. Shaped(s[1]) /\ s[1] \in Token BY SecondFollows
  <2>2. s[1].args \in Seq(PlainArgs \cup Literals) BY <2>1 DEF Token
  <2>3. \A i \in DOMAIN s[1].args : s[1].args[i] \in PlainArgs BY <1>2, <2>1 DEF Shaped
  <2>4. s[1].args # <<>> => s[1].args[1] \in PlainArgs BY <2>2, <2>3
  <2>5. "empty" \in PlainArgs BY DEF PlainArgs
  <2> QED BY <2>4, <2>5 DEF Val
<1>8. x.args # <<>> BY DEF ArgumentNext, Opened, Marked
<1>9. Tail(s) # <<>>
  <2>1. Len(Tail(s)) >= 1 BY <1>1, <1>2
  <2> QED BY <1>1, <2>1, NotEmpty
<1> QED BY <1>2, <1>4, <1>6, <1>7, <1>8, <1>9 DEF ArgumentNext, RestNext

\* ReadBody, of a content or a response.
LEMMA PlaceContent ==
  ASSUME NEW s \in Seq(Token), s # <<>>, WellFramed(s), LiteralNext(s), ~Marked(s[2].args)
  PROVE  Tail(s) # <<>> /\ Tail(s)[1].k \in Trailers /\ ~Marked(Tail(s)[1].args)
<1>1. /\ Tail(s) \in Seq(Token) /\ Len(Tail(s)) = Len(s) - 1 /\ Len(s) \in Nat
      /\ \A i \in 1 .. Len(s) - 1 : Tail(s)[i] = s[i + 1]
      BY FramedTail
<1>2. 2 <= Len(s) /\ s[2].k \in Trailers BY DEF LiteralNext
<1>3. 1 \in 1 .. Len(s) - 1 BY <1>1, <1>2
<1>4. Tail(s)[1] = s[2] BY <1>1, <1>3
<1>5. Tail(s) # <<>>
  <2>1. Len(Tail(s)) >= 1 BY <1>1, <1>2
  <2> QED BY <1>1, <2>1, NotEmpty
<1> QED BY <1>2, <1>4, <1>5

\* The arguments of a command once the literal at its end has been replaced by
\* its value and the rest of the line is known.
Resumed(args, v, rest) == SubSeq(args, 1, Len(args) - 1) \o <<v>> \o rest

LEMMA ConcatSpec ==
  ASSUME NEW S, NEW s \in Seq(S), NEW t \in Seq(S)
  PROVE  /\ s \o t \in Seq(S) /\ Len(s \o t) = Len(s) + Len(t)
         /\ \A i \in 1 .. Len(s) : (s \o t)[i] = s[i]
         /\ \A i \in Len(s) + 1 .. Len(s) + Len(t) : (s \o t)[i] = t[i - Len(s)]
OBVIOUS

LEMMA FrontSpec ==
  ASSUME NEW S, NEW s \in Seq(S), s # <<>>
  PROVE  LET p == SubSeq(s, 1, Len(s) - 1)
         IN  p \in Seq(S) /\ Len(p) = Len(s) - 1 /\ \A i \in 1 .. Len(s) - 1 : p[i] = s[i]
<1> DEFINE n == Len(s) - 1
           p == SubSeq(s, 1, n)
<1>1. Len(s) \in Nat /\ Len(s) > 0 OBVIOUS
<1>2. n \in Nat /\ \A i \in 1 .. n : s[i] \in S BY <1>1
<1> HIDE DEF n
<1>3. /\ p \in Seq(S) /\ Len(p) = IF 1 <= n THEN n - 1 + 1 ELSE 0
      /\ \A i \in 1 .. n - 1 + 1 : p[i] = s[1 + i - 1]
      BY <1>2, SubSeqProperties
<1> HIDE DEF p
<1>4. p \in Seq(S) /\ Len(p) = n /\ \A i \in 1 .. n : p[i] = s[i] BY <1>2, <1>3
<1> QED BY <1>4 DEF p, n

LEMMA ResumedSpec ==
  ASSUME NEW a \in Seq(PlainArgs \cup Literals), a # <<>>, PlainButLast(a),
         NEW v \in PlainArgs, NEW r \in Seq(PlainArgs \cup Literals), PlainButLast(r)
  PROVE  LET z == Resumed(a, v, r)
         IN  /\ Len(z) = Len(a) + Len(r) /\ PlainButLast(z)
             /\ Marked(z) <=> Marked(r)
             /\ Opened(z) <=> Opened(r)
             /\ r # <<>> => z[Len(z)] = r[Len(r)]
<1> DEFINE S == PlainArgs \cup Literals
           p == SubSeq(a, 1, Len(a) - 1)
           q == p \o <<v>>
           z == q \o r
<1>1. Len(a) \in Nat /\ Len(a) > 0 /\ Len(r) \in Nat OBVIOUS
<1>a. a \in Seq(S) /\ r \in Seq(S) /\ v \in S OBVIOUS
<1> HIDE DEF S
<1>2. p \in Seq(S) /\ Len(p) = Len(a) - 1 /\ \A i \in 1 .. Len(a) - 1 : p[i] = a[i]
      BY <1>a, FrontSpec
<1> HIDE DEF p
<1>3. <<v>> \in Seq(S) /\ Len(<<v>>) = 1 /\ <<v>>[1] = v BY <1>a
<1>4. /\ q \in Seq(S) /\ Len(q) = Len(a) /\ q[Len(a)] = v
      /\ \A i \in 1 .. Len(a) - 1 : q[i] = a[i]
  <2>1. /\ q \in Seq(S) /\ Len(q) = Len(p) + Len(<<v>>)
        /\ \A i \in 1 .. Len(p) : q[i] = p[i]
        /\ \A i \in Len(p) + 1 .. Len(p) + Len(<<v>>) : q[i] = <<v>>[i - Len(p)]
        BY <1>2, <1>3, ConcatSpec
  <2> HIDE DEF q
  <2>2. Len(a) \in Len(p) + 1 .. Len(p) + Len(<<v>>) /\ Len(a) - Len(p) = 1
        BY <1>1, <1>2, <1>3
  <2>3. q[Len(a)] = v BY <1>3, <2>1, <2>2
  <2> QED BY <1>1, <1>2, <1>3, <2>1, <2>3
<1> HIDE DEF q
<1>5. /\ z \in Seq(S) /\ Len(z) = Len(a) + Len(r)
      /\ \A i \in 1 .. Len(a) : z[i] = q[i]
      /\ \A i \in Len(a) + 1 .. Len(a) + Len(r) : z[i] = r[i - Len(a)]
  <2>1. /\ z \in Seq(S) /\ Len(z) = Len(q) + Len(r)
        /\ \A i \in 1 .. Len(q) : z[i] = q[i]
        /\ \A i \in Len(q) + 1 .. Len(q) + Len(r) : z[i] = r[i - Len(q)]
    <3>1. q \in Seq(S) BY <1>4
    <3> QED BY <1>a, <3>1, ConcatSpec
  <2> HIDE DEF z
  <2> QED BY <1>4, <2>1
<1> HIDE DEF z
<1>6. r # <<>> => z[Len(z)] = r[Len(r)]
  <2>1. SUFFICES ASSUME r # <<>> PROVE z[Len(z)] = r[Len(r)] OBVIOUS
  <2>2. Len(r) > 0 BY <1>1, <2>1
  <2>3. Len(z) \in Len(a) + 1 .. Len(a) + Len(r) /\ Len(z) - Len(a) = Len(r)
        BY <1>1, <1>5, <2>2
  <2> QED BY <1>5, <2>3
<1>7. r = <<>> => z[Len(z)] = v
  <2>1. SUFFICES ASSUME r = <<>> PROVE z[Len(z)] = v OBVIOUS
  <2>2. Len(z) = Len(a) /\ Len(a) \in 1 .. Len(a) BY <1>1, <1>5, <2>1
  <2> QED BY <1>4, <1>5, <2>2
<1>8. ASSUME NEW i \in 1 .. Len(z) - 1 PROVE z[i] \in PlainArgs
  <2>1. CASE i <= Len(a)
    <3>1. z[i] = q[i] BY <1>1, <1>5, <2>1
    <3>2. CASE i = Len(a) BY <1>4, <3>1, <3>2
    <3>3. CASE i # Len(a)
      <4>1. i \in 1 .. Len(a) - 1 BY <1>1, <1>5, <2>1, <3>3
      <4> QED BY <1>4, <3>1, <4>1 DEF PlainButLast
    <3> QED BY <3>2, <3>3
  <2>2. CASE ~(i <= Len(a))
    <3>1. i - Len(a) \in 1 .. Len(r) - 1 /\ z[i] = r[i - Len(a)] BY <1>1, <1>5, <2>2
    <3> QED BY <3>1 DEF PlainButLast
  <2> QED BY <2>1, <2>2
<1>9. z # <<>> BY <1>1, <1>5
<1>10. v \notin Literals BY DEF PlainArgs, Literals
<1>11. Marked(z) <=> Marked(r) BY <1>6, <1>7, <1>9, <1>10 DEF Marked
<1>12. Opened(z) <=> Opened(r)
  <2>1. CASE r = <<>> BY <1>11, <2>1 DEF Opened, Marked
  <2>2. CASE r # <<>> BY <1>6, <1>11, <2>2 DEF Opened
  <2> QED BY <2>1, <2>2
<1>13. z = Resumed(a, v, r) BY DEF z, q, p, Resumed
<1> QED BY <1>5, <1>6, <1>8, <1>11, <1>12, <1>13 DEF PlainButLast

\* ReadArgRest.
LEMMA PlaceRest ==
  ASSUME NEW s \in Seq(Token), s # <<>>, WellFramed(s), ~BadLine(s[1]),
         s[1].verb # "PARSEERR", NEW x \in ConnType, RestNext(x, s),
         NEW v \in PlainArgs, NEW y, y.verb = x.verb, y.args = Resumed(x.args, v, s[1].args)
  PROVE  CommandRead(y, Tail(s), s[1].wait)
<1> DEFINE t == s[1]
           u == Tail(s)
           n == Len(x.args)
           z == Resumed(x.args, v, t.args)
<1>0. t \in Token /\ Shaped(t) /\ (u # <<>> => Follows(t, u[1])) BY SecondFollows
<1>1. t.k = "rest" /\ t.verb \in {"REST", "BLANK"}
      BY <1>0 DEF RestNext, Trailers, BadLine, Shaped
<1>2. x.args \in Seq(PlainArgs \cup Literals) /\ t.args \in Seq(PlainArgs \cup Literals)
      BY <1>0 DEF ConnType, Token
<1>3. /\ Len(z) = n + Len(t.args) /\ PlainButLast(z)
      /\ Marked(z) <=> Marked(t.args)
      /\ Opened(z) <=> Opened(t.args)
      /\ t.args # <<>> => z[Len(z)] = t.args[Len(t.args)]
  <2>1. PlainButLast(t.args) BY <1>0 DEF Shaped, PlainButLast
  <2> QED BY <1>2, <2>1, ResumedSpec DEF RestNext
<1>4. n \in Nat /\ n >= 1 /\ Len(t.args) \in Nat BY <1>2 DEF RestNext
<1>5. /\ ~LiteralDeferred(x.verb, n)
      /\ LiteralDeferred(x.verb, Len(z)) /\ Opened(t.args) => ~Marked(s[1 + 2].args)
      /\ x.verb = "AUTHENTICATE" /\ Len(z) = 1 => t.wait
      BY <1>1, <1>3 DEF RestNext, TrailerFits, BadLine
<1>a. u \in Seq(Token) /\ (Opened(t.args) => LiteralNext(u) /\ u[2] = s[1 + 2])
  <2>1. u \in Seq(Token) BY FramedTail
  <2>2. Opened(t.args) => LiteralNext(u) /\ u[2] = s[3] BY LiteralAhead
  <2> HIDE DEF u, t
  <2> QED BY <2>1, <2>2
<1>b. Len(z) = n + Len(t.args) BY <1>3
<1> HIDE DEF z, u, t, n
<1>6. ASSUME Opened(z) PROVE LiteralNext(u) /\ TrailerFits(x.verb, Len(z), u, 2)
  <2>1. LiteralNext(u) /\ u[2] = s[1 + 2] BY <1>3, <1>6, <1>a
  <2>2. CASE LiteralDeferred(x.verb, Len(z))
        BY <1>3, <1>5, <1>6, <2>1, <2>2 DEF TrailerFits
  <2>3. CASE ~LiteralDeferred(x.verb, Len(z))
    <3> DEFINE w == u[2].args
    <3>1. Len(z) >= 2 /\ Len(z) \in Nat
      <4>1. t.args # <<>> BY <1>3, <1>6 DEF Opened, Marked
      <4>2. Len(t.args) > 0 BY <1>2, <4>1
      <4> QED BY <1>4, <1>b, <4>2
    <3>2. 2 \in 1 .. Len(u) BY <1>a, <2>1 DEF LiteralNext
    <3>3. u[2] \in Token BY <1>a, <3>2
    <3>4. w \in Seq(PlainArgs \cup Literals) BY <3>3 DEF Token
    <3> HIDE DEF w
    <3>5. Len(w) \in Nat /\ (w # <<>> => Len(w) > 0) BY <3>4
    <3>6. Opened(w) => Len(w) > 0 BY <3>5 DEF Opened, Marked
    <3>7. Opened(w) => Len(z) + Len(w) # 2 /\ Len(z) + Len(w) # 1 BY <3>1, <3>5, <3>6
    <3>8. ~(LiteralDeferred(x.verb, Len(z) + Len(w)) /\ Opened(w))
          BY <3>7 DEF LiteralDeferred
    <3>9. Len(z) + Len(w) # 1 BY <3>1, <3>5
    <3> QED BY <2>1, <2>3, <3>8, <3>9 DEF TrailerFits, w
  <2> QED BY <2>1, <2>2, <2>3
<1>7. ASSUME u # <<>>
      PROVE  /\ ~t.wait => u[1].k # "cont"
             /\ ~t.wait /\ u[1].k = "body" /\ u[1].verb # "ROGUE" => z[Len(z)] \in NonSync
             /\ ~Marked(z) => u[1].k # "body" /\ (t.wait => u[1].k \in Responses)
  <2>1. ~t.wait /\ u[1].k = "body" /\ u[1].verb # "ROGUE" =>
           t.args # <<>> /\ t.args[Len(t.args)] \in NonSync
        BY <1>0, <1>1, <1>7 DEF Follows, CommitsTo, Marked
  <2> QED BY <1>0, <1>3, <1>7, <2>1 DEF Follows
<1>8. y.args = z BY DEF z, t
<1> QED BY <1>3, <1>5, <1>6, <1>7, <1>8 DEF CommandRead, u, t, n

-----------------------------------------------------------------------------
(***************************************************************************)
(* Framing: the steps of the server.                                       *)
(***************************************************************************)
\* The connection y is over, or where it should be.
Settled(y, s, b) == (y.misparsed => y.gated) /\ (Over(y) \/ Place(y, s, b))

LEMMA PlaceBetween ==
  ASSUME NEW y, NEW s, NEW b, y.pc \in LinePlaces, BetweenCommands(y, s, b)
  PROVE  Place(y, s, b)
BY DEF Place, LinePlaces

\* A step that serves on, to a place between two commands.
LEMMA SettledServing ==
  ASSUME NEW x, x.misparsed => x.gated, NEW y, Serves(x, y), NEW s, NEW b,
         \/ y.pc \in LinePlaces /\ BetweenCommands(x, s, b)
         \/ y.pc = "enforce" /\ y.closePending
         \/ y.pc = "closed"
  PROVE  Settled(y, s, b)
<1>1. y.gated = x.gated /\ y.misparsed = x.misparsed BY DEF Serves
<1>2. BetweenCommands(x, s, b) => BetweenCommands(y, s, b) BY <1>1 DEF BetweenCommands
<1> QED BY <1>1, <1>2, PlaceBetween DEF Settled, Over

\* Steps that leave the stream alone.
LEMMA QuietFraming ==
  ASSUME InStep, UNCHANGED buf, ServerUnchanged, Settled(c', Ahead, Blocked)
  PROVE  Framing'
<1>1. Unread' = Unread /\ UNCHANGED <<todo, waiting>> BY DEF Unread, ServerUnchanged, clientVars
<1>2. Ahead' = Ahead /\ Blocked' = Blocked /\ Awaited' BY <1>1, AheadStays DEF InStep
<1> QED BY <1>2 DEF Settled, Framing, InStep, Over

\* Steps that take a token.
LEMMA TakenFraming ==
  ASSUME TypeOK, InStep, buf # <<>>, buf' = Tail(buf), ServerUnchanged,
         Settled(c', Tail(Ahead), Next1.wait)
  PROVE  Framing'
<1>1. Ahead' = Tail(Ahead) /\ Blocked' = Next1.wait /\ Awaited' /\ WellFramed(Ahead')
      BY AheadTaken DEF InStep
<1> QED BY <1>1 DEF Settled, Framing, InStep, Over

\* What a step of the server finds while the connection is open.
LEMMA Finds ==
  ASSUME Inv, Framing, ~Over(c)
  PROVE  /\ TypeOK /\ c \in ConnType /\ InStep /\ (c.misparsed => c.gated) /\ Serves(c, c)
         /\ WellFramed(Ahead) /\ Awaited /\ Place(c, Ahead, Blocked)
BY ServesSelf DEF Inv, TypeOK, Framing, InStep

\* The steps between two commands.
LEMMA LoopFraming ==
  ASSUME Inv, Framing, ~Over(c),
         \/ Greet \/ ArmCommandRead \/ CheckContext \/ Enforce \/ SessionFails \/ SessionSucceeds
         \/ SessionHijacks \/ HandshakeFails \/ HandshakeAborts \/ HandshakeSucceeds
  PROVE  /\ c.pc \in {"greet", "top", "arm", "enforce", "session", "handshake"}
         /\ BetweenCommands(c, Ahead, Blocked)
<1>1. c.pc \in {"greet", "top", "arm", "enforce", "session", "handshake"}
      BY DEF Greet, ArmCommandRead, CheckContext, Enforce, SessionFails, SessionSucceeds,
             SessionHijacks, HandshakeFails, HandshakeAborts, HandshakeSucceeds
<1> QED BY <1>1, Finds DEF Place, LinePlaces

LEMMA ServesField ==
  ASSUME NEW x, NEW y, Serves(x, y), NEW b \in BOOLEAN
  PROVE  /\ Serves(x, [y EXCEPT !.authenticated = b]) /\ Serves(x, [y EXCEPT !.isTLS = b])
         /\ Serves(x, [y EXCEPT !.hijacked = b]) /\ Serves(x, [y EXCEPT !.quit = b])
<1> DEFINE p == [y EXCEPT !.authenticated = b]
           q == [y EXCEPT !.isTLS = b]
           r == [y EXCEPT !.hijacked = b]
           s == [y EXCEPT !.quit = b]
<1>0. y \in ConnType BY DEF Serves
<1>1. p \in ConnType /\ q \in ConnType /\ r \in ConnType /\ s \in ConnType
      BY <1>0, Zenon DEF ConnType
<1>2. /\ SameBut(y, p, {"authenticated"}) /\ SameBut(y, q, {"isTLS"})
      /\ SameBut(y, r, {"hijacked"}) /\ SameBut(y, s, {"quit"})
      BY <1>0 DEF ConnType, SameBut, Fields
<1>3. /\ {"authenticated"} \subseteq Chores /\ {"isTLS"} \subseteq Chores
      /\ {"hijacked"} \subseteq Chores /\ {"quit"} \subseteq Chores
      BY DEF Chores, Fields
<1> HIDE DEF p, q, r, s
<1>4. Serves(x, p) /\ Serves(x, q) /\ Serves(x, r) /\ Serves(x, s)
      BY <1>1, <1>2, <1>3, ServesChores
<1> QED BY <1>4 DEF p, q, r, s

\* Leaving the loop changes nothing but what is said.
LEMMA PartingFraming ==
  ASSUME Inv, c.misparsed => c.gated, Leaves \/ CallbackPanics \/ (Enforce /\ c.closePending)
  PROVE  c'.pc = "closed" /\ (c'.misparsed => c'.gated)
<1>0. c \in ConnType BY DEF Inv, TypeOK
<1>1. CASE Leaves
  <2>1. Parted(c, c') /\ c'.pc = "closed" BY <1>0, <1>1, LeavesSpec
  <2>2. c'.misparsed = c.misparsed /\ c'.gated = c.gated
        BY <2>1 DEF Parted, SameBut, Fields, Parting
  <2> QED BY <2>1, <2>2
<1>2. CASE CallbackPanics \/ (Enforce /\ c.hijacked)
  <2>1. c' = Goto(c, "closed") BY <1>2 DEF CallbackPanics, Enforce
  <2>2. Serves(c, c') /\ c'.pc = "closed" BY <1>0, <2>1, ServesSelf, ServesGoto, SomePcs
  <2> QED BY <2>2 DEF Serves
<1>3. CASE Enforce /\ ~c.hijacked /\ c.closePending
  <2>1. PICK f \in Flush(Verdict(c)) :
           c' = Goto(f, IF f.wfail \/ f.quit THEN "closed" ELSE "top")
        BY <1>3 DEF Enforce
  <2>2. Verdict(c) = AndQuit(c) BY <1>3 DEF Verdict
  <2>3. AndQuit(c) \in ConnType /\ AndQuit(c).quit BY <1>0, AndQuitSpec
  <2>4. SameBut(AndQuit(c), f, {"dirty", "wfail"}) BY <2>1, <2>2, <2>3, FlushSpec
  <2>5. f.quit BY <2>3, <2>4 DEF SameBut, Fields
  <2>6. Serves(c, f) BY <1>0, <2>1, <2>2, ServesSelf, ServesQuit, ServesFlush
  <2>7. c' = Goto(f, "closed") BY <2>1, <2>5
  <2>8. Serves(c, c') /\ c'.pc = "closed" BY <2>6, <2>7, ServesGoto, SomePcs
  <2> QED BY <2>8 DEF Serves
<1> QED BY <1>1, <1>2, <1>3

LEMMA ServesVerdict == ASSUME NEW x, NEW y, Serves(x, y) PROVE Serves(x, Verdict(y))
<1>1. Serves(x, Write(y, "BYE-errs")) BY ServesWrite, SomeReplies
<1>2. Serves(x, AndQuit(y)) /\ Serves(x, AndQuit(Write(y, "BYE-errs"))) BY <1>1, ServesQuit
<1>3. Verdict(y) \in {y, AndQuit(y), AndQuit(Write(y, "BYE-errs"))} BY DEF Verdict
<1> QED BY <1>2, <1>3

\* Steps between two commands that serve on.
LEMMA LoopServes ==
  ASSUME c \in ConnType,
         \/ Greet \/ ArmCommandRead \/ Enforce \/ SessionFails \/ SessionSucceeds
         \/ SessionHijacks \/ HandshakeFails \/ HandshakeAborts \/ HandshakeSucceeds
  PROVE  Serves(c, c') /\ c'.pc \in {"closed", "top", "line", "enforce"}
<1> DEFINE d == SetReadDeadline(c, "none")
<1>0. Serves(c, c) BY ServesSelf
<1>a. Serves(c, d) BY <1>0, ServesDeadline DEF Timers
<1> HIDE DEF d
<1>1. CASE Greet
  <2>1. PICK f \in Flush(Write(c, "GREETING")) :
           c' = Goto(f, IF f.wfail THEN "closed" ELSE "top")
        BY <1>1 DEF Greet
  <2>2. Serves(c, f) BY <1>0, <2>1, ServesWrite, ServesFlush, SomeReplies
  <2> QED BY <2>1, <2>2, ServesGoto, SomePcs
<1>2. CASE ArmCommandRead
  <2>1. PICK a \in Arm(c) : c' = Goto(a, "line") BY <1>2 DEF ArmCommandRead
  <2>2. "line" \in Pcs BY DEF Pcs, ReadPcs, LinePcs
  <2> QED BY <1>0, <2>1, <2>2, ServesArm, ServesGoto
<1>3. CASE Enforce
  <2>1. CASE c.hijacked
    <3>1. c' = Goto(c, "closed") BY <1>3, <2>1 DEF Enforce
    <3> QED BY <1>0, <3>1, ServesGoto, SomePcs
  <2>2. CASE ~c.hijacked
    <3>1. PICK f \in Flush(Verdict(c)) :
             c' = Goto(f, IF f.wfail \/ f.quit THEN "closed" ELSE "top")
          BY <1>3, <2>2 DEF Enforce
    <3>2. Serves(c, f) BY <1>0, <3>1, ServesVerdict, ServesFlush
    <3> QED BY <3>1, <3>2, ServesGoto, SomePcs
  <2> QED BY <2>1, <2>2
<1>4. CASE SessionFails
  <2>1. PICK close \in BOOLEAN :
           c' = Done(IF c.verb \in AuthVerbs THEN AuthFailure(c, close)
                                             ELSE SessionError(c, close))
        BY <1>4 DEF SessionFails
  <2>2. Serves(c, AuthFailure(c, close)) /\ Serves(c, SessionError(c, close))
        BY <1>0, ServesFailure
  <2> QED BY <2>1, <2>2, ServesDone
<1>5. CASE SessionSucceeds
  <2> DEFINE b == c.authenticated \/ c.verb \in AuthVerbs
             x == [c EXCEPT !.authenticated = b]
  <2>1. b \in BOOLEAN /\ c' = Done(Write(x, "OK")) BY <1>5 DEF SessionSucceeds
  <2> HIDE DEF b
  <2>2. Serves(c, x) BY <1>0, <2>1, ServesField
  <2> HIDE DEF x
  <2> QED BY <2>1, <2>2, ServesWrite, ServesDone, SomeReplies
<1>6. CASE SessionHijacks
  <2> DEFINE x == [d EXCEPT !.hijacked = TRUE]
  <2>1. c' \in {Done(x), Done(AuthFailure(x, FALSE))} BY <1>6 DEF SessionHijacks, d
  <2>2. Serves(c, x) BY <1>a, ServesField
  <2> HIDE DEF x
  <2>3. Serves(c, AuthFailure(x, FALSE)) BY <2>2, ServesFailure
  <2> QED BY <2>1, <2>2, <2>3, ServesDone
<1>7. CASE HandshakeFails \/ HandshakeAborts
  <2> DEFINE y == Done(Failed(d))
  <2>1. c' = AndQuit(y) BY <1>7 DEF HandshakeFails, HandshakeAborts, HandshakeFailed, d
  <2>2. Serves(c, y) /\ y.pc = "enforce" BY <1>a, ServesFailed, ServesDone
  <2>3. y \in ConnType BY <2>2 DEF Serves
  <2> HIDE DEF y
  <2> QED BY <2>1, <2>2, <2>3, ServesQuit, KeepsPc
<1>8. CASE HandshakeSucceeds
  <2> DEFINE x == [d EXCEPT !.isTLS = TRUE]
  <2>1. c' = Done(Write(x, "GREETING")) BY <1>8 DEF HandshakeSucceeds, d
  <2>2. Serves(c, x) BY <1>a, ServesField
  <2> HIDE DEF x
  <2> QED BY <2>1, <2>2, ServesWrite, ServesDone, SomeReplies
<1> QED BY <1>1, <1>2, <1>3, <1>4, <1>5, <1>6, <1>7, <1>8

LEMMA LoopStepFraming ==
  ASSUME Inv, Timely, Framing, ~Over(c),
         \/ Greet \/ ArmCommandRead \/ CheckContext \/ Enforce \/ SessionFails \/ SessionSucceeds
         \/ SessionHijacks \/ HandshakeFails \/ HandshakeAborts \/ HandshakeSucceeds
  PROVE  Framing'
<1>0. c \in ConnType /\ InStep /\ (c.misparsed => c.gated) BY Finds
<1>1. BetweenCommands(c, Ahead, Blocked) BY LoopFraming
<1>2. UNCHANGED buf /\ ServerUnchanged
  <2>1. CASE HandshakeSucceeds
        BY <2>1 DEF HandshakeSucceeds, Timely, CleanHandshake
  <2>2. CASE ~HandshakeSucceeds BY <2>2, HandlersQuiet DEF LoopStep, SessionReturns
  <2> QED BY <2>1, <2>2
<1>3. Settled(c', Ahead, Blocked)
  <2>1. CASE CheckContext /\ CtxDone
        BY <1>0, <2>1, PartingFraming DEF Leaves, Settled, Over
  <2>2. CASE CheckContext /\ ~CtxDone
    <3>1. c' = Goto(NextIteration(c), "arm") BY <2>2 DEF CheckContext
    <3>2. c'.pc = "arm" /\ c'.gated = c.gated /\ c'.misparsed = c.misparsed
          BY <1>0, <3>1 DEF Goto, NextIteration, ConnType
    <3>3. BetweenCommands(c', Ahead, Blocked) BY <1>1, <3>2 DEF BetweenCommands
    <3> QED BY <1>0, <3>2, <3>3, PlaceBetween DEF Settled, LinePlaces
  <2>3. CASE ~CheckContext
    <3>1. Serves(c, c') /\ c'.pc \in {"closed", "top", "line", "enforce"}
          BY <1>0, <2>3, LoopServes
    <3> QED BY <1>0, <1>1, <3>1, SettledServing DEF LinePlaces
  <2> QED BY <2>1, <2>2, <2>3
<1> QED BY <1>0, <1>2, <1>3, QuietFraming

\* The arguments of a command, and what is asked of its last one.
LEMMA ArgFacts ==
  ASSUME c \in ConnType
  PROVE  /\ c.args \in Seq(PlainArgs \cup Literals) /\ Len(c.args) \in Nat
         /\ c.args # <<>> => Len(c.args) > 0
         /\ Marked(c.args) <=> c.args # <<>> /\ LastArg \in Literals
         /\ Opened(c.args) <=> Marked(c.args) /\ LastArg \notin Malformed \cup Oversized
         /\ InlineLiteral <=> Marked(c.args) /\ ~LiteralDeferred(c.verb, Len(c.args))
<1>1. c.args \in Seq(PlainArgs \cup Literals) BY DEF ConnType
<1>2. Len(c.args) \in Nat /\ (c.args # <<>> => Len(c.args) > 0) BY <1>1
<1> QED BY <1>1, <1>2 DEF Marked, Opened, LastArg, InlineLiteral

\* A command that is refused for its last argument: the body that it commits
\* the client to was not announced, or the connection closes.
LEMMA PlaceRefused ==
  ASSUME NEW x, NEW s, NEW b, CommandRead(x, s, b), x.args[Len(x.args)] \notin NonSync,
         ~(x.verb = "AUTHENTICATE" /\ Len(x.args) = 2)
  PROVE  BetweenCommands(x, s, b)
BY DEF CommandRead, BetweenCommands

\* A command without a literal at its end.
LEMMA PlaceUnmarked ==
  ASSUME NEW x, NEW s, NEW b, CommandRead(x, s, b), ~Marked(x.args)
  PROVE  BetweenCommands(x, s, b)
BY DEF CommandRead, BetweenCommands

LEMMA ResolveFraming ==
  ASSUME Inv, Framing, ArgsResolved \/ RejectArgLiteral \/ BeginArgLiteral
  PROVE  Framing'
<1>a. c.pc = "resolve" BY DEF ArgsResolved, RejectArgLiteral, BeginArgLiteral
<1>0. c \in ConnType /\ InStep /\ (c.misparsed => c.gated) /\ Serves(c, c)
      BY <1>a, Finds DEF Over
<1>1. CommandRead(c, Ahead, Blocked) BY <1>a, Finds DEF Over, Place
<1>2. UNCHANGED buf /\ ServerUnchanged
      BY DEF ArgsResolved, RejectArgLiteral, BeginArgLiteral, Quietly
<1>b. /\ Opened(c.args) <=> Marked(c.args) /\ LastArg \notin Malformed \cup Oversized
      /\ InlineLiteral <=> Marked(c.args) /\ ~LiteralDeferred(c.verb, Len(c.args))
      BY <1>0, ArgFacts
<1>3. CASE ArgsResolved
  <2>1. c' = Goto(c, "dispatch") /\ ~InlineLiteral BY <1>3 DEF ArgsResolved
  <2>2. Serves(c, c') /\ c'.pc = "dispatch" BY <1>0, <2>1, ServesGoto, SomePcs
  <2>3. /\ c'.args = c.args /\ c'.verb = c.verb /\ c'.gated = c.gated
        /\ c'.misparsed = c.misparsed
        BY <2>2 DEF Serves
  <2>4. CommandRead(c', Ahead, Blocked) BY <1>1, <2>3 DEF CommandRead
  <2>5. Marked(c'.args) => LiteralDeferred(c'.verb, Len(c'.args)) BY <1>b, <2>1, <2>3
  <2>6. Place(c', Ahead, Blocked) BY <2>2, <2>4, <2>5 DEF Place, LinePlaces
  <2> QED BY <1>0, <1>2, <2>3, <2>6, QuietFraming DEF Settled
<1>4. CASE RejectArgLiteral
  <2> DEFINE b == \/ LastArg \in NonSync
                  \/ LastArg \in Oversized /\ buf # <<>>
  <2>1. b \in BOOLEAN /\ c' = Goto(MustClose(ClientError(c), b), "enforce") /\ InlineLiteral
        BY <1>4 DEF RejectArgLiteral
  <2>2. ~b => LastArg \notin NonSync OBVIOUS
  <2> HIDE DEF b
  <2>3. Serves(c, c') /\ c'.pc = "enforce" /\ (b => c'.closePending)
    <3>1. Serves(c, ClientError(c)) BY <1>0, ServesClientError
    <3> QED BY <2>1, <3>1, ServesClosing
  <2>4. CASE b BY <1>0, <1>2, <2>3, <2>4, SettledServing, QuietFraming
  <2>5. CASE ~b
    <3>1. c.args[Len(c.args)] \notin NonSync BY <2>2, <2>5 DEF LastArg
    <3>2. ~(c.verb = "AUTHENTICATE" /\ Len(c.args) = 2)
          BY <1>b, <2>1 DEF LiteralDeferred
    <3>3. BetweenCommands(c, Ahead, Blocked) BY <1>1, <3>1, <3>2, PlaceRefused
    <3>4. Settled(c', Ahead, Blocked)
          BY <1>0, <2>3, <3>3, SettledServing DEF LinePlaces
    <3> QED BY <1>0, <1>2, <3>4, QuietFraming
  <2> QED BY <2>4, <2>5
<1>5. CASE BeginArgLiteral
  <2>1. "argbody" \in ReadPcs BY DEF ReadPcs, BodyPcs
  <2>2. /\ c' \in StartLiteral(c, LastArg, "argbody") /\ InlineLiteral
        /\ LastArg \notin Malformed \cup Oversized
        BY <1>5 DEF BeginArgLiteral
  <2>3. Serves(c, c') /\ (c'.pc = "argbody" \/ (c'.pc = "enforce" /\ c'.closePending))
        BY <1>0, <2>1, <2>2, ServesStartLiteral
  <2>4. /\ c'.args = c.args /\ c'.verb = c.verb /\ c'.gated = c.gated
        /\ c'.misparsed = c.misparsed
        BY <2>3 DEF Serves
  <2>5. Opened(c.args) /\ ~LiteralDeferred(c.verb, Len(c.args)) BY <1>b, <2>2
  <2>6. ArgumentNext(c', Ahead) BY <1>1, <2>4, <2>5 DEF CommandRead, ArgumentNext
  <2>7. c'.pc = "argbody" => Place(c', Ahead, Blocked) BY <2>6 DEF Place, LinePlaces
  <2> QED BY <1>0, <1>2, <2>3, <2>4, <2>7, QuietFraming DEF Settled, Over
<1> QED BY <1>3, <1>4, <1>5

\* The reads of a line.
LEMMA LineFraming ==
  ASSUME Inv, Framing, SkipBlankLine \/ ParseLineFails \/ AcceptLine
  PROVE  Framing'
<1>a. c.pc = "line" /\ buf # <<>> /\ buf' = Tail(buf) /\ ServerUnchanged /\ ~BadLine(Next1)
      BY DEF SkipBlankLine, ParseLineFails, AcceptLine, Takes
<1>0. /\ TypeOK /\ c \in ConnType /\ InStep /\ (c.misparsed => c.gated) /\ Serves(c, c)
      /\ WellFramed(Ahead) /\ Awaited /\ Place(c, Ahead, Blocked)
      BY <1>a, Finds DEF Over
<1>1. /\ Ahead \in Seq(Token) /\ Ahead # <<>> /\ Ahead[1] = Next1 /\ Next1 \in Token
      /\ Blocked = FALSE
      BY <1>0, <1>a, AheadTaken
<1>2. /\ Next1.k # "cont"
      /\ Next1.k = "body" => Next1.verb = "ROGUE" \/ c.gated
      BY <1>0, <1>1, <1>a DEF Place, LinePlaces, BetweenCommands
<1>3. CASE SkipBlankLine \/ ParseLineFails
  <2>1. Next1.verb \in {"BLANK", "PARSEERR"} BY <1>3 DEF SkipBlankLine, ParseLineFails
  <2>2. Shaped(Next1) BY <1>0, <1>1, SecondFollows
  <2>3. ~Marked(Next1.args) BY <2>1, <2>2 DEF Shaped, Marked
  <2>4. BetweenCommands(c, Tail(Ahead), Next1.wait) BY <1>0, <1>1, <2>3, BehindUnmarked
  <2>5. Serves(c, c') /\ c'.pc \in {"top", "enforce"}
    <3>1. CASE SkipBlankLine
      <4>1. c' = Goto(c, "top") BY <3>1 DEF SkipBlankLine
      <4> QED BY <1>0, <4>1, ServesGoto, SomePcs
    <3>2. CASE ParseLineFails
      <4>1. c' = Done(ClientError(Failed(c))) BY <3>2 DEF ParseLineFails, Done
      <4> QED BY <1>0, <4>1, ServesFailed, ServesClientError, ServesDone
    <3> QED BY <1>3, <3>1, <3>2
  <2>6. Settled(c', Tail(Ahead), Next1.wait)
        BY <1>0, <2>4, <2>5, SettledServing DEF LinePlaces
  <2> QED BY <1>0, <1>a, <2>6, TakenFraming
<1>4. CASE AcceptLine
  <2>1. /\ c'.pc = "resolve" /\ c'.verb = Next1.verb /\ c'.args = Next1.args
        /\ c'.gated = c.gated
        /\ c'.misparsed = (c.misparsed \/ (Next1.k = "body" /\ Next1.verb # "ROGUE"))
        BY <1>0, <1>4 DEF AcceptLine, ConnType
  <2>2. CommandRead(c', Tail(Ahead), Next1.wait)
        BY <1>0, <1>1, <1>2, <1>a, <2>1, PlaceAccepted
  <2>3. Place(c', Tail(Ahead), Next1.wait) BY <2>1, <2>2 DEF Place, LinePlaces
  <2>4. Settled(c', Tail(Ahead), Next1.wait) BY <1>0, <1>2, <2>1, <2>3 DEF Settled
  <2> QED BY <1>0, <1>a, <2>4, TakenFraming
<1> QED BY <1>3, <1>4

\* A read that is given up closes the connection.
LEMMA CutFraming ==
  ASSUME Inv, Framing, CommandCut \/ TrailerRejected
  PROVE  Framing'
<1>a. c.pc \in ReadPcs /\ c' = GiveUpRead(c)
      BY DEF CommandCut, TrailerRejected, ReadPcs
<1>0. /\ TypeOK /\ c \in ConnType /\ InStep /\ (c.misparsed => c.gated) /\ Serves(c, c)
      BY <1>a, Finds DEF Over, ReadPcs, LinePcs, BodyPcs
<1> DEFINE w == Write(Failed(SetReadDeadline(c, "none")), "NO")
<1>1. Serves(c, SetReadDeadline(c, "none")) BY <1>0, ServesDeadline DEF Timers
<1>2. Serves(c, w) BY <1>1, ServesFailed, ServesWrite, SomeReplies
<1>3. c' = Goto(MustClose(w, TRUE), "enforce") BY <1>a DEF GiveUpRead
<1> HIDE DEF w
<1>4. Serves(c, c') /\ c'.pc = "enforce" /\ c'.closePending BY <1>2, <1>3, ServesClosing
<1>5. \A s, b : Settled(c', s, b) BY <1>0, <1>4, SettledServing
<1>6. CASE CommandCut BY <1>0, <1>5, <1>6, QuietFraming DEF CommandCut, Quietly
<1>7. CASE TrailerRejected BY <1>0, <1>5, <1>7, TakenFraming DEF TrailerRejected, Takes
<1> QED BY <1>6, <1>7

LEMMA BodyFraming ==
  ASSUME Inv, Framing, ReadBody
  PROVE  Framing'
<1>a. c.pc \in BodyPcs /\ buf # <<>> /\ buf' = Tail(buf) /\ ServerUnchanged
      BY DEF ReadBody, Takes
<1>0. /\ TypeOK /\ c \in ConnType /\ InStep /\ (c.misparsed => c.gated)
      /\ WellFramed(Ahead) /\ Awaited /\ Place(c, Ahead, Blocked)
      BY <1>a, Finds DEF Over, BodyPcs
<1>1. /\ Ahead \in Seq(Token) /\ Ahead # <<>> /\ Ahead[1] = Next1
      BY <1>0, <1>a, AheadTaken
<1>2. /\ c'.pc = AfterBody[c.pc] /\ c'.val = Val(Next1) /\ c'.verb = c.verb
      /\ c'.args = c.args /\ c'.gated = c.gated /\ c'.misparsed = c.misparsed
      BY <1>0 DEF ReadBody, ConnType
<1>3. Place(c', Tail(Ahead), Next1.wait)
  <2>1. CASE c.pc = "argbody"
    <3>1. c'.pc = "argrest" BY <1>2, <2>1 DEF AfterBody
    <3>2. ArgumentNext(c, Ahead) BY <1>0, <2>1 DEF Place
    <3>3. RestNext(c', Tail(Ahead)) BY <1>0, <1>1, <1>2, <3>2, PlaceBody
    <3> QED BY <3>1, <3>3 DEF Place, LinePlaces
  <2>2. CASE c.pc \in {"authbody", "scriptbody"}
    <3>1. c'.pc \in {"authcrlf", "scriptcrlf"} BY <1>2, <2>2 DEF AfterBody
    <3>2. LiteralNext(Ahead) /\ ~Marked(Ahead[2].args) BY <1>0, <2>2 DEF Place
    <3>3. /\ Tail(Ahead) # <<>> /\ Tail(Ahead)[1].k \in Trailers
          /\ ~Marked(Tail(Ahead)[1].args)
          BY <1>0, <1>1, <3>2, PlaceContent
    <3> QED BY <3>1, <3>3 DEF Place, LinePlaces
  <2> QED BY <1>a, <2>1, <2>2 DEF BodyPcs
<1>4. Settled(c', Tail(Ahead), Next1.wait) BY <1>0, <1>2, <1>3 DEF Settled
<1> QED BY <1>0, <1>a, <1>4, TakenFraming

LEMMA RestFraming ==
  ASSUME Inv, Framing, ReadArgRest
  PROVE  Framing'
<1>a. c.pc = "argrest" /\ buf # <<>> /\ buf' = Tail(buf) /\ ServerUnchanged /\ ~BadLine(Next1)
      BY DEF ReadArgRest, Takes
<1>0. /\ TypeOK /\ c \in ConnType /\ InStep /\ (c.misparsed => c.gated) /\ Serves(c, c)
      /\ WellFramed(Ahead) /\ Awaited /\ Place(c, Ahead, Blocked)
      BY <1>a, Finds DEF Over
<1>1. /\ Ahead \in Seq(Token) /\ Ahead # <<>> /\ Ahead[1] = Next1 /\ Next1 \in Token
      BY <1>0, <1>a, AheadTaken
<1>2. RestNext(c, Ahead) BY <1>0, <1>a DEF Place
<1> DEFINE x == SetReadDeadline(c, "none")
<1>3. Serves(c, x) BY <1>0, ServesDeadline DEF Timers
<1>4. x \in ConnType /\ x.args = c.args /\ x.verb = c.verb /\ x.gated = c.gated
      /\ x.misparsed = c.misparsed
      BY <1>3 DEF Serves
<1>5. CASE Next1.verb = "PARSEERR"
  <2>1. c' = Done(ClientError(Failed(x))) BY <1>5 DEF ReadArgRest, Done
  <2> HIDE DEF x
  <2>2. Serves(c, c') /\ c'.pc = "enforce"
        BY <1>3, <2>1, ServesFailed, ServesClientError, ServesDone
  <2>3. Shaped(Next1) BY <1>0, <1>1, SecondFollows
  <2>4. ~Marked(Next1.args) BY <1>5, <2>3 DEF Shaped, Marked
  <2>5. BetweenCommands(c, Tail(Ahead), Next1.wait) BY <1>0, <1>1, <2>4, BehindUnmarked
  <2>6. Settled(c', Tail(Ahead), Next1.wait)
        BY <1>0, <2>2, <2>5, SettledServing DEF LinePlaces
  <2> QED BY <1>0, <1>a, <2>6, TakenFraming
<1>6. CASE Next1.verb # "PARSEERR"
  <2> DEFINE v == Requoted(c.verb, Len(c.args), c.val)
  <2>1. c' = [x EXCEPT !.pc = "resolve",
                       !.args = SubSeq(@, 1, Len(c.args) - 1) \o <<v>> \o Next1.args]
        BY <1>6 DEF ReadArgRest
  <2>a. v \in PlainArgs BY <1>2, Zenon DEF RestNext, Requoted, PlainArgs
  <2> HIDE DEF x, v
  <2>2. /\ c'.pc = "resolve" /\ c'.args = Resumed(c.args, v, Next1.args)
        /\ c'.verb = c.verb /\ c'.gated = c.gated /\ c'.misparsed = c.misparsed
        BY <1>4, <2>1 DEF Resumed, ConnType
  <2>3. CommandRead(c', Tail(Ahead), Next1.wait)
        BY <1>0, <1>1, <1>2, <1>6, <1>a, <2>a, <2>2, PlaceRest
  <2>4. Settled(c', Tail(Ahead), Next1.wait)
        BY <1>0, <2>2, <2>3 DEF Settled, Place, LinePlaces
  <2> QED BY <1>0, <1>a, <2>4, TakenFraming
<1> QED BY <1>5, <1>6

\* The reads of a SASL response and of the line behind a content.
LEMMA ResponseFraming ==
  ASSUME Inv, Framing, ReadSaslResponse \/ ReadAuthLiteral \/ ReadScriptLiteral
  PROVE  Framing'
<1>a. /\ c.pc \in {"contline", "authcrlf", "scriptcrlf"} /\ ~BadLine(Next1)
      /\ buf # <<>> /\ buf' = Tail(buf) /\ ServerUnchanged
      BY DEF ReadSaslResponse, ReadAuthLiteral, ReadScriptLiteral, Takes
<1>0. /\ TypeOK /\ c \in ConnType /\ InStep /\ (c.misparsed => c.gated) /\ Serves(c, c)
      /\ WellFramed(Ahead) /\ Awaited /\ Place(c, Ahead, Blocked)
      BY <1>a, Finds DEF Over
<1>1. /\ Ahead \in Seq(Token) /\ Ahead # <<>> /\ Ahead[1] = Next1 /\ Next1 \in Token
      BY <1>0, <1>a, AheadTaken
<1> DEFINE x == SetReadDeadline(c, "none")
           v == Val(Next1)
<1>2. Serves(c, x) BY <1>0, ServesDeadline DEF Timers
<1>3. ASSUME ~Marked(Next1.args), Serves(c, c'), c'.pc \in {"session", "enforce"}
      PROVE  Framing'
  <2>1. BetweenCommands(c, Tail(Ahead), Next1.wait) BY <1>0, <1>1, <1>3, BehindUnmarked
  <2>2. Settled(c', Tail(Ahead), Next1.wait)
        BY <1>0, <1>3, <2>1, SettledServing DEF LinePlaces
  <2> QED BY <1>0, <1>a, <2>2, TakenFraming
<1>4. CASE ReadAuthLiteral \/ ReadScriptLiteral
  <2>1. c.pc \in {"authcrlf", "scriptcrlf"}
        BY <1>4 DEF ReadAuthLiteral, ReadScriptLiteral, Takes
  <2>2. ~Marked(Next1.args) BY <1>0, <1>1, <2>1 DEF Place
  <2>3. c' = AuthPayload(x, c.val) \/ c' = ScriptContent(x, c.val)
        BY <1>4 DEF ReadAuthLiteral, ReadScriptLiteral
  <2> HIDE DEF x
  <2>4. Serves(c, c') /\ c'.pc \in {"session", "enforce"} BY <1>2, <2>3, ServesPayload
  <2> QED BY <1>3, <2>2, <2>4
<1>5. CASE ReadSaslResponse
  <2>1. c.pc = "contline" BY <1>5 DEF ReadSaslResponse, Takes
  <2>2. Next1.k = "cont" BY <1>0, <1>1, <1>a, <2>1 DEF Place, Responses, BadLine
  <2>3. Shaped(Next1) BY <1>0, <1>1, SecondFollows
  <2>4. Next1.args \in Seq(PlainArgs \cup Literals) BY <1>1 DEF Token
  <2>5. Len(Next1.args) <= 1 BY <2>2, <2>3 DEF Shaped
  <2>6. Next1.args # <<>> => v = Next1.args[Len(Next1.args)] BY <2>4, <2>5 DEF Val
  <2>7. Next1.args = <<>> => v \notin Literals BY DEF Val, Literals
  <2>8. IF v = "*" THEN c' = Done(Write(Failed(x), "NO"))
        ELSE IF v \in Literals THEN c' \in StartAuthLiteral(x, v)
        ELSE c' = AuthPayload(x, v)
        BY <1>5 DEF ReadSaslResponse, Done
  <2>9. (Marked(Next1.args) <=> v \in Literals) /\ "*" \notin Literals
        BY <2>6, <2>7 DEF Marked, Literals
  <2> HIDE DEF x, v
  <2>10. CASE v \notin Literals
    <3>1. Serves(c, Write(Failed(x), "NO")) BY <1>2, ServesFailed, ServesWrite, SomeReplies
    <3>2. Serves(c, c') /\ c'.pc \in {"session", "enforce"}
          BY <1>2, <2>8, <2>10, <3>1, ServesDone, ServesPayload
    <3> QED BY <1>3, <2>9, <2>10, <3>2
  <2>11. CASE v \in Literals
    <3>1. c' \in StartAuthLiteral(x, v) BY <2>8, <2>9, <2>11
    <3>2. /\ Serves(c, c')
          /\ IF v \in Malformed \cup Oversized THEN c'.pc = "enforce" /\ c'.closePending
             ELSE c'.pc = "authbody"
          BY <1>2, <3>1, ServesAuthLiteral
    <3>3. CASE v \in Malformed \cup Oversized
      <4>1. Settled(c', Tail(Ahead), Next1.wait) BY <1>0, <3>2, <3>3, SettledServing
      <4> QED BY <1>0, <1>a, <4>1, TakenFraming
    <3>4. CASE v \notin Malformed \cup Oversized
      <4>1. Opened(Next1.args) BY <2>6, <2>9, <2>11, <3>4 DEF Opened, Marked
      <4>2. LiteralNext(Tail(Ahead)) /\ ~Marked(Tail(Ahead)[2].args)
            BY <1>0, <1>1, <2>2, <4>1, LiteralAhead
      <4>3. c'.pc = "authbody" /\ c'.gated = c.gated /\ c'.misparsed = c.misparsed
            BY <3>2, <3>4 DEF Serves
      <4>4. Settled(c', Tail(Ahead), Next1.wait)
            BY <1>0, <4>2, <4>3 DEF Settled, Place, LinePlaces
      <4> QED BY <1>0, <1>a, <4>4, TakenFraming
    <3> QED BY <3>3, <3>4
  <2> QED BY <2>10, <2>11
<1> QED BY <1>4, <1>5

\* What a handler finds.
LEMMA DispatchFinds ==
  ASSUME Inv, Framing, c.pc = "dispatch"
  PROVE  /\ c \in ConnType /\ InStep /\ (c.misparsed => c.gated)
         /\ Serves(c, Executing(c))
         /\ CommandRead(c, Ahead, Blocked)
         /\ Marked(c.args) => LiteralDeferred(c.verb, Len(c.args))
<1>1. /\ c \in ConnType /\ InStep /\ (c.misparsed => c.gated) /\ Serves(c, c)
      /\ Place(c, Ahead, Blocked)
      BY Finds DEF Over
<1> QED BY <1>1, ServesExecuting DEF Place

\* A handler that answers a command without a literal at its end.
LEMMA UnmarkedFraming ==
  ASSUME Inv, Framing, c.pc = "dispatch", ~Marked(c.args), UNCHANGED buf, ServerUnchanged,
         Serves(c, c'), c'.pc \in LinePlaces
  PROVE  Framing'
<1>0. InStep /\ (c.misparsed => c.gated) /\ CommandRead(c, Ahead, Blocked) BY DispatchFinds
<1>1. BetweenCommands(c, Ahead, Blocked) BY <1>0, PlaceUnmarked
<1>2. Settled(c', Ahead, Blocked) BY <1>0, <1>1, SettledServing
<1> QED BY <1>0, <1>2, QuietFraming

LEMMA AnswerFraming ==
  ASSUME Inv, Framing, \/ HandleCapabilityOrNoop \/ HandleLogout \/ UnknownHandled
                       \/ UnknownRejected \/ StartTLSRefused \/ StartTLSPipelined
                       \/ StartTLSBegins \/ HandleLogin \/ HandleScriptCommand
  PROVE  Framing'
<1> DEFINE x == Executing(c)
<1>a. /\ c.pc = "dispatch" /\ UNCHANGED buf /\ ServerUnchanged
      /\ c.verb \notin {"PUTSCRIPT", "CHECKSCRIPT", "AUTHENTICATE"}
      BY DEF HandleCapabilityOrNoop, HandleLogout, UnknownHandled, UnknownRejected, Unrecognised,
             StartTLSRefused, StartTLSPipelined, StartTLSBegins, StartTLSAccepted, HandleLogin,
             HandleScriptCommand, Dispatches, Quietly, KnownVerbs, ScriptVerbs, AuthVerbs,
             ContentVerbs
<1>b. ~Marked(c.args) BY <1>a, DispatchFinds DEF LiteralDeferred
<1>0. Serves(c, x) BY <1>a, DispatchFinds
<1> HIDE DEF x
<1>c. \A y : Serves(c, y) => y \in ConnType BY DEF Serves
<1>d. /\ Serves(c, Refused(x)) /\ Refused(x).pc = "enforce"
      /\ Serves(c, Done(QuotaMaxSize(x))) /\ Done(QuotaMaxSize(x)).pc = "enforce"
      /\ Serves(c, Goto(x, "session")) /\ Goto(x, "session").pc = "session"
      BY <1>0, ServesFailure, ServesDone, ServesGoto, SomePcs
<1>1. ASSUME NEW r \in Replies
      PROVE  Serves(c, Done(Write(x, r))) /\ Done(Write(x, r)).pc = "enforce"
      BY <1>0, ServesWrite, ServesDone
<1> SUFFICES Serves(c, c') /\ c'.pc \in {"enforce", "session", "handshake"}
    BY <1>a, <1>b, UnmarkedFraming DEF LinePlaces
<1>2. CASE HandleCapabilityOrNoop
      BY <1>1, <1>2, SomeReplies DEF HandleCapabilityOrNoop, x
<1>3. CASE HandleLogout
  <2>1. c' = AndQuit(Done(Write(x, "OK"))) BY <1>3 DEF HandleLogout, x
  <2> QED BY <1>1, <1>c, <2>1, SomeReplies, ServesQuit, KeepsPc
<1>4. CASE UnknownHandled
  <2>1. PICK close \in BOOLEAN : c' = [Done(Write(x, "EXT")) EXCEPT !.quit = close]
        BY <1>4 DEF UnknownHandled, x
  <2> QED BY <1>1, <1>c, <2>1, SomeReplies, ServesField, KeepsPc
<1>5. CASE UnknownRejected
  <2>1. c' = Refused(Failed(x)) BY <1>5 DEF UnknownRejected, x
  <2> QED BY <1>0, <2>1, ServesFailed, ServesDone
<1>6. CASE StartTLSRefused BY <1>6, <1>d DEF StartTLSRefused, x
<1>7. CASE StartTLSPipelined
  <2> DEFINE y == Done(Write(Failed(x), "NO"))
  <2>1. c' = AndQuit(y) BY <1>7 DEF StartTLSPipelined, x
  <2>2. Serves(c, Write(Failed(x), "NO")) BY <1>0, ServesFailed, ServesWrite, SomeReplies
  <2>3. Serves(c, y) /\ y.pc = "enforce" BY <2>2, ServesDone
  <2> HIDE DEF y
  <2> QED BY <1>c, <2>1, <2>3, ServesQuit, KeepsPc
<1>8. CASE StartTLSBegins
  <2>1. PICK f \in Flush(Write(x, "OK")) :
           IF f.wfail THEN c' = AndQuit(Done(f))
                      ELSE \E a \in Arm(f) : c' = Goto(a, "handshake")
        BY <1>8 DEF StartTLSBegins, x
  <2>2. Serves(c, f) BY <1>0, <2>1, ServesWrite, ServesFlush, SomeReplies
  <2>3. Serves(c, Done(f)) /\ Done(f).pc = "enforce" BY <2>2, ServesDone
  <2>4. Serves(c, AndQuit(Done(f))) /\ AndQuit(Done(f)).pc = "enforce"
        BY <1>c, <2>3, ServesQuit, KeepsPc
  <2>5. CASE f.wfail BY <2>1, <2>4, <2>5
  <2>6. CASE ~f.wfail
    <3>1. PICK a \in Arm(f) : c' = Goto(a, "handshake") BY <2>1, <2>6
    <3>2. Serves(c, a) BY <2>2, <3>1, ServesArm
    <3> QED BY <3>1, <3>2, ServesGoto, SomePcs
  <2> QED BY <2>5, <2>6
<1>9. CASE HandleLogin BY <1>9, <1>d DEF HandleLogin, x
<1>10. CASE HandleScriptCommand BY <1>10, <1>d DEF HandleScriptCommand, x
<1> QED BY <1>2, <1>3, <1>4, <1>5, <1>6, <1>7, <1>8, <1>9, <1>10

\* The gates in front of a command: a body that the client has committed
\* itself to is recorded as gated.
LEMMA GateFraming ==
  ASSUME Inv, Framing, AuthenticateRefused \/ NotAuthenticated
  PROVE  Framing'
<1> DEFINE x == Refused(Executing(c))
<1>a. /\ c.pc = "dispatch" /\ UNCHANGED buf /\ ServerUnchanged /\ c' = AbandonsBody(x)
      BY DEF AuthenticateRefused, NotAuthenticated, Dispatches, Quietly
<1>0. /\ c \in ConnType /\ InStep /\ (c.misparsed => c.gated) /\ Serves(c, Executing(c))
      /\ CommandRead(c, Ahead, Blocked)
      BY <1>a, DispatchFinds
<1>1. Serves(c, x) /\ x.pc = "enforce" BY <1>0, ServesDone
<1>2. x \in ConnType /\ x.gated = c.gated /\ x.misparsed = c.misparsed BY <1>1 DEF Serves
<1> HIDE DEF x
<1>3. /\ c'.pc = "enforce" /\ c'.misparsed = c.misparsed
      /\ c'.gated <=> (c.gated \/ CommitsBody)
      BY <1>1, <1>2, <1>a DEF AbandonsBody, ConnType
<1>4. ASSUME Ahead # <<>>, ~Blocked, Ahead[1].k = "body", Ahead[1].verb # "ROGUE"
      PROVE  CommitsBody
  <2>1. Marked(c.args) BY <1>0, <1>4 DEF CommandRead
  <2>2. c.args # <<>> /\ LastArg \in Literals BY <2>1, <1>0, ArgFacts
  <2>3. LastArg \in NonSync \/ c.verb = "AUTHENTICATE" BY <1>0, <1>4 DEF CommandRead, LastArg
  <2> QED BY <2>2, <2>3 DEF CommitsBody
<1>5. Ahead # <<>> /\ ~Blocked => Ahead[1].k # "cont" BY <1>0 DEF CommandRead
<1>6. BetweenCommands(c', Ahead, Blocked) BY <1>3, <1>4, <1>5 DEF BetweenCommands
<1>7. Settled(c', Ahead, Blocked) BY <1>0, <1>3, <1>6, PlaceBetween DEF Settled, LinePlaces
<1> QED BY <1>0, <1>7, <1>a, QuietFraming

\* The body of a content comes next.
LEMMA ContentFraming ==
  ASSUME Inv, Framing, c.pc = "dispatch", UNCHANGED buf, ServerUnchanged,
         Opened(c.args), LiteralDeferred(c.verb, Len(c.args)), Serves(c, c'),
         c'.pc \in {"authbody", "scriptbody"} \/ (c'.pc = "enforce" /\ c'.closePending)
  PROVE  Framing'
<1>0. /\ InStep /\ (c.misparsed => c.gated) /\ CommandRead(c, Ahead, Blocked)
      BY DispatchFinds
<1>1. LiteralNext(Ahead) /\ TrailerFits(c.verb, Len(c.args), Ahead, 2)
      BY <1>0 DEF CommandRead
<1>2. ~Marked(Ahead[2].args) BY <1>1 DEF TrailerFits
<1>3. c'.gated = c.gated /\ c'.misparsed = c.misparsed BY DEF Serves
<1>4. Settled(c', Ahead, Blocked)
      BY <1>0, <1>1, <1>2, <1>3 DEF Settled, Place, LinePlaces, Over
<1> QED BY <1>0, <1>4, QuietFraming

\* The argument that a handler takes the content from is the last one when it
\* is a literal, and otherwise no literal is at the end.
LEMMA ContentIsLast ==
  ASSUME Inv, Framing, c.pc = "dispatch", NEW n \in Nat, n > 0, n <= Len(c.args),
         n = Len(c.args) <=> LiteralDeferred(c.verb, Len(c.args))
  PROVE  /\ c.args[n] \in Literals => n = Len(c.args) /\ Marked(c.args)
         /\ c.args[n] \notin Literals => ~Marked(c.args)
<1>0. /\ c \in ConnType /\ CommandRead(c, Ahead, Blocked)
      /\ Marked(c.args) => LiteralDeferred(c.verb, Len(c.args))
      BY DispatchFinds
<1>1. c.args \in Seq(PlainArgs \cup Literals) /\ Len(c.args) \in Nat BY <1>0, ArgFacts
<1>2. c.args # <<>> BY <1>1
<1>3. n < Len(c.args) => c.args[n] \in PlainArgs BY <1>0, <1>1 DEF CommandRead, PlainButLast
<1>4. c.args[n] \in Literals => n = Len(c.args)
      BY <1>1, <1>3 DEF PlainArgs, Literals
<1> QED BY <1>0, <1>2, <1>4 DEF Marked

LEMMA AuthenticateFraming ==
  ASSUME Inv, Framing, AuthenticateInitialResponse \/ AuthenticateChallenge
  PROVE  Framing'
<1> DEFINE x == Executing(c)
<1>a. /\ c.pc = "dispatch" /\ UNCHANGED buf /\ ServerUnchanged /\ c.verb = "AUTHENTICATE"
      BY DEF AuthenticateInitialResponse, AuthenticateChallenge, AuthenticateAccepted,
             Dispatches, Quietly
<1>0. /\ c \in ConnType /\ InStep /\ (c.misparsed => c.gated) /\ Serves(c, x)
      /\ CommandRead(c, Ahead, Blocked)
      /\ Marked(c.args) => LiteralDeferred(c.verb, Len(c.args))
      BY <1>a, DispatchFinds
<1>b. Len(c.args) \in Nat BY <1>0, ArgFacts
<1> HIDE DEF x
<1>1. CASE AuthenticateInitialResponse
  <2>1. /\ Len(c.args) > 1
        /\ IF c.args[2] \in Literals THEN c' \in StartAuthLiteral(x, c.args[2])
           ELSE c' = AuthPayload(x, c.args[2])
        BY <1>1 DEF AuthenticateInitialResponse, x
  <2>2. 2 = Len(c.args) <=> LiteralDeferred(c.verb, Len(c.args)) BY <1>a DEF LiteralDeferred
  <2>3. 2 \in Nat /\ 2 > 0 /\ 2 <= Len(c.args) BY <1>b, <2>1
  <2>4. /\ c.args[2] \in Literals => 2 = Len(c.args) /\ Marked(c.args)
        /\ c.args[2] \notin Literals => ~Marked(c.args)
        BY <1>a, <2>2, <2>3, ContentIsLast
  <2>5. CASE c.args[2] \notin Literals
    <3>1. Serves(c, c') /\ c'.pc \in {"session", "enforce"}
          BY <1>0, <2>1, <2>5, ServesPayload
    <3> QED BY <1>a, <2>4, <2>5, <3>1, UnmarkedFraming DEF LinePlaces
  <2>6. CASE c.args[2] \in Literals
    <3>1. /\ Serves(c, c')
          /\ IF c.args[2] \in Malformed \cup Oversized THEN c'.pc = "enforce" /\ c'.closePending
             ELSE c'.pc = "authbody"
          BY <1>0, <2>1, <2>6, ServesAuthLiteral
    <3>2. CASE c.args[2] \in Malformed \cup Oversized
      <4>1. Settled(c', Ahead, Blocked) BY <1>0, <3>1, <3>2, SettledServing
      <4> QED BY <1>0, <1>a, <4>1, QuietFraming
    <3>3. CASE c.args[2] \notin Malformed \cup Oversized
      <4>1. Opened(c.args) BY <2>4, <2>6, <3>3 DEF Opened
      <4> QED BY <1>a, <2>2, <2>4, <2>6, <3>1, <3>3, <4>1, ContentFraming
    <3> QED BY <3>2, <3>3
  <2> QED BY <2>5, <2>6
<1>2. CASE AuthenticateChallenge
  <2>1. Len(c.args) = 1 BY <1>2 DEF AuthenticateChallenge
  <2>2. PICK f \in Flush(Write(x, "CHALLENGE")) :
           IF f.wfail THEN c' = Done(MustClose(f, TRUE))
                      ELSE \E a \in Arm(f) : c' = Goto(a, "contline")
        BY <1>2 DEF AuthenticateChallenge, x
  <2>3. Serves(c, f) BY <1>0, <2>2, ServesWrite, ServesFlush, SomeReplies
  <2>4. ~Marked(c.args) BY <1>0, <1>a, <2>1 DEF LiteralDeferred
  <2>5. CASE f.wfail
    <3>1. c' = Goto(MustClose(f, TRUE), "enforce") BY <2>2, <2>5 DEF Done
    <3>2. Serves(c, c') /\ c'.pc = "enforce" BY <2>3, <3>1, ServesClosing
    <3> QED BY <1>a, <2>4, <3>2, UnmarkedFraming DEF LinePlaces
  <2>6. CASE ~f.wfail
    <3>1. PICK a \in Arm(f) : c' = Goto(a, "contline") BY <2>2, <2>6
    <3>2. "contline" \in Pcs BY DEF Pcs, ReadPcs, LinePcs
    <3>3. Serves(c, a) BY <2>3, <3>1, ServesArm
    <3>4. Serves(c, c') /\ c'.pc = "contline" BY <3>1, <3>2, <3>3, ServesGoto
    <3>5. c'.gated = c.gated /\ c'.misparsed = c.misparsed BY <3>4 DEF Serves
    <3>6. /\ Blocked
          /\ Ahead # <<>> => Ahead[1].k \in Responses
          BY <1>0, <1>a, <2>1, <2>4 DEF CommandRead
    <3>7. Place(c', Ahead, Blocked) BY <3>4, <3>6 DEF Place, LinePlaces
    <3> QED BY <1>0, <1>a, <3>5, <3>7, QuietFraming DEF Settled
  <2> QED BY <2>5, <2>6
<1> QED BY <1>1, <1>2

LEMMA ScriptContentFraming == ASSUME Inv, Framing, HandleScriptContent PROVE Framing'
<1> DEFINE x == Executing(c)
           n == MinArgs[c.verb]
           b1 == ContentArg \in NonSync
           b2 == ContentArg \in NonSync \/ buf # <<>>
<1>a. /\ c.pc = "dispatch" /\ UNCHANGED buf /\ ServerUnchanged /\ c.verb \in ContentVerbs
      BY DEF HandleScriptContent, Dispatches, Quietly
<1>0. /\ c \in ConnType /\ InStep /\ (c.misparsed => c.gated) /\ Serves(c, x)
      /\ CommandRead(c, Ahead, Blocked)
      /\ Marked(c.args) => LiteralDeferred(c.verb, Len(c.args))
      BY <1>a, DispatchFinds
<1>b. Len(c.args) \in Nat BY <1>0, ArgFacts
<1>1. /\ c.verb # "AUTHENTICATE" /\ n \in {1, 2}
      /\ n = Len(c.args) <=> LiteralDeferred(c.verb, Len(c.args))
  <2>1. c.verb = "PUTSCRIPT" \/ c.verb = "CHECKSCRIPT" BY <1>a DEF ContentVerbs
  <2>2. MinArgs["PUTSCRIPT"] = 2 /\ MinArgs["CHECKSCRIPT"] = 1 BY DEF MinArgs
  <2> QED BY <1>b, <2>1, <2>2 DEF LiteralDeferred
<1>2. b1 \in BOOLEAN /\ b2 \in BOOLEAN /\ (~b1 => ContentArg \notin NonSync)
      /\ (~b2 => ContentArg \notin NonSync)
      OBVIOUS
<1>3. IF Len(c.args) < n THEN c' = Refused(x)
      ELSE IF ContentArg \notin Literals THEN c' = ScriptContent(x, ContentArg)
      ELSE IF ContentArg \in Malformed THEN c' = MustClose(Refused(x), b1)
      ELSE IF ContentArg \in Oversized THEN c' = MustClose(Done(QuotaMaxSize(x)), b2)
      ELSE c' \in StartLiteral(x, ContentArg, "scriptbody")
      BY Zenon DEF HandleScriptContent
<1> HIDE DEF x, b1, b2
<1>4. /\ Serves(c, Refused(x)) /\ Refused(x).pc = "enforce"
      /\ Serves(c, Done(QuotaMaxSize(x))) /\ Done(QuotaMaxSize(x)).pc = "enforce"
      BY <1>0, ServesFailure, ServesDone
<1>5. CASE Len(c.args) < n
  <2>1. ~Marked(c.args) BY <1>0, <1>1, <1>5, <1>b
  <2> QED BY <1>3, <1>4, <1>5, <1>a, <2>1, UnmarkedFraming DEF LinePlaces
<1>6. CASE ~(Len(c.args) < n)
  <2>1. n \in Nat /\ n > 0 /\ n <= Len(c.args) BY <1>1, <1>6, <1>b
  <2>2. ContentArg = c.args[n] BY DEF ContentArg
  <2> HIDE DEF n
  <2>3. /\ ContentArg \in Literals => n = Len(c.args) /\ Marked(c.args)
        /\ ContentArg \notin Literals => ~Marked(c.args)
        BY <1>1, <1>a, <2>1, <2>2, ContentIsLast
  <2>4. CASE ContentArg \notin Literals
    <3>1. Serves(c, c') /\ c'.pc \in {"session", "enforce"}
          BY <1>0, <1>3, <1>6, <2>4, ServesPayload
    <3> QED BY <1>a, <2>3, <2>4, <3>1, UnmarkedFraming DEF LinePlaces
  <2>5. CASE ContentArg \in Literals /\ ContentArg \in Malformed \cup Oversized
    <3>1. ASSUME NEW y, NEW b \in BOOLEAN, Serves(c, y), y.pc = "enforce",
                 c' = MustClose(y, b), ~b => ContentArg \notin NonSync
          PROVE  Framing'
      <4>1. y \in ConnType BY <3>1 DEF Serves
      <4>2. Serves(c, c') /\ c'.pc = "enforce" /\ (b => c'.closePending)
            BY <3>1, <4>1, ServesMustClose, KeepsPc
      <4>3. ~b => BetweenCommands(c, Ahead, Blocked)
            BY <1>0, <1>1, <2>2, <2>3, <2>5, <3>1, PlaceRefused
      <4>4. Settled(c', Ahead, Blocked)
            BY <1>0, <4>2, <4>3, SettledServing DEF LinePlaces
      <4> QED BY <1>0, <1>a, <4>4, QuietFraming
    <3>2. CASE c' = MustClose(Refused(x), b1) BY <1>2, <1>4, <3>1, <3>2
    <3>3. CASE c' = MustClose(Done(QuotaMaxSize(x)), b2) BY <1>2, <1>4, <3>1, <3>3
    <3> QED BY <1>3, <1>6, <2>5, <3>2, <3>3
  <2>6. CASE ContentArg \in Literals /\ ContentArg \notin Malformed \cup Oversized
    <3>1. c' \in StartLiteral(x, ContentArg, "scriptbody") BY <1>3, <1>6, <2>6
    <3>2. "scriptbody" \in ReadPcs BY DEF ReadPcs, BodyPcs
    <3>3. /\ Serves(c, c')
          /\ c'.pc = "scriptbody" \/ (c'.pc = "enforce" /\ c'.closePending)
          BY <1>0, <3>1, <3>2, ServesStartLiteral
    <3>4. Opened(c.args) BY <2>2, <2>3, <2>6 DEF Opened
    <3> QED BY <1>1, <1>a, <2>3, <2>6, <3>3, <3>4, ContentFraming
  <2> QED BY <2>4, <2>5, <2>6
<1> QED BY <1>5, <1>6

-----------------------------------------------------------------------------
(***************************************************************************)
(* Framing: time, the shutdown, and connections that are over.             *)
(***************************************************************************)
\* A connection that differs in nothing that matters here is in the same place.
LEMMA SamePlace ==
  ASSUME NEW x, NEW y, NEW s, NEW b, Place(x, s, b), y.pc = x.pc, y.verb = x.verb,
         y.args = x.args, y.val = x.val, y.gated = x.gated
  PROVE  Place(y, s, b)
<1>1. BetweenCommands(x, s, b) => BetweenCommands(y, s, b) BY DEF BetweenCommands
<1>2. CommandRead(x, s, b) => CommandRead(y, s, b) BY DEF CommandRead
<1>3. ArgumentNext(x, s) => ArgumentNext(y, s) BY DEF ArgumentNext
<1>4. RestNext(x, s) => RestNext(y, s) BY DEF RestNext
<1> QED BY <1>1, <1>2, <1>3, <1>4 DEF Place

LEMMA EnvFraming == ASSUME Inv, Framing, EnvStep PROVE Framing'
<1>0. c \in ConnType BY DEF Inv, TypeOK
<1>1. UNCHANGED <<buf, net, todo, waiting>>
      BY DEF EnvStep, ClockTicks, ContextExpires, DeadlineExpires, ServerCancels,
             ForceReadUnblock, EnvOnly, clientVars
<1>2. /\ c'.pc = c.pc /\ c'.verb = c.verb /\ c'.args = c.args /\ c'.val = c.val
      /\ c'.gated = c.gated /\ c'.misparsed = c.misparsed /\ c'.closePending = c.closePending
  <2>1. CASE DeadlineExpires \/ ForceReadUnblock
        BY <1>0, <2>1 DEF DeadlineExpires, ForceReadUnblock, ConnType
  <2>2. CASE UNCHANGED c BY <2>2
  <2> QED BY <2>1, <2>2 DEF EnvStep, ClockTicks, ContextExpires, ServerCancels
<1>3. Unread' = Unread /\ UNCHANGED <<todo, waiting>> BY <1>1 DEF Unread
<1>4. Ahead' = Ahead /\ Blocked' = Blocked /\ (Awaited => Awaited') BY <1>3, AheadStays
<1>5. Place(c, Ahead, Blocked) => Place(c', Ahead, Blocked) BY <1>2, SamePlace
<1> QED BY <1>2, <1>4, <1>5 DEF Framing, InStep, Over

\* The steps of the server, but for the enforcement, are those of a connection
\* that is not over.
LEMMA ServerOpen ==
  ASSUME \/ ReadStep \/ HandlerStep \/ HandshakeSucceeds \/ HandshakeFails \/ HandshakeAborts
         \/ SessionReturns \/ CallbackPanics \/ (LoopStep /\ ~Enforce)
  PROVE  ~Over(c)
<1>1. CASE ReadStep
  <2>1. c.pc \in ReadPcs
        BY <1>1 DEF ReadStep, Fill, CommandReadFails, RejectLine, SkipBlankLine, ParseLineFails,
           AcceptLine, ReadBody, CommandCut, TrailerRejected, ReadArgRest, ReadSaslResponse,
           ReadAuthLiteral, ReadScriptLiteral, Takes, ReadPcs, LinePcs, BodyPcs
  <2> QED BY <2>1 DEF Over, ReadPcs, LinePcs, BodyPcs
<1>2. CASE HandlerStep
  <2>1. c.pc = "dispatch"
        BY <1>2 DEF HandlerStep, HandleCapabilityOrNoop, HandleLogout, UnknownHandled,
           UnknownRejected, AuthenticateRefused, AuthenticateInitialResponse,
           AuthenticateChallenge, AuthenticateAccepted, HandleLogin, StartTLSRefused,
           StartTLSPipelined, StartTLSBegins, StartTLSAccepted, NotAuthenticated,
           HandleScriptCommand, HandleScriptContent, Dispatches
  <2> QED BY <2>1 DEF Over
<1>3. CASE HandshakeSucceeds \/ HandshakeFails \/ HandshakeAborts \/ SessionReturns
              \/ CallbackPanics
  <2>1. c.pc \in {"handshake", "session", "dispatch"}
        BY <1>3 DEF HandshakeSucceeds, HandshakeFails, HandshakeAborts, SessionReturns,
           SessionSucceeds, SessionFails, SessionHijacks, CallbackPanics
  <2> QED BY <2>1 DEF Over
<1>4. CASE LoopStep /\ ~Enforce
  <2>1. c.pc \in {"greet", "top", "arm", "resolve"}
        BY <1>4 DEF LoopStep, Greet, CheckContext, ArmCommandRead, ArgsResolved,
           RejectArgLiteral, BeginArgLiteral
  <2> QED BY <2>1 DEF Over
<1> QED BY <1>1, <1>2, <1>3, <1>4

-----------------------------------------------------------------------------
(***************************************************************************)
(* Framing: the client.                                                    *)
(***************************************************************************)
LEMMA LiteralProlonged ==
  ASSUME NEW s \in Seq(Token), NEW t \in Seq(Token), Prolongs(s, t), WellFramed(s)
  PROVE  /\ s # <<>> => Alike(s[1], t[1])
         /\ LiteralNext(s) => LiteralNext(t) /\ Alike(s[2], t[2])
         /\ \A v, n : \A i \in 1 .. Len(s) : TrailerFits(v, n, s, i) => TrailerFits(v, n, t, i)
<1>0. /\ Len(s) \in Nat /\ Len(t) \in Nat /\ Len(s) <= Len(t)
      /\ \A i \in 1 .. Len(s) : Alike(s[i], t[i])
      BY DEF Prolongs
<1>1. s # <<>> => Alike(s[1], t[1])
  <2>1. s # <<>> => 1 \in 1 .. Len(s) OBVIOUS
  <2> QED BY <1>0, <2>1
<1>2. ASSUME LiteralNext(s) PROVE LiteralNext(t) /\ Alike(s[2], t[2])
  <2>1. Len(s) >= 2 /\ s[1].k = "body" /\ s[2].k \in Trailers BY <1>2 DEF LiteralNext
  <2>2. 1 \in 1 .. Len(s) /\ 2 \in 1 .. Len(s) /\ Len(t) >= 2 BY <1>0, <2>1
  <2>3. Alike(s[1], t[1]) /\ Alike(s[2], t[2]) BY <1>0, <2>2
  <2> QED BY <2>1, <2>2, <2>3 DEF LiteralNext, Alike
<1>3. ASSUME NEW v, NEW n, NEW i \in 1 .. Len(s), TrailerFits(v, n, s, i)
      PROVE  TrailerFits(v, n, t, i)
  <2>1. Alike(s[i], t[i]) BY <1>0
  <2>2. Opened(s[i].args) => Alike(s[i + 2], t[i + 2])
    <3>1. SUFFICES ASSUME Opened(s[i].args) PROVE Alike(s[i + 2], t[i + 2]) OBVIOUS
    <3>2. i + 2 <= Len(s) BY <3>1 DEF WellFramed, Framed
    <3>3. i + 2 \in 1 .. Len(s) BY <1>0, <3>2
    <3> QED BY <1>0, <3>3
  <2> QED BY <1>3, <2>1, <2>2, TrailerMoves
<1> QED BY <1>1, <1>2, <1>3

\* What the client sends next leaves the connection where it is: more of its
\* command, or a new command behind everything it has committed itself to.
LEMMA PlaceProlonged ==
  ASSUME NEW s \in Seq(Token), NEW t \in Seq(Token), Prolongs(s, t), WellFramed(s), t # <<>>,
         NEW x \in ConnType, NEW b \in BOOLEAN, Place(x, s, b),
         b => s # <<>> /\ x.pc \in {"argbody", "scriptbody", "contline"}
  PROVE  Place(x, t, FALSE)
<1>0. Len(s) \in Nat /\ Len(t) \in Nat /\ Len(s) <= Len(t) BY DEF Prolongs
<1>1. /\ s # <<>> => t[1].k = s[1].k /\ t[1].verb = s[1].verb /\ t[1].args = s[1].args
      /\ s = <<>> => t[1].k \in Starts
  <2>1. s = <<>> => Len(s) = 0 /\ Len(s) < Len(t) BY <1>0
  <2> QED BY <2>1, LiteralProlonged DEF Prolongs, Alike
<1>2. /\ LiteralNext(s) => LiteralNext(t) /\ t[2].args = s[2].args
      /\ \A v, n : LiteralNext(s) /\ TrailerFits(v, n, s, 2) => TrailerFits(v, n, t, 2)
      /\ \A v, n : s # <<>> /\ TrailerFits(v, n, s, 1) => TrailerFits(v, n, t, 1)
  <2>1. LiteralNext(s) => 2 \in 1 .. Len(s) BY <1>0 DEF LiteralNext
  <2>2. s # <<>> => 1 \in 1 .. Len(s) OBVIOUS
  <2> QED BY <2>1, <2>2, LiteralProlonged DEF Alike
<1>3. x.pc \in LinePlaces => BetweenCommands(x, t, FALSE)
  <2>1. SUFFICES ASSUME x.pc \in LinePlaces PROVE BetweenCommands(x, t, FALSE) OBVIOUS
  <2>2. BetweenCommands(x, s, b) /\ ~b BY <2>1 DEF Place, LinePlaces
  <2> QED BY <1>1, <2>2 DEF BetweenCommands, Starts
<1>4. x.pc \in {"resolve", "dispatch"} => CommandRead(x, t, FALSE)
  <2>1. SUFFICES ASSUME x.pc \in {"resolve", "dispatch"} PROVE CommandRead(x, t, FALSE)
        OBVIOUS
  <2>2. CommandRead(x, s, b) /\ ~b BY <2>1 DEF Place
  <2> QED BY <1>1, <1>2, <2>2 DEF CommandRead, Starts
<1>5. x.pc = "argbody" => ArgumentNext(x, t) BY <1>2 DEF Place, ArgumentNext
<1>6. x.pc = "argrest" => RestNext(x, t) BY <1>1, <1>2 DEF Place, RestNext
<1>7. x.pc = "contline" => t[1].k \in Responses
  <2>1. x.pc = "contline" => s # <<>> BY DEF Place
  <2> QED BY <1>1, <2>1 DEF Place
<1>8. x.pc \in {"authbody", "scriptbody"} => LiteralNext(t) /\ ~Marked(t[2].args)
      BY <1>2 DEF Place
<1>9. x.pc \in {"authcrlf", "scriptcrlf"} => t[1].k \in Trailers /\ ~Marked(t[1].args)
      BY <1>1 DEF Place
<1>10. x.pc = "dispatch" /\ Marked(x.args) => LiteralDeferred(x.verb, Len(x.args))
      BY DEF Place
<1> QED BY <1>3, <1>4, <1>5, <1>6, <1>7, <1>8, <1>9, <1>10 DEF Place

\* The head of m is sent behind p, as u.
LEMMA SentAlike ==
  ASSUME NEW p \in Seq(Token), NEW m \in Seq(Token), m # <<>>, NEW u \in Token, Alike(m[1], u)
  PROVE  LET s == p \o m
             t == Append(p, u) \o Tail(m)
         IN  /\ s \in Seq(Token) /\ t \in Seq(Token) /\ t # <<>>
             /\ Len(s) = Len(p) + Len(m) /\ Len(t) = Len(p) + Len(m)
             /\ \A i \in 1 .. Len(s) : Alike(s[i], t[i])
<1> DEFINE q == Append(p, u)
           r == Tail(m)
           s == p \o m
           t == q \o r
<1>1. Len(p) \in Nat /\ Len(m) \in Nat /\ Len(m) > 0 OBVIOUS
<1>2. /\ q \in Seq(Token) /\ Len(q) = Len(p) + 1 /\ q[Len(p) + 1] = u
      /\ \A i \in 1 .. Len(p) : q[i] = p[i]
      BY <1>1
<1>3. /\ r \in Seq(Token) /\ Len(r) = Len(m) - 1
      /\ \A i \in 1 .. Len(m) - 1 : r[i] = m[i + 1]
      BY <1>1
<1> HIDE DEF q, r
<1>4. /\ s \in Seq(Token) /\ Len(s) = Len(p) + Len(m)
      /\ \A i \in 1 .. Len(p) : s[i] = p[i]
      /\ \A i \in Len(p) + 1 .. Len(p) + Len(m) : s[i] = m[i - Len(p)]
      BY ConcatSpec
<1>5. /\ t \in Seq(Token) /\ Len(t) = Len(q) + Len(r)
      /\ \A i \in 1 .. Len(q) : t[i] = q[i]
      /\ \A i \in Len(q) + 1 .. Len(q) + Len(r) : t[i] = r[i - Len(q)]
      BY <1>2, <1>3, ConcatSpec
<1> HIDE DEF s, t
<1>6. Len(t) = Len(p) + Len(m) BY <1>1, <1>2, <1>3, <1>5
<1>7. t # <<>>
  <2>1. Len(t) >= 1 BY <1>1, <1>6
  <2> QED BY <1>5, <2>1, NotEmpty
<1>8. ASSUME NEW i \in 1 .. Len(s) PROVE Alike(s[i], t[i])
  <2>1. CASE i <= Len(p)
    <3>1. i \in 1 .. Len(p) /\ i \in 1 .. Len(q) BY <1>1, <1>2, <1>4, <2>1
    <3>2. s[i] = p[i] /\ t[i] = p[i] BY <1>2, <1>4, <1>5, <3>1
    <3> QED BY <3>2 DEF Alike
  <2>2. CASE i = Len(p) + 1
    <3>1. i \in 1 .. Len(q) /\ i \in Len(p) + 1 .. Len(p) + Len(m) /\ i - Len(p) = 1
          BY <1>1, <1>2, <2>2
    <3>2. t[i] = u BY <1>2, <1>5, <2>2, <3>1
    <3>3. s[i] = m[1] BY <1>4, <3>1
    <3> QED BY <3>2, <3>3
  <2>3. CASE i > Len(p) + 1
    <3>1. /\ i \in Len(q) + 1 .. Len(q) + Len(r) /\ i \in Len(p) + 1 .. Len(p) + Len(m)
          /\ i - Len(q) \in 1 .. Len(m) - 1 /\ (i - Len(q)) + 1 = i - Len(p)
          BY <1>1, <1>2, <1>3, <1>4, <2>3
    <3>2. t[i] = r[i - Len(q)] /\ s[i] = m[i - Len(p)] BY <1>4, <1>5, <3>1
    <3>3. r[i - Len(q)] = m[(i - Len(q)) + 1] BY <1>3, <3>1
    <3>4. t[i] = s[i] BY <3>1, <3>2, <3>3
    <3> QED BY <3>4 DEF Alike
  <2>4. i \in Int BY <1>1, <1>4
  <2>5. i <= Len(p) \/ i = Len(p) + 1 \/ i > Len(p) + 1 BY <1>1, <2>4
  <2> QED BY <2>1, <2>2, <2>3, <2>5
<1> QED BY <1>4, <1>5, <1>6, <1>7, <1>8 DEF s, t, q, r

\* What is framed stays so behind another stream.
LEMMA FramedShifted ==
  ASSUME NEW p \in Seq(Token), NEW m \in Seq(Token), WellFramed(m), NEW j \in 1 .. Len(m)
  PROVE  Framed(p \o m, Len(p) + j)
<1> DEFINE s == p \o m
           n == Len(p)
           i == n + j
<1>0. n \in Nat /\ Len(m) \in Nat /\ j \in Nat OBVIOUS
<1>1. /\ s \in Seq(Token) /\ Len(s) = n + Len(m)
      /\ \A l \in n + 1 .. n + Len(m) : s[l] = m[l - n]
      BY ConcatSpec
<1> HIDE DEF s, n
<1>2. ASSUME NEW l \in 1 .. Len(m) PROVE s[n + l] = m[l]
  <2>1. n + l \in n + 1 .. n + Len(m) /\ (n + l) - n = l BY <1>0
  <2> QED BY <1>1, <2>1
<1>3. Framed(m, j) /\ s[i] = m[j] BY <1>2 DEF WellFramed
<1>4. ASSUME i < Len(s) PROVE Follows(s[i], s[i + 1])
  <2>1. j < Len(m) /\ j + 1 \in 1 .. Len(m) /\ i + 1 = n + (j + 1) BY <1>0, <1>1, <1>4
  <2>2. s[n + (j + 1)] = m[j + 1] BY <1>2, <2>1
  <2> HIDE DEF i
  <2> QED BY <1>3, <2>1, <2>2 DEF Framed
<1>5. ASSUME Opened(s[i].args)
      PROVE  /\ i + 2 <= Len(s) /\ s[i + 1].k = "body" /\ s[i + 2].k \in Trailers
             /\ s[i].k = "line" => TrailerFits(s[i].verb, Len(s[i].args), s, i + 2)
             /\ s[i].k = "cont" => ~Marked(s[i + 2].args)
  <2>1. /\ j + 2 <= Len(m) /\ m[j + 1].k = "body" /\ m[j + 2].k \in Trailers
        /\ s[i].k = "line" => TrailerFits(s[i].verb, Len(s[i].args), m, j + 2)
        /\ s[i].k = "cont" => ~Marked(m[j + 2].args)
        BY <1>3, <1>5 DEF Framed
  <2>2. /\ j + 1 \in 1 .. Len(m) /\ j + 2 \in 1 .. Len(m) /\ i + 2 <= Len(s)
        /\ i + 1 = n + (j + 1) /\ i + 2 = n + (j + 2)
    <3>1. j + 2 <= Len(m) /\ Len(s) = n + Len(m) BY <1>1, <2>1
    <3> QED BY <1>0, <3>1
  <2>3. s[i + 1] = m[j + 1] /\ s[i + 2] = m[j + 2]
    <3>1. s[n + (j + 1)] = m[j + 1] /\ s[n + (j + 2)] = m[j + 2] BY <1>2, <2>2
    <3> HIDE DEF i
    <3> QED BY <2>2, <3>1
  <2>4. Opened(m[j + 2].args) => s[(i + 2) + 2] = m[(j + 2) + 2]
    <3>1. SUFFICES ASSUME Opened(m[j + 2].args) PROVE s[(i + 2) + 2] = m[(j + 2) + 2]
          OBVIOUS
    <3>2. (j + 2) + 2 <= Len(m) BY <2>2, <3>1 DEF WellFramed, Framed
    <3>3. (j + 2) + 2 \in 1 .. Len(m) /\ (i + 2) + 2 = n + ((j + 2) + 2) BY <1>0, <3>2
    <3>4. s[n + ((j + 2) + 2)] = m[(j + 2) + 2] BY <1>2, <3>3
    <3> HIDE DEF i
    <3> QED BY <3>3, <3>4
  <2>5. s[i].k = "line" => TrailerFits(s[i].verb, Len(s[i].args), s, i + 2)
    <3> HIDE DEF i
    <3> QED BY <2>1, <2>3, <2>4, TrailerMoves DEF Alike
  <2> HIDE DEF i
  <2> QED BY <2>1, <2>2, <2>3, <2>5
<1>6. s[i].k = "line" /\ s[i].verb = "AUTHENTICATE" /\ Len(s[i].args) = 1 /\ ~Marked(s[i].args)
        => s[i].wait
      BY <1>3 DEF Framed
<1>7. Shaped(s[i]) BY <1>3 DEF Framed
<1>8. Framed(s, i)
  <2> HIDE DEF i
  <2> QED BY <1>4, <1>5, <1>6, <1>7 DEF Framed
<1> QED BY <1>8 DEF s, n

\* A stream whose client does not wait, and a command behind it.
LEMMA CommandBehind ==
  ASSUME NEW p \in Seq(Token), WellFramed(p), NEW m \in Seq(Token), m # <<>>, WellFramed(m),
         m[1].k \in Starts, \A i \in 1 .. Len(p) : ~p[i].wait
  PROVE  WellFramed(p \o m) /\ Prolongs(p, p \o m)
<1> DEFINE s == p \o m
<1>0. Len(p) \in Nat /\ Len(m) \in Nat /\ Len(m) > 0 OBVIOUS
<1>1. /\ s \in Seq(Token) /\ Len(s) = Len(p) + Len(m)
      /\ \A i \in 1 .. Len(p) : s[i] = p[i]
      /\ \A i \in Len(p) + 1 .. Len(p) + Len(m) : s[i] = m[i - Len(p)]
      BY ConcatSpec
<1>a. \A j \in 1 .. Len(m) : Framed(s, Len(p) + j) BY FramedShifted
<1> HIDE DEF s
<1>2. Prolongs(p, s)
  <2>1. Len(p) + 1 \in Len(p) + 1 .. Len(p) + Len(m) /\ (Len(p) + 1) - Len(p) = 1 BY <1>0
  <2>2. s[Len(p) + 1] = m[1] BY <1>1, <2>1
  <2>3. Len(p) <= Len(s) BY <1>0, <1>1
  <2> QED BY <1>1, <2>2, <2>3 DEF Prolongs, Alike
<1>3. ASSUME NEW i \in 1 .. Len(s) PROVE Framed(s, i)
  <2>1. CASE i <= Len(p)
    <3>1. i \in 1 .. Len(p) BY <1>0, <1>1, <2>1
    <3> QED BY <1>1, <1>2, <3>1, FramedProlonged
  <2>2. CASE ~(i <= Len(p))
    <3>1. i - Len(p) \in 1 .. Len(m) /\ Len(p) + (i - Len(p)) = i BY <1>0, <1>1, <2>2
    <3>2. Framed(s, Len(p) + (i - Len(p))) BY <1>a, <3>1
    <3> QED BY <3>1, <3>2
  <2> QED BY <2>1, <2>2
<1> QED BY <1>2, <1>3 DEF WellFramed, s

\* The client sends the head of m behind the unread stream.
LEMMA SendsBehind ==
  ASSUME TypeOK, NEW m \in Seq(Token), m # <<>>, Sends(Head(m)), todo' = Tail(m), UNCHANGED buf
  PROVE  LET s == Unread \o m
         IN  /\ s \in Seq(Token) /\ Ahead' \in Seq(Token) /\ Ahead' # <<>>
             /\ Len(Ahead') = Len(s) /\ \A i \in 1 .. Len(s) : Alike(s[i], Ahead'[i])
             /\ Blocked' = FALSE
             /\ (\A i \in 1 .. Len(Unread) : ~Unread[i].wait) => Awaited'
<1> DEFINE u == Head(m)
<1>0. buf \in Seq(Token) /\ net \in Seq(Token) /\ Unread \in Seq(Token) BY AheadTypes
<1>1. u = m[1] /\ u \in Token OBVIOUS
<1>2. net' = Append(net, u) /\ waiting' = u.wait BY DEF Sends
<1> HIDE DEF u
<1>3. Alike(m[1], u) BY <1>1 DEF Alike
<1>4. Unread' = Append(Unread, u)
  <2>1. <<u>> \in Seq(Token) BY <1>1
  <2>2. Append(net, u) = net \o <<u>> BY <1>0, <1>1, AppendIsConcat
  <2>3. buf \o (net \o <<u>>) = (buf \o net) \o <<u>> BY <1>0, <2>1, ConcatAssociative
  <2>4. (buf \o net) \o <<u>> = Append(buf \o net, u) BY <1>0, <1>1, AppendIsConcat DEF Unread
  <2> QED BY <1>2, <2>2, <2>3, <2>4 DEF Unread
<1>5. Ahead' = Append(Unread, u) \o Tail(m) BY <1>4 DEF Ahead
<1>6. /\ Unread' \in Seq(Token) /\ Len(Unread') = Len(Unread) + 1 /\ Len(Unread) \in Nat
      /\ Unread'[Len(Unread) + 1] = u
      /\ \A i \in 1 .. Len(Unread) : Unread'[i] = Unread[i]
      BY <1>0, <1>1, <1>4
<1>7. Blocked' = FALSE
  <2>1. Unread' # <<>> BY <1>6
  <2> QED BY <2>1 DEF Blocked
<1>8. ASSUME \A i \in 1 .. Len(Unread) : ~Unread[i].wait PROVE Awaited'
  <2>1. ASSUME NEW i \in 1 .. Len(Unread')
        PROVE  Unread'[i].wait <=> (waiting' /\ i = Len(Unread'))
    <3>1. CASE i = Len(Unread) + 1
      <4>1. Unread'[i].wait = u.wait BY <1>6, <3>1
      <4> QED BY <1>2, <1>6, <3>1, <4>1
    <3>2. CASE i # Len(Unread) + 1
      <4>1. i \in 1 .. Len(Unread) /\ i # Len(Unread') BY <1>6, <3>2
      <4> QED BY <1>8, <1>6, <4>1
    <3> QED BY <3>1, <3>2
  <2> QED BY <2>1 DEF Awaited
<1>a. u \in Token BY <1>1
<1>9. /\ Unread \o m \in Seq(Token) /\ Ahead' \in Seq(Token) /\ Ahead' # <<>>
       /\ Len(Ahead') = Len(Unread \o m)
       /\ \A i \in 1 .. Len(Unread \o m) : Alike((Unread \o m)[i], Ahead'[i])
  <2> DEFINE t == Append(Unread, u) \o Tail(m)
  <2>1. /\ Unread \o m \in Seq(Token) /\ t \in Seq(Token) /\ t # <<>>
        /\ Len(Unread \o m) = Len(Unread) + Len(m) /\ Len(t) = Len(Unread) + Len(m)
        /\ \A i \in 1 .. Len(Unread \o m) : Alike((Unread \o m)[i], t[i])
        BY <1>0, <1>a, <1>3, SentAlike
  <2>2. Ahead' = t BY <1>5
  <2> HIDE DEF t
  <2> QED BY <2>1, <2>2
<1> QED BY <1>7, <1>8, <1>9

\* A token that is sent keeps the stream framed and the connection in place.
LEMMA SentFraming ==
  ASSUME Inv, Framing, ~Over(c), NEW s \in Seq(Token), WellFramed(s), Prolongs(Ahead, s),
         Ahead' \in Seq(Token), Ahead' # <<>>, Len(Ahead') = Len(s),
         \A i \in 1 .. Len(s) : Alike(s[i], Ahead'[i]),
         Blocked' = FALSE, Awaited', UNCHANGED c,
         Blocked => Ahead # <<>> /\ c.pc \in {"argbody", "scriptbody", "contline"}
  PROVE  Framing'
<1>0. /\ TypeOK /\ c \in ConnType /\ (c.misparsed => c.gated)
      /\ WellFramed(Ahead) /\ Place(c, Ahead, Blocked)
      BY Finds
<1>a. Ahead \in Seq(Token) BY <1>0, AheadTypes
<1>1. Len(s) \in Nat /\ Len(Ahead) \in Nat BY <1>a
<1>2. Prolongs(s, Ahead')
      BY <1>1 DEF Prolongs
<1>3. \A i \in 1 .. Len(s) : Framed(Ahead', i)
  <2>1. \A i \in 1 .. Len(s) : i = Len(s) /\ i < Len(Ahead') => ~s[i].wait BY <1>1
  <2> QED BY <1>2, <2>1, FramedProlonged
<1>4. WellFramed(Ahead') BY <1>3 DEF WellFramed
<1>5. Prolongs(Ahead, Ahead')
  <2>1. Len(Ahead) <= Len(Ahead') BY DEF Prolongs
  <2>2. ASSUME NEW i \in 1 .. Len(Ahead) PROVE Alike(Ahead[i], Ahead'[i])
    <3>1. i \in 1 .. Len(s) BY <1>1, <2>1
    <3>2. Alike(Ahead[i], s[i]) BY DEF Prolongs
    <3>3. Alike(s[i], Ahead'[i]) BY <3>1
    <3> QED BY <3>2, <3>3 DEF Alike
  <2>3. ASSUME Len(Ahead) < Len(Ahead') PROVE Ahead'[Len(Ahead) + 1].k \in Starts
    <3>1. s[Len(Ahead) + 1].k \in Starts BY <2>3 DEF Prolongs
    <3>2. Len(Ahead) + 1 \in 1 .. Len(s) BY <1>1, <2>3
    <3>3. Alike(s[Len(Ahead) + 1], Ahead'[Len(Ahead) + 1]) BY <3>2
    <3> QED BY <3>1, <3>3 DEF Alike
  <2> QED BY <2>1, <2>2, <2>3 DEF Prolongs
<1>6. Blocked \in BOOLEAN BY DEF Blocked
<1>7. Place(c, Ahead', FALSE) BY <1>0, <1>5, <1>6, <1>a, PlaceProlonged
<1> QED BY <1>0, <1>4, <1>7 DEF Framing, InStep

LEMMA ClientFraming == ASSUME Inv, Framing, ClientStep PROVE Framing'
<1>0. UNCHANGED <<c, buf>>
      BY DEF ClientStep, ClientBegins, ClientContinues, ClientResumes, ClientCloses,
             ClientUnchanged
<1>1. CASE Over(c) BY <1>0, <1>1 DEF Framing, Over
<1>2. CASE ~Over(c)
  <2>0. /\ TypeOK /\ c \in ConnType /\ (c.misparsed => c.gated)
        /\ WellFramed(Ahead) /\ Awaited /\ Place(c, Ahead, Blocked)
        BY <1>2, Finds
  <2>a. /\ Unread \in Seq(Token) /\ Ahead \in Seq(Token) /\ todo \in Seq(Token)
        /\ Len(Ahead) = Len(Unread) + Len(todo) /\ Len(Unread) \in Nat /\ Len(todo) \in Nat
        BY <2>0, AheadTypes
  <2>1. CASE ClientBegins
    <3>1. PICK m \in Commands : Sends(Head(m)) /\ todo' = Tail(m) BY <2>1 DEF ClientBegins
    <3>2. m \in Seq(Token) /\ m # <<>> BY CommandsAssumption
    <3>3. m[1].k \in Starts /\ WellFramed(m) BY FramingAssumption DEF WellFramed
    <3>4. todo = <<>> /\ ~waiting BY <2>1 DEF ClientBegins
    <3>5. Ahead = Unread BY <2>a, <3>4, ConcatEmptySeq DEF Ahead
    <3>6. \A i \in 1 .. Len(Unread) : ~Unread[i].wait BY <2>0, <3>4 DEF Awaited
    <3>7. WellFramed(Unread \o m) /\ Prolongs(Ahead, Unread \o m)
          BY <2>0, <2>a, <3>2, <3>3, <3>5, <3>6, CommandBehind
    <3>8. ~Blocked BY <3>4 DEF Blocked
    <3> QED BY <1>0, <1>2, <2>0, <3>1, <3>2, <3>6, <3>7, <3>8, SendsBehind, SentFraming
  <2>2. CASE ClientContinues
    <3>1. todo # <<>> /\ (waiting => Prompted) /\ Sends(Head(todo)) /\ todo' = Tail(todo)
          BY <2>2 DEF ClientContinues
    <3>2. ASSUME waiting PROVE Unread = <<>> /\ c.pc \in {"argbody", "scriptbody", "contline"}
          BY <3>1, <3>2 DEF Prompted, Unread
    <3>3. ASSUME NEW i \in 1 .. Len(Unread) PROVE ~Unread[i].wait
          BY <2>0, <2>a, <3>2 DEF Awaited
    <3>4. Prolongs(Ahead, Ahead) /\ Ahead # <<>>
          BY <2>a, <3>1 DEF Prolongs, Alike
    <3>5. Unread \o todo = Ahead BY DEF Ahead
    <3>6. Blocked => Ahead # <<>> /\ c.pc \in {"argbody", "scriptbody", "contline"}
          BY <3>2, <3>4 DEF Blocked
    <3>7. /\ Ahead' \in Seq(Token) /\ Ahead' # <<>> /\ Len(Ahead') = Len(Ahead)
          /\ \A i \in 1 .. Len(Ahead) : Alike(Ahead[i], Ahead'[i])
          /\ Blocked' = FALSE /\ Awaited'
          BY <1>0, <2>0, <2>a, <3>1, <3>3, <3>5, SendsBehind
    <3> QED BY <1>0, <1>2, <2>0, <2>a, <3>4, <3>6, <3>7, SentFraming
  <2>3. CASE ClientResumes
    <3>1. /\ c.pc = "line" /\ buf' = <<>> /\ net' = <<>> /\ waiting' = FALSE /\ todo' = <<>>
          BY <2>3 DEF ClientResumes, ClientUnchanged
    <3>2. Unread' = <<>> BY <3>1 DEF Unread
    <3>3. Ahead' = <<>> BY <3>1, <3>2 DEF Ahead
    <3>4. WellFramed(Ahead') BY <3>3 DEF WellFramed
    <3>5. Awaited' BY <3>2 DEF Awaited
    <3>6. BetweenCommands(c, Ahead', Blocked') BY <3>3 DEF BetweenCommands
    <3>7. Place(c, Ahead', Blocked') BY <3>1, <3>6, PlaceBetween DEF LinePlaces
    <3> QED BY <1>0, <2>0, <3>4, <3>5, <3>7 DEF Framing, InStep
  <2>4. CASE ClientCloses
    <3>1. Unread' = Unread /\ UNCHANGED <<todo, waiting>>
          BY <2>4 DEF ClientCloses, ClientUnchanged, Unread
    <3>2. Ahead' = Ahead /\ Blocked' = Blocked /\ Awaited' BY <2>0, <3>1, AheadStays
    <3> QED BY <1>0, <2>0, <3>2 DEF Framing, InStep
  <2> QED BY <2>1, <2>2, <2>3, <2>4 DEF ClientStep
<1> QED BY <1>1, <1>2

-----------------------------------------------------------------------------
(***************************************************************************)
(* Framing: all the steps.                                                 *)
(***************************************************************************)
LEMMA FillFraming == ASSUME Inv, Framing, Fill PROVE Framing'
<1>0. TypeOK /\ UNCHANGED <<c, todo, waiting>> BY DEF Inv, Fill, clientVars
<1>1. Unread' = Unread BY <1>0, RefillKeeps
<1>2. Ahead' = Ahead /\ Blocked' = Blocked /\ (Awaited => Awaited') BY <1>0, <1>1, AheadStays
<1> QED BY <1>0, <1>2 DEF Framing, InStep

LEMMA StutterFraming == ASSUME Framing, UNCHANGED vars PROVE Framing'
<1>1. UNCHANGED <<c, buf, net, todo, waiting>> BY DEF vars
<1>2. Unread' = Unread BY <1>1 DEF Unread
<1>3. Ahead' = Ahead /\ Blocked' = Blocked /\ (Awaited => Awaited') BY <1>1, <1>2, AheadStays
<1> QED BY <1>1, <1>3 DEF Framing, InStep

LEMMA OverFraming ==
  ASSUME Inv, Framing, Leaves \/ CallbackPanics \/ (Enforce /\ c.closePending)
  PROVE  Framing'
<1>1. c'.pc = "closed" /\ (c'.misparsed => c'.gated) BY PartingFraming DEF Framing
<1> QED BY <1>1 DEF Framing, Over

LEMMA ReadFraming == ASSUME Inv, Framing, ReadStep PROVE Framing'
<1>1. CASE CommandReadFails \/ RejectLine BY <1>1, OverFraming DEF Leaves
<1> QED BY <1>1, FillFraming, LineFraming, BodyFraming, CutFraming, RestFraming, ResponseFraming
        DEF ReadStep

LEMMA HandlerFraming == ASSUME Inv, Framing, HandlerStep PROVE Framing'
BY AnswerFraming, GateFraming, AuthenticateFraming, ScriptContentFraming DEF HandlerStep

LEMMA OpenFraming ==
  ASSUME Inv, Timely, Framing,
         LoopStep \/ SessionReturns \/ HandshakeSucceeds \/ HandshakeFails \/ HandshakeAborts
  PROVE  Framing'
<1>1. CASE ArgsResolved \/ RejectArgLiteral \/ BeginArgLiteral BY <1>1, ResolveFraming
<1>2. CASE Enforce /\ Over(c)
  <2>1. c.closePending BY <1>2 DEF Over, Enforce
  <2> QED BY <1>2, <2>1, OverFraming
<1>3. CASE Enforce /\ ~Over(c) BY <1>3, LoopStepFraming
<1>4. CASE Greet \/ CheckContext \/ ArmCommandRead \/ SessionReturns \/ HandshakeSucceeds
           \/ HandshakeFails \/ HandshakeAborts
  <2>1. ~Over(c)
    <3>1. Greet \/ CheckContext \/ ArmCommandRead => LoopStep /\ ~Enforce
          BY DEF LoopStep, Greet, CheckContext, ArmCommandRead, Enforce
    <3> QED BY <1>4, <3>1, ServerOpen
  <2> QED BY <1>4, <2>1, LoopStepFraming DEF SessionReturns
<1> QED BY <1>1, <1>2, <1>3, <1>4 DEF LoopStep

LEMMA NextFraming == Inv /\ Timely /\ Framing /\ [Next]_vars => Framing'
<1> SUFFICES ASSUME Inv, Timely, Framing, [Next]_vars PROVE Framing' OBVIOUS
<1>1. CASE UNCHANGED vars \/ Closed BY <1>1, StutterFraming DEF Closed
<1>2. CASE ServerStep BY <1>2, ReadFraming, HandlerFraming, OpenFraming DEF ServerStep
<1>3. CASE CallbackPanics BY <1>3, OverFraming
<1>4. CASE SessionReturns \/ HandshakeSucceeds \/ HandshakeFails BY <1>4, OpenFraming
<1> QED BY <1>1, <1>2, <1>3, <1>4, ClientFraming, EnvFraming DEF Next

LEMMA InitFraming == Init => Framing
<1> SUFFICES ASSUME Init PROVE Framing OBVIOUS
<1>1. c.pc = "greet" /\ ~c.misparsed
  <2>1. PICK t \in InitTLS : c = InitConn(t) BY DEF Init
  <2> QED BY <2>1 DEF InitConn
<1>2. buf = <<>> /\ net = <<>> /\ todo = <<>> BY DEF Init
<1>3. Unread = <<>> BY <1>2 DEF Unread
<1>4. Ahead = <<>> BY <1>2, <1>3 DEF Ahead
<1>5. WellFramed(Ahead) /\ Awaited BY <1>3, <1>4 DEF WellFramed, Awaited
<1>6. Place(c, Ahead, Blocked) BY <1>1, <1>4, PlaceBetween DEF LinePlaces, BetweenCommands
<1> QED BY <1>1, <1>5, <1>6 DEF Framing, InStep

\* Where a body is read, the next token is a body.
LEMMA FramingHolds == Inv /\ Framing => FramingKept
<1> SUFFICES ASSUME Inv, Framing PROVE FramingKept OBVIOUS
<1>1. ASSUME c.pc \in BodyPcs, Unread # <<>> PROVE Head(Unread).k = "body"
  <2>1. ~Over(c) BY <1>1 DEF BodyPcs, Over
  <2>2. Ahead[1].k = "body"
        BY <1>1, <2>1 DEF Framing, InStep, Place, BodyPcs, ArgumentNext, LiteralNext
  <2>3. Unread \in Seq(Token) /\ \A i \in 1 .. Len(Unread) : Ahead[i] = Unread[i]
        BY AheadTypes DEF Inv
  <2>4. Len(Unread) \in Nat /\ Len(Unread) >= 1 /\ Head(Unread) = Unread[1] BY <1>1, <2>3
  <2> QED BY <2>2, <2>3, <2>4
<1> QED BY <1>1 DEF FramingKept, Framing, Unread

\* The server and the client agree on what is a line and what is the body of a
\* literal: readBody meets a body, and what was sent as a body is parsed as a
\* command only where the gates of serve or of handleAuthenticate refused a
\* command before they looked at its literal.
THEOREM FramesAgree == Spec => []FramingKept
<1>1. Init => Framing BY InitFraming
<1>2. Inv /\ Timely /\ Framing /\ [Next]_vars => Framing' BY NextFraming
<1>3. Inv /\ Framing => FramingKept BY FramingHolds
<1> QED BY <1>1, <1>2, <1>3, TimersKept, PTL DEF Spec
=============================================================================
