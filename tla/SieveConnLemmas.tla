--------------------------- MODULE SieveConnLemmas ----------------------------
(***************************************************************************)
(* The inductive invariant of SieveConn, and what its operators keep of it.*)
(* Core holds while a command is served, End once its handler has returned,*)
(* Ended when the connection is closed; Stage says what each program point *)
(* adds to Core.                                                           *)
(***************************************************************************)
EXTENDS SieveConn, TLAPS

\* The fields of the connection record.
Fields == {"pc", "verb", "args", "val", "authenticated", "isTLS", "errorCount",
           "closePending", "hijacked", "lastErr", "quit", "dispatched",
           "poisoned", "rdl", "expired", "out", "dirty", "wfail", "hook",
           "kicked", "gated", "misparsed"}

\* y is x except for the fields in F.
SameBut(x, y, F) == \A f \in Fields \ F : y[f] = x[f]

\* writeLine appends one reply and marks the write buffer dirty.
LEMMA WriteSpec ==
  ASSUME NEW x \in ConnType, NEW r \in Replies
  PROVE  /\ Write(x, r) \in ConnType
         /\ SameBut(x, Write(x, r), {"out", "dirty"})
         /\ Write(x, r).out = Append(x.out, r)
         /\ Write(x, r).dirty
<1>1. x.out \in Seq(Replies) BY DEF ConnType
<1>2. Append(x.out, r) \in Seq(Replies) BY <1>1
<1>3. Write(x, r) \in ConnType BY <1>2, Zenon DEF Write, ConnType
<1>4. Write(x, r).out = Append(x.out, r) /\ Write(x, r).dirty
      BY DEF Write, ConnType
<1>5. SameBut(x, Write(x, r), {"out", "dirty"})
      BY DEF Write, ConnType, SameBut, Fields
<1> QED BY <1>3, <1>4, <1>5

\* Moving the program counter changes nothing else.
LEMMA GotoSpec ==
  ASSUME NEW x \in ConnType, NEW l \in Pcs
  PROVE  /\ Goto(x, l) \in ConnType
         /\ SameBut(x, Goto(x, l), {"pc"})
         /\ Goto(x, l).pc = l
<1>1. Goto(x, l) \in ConnType /\ Goto(x, l).pc = l BY DEF Goto, ConnType
<1>2. SameBut(x, Goto(x, l), {"pc"}) BY DEF Goto, ConnType, SameBut, Fields
<1> QED BY <1>1, <1>2

\* Setting lastErr changes nothing else.
LEMMA FailedSpec ==
  ASSUME NEW x \in ConnType
  PROVE  /\ Failed(x) \in ConnType
         /\ SameBut(x, Failed(x), {"lastErr"})
         /\ Failed(x).lastErr
<1>1. Failed(x) \in ConnType BY Zenon DEF Failed, ConnType
<1>2. Failed(x).lastErr /\ SameBut(x, Failed(x), {"lastErr"})
      BY DEF Failed, ConnType, SameBut, Fields
<1> QED BY <1>1, <1>2

\* Setting closePending changes nothing else.
LEMMA MustCloseSpec ==
  ASSUME NEW x \in ConnType, NEW b \in BOOLEAN
  PROVE  /\ MustClose(x, b) \in ConnType
         /\ SameBut(x, MustClose(x, b), {"closePending"})
<1>1. (x.closePending \/ b) \in BOOLEAN OBVIOUS
<1>2. MustClose(x, b) \in ConnType BY <1>1, Zenon DEF MustClose, ConnType
<1>3. SameBut(x, MustClose(x, b), {"closePending"})
      BY DEF MustClose, ConnType, SameBut, Fields
<1> QED BY <1>2, <1>3

\* errorCount++.
Counted(x) == [x EXCEPT !.errorCount = @ + 1]

\* Counting an error changes nothing else.
LEMMA CountedSpec ==
  ASSUME NEW x \in ConnType
  PROVE  /\ Counted(x) \in ConnType
         /\ SameBut(x, Counted(x), {"errorCount"})
         /\ Counted(x).errorCount = x.errorCount + 1
<1>1. x.errorCount \in Nat BY DEF ConnType
<1>2. x.errorCount + 1 \in Nat BY <1>1
<1>3. Counted(x) \in ConnType BY <1>2, Zenon DEF Counted, ConnType
<1>4. Counted(x).errorCount = x.errorCount + 1 BY Zenon DEF Counted, ConnType
<1>5. SameBut(x, Counted(x), {"errorCount"})
      BY DEF Counted, ConnType, SameBut, Fields
<1> QED BY <1>3, <1>4, <1>5

\* setReadDeadline does nothing on a poisoned connection; otherwise it
\* replaces the deadline and clears its expiry.
LEMMA SetReadDeadlineSpec ==
  ASSUME NEW x \in ConnType, NEW d \in Timers
  PROVE  /\ SetReadDeadline(x, d) \in ConnType
         /\ SameBut(x, SetReadDeadline(x, d), {"rdl", "expired"})
         /\ x.poisoned => SetReadDeadline(x, d) = x
         /\ ~x.poisoned => /\ SetReadDeadline(x, d).rdl = d
                           /\ ~SetReadDeadline(x, d).expired
<1>1. CASE x.poisoned
      BY <1>1 DEF SetReadDeadline, SameBut
<1>2. CASE ~x.poisoned
  <2> DEFINE y == [x EXCEPT !.rdl = d, !.expired = FALSE]
  <2>1. SetReadDeadline(x, d) = y BY <1>2 DEF SetReadDeadline
  <2>2. y \in ConnType BY Zenon DEF ConnType
  <2>3. y.rdl = d /\ ~y.expired /\ SameBut(x, y, {"rdl", "expired"})
        BY DEF ConnType, SameBut, Fields
  <2> QED BY <1>2, <2>1, <2>2, <2>3
<1> QED BY <1>1, <1>2

\* The handler's quit result changes nothing else.
LEMMA AndQuitSpec ==
  ASSUME NEW x \in ConnType
  PROVE  AndQuit(x) \in ConnType /\ SameBut(x, AndQuit(x), {"quit"}) /\ AndQuit(x).quit
<1>1. AndQuit(x) \in ConnType BY Zenon DEF AndQuit, ConnType
<1>2. SameBut(x, AndQuit(x), {"quit"}) /\ AndQuit(x).quit
      BY DEF AndQuit, ConnType, SameBut, Fields
<1> QED BY <1>1, <1>2

\* writer.Flush empties the buffer or leaves a broken socket, and touches
\* nothing else.
LEMMA FlushSpec ==
  ASSUME NEW x \in ConnType, NEW f \in Flush(x)
  PROVE  /\ f \in ConnType
         /\ SameBut(x, f, {"dirty", "wfail"})
         /\ x.wfail => f.wfail
         /\ ~f.wfail => ~f.dirty
<1> DEFINE a == [x EXCEPT !.dirty = FALSE]
           b == [x EXCEPT !.wfail = TRUE]
<1>1. a \in ConnType /\ b \in ConnType BY Zenon DEF ConnType
<1>2. /\ SameBut(x, a, {"dirty", "wfail"}) /\ ~a.dirty /\ a.wfail = x.wfail
      /\ SameBut(x, b, {"dirty", "wfail"}) /\ b.wfail
      BY DEF ConnType, SameBut, Fields
<1>3. f \in {a, b} \/ (f = x /\ (x.dirty => x.wfail)) BY DEF Flush
<1>4. SameBut(x, x, {"dirty", "wfail"}) BY DEF SameBut
<1> HIDE DEF a, b
<1> QED BY <1>1, <1>2, <1>3, <1>4

\* What serving a command may change without disturbing Core, and what leaving
\* the loop may change without disturbing Ended.
Bookkeeping == {"pc", "verb", "args", "val", "lastErr", "dispatched", "out",
                "gated", "misparsed", "hook"}
Parting     == {"pc", "out", "dirty", "wfail", "hook", "quit", "verb", "args",
                "dispatched"}

\* No final reply, exactly one, a NO among the replies of this command.
NoFinal(x)  == \A i \in DOMAIN x.out : x.out[i] \notin Final
OneFinal(x) == \E i \in DOMAIN x.out :
                  /\ x.out[i] \in Final
                  /\ \A j \in DOMAIN x.out : x.out[j] \in Final => j = i
SaidNo(x)   == \E i \in DOMAIN x.out : x.out[i] = "NO"

\* The first final reply of a command makes it exactly one.
LEMMA WriteFinal ==
  ASSUME NEW x \in ConnType, NEW r \in Replies, NoFinal(x)
  PROVE  /\ r \in Final => OneFinal(Write(x, r))
         /\ r \notin Final => NoFinal(Write(x, r))
         /\ SaidNo(Write(x, r)) <=> r = "NO"
<1> DEFINE s == x.out
           n == Len(s) + 1
           t == Append(s, r)
<1>1. s \in Seq(Replies) BY DEF ConnType
<1>2. Write(x, r).out = t BY WriteSpec
<1>3. \A i \in DOMAIN s : s[i] \notin Final BY DEF NoFinal
<1> HIDE DEF s
<1>4. /\ n \in DOMAIN t /\ t[n] = r
      /\ \A j \in DOMAIN t : j # n => j \in DOMAIN s /\ t[j] = s[j]
      BY <1>1
<1> HIDE DEF n, t
<1>5. r \in Final => OneFinal(Write(x, r)) BY <1>2, <1>3, <1>4 DEF OneFinal
<1>6. r \notin Final => NoFinal(Write(x, r)) BY <1>2, <1>3, <1>4 DEF NoFinal
<1>7. SaidNo(Write(x, r)) <=> r = "NO" BY <1>2, <1>3, <1>4 DEF SaidNo, Final
<1> QED BY <1>5, <1>6, <1>7

\* Poison keeps the kick deadline; any other deadline is one that
\* nextReadDeadline gives in this authentication state.
DeadlineSane(x) ==
    IF x.poisoned THEN x.expired /\ x.rdl = "kick"
    ELSE x.rdl = "none" \/ x.rdl \in NextReadDeadline(x.authenticated)

\* What holds of a connection that is serving a command or between two.
Core(x) == /\ x \in ConnType
           /\ MaxErrors > 0 => x.errorCount < MaxErrors
           /\ ~x.dirty /\ ~x.wfail /\ ~x.quit /\ ~x.closePending /\ ~x.hijacked
           /\ x.authenticated => AuthAllowed(x)
           /\ DeadlineSane(x)

\* The part of Core that a hijacking callback still keeps.
Live(x) == /\ x \in ConnType
           /\ MaxErrors > 0 => x.errorCount < MaxErrors
           /\ x.authenticated => AuthAllowed(x)
           /\ DeadlineSane(x)

\* What holds once a handler has returned, before the enforcement.
End(x) == /\ x \in ConnType
          /\ MaxErrors > 0 => x.errorCount <= MaxErrors
          /\ x.authenticated => AuthAllowed(x)
          /\ DeadlineSane(x)
          /\ ~x.hijacked /\ ~x.wfail => OneFinal(x)
          /\ x.dispatched /\ ~x.wfail =>
                (x.lastErr <=> SaidNo(x) \/ (x.verb = "STARTTLS" /\ x.quit))

\* Core depends only on the fields that the bookkeeping does not touch.
LEMMA CoreSame ==
  ASSUME NEW x, NEW y \in ConnType, Core(x),
         SameBut(x, y, Bookkeeping)
  PROVE  Core(y)
BY DEF Core, SameBut, Fields, Bookkeeping, DeadlineSane, AuthAllowed

\* End does not depend on these fields.
LEMMA EndSame ==
  ASSUME NEW x, NEW y \in ConnType, End(x),
         SameBut(x, y, {"pc", "closePending", "gated", "val", "args"})
  PROVE  End(y)
BY DEF End, SameBut, Fields, DeadlineSane, AuthAllowed, OneFinal, SaidNo

\* clientError ends a command: one NO, lastErr set, the budget not overrun.
LEMMA ClientErrorEnds ==
  ASSUME NEW x, Core(x) \/ Live(x), NoFinal(x)
  PROVE  End(ClientError(x)) /\ SameBut(x, ClientError(x), {"errorCount", "lastErr",
           "out", "dirty"})
<1> DEFINE a == Counted(x)
           b == Failed(a)
           y == Write(b, "NO")
<1>0. Live(x) BY DEF Core, Live
<1>1. x \in ConnType BY <1>0 DEF Live
<1>2. ClientError(x) = y BY DEF ClientError, Counted
<1>3. a \in ConnType /\ SameBut(x, a, {"errorCount"}) /\ a.errorCount = x.errorCount + 1
      BY <1>1, CountedSpec
<1>4. b \in ConnType /\ SameBut(a, b, {"lastErr"}) /\ b.lastErr BY <1>3, FailedSpec
<1>5. NoFinal(b) BY <1>3, <1>4 DEF NoFinal, SameBut, Fields
<1>6. "NO" \in Replies /\ "NO" \in Final BY DEF Replies, Final
<1>7. y \in ConnType /\ SameBut(b, y, {"out", "dirty"}) BY <1>4, <1>6, WriteSpec
<1>8. OneFinal(y) /\ SaidNo(y) BY <1>4, <1>5, <1>6, WriteFinal
<1> HIDE DEF a, b, y
<1>9. SameBut(x, y, {"errorCount", "lastErr", "out", "dirty"})
      BY <1>3, <1>4, <1>7 DEF SameBut, Fields
<1>10. y.errorCount = x.errorCount + 1 /\ y.lastErr
      BY <1>3, <1>4, <1>7 DEF SameBut, Fields
<1>11. x.errorCount \in Nat /\ MaxErrors \in Nat BY <1>1, OptionsAssumption DEF ConnType
<1>12. MaxErrors > 0 => y.errorCount <= MaxErrors BY <1>0, <1>10, <1>11 DEF Live
<1>13. DeadlineSane(y) /\ (y.authenticated => AuthAllowed(y))
      BY <1>0, <1>9 DEF Live, SameBut, Fields, DeadlineSane, AuthAllowed
<1>14. End(y) BY <1>7, <1>8, <1>10, <1>12, <1>13 DEF End
<1> QED BY <1>2, <1>9, <1>14

\* A NO that is not counted (session error, quota) ends a command too.
LEMMA FailureEnds ==
  ASSUME NEW x, Core(x) \/ Live(x), NoFinal(x)
  PROVE  /\ End(Write(Failed(x), "NO"))
         /\ SameBut(x, Write(Failed(x), "NO"), {"lastErr", "out", "dirty"})
<1> DEFINE b == Failed(x)
           y == Write(b, "NO")
<1>0. Live(x) BY DEF Core, Live
<1>1. x \in ConnType BY <1>0 DEF Live
<1>4. b \in ConnType /\ SameBut(x, b, {"lastErr"}) /\ b.lastErr BY <1>1, FailedSpec
<1>5. NoFinal(b) BY <1>4 DEF NoFinal, SameBut, Fields
<1>6. "NO" \in Replies /\ "NO" \in Final BY DEF Replies, Final
<1>7. y \in ConnType /\ SameBut(b, y, {"out", "dirty"}) BY <1>4, <1>6, WriteSpec
<1>8. OneFinal(y) /\ SaidNo(y) BY <1>4, <1>5, <1>6, WriteFinal
<1> HIDE DEF b, y
<1>9. SameBut(x, y, {"lastErr", "out", "dirty"}) /\ y.lastErr
      BY <1>4, <1>7 DEF SameBut, Fields
<1>11. x.errorCount \in Nat /\ MaxErrors \in Nat BY <1>1, OptionsAssumption DEF ConnType
<1>12. MaxErrors > 0 => y.errorCount <= MaxErrors
      BY <1>0, <1>9, <1>11 DEF Live, SameBut, Fields
<1>13. DeadlineSane(y) /\ (y.authenticated => AuthAllowed(y))
      BY <1>0, <1>9 DEF Live, SameBut, Fields, DeadlineSane, AuthAllowed
<1>14. End(y) BY <1>7, <1>8, <1>9, <1>12, <1>13 DEF End
<1> QED BY <1>9, <1>14 DEF y, b

\* A final OK ends a command whose lastErr is clear.
LEMMA SuccessEnds ==
  ASSUME NEW x, Core(x), NoFinal(x), ~x.lastErr, NEW r \in {"OK", "EXT"}
  PROVE  End(Write(x, r)) /\ SameBut(x, Write(x, r), {"out", "dirty"})
<1> DEFINE y == Write(x, r)
<1>1. x \in ConnType /\ ~x.quit BY DEF Core
<1>2. r \in Replies /\ r \in Final /\ r # "NO" BY DEF Replies, Final
<1>3. y \in ConnType /\ SameBut(x, y, {"out", "dirty"}) BY <1>1, <1>2, WriteSpec
<1>4. OneFinal(y) /\ ~SaidNo(y) BY <1>1, <1>2, WriteFinal
<1> HIDE DEF y
<1>5. x.errorCount \in Nat /\ MaxErrors \in Nat BY <1>1, OptionsAssumption DEF ConnType
<1>6. MaxErrors > 0 => y.errorCount <= MaxErrors BY <1>3, <1>5 DEF Core, SameBut, Fields
<1>7. /\ DeadlineSane(y) /\ (y.authenticated => AuthAllowed(y))
      /\ ~y.lastErr /\ ~y.quit
      BY <1>1, <1>3 DEF Core, SameBut, Fields, DeadlineSane, AuthAllowed
<1>8. End(y) BY <1>3, <1>4, <1>6, <1>7 DEF End
<1> QED BY <1>3, <1>8 DEF y

\* Asking for the close does not disturb the end of a command.
LEMMA MustCloseEnds ==
  ASSUME NEW x, End(x), NEW b \in BOOLEAN
  PROVE  End(MustClose(x, b))
<1>1. x \in ConnType BY DEF End
<1>2. MustClose(x, b) \in ConnType /\ SameBut(x, MustClose(x, b), {"closePending"})
      BY <1>1, MustCloseSpec
<1>3. SameBut(x, MustClose(x, b), {"pc", "closePending", "gated", "val", "args"})
      BY <1>2 DEF SameBut, Fields
<1> QED BY <1>2, <1>3, EndSame

\* sessionError and authFailure end a command.
LEMMA SessionErrorEnds ==
  ASSUME NEW x, Core(x) \/ Live(x), NoFinal(x), NEW b \in BOOLEAN
  PROVE  End(SessionError(x, b)) /\ End(AuthFailure(x, b))
<1>1. End(SessionError(x, b)) BY FailureEnds, MustCloseEnds DEF SessionError
<1>2. CASE AuthFailuresExempt BY <1>1, <1>2 DEF AuthFailure
<1>3. CASE ~AuthFailuresExempt
  <2>1. AuthFailure(x, b) = MustClose(ClientError(x), b)
        BY <1>3 DEF AuthFailure, SessionError, ClientError
  <2> QED BY <1>1, <2>1, ClientErrorEnds, MustCloseEnds
<1> QED BY <1>1, <1>2, <1>3

\* nextReadDeadline returns one of the timers or none.
LEMMA NextReadDeadlineTimers ==
  ASSUME NEW auth
  PROVE  NextReadDeadline(auth) \subseteq Timers
BY DEF NextReadDeadline, IdleTimer, Timers

\* Core does not depend on the program counter.
LEMMA CoreGoto ==
  ASSUME NEW x, Core(x), NEW l \in Pcs
  PROVE  Core(Goto(x, l)) /\ SameBut(x, Goto(x, l), {"pc"}) /\ Goto(x, l).pc = l
<1>1. x \in ConnType BY DEF Core
<1>2. Goto(x, l) \in ConnType /\ SameBut(x, Goto(x, l), {"pc"}) /\ Goto(x, l).pc = l
      BY <1>1, GotoSpec
<1>3. SameBut(x, Goto(x, l), Bookkeeping)
      BY <1>2 DEF SameBut, Bookkeeping, Fields
<1> QED BY <1>2, <1>3, CoreSame

\* Clearing the deadline keeps Core, and does not lift a poison.
LEMMA CoreDisarm ==
  ASSUME NEW x, Core(x)
  PROVE  /\ Core(SetReadDeadline(x, "none"))
         /\ SameBut(x, SetReadDeadline(x, "none"), {"rdl", "expired"})
         /\ ~x.poisoned => SetReadDeadline(x, "none").rdl = "none"
<1> DEFINE y == SetReadDeadline(x, "none")
<1>1. x \in ConnType BY DEF Core
<1>2. "none" \in Timers BY DEF Timers
<1>3. /\ y \in ConnType /\ SameBut(x, y, {"rdl", "expired"})
      /\ x.poisoned => y = x
      /\ ~x.poisoned => y.rdl = "none"
      BY <1>1, <1>2, SetReadDeadlineSpec
<1> HIDE DEF y
<1>4. CASE x.poisoned BY <1>3, <1>4 DEF y
<1>5. CASE ~x.poisoned
  <2>1. DeadlineSane(y) BY <1>3, <1>5 DEF DeadlineSane, SameBut, Fields
  <2>2. Core(y) BY <1>3, <2>1 DEF Core, SameBut, Fields, AuthAllowed
  <2> QED BY <1>3, <2>2 DEF y
<1> QED BY <1>4, <1>5

\* The prelude of dispatch keeps Core, clears lastErr and the deadline.
LEMMA CoreExecuting ==
  ASSUME NEW x, Core(x)
  PROVE  /\ Core(Executing(x)) /\ ~Executing(x).lastErr
         /\ SameBut(x, Executing(x), {"rdl", "expired", "lastErr", "dispatched"})
         /\ ~x.poisoned => Executing(x).rdl = "none"
<1> DEFINE a == SetReadDeadline(x, "none")
           y == [a EXCEPT !.lastErr = FALSE, !.dispatched = TRUE]
<1>1. /\ Core(a) /\ SameBut(x, a, {"rdl", "expired"})
      /\ ~x.poisoned => a.rdl = "none" BY CoreDisarm
<1>2. a \in ConnType BY <1>1 DEF Core
<1> HIDE DEF a
<1>3. y \in ConnType BY <1>2, Zenon DEF ConnType
<1>4. SameBut(a, y, {"lastErr", "dispatched"}) /\ ~y.lastErr
      BY <1>2 DEF ConnType, SameBut, Fields
<1>5. Executing(x) = y BY DEF Executing, a
<1> HIDE DEF y
<1>6. Core(y)
  <2>1. SameBut(a, y, Bookkeeping)
        BY <1>4 DEF SameBut, Bookkeeping, Fields
  <2> QED BY <1>1, <1>3, <2>1, CoreSame
<1>7. SameBut(x, y, {"rdl", "expired", "lastErr", "dispatched"}) /\ y.rdl = a.rdl
      BY <1>1, <1>4 DEF SameBut, Fields
<1> QED BY <1>1, <1>4, <1>5, <1>6, <1>7

\* Arming the deadline before a read keeps Core and leaves a fresh one.
LEMMA CoreArm ==
  ASSUME NEW x, Core(x), NEW y \in Arm(x)
  PROVE  /\ Core(y) /\ SameBut(x, y, {"rdl", "expired"})
         /\ ~y.poisoned => y.rdl \in NextReadDeadline(y.authenticated)
<1>1. x \in ConnType BY DEF Core
<1>2. PICK d \in NextReadDeadline(x.authenticated) :
         y = IF d = "none" THEN x ELSE SetReadDeadline(x, d)
      BY DEF Arm
<1>3. CASE d = "none"
  <2>1. NextReadDeadline(x.authenticated) = {"none"}
        BY <1>2, <1>3 DEF NextReadDeadline
  <2> QED BY <1>2, <1>3, <2>1 DEF Core, DeadlineSane, SameBut
<1>4. CASE d # "none" /\ x.poisoned
      BY <1>1, <1>2, <1>4, SetReadDeadlineSpec, NextReadDeadlineTimers DEF SameBut
<1>5. CASE d # "none" /\ ~x.poisoned
  <2>1. /\ y \in ConnType /\ SameBut(x, y, {"rdl", "expired"}) /\ y.rdl = d
        BY <1>1, <1>2, <1>5, SetReadDeadlineSpec, NextReadDeadlineTimers
  <2>2. ~y.poisoned /\ y.rdl \in NextReadDeadline(y.authenticated)
        BY <1>2, <1>5, <2>1 DEF SameBut, Fields
  <2>3. Core(y) BY <2>1, <2>2 DEF Core, SameBut, Fields, AuthAllowed, DeadlineSane
  <2> QED BY <2>1, <2>2, <2>3
<1> QED BY <1>3, <1>4, <1>5

\* What is left to say of a connection that has been closed.
Ended(x) == /\ x \in ConnType
            /\ MaxErrors > 0 => x.errorCount <= MaxErrors
            /\ x.authenticated => AuthAllowed(x)
            /\ DeadlineSane(x)

AuthPcs   == {"contline", "authbody", "authcrlf"}
ScriptPcs == {"scriptbody", "scriptcrlf"}

\* What each program point adds to Core.
Stage(x) ==
    /\ x.pc \in ReadPcs \cup {"handshake"} =>
          (~x.poisoned => x.rdl \in NextReadDeadline(x.authenticated))
    /\ x.pc \notin {"greet", "top", "handshake"} => NoFinal(x)
    /\ x.pc \in AuthPcs =>
          x.verb = "AUTHENTICATE" /\ ~x.authenticated /\ AuthAllowed(x) /\ ~x.lastErr
    /\ x.pc \in ScriptPcs =>
          x.verb \in ContentVerbs /\ x.authenticated /\ ~x.lastErr
    /\ x.pc = "handshake" =>
          /\ x.verb = "STARTTLS" /\ ~x.authenticated /\ ~x.lastErr
          /\ OneFinal(x) /\ ~SaidNo(x)
    /\ x.pc = "session" =>
          /\ AuthAllowed(x) /\ ~x.lastErr
          /\ ~x.poisoned => x.rdl = "none"
          /\ IF x.verb \in AuthVerbs THEN ~x.authenticated
             ELSE x.verb \in ScriptVerbs /\ x.authenticated

\* The inductive invariant of the connection.
CI(x) == /\ x.pc \notin {"enforce", "closed"} => Core(x) /\ Stage(x)
         /\ x.pc = "enforce" => End(x)
         /\ x.pc = "closed" => Ended(x)

\* A connection that leaves the loop keeps what Ended says.
LEMMA EndedSame ==
  ASSUME NEW x, NEW y \in ConnType, Core(x) \/ End(x) \/ Ended(x),
         SameBut(x, y, Parting)
  PROVE  Ended(y)
<1>1. Ended(x)
  <2>1. CASE Core(x)
    <3>1. x \in ConnType BY <2>1 DEF Core
    <3>2. x.errorCount \in Nat /\ MaxErrors \in Nat BY <3>1, OptionsAssumption DEF ConnType
    <3> QED BY <2>1, <3>2 DEF Core, Ended
  <2>2. CASE End(x) BY <2>2 DEF End, Ended
  <2> QED BY <2>1, <2>2
<1> QED BY <1>1 DEF Ended, SameBut, Fields, Parting, DeadlineSane, AuthAllowed

\* A command that has ended may go to the enforcement.
LEMMA DoneEnds ==
  ASSUME NEW x, End(x)
  PROVE  /\ End(Done(x)) /\ CI(Done(x)) /\ SameBut(x, Done(x), {"pc"})
         /\ Done(x).pc = "enforce"
<1>1. x \in ConnType /\ "enforce" \in Pcs BY DEF End, Pcs
<1>2. Done(x) \in ConnType /\ SameBut(x, Done(x), {"pc"}) /\ Done(x).pc = "enforce"
      BY <1>1, GotoSpec DEF Done
<1>3. SameBut(x, Done(x), {"pc", "closePending", "gated", "val", "args"})
      BY <1>2 DEF SameBut, Fields
<1>4. End(Done(x)) BY <1>2, <1>3, EndSame
<1> QED BY <1>2, <1>4 DEF CI

\* A refused command goes to the enforcement.
LEMMA RefusedEnds ==
  ASSUME NEW x, Core(x), NoFinal(x)
  PROVE  End(Refused(x)) /\ CI(Refused(x)) /\ Refused(x).pc = "enforce"
BY ClientErrorEnds, DoneEnds DEF Refused

\* Leaving the loop closes the connection in a good state.
LEMMA LeaveEnded ==
  ASSUME NEW x \in ConnType, Ended(x), NEW y \in Leave(x)
  PROVE  CI(y) /\ y \in ConnType
<1>1. PICK f \in Flush(x) : y = Goto(f, "closed") BY DEF Leave
<1>2. f \in ConnType /\ SameBut(x, f, {"dirty", "wfail"}) BY FlushSpec
<1>3. "closed" \in Pcs BY DEF Pcs
<1>4. y \in ConnType /\ SameBut(f, y, {"pc"}) /\ y.pc = "closed"
      BY <1>1, <1>2, <1>3, GotoSpec
<1>5. SameBut(x, y, Parting)
      BY <1>2, <1>4 DEF SameBut, Parting, Fields
<1>6. Ended(y) BY <1>4, <1>5, EndedSame
<1> QED BY <1>4, <1>6 DEF CI

\* A BYE, with or without an OnTimeout call, leaves a good final state.
LEMMA ByeEnded ==
  ASSUME NEW x, Core(x) \/ Ended(x), NEW r \in Replies, NEW h \in {"idle", "absolute"}
  PROVE  /\ Ended(Write(x, r)) /\ Write(x, r) \in ConnType
         /\ Ended([Write(x, r) EXCEPT !.hook = h])
         /\ [Write(x, r) EXCEPT !.hook = h] \in ConnType
<1> DEFINE a == Write(x, r)
           y == [a EXCEPT !.hook = h]
<1>1. x \in ConnType BY DEF Core, Ended
<1>2. a \in ConnType /\ SameBut(x, a, {"out", "dirty"}) BY <1>1, WriteSpec
<1>3. SameBut(x, a, Parting)
      BY <1>2 DEF SameBut, Parting, Fields
<1>4. Ended(a) BY <1>2, <1>3, EndedSame
<1> HIDE DEF a
<1>5. y \in ConnType BY <1>2, Zenon DEF ConnType
<1>6. SameBut(a, y, Parting)
      BY <1>2 DEF ConnType, SameBut, Parting, Fields
<1>7. Ended(y) BY <1>4, <1>5, <1>6, EndedSame
<1> QED BY <1>2, <1>4, <1>5, <1>7 DEF a

\* A reply written and flushed in the middle of a command: the socket is
\* broken, or the command goes on.
LEMMA PromptSent ==
  ASSUME NEW x, Core(x), NoFinal(x), NEW r \in Replies, NEW f \in Flush(Write(x, r))
  PROVE  /\ f \in ConnType /\ SameBut(x, f, {"out", "dirty", "wfail"})
         /\ f.wfail => End(f)
         /\ ~f.wfail => Core(f)
         /\ r \notin Final => NoFinal(f)
         /\ r \in Final => OneFinal(f)
         /\ SaidNo(f) <=> r = "NO"
<1> DEFINE w == Write(x, r)
<1>1. x \in ConnType BY DEF Core
<1>2. w \in ConnType /\ SameBut(x, w, {"out", "dirty"}) BY <1>1, WriteSpec
<1>3. f \in ConnType /\ SameBut(w, f, {"dirty", "wfail"}) /\ (~f.wfail => ~f.dirty)
      BY <1>2, FlushSpec
<1>4. /\ r \in Final => OneFinal(w)
      /\ r \notin Final => NoFinal(w)
      /\ SaidNo(w) <=> r = "NO"
      BY <1>1, WriteFinal
<1> HIDE DEF w
<1>5. SameBut(x, f, {"out", "dirty", "wfail"}) /\ f.out = w.out
      BY <1>2, <1>3 DEF SameBut, Fields
<1>6. /\ r \notin Final => NoFinal(f)
      /\ r \in Final => OneFinal(f)
      /\ SaidNo(f) <=> r = "NO"
      BY <1>4, <1>5 DEF NoFinal, OneFinal, SaidNo
<1>7. ~f.wfail => Core(f)
      BY <1>3, <1>5 DEF Core, SameBut, Fields, DeadlineSane, AuthAllowed
<1>8. f.wfail => End(f)
  <2>1. x.errorCount \in Nat /\ MaxErrors \in Nat BY <1>1, OptionsAssumption DEF ConnType
  <2>2. MaxErrors > 0 => f.errorCount <= MaxErrors BY <1>5, <2>1 DEF Core, SameBut, Fields
  <2>3. DeadlineSane(f) /\ (f.authenticated => AuthAllowed(f))
        BY <1>5 DEF Core, SameBut, Fields, DeadlineSane, AuthAllowed
  <2> QED BY <1>3, <2>2, <2>3 DEF End
<1> QED BY <1>3, <1>5, <1>6, <1>7, <1>8

\* The invariant includes the type of the connection.
LEMMA CIConnType == ASSUME NEW x, CI(x) PROVE x \in ConnType
BY DEF CI, Core, End, Ended

\* The locals of an iteration start afresh.
LEMMA IterationSpec ==
  ASSUME NEW x, Core(x)
  PROVE  Core(NextIteration(x)) /\ NoFinal(NextIteration(x)) /\ NextIteration(x).out = <<>>
<1> DEFINE y == NextIteration(x)
<1>1. x \in ConnType BY DEF Core
<1>2. <<>> \in Seq(Replies) /\ <<>> \in Seq(PlainArgs \cup Literals) OBVIOUS
<1>3. "BLANK" \in Verbs BY DEF Verbs, OtherVerbs
<1>4. y \in ConnType BY <1>1, <1>2, <1>3, Zenon DEF NextIteration, ConnType
<1>5. /\ y.out = <<>> /\ ~y.quit
      /\ SameBut(x, y, {"out", "quit", "dispatched", "args", "verb"})
      BY <1>1 DEF NextIteration, ConnType, SameBut, Fields
<1> HIDE DEF y
<1>6. NoFinal(y) BY <1>5 DEF NoFinal
<1>7. Core(y) BY <1>4, <1>5 DEF Core, SameBut, Fields, DeadlineSane, AuthAllowed
<1> QED BY <1>5, <1>6, <1>7 DEF y

\* shutdownBye leaves a good state.
LEMMA ShutdownByeEnded ==
  ASSUME NEW x, Core(x)
  PROVE  Ended(ShutdownBye(x)) /\ ShutdownBye(x) \in ConnType
<1>1. "BYE-abs" \in Replies /\ "BYE-down" \in Replies BY DEF Replies, Byes
<1> QED BY <1>1, ByeEnded DEF ShutdownBye

\* A running state with no final reply, outside the stages of a handler.
LEMMA PlainStage ==
  ASSUME NEW x, Core(x), NoFinal(x), x.pc \in {"arm", "line", "resolve", "dispatch",
           "argbody", "argrest"},
         x.pc \in {"line", "argbody", "argrest"} =>
            (~x.poisoned => x.rdl \in NextReadDeadline(x.authenticated))
  PROVE  CI(x)
BY DEF CI, Stage, ReadPcs, LinePcs, BodyPcs, AuthPcs, ScriptPcs

\* What a handler has established when it starts to read at l.
ReadsAt(x, l) ==
    /\ l \in AuthPcs =>
          x.verb = "AUTHENTICATE" /\ ~x.authenticated /\ AuthAllowed(x) /\ ~x.lastErr
    /\ l \in ScriptPcs => x.verb \in ContentVerbs /\ x.authenticated /\ ~x.lastErr

\* A handler that arms the deadline may go and read at l.
LEMMA ReadStage ==
  ASSUME NEW x, Core(x), NoFinal(x), NEW l \in ReadPcs, ReadsAt(x, l), NEW a \in Arm(x)
  PROVE  CI(Goto(a, l))
<1> DEFINE y == Goto(a, l)
<1>1. /\ Core(a) /\ SameBut(x, a, {"rdl", "expired"})
      /\ ~a.poisoned => a.rdl \in NextReadDeadline(a.authenticated)
      BY CoreArm
<1>2. Core(y) /\ y.pc = l /\ SameBut(a, y, {"pc"}) BY <1>1, CoreGoto DEF Pcs
<1> HIDE DEF y
<1>3. NoFinal(y) /\ (~y.poisoned => y.rdl \in NextReadDeadline(y.authenticated))
      BY <1>1, <1>2 DEF NoFinal, SameBut, Fields
<1>4. ReadsAt(y, l) BY <1>1, <1>2 DEF ReadsAt, AuthAllowed, SameBut, Fields
<1>5. Stage(y) BY <1>2, <1>3, <1>4 DEF Stage, ReadsAt, ReadPcs, LinePcs, BodyPcs
<1>6. y.pc \notin {"enforce", "closed"} BY <1>2 DEF ReadPcs, LinePcs, BodyPcs
<1> QED BY <1>2, <1>5, <1>6 DEF CI, y

\* What a handler has established when it calls the session.
CallsSession(x) ==
    /\ AuthAllowed(x) /\ ~x.lastErr
    /\ ~x.poisoned => x.rdl = "none"
    /\ IF x.verb \in AuthVerbs THEN ~x.authenticated
       ELSE x.verb \in ScriptVerbs /\ x.authenticated

\* A handler that has passed its checks may call the session.
LEMMA SessionStage ==
  ASSUME NEW x, Core(x), NoFinal(x), CallsSession(x)
  PROVE  CI(Goto(x, "session"))
<1> DEFINE y == Goto(x, "session")
<1>1. Core(y) /\ y.pc = "session" /\ SameBut(x, y, {"pc"}) BY CoreGoto DEF Pcs
<1> HIDE DEF y
<1>2. NoFinal(y) /\ CallsSession(y)
      BY <1>1 DEF NoFinal, CallsSession, AuthAllowed, SameBut, Fields
<1>3. Stage(y)
      BY <1>1, <1>2 DEF Stage, CallsSession, ReadPcs, LinePcs, BodyPcs, AuthPcs, ScriptPcs
<1> QED BY <1>1, <1>3 DEF CI, y

\* Starting a literal read, with or without a continuation, keeps the
\* invariant.
LEMMA StartLiteralStage ==
  ASSUME NEW x, Core(x), NoFinal(x), NEW l \in ReadPcs, ReadsAt(x, l),
         NEW arg, NEW y \in StartLiteral(x, arg, l)
  PROVE  CI(y)
<1>1. CASE arg \in NonSync
      BY <1>1, ReadStage DEF StartLiteral
<1>2. CASE arg \notin NonSync
  <2>1. "CONTINUE" \in Replies /\ "CONTINUE" \notin Final BY DEF Replies, Final
  <2>2. PICK f \in Flush(Write(x, "CONTINUE")) :
           y \in IF f.wfail THEN {Goto(MustClose(f, TRUE), "enforce")}
                 ELSE {Goto(a, l) : a \in Arm(f)}
        BY <1>2 DEF StartLiteral
  <2>3. /\ f \in ConnType /\ SameBut(x, f, {"out", "dirty", "wfail"})
        /\ f.wfail => End(f)
        /\ ~f.wfail => Core(f)
        /\ NoFinal(f)
        BY <2>1, <2>2, PromptSent
  <2>4. CASE f.wfail
    <3>1. End(MustClose(f, TRUE)) BY <2>3, <2>4, MustCloseEnds
    <3>2. y = Done(MustClose(f, TRUE)) BY <2>2, <2>4 DEF Done
    <3> QED BY <3>1, <3>2, DoneEnds
  <2>5. CASE ~f.wfail
    <3>1. ReadsAt(f, l) BY <2>3 DEF ReadsAt, AuthAllowed, SameBut, Fields
    <3>2. PICK a \in Arm(f) : y = Goto(a, l) BY <2>2, <2>5
    <3> QED BY <2>3, <2>5, <3>1, <3>2, ReadStage
  <2> QED BY <2>4, <2>5
<1> QED BY <1>1, <1>2

\* What handleAuthenticate does with a SASL response keeps the invariant.
LEMMA AuthPayloadStage ==
  ASSUME NEW x, Core(x), NoFinal(x), CallsSession(x), NEW v
  PROVE  CI(AuthPayload(x, v))
<1>1. CASE v = "ok" BY <1>1, SessionStage DEF AuthPayload
<1>2. CASE v = "nopass"
  <2>1. AuthPayload(x, v) = Done(AuthFailure(x, FALSE)) BY <1>2 DEF AuthPayload, Done
  <2>2. End(AuthFailure(x, FALSE)) BY SessionErrorEnds
  <2> QED BY <2>1, <2>2, DoneEnds
<1>3. CASE v \notin {"ok", "nopass"}
  <2>1. AuthPayload(x, v) = Refused(x) BY <1>3 DEF AuthPayload, Refused, Done
  <2> QED BY <2>1, RefusedEnds
<1> QED BY <1>1, <1>2, <1>3

\* A client error that also closes the connection keeps the invariant.
LEMMA RefusedClosing ==
  ASSUME NEW x, Core(x), NoFinal(x), NEW b \in BOOLEAN
  PROVE  CI(Goto(MustClose(ClientError(x), b), "enforce"))
BY ClientErrorEnds, MustCloseEnds, DoneEnds DEF Done

\* A SASL response that is announced as a literal keeps the invariant.
LEMMA StartAuthLiteralStage ==
  ASSUME NEW x, Core(x), NoFinal(x), ReadsAt(x, "authbody"), NEW v,
         NEW y \in StartAuthLiteral(x, v)
  PROVE  CI(y)
<1>1. "authbody" \in ReadPcs BY DEF ReadPcs, BodyPcs
<1>2. CASE v \in Malformed \cup Oversized BY <1>2, RefusedClosing DEF StartAuthLiteral
<1>3. CASE v \notin Malformed \cup Oversized
      BY <1>1, <1>3, ReadStage DEF StartAuthLiteral
<1> QED BY <1>2, <1>3

\* quotaMaxSize, a NO that is not counted, ends a command.
LEMMA QuotaEnds ==
  ASSUME NEW x, Core(x), NoFinal(x)
  PROVE  End(Done(QuotaMaxSize(x))) /\ CI(Done(QuotaMaxSize(x)))
           /\ Done(QuotaMaxSize(x)).pc = "enforce"
BY FailureEnds, DoneEnds DEF QuotaMaxSize

\* The end of handlePutScript and handleCheckScript keeps the invariant.
LEMMA ScriptContentStage ==
  ASSUME NEW x, Core(x), NoFinal(x), CallsSession(x), NEW v
  PROVE  CI(ScriptContent(x, v))
<1>1. ScriptContent(x, v) \in {Refused(x), Done(QuotaMaxSize(x)), Goto(x, "session")}
      BY DEF ScriptContent, Refused, Done
<1>2. CI(Refused(x)) BY RefusedEnds
<1>3. CI(Done(QuotaMaxSize(x))) BY QuotaEnds
<1>4. CI(Goto(x, "session")) BY SessionStage
<1> QED BY <1>1, <1>2, <1>3, <1>4

\* The value of a token is an argument.
LEMMA ValType == ASSUME NEW t \in Token PROVE Val(t) \in PlainArgs \cup Literals
BY DEF Val, Token, PlainArgs

\* Giving up a read ends the command with a close.
LEMMA GiveUpReadEnds ==
  ASSUME NEW x, Core(x), NoFinal(x)
  PROVE  CI(GiveUpRead(x))
<1> DEFINE a == SetReadDeadline(x, "none")
<1>1. Core(a) /\ SameBut(x, a, {"rdl", "expired"}) BY CoreDisarm
<1>2. NoFinal(a) BY <1>1 DEF NoFinal, SameBut, Fields
<1>3. GiveUpRead(x) = Done(MustClose(Write(Failed(a), "NO"), TRUE)) BY DEF GiveUpRead, Done
<1> HIDE DEF a
<1>4. End(Write(Failed(a), "NO")) BY <1>1, <1>2, FailureEnds
<1>5. End(MustClose(Write(Failed(a), "NO"), TRUE)) BY <1>4, MustCloseEnds
<1> QED BY <1>3, <1>5, DoneEnds

\* Quitting after the end of a command is safe.
LEMMA QuitEnds ==
  ASSUME NEW x, End(x), x.pc = "enforce", NEW b \in BOOLEAN,
         x.verb # "STARTTLS" \/ (b /\ (x.lastErr \/ x.wfail))
  PROVE  CI([x EXCEPT !.quit = b])
<1> DEFINE y == [x EXCEPT !.quit = b]
<1>1. x \in ConnType BY DEF End
<1>2. y \in ConnType BY <1>1, Zenon DEF ConnType
<1>3. SameBut(x, y, {"quit"}) BY <1>1 DEF ConnType, SameBut, Fields
<1> HIDE DEF y
<1>4. /\ y.pc = "enforce" /\ y.errorCount = x.errorCount
      /\ y.verb = x.verb /\ y.lastErr = x.lastErr /\ y.wfail = x.wfail
      /\ y.hijacked = x.hijacked /\ y.dispatched = x.dispatched /\ y.out = x.out
      /\ y.authenticated = x.authenticated
      BY <1>3 DEF SameBut, Fields
<1>5. DeadlineSane(y) /\ (y.authenticated => AuthAllowed(y))
      BY <1>3 DEF End, DeadlineSane, AuthAllowed, SameBut, Fields
<1>6. (OneFinal(y) <=> OneFinal(x)) /\ (SaidNo(y) <=> SaidNo(x))
      BY <1>4 DEF OneFinal, SaidNo
<1>7. y.quit = b BY <1>1 DEF ConnType, y
<1>a. y.dispatched /\ ~y.wfail =>
         (y.lastErr <=> SaidNo(y) \/ (y.verb = "STARTTLS" /\ y.quit))
      BY <1>4, <1>6, <1>7 DEF End
<1>8. End(y) BY <1>2, <1>4, <1>5, <1>6, <1>a DEF End
<1> QED BY <1>4, <1>8 DEF CI, y

\* The history of abandoned bodies does not matter.
LEMMA AbandonsBodyEnds ==
  ASSUME NEW x, End(x), x.pc = "enforce"
  PROVE  CI(AbandonsBody(x))
<1> DEFINE b == x.gated \/ CommitsBody
           y == [x EXCEPT !.gated = b]
<1>1. b \in BOOLEAN /\ x \in ConnType BY DEF End
<1>2. AbandonsBody(x) = y BY DEF AbandonsBody
<1> HIDE DEF b
<1>3. y \in ConnType BY <1>1, Zenon DEF ConnType
<1>4. SameBut(x, y, {"gated"}) BY <1>1 DEF ConnType, SameBut, Fields
<1> HIDE DEF y
<1>5. SameBut(x, y, {"pc", "closePending", "gated", "val", "args"}) /\ y.pc = "enforce"
      BY <1>4 DEF SameBut, Fields
<1>6. End(y) BY <1>3, <1>5, EndSame
<1> QED BY <1>2, <1>5, <1>6 DEF CI

\* Any connection may be closed.
LEMMA ClosesEnded ==
  ASSUME NEW x, Core(x) \/ End(x) \/ Ended(x)
  PROVE  CI(Goto(x, "closed"))
<1>1. x \in ConnType BY DEF Core, End, Ended
<1>2. "closed" \in Pcs BY DEF Pcs
<1>3. /\ Goto(x, "closed") \in ConnType /\ SameBut(x, Goto(x, "closed"), {"pc"})
      /\ Goto(x, "closed").pc = "closed"
      BY <1>1, <1>2, GotoSpec
<1>4. SameBut(x, Goto(x, "closed"), Parting)
      BY <1>3 DEF SameBut, Parting, Fields
<1>5. Ended(Goto(x, "closed")) BY <1>3, <1>4, EndedSame
<1> QED BY <1>3, <1>5 DEF CI

\* The enforcement lets a connection go on only without closePending and
\* within MaxErrors.
LEMMA VerdictSpec ==
  ASSUME NEW x, End(x)
  PROVE  /\ Verdict(x) \in ConnType
         /\ SameBut(x, Verdict(x), {"out", "dirty", "quit"})
         /\ ~Verdict(x).quit => Verdict(x) = x /\ ~x.closePending /\ ~MaxErrorsExceeded(x)
<1>1. x \in ConnType BY DEF End
<1>2. CASE x.quit \/ x.closePending
  <2>1. Verdict(x) = AndQuit(x) BY <1>2 DEF Verdict
  <2>2. AndQuit(x) \in ConnType /\ SameBut(x, AndQuit(x), {"quit"}) /\ AndQuit(x).quit
        BY <1>1, AndQuitSpec
  <2> QED BY <2>1, <2>2 DEF SameBut, Fields
<1>3. CASE ~(x.quit \/ x.closePending) /\ MaxErrorsExceeded(x)
  <2> DEFINE w == Write(x, "BYE-errs")
  <2>1. Verdict(x) = AndQuit(w) BY <1>3 DEF Verdict
  <2>2. "BYE-errs" \in Replies BY DEF Replies, Byes
  <2>3. w \in ConnType /\ SameBut(x, w, {"out", "dirty"}) BY <1>1, <2>2, WriteSpec
  <2> HIDE DEF w
  <2>4. AndQuit(w) \in ConnType /\ SameBut(w, AndQuit(w), {"quit"}) /\ AndQuit(w).quit
        BY <2>3, AndQuitSpec
  <2> QED BY <2>1, <2>3, <2>4 DEF SameBut, Fields
<1>4. CASE ~(x.quit \/ x.closePending) /\ ~MaxErrorsExceeded(x)
      BY <1>1, <1>4 DEF Verdict, SameBut
<1> QED BY <1>2, <1>3, <1>4

\* Changes of the deadline that keep it sane keep the invariant.
LEMMA TimersKeepCI ==
  ASSUME NEW x, NEW y \in ConnType, CI(x), DeadlineSane(y),
         SameBut(x, y, {"poisoned", "rdl", "expired", "kicked"}),
         ~y.poisoned => ~x.poisoned /\ y.rdl = x.rdl
  PROVE  CI(y)
<1>1. /\ y.pc = x.pc /\ y.out = x.out
      /\ NoFinal(x) => NoFinal(y)
      /\ OneFinal(x) => OneFinal(y)
      /\ SaidNo(x) <=> SaidNo(y)
      /\ AuthAllowed(x) => AuthAllowed(y)
      BY DEF NoFinal, OneFinal, SaidNo, AuthAllowed, SameBut, Fields
<1>2. CASE x.pc \notin {"enforce", "closed"}
  <2>1. Core(x) /\ Stage(x) BY <1>2 DEF CI
  <2>2. Core(y) BY <1>1, <2>1 DEF Core, SameBut, Fields
  <2>3. Stage(y) BY <1>1, <2>1 DEF Stage, SameBut, Fields
  <2> QED BY <1>1, <1>2, <2>2, <2>3 DEF CI
<1>3. CASE x.pc = "enforce"
  <2>1. End(x) BY <1>3 DEF CI
  <2>2. End(y) BY <1>1, <2>1 DEF End, SameBut, Fields
  <2> QED BY <1>1, <1>3, <2>2 DEF CI
<1>4. CASE x.pc = "closed"
  <2>1. Ended(x) BY <1>4 DEF CI
  <2>2. Ended(y) BY <1>1, <2>1 DEF Ended, SameBut, Fields
  <2> QED BY <1>1, <1>4, <2>2 DEF CI
<1> QED BY <1>2, <1>3, <1>4
===============================================================================
