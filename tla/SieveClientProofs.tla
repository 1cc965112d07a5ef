-------------------------- MODULE SieveClientProofs --------------------------
(***************************************************************************)
(* The safety theorems of SieveClient, for any number of operations and    *)
(* capability lines.                                                       *)
(***************************************************************************)
EXTENDS SieveClient, SequenceTheorems, TLAPS

Hows    == {"none", "ok", "refused", "toolong", "timeout", "error"}
Results == [op : 0 .. MaxOps, line : Line, how : Hows]
Errors  == [op : 0 .. MaxOps, how : {"none", "timeout", "error"}]
Cmds    == [cmd : Nat, kind : Kinds \cup {"STARTTLS"}]

-----------------------------------------------------------------------------
(***************************************************************************)
(* Lines and tokens.                                                       *)
(***************************************************************************)
LEMMA LineFields ==
  ASSUME NEW l \in Line
  PROVE  /\ l.cmd \in Nat /\ l.says \in Says /\ l.tls \in BOOLEAN /\ l.of \in Nat
         /\ l.cut \in BOOLEAN
BY DEF Line

LEMMA TokenFields == ASSUME NEW t \in Token PROVE t.line \in Line /\ t.part \in {"head", "tail"}
BY DEF Token

LEMMA NoLineIsLine == NoLine \in Line
BY Zenon DEF NoLine, Line, Says

\* A fragment of a line is of that line.
LEMMA Fragment ==
  ASSUME NEW l \in Line, NEW s \in Says
  PROVE  /\ [l EXCEPT !.says = s] \in Line /\ [l EXCEPT !.says = s].tls = l.tls
         /\ [l EXCEPT !.says = s, !.cut = TRUE] \in Line
         /\ [l EXCEPT !.says = s, !.cut = TRUE].tls = l.tls
BY Zenon DEF Line

LEMMA ResultIs ==
  ASSUME NEW o \in 0 .. MaxOps, NEW h \in Hows, NEW l \in Line
  PROVE  LET r == [op |-> o, how |-> h, line |-> l]
         IN  r \in Results /\ r.op = o /\ r.how = h /\ r.line = l
BY DEF Results

\* The two tokens of one line, as the server sends it now.
OneLine(q, k, s, n) ==
    /\ q \in Seq(Token) /\ Len(q) = 2
    /\ q[1].part = "head" /\ q[2].part = "tail" /\ q[2].line = q[1].line
    /\ q[1].line.cmd = k /\ q[1].line.says = s /\ q[1].line.tls = tls /\ q[1].line.of = n

LEMMA SendsIs ==
  ASSUME NEW k \in Nat, NEW s \in Says, NEW n \in Nat, tls \in BOOLEAN
  PROVE  OneLine(Sends(k, s, n), k, s, n)
<1> DEFINE l == [cmd |-> k, says |-> s, tls |-> tls, of |-> n, cut |-> FALSE]
           h == [line |-> l, part |-> "head"]
           t == [line |-> l, part |-> "tail"]
<1>1. l \in Line /\ l.cmd = k /\ l.says = s /\ l.tls = tls /\ l.of = n BY Zenon DEF Line
<1>2. Sends(k, s, n) = <<h, t>> BY DEF Sends
<1> HIDE DEF l
<1>3. h \in Token /\ t \in Token /\ h.line = l /\ h.part = "head" /\ t.line = l /\ t.part = "tail"
      BY <1>1 DEF Token
<1>4. <<h, t>> \in Seq(Token) /\ Len(<<h, t>>) = 2 /\ <<h, t>>[1] = h /\ <<h, t>>[2] = t
      BY <1>3
<1> QED BY <1>1, <1>2, <1>3, <1>4 DEF OneLine

-----------------------------------------------------------------------------
(***************************************************************************)
(* What an operation does with a line, by outcome.                         *)
(***************************************************************************)
\* The capability block is complete, and the operation with it.
TakesCaps(l) ==
    /\ stage = "caps" /\ l.says = "OK"
    /\ caps' = Append(block, l) /\ block' = <<>> /\ Ends("ok", l) /\ UNCHANGED stage

\* The block is complete; NewClient goes on to STARTTLS.
Upgrades(l) ==
    /\ stage = "caps" /\ l.says = "OK" /\ kind = "NEWCLIENT" /\ ~tls
    /\ caps' = Append(block, l) /\ block' = <<>>
    /\ pc' = "armw" /\ stage' = "tlsok" /\ UNCHANGED result

\* One more line of the block.
Collects(l) ==
    /\ stage = "caps" /\ l.says \notin {"OK", "NO", "BYE"}
    /\ block' = Append(block, l) /\ pc' = "armr" /\ UNCHANGED <<caps, stage, result>>

\* One line too many.
Overflows(l) ==
    /\ stage = "caps" /\ l.says \notin {"OK", "NO", "BYE"}
    /\ block' = Append(block, l) /\ Ends("toolong", NoLine) /\ UNCHANGED <<caps, stage>>

\* The line is what the operation returns.
Gives(l) ==
    /\ stage = "caps" => l.says \in {"NO", "BYE"}
    /\ stage = "tlsok" => l.says # "OK"
    /\ \E h \in {"ok", "refused"} : Ends(h, l) /\ (h = "ok" => stage = "status")
    /\ UNCHANGED <<caps, block, stage>>

\* The server is ready for the handshake.
StartsTLS(l) ==
    /\ stage = "tlsok" /\ l.says = "OK" /\ pc' = "tlsdl"
    /\ UNCHANGED <<caps, block, stage, result>>

LEMMA UseLineIs ==
  ASSUME stage \in Stages, NEW l, UseLine(l)
  PROVE  \/ TakesCaps(l) \/ Upgrades(l) \/ Collects(l) \/ Overflows(l) \/ Gives(l)
         \/ StartsTLS(l)
<1>1. CASE stage = "caps"
  <2>1. CapabilityLine(l) BY <1>1 DEF UseLine
  <2>2. CASE l.says = "OK" BY <1>1, <2>1, <2>2 DEF CapabilityLine, TakesCaps, Upgrades
  <2>3. CASE l.says \in {"NO", "BYE"} BY <1>1, <2>1, <2>3 DEF CapabilityLine, Gives
  <2>4. CASE l.says \notin {"OK", "NO", "BYE"}
        BY <1>1, <2>1, <2>4 DEF CapabilityLine, Collects, Overflows
  <2> QED BY <2>2, <2>3, <2>4
<1>2. CASE stage = "tlsok"
  <2>1. StartTLSLine(l) BY <1>2 DEF UseLine
  <2> QED BY <1>2, <2>1 DEF StartTLSLine, Gives, StartsTLS
<1>3. CASE stage = "status"
  <2>1. StatusLine(l) BY <1>3 DEF UseLine
  <2> QED BY <1>3, <2>1 DEF StatusLine, Gives
<1> QED BY <1>1, <1>2, <1>3 DEF Stages

-----------------------------------------------------------------------------
(***************************************************************************)
(* The inductive invariant, part by part.                                  *)
(***************************************************************************)
\* What the program counter, the kind and the stage of an operation say of one
\* another: NewClient is operation 1, and only it does STARTTLS.
Phases ==
    /\ inbox \in Seq(Cmds)
    /\ (pc = "new") <=> (op = 0)
    /\ (kind = "NEWCLIENT") <=> (op <= 1)
    /\ result.op <= op /\ (result.op = 0 => result.how = "none")
    /\ pc \in {"new", "implicit"} => stage = "caps"
    /\ pc = "new" => inbox = <<>>
    /\ pc \in {"tlsdl", "handshake"} => stage = "tlsok"
    /\ pc \in {"implicit", "tlsdl", "handshake"} => kind = "NEWCLIENT"
    /\ stage = "tlsok" => kind = "NEWCLIENT"
    /\ stage = "status" => kind \in {"AUTHENTICATE", "CMD"}
    /\ stage = "caps" => kind \in {"NEWCLIENT", "CAPABILITY"}
    /\ pc \in {"armw", "write"} /\ kind = "NEWCLIENT" => stage = "tlsok"

\* A context that is done was done in flight, or after its operation stopped.
Doneness ==
    /\ expired \subseteq over /\ inFlight \subseteq over
    /\ over \ stopped \subseteq inFlight
    /\ NoLateKick

\* NewClient has failed: the client is closed next.
Failed == kind = "NEWCLIENT" /\ result.how # "ok"

InUse == pc \in {"armw", "write", "armr", "read", "idle"} \/ (pc = "stop" /\ ~Failed)

\* Only the poison puts a deadline into the past, and only the caller takes it
\* out of there.
Poison ==
    /\ rdl = Past \/ wdl = Past => poisoned
    /\ poisoned /\ ~revived /\ InUse => rdl = Past /\ wdl = Past

\* The writer's error is that of an operation before, once another one writes.
WriterKeeps ==
    werr.how # "none" =>
       werr.op \in 1 .. op /\ (werr.op = op => pc \in {"stop", "idle", "closed"})

\* An operation whose context has a deadline reads and writes under that one.
Armed ==
    /\ WriterKeeps
    /\ pc = "write" /\ HasDeadline /\ ~poisoned => wdl = op
    /\ pc = "read" /\ HasDeadline /\ ~poisoned => rdl = op
    /\ OwnDeadlineRules

\* NewClient is done with, or about to succeed.
Ready == kind # "NEWCLIENT" \/ pc = "idle" \/ (pc = "stop" /\ result.how = "ok")

Sealed(q)       == \A i \in DOMAIN q : q[i].tls
SealedTokens(q) == \A i \in DOMAIN q : q[i].line.tls

\* Under TLS nothing that came in the clear is left to be read.
Clear ==
    /\ tls => Sealed(block) /\ SealedTokens(buf) /\ SealedTokens(net)
    /\ pc \in {"new", "implicit"} => buf = <<>> /\ block = <<>> /\ ~tls
    /\ pc \in {"new", "implicit"} /\ ~eof => net = <<>>
    /\ stage = "tlsok" \/ pc \in {"armw", "write"} => block = <<>>
    /\ tls /\ Ready => Sealed(caps)
    /\ tls /\ pc = "stop" /\ result.how = "ok" => result.line.tls

-----------------------------------------------------------------------------
(***************************************************************************)
(* Types.                                                                  *)
(***************************************************************************)
\* TypeOK, by what the provers can take at once.
Flags   == /\ poisoned \in BOOLEAN /\ tls \in BOOLEAN /\ eof \in BOOLEAN
           /\ disturbed \in BOOLEAN /\ leftover \in BOOLEAN /\ revived \in BOOLEAN
Control == /\ pc \in Pcs /\ mode \in Modes /\ op \in 0 .. MaxOps /\ kind \in Kinds
           /\ stage \in Stages /\ result \in Results /\ werr \in Errors
Times   == /\ ctx \in [Ops -> Contexts]
           /\ over \cup expired \cup inFlight \cup guards \cup stopped \subseteq 1 .. op
           /\ rdl \in Deadlines /\ wdl \in Deadlines
Data    == /\ caps \in Seq(Line) /\ block \in Seq(Line) /\ ncmd \in Nat
           /\ buf \in Seq(Token) /\ net \in Seq(Token)

LEMMA TypeParts == TypeOK <=> Flags /\ Control /\ Times /\ Data
BY Zenon DEF TypeOK, Flags, Control, Times, Data, Results, Hows, Errors

LEMMA TypePartsNext == TypeOK' <=> Flags' /\ Control' /\ Times' /\ Data'
BY Zenon DEF TypeOK, Flags, Control, Times, Data, Results, Hows, Errors

LEMMA InitTypes == ASSUME Init PROVE TypeOK /\ Phases
<1>1. result \in Results /\ result.op = 0 /\ result.how = "none"
      BY NoLineIsLine, ClientAssumption, ResultIs DEF Init, Hows
<1>2. Flags BY Zenon DEF Init, Flags
<1>7. werr \in Errors BY ClientAssumption DEF Init, Errors, NoErr
<1>3. Control BY <1>1, <1>7, ClientAssumption DEF Init, Control, Pcs, Kinds, Stages
<1>4. Times BY DEF Init, Times, Deadlines, Contexts
<1>5. Data BY DEF Init, Data
<1>6. Phases BY <1>1 DEF Init, Phases
<1> QED BY <1>2, <1>3, <1>4, <1>5, <1>6, TypeParts

\* An operation returns.
LEMMA EndsTypes ==
  ASSUME TypeOK, NEW h \in Hows, NEW l \in Line, Ends(h, l)
  PROVE  pc' = "stop" /\ result' \in Results /\ result'.op = op /\ result'.how = h /\ result'.line = l
<1>1. op \in 0 .. MaxOps BY DEF TypeOK
<1> QED BY <1>1, ResultIs DEF Ends

LEMMA UseLineTypes ==
  ASSUME TypeOK, Phases, NEW l \in Line, UseLine(l), pc = "read"
  PROVE  /\ caps' \in Seq(Line) /\ block' \in Seq(Line) /\ result' \in Results
         /\ result'.op = op \/ UNCHANGED result
         /\ pc' \in {"stop", "armr", "armw", "tlsdl"}
         /\ stage' = stage \/ (stage = "caps" /\ stage' = "tlsok" /\ kind = "NEWCLIENT")
         /\ pc' = "tlsdl" => stage' = "tlsok"
         /\ pc' = "armw" => stage' = "tlsok"
<1>1. /\ stage \in Stages /\ block \in Seq(Line) /\ caps \in Seq(Line) /\ op \in 0 .. MaxOps
      /\ result \in Results /\ result.op <= op
      BY DEF TypeOK, Phases, Results, Hows
<1>2. Append(block, l) \in Seq(Line) /\ <<>> \in Seq(Line) BY <1>1
<1>3. {"ok", "refused", "toolong"} \subseteq Hows BY DEF Hows
<1>5. CASE TakesCaps(l) BY <1>1, <1>2, <1>3, <1>5, EndsTypes DEF TakesCaps
<1>6. CASE Upgrades(l) BY <1>1, <1>2, <1>6 DEF Upgrades
<1>7. CASE Collects(l) BY <1>1, <1>2, <1>7 DEF Collects
<1>8. CASE Overflows(l) BY <1>1, <1>2, <1>3, <1>8, EndsTypes, NoLineIsLine DEF Overflows
<1>9. CASE Gives(l) BY <1>1, <1>3, <1>9, EndsTypes DEF Gives
<1>10. CASE StartsTLS(l) BY <1>1, <1>10 DEF StartsTLS
<1> QED BY <1>1, <1>5, <1>6, <1>7, <1>8, <1>9, <1>10, UseLineIs

\* The actions, in the groups that the proofs below go by.
LEMMA Steps ==
  ASSUME Next
  PROVE  \/ Stop \/ ArmWrite \/ ArmRead \/ TLSDeadline \/ ClearDeadlines
         \/ WriteFails \/ ReadTooLong \/ ReadFails \/ HandshakeFails
         \/ ImplicitFails \/ CloseClient
         \/ ReadLine \/ ReadCut
         \/ \E x \in Contexts : NewClient(x) \/ \E k \in Kinds : Begin(k, x)
         \/ ImplicitSucceeds \/ HandshakeSucceeds \/ WriteCmd \/ Fill
         \/ \E i \in Ops : Cancel(i) \/ Expire(i) \/ SocketExpires(i) \/ GuardFires(i) \/ GuardExits(i)
         \/ ServerAnswers \/ ServerCloses
BY Zenon DEF Next, ClientStep, GuardStep

LEMMA FlagsKept == ASSUME Flags, Next PROVE Flags'
<1> USE DEF Flags, opVars, lockVars, netVars
<1>1. CASE Stop \/ ArmWrite \/ ArmRead \/ TLSDeadline \/ ClearDeadlines \/ ImplicitFails
           \/ CloseClient \/ WriteCmd \/ Fill \/ ServerAnswers
  BY <1>1, Zenon DEF Stop, ArmWrite, ArmRead, TLSDeadline, ClearDeadlines, ImplicitFails,
     CloseClient, WriteCmd, Fill, ServerAnswers
<1>2. CASE WriteFails \/ ReadTooLong \/ ReadFails \/ HandshakeFails \/ ReadCut
  BY <1>2, Zenon DEF WriteFails, ReadTooLong, ReadFails, HandshakeFails, ReadCut
<1>3. CASE ReadLine BY <1>3, Zenon DEF ReadLine
<1>4. CASE \E x \in Contexts : NewClient(x) \/ \E k \in Kinds : Begin(k, x)
  BY <1>4, Zenon DEF NewClient, Begin
<1>5. CASE ImplicitSucceeds \/ HandshakeSucceeds BY <1>5, Zenon DEF ImplicitSucceeds, HandshakeSucceeds
<1>6. CASE \E i \in Ops : Cancel(i) \/ Expire(i) \/ SocketExpires(i)
  BY <1>6, Zenon DEF Cancel, Expire, SocketExpires, Done
<1>7. CASE \E i \in Ops : GuardFires(i) \/ GuardExits(i)
  BY <1>7, Zenon DEF GuardFires, GuardExits
<1>8. CASE ServerCloses BY <1>8, Zenon DEF ServerCloses
<1> QED BY <1>1, <1>2, <1>3, <1>4, <1>5, <1>6, <1>7, <1>8, Steps

\* What the client reads.
LEMMA BufTokens == ASSUME TypeOK, Phases, NEW i \in DOMAIN buf PROVE buf[i] \in Token /\ buf[i].line \in Line
<1>1. buf \in Seq(Token) BY DEF TypeOK
<1>2. buf[i] \in Token BY <1>1
<1> QED BY <1>2, TokenFields

\* The line that ReadLine and ReadCut hand on.
LEMMA ReadLineIs ==
  ASSUME TypeOK, Phases, ReadLine
  PROVE  \E l \in Line :
            /\ UseLine(l) /\ l.tls = buf[1].line.tls /\ 1 \in DOMAIN buf
            /\ buf' = Tail(buf) \/ (Len(buf) > 1 /\ buf' = SubSeq(buf, 3, Len(buf)))
            /\ buf[1].part = "head" =>
                  l = buf[1].line /\ Len(buf) > 1 /\ buf' = SubSeq(buf, 3, Len(buf))
<1>1. buf \in Seq(Token) BY DEF TypeOK
<1>2. buf # <<>> BY <1>1 DEF ReadLine, HasLine
<1>3. 1 \in DOMAIN buf BY <1>1, <1>2
<1>4. buf[1] \in Token /\ buf[1].line \in Line BY <1>3, BufTokens
<1> DEFINE l == [buf[1].line EXCEPT !.says = "junk"]
<1>5. l \in Line /\ l.tls = buf[1].line.tls BY <1>4, Fragment DEF Says
<1>6. CASE buf[1].part = "tail"
  <2>1. buf' = Tail(buf) /\ UseLine(l) BY <1>6 DEF ReadLine
  <2> HIDE DEF l
  <2> QED BY <1>3, <1>5, <1>6, <2>1
<1>7. CASE buf[1].part # "tail"
  <2>1. buf' = SubSeq(buf, 3, Len(buf)) /\ UseLine(buf[1].line)
        BY <1>7, Zenon DEF ReadLine
  <2>3. buf[1].part = "head" BY <1>4, <1>7, TokenFields
  <2>2. Len(buf) > 1 BY <1>7, <2>3 DEF ReadLine, HasLine
  <2> QED BY <1>3, <1>4, <2>1, <2>2
<1> QED BY <1>6, <1>7

LEMMA ReadCutIs ==
  ASSUME TypeOK, Phases, ReadCut
  PROVE  \E l \in Line : UseLine(l) /\ l.tls = buf[1].line.tls /\ 1 \in DOMAIN buf
<1>1. buf \in Seq(Token) /\ buf # <<>> BY DEF TypeOK, ReadCut
<1>2. 1 \in DOMAIN buf BY <1>1
<1>3. buf[1].line \in Line BY <1>2, BufTokens
<1>4. PICK s \in {buf[1].line.says, "junk"} :
         UseLine([buf[1].line EXCEPT !.says = s, !.cut = TRUE])
      BY DEF ReadCut
<1>5. s \in Says BY <1>3, LineFields DEF Says
<1> DEFINE l == [buf[1].line EXCEPT !.says = s, !.cut = TRUE]
<1>6. l \in Line /\ l.tls = buf[1].line.tls BY <1>3, <1>5, Fragment
<1>7. UseLine(l) BY <1>4
<1> HIDE DEF l
<1> QED BY <1>2, <1>6, <1>7

\* Both end in one of six ways.
LEMMA ReadsTypes ==
  ASSUME TypeOK, Phases, ReadLine \/ ReadCut
  PROVE  /\ caps' \in Seq(Line) /\ block' \in Seq(Line) /\ result' \in Results
         /\ result'.op = op \/ UNCHANGED result
         /\ pc' \in {"stop", "armr", "armw", "tlsdl"}
         /\ stage' = stage \/ (stage = "caps" /\ stage' = "tlsok" /\ kind = "NEWCLIENT")
         /\ pc' = "tlsdl" => stage' = "tlsok"
         /\ pc' = "armw" => stage' = "tlsok"
<1>1. pc = "read" BY DEF ReadLine, ReadCut, SocketFails
<1>2. PICK l \in Line : UseLine(l) BY ReadLineIs, ReadCutIs
<1> QED BY <1>1, <1>2, UseLineTypes

\* The actions that end an operation with an error.
LEMMA FailsTypes ==
  ASSUME TypeOK, WriteFails \/ ReadTooLong \/ ReadFails \/ HandshakeFails
  PROVE  /\ pc' = "stop" /\ result' \in Results /\ result'.op = op /\ result'.line = NoLine
         /\ result'.how \in {"toolong", "timeout", "error"}
         /\ disturbed' = TRUE \/ ReadTooLong
         /\ WriteFails => result'.how = werr'.how
         /\ werr' \in Errors /\ UNCHANGED <<mode, op, kind, stage>>
<1>1. {"toolong", "timeout", "error"} \subseteq Hows BY DEF Hows
<1>0. werr \in Errors /\ op \in 0 .. MaxOps BY DEF TypeOK, Errors
<1>5. werr' \in Errors /\ (WriteFails => werr'.how \in {"timeout", "error"})
  <2>1. CASE WriteFails
    <3>1. CASE werr.how # "none" BY <1>0, <2>1, <3>1 DEF WriteFails, Errors
    <3>2. CASE werr.how = "none"
      <4>1. PICK h \in {"timeout", "error"} : werr' = [op |-> op, how |-> h]
            BY <2>1, <3>2 DEF WriteFails
      <4> QED BY <1>0, <4>1 DEF Errors
    <3> QED BY <3>1, <3>2
  <2>2. CASE ~WriteFails
        BY <1>0, <2>2 DEF ReadTooLong, ReadFails, HandshakeFails
  <2> QED BY <2>1, <2>2
<1>2. PICK h \in {"toolong", "timeout", "error"} :
         Ends(h, NoLine) /\ (WriteFails => h = werr'.how)
  <2>1. CASE WriteFails BY <1>5, <2>1 DEF WriteFails
  <2>2. CASE ~WriteFails BY <2>2 DEF ReadTooLong, ReadFails, HandshakeFails
  <2> QED BY <2>1, <2>2
<1>3. pc' = "stop" /\ result' \in Results /\ result'.op = op /\ result'.how = h /\ result'.line = NoLine
      BY <1>1, <1>2, NoLineIsLine, EndsTypes
<1>4. (disturbed' = TRUE \/ ReadTooLong) /\ UNCHANGED <<mode, op, kind, stage>>
      BY Zenon DEF WriteFails, ReadTooLong, ReadFails, HandshakeFails
<1> QED BY <1>2, <1>3, <1>4, <1>5

LEMMA ControlKept == ASSUME TypeOK, Phases, Next PROVE Control' /\ Phases'
<1>0. /\ Control /\ MaxOps \in Nat \ {0} /\ inbox \in Seq(Cmds) /\ ncmd \in Nat
      /\ result.op \in 0 .. MaxOps
      BY TypeParts, ClientAssumption DEF Data, Phases, Control, Results
<1> USE DEF Control, Phases, Pcs, Kinds, Stages, opVars, netVars
<1>1. CASE Stop \/ ArmWrite \/ ArmRead \/ TLSDeadline \/ ClearDeadlines \/ ImplicitFails
           \/ CloseClient
  BY <1>0, <1>1 DEF Stop, ArmWrite, ArmRead, TLSDeadline, ClearDeadlines, ImplicitFails,
     CloseClient
<1>2. CASE Fill \/ \E i \in Ops : Cancel(i) \/ Expire(i) \/ SocketExpires(i) \/ GuardFires(i) \/ GuardExits(i)
  BY <1>0, <1>2 DEF Fill, Cancel, Expire, SocketExpires, Done, GuardFires, GuardExits
<1>3. CASE WriteFails \/ ReadTooLong \/ ReadFails \/ HandshakeFails
  <2>1. UNCHANGED inbox BY <1>3 DEF WriteFails, ReadTooLong, ReadFails, HandshakeFails
  <2>2. pc # "new" BY <1>3 DEF WriteFails, ReadTooLong, ReadFails, HandshakeFails, SocketFails
  <2>3. /\ pc' = "stop" /\ result' \in Results /\ result'.op = op
        /\ werr' \in Errors /\ UNCHANGED <<mode, op, kind, stage>>
        BY <1>3, FailsTypes
  <2>4. Control' BY <1>0, <2>3
  <2>5. Phases' BY <1>0, <2>1, <2>2, <2>3
  <2> QED BY <2>4, <2>5
<1>4. CASE ReadLine \/ ReadCut
  <2>1. pc = "read" /\ UNCHANGED <<mode, op, kind, inbox, werr>>
        BY <1>4 DEF ReadLine, ReadCut, SocketFails
  <2> QED BY <1>0, <1>4, <2>1, ReadsTypes
<1>5. ASSUME NEW x \in Contexts, NewClient(x) PROVE Control' /\ Phases'
  <2>1. [cmd |-> 0, kind |-> "CAPABILITY"] \in Cmds BY DEF Cmds
  <2>2. inbox' \in Seq(Cmds) BY <1>5, <2>1 DEF NewClient
  <2> QED BY <1>0, <1>5, <2>2 DEF NewClient
<1>6. ASSUME NEW x \in Contexts, NEW k \in Kinds, Begin(k, x) PROVE Control' /\ Phases'
  BY <1>0, <1>6 DEF Begin
<1>7. CASE ImplicitSucceeds BY <1>0, <1>7 DEF ImplicitSucceeds
<1>8. CASE HandshakeSucceeds
  <2>1. [cmd |-> ncmd, kind |-> "CAPABILITY"] \in Cmds BY <1>0 DEF Cmds
  <2>2. inbox' \in Seq(Cmds) BY <1>0, <1>8, <2>1 DEF HandshakeSucceeds
  <2>3. NoErr \in Errors BY <1>0 DEF NoErr, Errors
  <2> QED BY <1>0, <1>8, <2>2, <2>3 DEF HandshakeSucceeds
<1>9. CASE WriteCmd
  <2> DEFINE c == [cmd |-> ncmd + 1, kind |-> IF stage = "tlsok" THEN "STARTTLS" ELSE kind]
  <2>1. c \in Cmds BY <1>0 DEF Cmds
  <2>2. inbox' = Append(inbox, c) BY <1>9 DEF WriteCmd
  <2> HIDE DEF c
  <2>3. inbox' \in Seq(Cmds) BY <1>0, <2>1, <2>2
  <2> QED BY <1>0, <1>9, <2>3 DEF WriteCmd
<1>10. CASE ServerAnswers \/ ServerCloses
  <2>0. inbox # <<>> => Tail(inbox) \in Seq(Cmds) BY <1>0
  <2>1. inbox' \in Seq(Cmds) BY <1>0, <1>10, <2>0 DEF ServerAnswers, ServerCloses
  <2>2. pc = "new" => inbox' = inbox BY <1>10 DEF ServerAnswers, ServerCloses
  <2> QED BY <1>0, <1>10, <2>1, <2>2 DEF ServerAnswers, ServerCloses
<1> QED BY <1>1, <1>2, <1>3, <1>4, <1>5, <1>6, <1>7, <1>8, <1>9, <1>10, Steps

LEMMA TimesKept == ASSUME TypeOK, Phases, Next PROVE Times'
<1>0. /\ Times /\ op \in 0 .. MaxOps /\ MaxOps \in Nat \ {0} /\ (pc = "new" <=> op = 0)
      BY TypeParts, ClientAssumption DEF Control, Phases
<1> USE DEF Times, Deadlines, Ops, opVars, ctxVars, lockVars
<1>1. CASE Stop \/ ClearDeadlines \/ ImplicitFails \/ CloseClient
  BY <1>0, <1>1 DEF Stop, ClearDeadlines, ImplicitFails, CloseClient
<1>2. CASE ArmWrite \/ ArmRead \/ TLSDeadline
  BY <1>0, <1>2 DEF ArmWrite, ArmRead, TLSDeadline, Arm, HasDeadline
<1>3. CASE Fill \/ WriteCmd \/ ServerAnswers \/ ServerCloses
  BY <1>0, <1>3 DEF Fill, WriteCmd, ServerAnswers, ServerCloses
<1>4. CASE WriteFails \/ ReadTooLong \/ ReadFails \/ HandshakeFails \/ ReadLine \/ ReadCut
  BY <1>0, <1>4 DEF WriteFails, ReadTooLong, ReadFails, HandshakeFails, ReadLine, ReadCut
<1>5. ASSUME NEW x \in Contexts, NewClient(x) PROVE Times'
  BY <1>0, <1>5 DEF NewClient, Guarded
<1>6. ASSUME NEW x \in Contexts, NEW k \in Kinds, Begin(k, x) PROVE Times'
  <2>1. /\ op' = op + 1 /\ op < MaxOps /\ ctx' = [ctx EXCEPT ![op + 1] = x]
        /\ UNCHANGED <<over, expired, inFlight, stopped, rdl, wdl>>
        /\ guards' \subseteq guards \cup {op + 1}
        BY <1>6 DEF Begin, Guarded
  <2>2. \A i \in Ops : i <= op => ctx'[i] = ctx[i] BY <1>0, <2>1
  <2> QED BY <1>0, <2>1, <2>2
<1>7. CASE ImplicitSucceeds \/ HandshakeSucceeds
  BY <1>0, <1>7 DEF ImplicitSucceeds, HandshakeSucceeds, Guarded
<1>8. CASE \E i \in Ops : Cancel(i) \/ Expire(i) \/ SocketExpires(i)
  BY <1>0, <1>8 DEF Cancel, Expire, SocketExpires, Done
<1>9. CASE \E i \in Ops : GuardFires(i) \/ GuardExits(i)
  BY <1>0, <1>9 DEF GuardFires, GuardExits
<1> QED BY <1>1, <1>2, <1>3, <1>4, <1>5, <1>6, <1>7, <1>8, <1>9, Steps

\* What the server sends.
LEMMA AnswersTypes ==
  ASSUME NEW c \in Cmds, tls \in BOOLEAN, NEW r \in Answers(c)
  PROVE  r \in Seq(Token)
<1>1. c.cmd \in Nat BY DEF Cmds
<1>2. \A s \in Says, n \in {0, 1, 2} : Sends(c.cmd, s, n) \in Seq(Token)
  <2> SUFFICES ASSUME NEW s \in Says, NEW n \in {0, 1, 2}
               PROVE  Sends(c.cmd, s, n) \in Seq(Token)
      OBVIOUS
  <2>1. n \in Nat OBVIOUS
  <2> QED BY <1>1, <2>1, SendsIs DEF OneLine
<1>3. {"cap", "OK", "NO", "long"} \subseteq Says BY DEF Says
<1>4. r \in {Sends(c.cmd, "NO", 0), Sends(c.cmd, "OK", 0),
             Sends(c.cmd, "cap", 0) \o Sends(c.cmd, "OK", 1),
             Sends(c.cmd, "cap", 0) \o Sends(c.cmd, "cap", 0) \o Sends(c.cmd, "OK", 2),
             Sends(c.cmd, "OK", 0) \o Sends(c.cmd, "OK", 0),
             Sends(c.cmd, "long", 0)}
      BY DEF Answers
<1>5. \A p, q \in Seq(Token) : p \o q \in Seq(Token) OBVIOUS
<1> HIDE DEF Sends
<1> QED BY <1>2, <1>3, <1>4, <1>5

LEMMA DataKept == ASSUME TypeOK, Phases, Next PROVE Data'
<1>0. /\ Data /\ inbox \in Seq(Cmds) /\ tls \in BOOLEAN BY TypeParts DEF Phases, Flags
<1> USE DEF Data, opVars, netVars
<1>1. CASE Stop \/ ArmWrite \/ ArmRead \/ TLSDeadline \/ ClearDeadlines \/ ImplicitFails
           \/ CloseClient
  BY <1>0, <1>1 DEF Stop, ArmWrite, ArmRead, TLSDeadline, ClearDeadlines, ImplicitFails,
     CloseClient
<1>2. CASE \E i \in Ops : Cancel(i) \/ Expire(i) \/ SocketExpires(i) \/ GuardFires(i) \/ GuardExits(i)
  BY <1>0, <1>2 DEF Cancel, Expire, SocketExpires, Done, GuardFires, GuardExits
<1>3. CASE WriteFails \/ ReadFails \/ HandshakeFails \/ WriteCmd \/ ImplicitSucceeds
           \/ HandshakeSucceeds
  BY <1>0, <1>3 DEF WriteFails, ReadFails, HandshakeFails, WriteCmd, ImplicitSucceeds,
     HandshakeSucceeds
<1>4. CASE ReadTooLong
  <2>1. buf # <<>> BY <1>0, <1>4 DEF ReadTooLong, HasLine
  <2>2. Tail(buf) \in Seq(Token) /\ SubSeq(buf, 3, Len(buf)) \in Seq(Token) BY <1>0, <2>1
  <2> QED BY <1>0, <1>4, <2>2 DEF ReadTooLong
<1>5. CASE ReadLine
  <2>1. PICK l \in Line : /\ 1 \in DOMAIN buf
                          /\ \/ buf' = Tail(buf)
                             \/ Len(buf) > 1 /\ buf' = SubSeq(buf, 3, Len(buf))
        BY <1>5, ReadLineIs
  <2>2. buf' \in Seq(Token)
    <3>1. buf # <<>> /\ Len(buf) \in Nat BY <1>0, <2>1
    <3>2. Tail(buf) \in Seq(Token) BY <1>0, <3>1
    <3>3. SubSeq(buf, 3, Len(buf)) \in Seq(Token) BY <1>0, <3>1
    <3> QED BY <2>1, <3>2, <3>3
  <2> QED BY <1>0, <1>5, <2>2, ReadsTypes DEF ReadLine
<1>6. CASE ReadCut
  <2>1. buf' = <<>> /\ UNCHANGED <<net, ncmd>> BY <1>6 DEF ReadCut
  <2> QED BY <1>0, <1>6, <2>1, ReadsTypes
<1>7. CASE \E x \in Contexts : NewClient(x) \/ \E k \in Kinds : Begin(k, x)
  <2>1. UNCHANGED <<caps, ncmd, buf, net>> /\ (UNCHANGED block \/ block' = <<>>)
        BY <1>7 DEF NewClient, Begin
  <2>2. <<>> \in Seq(Line) OBVIOUS
  <2> QED BY <1>0, <2>1, <2>2
<1>8. CASE Fill
  <2>1. PICK k \in 1 .. Len(net) : /\ buf' = buf \o SubSeq(net, 1, k)
                                   /\ net' = SubSeq(net, k + 1, Len(net))
        BY <1>8 DEF Fill
  <2>2. SubSeq(net, 1, k) \in Seq(Token) /\ SubSeq(net, k + 1, Len(net)) \in Seq(Token) BY <1>0
  <2>3. buf' \in Seq(Token) /\ net' \in Seq(Token) BY <1>0, <2>1, <2>2
  <2> QED BY <1>0, <1>8, <2>3 DEF Fill
<1>9. CASE ServerAnswers
  <2>1. Head(inbox) \in Cmds BY <1>0, <1>9 DEF ServerAnswers
  <2>2. PICK r \in Answers(Head(inbox)) : net' = net \o r BY <1>9 DEF ServerAnswers
  <2>3. r \in Seq(Token) BY <1>0, <2>1, <2>2, AnswersTypes
  <2>4. net' \in Seq(Token) BY <1>0, <2>2, <2>3
  <2> QED BY <1>0, <1>9, <2>4 DEF ServerAnswers
<1>10. CASE ServerCloses
  <2>1. Sends(ncmd, "BYE", 0) \in Seq(Token) BY <1>0, SendsIs DEF Says, OneLine
  <2>2. \A k \in 0 .. Len(net) : SubSeq(net, 1, k) \in Seq(Token) BY <1>0
  <2>3. net \o Sends(ncmd, "BYE", 0) \in Seq(Token) BY <1>0, <2>1
  <2>4. net' \in Seq(Token) BY <1>10, <2>2, <2>3 DEF ServerCloses
  <2> QED BY <1>0, <1>10, <2>4 DEF ServerCloses
<1> QED BY <1>1, <1>2, <1>3, <1>4, <1>5, <1>6, <1>7, <1>8, <1>9, <1>10, Steps

LEMMA TypesKept == ASSUME TypeOK, Phases, Next PROVE TypeOK' /\ Phases'
BY FlagsKept, ControlKept, TimesKept, DataKept, TypeParts, TypePartsNext

-----------------------------------------------------------------------------
(***************************************************************************)
(* Contexts, the poison and the deadlines.                                 *)
(***************************************************************************)
LEMMA DonenessKept == ASSUME TypeOK, Doneness, Next PROVE Doneness'
<1> USE DEF Doneness, NoLateKick, opVars, ctxVars, lockVars
<1>1. CASE Stop \/ ArmWrite \/ ArmRead \/ TLSDeadline \/ ClearDeadlines \/ ImplicitFails
           \/ CloseClient \/ WriteCmd \/ Fill \/ ServerAnswers \/ ServerCloses
  BY <1>1 DEF Stop, ArmWrite, ArmRead, TLSDeadline, ClearDeadlines, ImplicitFails,
     CloseClient, WriteCmd, Fill, ServerAnswers, ServerCloses
<1>2. CASE WriteFails \/ ReadTooLong \/ ReadFails \/ HandshakeFails \/ ReadLine \/ ReadCut
  BY <1>2 DEF WriteFails, ReadTooLong, ReadFails, HandshakeFails, ReadLine, ReadCut
<1>3. CASE \E x \in Contexts : NewClient(x) \/ \E k \in Kinds : Begin(k, x)
  <2>1. UNCHANGED <<over, expired, inFlight, stopped, poisoned>>
        BY <1>3, Zenon DEF NewClient, Begin
  <2> QED BY <2>1
<1>4. CASE ImplicitSucceeds \/ HandshakeSucceeds BY <1>4 DEF ImplicitSucceeds, HandshakeSucceeds
<1>5. CASE \E i \in Ops : Cancel(i) \/ Expire(i) \/ SocketExpires(i)
  BY <1>5 DEF Cancel, Expire, SocketExpires, Done
<1>6. CASE \E i \in Ops : GuardFires(i) \/ GuardExits(i)
  BY <1>6 DEF GuardFires, GuardExits
<1> QED BY <1>1, <1>2, <1>3, <1>4, <1>5, <1>6, Steps

\* A poisoned NewClient is one whose context is done.
LEMMA PoisonedIsOver ==
  ASSUME TypeOK, Phases, Doneness, poisoned, kind = "NEWCLIENT"
  PROVE  op \in over /\ pc # "new"
<1>1. op \in 0 .. MaxOps /\ over \subseteq 1 .. op /\ op <= 1 /\ (pc = "new" <=> op = 0)
      BY DEF TypeOK, Phases
<1>2. PICK i \in over : TRUE BY DEF Doneness, NoLateKick
<1>3. i \in 1 .. op BY <1>1
<1>4. i = op /\ op # 0 BY <1>1, <1>3
<1> QED BY <1>1, <1>4

LEMMA PoisonKept == ASSUME TypeOK, Phases, Doneness, Poison, Next PROVE Poison'
<1>0. /\ op \in 0 .. MaxOps /\ MaxOps \in Nat /\ pc \in Pcs /\ poisoned \in BOOLEAN
      BY ClientAssumption DEF TypeOK
<1>00. op # Past /\ None # Past BY <1>0 DEF Past, None
<1> USE DEF Poison, InUse, Failed, opVars, ctxVars, lockVars
<1>1. CASE Stop \/ ArmWrite \/ ArmRead \/ ClearDeadlines \/ ImplicitFails \/ CloseClient
  BY <1>00, <1>1 DEF Stop, ArmWrite, ArmRead, ClearDeadlines, ImplicitFails, CloseClient,
     Arm, HasDeadline
<1>2. CASE TLSDeadline BY <1>00, <1>2 DEF TLSDeadline
<1>3. CASE WriteCmd \/ Fill \/ ServerAnswers \/ ServerCloses
  BY <1>3 DEF WriteCmd, Fill, ServerAnswers, ServerCloses
<1>4. CASE WriteFails \/ ReadTooLong \/ ReadFails \/ HandshakeFails
  <2>1. pc' = "stop" /\ result'.how # "ok" /\ UNCHANGED <<kind, rdl, wdl, poisoned>>
    <3>1. UNCHANGED <<rdl, wdl, poisoned>>
          BY <1>4 DEF WriteFails, ReadTooLong, ReadFails, HandshakeFails
    <3> QED BY <1>4, <3>1, FailsTypes
  <2>2. pc \in {"write", "read", "handshake"}
        BY <1>4 DEF WriteFails, ReadTooLong, ReadFails, HandshakeFails, SocketFails
  <2>3. pc = "handshake" => kind = "NEWCLIENT" BY DEF Phases
  <2>4. UNCHANGED revived BY <1>4 DEF WriteFails, ReadTooLong, ReadFails, HandshakeFails
  <2> QED BY <2>1, <2>2, <2>3, <2>4
<1>5. CASE ReadLine \/ ReadCut
  BY <1>5 DEF ReadLine, ReadCut, SocketFails
<1>6. CASE \E x \in Contexts : NewClient(x)
  <2>1. ~poisoned BY <1>6, PoisonedIsOver DEF NewClient, Phases
  <2>2. 1 # Past BY <1>0, ClientAssumption DEF Past
  <2> QED BY <1>00, <1>6, <2>1, <2>2 DEF NewClient
<1>7. CASE \E x \in Contexts, k \in Kinds : Begin(k, x) BY <1>7 DEF Begin
<1>8. CASE ImplicitSucceeds \/ HandshakeSucceeds
  <2>1. ~poisoned BY <1>8, PoisonedIsOver DEF ImplicitSucceeds, HandshakeSucceeds, Phases
  <2> QED BY <1>8, <2>1 DEF ImplicitSucceeds, HandshakeSucceeds
<1>9. CASE \E i \in Ops : Cancel(i) \/ Expire(i) \/ SocketExpires(i)
  BY <1>9 DEF Cancel, Expire, SocketExpires, Done
<1>10. CASE \E i \in Ops : GuardFires(i) \/ GuardExits(i)
  BY <1>10 DEF GuardFires, GuardExits
<1> QED BY <1>1, <1>2, <1>3, <1>4, <1>5, <1>6, <1>7, <1>8, <1>9, <1>10, Steps

LEMMA ArmedKept == ASSUME TypeOK, Phases, Doneness, Poison, Armed, Next PROVE Armed'
<1>0. /\ op \in 0 .. MaxOps /\ MaxOps \in Nat /\ result.op \in 0 .. MaxOps /\ result.op <= op
      /\ ctx \in [Ops -> Contexts] /\ werr \in Errors
      /\ (kind = "NEWCLIENT" => op <= 1)
      /\ result \in Results /\ expired \subseteq over
      BY ClientAssumption DEF TypeOK, Phases, Doneness, Results, Hows, Errors
<1> USE DEF Armed, WriterKeeps, OwnDeadlineRules, HasDeadline, opVars, ctxVars, lockVars
<1>1. CASE Stop \/ ArmWrite \/ ArmRead \/ TLSDeadline \/ ClearDeadlines \/ ImplicitFails
           \/ CloseClient
  BY <1>1 DEF Stop, ArmWrite, ArmRead, TLSDeadline, ClearDeadlines, ImplicitFails,
     CloseClient, Arm
<1>2. CASE WriteCmd \/ Fill \/ ServerAnswers \/ ServerCloses \/ ImplicitSucceeds
  BY <1>2 DEF WriteCmd, Fill, ServerAnswers, ServerCloses, ImplicitSucceeds
<1>9. CASE HandshakeSucceeds
  <2>1. werr.how = "none"
    <3>1. pc = "handshake" /\ kind = "NEWCLIENT" BY <1>9 DEF HandshakeSucceeds, Phases
    <3>2. op <= 1 BY <1>0, <3>1
    <3>3. ~(werr.op = op) \/ werr.how = "none" BY <3>1
    <3> QED BY <1>0, <3>2, <3>3 DEF Errors
  <2> QED BY <1>9, <2>1 DEF HandshakeSucceeds, NoErr
<1>3. CASE WriteFails \/ ReadTooLong \/ ReadFails \/ HandshakeFails
  <2>1. /\ pc' = "stop" /\ result'.op = op
        BY <1>3, FailsTypes
  <2>2. UNCHANGED <<ctx, over, poisoned, op>>
        BY <1>3 DEF WriteFails, ReadTooLong, ReadFails, HandshakeFails
  <2>4. ASSUME WriteFails, werr.how # "none" PROVE werr' = werr /\ werr.op < op
        BY <1>0, <2>4 DEF WriteFails, Errors
  <2>3. ASSUME result'.how = "timeout", ctx[op] = "deadline"
        PROVE  op \in over \/ poisoned \/ (werr'.how = "timeout" /\ werr'.op < op)
    <3>1. CASE WriteFails /\ werr.how # "none" BY <2>3, <2>4, <3>1, FailsTypes
    <3>2. CASE ~(WriteFails /\ werr.how # "none")
      <4>1. \/ pc = "write" /\ Passed(wdl)
            \/ pc = "read" /\ Passed(rdl)
            BY <1>3, <2>3, <3>2 DEF WriteFails, ReadTooLong, ReadFails, HandshakeFails,
               SocketFails, Ends
      <4> QED BY <1>0, <2>3, <4>1 DEF Passed, Poison
    <3> QED BY <3>1, <3>2
  <2>5. WriterKeeps'
    <3>1. CASE WriteFails /\ werr.how = "none"
      <4>1. werr'.op = op BY <3>1 DEF WriteFails
      <4>2. op # 0 BY <3>1 DEF WriteFails, Phases
      <4> QED BY <1>0, <2>1, <2>2, <4>1, <4>2
    <3>2. CASE ~(WriteFails /\ werr.how = "none")
      <4>1. werr' = werr BY <1>3, <2>4, <3>2 DEF WriteFails, ReadTooLong, ReadFails, HandshakeFails
      <4> QED BY <1>0, <2>1, <2>2, <4>1
    <3> QED BY <3>1, <3>2
  <2> QED BY <2>1, <2>2, <2>3, <2>5
<1>4. CASE ReadLine \/ ReadCut
  <2>1. /\ UNCHANGED <<ctx, over, poisoned, werr, op>>
        /\ pc = "read"
        BY <1>4 DEF ReadLine, ReadCut, SocketFails
  <2>2. PICK l \in Line : UseLine(l) BY <1>4, ReadLineIs, ReadCutIs
  <2>3. pc' \notin {"write", "read"} /\ (result' = result \/ result'.how # "timeout")
    <3>1. stage \in Stages BY DEF TypeOK
    <3>2. {"ok", "refused", "toolong"} \subseteq Hows BY DEF Hows
    <3>3. CASE TakesCaps(l) BY <3>2, <3>3, EndsTypes DEF TakesCaps
    <3>4. CASE Overflows(l) BY <3>2, <3>4, EndsTypes, NoLineIsLine DEF Overflows
    <3>5. CASE Gives(l) BY <3>2, <3>5, EndsTypes DEF Gives
    <3>6. CASE Upgrades(l) \/ Collects(l) \/ StartsTLS(l)
          BY <3>6 DEF Upgrades, Collects, StartsTLS
    <3> QED BY <2>2, <3>1, <3>3, <3>4, <3>5, <3>6, UseLineIs
  <2> QED BY <2>1, <2>3
<1>5. ASSUME NEW x \in Contexts, NewClient(x) PROVE Armed'
  <2>1. op = 0 BY <1>5 DEF NewClient, Phases
  <2>2. result.op = 0 BY <1>0, <2>1
  <2>3. result.how = "none" BY <2>2 DEF Phases
  <2>4. /\ op' = 1 /\ UNCHANGED <<result, werr, poisoned, over>>
        /\ pc' \in {"implicit", "armr"}
        BY <1>5, Zenon DEF NewClient
  <2>5. werr.how = "none" BY <2>1
  <2> QED BY <2>3, <2>4, <2>5
<1>6. ASSUME NEW x \in Contexts, NEW k \in Kinds, Begin(k, x) PROVE Armed'
  <2>1. /\ op' = op + 1 /\ op < MaxOps /\ ctx' = [ctx EXCEPT ![op + 1] = x] /\ pc' = "armw"
        /\ UNCHANGED <<result, werr, poisoned, over>>
        BY <1>6, Zenon DEF Begin
  <2>2. result.op = 0 => result.how = "none" BY DEF Phases
  <2>3. result.op # 0 => ctx'[result.op] = ctx[result.op] BY <1>0, <2>1 DEF Ops
  <2>4. WriterKeeps' BY <1>0, <2>1 DEF Errors
  <2>5. OwnDeadlineRules' BY <2>1, <2>2, <2>3
  <2> QED BY <2>1, <2>4, <2>5
<1>7. CASE \E i \in Ops : Cancel(i) \/ Expire(i) \/ SocketExpires(i)
  BY <1>7 DEF Cancel, Expire, SocketExpires, Done
<1>8. CASE \E i \in Ops : GuardFires(i) \/ GuardExits(i)
  BY <1>8 DEF GuardFires, GuardExits
<1> QED BY <1>1, <1>2, <1>3, <1>4, <1>5, <1>6, <1>7, <1>8, <1>9, Steps

-----------------------------------------------------------------------------
(***************************************************************************)
(* STARTTLS.                                                               *)
(***************************************************************************)
LEMMA AppendSealed ==
  ASSUME NEW q \in Seq(Line), NEW l \in Line, Sealed(q), l.tls
  PROVE  Sealed(Append(q, l))
BY DEF Sealed

LEMMA ConcatSealed ==
  ASSUME NEW p \in Seq(Token), NEW q \in Seq(Token), SealedTokens(p), SealedTokens(q)
  PROVE  SealedTokens(p \o q)
<1> SUFFICES ASSUME NEW i \in DOMAIN (p \o q) PROVE (p \o q)[i].line.tls BY DEF SealedTokens
<1>1. i \in 1 .. Len(p) + Len(q) /\ Len(p) \in Nat /\ Len(q) \in Nat OBVIOUS
<1>2. CASE i <= Len(p)
  <2>1. i \in DOMAIN p /\ (p \o q)[i] = p[i] BY <1>1, <1>2
  <2> QED BY <2>1 DEF SealedTokens
<1>3. CASE i > Len(p)
  <2>1. i - Len(p) \in DOMAIN q /\ (p \o q)[i] = q[i - Len(p)] BY <1>1, <1>3
  <2> QED BY <2>1 DEF SealedTokens
<1> QED BY <1>1, <1>2, <1>3

LEMMA SubSeqSealed ==
  ASSUME NEW q \in Seq(Token), NEW a \in Nat \ {0}, NEW b \in 0 .. Len(q), SealedTokens(q)
  PROVE  SubSeq(q, a, b) \in Seq(Token) /\ SealedTokens(SubSeq(q, a, b))
<1> DEFINE r == SubSeq(q, a, b)
<1>1. /\ r \in Seq(Token) /\ Len(r) = IF a <= b THEN b - a + 1 ELSE 0
      /\ \A i \in 1 .. b - a + 1 : r[i] = q[a + i - 1]
      BY SubSeqProperties
<1> HIDE DEF r
<1>2. \A i \in DOMAIN r : r[i].line.tls
  <2> SUFFICES ASSUME NEW i \in DOMAIN r PROVE r[i].line.tls OBVIOUS
  <2>1. i \in 1 .. Len(r) /\ Len(r) \in Nat BY <1>1
  <2>2. Len(q) \in Nat /\ DOMAIN q = 1 .. Len(q) OBVIOUS
  <2>3. a <= b /\ i \in 1 .. b - a + 1 BY <1>1, <2>1, <2>2
  <2>4. a + i - 1 \in DOMAIN q BY <2>2, <2>3
  <2>5. r[i] = q[a + i - 1] BY <1>1, <2>3
  <2> QED BY <2>4, <2>5 DEF SealedTokens
<1> QED BY <1>1, <1>2 DEF r, SealedTokens

LEMMA RestSealed ==
  ASSUME NEW q \in Seq(Token), NEW a \in {2, 3}, SealedTokens(q)
  PROVE  SealedTokens(SubSeq(q, a, Len(q)))
<1>1. a \in Nat \ {0} /\ Len(q) \in 0 .. Len(q) OBVIOUS
<1> QED BY <1>1, SubSeqSealed

LEMMA SendsSealed ==
  ASSUME NEW k \in Nat, NEW s \in Says, NEW n \in Nat, tls \in BOOLEAN, tls
  PROVE  Sends(k, s, n) \in Seq(Token) /\ SealedTokens(Sends(k, s, n))
<1> DEFINE q == Sends(k, s, n)
<1>1. OneLine(q, k, s, n) BY SendsIs
<1> HIDE DEF q
<1>2. DOMAIN q = {1, 2} BY <1>1 DEF OneLine
<1> QED BY <1>1, <1>2 DEF q, SealedTokens, OneLine

LEMMA AnswersSealed ==
  ASSUME NEW c \in Cmds, tls \in BOOLEAN, tls, NEW r \in Answers(c)
  PROVE  SealedTokens(r)
<1>1. c.cmd \in Nat BY DEF Cmds
<1>2. \A s \in Says, n \in {0, 1, 2} :
         Sends(c.cmd, s, n) \in Seq(Token) /\ SealedTokens(Sends(c.cmd, s, n))
  <2> SUFFICES ASSUME NEW s \in Says, NEW n \in {0, 1, 2}
               PROVE  Sends(c.cmd, s, n) \in Seq(Token) /\ SealedTokens(Sends(c.cmd, s, n))
      OBVIOUS
  <2>1. n \in Nat OBVIOUS
  <2> QED BY <1>1, <2>1, SendsSealed
<1>3. {"cap", "OK", "NO", "long"} \subseteq Says BY DEF Says
<1>4. r \in {Sends(c.cmd, "NO", 0), Sends(c.cmd, "OK", 0),
             Sends(c.cmd, "cap", 0) \o Sends(c.cmd, "OK", 1),
             Sends(c.cmd, "cap", 0) \o Sends(c.cmd, "cap", 0) \o Sends(c.cmd, "OK", 2),
             Sends(c.cmd, "OK", 0) \o Sends(c.cmd, "OK", 0),
             Sends(c.cmd, "long", 0)}
      BY DEF Answers
<1>5. \A p, q \in Seq(Token) : p \o q \in Seq(Token) OBVIOUS
<1> QED BY <1>2, <1>3, <1>4, <1>5, ConcatSealed

LEMMA ClearKept == ASSUME TypeOK, Phases, Clear, Next PROVE Clear'
<1>0. /\ buf \in Seq(Token) /\ net \in Seq(Token) /\ block \in Seq(Line) /\ caps \in Seq(Line)
      /\ inbox \in Seq(Cmds) /\ ncmd \in Nat /\ tls \in BOOLEAN
      BY DEF TypeOK, Phases
<1> USE DEF Clear, Ready, opVars, netVars
<1>1. CASE Stop \/ ArmWrite \/ ArmRead \/ TLSDeadline \/ ClearDeadlines \/ ImplicitFails
           \/ CloseClient
  BY <1>1 DEF Stop, ArmWrite, ArmRead, TLSDeadline, ClearDeadlines, ImplicitFails,
     CloseClient
<1>2. CASE \E i \in Ops : Cancel(i) \/ Expire(i) \/ SocketExpires(i) \/ GuardFires(i) \/ GuardExits(i)
  BY <1>2 DEF Cancel, Expire, SocketExpires, Done, GuardFires, GuardExits
<1>3. CASE WriteCmd BY <1>3 DEF WriteCmd
<1>4. CASE WriteFails \/ ReadFails \/ HandshakeFails
  <2>1. pc' = "stop" /\ result'.how # "ok" /\ UNCHANGED <<kind, stage>>
        BY <1>4, FailsTypes
  <2>2. UNCHANGED <<tls, block, buf, net, eof, caps>>
        BY <1>4 DEF WriteFails, ReadFails, HandshakeFails
  <2> QED BY <2>1, <2>2
<1>5. CASE ReadTooLong
  <2>1. pc' = "stop" /\ result'.how # "ok" /\ UNCHANGED <<kind, stage>>
        BY <1>5, FailsTypes
  <2>2. /\ UNCHANGED <<tls, block, net, eof, caps>>
        /\ buf' = Tail(buf) \/ buf' = SubSeq(buf, 3, Len(buf))
        BY <1>5 DEF ReadTooLong
  <2>3. buf # <<>> BY <1>0, <1>5 DEF ReadTooLong, HasLine
  <2>4. Tail(buf) = SubSeq(buf, 2, Len(buf)) BY <1>0, <2>3, TailIsSubSeq
  <2>5. tls => SealedTokens(buf') BY <1>0, <2>2, <2>4, RestSealed
  <2> QED BY <2>1, <2>2, <2>5
<1>6. CASE ReadLine \/ ReadCut
  <2>1. pc = "read" /\ UNCHANGED <<tls, net, eof, kind>> BY <1>6 DEF ReadLine, ReadCut, SocketFails
  <2>2. PICK l \in Line : UseLine(l) /\ l.tls = buf[1].line.tls /\ 1 \in DOMAIN buf
        BY <1>6, ReadLineIs, ReadCutIs
  <2>3. tls => l.tls BY <2>2 DEF SealedTokens
  <2>4. tls => SealedTokens(buf')
    <3>1. buf' = <<>> \/ buf' = Tail(buf) \/ buf' = SubSeq(buf, 3, Len(buf))
          BY <1>6, ReadLineIs DEF ReadCut
    <3>2. buf # <<>> BY <1>0, <2>2
    <3>3. Tail(buf) = SubSeq(buf, 2, Len(buf)) BY <1>0, <3>2, TailIsSubSeq
    <3>4. SealedTokens(<<>>) BY DEF SealedTokens
    <3> QED BY <1>0, <3>1, <3>2, <3>3, <3>4, RestSealed
  <2>5. tls => Sealed(Append(block, l)) BY <1>0, <2>3, AppendSealed
  <2>6. Sealed(<<>>) BY DEF Sealed
  <2>7. {"ok", "refused", "toolong"} \subseteq Hows /\ stage \in Stages BY DEF Hows, TypeOK
  <2>8. CASE TakesCaps(l)
    <3>1. pc' = "stop" /\ result'.line = l /\ caps' = Append(block, l) /\ block' = <<>> /\ UNCHANGED stage
          BY <2>7, <2>8, EndsTypes DEF TakesCaps
    <3> QED BY <2>1, <2>3, <2>4, <2>5, <2>6, <3>1
  <2>9. CASE Upgrades(l) BY <2>1, <2>4, <2>6, <2>9 DEF Upgrades
  <2>10. CASE Collects(l) BY <2>1, <2>4, <2>5, <2>10 DEF Collects
  <2>11. CASE Overflows(l)
    <3>1. /\ pc' = "stop" /\ result'.how = "toolong" /\ stage = "caps"
          /\ block' = Append(block, l) /\ UNCHANGED <<caps, stage>>
          BY <2>7, <2>11, EndsTypes, NoLineIsLine DEF Overflows
    <3> QED BY <2>1, <2>4, <2>5, <3>1
  <2>12. CASE Gives(l)
    <3>1. /\ pc' = "stop" /\ result'.line = l /\ (result'.how = "ok" => stage = "status")
          /\ UNCHANGED <<caps, block, stage>>
          BY <2>7, <2>12, EndsTypes DEF Gives
    <3>2. stage = "status" => kind # "NEWCLIENT" BY DEF Phases
    <3> QED BY <2>1, <2>3, <2>4, <3>1, <3>2
  <2>13. CASE StartsTLS(l) BY <2>1, <2>4, <2>13 DEF StartsTLS
  <2> QED BY <2>2, <2>7, <2>8, <2>9, <2>10, <2>11, <2>12, <2>13, UseLineIs
<1>7. CASE \E x \in Contexts : NewClient(x)
  BY <1>7 DEF NewClient, Phases
<1>8. CASE \E x \in Contexts, k \in Kinds : Begin(k, x)
  BY <1>8 DEF Begin, Sealed
<1>9. CASE ImplicitSucceeds \/ HandshakeSucceeds
  <2>1. buf' = <<>> /\ net' = <<>> /\ block' = <<>> /\ pc' = "armr" /\ stage' = "caps"
        BY <1>9 DEF ImplicitSucceeds, HandshakeSucceeds, Phases
  <2>2. kind' = "NEWCLIENT" BY <1>9 DEF ImplicitSucceeds, HandshakeSucceeds, Phases
  <2>3. Sealed(<<>>) /\ SealedTokens(<<>>) BY DEF Sealed, SealedTokens
  <2> QED BY <2>1, <2>2, <2>3
<1>10. CASE Fill
  <2>1. PICK k \in 1 .. Len(net) : /\ buf' = buf \o SubSeq(net, 1, k)
                                   /\ net' = SubSeq(net, k + 1, Len(net))
        BY <1>10 DEF Fill
  <2>2. pc = "read" /\ UNCHANGED <<pc, tls, block, stage, kind, caps, result, eof>>
        BY <1>10 DEF Fill
  <2>3. k \in 0 .. Len(net) /\ k + 1 \in Nat \ {0} /\ Len(net) \in 0 .. Len(net) BY <1>0
  <2>4. ASSUME tls PROVE SealedTokens(buf') /\ SealedTokens(net')
    <3>1. SubSeq(net, 1, k) \in Seq(Token) /\ SealedTokens(SubSeq(net, 1, k))
          BY <1>0, <2>3, <2>4, SubSeqSealed
    <3>2. SealedTokens(SubSeq(net, k + 1, Len(net))) BY <1>0, <2>3, <2>4, SubSeqSealed
    <3> QED BY <1>0, <2>1, <2>4, <3>1, <3>2, ConcatSealed
  <2> QED BY <2>2, <2>4
<1>11. CASE ServerAnswers
  <2>1. Head(inbox) \in Cmds BY <1>0, <1>11 DEF ServerAnswers
  <2>2. PICK r \in Answers(Head(inbox)) : net' = net \o r BY <1>11 DEF ServerAnswers
  <2>3. r \in Seq(Token) BY <1>0, <2>1, AnswersTypes
  <2>4. tls => SealedTokens(net') BY <1>0, <2>1, <2>2, <2>3, AnswersSealed, ConcatSealed
  <2>5. pc \notin {"new", "implicit"} BY <1>11 DEF ServerAnswers, Phases
  <2> QED BY <1>11, <2>4, <2>5 DEF ServerAnswers
<1>12. CASE ServerCloses
  <2>1. tls => Sends(ncmd, "BYE", 0) \in Seq(Token) /\ SealedTokens(Sends(ncmd, "BYE", 0))
        BY <1>0, SendsSealed DEF Says
  <2>2. tls => SealedTokens(net \o Sends(ncmd, "BYE", 0)) BY <1>0, <2>1, ConcatSealed
  <2>3. tls => \A k \in 0 .. Len(net) : SealedTokens(SubSeq(net, 1, k))
        BY <1>0, SubSeqSealed
  <2>4. tls => SealedTokens(net') BY <1>12, <2>2, <2>3 DEF ServerCloses
  <2> QED BY <1>12, <2>4 DEF ServerCloses
<1> QED BY <1>1, <1>2, <1>3, <1>4, <1>5, <1>6, <1>7, <1>8, <1>9, <1>10, <1>11, <1>12, Steps

-----------------------------------------------------------------------------
(***************************************************************************)
(* The theorems.                                                           *)
(***************************************************************************)
Inv == TypeOK /\ Phases /\ Doneness /\ Poison /\ Armed /\ Clear

LEMMA InitInv == Init => Inv
<1> SUFFICES ASSUME Init PROVE Inv OBVIOUS
<1>1. TypeOK /\ Phases BY InitTypes
<1>2. Doneness BY DEF Init, Doneness, NoLateKick
<1>3. Poison BY ClientAssumption DEF Init, Poison, InUse, None, Past
<1>4. Armed BY DEF Init, Armed, WriterKeeps, NoErr, OwnDeadlineRules
<1>5. Clear BY DEF Init, Clear, Ready
<1> QED BY <1>1, <1>2, <1>3, <1>4, <1>5 DEF Inv

LEMMA NextInv == Inv /\ [Next]_vars => Inv'
<1> SUFFICES ASSUME Inv, [Next]_vars PROVE Inv' OBVIOUS
<1>1. CASE Next
      BY <1>1, TypesKept, DonenessKept, PoisonKept, ArmedKept, ClearKept DEF Inv
<1>2. CASE UNCHANGED vars
  <2> USE <1>2 DEF vars, opVars, ctxVars, lockVars, netVars
  <2>0. Flags /\ Control /\ Times /\ Data BY TypeParts DEF Inv
  <2>10. Flags' /\ Data' BY <2>0, Zenon DEF Flags, Data
  <2>11. Control' /\ Times' BY <2>0, Zenon DEF Control, Times, Deadlines
  <2>1. TypeOK' BY <2>10, <2>11, TypePartsNext
  <2>2. Phases' BY DEF Inv, Phases
  <2>3. Doneness' BY DEF Inv, Doneness, NoLateKick
  <2>4. Poison' BY DEF Inv, Poison, InUse, Failed
  <2>5. Armed' BY DEF Inv, Armed, WriterKeeps, HasDeadline, OwnDeadlineRules
  <2>6. Clear' BY DEF Inv, Clear, Ready, Sealed, SealedTokens
  <2> QED BY <2>1, <2>2, <2>3, <2>4, <2>5, <2>6 DEF Inv
<1> QED BY <1>1, <1>2

\* The invariant holds throughout, for any number of operations and contexts.
THEOREM Invariance == Spec => []Inv
BY InitInv, NextInv, PTL DEF Spec

\* Every variable of the client keeps its type, and the deadlines on the
\* socket are those of contexts that have one, or the past.
THEOREM TypeCorrect == Spec => []TypeOK
<1>1. Inv => TypeOK BY DEF Inv
<1> QED BY <1>1, Invariance, PTL

\* guard's goroutines, however late they run, poison the client only for a
\* context that was done while its own operation was under way.
THEOREM LateKicksMiss == Spec => []NoLateKick
<1>1. Inv => NoLateKick BY DEF Inv, Doneness
<1> QED BY <1>1, Invariance, PTL

\* Once poisoned, the deadlines stay in the past until the caller itself clears
\* them: armReadDeadline and armWriteDeadline do not resurrect them.
THEOREM PoisonStays == Spec => []PoisonHolds
<1>1. Inv => PoisonHolds BY DEF Inv, Poison, InUse, PoisonHolds
<1> QED BY <1>1, Invariance, PTL

\* An operation with a deadline times out only by its own context, by the
\* poison, or by the error that the writer has kept of an earlier write: not by
\* a deadline that an earlier operation has left on the socket.
THEOREM OwnDeadline == Spec => []OwnDeadlineRules
<1>1. Inv => OwnDeadlineRules BY DEF Inv, Armed
<1> QED BY <1>1, Invariance, PTL

\* Once TLS is on, no line that came in the clear is used.
THEOREM PlaintextDiscarded == Spec => []NoPlaintextUsed
<1>1. Inv => NoPlaintextUsed BY DEF Inv, Clear, Ready, Sealed, NoPlaintextUsed
<1> QED BY <1>1, Invariance, PTL
=============================================================================
