-------------------------- MODULE SieveClientAnswers --------------------------
(***************************************************************************)
(* AnswerIsOwn: as long as no read or write has failed, and no answer was  *)
(* given up beyond the limits with its rest unread, the answer that an     *)
(* operation of the client returns is the one to its own command.          *)
(*                                                                         *)
(* The argument is about the stream, what is in the reader followed by     *)
(* what is in the socket: whole lines that all answer the command written  *)
(* last, of which those behind the final one are the server's BYE.  Hence  *)
(* nothing but a BYE is left when an operation returns, so that the next   *)
(* command is written to a server that owes nothing.                       *)
(***************************************************************************)
EXTENDS SieveClientProofs

Stream == buf \o net

\* The tokens are those of lines; only the last line may lack its tail.
Framed(q) ==
    /\ 1 \in DOMAIN q => q[1].part = "head"
    /\ \A i \in DOMAIN q : i + 1 \in DOMAIN q =>
          /\ q[i].part = "head" => q[i + 1].part = "tail" /\ q[i + 1].line = q[i].line
          /\ q[i].part = "tail" => q[i + 1].part = "head"

\* All of it answers command c, except a BYE, which answers none.
Fresh(q, c, t) ==
    \A i \in DOMAIN q : q[i].line.says # "BYE" => q[i].line.cmd = c /\ q[i].line.tls = t

\* The line ends the exchange that is at st.
Final(l, st) == l.says # "cap" /\ ~(st = "tlsok" /\ l.says = "OK")

\* Behind a final line there is at most a BYE.
Ordered(q, st) ==
    \A i, j \in DOMAIN q :
       q[i].part = "tail" /\ Final(q[i].line, st) /\ i < j => q[j].line.says = "BYE"

\* A capability block of which b lines have been read: its OK, in the place
\* that it counts.
Counted(q, b) ==
    \A i \in DOMAIN q :
       /\ q[i].line.says \in {"cap", "OK", "NO", "BYE"}
       /\ q[i].part = "head" /\ q[i].line.says = "OK" => i + 2 * b = 2 * q[i].line.of + 1

NoCaps(q)   == \A i \in DOMAIN q : q[i].line.says # "cap"
NoBye(q)    == \A i \in DOMAIN q : q[i].line.says # "BYE"
Farewell(q) == \A i \in DOMAIN q : q[i].line.says = "BYE"
Whole(q)    == Len(q) \in DOMAIN q => q[Len(q)].part = "tail"

Reading == pc \in {"armr", "read"}

\* The server owes the answer to one command, and nothing has come of it.
Pending ==
    /\ Stream = <<>> /\ block = <<>> /\ pc \in {"implicit", "armr", "read", "closed"}
    /\ Len(inbox) = 1 /\ inbox[1].cmd = ncmd
    /\ (stage = "caps") <=> (inbox[1].kind = "CAPABILITY")
    /\ (stage = "tlsok") <=> (inbox[1].kind = "STARTTLS")

\* Nothing is left but a farewell.
Settled == pc \in {"idle", "armw", "write"} \/ (pc = "stop" /\ ~Failed)

\* What the lines read so far of a capability block belong to.
BlockOwn == \A i \in DOMAIN block : block[i].cmd = ncmd /\ block[i].tls = tls

Exchange ==
    /\ pc = "new" => ncmd = 0 /\ ~eof
    /\ inbox # <<>> /\ ~eof => Pending
    /\ Framed(Stream) /\ Fresh(Stream, ncmd, tls) /\ Ordered(Stream, stage)
    /\ ~eof => NoBye(Stream) /\ Whole(Stream)
    /\ Settled => Farewell(Stream)
    /\ Reading /\ stage = "caps" => Counted(Stream, Len(block))
    /\ Reading /\ stage # "caps" => NoCaps(Stream)
    /\ Reading => BlockOwn
    /\ CapsWhole
    /\ pc = "stop" /\ result.how \in {"ok", "refused"} /\ result.line.says # "BYE" =>
          result.line.cmd = ncmd

Own == ~disturbed /\ ~leftover => Exchange

-----------------------------------------------------------------------------
(***************************************************************************)
(* Streams.                                                                *)
(***************************************************************************)
\* q is p without its first line.
Rest(p, q) == /\ q \in Seq(Token) /\ Len(p) >= 2 /\ Len(q) = Len(p) - 2
              /\ \A i \in 1 .. Len(p) - 2 : q[i] = p[i + 2]

\* q is the beginning of p.
Begins(p, q) == /\ q \in Seq(Token) /\ Len(q) <= Len(p)
                /\ \A i \in 1 .. Len(q) : q[i] = p[i]

\* q is p with a line behind it.
Longer(p, q) == /\ q \in Seq(Token) /\ Len(q) = Len(p) + 2
                /\ \A i \in 1 .. Len(p) : q[i] = p[i]
                /\ q[Len(p) + 1].part = "head" /\ q[Len(p) + 2].part = "tail"
                /\ q[Len(p) + 2].line = q[Len(p) + 1].line

LEMMA RestKeeps ==
  ASSUME NEW p \in Seq(Token), NEW q, Rest(p, q), Framed(p), NEW c, NEW t, NEW st, NEW b \in Nat
  PROVE  /\ Framed(q)
         /\ Fresh(p, c, t) => Fresh(q, c, t)
         /\ Ordered(p, st) => Ordered(q, st)
         /\ Ordered(p, st) /\ Final(p[1].line, st) => Farewell(q)
         /\ NoBye(p) => NoBye(q)
         /\ Whole(p) => Whole(q)
         /\ NoCaps(p) => NoCaps(q)
         /\ Farewell(p) => Farewell(q)
<1>0. /\ q \in Seq(Token) /\ Len(p) \in Nat /\ Len(q) \in Nat /\ Len(p) = Len(q) + 2
      /\ DOMAIN p = 1 .. Len(p) /\ DOMAIN q = 1 .. Len(q)
      /\ \A i \in DOMAIN q : q[i] = p[i + 2] /\ i + 2 \in DOMAIN p
      BY DEF Rest
<1>1. /\ 1 \in DOMAIN p /\ 2 \in DOMAIN p /\ p[1].part = "head" /\ p[2].part = "tail"
      /\ p[2].line = p[1].line
      BY <1>0 DEF Framed
<1>2. Framed(q)
  <2>1. ASSUME 1 \in DOMAIN q PROVE q[1].part = "head"
    <3>1. q[1] = p[2 + 1] /\ 2 + 1 \in DOMAIN p BY <1>0, <2>1
    <3> QED BY <1>1, <3>1 DEF Framed
  <2>2. ASSUME NEW i \in DOMAIN q, i + 1 \in DOMAIN q
        PROVE  /\ q[i].part = "head" => q[i + 1].part = "tail" /\ q[i + 1].line = q[i].line
               /\ q[i].part = "tail" => q[i + 1].part = "head"
    <3>1. i + 2 \in DOMAIN p /\ (i + 2) + 1 \in DOMAIN p /\ q[i] = p[i + 2]
          /\ q[i + 1] = p[(i + 2) + 1]
          BY <1>0, <2>2
    <3> QED BY <3>1 DEF Framed
  <2> QED BY <2>1, <2>2 DEF Framed
<1>3. Fresh(p, c, t) => Fresh(q, c, t) BY <1>0 DEF Fresh
<1>4. Ordered(p, st) => Ordered(q, st)
  <2> SUFFICES ASSUME Ordered(p, st), NEW i \in DOMAIN q, NEW j \in DOMAIN q,
                      q[i].part = "tail", Final(q[i].line, st), i < j
               PROVE  q[j].line.says = "BYE"
      BY DEF Ordered
  <2>1. i + 2 < j + 2 BY <1>0
  <2> QED BY <1>0, <2>1 DEF Ordered
<1>5. Ordered(p, st) /\ Final(p[1].line, st) => Farewell(q)
  <2> SUFFICES ASSUME Ordered(p, st), Final(p[1].line, st), NEW i \in DOMAIN q
               PROVE  q[i].line.says = "BYE"
      BY DEF Farewell
  <2>1. 2 < i + 2 BY <1>0
  <2> QED BY <1>0, <1>1, <2>1 DEF Ordered
<1>6. NoBye(p) => NoBye(q) BY <1>0 DEF NoBye
<1>7. Whole(p) => Whole(q)
  <2>1. Len(q) \in DOMAIN q => q[Len(q)] = p[Len(p)] /\ Len(p) \in DOMAIN p BY <1>0
  <2> QED BY <2>1 DEF Whole
<1>8. NoCaps(p) => NoCaps(q) BY <1>0 DEF NoCaps
<1>9. Farewell(p) => Farewell(q) BY <1>0 DEF Farewell
<1> QED BY <1>2, <1>3, <1>4, <1>5, <1>6, <1>7, <1>8, <1>9

LEMMA RestCounts ==
  ASSUME NEW p \in Seq(Token), NEW q, Rest(p, q), NEW b \in Nat, Counted(p, b)
  PROVE  Counted(q, b + 1)
<1>0. /\ q \in Seq(Token) /\ Len(p) \in Nat /\ Len(q) \in Nat /\ Len(p) = Len(q) + 2
      /\ DOMAIN p = 1 .. Len(p) /\ DOMAIN q = 1 .. Len(q)
      /\ \A i \in DOMAIN q : q[i] = p[i + 2] /\ i + 2 \in DOMAIN p
      BY DEF Rest
<1> SUFFICES ASSUME NEW i \in DOMAIN q
             PROVE  /\ q[i].line.says \in {"cap", "OK", "NO", "BYE"}
                    /\ q[i].part = "head" /\ q[i].line.says = "OK" =>
                          i + 2 * (b + 1) = 2 * q[i].line.of + 1
    BY DEF Counted
<1>1. q[i] = p[i + 2] /\ i + 2 \in DOMAIN p BY <1>0
<1>2. /\ p[i + 2].line.says \in {"cap", "OK", "NO", "BYE"}
      /\ p[i + 2].part = "head" /\ p[i + 2].line.says = "OK" =>
            (i + 2) + 2 * b = 2 * p[i + 2].line.of + 1
      BY <1>1 DEF Counted
<1>3. (i + 2) + 2 * b = i + 2 * (b + 1) BY <1>0
<1> QED BY <1>1, <1>2, <1>3

LEMMA BeginsKeeps ==
  ASSUME NEW p \in Seq(Token), NEW q, Begins(p, q), NEW c, NEW t, NEW st, NEW b \in Nat
  PROVE  /\ Framed(p) => Framed(q)
         /\ Fresh(p, c, t) => Fresh(q, c, t)
         /\ Ordered(p, st) => Ordered(q, st)
         /\ NoCaps(p) => NoCaps(q)
         /\ Farewell(p) => Farewell(q)
         /\ Counted(p, b) => Counted(q, b)
<1>0. /\ q \in Seq(Token) /\ Len(p) \in Nat /\ Len(q) \in Nat
      /\ DOMAIN p = 1 .. Len(p) /\ DOMAIN q = 1 .. Len(q)
      /\ \A i \in DOMAIN q : q[i] = p[i] /\ i \in DOMAIN p
      BY DEF Begins
<1>1. Framed(p) => Framed(q) BY <1>0 DEF Framed
<1>2. Fresh(p, c, t) => Fresh(q, c, t) BY <1>0 DEF Fresh
<1>3. Ordered(p, st) => Ordered(q, st) BY <1>0 DEF Ordered
<1>4. NoCaps(p) => NoCaps(q) BY <1>0 DEF NoCaps
<1>5. Farewell(p) => Farewell(q) BY <1>0 DEF Farewell
<1>6. Counted(p, b) => Counted(q, b) BY <1>0 DEF Counted
<1> QED BY <1>1, <1>2, <1>3, <1>4, <1>5, <1>6

\* Another line behind whole ones.
LEMMA LongerFramed ==
  ASSUME NEW p \in Seq(Token), NEW q, Longer(p, q), Framed(p), Whole(p)
  PROVE  Framed(q) /\ Whole(q)
<1>0. /\ q \in Seq(Token) /\ Len(p) \in Nat /\ Len(q) = Len(p) + 2
      /\ DOMAIN p = 1 .. Len(p) /\ DOMAIN q = 1 .. Len(p) + 2
      /\ \A i \in DOMAIN p : q[i] = p[i] /\ i \in DOMAIN q
      BY DEF Longer
<1>1. 1 \in DOMAIN q => q[1].part = "head"
  <2>1. CASE Len(p) = 0 BY <1>0, <2>1 DEF Longer
  <2>2. CASE Len(p) # 0 BY <1>0, <2>2 DEF Framed
  <2> QED BY <2>1, <2>2
<1>2. ASSUME NEW i \in DOMAIN q, i + 1 \in DOMAIN q
      PROVE  /\ q[i].part = "head" => q[i + 1].part = "tail" /\ q[i + 1].line = q[i].line
             /\ q[i].part = "tail" => q[i + 1].part = "head"
  <2>1. CASE i < Len(p)
    <3>1. i \in DOMAIN p /\ i + 1 \in DOMAIN p BY <1>0, <2>1
    <3> QED BY <1>0, <3>1 DEF Framed
  <2>2. CASE i = Len(p)
    <3>1. i \in DOMAIN p /\ q[i] = p[i] /\ p[i].part = "tail" BY <1>0, <2>2 DEF Whole
    <3> QED BY <2>2, <3>1 DEF Longer
  <2>3. CASE i = Len(p) + 1
    <3>1. i + 1 = Len(p) + 2 BY <1>0, <2>3
    <3> QED BY <2>3, <3>1 DEF Longer
  <2> QED BY <1>0, <1>2, <2>1, <2>2, <2>3
<1>3. Whole(q) BY <1>0 DEF Whole, Longer
<1> QED BY <1>1, <1>2, <1>3 DEF Framed

\* A farewell behind it.
LEMMA LongerKeeps ==
  ASSUME NEW p \in Seq(Token), NEW q, Longer(p, q), q[Len(p) + 1].line.says = "BYE",
         NEW c, NEW t, NEW st, NEW b \in Nat
  PROVE  /\ Framed(p) /\ Whole(p) => Framed(q)
         /\ Fresh(p, c, t) => Fresh(q, c, t)
         /\ Ordered(p, st) => Ordered(q, st)
         /\ NoCaps(p) => NoCaps(q)
         /\ Farewell(p) => Farewell(q)
         /\ Counted(p, b) => Counted(q, b)
<1>0. /\ q \in Seq(Token) /\ Len(p) \in Nat /\ Len(q) = Len(p) + 2
      /\ DOMAIN p = 1 .. Len(p) /\ DOMAIN q = 1 .. Len(p) + 2
      /\ \A i \in DOMAIN p : q[i] = p[i] /\ i \in DOMAIN q
      /\ \A i \in DOMAIN q : i \in DOMAIN p \/ (i > Len(p) /\ q[i].line.says = "BYE")
      BY DEF Longer
<1>1. Framed(p) /\ Whole(p) => Framed(q) BY LongerFramed
<1>2. Fresh(p, c, t) => Fresh(q, c, t) BY <1>0 DEF Fresh
<1>3. Ordered(p, st) => Ordered(q, st)
  <2> SUFFICES ASSUME Ordered(p, st), NEW i \in DOMAIN q, NEW j \in DOMAIN q,
                      q[i].part = "tail", Final(q[i].line, st), i < j
               PROVE  q[j].line.says = "BYE"
      BY DEF Ordered
  <2>1. CASE j \in DOMAIN p
    <3>1. i \in DOMAIN p BY <1>0, <2>1
    <3> QED BY <1>0, <2>1, <3>1 DEF Ordered
  <2> QED BY <1>0, <2>1
<1>4. NoCaps(p) => NoCaps(q) BY <1>0 DEF NoCaps
<1>5. Farewell(p) => Farewell(q) BY <1>0 DEF Farewell
<1>6. Counted(p, b) => Counted(q, b)
  <2> SUFFICES ASSUME Counted(p, b), NEW i \in DOMAIN q
               PROVE  /\ q[i].line.says \in {"cap", "OK", "NO", "BYE"}
                      /\ q[i].part = "head" /\ q[i].line.says = "OK" =>
                            i + 2 * b = 2 * q[i].line.of + 1
      BY DEF Counted
  <2>1. CASE i \in DOMAIN p BY <1>0, <2>1 DEF Counted
  <2> QED BY <1>0, <2>1
<1> QED BY <1>1, <1>2, <1>3, <1>4, <1>5, <1>6

\* A farewell answers every command and ends every exchange.
LEMMA FarewellFits ==
  ASSUME NEW q, Farewell(q), NEW c, NEW t, NEW st, NEW b
  PROVE  Fresh(q, c, t) /\ Ordered(q, st) /\ NoCaps(q) /\ Counted(q, b)
BY DEF Farewell, Fresh, Ordered, NoCaps, Counted

LEMMA FarewellOver ==
  ASSUME NEW q \in Seq(Token), Farewell(q), NoBye(q)
  PROVE  q = <<>>
<1>1. 1 \notin DOMAIN q BY DEF Farewell, NoBye
<1> QED BY <1>1

LEMMA EmptyFits ==
  ASSUME NEW q, q = <<>>, NEW c, NEW t, NEW st, NEW b
  PROVE  /\ Framed(q) /\ Fresh(q, c, t) /\ Ordered(q, st) /\ NoCaps(q) /\ Counted(q, b)
         /\ NoBye(q) /\ Whole(q) /\ Farewell(q) /\ q \in Seq(Token)
BY DEF Framed, Fresh, Ordered, NoCaps, Counted, NoBye, Whole, Farewell

-----------------------------------------------------------------------------
(***************************************************************************)
(* The server's answers.                                                   *)
(***************************************************************************)
LEMMA Second ==
  ASSUME NEW m \in Nat, NEW i \in 1 .. m + 2, i \notin 1 .. m
  PROVE  /\ i = m + 1 \/ i = m + 2
         /\ \A j \in 1 .. m + 2 : i < j => i = m + 1
OBVIOUS

\* No line of it is final.
Open(q, st) == \A i \in DOMAIN q : ~Final(q[i].line, st)

\* An answer, or its beginning, to command c in stage st.
Answered(q, c, st) ==
    /\ q \in Seq(Token) /\ Framed(q) /\ Whole(q) /\ Fresh(q, c, tls) /\ Ordered(q, st) /\ NoBye(q)
    /\ st = "caps" => Counted(q, 0)
    /\ st # "caps" => NoCaps(q)

LEMMA LineBehind ==
  ASSUME NEW p \in Seq(Token), NEW q, NEW c, NEW s, NEW n, OneLine(q, c, s, n)
  PROVE  LET r == p \o q
         IN  /\ Longer(p, r) /\ r[Len(p) + 1].line = q[1].line
             /\ \A i \in DOMAIN r : i \in DOMAIN p \/ (i \in {Len(p) + 1, Len(p) + 2} /\ r[i].line = q[1].line)
<1> DEFINE r == p \o q
<1>1. q \in Seq(Token) /\ Len(q) = 2 /\ Len(p) \in Nat BY DEF OneLine
<1>2. /\ r \in Seq(Token) /\ Len(r) = Len(p) + 2
      /\ \A i \in 1 .. Len(p) + 2 : r[i] = IF i <= Len(p) THEN p[i] ELSE q[i - Len(p)]
  <2>1. /\ r \in Seq(Token) /\ Len(r) = Len(p) + Len(q)
        /\ \A i \in 1 .. Len(p) + Len(q) : r[i] = IF i <= Len(p) THEN p[i] ELSE q[i - Len(p)]
        BY <1>1, ConcatProperties
  <2> HIDE DEF r
  <2> QED BY <1>1, <2>1
<1> HIDE DEF r
<1>3. r[Len(p) + 1] = q[1] /\ r[Len(p) + 2] = q[2] BY <1>1, <1>2
<1>4. \A i \in 1 .. Len(p) : r[i] = p[i] BY <1>1, <1>2
<1>5. q[1].part = "head" /\ q[2].part = "tail" /\ q[2].line = q[1].line BY DEF OneLine
<1>6. Longer(p, r) BY <1>2, <1>3, <1>4, <1>5 DEF Longer
<1>7. ASSUME NEW i \in DOMAIN r
      PROVE  i \in DOMAIN p \/ (i \in {Len(p) + 1, Len(p) + 2} /\ r[i].line = q[1].line)
  <2>1. i \in 1 .. Len(p) + 2 BY <1>2
  <2>2. i \in 1 .. Len(p) \/ i = Len(p) + 1 \/ i = Len(p) + 2 BY <1>1, <2>1
  <2> QED BY <1>3, <1>5, <2>2
<1> QED BY <1>3, <1>5, <1>6, <1>7 DEF r

\* r is p with a line that says s behind it.
Grown(p, r, c, st, s) ==
    /\ Answered(r, c, st) /\ Len(r) = Len(p) + 2
    /\ s = "cap" \/ (st = "tlsok" /\ s = "OK") => Open(r, st)

LEMMA OneMore ==
  ASSUME tls \in BOOLEAN, NEW c \in Nat, NEW st, NEW p, Answered(p, c, st), Open(p, st),
         NEW s \in {"cap", "OK", "NO", "long"}, NEW n \in Nat,
         st = "caps" => s # "long" /\ (s = "OK" => Len(p) = 2 * n),
         st # "caps" => s # "cap"
  PROVE  Grown(p, p \o Sends(c, s, n), c, st, s)
<1> DEFINE q == Sends(c, s, n)
           r == p \o q
<1>0. s \in Says BY DEF Says
<1>1. OneLine(q, c, s, n) BY <1>0, SendsIs
<1> HIDE DEF q
<1>2. p \in Seq(Token) BY DEF Answered
<1>3. /\ Longer(p, r) /\ r[Len(p) + 1].line = q[1].line
      /\ \A i \in DOMAIN r : i \in DOMAIN p \/ (i \in {Len(p) + 1, Len(p) + 2} /\ r[i].line = q[1].line)
      BY <1>1, <1>2, LineBehind
<1> HIDE DEF r
<1>4. /\ q[1].line.cmd = c /\ q[1].line.says = s /\ q[1].line.tls = tls /\ q[1].line.of = n
      BY <1>1 DEF OneLine
<1>5. /\ r \in Seq(Token) /\ Len(r) = Len(p) + 2 /\ Len(p) \in Nat
      /\ DOMAIN p = 1 .. Len(p) /\ DOMAIN r = 1 .. Len(p) + 2
      /\ \A i \in DOMAIN p : r[i] = p[i]
      /\ r[Len(p) + 2].part = "tail"
      BY <1>2, <1>3 DEF Longer
<1>6. Framed(r) /\ Whole(r) BY <1>2, <1>3, LongerFramed DEF Answered
<1>7. Fresh(r, c, tls) BY <1>3, <1>4, <1>5 DEF Answered, Fresh
<1>8. Ordered(r, st)
  <2> SUFFICES ASSUME NEW i \in DOMAIN r, NEW j \in DOMAIN r,
                      r[i].part = "tail", Final(r[i].line, st), i < j
               PROVE  FALSE
      BY DEF Ordered
  <2>1. i \notin DOMAIN p BY <1>5 DEF Open
  <2>2. i \in 1 .. Len(p) + 2 /\ j \in 1 .. Len(p) + 2 /\ i \notin 1 .. Len(p) BY <1>5, <2>1
  <2>0. Len(p) \in Nat BY <1>5
  <2>4. i = Len(p) + 1 BY <2>0, <2>2, Second
  <2>3. r[i].part = "head" BY <1>3, <2>4 DEF Longer
  <2> QED BY <2>3
<1>9. NoBye(r) BY <1>3, <1>4, <1>5 DEF Answered, NoBye
<1>10. st # "caps" => NoCaps(r) BY <1>3, <1>4, <1>5 DEF Answered, NoCaps
<1>11. ASSUME st = "caps" PROVE Counted(r, 0)
  <2> SUFFICES ASSUME NEW i \in DOMAIN r
               PROVE  /\ r[i].line.says \in {"cap", "OK", "NO", "BYE"}
                      /\ r[i].part = "head" /\ r[i].line.says = "OK" =>
                            i + 2 * 0 = 2 * r[i].line.of + 1
      BY DEF Counted
  <2>1. CASE i \in DOMAIN p BY <1>5, <1>11, <2>1 DEF Answered, Counted
  <2>2. CASE i = Len(p) + 1
    <3>1. r[i].line = q[1].line BY <1>3, <2>2
    <3>2. s = "OK" => i + 2 * 0 = 2 * n + 1 BY <1>5, <1>11, <2>2
    <3> QED BY <1>4, <1>11, <3>1, <3>2
  <2>3. CASE i = Len(p) + 2
    <3>1. r[i].part = "tail" BY <1>5, <2>3
    <3>2. r[i].line = q[1].line
      <4>1. r[Len(p) + 2].line = r[Len(p) + 1].line BY <1>3 DEF Longer
      <4> QED BY <1>3, <2>3, <4>1
    <3> QED BY <1>4, <1>11, <3>1, <3>2
  <2> QED BY <1>3, <2>1, <2>2, <2>3
<1>12. s = "cap" \/ (st = "tlsok" /\ s = "OK") => Open(r, st)
       BY <1>3, <1>4, <1>5 DEF Open, Final
<1>13. Answered(r, c, st) BY <1>5, <1>6, <1>7, <1>8, <1>9, <1>10, <1>11 DEF Answered
<1> QED BY <1>5, <1>12, <1>13 DEF r, q, Grown

LEMMA AnswersFit ==
  ASSUME tls \in BOOLEAN, NEW c \in Cmds, NEW st \in Stages,
         (st = "caps") <=> (c.kind = "CAPABILITY"), (st = "tlsok") <=> (c.kind = "STARTTLS"),
         NEW r \in Answers(c)
  PROVE  Answered(r, c.cmd, st)
<1> DEFINE k == c.cmd
           e == <<>>
<1>1. k \in Nat BY DEF Cmds
<1>2. Answered(e, k, st) /\ Open(e, st) /\ Len(e) = 0
      BY EmptyFits DEF Answered, Open
<1>3. \A s \in Says, n \in Nat : e \o Sends(k, s, n) = Sends(k, s, n) /\ Sends(k, s, n) \in Seq(Token)
  <2> SUFFICES ASSUME NEW s \in Says, NEW n \in Nat
               PROVE  e \o Sends(k, s, n) = Sends(k, s, n) /\ Sends(k, s, n) \in Seq(Token)
      OBVIOUS
  <2>1. Sends(k, s, n) \in Seq(Token) BY <1>1, SendsIs DEF OneLine
  <2> QED BY <2>1, ConcatEmptySeq
<1>4. {"cap", "OK", "NO", "long"} \subseteq Says BY DEF Says
<1> DEFINE NO == Sends(k, "NO", 0)
           OK(n) == Sends(k, "OK", n)
           Cap == Sends(k, "cap", 0)
<1>5. CASE st = "caps"
  <2>1. r \in {NO, Cap \o OK(1), Cap \o Cap \o OK(2)} BY <1>5 DEF Answers
  <2>2. Grown(e, e \o NO, k, st, "NO") BY <1>1, <1>2, <1>5, OneMore
  <2>3. Grown(e, e \o Cap, k, st, "cap") BY <1>1, <1>2, <1>5, OneMore
  <2>4. NO = e \o NO /\ Cap = e \o Cap BY <1>3, <1>4
  <2>5. Answered(NO, k, st) BY <2>2, <2>4, Zenon DEF Grown
  <2>6. Answered(Cap, k, st) /\ Open(Cap, st) BY <2>3, <2>4, Zenon DEF Grown
  <2>7. Len(Cap) = 2 * 1
    <3>1. Len(Cap) = Len(e) + 2 BY <2>3, <2>4, Zenon DEF Grown
    <3> QED BY <1>2, <3>1
  <2> HIDE DEF Cap, OK, k
  <2>8. Grown(Cap, Cap \o OK(1), k, st, "OK") BY <1>1, <1>5, <2>6, <2>7, OneMore DEF OK
  <2>9. Grown(Cap, Cap \o Cap, k, st, "cap") BY <1>1, <1>5, <2>6, OneMore DEF Cap
  <2>10. Answered(Cap \o Cap, k, st) /\ Open(Cap \o Cap, st) BY <2>9, Zenon DEF Grown
  <2>11. Len(Cap \o Cap) = 2 * 2
    <3>1. Len(Cap \o Cap) = Len(Cap) + 2 BY <2>9, Zenon DEF Grown
    <3> QED BY <2>7, <3>1
  <2>12. Grown(Cap \o Cap, Cap \o Cap \o OK(2), k, st, "OK")
    <3> DEFINE C == Cap \o Cap
    <3> HIDE DEF C
    <3>1. Answered(C, k, st) /\ Open(C, st) /\ Len(C) = 2 * 2 BY <2>10, <2>11 DEF C
    <3>2. Grown(C, C \o OK(2), k, st, "OK") BY <1>1, <1>5, <3>1, OneMore DEF OK
    <3> QED BY <3>2 DEF C
  <2>13. Answered(Cap \o OK(1), k, st) /\ Answered(Cap \o Cap \o OK(2), k, st)
         BY <2>8, <2>12, Zenon DEF Grown
  <2> QED BY <2>1, <2>5, <2>13, Zenon DEF k
<1>6. CASE st = "tlsok"
  <2>1. r \in {NO, OK(0), OK(0) \o OK(0)} BY <1>6 DEF Answers
  <2>2. Grown(e, e \o NO, k, st, "NO") BY <1>1, <1>2, <1>6, OneMore
  <2>3. Grown(e, e \o OK(0), k, st, "OK") BY <1>1, <1>2, <1>6, OneMore
  <2>4. NO = e \o NO /\ OK(0) = e \o OK(0) BY <1>3, <1>4
  <2>5. Answered(NO, k, st) BY <2>2, <2>4, Zenon DEF Grown
  <2>6. Answered(OK(0), k, st) /\ Open(OK(0), st) BY <1>6, <2>3, <2>4, Zenon DEF Grown
  <2> HIDE DEF k
  <2>7. Grown(OK(0), OK(0) \o OK(0), k, st, "OK") BY <1>1, <1>6, <2>6, OneMore
  <2>8. Answered(OK(0) \o OK(0), k, st) BY <2>7, Zenon DEF Grown
  <2> QED BY <2>1, <2>5, <2>6, <2>8, Zenon DEF k
<1>7. CASE st = "status"
  <2>1. PICK s \in {"OK", "NO", "long"} : r = Sends(k, s, 0) BY <1>7 DEF Answers
  <2>2. Grown(e, e \o Sends(k, s, 0), k, st, s) BY <1>1, <1>2, <1>7, OneMore
  <2>3. r = e \o Sends(k, s, 0) BY <1>3, <1>4, <2>1
  <2> QED BY <2>2, <2>3, Zenon DEF Grown
<1> QED BY <1>5, <1>6, <1>7 DEF Stages

-----------------------------------------------------------------------------
(***************************************************************************)
(* What the actions do with the stream.                                    *)
(***************************************************************************)
LEMMA StreamTypes ==
  ASSUME TypeOK
  PROVE  /\ buf \in Seq(Token) /\ net \in Seq(Token) /\ Stream \in Seq(Token)
         /\ Len(Stream) = Len(buf) + Len(net)
         /\ \A i \in 1 .. Len(buf) + Len(net) :
               Stream[i] = IF i <= Len(buf) THEN buf[i] ELSE net[i - Len(buf)]
         /\ Stream = <<>> => buf = <<>> /\ net = <<>>
<1>1. buf \in Seq(Token) /\ net \in Seq(Token) BY DEF TypeOK
<1> QED BY <1>1, ConcatProperties, ConcatEqualIffEmpty DEF Stream

LEMMA FillKeeps == ASSUME TypeOK, Fill PROVE Stream' = Stream
<1>1. buf \in Seq(Token) /\ net \in Seq(Token) BY DEF TypeOK
<1>2. PICK k \in 1 .. Len(net) : /\ buf' = buf \o SubSeq(net, 1, k)
                                 /\ net' = SubSeq(net, k + 1, Len(net))
      BY DEF Fill
<1> DEFINE a == SubSeq(net, 1, k)
           b == SubSeq(net, k + 1, Len(net))
<1>3. a \in Seq(Token) /\ b \in Seq(Token) BY <1>1
<1>4. a \o b = SubSeq(net, 1, Len(net))
  <2>1. /\ 1 \in 1 .. Len(net) + 1 /\ k \in 1 - 1 .. Len(net) /\ Len(net) \in k .. Len(net)
        BY <1>1
  <2> QED BY <1>1, <2>1, ConcatAdjacentSubSeq
<1>5. a \o b = net BY <1>1, <1>4, SubSeqFull
<1> HIDE DEF a, b
<1>6. (buf \o a) \o b = buf \o (a \o b) BY <1>1, <1>3, ConcatAssociative
<1> QED BY <1>2, <1>5, <1>6 DEF Stream, a, b

LEMMA DropTwo ==
  ASSUME NEW q \in Seq(Token), Len(q) > 1
  PROVE  Rest(q, SubSeq(q, 3, Len(q)))
<1> DEFINE r == SubSeq(q, 3, Len(q))
<1>0. Len(q) \in Nat /\ DOMAIN q = 1 .. Len(q) OBVIOUS
<1>1. \A i \in 3 .. Len(q) : q[i] \in Token OBVIOUS
<1>2. /\ r \in Seq(Token) /\ Len(r) = IF 3 <= Len(q) THEN Len(q) - 3 + 1 ELSE 0
      /\ \A i \in 1 .. Len(q) - 3 + 1 : r[i] = q[3 + i - 1]
      BY <1>0, <1>1, SubSeqProperties
<1> HIDE DEF r
<1>3. Len(r) = Len(q) - 2
  <2>1. \A m \in Nat : m > 1 => (IF 3 <= m THEN m - 3 + 1 ELSE 0) = m - 2 OBVIOUS
  <2> QED BY <1>0, <1>2, <2>1
<1>4. \A i \in 1 .. Len(q) - 2 : r[i] = q[i + 2]
  <2> SUFFICES ASSUME NEW i \in 1 .. Len(q) - 2 PROVE r[i] = q[i + 2] OBVIOUS
  <2>1. i \in 1 .. Len(q) - 3 + 1 /\ 3 + i - 1 = i + 2 BY <1>0
  <2>2. r[i] = q[3 + i - 1] BY <1>2, <2>1
  <2> QED BY <2>1, <2>2
<1>5. Len(q) >= 2 BY <1>0
<1> QED BY <1>2, <1>3, <1>4, <1>5 DEF Rest, r

LEMMA RestOfConcat ==
  ASSUME NEW b \in Seq(Token), NEW n \in Seq(Token), Len(b) > 1
  PROVE  Rest(b \o n, SubSeq(b, 3, Len(b)) \o n)
<1> DEFINE c == SubSeq(b, 3, Len(b))
           p == b \o n
           q == c \o n
<1>1. Rest(b, c) BY DropTwo
<1> HIDE DEF c
<1>2. /\ c \in Seq(Token) /\ Len(b) >= 2 /\ Len(c) = Len(b) - 2
      /\ \A i \in 1 .. Len(b) - 2 : c[i] = b[i + 2]
      /\ Len(b) \in Nat /\ Len(n) \in Nat /\ Len(c) \in Nat
      BY <1>1 DEF Rest
<1>3. /\ p \in Seq(Token) /\ Len(p) = Len(b) + Len(n)
      /\ \A i \in 1 .. Len(b) + Len(n) : p[i] = IF i <= Len(b) THEN b[i] ELSE n[i - Len(b)]
      BY ConcatProperties
<1>4. /\ q \in Seq(Token) /\ Len(q) = Len(c) + Len(n)
      /\ \A i \in 1 .. Len(c) + Len(n) : q[i] = IF i <= Len(c) THEN c[i] ELSE n[i - Len(c)]
      BY <1>2, ConcatProperties
<1> HIDE DEF p, q
<1>5. Len(p) >= 2 /\ Len(q) = Len(p) - 2 BY <1>2, <1>3, <1>4
<1>6. ASSUME NEW i \in 1 .. Len(p) - 2 PROVE q[i] = p[i + 2]
  <2>1. i \in 1 .. Len(c) + Len(n) /\ i + 2 \in 1 .. Len(b) + Len(n) BY <1>2, <1>3
  <2>2. CASE i <= Len(c)
    <3>1. i \in 1 .. Len(b) - 2 /\ i + 2 <= Len(b) BY <1>2, <2>1, <2>2
    <3> QED BY <1>2, <1>3, <1>4, <2>1, <2>2, <3>1
  <2>3. CASE ~(i <= Len(c))
    <3>1. ~(i + 2 <= Len(b)) /\ i - Len(c) = (i + 2) - Len(b) BY <1>2, <2>1, <2>3
    <3> QED BY <1>3, <1>4, <2>1, <2>3, <3>1
  <2> QED BY <2>2, <2>3
<1> QED BY <1>4, <1>5, <1>6 DEF Rest, p, q, c

\* A line is read off a stream of lines.
LEMMA ReadTakes ==
  ASSUME TypeOK, Phases, ReadLine, Framed(Stream)
  PROVE  /\ Rest(Stream, Stream') /\ Stream[1].line \in Line
         /\ UseLine(Stream[1].line) /\ Stream # <<>>
<1>1. PICK l \in Line :
         /\ UseLine(l) /\ 1 \in DOMAIN buf
         /\ buf[1].part = "head" => /\ l = buf[1].line /\ Len(buf) > 1
                                    /\ buf' = SubSeq(buf, 3, Len(buf))
      BY ReadLineIs
<1>2. /\ buf \in Seq(Token) /\ net \in Seq(Token) /\ Stream \in Seq(Token)
      /\ Len(Stream) = Len(buf) + Len(net) /\ Len(buf) \in Nat /\ Len(net) \in Nat
      /\ \A i \in 1 .. Len(buf) + Len(net) :
            Stream[i] = IF i <= Len(buf) THEN buf[i] ELSE net[i - Len(buf)]
      BY StreamTypes
<1>3. Stream[1] = buf[1] /\ 1 \in DOMAIN Stream BY <1>1, <1>2
<1>4. Stream[1].part = "head" BY <1>3 DEF Framed
<1>5. l = Stream[1].line /\ Len(buf) > 1 /\ buf' = SubSeq(buf, 3, Len(buf))
      BY <1>1, <1>3, <1>4
<1>6. net' = net BY DEF ReadLine
<1>7. Rest(Stream, Stream') BY <1>2, <1>5, <1>6, RestOfConcat DEF Stream
<1> QED BY <1>1, <1>3, <1>5, <1>7

LEMMA AnswerComes ==
  ASSUME TypeOK, Phases, ServerAnswers, Stream = <<>>
  PROVE  /\ Head(inbox) \in Cmds /\ inbox # <<>> /\ inbox[1] = Head(inbox)
         /\ Stream' \in Answers(Head(inbox))
<1>1. buf = <<>> /\ net = <<>> BY StreamTypes
<1>2. inbox \in Seq(Cmds) /\ inbox # <<>> BY DEF Phases, ServerAnswers
<1>3. Head(inbox) \in Cmds /\ inbox[1] = Head(inbox) BY <1>2
<1>4. PICK r \in Answers(Head(inbox)) : net' = net \o r BY DEF ServerAnswers
<1>5. r \in Seq(Token) BY <1>3, <1>4, AnswersTypes DEF TypeOK
<1>6. buf' = <<>> BY <1>1 DEF ServerAnswers
<1>7. <<>> \o r = r BY <1>5, ConcatEmptySeq
<1> QED BY <1>1, <1>2, <1>3, <1>4, <1>6, <1>7 DEF Stream

\* BYE, or the loss of what was not yet read.
LEMMA CloseLeaves ==
  ASSUME TypeOK, ServerCloses
  PROVE  \/ Longer(Stream, Stream') /\ Stream'[Len(Stream) + 1].line.says = "BYE"
         \/ Begins(Stream, Stream')
<1>1. /\ buf \in Seq(Token) /\ net \in Seq(Token) /\ Stream \in Seq(Token)
      /\ tls \in BOOLEAN /\ ncmd \in Nat
      BY StreamTypes DEF TypeOK
<1>2. buf' = buf BY DEF ServerCloses
<1>3. CASE net' = net \o Sends(ncmd, "BYE", 0)
  <2> DEFINE q == Sends(ncmd, "BYE", 0)
  <2>1. OneLine(q, ncmd, "BYE", 0) BY <1>1, SendsIs DEF Says
  <2> HIDE DEF q
  <2>2. q \in Seq(Token) /\ q[1].line.says = "BYE" BY <2>1 DEF OneLine
  <2>3. Stream' = Stream \o q BY <1>1, <1>2, <1>3, <2>2, ConcatAssociative DEF Stream, q
  <2> QED BY <1>1, <2>1, <2>2, <2>3, LineBehind
<1>4. ASSUME NEW k \in 0 .. Len(net), net' = SubSeq(net, 1, k) PROVE Begins(Stream, Stream')
  <2>1. /\ net' \in Seq(Token) /\ Len(net') = k /\ \A i \in 1 .. k : net'[i] = net[i]
        BY <1>1, <1>4
  <2>2. /\ Stream' \in Seq(Token) /\ Len(Stream') = Len(buf) + Len(net')
        /\ \A i \in 1 .. Len(buf) + Len(net') :
              Stream'[i] = IF i <= Len(buf) THEN buf[i] ELSE net'[i - Len(buf)]
        BY <1>1, <1>2, <2>1, ConcatProperties DEF Stream
  <2>3. /\ Len(Stream) = Len(buf) + Len(net) /\ Len(buf) \in Nat /\ Len(net) \in Nat
        /\ \A i \in 1 .. Len(buf) + Len(net) :
              Stream[i] = IF i <= Len(buf) THEN buf[i] ELSE net[i - Len(buf)]
        BY <1>1, StreamTypes
  <2>4. Len(Stream') <= Len(Stream) BY <2>1, <2>2, <2>3
  <2>5. ASSUME NEW i \in 1 .. Len(Stream') PROVE Stream'[i] = Stream[i]
    <3>1. i \in 1 .. Len(buf) + Len(net') /\ i \in 1 .. Len(buf) + Len(net)
          BY <2>1, <2>2, <2>3
    <3>2. CASE i <= Len(buf) BY <2>2, <2>3, <3>1, <3>2
    <3>3. CASE ~(i <= Len(buf))
      <4>1. i - Len(buf) \in 1 .. k BY <2>1, <2>3, <3>1, <3>3
      <4> QED BY <2>1, <2>2, <2>3, <3>1, <3>3, <4>1
    <3> QED BY <3>2, <3>3
  <2> QED BY <2>2, <2>4, <2>5 DEF Begins
<1> QED BY <1>3, <1>4 DEF ServerCloses

-----------------------------------------------------------------------------
(***************************************************************************)
(* The invariant, action by action.                                        *)
(***************************************************************************)
\* Steps that touch neither the stream nor what the operation has read.
LEMMA StillsKeep ==
  ASSUME TypeOK, Phases, Exchange,
         UNCHANGED <<buf, net, eof, inbox, ncmd, tls, stage, block, caps, kind, result>>,
         \/ UNCHANGED pc
         \/ pc = "stop" /\ pc' \in {"idle", "closed"} /\ (Failed => pc' = "closed")
         \/ pc = "armw" /\ pc' = "write"
         \/ pc = "armr" /\ pc' = "read"
         \/ pc = "tlsdl" /\ pc' = "handshake"
         \/ pc \in {"implicit", "idle"} /\ pc' = "closed"
  PROVE  Exchange'
<1>1. Stream' = Stream BY DEF Stream
<1>2. pc' = "new" => pc = "new" OBVIOUS
<1>3. Pending => Pending' BY <1>1 DEF Pending
<1>4. Settled' => Settled
      BY DEF Settled, Failed
<1>5. Reading' => Reading BY DEF Reading
<1>6. BlockOwn => BlockOwn' BY DEF BlockOwn
<1>7. CapsWhole => CapsWhole' BY DEF CapsWhole
<1>8. pc' = "stop" => pc = "stop" OBVIOUS
<1>9. UNCHANGED <<eof, inbox, ncmd, tls, stage, block, result>> OBVIOUS
<1> QED BY <1>1, <1>2, <1>3, <1>4, <1>5, <1>6, <1>7, <1>8, <1>9 DEF Exchange

LEMMA StartKeeps ==
  ASSUME TypeOK, Phases, Clear, Exchange, NEW x \in Contexts, NewClient(x)
  PROVE  Exchange'
<1>1. /\ pc = "new" /\ pc' \in {"implicit", "armr"} /\ stage = "caps"
      /\ inbox' = <<[cmd |-> 0, kind |-> "CAPABILITY"]>>
      /\ UNCHANGED <<buf, net, eof, ncmd, tls, stage, block, caps>>
      BY DEF NewClient, Phases
<1>2. buf = <<>> /\ net = <<>> /\ block = <<>> /\ ncmd = 0 /\ ~eof BY <1>1 DEF Clear, Exchange
<1>3. Stream' = <<>>
  <2>1. <<>> \o <<>> = <<>> OBVIOUS
  <2> QED BY <1>1, <1>2, <2>1 DEF Stream
<1>4. Len(inbox') = 1 /\ inbox'[1].cmd = 0 /\ inbox'[1].kind = "CAPABILITY" BY <1>1
<1>5. Pending' BY <1>1, <1>2, <1>3, <1>4 DEF Pending
<1>6. ~Settled' BY <1>1 DEF Settled
<1>7. BlockOwn' BY <1>1, <1>2 DEF BlockOwn
<1>8. CapsWhole' BY <1>1 DEF CapsWhole, Exchange
<1>9. /\ Framed(Stream') /\ Fresh(Stream', ncmd', tls') /\ Ordered(Stream', stage')
      /\ NoBye(Stream') /\ Whole(Stream') /\ Counted(Stream', Len(block')) /\ NoCaps(Stream')
      BY <1>3, EmptyFits
<1> QED BY <1>1, <1>5, <1>6, <1>7, <1>8, <1>9 DEF Exchange

\* The handshakes: the server goes on to list its capabilities.
LEMMA HandshakeKeeps ==
  ASSUME TypeOK, Phases, Clear, Exchange, ImplicitSucceeds \/ HandshakeSucceeds
  PROVE  Exchange'
<1>1. /\ pc' = "armr" /\ ~eof /\ UNCHANGED <<eof, ncmd, block, caps>> /\ stage' = "caps"
      BY DEF ImplicitSucceeds, HandshakeSucceeds, Phases, netVars
<1>2. block = <<>> BY DEF ImplicitSucceeds, HandshakeSucceeds, Phases, Clear
<1>3. Stream' = <<>>
  <2>1. buf' = <<>> /\ net' = <<>> BY DEF ImplicitSucceeds, HandshakeSucceeds, Clear, netVars
  <2>2. <<>> \o <<>> = <<>> OBVIOUS
  <2> QED BY <2>1, <2>2 DEF Stream
<1>4. inbox' # <<>> => Pending'
  <2>1. CASE ImplicitSucceeds
    <3>1. UNCHANGED <<inbox, stage>> BY <2>1 DEF ImplicitSucceeds, netVars
    <3>2. inbox # <<>> => Pending BY <1>1 DEF Exchange
    <3> QED BY <1>1, <1>2, <1>3, <3>1, <3>2 DEF Pending
  <2>2. CASE HandshakeSucceeds
    <3>1. pc = "handshake" /\ inbox' = Append(inbox, [cmd |-> ncmd, kind |-> "CAPABILITY"])
          BY <2>2 DEF HandshakeSucceeds
    <3>2. inbox = <<>> BY <1>1, <3>1 DEF Exchange, Pending
    <3>3. Len(inbox') = 1 /\ inbox'[1].cmd = ncmd /\ inbox'[1].kind = "CAPABILITY"
          BY <3>1, <3>2
    <3> QED BY <1>1, <1>2, <1>3, <3>3 DEF Pending
  <2> QED BY <2>1, <2>2
<1>6. ~Settled' BY <1>1 DEF Settled
<1>7. BlockOwn' BY <1>1, <1>2 DEF BlockOwn
<1>8. CapsWhole' BY <1>1 DEF CapsWhole, Exchange
<1>9. /\ Framed(Stream') /\ Fresh(Stream', ncmd', tls') /\ Ordered(Stream', stage')
      /\ NoBye(Stream') /\ Whole(Stream') /\ Counted(Stream', Len(block')) /\ NoCaps(Stream')
      BY <1>3, EmptyFits
<1> QED BY <1>1, <1>4, <1>6, <1>7, <1>8, <1>9 DEF Exchange

LEMMA BeginKeeps ==
  ASSUME TypeOK, Phases, Exchange, NEW k \in Kinds, NEW x \in Contexts, Begin(k, x)
  PROVE  Exchange'
<1>1. /\ pc = "idle" /\ pc' = "armw" /\ UNCHANGED <<buf, net, eof, inbox, ncmd, tls, caps>>
      BY DEF Begin, netVars
<1>2. Stream' = Stream /\ Farewell(Stream) BY <1>1 DEF Stream, Exchange, Settled
<1>3. Fresh(Stream', ncmd', tls') /\ Ordered(Stream', stage') BY <1>2, FarewellFits
<1>4. inbox # <<>> /\ ~eof => FALSE BY <1>1 DEF Exchange, Pending
<1>5. CapsWhole' BY <1>1 DEF CapsWhole, Exchange
<1>6. ~Reading' BY <1>1 DEF Reading
<1> QED BY <1>1, <1>2, <1>3, <1>4, <1>5, <1>6 DEF Exchange

LEMMA WriteKeeps ==
  ASSUME TypeOK, Phases, Clear, Exchange, WriteCmd
  PROVE  Exchange'
<1>1. /\ pc = "write" /\ pc' = "armr" /\ ncmd' = ncmd + 1
      /\ UNCHANGED <<buf, net, eof, tls, caps, block, stage>>
      BY DEF WriteCmd, opVars
<1>2. Stream' = Stream /\ Farewell(Stream) BY <1>1 DEF Stream, Exchange, Settled
<1>3. /\ Fresh(Stream', ncmd', tls') /\ Ordered(Stream', stage') /\ NoCaps(Stream')
      /\ Counted(Stream', Len(block'))
      BY <1>2, FarewellFits
<1>4. block = <<>> BY <1>1 DEF Clear
<1>5. ASSUME ~eof' PROVE Pending'
  <2>1. inbox = <<>> BY <1>1, <1>5 DEF Exchange, Pending
  <2>2. inbox' = Append(inbox, [cmd |-> ncmd + 1,
                                kind |-> IF stage = "tlsok" THEN "STARTTLS" ELSE kind])
        BY DEF WriteCmd
  <2>3. /\ Len(inbox') = 1 /\ inbox'[1].cmd = ncmd + 1
        /\ inbox'[1].kind = IF stage = "tlsok" THEN "STARTTLS" ELSE kind
        BY <2>1, <2>2
  <2>4. Stream = <<>> BY <1>1, <1>2, <1>5, StreamTypes, FarewellOver DEF Exchange
  <2>5. /\ stage = "caps" => kind = "CAPABILITY"
        /\ stage = "status" => kind \notin {"CAPABILITY", "STARTTLS"}
        /\ stage \in {"caps", "tlsok", "status"} /\ kind # "STARTTLS"
        BY <1>1 DEF Phases, TypeOK, Stages, Kinds
  <2> QED BY <1>1, <1>2, <1>4, <2>3, <2>4, <2>5 DEF Pending
<1>6. BlockOwn' BY <1>1, <1>4 DEF BlockOwn
<1>7. CapsWhole' BY <1>1 DEF CapsWhole, Exchange
<1>8. ~Settled' BY <1>1 DEF Settled
<1> QED BY <1>1, <1>2, <1>3, <1>5, <1>6, <1>7, <1>8 DEF Exchange

LEMMA FillExchange == ASSUME TypeOK, Phases, Exchange, Fill PROVE Exchange'
<1>1. Stream' = Stream BY FillKeeps
<1>2. /\ UNCHANGED <<pc, kind, result, eof, inbox, ncmd, tls, caps, block, stage>>
      /\ Stream # <<>>
  <2>1. 1 .. Len(net) # {} /\ net \in Seq(Token) BY DEF Fill, TypeOK
  <2>2. net # <<>> BY <2>1
  <2> QED BY <2>2, StreamTypes DEF Fill, opVars
<1>3. Pending' <=> Pending BY <1>1, <1>2 DEF Pending
<1>4. /\ Settled' <=> Settled
      /\ Reading' <=> Reading
      BY <1>2 DEF Settled, Failed, Reading
<1>5. (BlockOwn' <=> BlockOwn) /\ (CapsWhole' <=> CapsWhole) BY <1>2 DEF BlockOwn, CapsWhole
<1> QED BY <1>1, <1>2, <1>3, <1>4, <1>5 DEF Exchange

LEMMA AnswerExchange == ASSUME TypeOK, Phases, Exchange, ServerAnswers PROVE Exchange'
<1>1. /\ UNCHANGED <<pc, kind, result, eof, ncmd, tls, caps, block, stage>>
      /\ inbox # <<>> /\ ~eof /\ pc # "implicit" /\ inbox' = Tail(inbox)
      BY DEF ServerAnswers, opVars
<1>2. Pending BY <1>1 DEF Exchange
<1>3. /\ Head(inbox) \in Cmds /\ inbox[1] = Head(inbox) /\ Stream' \in Answers(Head(inbox))
      BY <1>2, AnswerComes DEF Pending
<1>4. tls \in BOOLEAN /\ stage \in Stages BY DEF TypeOK
<1>5. Answered(Stream', ncmd, stage)
  <2> DEFINE c == Head(inbox)
  <2>1. c \in Cmds /\ c.cmd = ncmd BY <1>2, <1>3 DEF Pending
  <2>2. ((stage = "caps") <=> (c.kind = "CAPABILITY")) /\ ((stage = "tlsok") <=> (c.kind = "STARTTLS"))
        BY <1>2, <1>3 DEF Pending
  <2>3. Stream' \in Answers(c) BY <1>3
  <2> HIDE DEF c
  <2> QED BY <1>4, <2>1, <2>2, <2>3, AnswersFit
<1>6. inbox' = <<>>
  <2>1. inbox \in Seq(Cmds) /\ Len(inbox) = 1 BY <1>2 DEF Pending, Phases
  <2> QED BY <1>1, <2>1
<1>7. block = <<>> /\ pc \in {"armr", "read", "closed"} BY <1>1, <1>2 DEF Pending
<1>8. Len(block) = 0 BY <1>7
<1>9. ~Settled' BY <1>1, <1>7 DEF Settled
<1>10. BlockOwn' /\ CapsWhole' BY <1>1, <1>7 DEF BlockOwn, CapsWhole, Exchange
<1>11. /\ Framed(Stream') /\ Fresh(Stream', ncmd', tls') /\ Ordered(Stream', stage')
       /\ NoBye(Stream') /\ Whole(Stream')
       /\ stage' = "caps" => Counted(Stream', Len(block'))
       /\ stage' # "caps" => NoCaps(Stream')
       BY <1>1, <1>5, <1>8 DEF Answered
<1> QED BY <1>1, <1>6, <1>7, <1>9, <1>10, <1>11 DEF Exchange

LEMMA CloseExchange == ASSUME TypeOK, Phases, Exchange, ServerCloses PROVE Exchange'
<1>1. /\ UNCHANGED <<pc, kind, result, inbox, ncmd, tls, caps, block, stage>>
      /\ ~eof /\ eof' /\ op > 0
      BY DEF ServerCloses, opVars
<1>2. Stream \in Seq(Token) /\ Len(block) \in Nat BY StreamTypes DEF TypeOK
<1>3. /\ Framed(Stream) /\ Fresh(Stream, ncmd, tls) /\ Ordered(Stream, stage) /\ Whole(Stream)
      BY <1>1 DEF Exchange
<1>4. /\ Framed(Stream') /\ Fresh(Stream', ncmd, tls) /\ Ordered(Stream', stage)
      /\ Farewell(Stream) => Farewell(Stream')
      /\ NoCaps(Stream) => NoCaps(Stream')
      /\ Counted(Stream, Len(block)) => Counted(Stream', Len(block))
  <2>1. CASE Begins(Stream, Stream') BY <1>2, <1>3, <2>1, BeginsKeeps
  <2>2. CASE Longer(Stream, Stream') /\ Stream'[Len(Stream) + 1].line.says = "BYE"
        BY <1>2, <1>3, <2>2, LongerKeeps
  <2> QED BY <2>1, <2>2, CloseLeaves
<1>5. (Settled' <=> Settled) /\ (Reading' <=> Reading) BY <1>1 DEF Settled, Failed, Reading
<1>6. (BlockOwn' <=> BlockOwn) /\ (CapsWhole' <=> CapsWhole) BY <1>1 DEF BlockOwn, CapsWhole
<1>7. pc # "new" BY <1>1 DEF Phases
<1> QED BY <1>1, <1>3, <1>4, <1>5, <1>6, <1>7 DEF Exchange

\* The heart of it: a line is read, used, and leaves what it should behind.
LEMMA ReadKeeps ==
  ASSUME TypeOK, Phases, Exchange, ReadLine, ~leftover'
  PROVE  Exchange'
<1> DEFINE l == Stream[1].line
           b == Len(block)
<1>0. /\ pc = "read" /\ UNCHANGED <<kind, tls, eof, inbox, ncmd>>
      /\ ~(pc' = "stop" /\ result'.how = "toolong")
      BY DEF ReadLine
<1>1. /\ Framed(Stream) /\ Fresh(Stream, ncmd, tls) /\ Ordered(Stream, stage) /\ Reading
      BY <1>0 DEF Exchange, Reading
<1>2. Rest(Stream, Stream') /\ l \in Line /\ UseLine(l) /\ Stream # <<>> BY <1>1, ReadTakes
<1>3. Stream \in Seq(Token) /\ block \in Seq(Line) /\ b \in Nat /\ stage \in Stages
      BY StreamTypes DEF TypeOK
<1>4. 1 \in DOMAIN Stream /\ Stream[1].part = "head" BY <1>2, <1>3, <1>1 DEF Framed
<1>5. l.says # "BYE" => l.cmd = ncmd /\ l.tls = tls BY <1>1, <1>4 DEF Fresh
<1> HIDE DEF l
<1>6. /\ Framed(Stream') /\ Fresh(Stream', ncmd, tls) /\ Ordered(Stream', stage)
      /\ NoBye(Stream) => NoBye(Stream')
      /\ Whole(Stream) => Whole(Stream')
      /\ Final(l, stage) => Farewell(Stream')
      BY <1>1, <1>2, <1>3, RestKeeps DEF l
<1>7. ~(inbox # <<>> /\ ~eof) BY <1>2 DEF Exchange, Pending
<1>8. eof \/ (NoBye(Stream') /\ Whole(Stream')) BY <1>6 DEF Exchange
<1>9. BlockOwn /\ CapsWhole BY <1>1 DEF Exchange
<1>10. /\ stage = "caps" => Counted(Stream, b)
       /\ stage # "caps" => NoCaps(Stream)
       BY <1>1 DEF Exchange
<1>11. /\ stage = "caps" => l.says \in {"cap", "OK", "NO", "BYE"}
       /\ stage = "caps" /\ l.says = "OK" => 1 + 2 * b = 2 * l.of + 1
       /\ stage # "caps" => l.says # "cap"
       BY <1>4, <1>10 DEF Counted, NoCaps, l
<1>12. {"ok", "refused", "toolong"} \subseteq Hows BY DEF Hows
\* What a whole block is.
<1>13. ASSUME stage = "caps", l.says = "OK", caps' = Append(block, l) PROVE CapsWhole'
  <2>1. l.of = b BY <1>2, <1>3, <1>11, <1>13, LineFields
  <2>2. /\ Len(caps') = b + 1 /\ caps'[b + 1] = l /\ DOMAIN caps' = 1 .. b + 1
        /\ \A i \in 1 .. b : caps'[i] = block[i]
        BY <1>2, <1>3, <1>13
  <2>3. \A i \in DOMAIN caps' : caps'[i].cmd = l.cmd /\ caps'[i].tls = l.tls
    <3> SUFFICES ASSUME NEW i \in DOMAIN caps' PROVE caps'[i].cmd = l.cmd /\ caps'[i].tls = l.tls
        OBVIOUS
    <3>1. i \in 1 .. b \/ i = b + 1 BY <1>3, <2>2
    <3>2. i \in 1 .. b => caps'[i].cmd = ncmd /\ caps'[i].tls = tls BY <1>3, <1>9, <2>2 DEF BlockOwn
    <3> QED BY <1>5, <1>13, <2>2, <3>1, <3>2
  <2>4. l.of = Len(caps') - 1 BY <1>3, <2>1, <2>2
  <2> QED BY <1>13, <2>2, <2>3, <2>4 DEF CapsWhole
<1>14. CASE TakesCaps(l)
  <2>1. /\ stage = "caps" /\ l.says = "OK" /\ caps' = Append(block, l) /\ stage' = stage
        /\ pc' = "stop" /\ result'.line = l
        BY <1>2, <1>12, <1>14, EndsTypes DEF TakesCaps
  <2>2. CapsWhole' BY <1>13, <2>1
  <2>3. Farewell(Stream') BY <1>6, <2>1 DEF Final
  <2>4. ~Reading' BY <2>1 DEF Reading
  <2> QED BY <1>0, <1>5, <1>6, <1>7, <1>8, <2>1, <2>2, <2>3, <2>4 DEF Exchange
<1>15. CASE Upgrades(l)
  <2>1. /\ stage = "caps" /\ l.says = "OK" /\ caps' = Append(block, l) /\ pc' = "armw"
        BY <1>15 DEF Upgrades
  <2>2. CapsWhole' BY <1>13, <2>1
  <2>3. Farewell(Stream') BY <1>6, <2>1 DEF Final
  <2>4. Ordered(Stream', stage') BY <2>3, FarewellFits
  <2>5. ~Reading' BY <2>1 DEF Reading
  <2> QED BY <1>0, <1>6, <1>7, <1>8, <2>1, <2>2, <2>3, <2>4, <2>5 DEF Exchange
<1>16. CASE Collects(l)
  <2>1. /\ stage = "caps" /\ l.says # "BYE" /\ block' = Append(block, l) /\ pc' = "armr"
        /\ UNCHANGED <<caps, stage>>
        BY <1>16 DEF Collects
  <2>2. Len(block') = b + 1 /\ DOMAIN block' = 1 .. b + 1 /\ block'[b + 1] = l
        /\ \A i \in 1 .. b : block'[i] = block[i]
        BY <1>2, <1>3, <2>1
  <2>3. Counted(Stream', Len(block')) BY <1>2, <1>3, <1>10, <2>1, <2>2, RestCounts
  <2>4. BlockOwn'
    <3> SUFFICES ASSUME NEW i \in DOMAIN block'
                 PROVE  block'[i].cmd = ncmd' /\ block'[i].tls = tls'
        BY DEF BlockOwn
    <3>1. i \in 1 .. b \/ i = b + 1 BY <1>3, <2>2
    <3>2. i \in 1 .. b => block'[i].cmd = ncmd /\ block'[i].tls = tls BY <1>3, <1>9, <2>2 DEF BlockOwn
    <3> QED BY <1>0, <1>5, <2>1, <2>2, <3>1, <3>2
  <2>5. CapsWhole' /\ ~Settled' BY <1>9, <2>1 DEF CapsWhole, Settled
  <2> QED BY <1>0, <1>6, <1>7, <1>8, <2>1, <2>3, <2>4, <2>5 DEF Exchange
<1>17. CASE Overflows(l)
  <2>1. pc' = "stop" /\ result'.how = "toolong"
        BY <1>12, <1>17, EndsTypes, NoLineIsLine DEF Overflows
  <2> QED BY <1>0, <2>1
<1>18. CASE Gives(l)
  <2>1. /\ pc' = "stop" /\ result'.line = l /\ UNCHANGED <<caps, stage>>
        /\ stage = "caps" => l.says \in {"NO", "BYE"}
        /\ stage = "tlsok" => l.says # "OK"
        BY <1>2, <1>12, <1>18, EndsTypes DEF Gives
  <2>2. Final(l, stage) BY <1>11, <2>1 DEF Final
  <2>3. Farewell(Stream') BY <1>6, <2>2
  <2>4. CapsWhole' /\ ~Reading' BY <1>9, <2>1 DEF CapsWhole, Reading
  <2> QED BY <1>0, <1>5, <1>6, <1>7, <1>8, <2>1, <2>3, <2>4 DEF Exchange
<1>19. CASE StartsTLS(l)
  <2>1. pc' = "tlsdl" /\ UNCHANGED <<caps, stage>> BY <1>19 DEF StartsTLS
  <2>2. CapsWhole' /\ ~Reading' /\ ~Settled' BY <1>9, <2>1 DEF CapsWhole, Reading, Settled
  <2> QED BY <1>0, <1>6, <1>7, <1>8, <2>1, <2>2 DEF Exchange
<1> QED BY <1>2, <1>3, <1>14, <1>15, <1>16, <1>17, <1>18, <1>19, UseLineIs

\* A line beyond the limit that was given up at its very end.
LEMMA LongKeeps ==
  ASSUME TypeOK, Phases, Exchange, ReadTooLong, ~leftover'
  PROVE  Exchange'
<1> DEFINE l == Stream[1].line
<1>0. /\ pc = "read" /\ UNCHANGED <<kind, stage, block, caps, tls, net, eof, inbox, ncmd>>
      /\ stage # "caps" /\ Len(buf) > 1 /\ buf' = SubSeq(buf, 3, Len(buf))
      /\ buf[1].line.says = "long"
      BY DEF ReadTooLong
<1>1. Framed(Stream) /\ Fresh(Stream, ncmd, tls) /\ Ordered(Stream, stage) BY DEF Exchange
<1>2. /\ buf \in Seq(Token) /\ net \in Seq(Token) /\ Stream \in Seq(Token)
      /\ Len(Stream) = Len(buf) + Len(net) /\ Len(buf) \in Nat /\ Len(net) \in Nat
      /\ \A i \in 1 .. Len(buf) + Len(net) :
            Stream[i] = IF i <= Len(buf) THEN buf[i] ELSE net[i - Len(buf)]
      BY StreamTypes
<1>3. Stream[1] = buf[1] /\ Stream # <<>> BY <1>0, <1>2
<1>4. Rest(Stream, Stream') BY <1>0, <1>2, RestOfConcat DEF Stream
<1>5. Final(l, stage) BY <1>0, <1>3 DEF Final
<1>6. /\ Framed(Stream') /\ Fresh(Stream', ncmd, tls) /\ Ordered(Stream', stage)
      /\ NoBye(Stream) => NoBye(Stream')
      /\ Whole(Stream) => Whole(Stream')
      /\ Farewell(Stream')
  <2> HIDE DEF l
  <2>1. 0 \in Nat /\ (Final(l, stage) <=> Final(Stream[1].line, stage)) BY DEF l
  <2> QED BY <1>1, <1>2, <1>4, <1>5, <2>1, RestKeeps
<1>7. ~(inbox # <<>> /\ ~eof) BY <1>3 DEF Exchange, Pending
<1>8. eof \/ (NoBye(Stream') /\ Whole(Stream')) BY <1>6 DEF Exchange
<1>9. pc' = "stop" /\ result'.how = "toolong"
  <2>1. "toolong" \in Hows BY DEF Hows
  <2> QED BY <2>1, NoLineIsLine, EndsTypes DEF ReadTooLong
<1>10. CapsWhole' /\ ~Reading' BY <1>0, <1>9 DEF Exchange, CapsWhole, Reading
<1> QED BY <1>0, <1>6, <1>7, <1>8, <1>9, <1>10 DEF Exchange

LEMMA OwnKept == ASSUME Inv, Own, Next PROVE Own'
<1> SUFFICES ASSUME ~disturbed', ~leftover' PROVE Exchange' BY DEF Own
<1>0. TypeOK /\ Phases /\ Clear /\ disturbed \in BOOLEAN /\ leftover \in BOOLEAN
      BY DEF Inv, TypeOK
<1>1. CASE Stop \/ ArmWrite \/ ArmRead \/ TLSDeadline \/ ClearDeadlines \/ ImplicitFails
           \/ CloseClient
  <2>1. /\ UNCHANGED <<buf, net, eof, inbox, ncmd, tls, stage, block, caps, kind, result>>
        /\ UNCHANGED <<disturbed, leftover>>
        BY <1>1 DEF Stop, ArmWrite, ArmRead, TLSDeadline, ClearDeadlines, ImplicitFails,
           CloseClient, opVars, netVars
  <2>2. \/ UNCHANGED pc
        \/ pc = "stop" /\ pc' \in {"idle", "closed"} /\ (Failed => pc' = "closed")
        \/ pc = "armw" /\ pc' = "write"
        \/ pc = "armr" /\ pc' = "read"
        \/ pc = "tlsdl" /\ pc' = "handshake"
        \/ pc \in {"implicit", "idle"} /\ pc' = "closed"
        BY <1>1 DEF Stop, ArmWrite, ArmRead, TLSDeadline, ClearDeadlines, ImplicitFails,
           CloseClient, Failed
  <2>3. Exchange BY <2>1 DEF Own
  <2> QED BY <1>0, <2>1, <2>2, <2>3, StillsKeep
<1>2. CASE \E i \in Ops : Cancel(i) \/ Expire(i) \/ SocketExpires(i) \/ GuardFires(i) \/ GuardExits(i)
  <2>1. /\ UNCHANGED <<buf, net, eof, inbox, ncmd, tls, stage, block, caps, kind, result>>
        /\ UNCHANGED <<disturbed, leftover, pc>>
        BY <1>2 DEF Cancel, Expire, SocketExpires, Done, GuardFires, GuardExits, opVars, netVars
  <2>2. Exchange BY <2>1 DEF Own
  <2> QED BY <1>0, <2>1, <2>2, StillsKeep
<1>3. CASE WriteFails \/ ReadFails \/ HandshakeFails \/ ReadCut
  BY <1>3, Zenon DEF WriteFails, ReadFails, HandshakeFails, ReadCut
<1>4. CASE ReadLine
  <2>1. ~disturbed /\ ~leftover BY <1>4, Zenon DEF ReadLine
  <2> QED BY <1>0, <1>4, <2>1, ReadKeeps DEF Own
<1>9. CASE ReadTooLong
  <2>1. ~disturbed /\ ~leftover BY <1>0, <1>9 DEF ReadTooLong
  <2> QED BY <1>0, <1>9, <2>1, LongKeeps DEF Own
<1>5. ASSUME NEW x \in Contexts, NewClient(x) PROVE Exchange'
  <2>1. Exchange BY <1>5, Zenon DEF NewClient, Own
  <2> QED BY <1>0, <1>5, <2>1, StartKeeps
<1>6. ASSUME NEW x \in Contexts, NEW k \in Kinds, Begin(k, x) PROVE Exchange'
  <2>1. Exchange BY <1>6, Zenon DEF Begin, Own
  <2> QED BY <1>0, <1>6, <2>1, BeginKeeps
<1>7. CASE ImplicitSucceeds \/ HandshakeSucceeds
  <2>1. Exchange BY <1>7, Zenon DEF ImplicitSucceeds, HandshakeSucceeds, Own
  <2> QED BY <1>0, <1>7, <2>1, HandshakeKeeps
<1>8. CASE WriteCmd \/ Fill \/ ServerAnswers \/ ServerCloses
  <2>1. Exchange BY <1>8, Zenon DEF WriteCmd, Fill, ServerAnswers, ServerCloses, opVars, Own
  <2> QED BY <1>0, <1>8, <2>1, WriteKeeps, FillExchange, AnswerExchange, CloseExchange
<1> QED BY <1>1, <1>2, <1>3, <1>4, <1>5, <1>6, <1>7, <1>8, <1>9, Steps

-----------------------------------------------------------------------------
LEMMA InitOwn == ASSUME Init PROVE Own
<1>1. Stream = <<>>
  <2>1. <<>> \o <<>> = <<>> OBVIOUS
  <2> QED BY <2>1 DEF Init, Stream
<1>2. /\ Framed(Stream) /\ Fresh(Stream, ncmd, tls) /\ Ordered(Stream, stage)
      /\ NoBye(Stream) /\ Whole(Stream)
      BY <1>1, EmptyFits
<1>3. ~Settled /\ ~Reading /\ CapsWhole BY DEF Init, Settled, Reading, CapsWhole
<1> QED BY <1>2, <1>3 DEF Init, Exchange, Own

\* What the client has yet to read answers its last command, as long as no read
\* or write has failed and no answer went beyond the limits with its rest unread.
THEOREM StreamIsOwn == Spec => [](Inv /\ Own)
<1>1. Init => Inv /\ Own BY InitInv, InitOwn
<1>2. Inv /\ Own /\ [Next]_vars => (Inv /\ Own)'
  <2> SUFFICES ASSUME Inv, Own, [Next]_vars PROVE Own' BY NextInv
  <2>1. CASE Next BY <2>1, OwnKept
  <2>2. CASE UNCHANGED vars
    <3>1. /\ UNCHANGED <<buf, net, eof, inbox, ncmd, tls, stage, block, caps, kind, result>>
          /\ UNCHANGED <<disturbed, leftover, pc>>
          BY <2>2 DEF vars, opVars, netVars
    <3>2. TypeOK /\ Phases BY DEF Inv
    <3> QED BY <3>1, <3>2, StillsKeep DEF Own
  <2> QED BY <2>1, <2>2
<1> QED BY <1>1, <1>2, PTL DEF Spec

\* Across STARTTLS, refusals, the server's BYE, lines given up at their very end
\* and blocks of up to MaxCaps lines, whatever that is, an operation returns the
\* answer to its own command, and all of it.  Behind a failed read or write, or
\* an answer beyond the limits whose rest stays in the stream, it says nothing.
THEOREM AnswersMatch == Spec => []AnswerIsOwn
<1>1. Inv /\ Own => AnswerIsOwn BY DEF Own, Exchange, AnswerIsOwn
<1> QED BY <1>1, StreamIsOwn, PTL
=============================================================================
