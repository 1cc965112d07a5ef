-------------------------------- MODULE Wire ---------------------------------
(***************************************************************************)
(* Octets and text: the bounded line reader over a bufio.Reader, the       *)
(* tokenizer, quoting and lengths of the server (src/managesieveserver/    *)
(* parser.go, errors.go), the helpers of src/managesieve, and the client's *)
(* own parser of capability lines (src/managesieveclient/client.go).       *)
(*                                                                         *)
(* The reader is a state machine: its input arrives in pieces of any size. *)
(* The rest are operators on sequences of characters, which the properties *)
(* apply to the input while it is still untouched.                         *)
(***************************************************************************)
EXTENDS Integers, SequencesExt

CONSTANTS
    Inputs,     \* the octet streams that a peer may send
    MaxLine,    \* maxBytes of readBoundedLine
    BufSize,    \* the size of the bufio.Reader's buffer
    MaxInt      \* math.MaxInt64

ASSUME WireAssumption == {MaxLine, BufSize, MaxInt} \subseteq Nat \ {0}

DQ == "\""
BS == "\\"
CR == "\r"
LF == "\n"
SP == " "
Controls == {CR, LF}

-----------------------------------------------------------------------------
(***************************************************************************)
(* strings of the Go library (external).                                   *)
(***************************************************************************)
Blank == {SP, CR, LF}

TrimSpace(s) ==
    LET text == {i \in DOMAIN s : s[i] \notin Blank}
    IN  IF text = {} THEN <<>> ELSE SubSeq(s, Min(text), Max(text))

\* strings.ReplaceAll of one character.
Escape(s, ch, by) ==
    FlattenSeq([i \in DOMAIN s |-> IF s[i] = ch THEN by ELSE <<s[i]>>])

\* The first index of ch, or 0.
IndexOf(s, ch) == LET at == {i \in DOMAIN s : s[i] = ch} IN IF at = {} THEN 0 ELSE Min(at)

From(s, i) == SubSeq(s, i, Len(s))

-----------------------------------------------------------------------------
(***************************************************************************)
(* Quoting.                                                                *)
(***************************************************************************)
\* Mutant: quotes first, so that their escapes are escaped again.
QuoteSwapped(s) ==
    <<DQ>> \o Escape(Escape(s, DQ, <<BS, DQ>>), BS, <<BS, BS>>) \o <<DQ>>

Quote(s) ==
    <<DQ>> \o Escape(Escape(s, BS, <<BS, BS>>), DQ, <<BS, DQ>>) \o <<DQ>>

Unescaped(inner) ==
    FoldLeft(LAMBDA a, ch : IF a.escaped THEN [out |-> Append(a.out, ch), escaped |-> FALSE]
                            ELSE IF ch = BS THEN [a EXCEPT !.escaped = TRUE]
                            ELSE [a EXCEPT !.out = Append(@, ch)],
             [out |-> <<>>, escaped |-> FALSE], inner).out

\* Of the server; the client's unquote is the same.
unquoteString(s) ==
    IF Len(s) < 2 \/ s[1] # DQ \/ s[Len(s)] # DQ THEN s
    ELSE Unescaped(SubSeq(s, 2, Len(s) - 1))

\* The unescaped quote that closes the one at 1, or 0.
closingQuote(s) ==
    LET escaped[i \in 1 .. Len(s)] == i > 2 /\ s[i - 1] = BS /\ ~escaped[i - 1]
        closes == {i \in 2 .. Len(s) : s[i] = DQ /\ ~escaped[i]}
    IN  IF closes = {} THEN 0 ELSE Min(closes)

\* The control characters of the alphabet.
SanitizeText(s) == [i \in DOMAIN s |-> IF s[i] \in Controls THEN SP ELSE s[i]]

ValidateScriptName(s) == s # <<>> /\ \A i \in DOMAIN s : s[i] \notin Controls

-----------------------------------------------------------------------------
(***************************************************************************)
(* The tokenizer.                                                          *)
(***************************************************************************)
Bad == [err |-> TRUE, args |-> <<>>]

RECURSIVE Tokens(_, _)

\* Mutant: an escaped quote closes the string.
TokensUnescaped(rem, args) ==
    LET r == TrimSpace(rem)
        end == IF r # <<>> /\ r[1] = DQ THEN IndexOf(Tail(r), DQ) + 1 ELSE IndexOf(r, SP)
    IN  IF r = <<>> THEN [err |-> FALSE, args |-> args]
        ELSE IF r[1] = DQ
        THEN IF end = 1 THEN Bad ELSE Tokens(From(r, end + 1), Append(args, SubSeq(r, 1, end)))
        ELSE IF end = 0 THEN [err |-> FALSE, args |-> Append(args, r)]
             ELSE Tokens(From(r, end), Append(args, SubSeq(r, 1, end - 1)))

\* The loop of parseTokens: a quoted string up to its closing quote, or an
\* atom up to a space.
Tokens(rem, args) ==
    LET r == TrimSpace(rem)
        end == IF r # <<>> /\ r[1] = DQ THEN closingQuote(r) ELSE IndexOf(r, SP)
    IN  IF r = <<>> THEN [err |-> FALSE, args |-> args]
        ELSE IF r[1] = DQ
        THEN IF end = 0 THEN Bad ELSE Tokens(From(r, end + 1), Append(args, SubSeq(r, 1, end)))
        ELSE IF end = 0 THEN [err |-> FALSE, args |-> Append(args, r)]
             ELSE Tokens(From(r, end), Append(args, SubSeq(r, 1, end - 1)))

parseTokens(s) == Tokens(s, <<>>)

\* The verb (upper-cased: the alphabet has one case) and its arguments.
parseLine(s) ==
    LET l == TrimSpace(s)  i == IndexOf(l, SP)
    IN  IF i = 0 THEN [err |-> FALSE, command |-> l, args |-> <<>>]
        ELSE LET p == parseTokens(TrimSpace(From(l, i + 1)))
             IN  [err |-> p.err, command |-> SubSeq(l, 1, i - 1), args |-> p.args]

-----------------------------------------------------------------------------
(***************************************************************************)
(* Lengths.                                                                *)
(***************************************************************************)
Digits == <<"1", "2", "3", "4", "5", "6", "7", "8", "9">>
IsDigit(ch) == ch = "0" \/ ch \in Range(Digits)
Value(ch) == IndexOf(Digits, ch)

NaN == -1

\* Mutant: the check leaves the digit out.
TimesTenPlusLoose(n, d) == IF n > MaxInt \div 10 THEN NaN ELSE (n * 10 + d) % (MaxInt + 1)

\* One more digit, in a type that wraps at MaxInt.
TimesTenPlus(n, d) ==
    IF n > (MaxInt - d) \div 10 THEN NaN ELSE (n * 10 + d) % (MaxInt + 1)

\* NaN stands for the two errors.
parseInt64(s) ==
    IF s = <<>> THEN NaN
    ELSE FoldLeft(LAMBDA n, ch : IF n = NaN \/ ~IsDigit(ch) THEN NaN
                                 ELSE TimesTenPlus(n, Value(ch)), 0, s)

\* {N} and {N+}.
literalLength(s) ==
    LET n == Len(s)
        sync == ~(n > 1 /\ s[n - 1] = "+")
    IN  IF n = 0 \/ s[1] # "{" \/ s[n] # "}"
        THEN [ok |-> FALSE, nonSync |-> FALSE, length |-> 0]
        ELSE [ok |-> TRUE, nonSync |-> ~sync,
              length |-> parseInt64(SubSeq(s, 2, IF sync THEN n - 1 ELSE n - 2))]

-----------------------------------------------------------------------------
(***************************************************************************)
(* Responses, and how the client reads them.                               *)
(***************************************************************************)
stripCRLF(s) == SelectSeq(s, LAMBDA ch : ch \notin {CR, LF})

InternalError == <<"internal", SP, "error">>

\* Mutant: the message of a coded error is quoted as it is.
wireMessageRaw(code, message) ==
    LET msg == IF message = <<>> THEN InternalError ELSE message
    IN  IF code = <<>> THEN stripCRLF(msg) ELSE <<"(">> \o code \o <<")", SP>> \o Quote(msg)

wireMessage(code, message) ==
    LET msg == IF message = <<>> THEN InternalError ELSE message
    IN  IF code = <<>> THEN stripCRLF(msg)
        ELSE <<"(">> \o code \o <<")", SP>> \o Quote(SanitizeText(msg))

\* A capability with a value, as sendCapabilityBlock writes it.
CapabilityText(name, value) == Quote(name) \o <<SP>> \o Quote(value)

\* Mutant: the name ends at the next quote, escaped or not.
parseCapabilityLineNaive(text) ==
    LET l == TrimSpace(text)
        end == IF l # <<>> /\ l[1] = DQ THEN IndexOf(Tail(l), DQ) + 1 ELSE IndexOf(l, SP)
    IN  [name |-> unquoteString(SubSeq(l, 1, end)),
         value |-> unquoteString(TrimSpace(From(l, end + 1)))]

parseCapabilityLine(text) ==
    LET l == TrimSpace(text)
        quoted == l # <<>> /\ l[1] = DQ
        end == IF quoted THEN closingQuote(l) ELSE IndexOf(l, SP)
        none == [name |-> <<>>, value |-> <<>>]
    IN  IF l = <<>> \/ (quoted /\ end = 0) THEN none
        ELSE IF end = 0 THEN [none EXCEPT !.name = l]
        ELSE [name  |-> IF quoted THEN unquoteString(SubSeq(l, 1, end)) ELSE SubSeq(l, 1, end - 1),
              value |-> unquoteString(TrimSpace(From(l, end + 1)))]

-----------------------------------------------------------------------------
(***************************************************************************)
(* readBoundedLine, called for one line after another.                     *)
(***************************************************************************)
VARIABLES
    input,    \* all that the peer sends before it closes
    net,      \* what of it has not been read yet
    buf,      \* the buffer of the bufio.Reader
    line,     \* the line gathered so far
    mode,     \* "read", "drain" an oversized line, or "end"
    lines,    \* the lines that were accepted
    verdict,  \* why the reading has ended
    failed    \* ... by a read that failed

vars == <<input, net, buf, line, mode, lines, verdict, failed>>

Init ==
    /\ input \in Inputs /\ net = input /\ buf = <<>> /\ line = <<>>
    /\ mode = "read" /\ lines = <<>> /\ verdict = "none" /\ failed = FALSE

\* ReadSlice needs the socket.
Wants == mode # "end" /\ IndexOf(buf, LF) = 0 /\ Len(buf) < BufSize

Fill ==
    /\ Wants
    /\ \E k \in 1 .. Len(net) : /\ Len(buf) + k <= BufSize
                                /\ buf' = buf \o SubSeq(net, 1, k)
                                /\ net' = From(net, k + 1)
    /\ UNCHANGED <<input, line, mode, lines, verdict, failed>>

Ends(v) == mode' = "end" /\ verdict' = v /\ UNCHANGED <<line, lines>>

\* The rest of a line that is too long.
DrainSlice(found) ==
    IF found THEN Ends("toolong") ELSE UNCHANGED <<mode, verdict, line, lines>>

TooLong(l) == Len(l) > MaxLine

\* Mutant: an oversized line is given up where the buffer ends.
ReadSliceUndrained(chunk, found) ==
    LET l == line \o chunk
    IN  IF TooLong(l) THEN Ends("toolong")
        ELSE IF ~found THEN line' = l /\ UNCHANGED <<mode, verdict, lines>>
        ELSE IF Len(l) < 2 \/ l[Len(l) - 1] # CR THEN Ends("nocrlf")
        ELSE line' = <<>> /\ lines' = Append(lines, l) /\ UNCHANGED <<mode, verdict>>

\* A chunk with its line feed, or a full buffer without one.
ReadSlice(chunk, found) ==
    LET l == line \o chunk
    IN  IF TooLong(l)
        THEN IF found THEN Ends("toolong")
             ELSE mode' = "drain" /\ UNCHANGED <<line, lines, verdict>>
        ELSE IF ~found THEN line' = l /\ UNCHANGED <<mode, verdict, lines>>
        ELSE IF Len(l) < 2 \/ l[Len(l) - 1] # CR THEN Ends("nocrlf")
        ELSE line' = <<>> /\ lines' = Append(lines, l) /\ UNCHANGED <<mode, verdict>>

Slice(chunk, found) ==
    /\ buf' = From(buf, Len(chunk) + 1)
    /\ IF mode = "drain" THEN DrainSlice(found) ELSE ReadSlice(chunk, found)
    /\ UNCHANGED <<input, net, failed>>

TakeLine == /\ mode # "end" /\ IndexOf(buf, LF) > 0
            /\ Slice(SubSeq(buf, 1, IndexOf(buf, LF)), TRUE)

BufferFull == /\ mode # "end" /\ IndexOf(buf, LF) = 0 /\ Len(buf) = BufSize
              /\ Slice(buf, FALSE)

\* ReadSlice fails: the stream has ended, or a deadline passes.
ReadFails(eof) ==
    /\ Wants /\ (eof => net = <<>>) /\ buf' = <<>> /\ failed' = TRUE
    /\ LET l == line \o buf
       IN  Ends(IF mode = "drain" \/ TooLong(l) THEN "toolong"
                ELSE IF ~eof THEN "timeout"
                ELSE IF l # <<>> THEN "nocrlf" ELSE "eof")
    /\ UNCHANGED <<input, net>>

Next == Fill \/ TakeLine \/ BufferFull \/ \E eof \in BOOLEAN : ReadFails(eof)

Spec == Init /\ [][Next]_vars

-----------------------------------------------------------------------------
(***************************************************************************)
(* Reference definitions.                                                  *)
(***************************************************************************)
RECURSIVE RefLines(_, _)

\* The well-formed lines at the front of s, why they end there, and what
\* follows the line that ends them.
RefLines(s, acc) ==
    LET p == IndexOf(s, LF)
        End(v) == [lines |-> acc, verdict |-> v,
                   rest |-> IF p = 0 THEN <<>> ELSE From(s, p + 1)]
    IN  IF s = <<>> THEN End("eof")
        ELSE IF (IF p = 0 THEN Len(s) ELSE p) > MaxLine THEN End("toolong")
        ELSE IF p < 2 \/ s[p - 1] # CR THEN End("nocrlf")
        ELSE RefLines(From(s, p + 1), Append(acc, SubSeq(s, 1, p)))

\* The number that s writes, whatever its size.
Decimal(s) == FoldLeft(LAMBDA n, ch : 10 * n + Value(ch), 0, s)

-----------------------------------------------------------------------------
(***************************************************************************)
(* Properties.                                                             *)
(***************************************************************************)
\* The input has not been touched yet: the properties of the operators look
\* at each input once.
Fresh == net = input /\ mode = "read"

Splits == {[head |-> SubSeq(input, 1, k), tail |-> From(input, k + 1)] : k \in 0 .. Len(input)}

\* However the stream is cut into fills of the buffer, readBoundedLine accepts
\* the same lines and ends for the same reason: a line is accepted exactly when
\* it ends in CRLF within the limit.  An oversized one has been drained up to
\* its line feed and no further.  A deadline can only end the reading earlier.
LinesExact ==
    mode = "end" =>
       LET ref == RefLines(input, <<>>)
       IN  IF verdict = "timeout" THEN IsPrefix(lines, ref.lines)
           ELSE /\ lines = ref.lines /\ verdict = ref.verdict
                /\ ~failed => buf \o net = ref.rest

\* A length is the number that is written, or refused: none wraps, at the edge
\* of the type either, in a literal marker as well as by itself.
LengthExact ==
    Fresh =>
       LET digits == input # <<>> /\ \A i \in DOMAIN input : IsDigit(input[i])
           exact  == IF digits /\ Decimal(input) <= MaxInt THEN Decimal(input) ELSE NaN
       IN  /\ parseInt64(input) = exact
           /\ \A plus \in {<<>>, <<"+">>} :
                 LET lit == literalLength(<<"{">> \o input \o plus \o <<"}">>)
                 IN  digits => lit = [ok |-> TRUE, nonSync |-> plus # <<>>, length |-> exact]

\* A literal stands for the string it carries: put in quotes where the marker
\* was, any body is one argument that unquotes to the body, is no literal
\* marker itself, and leaves what follows it as it was.
LiteralIsString ==
    Fresh => \A x \in Splits :
       LET p == parseTokens(Quote(x.head) \o <<SP>> \o x.tail)
           t == parseTokens(TrimSpace(x.tail))
       IN  /\ p.err = t.err
           /\ ~p.err => /\ p.args = <<Quote(x.head)>> \o t.args
                        /\ unquoteString(p.args[1]) = x.head
                        /\ ~literalLength(p.args[1]).ok

\* The tokens are what the client wrote: each is a whole quoted string or an
\* atom without a space, together they are the text without its separators,
\* and written with single spaces behind a verb they are the same tokens.  So
\* a command read in parts (parseLine, then parseTokens behind each literal)
\* is the command that was sent.
TokensExact ==
    Fresh =>
       LET p == parseTokens(input)
           Text(s) == SelectSeq(s, LAMBDA ch : ch \notin Blank)
           spaced == FlattenSeq([i \in DOMAIN p.args |-> <<SP>> \o p.args[i]])
       IN  ~p.err =>
              /\ \A arg \in Range(p.args) :
                    IF arg[1] = DQ THEN closingQuote(arg) = Len(arg) ELSE IndexOf(arg, SP) = 0
              /\ Text(FlattenSeq(p.args)) = Text(input)
              /\ parseLine(<<"a">> \o spaced) = [err |-> FALSE, command |-> <<"a">>, args |-> p.args]

\* Nothing that a session or a script puts into an error can end the response
\* line, and with a code the message is one quoted string.
ResponseIsOneLine ==
    Fresh =>
       \A code \in {<<>>, <<"CODE">>} :
          LET m == wireMessage(code, input)
          IN  /\ \A i \in DOMAIN m : m[i] \notin {CR, LF}
              /\ code # <<>> =>
                    LET p == parseTokens(m)
                    IN  ~p.err /\ Len(p.args) = 2
                        /\ input # <<>> => unquoteString(p.args[2]) = SanitizeText(input)

\* Server and client agree on what is quoted: the client reads from a
\* capability line the name and the value that the server put into it, and a
\* script name that it sends back as LISTSCRIPTS showed it is the stored name.
PeersAgree ==
    Fresh =>
       LET name == TrimSpace(input)
           p == parseTokens(Quote(SanitizeText(name)) \o <<SP>> \o <<"ACTIVE">>)
       IN  /\ ValidateScriptName(name) =>
                 ~p.err /\ Len(p.args) = 2 /\ TrimSpace(unquoteString(p.args[1])) = name
           /\ \A x \in Splits :
                 parseCapabilityLine(CapabilityText(x.head, x.tail))
                    = [name |-> x.head, value |-> x.tail]
=============================================================================
