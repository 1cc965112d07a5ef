----------------------------- MODULE MCSieveConn -----------------------------
(***************************************************************************)
(* Commands for the runs of SieveConn.                                     *)
(***************************************************************************)
EXTENDS SieveConn

Tok(k, verb, args, wait) ==
    [k |-> k, verb |-> verb, args |-> args, wait |-> wait]

Line(verb, args)  == Tok("line", verb, args, FALSE)
Sync(verb, args)  == Tok("line", verb, args, TRUE)
Body(v)           == Tok("body", "DATA", <<v>>, FALSE)
Rogue(v)          == Tok("body", "ROGUE", <<v>>, FALSE)
Cont(v)           == Tok("cont", "CONT", <<v>>, FALSE)
Rest(args)        == Tok("rest", IF args = <<>> THEN "BLANK" ELSE "REST", args, FALSE)
Crlf              == Rest(<<>>)

Login    == <<Line("LOGIN", <<"ok", "ok">>)>>
AuthInit == <<Line("AUTHENTICATE", <<"ok", "ok">>)>>
StartTLS == <<Sync("STARTTLS", <<>>)>>

\* Every way to authenticate, to fail at it, and what can go on around it.
MCAuthCommands ==
    { StartTLS,
      <<Line("STARTTLS", <<>>)>>,                              \* pipelines
      <<Line("CAPABILITY", <<>>)>>,
      <<Line("LOGOUT", <<>>)>>,
      <<Line("LOGIN", <<"ok">>)>>,
      <<Line("LOGIN", <<"ok", "n">>), Body("ok"), Crlf>>,
      <<Line("AUTHENTICATE", <<>>)>>,
      <<Line("AUTHENTICATE", <<"bad", "ok">>)>>,
      AuthInit,
      <<Line("AUTHENTICATE", <<"ok", "bad">>)>>,
      <<Line("AUTHENTICATE", <<"ok", "nopass">>)>>,
      <<Line("AUTHENTICATE", <<"ok", "n">>), Body("ok"), Crlf>>,
      <<Line("AUTHENTICATE", <<"ok", "s">>), Body("bad"), Crlf>>,
      <<Line("AUTHENTICATE", <<"ok", "nBig">>), Body("ok"), Crlf>>,
      <<Line("AUTHENTICATE", <<"n">>), Body("ok"), Rest(<<"ok">>)>>,
      <<Sync("AUTHENTICATE", <<"ok">>), Cont("ok")>>,
      <<Sync("AUTHENTICATE", <<"ok">>), Tok("cont", "CONT", <<>>, FALSE)>>,
      <<Sync("AUTHENTICATE", <<"ok">>), Cont("*")>>,
      <<Sync("AUTHENTICATE", <<"ok">>), Cont("n"), Body("ok"), Crlf>>,
      <<Sync("AUTHENTICATE", <<"ok">>), Cont("nBad"), Body("ok"), Crlf>>,
      <<Line("LISTSCRIPTS", <<>>)>> }

\* Script commands, literals in every position and form, malformed input.
MCScriptCommands ==
    { Login,
      <<Line("XUNKNOWN", <<>>)>>,
      <<Line("XUNKNOWN", <<"n">>), Body("ok"), Rest(<<"n">>), Body("ok"), Crlf>>,
      <<Line("BLANK", <<>>)>>,
      <<Line("PARSEERR", <<>>)>>,
      <<Tok("long", "XUNKNOWN", <<>>, FALSE)>>,
      <<Line("NOOP", <<"sBig">>)>>,
      <<Line("NOOP", <<"nBad">>), Body("ok"), Crlf>>,
      <<Line("GETSCRIPT", <<"nBig">>), Body("ok"), Crlf>>,
      <<Sync("NOOP", <<"sBig">>), Rogue("ok"), Crlf>>,
      <<Line("NOOP", <<"sBig">>), Rogue("ok"), Crlf>>,          \* too early
      <<Sync("GETSCRIPT", <<"s">>), Body("ok"), Crlf>>,
      <<Sync("GETSCRIPT", <<"s">>), Body("ok"), Tok("nocrlf", "REST", <<>>, FALSE)>>,
      <<Line("RENAMESCRIPT", <<"n">>), Body("empty"), Rest(<<"ok">>)>>,
      <<Line("RENAMESCRIPT", <<"n">>), Body("ok"), Tok("rest", "PARSEERR", <<>>, FALSE)>>,
      <<Line("HAVESPACE", <<"ok", "big">>)>>,
      <<Line("HAVESPACE", <<"ok", "bad">>)>>,
      <<Line("HAVESPACE", <<"ok", "n">>), Body("ok"), Crlf>>,
      <<Line("PUTSCRIPT", <<"ok">>)>>,
      <<Line("PUTSCRIPT", <<"bad", "ok">>)>>,
      <<Line("PUTSCRIPT", <<"ok", "big">>)>>,
      <<Sync("PUTSCRIPT", <<"ok", "s">>), Body("ok"), Crlf>>,
      <<Line("PUTSCRIPT", <<"ok", "n">>), Body("ok"), Crlf>>,
      <<Line("PUTSCRIPT", <<"n">>), Body("ok"), Rest(<<"n">>), Body("ok"), Crlf>>,
      <<Line("PUTSCRIPT", <<"ok", "nBig">>), Body("ok"), Crlf>>,
      <<Sync("PUTSCRIPT", <<"ok", "sBad">>), Body("ok"), Crlf>>,
      <<Line("CHECKSCRIPT", <<"sBig">>), Rogue("ok"), Crlf>>,
      <<Line("CHECKSCRIPT", <<"nBad">>), Body("ok"), Crlf>> }

MCCommands == MCAuthCommands \cup MCScriptCommands

\* One command per kind of wait, for the runs with timers and shutdown.
MCWaitCommands ==
    { StartTLS,
      <<Line("LOGIN", <<"n">>), Body("ok"), Rest(<<"ok">>)>>,
      <<Sync("AUTHENTICATE", <<"ok">>), Cont("n"), Body("ok"), Crlf>>,
      <<Sync("PUTSCRIPT", <<"ok", "s">>), Body("ok"), Crlf>>,
      <<Line("BLANK", <<>>)>>,
      <<Line("LOGOUT", <<>>)>> }

\* The commands whose refusal the framing findings are about.
MCCommittedCommands ==
    { <<Line("PUTSCRIPT", <<"ok", "n">>), Body("ok"), Crlf>>,
      <<Line("AUTHENTICATE", <<"ok", "n">>), Body("ok"), Crlf>> }
=============================================================================
