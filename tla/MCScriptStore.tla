---------------------------- MODULE MCScriptStore ----------------------------
(***************************************************************************)
(* Two sessions on one account, two names, a limit of one script that seeds exceed.       *)
(***************************************************************************)
EXTENDS ScriptStore

MCVerdict == [c \in Contents |-> CASE c = "good" -> "warn"
                                   [] c = "seed" -> "NO"
                                   [] OTHER      -> "CODED"]
=============================================================================
