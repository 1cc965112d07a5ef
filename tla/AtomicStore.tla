----------------------------- MODULE AtomicStore -----------------------------
(***************************************************************************)
(* What the script store promises to its sessions: an account is a set of  *)
(* files, no two of one name, of which at most one is active, and every    *)
(* operation takes effect at one instant between its call and its return.  *)
(* ScriptStore implements it.                                              *)
(***************************************************************************)
EXTENDS Naturals, FiniteSets

CONSTANTS Users, Passwords, Sessions, Names, Contents, SeedContents, Verdict,
          MaxScripts, Nobody

VARIABLES
    known, password,
    files,    \* the files of each user: records of a name and a content
    active,   \* the name of the active one, or ""
    user,     \* who each session is
    reply     \* the last result

vars == <<known, password, files, active, user, reply>>

File(n, c)   == [name |-> n, content |-> c]
Named(u)     == {f.name : f \in files[u]}
Full(u)      == MaxScripts > 0 /\ Cardinality(files[u]) >= MaxScripts
Except(u, n) == {f \in files[u] : f.name # n}

Result(by, what, code) ==
    [by |-> by, what |-> what, code |-> code, got |-> "", list |-> {},
     updated |-> FALSE]

Init ==
    /\ known = {} /\ password \in [Users -> Passwords]
    /\ files = [u \in Users |-> {}] /\ active = [u \in Users |-> ""]
    /\ user = [s \in Sessions |-> Nobody]
    /\ reply = Result(Nobody, "NEW", "OK")

Returns(s, what, code) == reply' = Result(s, what, code)
AccountsKept           == UNCHANGED <<known, password, user>>
FilesKept              == UNCHANGED <<files, active>>

-----------------------------------------------------------------------------
AddUser(u, p) ==
    /\ known' = known \cup {u} /\ password' = [password EXCEPT ![u] = p]
    /\ files' = [files EXCEPT ![u] = {}] /\ active' = [active EXCEPT ![u] = ""]
    /\ Returns(Nobody, "ADDUSER", "OK") /\ UNCHANGED user

AddScript(u, n, c, a) ==
    /\ u \in known
    /\ files' = [files EXCEPT ![u] = Except(u, n) \cup {File(n, c)}]
    /\ active' = [active EXCEPT ![u] = IF a THEN n ELSE IF @ = n THEN "" ELSE @]
    /\ Returns(Nobody, "ADDSCRIPT", "OK") /\ AccountsKept

LogIn(s, u, p, what) ==
    /\ user[s] = Nobody /\ u \in known /\ password[u] = p
    /\ user' = [user EXCEPT ![s] = u] /\ Returns(s, what, "OK")
    /\ UNCHANGED <<known, password>> /\ FilesKept

-----------------------------------------------------------------------------
(***************************************************************************)
(* A session s on the account u.                                           *)
(***************************************************************************)
Put(s, u, n, c) ==
    /\ Verdict[c] \in {"ok", "warn"} /\ (n \in Named(u) \/ ~Full(u))
    /\ files' = [files EXCEPT ![u] = Except(u, n) \cup {File(n, c)}]
    /\ reply' = [Result(s, "PUT", Verdict[c]) EXCEPT !.updated = (n \in Named(u))]
    /\ UNCHANGED active

\* Nothing is promised of the content: SETACTIVE validates what the script held
\* when it looked, and the host may seed another content before it activates.
Activate(s, u, n) ==
    /\ n \in Named(u)
    /\ active' = [active EXCEPT ![u] = n]
    /\ Returns(s, "SETACTIVE", "OK") /\ UNCHANGED files

Deactivate(s, u) ==
    /\ active' = [active EXCEPT ![u] = ""]
    /\ Returns(s, "DEACTIVATE", "OK") /\ UNCHANGED files

Delete(s, u, n) ==
    /\ n \in Named(u) /\ active[u] # n
    /\ files' = [files EXCEPT ![u] = Except(u, n)]
    /\ Returns(s, "DELETE", "OK") /\ UNCHANGED active

\* A renamed script stays active.
Rename(s, u, n, m) ==
    /\ n \in Named(u) /\ m \notin Named(u)
    /\ files' = [files EXCEPT ![u] =
                    Except(u, n) \cup {File(m, f.content) : f \in {g \in @ : g.name = n}}]
    /\ active' = [active EXCEPT ![u] = IF @ = n THEN m ELSE @]
    /\ Returns(s, "RENAME", "OK")

Get(s, u, n) ==
    /\ \E f \in files[u] : /\ f.name = n
                           /\ reply' = [Result(s, "GET", "OK") EXCEPT !.got = f.content]
    /\ FilesKept

List(s, u) ==
    /\ reply' = [Result(s, "LIST", "OK") EXCEPT
                    !.list = {[name |-> n, active |-> n = active[u]] : n \in Named(u)}]
    /\ FilesKept

\* The refusals, each of them only when it is true.
Refuse(s, u) ==
    /\ \/ \E n \in Names : /\ n \notin Named(u)
                           /\ \E w \in {"GET", "SETACTIVE", "DELETE", "RENAME"} :
                                 Returns(s, w, "NONEXISTENT")
       \/ \E n \in Names : n \in Named(u) /\ n = active[u] /\ Returns(s, "DELETE", "ACTIVE")
       \/ \E m \in Names : m \in Named(u) /\ Returns(s, "RENAME", "ALREADYEXISTS")
       \/ \E n \in Names : /\ n \notin Named(u) /\ Full(u)
                           /\ \E w \in {"PUT", "HAVESPACE"} : Returns(s, w, "QUOTA")
       \/ \E c \in Contents : /\ Verdict[c] \notin {"ok", "warn"}
                              /\ \E w \in {"PUT", "SETACTIVE"} : Returns(s, w, Verdict[c])
    /\ FilesKept

\* Answers that say nothing of the account, or that there is room.
Answer(s, u) ==
    /\ \/ \E c \in Contents : Returns(s, "CHECK", Verdict[c])
       \/ \E n \in Names : (n \in Named(u) \/ ~Full(u)) /\ Returns(s, "HAVESPACE", "OK")
    /\ FilesKept

Operation(s, u) ==
    \/ \E n \in Names : \/ Activate(s, u, n) \/ Delete(s, u, n) \/ Get(s, u, n)
                        \/ \E c \in Contents : Put(s, u, n, c)
                        \/ \E m \in Names : Rename(s, u, n, m)
    \/ Deactivate(s, u) \/ List(s, u) \/ Refuse(s, u) \/ Answer(s, u)

-----------------------------------------------------------------------------
Next ==
    \/ \E u \in Users, p \in Passwords : AddUser(u, p)
    \/ \E u \in Users, n \in Names, c \in SeedContents, a \in BOOLEAN :
          AddScript(u, n, c, a)
    \/ \E s \in Sessions, w \in {"LOGIN", "AUTHENTICATE"} :
          \/ \E u \in Users, p \in Passwords : LogIn(s, u, p, w)
          \/ Returns(s, w, "NO") /\ AccountsKept /\ FilesKept
    \/ \E s \in Sessions : user[s] # Nobody /\ Operation(s, user[s]) /\ AccountsKept

Spec == Init /\ [][Next]_vars
=============================================================================
