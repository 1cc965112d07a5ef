----------------------------- MODULE ScriptStore -----------------------------
(***************************************************************************)
(* The in-memory script store (src/managesievemem/store.go): accounts with *)
(* their scripts under one RWMutex, and the sessions of several            *)
(* connections that work on them at once.                                  *)
(*                                                                         *)
(* A critical section of store.mu is one action.  PutScript validates      *)
(* before it takes the lock, so it is two actions; SetActive reads a       *)
(* snapshot, validates it without the lock and takes the lock again, so it *)
(* is three.  The host's Validate hook is the constant Verdict.            *)
(***************************************************************************)
EXTENDS Naturals, Sequences

CONSTANTS
    Users, Passwords,
    Sessions,    \* the sessions of the connections
    Names,       \* script names; "" is none of them (ValidateScriptName)
    Contents,
    SeedContents, \* those the host seeds with AddScript
    Verdict,     \* what Validate says of a content (always "ok" when nil)
    MaxScripts,  \* 0 is unlimited
    Nobody       \* the username of a session before its login

ASSUME StoreAssumption ==
    /\ MaxScripts \in Nat
    /\ "" \notin Names
    /\ Nobody \notin Users
    /\ SeedContents \subseteq Contents

\* A hook accepts, accepts with warnings, or returns an error: a plain one,
\* which wrapValidationError renders, or an *Error with a code of its own.
ASSUME VerdictAssumption == Verdict \in [Contents -> {"ok", "warn", "NO", "CODED"}]

VARIABLES
    known,     \* the users that have an account
    password,  \* their passwords
    scripts,   \* their scripts, in the order of the slice
    user,      \* sess.username
    op,        \* the operation each session is in the middle of
    reply      \* the last result that the store has returned, and to whom

vars == <<known, password, scripts, user, op, reply>>

Script == [name : Names, content : Contents, active : BOOLEAN]

-----------------------------------------------------------------------------
(***************************************************************************)
(* Slices of scripts.                                                      *)
(***************************************************************************)
Has(q, n) == \E i \in DOMAIN q : q[i].name = n

\* The first script of that name.
find(q, n) == CHOOSE i \in DOMAIN q :
                 /\ q[i].name = n
                 /\ \A j \in DOMAIN q : j < i => q[j].name # n

Deactivated(q) == [i \in DOMAIN q |-> [q[i] EXCEPT !.active = FALSE]]

\* append(scripts[:i], scripts[i+1:]...)
Without(q, i) == SubSeq(q, 1, i - 1) \o SubSeq(q, i + 1, Len(q))

AtLimit(q) == MaxScripts > 0 /\ Len(q) >= MaxScripts

Accepted(c) == Verdict[c] \in {"ok", "warn"}

-----------------------------------------------------------------------------
Idle == [pc |-> "idle", name |-> "", content |-> ""]
At(l, n, c) == [pc |-> l, name |-> n, content |-> c]

Result(by, what, code) ==
    [by |-> by, what |-> what, code |-> code, got |-> "", list |-> <<>>,
     updated |-> FALSE]

Init ==
    /\ known = {}
    /\ password \in [Users -> Passwords]
    /\ scripts = [u \in Users |-> <<>>]
    /\ user = [s \in Sessions |-> Nobody]
    /\ op = [s \in Sessions |-> Idle]
    /\ reply = Result(Nobody, "NEW", "OK")

Returns(s, what, code) == reply' = Result(s, what, code)

\* The account of the session, which authed finds: sessions are only used once
\* logged in, and an account is never taken away.
Of(s) == scripts[user[s]]

Store(s, q) == scripts' = [scripts EXCEPT ![user[s]] = q]

\* The library calls a session method once it is authenticated and has no
\* other call under way.
Called(s) == user[s] # Nobody /\ op[s].pc = "idle"

AccountsKept == UNCHANGED <<known, password, user>>

-----------------------------------------------------------------------------
(***************************************************************************)
(* The host, which registers accounts and seeds scripts.                   *)
(***************************************************************************)
\* An account that exists is replaced, scripts and all.
AddUser(u, p) ==
    /\ known' = known \cup {u}
    /\ password' = [password EXCEPT ![u] = p]
    /\ scripts' = [scripts EXCEPT ![u] = <<>>]
    /\ Returns(Nobody, "ADDUSER", "OK")
    /\ UNCHANGED <<user, op>>

\* Neither validated nor counted against the limit.
Added(q, n, c, a) ==
    LET r == IF a THEN Deactivated(q) ELSE q
    IN  IF Has(r, n)
        THEN [r EXCEPT ![find(r, n)].content = c, ![find(r, n)].active = a]
        ELSE Append(r, [name |-> n, content |-> c, active |-> a])

AddScript(u, n, c, a) ==
    /\ u \in known
    /\ scripts' = [scripts EXCEPT ![u] = Added(@, n, c, a)]
    /\ Returns(Nobody, "ADDSCRIPT", "OK")
    /\ AccountsKept /\ UNCHANGED op

-----------------------------------------------------------------------------
(***************************************************************************)
(* Logging in.                                                             *)
(***************************************************************************)
\* login: the account is looked up under the lock, its password compared
\* after it, against a pointer whose password never changes.
login(s, u, p, what) ==
    /\ user[s] = Nobody
    /\ IF u \in known /\ password[u] = p
       THEN user' = [user EXCEPT ![s] = u] /\ Returns(s, what, "OK")
       ELSE UNCHANGED user /\ Returns(s, what, "NO")
    /\ UNCHANGED <<known, password, scripts, op>>

Login(s, u, p) == login(s, u, p, "LOGIN")

\* Another authorization identity is refused before the lookup.
AuthenticatePlain(s, own, u, p) ==
    IF own THEN login(s, u, p, "AUTHENTICATE")
    ELSE /\ user[s] = Nobody /\ Returns(s, "AUTHENTICATE", "NO")
         /\ UNCHANGED <<known, password, scripts, user, op>>

-----------------------------------------------------------------------------
(***************************************************************************)
(* Reading.                                                                *)
(***************************************************************************)
Reads == AccountsKept /\ UNCHANGED <<scripts, op>>

ListScripts(s) ==
    /\ Called(s)
    /\ reply' = [Result(s, "LIST", "OK") EXCEPT
                    !.list = [i \in DOMAIN Of(s) |->
                                 [name |-> Of(s)[i].name, active |-> Of(s)[i].active]]]
    /\ Reads

GetScript(s, n) ==
    /\ Called(s)
    /\ IF Has(Of(s), n)
       THEN reply' = [Result(s, "GET", "OK") EXCEPT
                         !.got = Of(s)[find(Of(s), n)].content]
       ELSE Returns(s, "GET", "NONEXISTENT")
    /\ Reads

CheckScript(s, c) == Called(s) /\ Returns(s, "CHECK", Verdict[c]) /\ Reads

HaveSpace(s, n) ==
    /\ Called(s)
    /\ Returns(s, "HAVESPACE",
               IF ~Has(Of(s), n) /\ AtLimit(Of(s)) THEN "QUOTA" ELSE "OK")
    /\ Reads

-----------------------------------------------------------------------------
(***************************************************************************)
(* Writing.                                                                *)
(***************************************************************************)
\* Mutant: the content is stored unseen.
PutValidatesNothing(s, n, c) ==
    /\ Called(s) /\ op' = [op EXCEPT ![s] = At("put", n, c)]
    /\ AccountsKept /\ UNCHANGED <<scripts, reply>>

\* PutScriptWarnings up to the lock.
PutValidates(s, n, c) ==
    /\ Called(s)
    /\ IF Accepted(c)
       THEN op' = [op EXCEPT ![s] = At("put", n, c)] /\ UNCHANGED reply
       ELSE Returns(s, "PUT", Verdict[c]) /\ UNCHANGED op
    /\ AccountsKept /\ UNCHANGED scripts

\* PutScriptWarnings under the lock: a script that exists keeps its place and
\* its activity; another one is appended within the limit.
PutStores(s) ==
    /\ op[s].pc = "put" /\ op' = [op EXCEPT ![s] = Idle]
    /\ LET q == Of(s)  n == op[s].name  c == op[s].content
       IN  IF Has(q, n)
           THEN /\ Store(s, [q EXCEPT ![find(q, n)].content = c])
                /\ reply' = [Result(s, "PUT", Verdict[c]) EXCEPT !.updated = TRUE]
           ELSE IF AtLimit(q) THEN Returns(s, "PUT", "QUOTA") /\ UNCHANGED scripts
           ELSE /\ Store(s, Append(q, [name |-> n, content |-> c, active |-> FALSE]))
                /\ Returns(s, "PUT", Verdict[c])
    /\ AccountsKept

\* SetActive("").
DeactivateAll(s) ==
    /\ Called(s) /\ Store(s, Deactivated(Of(s)))
    /\ Returns(s, "DEACTIVATE", "OK")
    /\ AccountsKept /\ UNCHANGED op

\* SetActive: the snapshot under the read lock.
SetActiveReads(s, n) ==
    /\ Called(s)
    /\ IF Has(Of(s), n)
       THEN /\ op' = [op EXCEPT ![s] = At("validate", n, Of(s)[find(Of(s), n)].content)]
            /\ UNCHANGED reply
       ELSE Returns(s, "SETACTIVE", "NONEXISTENT") /\ UNCHANGED op
    /\ AccountsKept /\ UNCHANGED scripts

\* SetActive: validate, without the lock.
SetActiveValidates(s) ==
    /\ op[s].pc = "validate"
    /\ IF Accepted(op[s].content)
       THEN op' = [op EXCEPT ![s] = At("activate", op[s].name, op[s].content)]
            /\ UNCHANGED reply
       ELSE op' = [op EXCEPT ![s] = Idle]
            /\ Returns(s, "SETACTIVE", Verdict[op[s].content])
    /\ AccountsKept /\ UNCHANGED scripts

\* Mutant: the others stay active.
ActivatedBeside(q, n) == [q EXCEPT ![find(q, n)].active = TRUE]

Activated(q, n) == [Deactivated(q) EXCEPT ![find(q, n)].active = TRUE]

\* Mutant: the name is not looked up again before the others are deactivated.
SetActiveCommitsStale(s) ==
    /\ op[s].pc = "activate" /\ op' = [op EXCEPT ![s] = Idle]
    /\ LET q == Of(s)  n == op[s].name
       IN  /\ Store(s, IF Has(q, n) THEN Activated(q, n) ELSE Deactivated(q))
           /\ Returns(s, "SETACTIVE", "OK")
    /\ AccountsKept

\* SetActive under the lock, where the name is looked up again.
SetActiveCommits(s) ==
    /\ op[s].pc = "activate" /\ op' = [op EXCEPT ![s] = Idle]
    /\ LET q == Of(s)  n == op[s].name
       IN  IF Has(q, n)
           THEN Store(s, Activated(q, n)) /\ Returns(s, "SETACTIVE", "OK")
           ELSE UNCHANGED scripts /\ Returns(s, "SETACTIVE", "NONEXISTENT")
    /\ AccountsKept

\* Mutant: the active script is deleted like any other.
DeleteScriptUnguarded(s, n) ==
    /\ Called(s)
    /\ LET q == Of(s)
       IN  IF Has(q, n)
           THEN Store(s, Without(q, find(q, n))) /\ Returns(s, "DELETE", "OK")
           ELSE UNCHANGED scripts /\ Returns(s, "DELETE", "NONEXISTENT")
    /\ AccountsKept /\ UNCHANGED op

DeleteScript(s, n) ==
    /\ Called(s)
    /\ LET q == Of(s)
       IN  IF ~Has(q, n)
           THEN UNCHANGED scripts /\ Returns(s, "DELETE", "NONEXISTENT")
           ELSE IF q[find(q, n)].active
           THEN UNCHANGED scripts /\ Returns(s, "DELETE", "ACTIVE")
           ELSE Store(s, Without(q, find(q, n))) /\ Returns(s, "DELETE", "OK")
    /\ AccountsKept /\ UNCHANGED op

RenameScript(s, n, m) ==
    /\ Called(s)
    /\ LET q == Of(s)
       IN  IF ~Has(q, n)
           THEN UNCHANGED scripts /\ Returns(s, "RENAME", "NONEXISTENT")
           ELSE IF Has(q, m)
           THEN UNCHANGED scripts /\ Returns(s, "RENAME", "ALREADYEXISTS")
           ELSE /\ Store(s, [q EXCEPT ![find(q, n)].name = m])
                /\ Returns(s, "RENAME", "OK")
    /\ AccountsKept /\ UNCHANGED op

-----------------------------------------------------------------------------
Host == \E u \in Users :
           \/ \E p \in Passwords : AddUser(u, p)
           \/ \E n \in Names, c \in SeedContents, a \in BOOLEAN : AddScript(u, n, c, a)

LogsIn(s) == \E u \in Users, p \in Passwords :
                \/ Login(s, u, p)
                \/ \E own \in BOOLEAN : AuthenticatePlain(s, own, u, p)

Reading(s) == \/ ListScripts(s)
              \/ \E n \in Names : GetScript(s, n) \/ HaveSpace(s, n)
              \/ \E c \in Contents : CheckScript(s, c)

Putting(s) == \/ \E n \in Names, c \in Contents : PutValidates(s, n, c)
              \/ PutStores(s)

Activating(s) == \/ DeactivateAll(s)
                 \/ \E n \in Names : SetActiveReads(s, n)
                 \/ SetActiveValidates(s) \/ SetActiveCommits(s)

Moving(s) == \/ \E n \in Names : DeleteScript(s, n)
             \/ \E n, m \in Names : RenameScript(s, n, m)

Next == \/ Host
        \/ \E s \in Sessions : \/ LogsIn(s) \/ Reading(s) \/ Putting(s)
                               \/ Activating(s) \/ Moving(s)

Spec == Init /\ [][Next]_vars

-----------------------------------------------------------------------------
(***************************************************************************)
(* Properties.                                                             *)
(***************************************************************************)
Ops == [pc : {"idle", "put", "validate", "activate"}, name : Names \cup {""},
        content : Contents \cup {""}]

\* Every variable has its type, and a session in the middle of an operation
\* is logged in and holds its arguments; what it stores has been accepted.
TypeOK ==
    /\ known \subseteq Users
    /\ password \in [Users -> Passwords]
    /\ scripts \in [Users -> Seq(Script)]
    /\ user \in [Sessions -> Users \cup {Nobody}]
    /\ op \in [Sessions -> Ops]
    /\ \A s \in Sessions : op[s].pc # "idle" =>
          user[s] # Nobody /\ op[s].name \in Names /\ op[s].content \in Contents
    /\ \A s \in Sessions : op[s].pc = "put" => Accepted(op[s].content)

OneActive(q) == \A i, j \in DOMAIN q : q[i].active /\ q[j].active => i = j

UniqueNames(q) == \A i, j \in DOMAIN q : q[i].name = q[j].name => i = j

\* "At most one script per account may be active" (managesieve.go:17-18), with
\* activations of several sessions and of the host under way at once; and no
\* two have one name, whatever is put, renamed and seeded in between: find
\* returns the script.
AccountsSound == \A u \in Users : OneActive(scripts[u]) /\ UniqueNames(scripts[u])

\* "PUTSCRIPT validates on store": a script that Validate rejects can only be
\* one that the host has seeded, so that without such seeds what SetActive
\* activates has been validated, also when it is not what it looked at.
StoredVetted ==
    \A u \in Users : \A i \in DOMAIN scripts[u] :
       Accepted(scripts[u][i].content) \/ scripts[u][i].content \in SeedContents

HasActive(u) == \E i \in DOMAIN scripts[u] : scripts[u][i].active

\* An account that filters mail goes on doing so: only SETACTIVE "" and the
\* host leave an account with an active script without one.  DELETESCRIPT is
\* refused, RENAMESCRIPT and PUTSCRIPT keep the script active, and a SETACTIVE
\* whose script has gone since it was validated leaves the others alone.
FilterKept ==
    [][\A u \in Users : (HasActive(u) /\ ~HasActive(u)') =>
          reply'.what \in {"DEACTIVATE", "ADDUSER", "ADDSCRIPT"}]_vars

-----------------------------------------------------------------------------
(***************************************************************************)
(* The store implements AtomicStore.                                       *)
(***************************************************************************)
FilesOf(q) == {[name |-> q[i].name, content |-> q[i].content] : i \in DOMAIN q}

ActiveOf(q) == IF \E i \in DOMAIN q : q[i].active
               THEN q[CHOOSE i \in DOMAIN q : q[i].active].name
               ELSE ""

Atomic == INSTANCE AtomicStore WITH
    files  <- [u \in Users |-> FilesOf(scripts[u])],
    active <- [u \in Users |-> ActiveOf(scripts[u])],
    reply  <- [reply EXCEPT !.list = {reply.list[i] : i \in DOMAIN reply.list}]

\* Every operation, SetActive and PutScript with their several critical
\* sections too, has the effect and the answer that it would have had at one
\* instant of its run: no session can tell the store from AtomicStore.  So no
\* session grows an account beyond MaxScripts either, though HAVESPACE and
\* PUTSCRIPT look at the limit in critical sections of their own.
ImplementsAtomic == Atomic!Spec
=============================================================================
