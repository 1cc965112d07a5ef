--------------------------- MODULE SessionProtocol ---------------------------
(***************************************************************************)
(* What the library promises the author of a Session                       *)
(* (src/managesieveserver/session.go): the states of a connection in which *)
(* each of its methods may be called, and how a call changes the state.    *)
(* SieveConn implements it.                                                *)
(***************************************************************************)
CONSTANT InsecureAuth   \* authentication is allowed without TLS

VARIABLES
    phase,  \* "nonauth", "auth", "hijacked" or "closed"
    tls,    \* the connection is encrypted
    call    \* the method that is running: "none", "login" or "script"

vars == <<phase, tls, call>>

Init == phase = "nonauth" /\ tls \in BOOLEAN /\ call = "none"

\* STARTTLS, before authentication only and at most once.
Secure == /\ phase = "nonauth" /\ call = "none" /\ ~tls
          /\ tls' = TRUE /\ UNCHANGED <<phase, call>>

\* AuthenticatePlain or Login.
CallLogin == /\ phase = "nonauth" /\ call = "none" /\ (tls \/ InsecureAuth)
             /\ call' = "login" /\ UNCHANGED <<phase, tls>>

\* Any other method.
CallScript == /\ phase = "auth" /\ call = "none"
              /\ call' = "script" /\ UNCHANGED <<phase, tls>>

Return(p) == call # "none" /\ call' = "none" /\ phase' = p /\ UNCHANGED tls

\* A login that succeeds is the one way into the authenticated state.
Succeed == Return("auth")

Fail == Return(phase)

\* Conn.Hijack from within a login: no method is called any more.
Hijack == call = "login" /\ Return("hijacked")

\* The connection ends, by itself or by a panic of the method.
End == /\ phase # "closed" /\ phase' = "closed"
       /\ call' = "none" /\ UNCHANGED tls

Next == Secure \/ CallLogin \/ CallScript \/ Succeed \/ Fail \/ Hijack \/ End

Spec == Init /\ [][Next]_vars
=============================================================================
