---------------------------- MODULE MCSieveClient ----------------------------
(* Instances of SieveClient for TLC. *)
EXTENDS SieveClient

\* NewClient with each form of TLS and an operation after it; in the clear, a
\* third operation after a Cmd with a deadline.
MCCalls ==
         {"implicit", "starttls"} \X {1} \X {"NEWCLIENT"} \X Contexts
    \cup {"starttls"} \X {2} \X {"CAPABILITY", "AUTHENTICATE"} \X {"cancel", "deadline"}
    \cup {"implicit"} \X {2} \X {"AUTHENTICATE"} \X {"background", "deadline"}
    \cup {"plain"} \X {1} \X {"NEWCLIENT"} \X {"background"}
    \cup {"plain"} \X {2} \X {"CMD"} \X {"deadline"}
    \cup {"plain"} \X {3} \X {"CMD"} \X {"deadline"}

\* Three operations on a plain connection whose contexts never end.
MCPatient == {"plain"} \X Ops \X Kinds \X {"background"}

\* One Cmd behind NewClient, with every kind of context.
MCOneCmd ==
         {"plain"} \X {1} \X {"NEWCLIENT"} \X Contexts
    \cup {"plain"} \X {2} \X {"CMD"} \X Contexts
=============================================================================
