----------------------------- MODULE MCRFBClient -----------------------------
(* Instances of RFBClient for TLC. *)
EXTENDS RFBClient

\* A factory with nothing configured, with a password, with everything, and with
\* a pixel layout that cannot be decoded.
Bare     == [unverified |-> FALSE, hostname |-> TRUE, username |-> FALSE, password |-> FALSE,
             readable |-> TRUE]
Password == [Bare EXCEPT !.password = TRUE]
Full     == [unverified |-> TRUE, hostname |-> FALSE, username |-> TRUE, password |-> TRUE,
             readable |-> TRUE]
Odd      == [Bare EXCEPT !.readable = FALSE]

FourPolicies == {Bare, Password, Full, Odd}
OnePolicy     == {Password}

NoneOnly   == {{NONE}}
EveryOffer == {{}, {NONE}, {VNC_AUTHENTICATION}, {NONE, VNC_AUTHENTICATION, 16},
               {VNC_AUTHENTICATION, VENCRYPT}, {DIFFIE_HELLMAN, VENCRYPT}, {5, 16}}
VncOnly    == {{VNC_AUTHENTICATION}}

EverySubtype == {{}, {"Plain"}, {"X509Vnc", "TLSNone"}, {"TLSPlain", "TLSNone"},
                 {"X509None", "TLSVnc"}, {"X509Plain"}}
NoSubtype    == {{}}
==============================================================================
