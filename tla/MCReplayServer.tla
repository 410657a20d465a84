---------------------------- MODULE MCReplayServer ----------------------------
(* Instances of ReplayServer for TLC. *)
EXTENDS ReplayServer

\* A client of ours, one that types before it asks, and one that sends
\* something the server cannot measure.
ThreeScripts == {<<"pixelformat", "encodings", "request">>,
                 <<"text", "key", "pointer", "request", "key">>,
                 <<"qemu", "odd">>}

\* Messages whose end vnclog finds, and some it does not measure.
SomeInputs   == {<<"key", "text", "pixelformat", "pointer">>,
                 <<"encodings", "qemu", "fence", "key">>, <<"request", "odd", "key">>}
==============================================================================
