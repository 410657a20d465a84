-------------------------- MODULE LoggingProxyProofs --------------------------
(***************************************************************************)
(* Proofs about LoggingProxy, for any set of connections.                  *)
(***************************************************************************)
EXTENDS LoggingProxy, TLAPS

\* The types alone; that there is at most one archive follows from IInv.
Types ==
    /\ mode \in AllModes /\ reactor \in {"running", "stopping"}
    /\ code \in {"none", "0", "COMMAND_FAILED"}
    /\ taken \in BOOLEAN /\ failed \in BOOLEAN /\ archives \in Nat
    /\ out \subseteq Conns /\ files \subseteq Conns /\ muted \subseteq Conns
    /\ down \in [Conns -> {"idle", "open", "closing", "done", "gone"}]
    /\ up \in [Conns -> {"none", "dialing", "open", "closing", "lost"}]
    /\ refused \in [Conns -> BOOLEAN] /\ saw \in [Conns -> BOOLEAN] /\ capture \in [Conns -> BOOLEAN]

\* Only a connection that holds the claim has a capture; a refused one has
\* nothing and never becomes a session.
Owned ==
    \A c \in Conns :
        /\ ~ Claims(c) => ~ capture[c]
        /\ down[c] = "idle" => ~ refused[c]
        /\ refused[c] => down[c] # "done" /\ up[c] = "none"
        /\ up[c] # "none" => down[c] # "idle"
        /\ mode # "capture" => ~ capture[c]

\* What has become of the capture, by the state of the connection that holds
\* the claim: it is still being recorded or has failed, or it is over.
Books ==
    /\ mode # "capture" => archives = 0
    /\ mode = "capture" =>
         /\ \A c \in Conns : ~ refused[c] /\ Live(c) =>
                archives = 0 /\ (capture[c] <=> ~ failed) /\ (failed => saw[c])
         /\ \A c \in Conns : down[c] = "done" =>
                \/ archives = 1 /\ ~ failed /\ ~ capture[c]
                \/ archives = 0 /\ failed
         /\ (\A c \in Conns : ~ Claims(c)) => archives = 0 /\ ~ failed

Exited ==
    code # "none" => /\ reactor = "stopping"
                     /\ code = "0" <=> ~ failed
                     /\ \A c \in Conns : ~ Live(c)

IInv == Types /\ ClaimHeld /\ Owned /\ Books /\ Exited

-----------------------------------------------------------------------------

LEMMA InitIInv == Init => IInv
  <1> SUFFICES ASSUME Init PROVE IInv
      OBVIOUS
  <1> USE DEF Init
  <1>1. Types
      BY ModeAssumption DEF Types
  <1>2. \A c \in Conns : ~ Claims(c) /\ ~ Live(c)
      BY DEF Claims, Live
  <1>3. ClaimHeld
      BY <1>2 DEF ClaimHeld
  <1>4. Owned
      BY DEF Owned
  <1>5. Books
      BY <1>2 DEF Books
  <1>6. Exited
      BY DEF Exited
  <1> QED BY <1>1, <1>3, <1>4, <1>5, <1>6 DEF IInv

LEMMA TypesStep == IInv /\ [Next]_vars => Types'
  <1> SUFFICES ASSUME IInv, [Next]_vars PROVE Types'
      OBVIOUS
  <1> USE DEF IInv, Types, Closing, AllModes
  <1>1. ASSUME NEW c \in Conns, Arrive(c) PROVE Types'
      <2>1. CASE Refuse(c)
          BY <2>1 DEF Refuse, process, factory
      <2>2. CASE Accept(c)
          <3>1. taken' \in BOOLEAN
              BY <2>2 DEF Accept
          <3>2. capture' \in [Conns -> BOOLEAN]
              BY <2>2 DEF Accept
          <3>3. out' \subseteq Conns /\ files' \subseteq Conns
              BY <2>2 DEF Accept
          <3> QED BY <2>2, <3>1, <3>2, <3>3 DEF Accept, process
      <2> QED BY <1>1, <2>1, <2>2 DEF Arrive
  <1>2. ASSUME NEW c \in Conns, Dialed(c) PROVE Types'
      BY <1>2 DEF Dialed, Connected, ConnectionFailed, process, factory
  <1>3. ASSUME NEW c \in Conns, Read(c) PROVE Types'
      BY <1>3 DEF Read, ClientBytesRefused, ClientBytes, ServerBytes, Abort, Log, process, factory, proxy, vars
  <1>4. ASSUME NEW c \in Conns, RefusedLost(c) PROVE Types'
      BY <1>4 DEF RefusedLost, process, factory
  <1>5. ASSUME NEW c \in Conns, ProbeLost(c) PROVE Types'
      BY <1>5 DEF ProbeLost, HangUp, CloseOut, process
  <1>6. ASSUME NEW c \in Conns, SessionLost(c) PROVE Types'
      <2>1. reactor' \in {"running", "stopping"}
          BY <1>6 DEF SessionLost, Stop
      <2>2. archives' \in Nat
          BY <1>6 DEF SessionLost
      <2>3. failed' \in BOOLEAN
          BY <1>6, Zenon DEF SessionLost
      <2>4. capture' \in [Conns -> BOOLEAN]
          BY <1>6 DEF SessionLost
      <2>5. files' \subseteq Conns /\ out' \subseteq Conns /\ up' \in [Conns -> {"none", "dialing", "open", "closing", "lost"}]
          BY <1>6 DEF SessionLost, HangUp, CloseOut
      <2> QED BY <1>6, <2>1, <2>2, <2>3, <2>4, <2>5 DEF SessionLost
  <1>7. ASSUME NEW c \in Conns, ServerLost(c) PROVE Types'
      BY <1>7 DEF ServerLost, process, factory
  <1>8. CASE Interrupt
      BY <1>8 DEF Interrupt, factory, proxy
  <1>9. CASE Exit
      BY <1>9 DEF Exit, factory, proxy
  <1>10. CASE UNCHANGED vars
      BY <1>10 DEF vars, process, factory, proxy
  <1> QED BY <1>1, <1>2, <1>3, <1>4, <1>5, <1>6, <1>7, <1>8, <1>9, <1>10 DEF Next, Lost

\* Which connection holds the claim after a step of c: every other one as before.
LEMMA ClaimStep == IInv /\ [Next]_vars => ClaimHeld'
  <1> SUFFICES ASSUME IInv, [Next]_vars PROVE ClaimHeld'
      OBVIOUS
  <1>0. Types /\ ClaimHeld
      BY DEF IInv
  <1> USE DEF Types, ClaimHeld, Claims, OneShot, Closing, Live
  <1>1. ASSUME NEW c \in Conns, Refuse(c) PROVE ClaimHeld'
      BY <1>0, <1>1 DEF Refuse, process, factory, IInv, Owned
  <1>2. ASSUME NEW c \in Conns, Accept(c) PROVE ClaimHeld'
      BY <1>0, <1>2 DEF Accept, process, IInv, Owned
  <1>3. ASSUME NEW c \in Conns, Dialed(c) PROVE ClaimHeld'
      BY <1>0, <1>3 DEF Dialed, Connected, ConnectionFailed, process, factory
  <1>4. ASSUME NEW c \in Conns, Read(c) PROVE ClaimHeld'
      BY <1>0, <1>4 DEF Read, ClientBytesRefused, ClientBytes, ServerBytes, Abort, process, factory, proxy, vars
  <1>5. ASSUME NEW c \in Conns, RefusedLost(c) PROVE ClaimHeld'
      BY <1>0, <1>5 DEF RefusedLost, process, factory
  <1>6. ASSUME NEW c \in Conns, ProbeLost(c) PROVE ClaimHeld'
      BY <1>0, <1>6 DEF ProbeLost, process
  <1>7. ASSUME NEW c \in Conns, SessionLost(c) PROVE ClaimHeld'
      BY <1>0, <1>7 DEF SessionLost
  <1>8. ASSUME NEW c \in Conns, ServerLost(c) PROVE ClaimHeld'
      BY <1>0, <1>8 DEF ServerLost, process, factory
  <1>9. CASE Interrupt \/ Exit
      BY <1>0, <1>9 DEF Interrupt, Exit, factory, proxy
  <1>10. CASE UNCHANGED vars
      BY <1>0, <1>10 DEF vars, process, factory, proxy
  <1> QED BY <1>1, <1>2, <1>3, <1>4, <1>5, <1>6, <1>7, <1>8, <1>9, <1>10 DEF Next, Arrive, Lost

LEMMA OwnedStep == IInv /\ [Next]_vars => Owned'
  <1> SUFFICES ASSUME IInv, [Next]_vars PROVE Owned'
      OBVIOUS
  <1>0. Types /\ Owned
      BY DEF IInv
  <1> USE DEF Types, Owned, Claims, Closing, Live
  <1>1. ASSUME NEW c \in Conns, Refuse(c) PROVE Owned'
      BY <1>0, <1>1 DEF Refuse, process, factory
  <1>2. ASSUME NEW c \in Conns, Accept(c) PROVE Owned'
      BY <1>0, <1>2 DEF Accept, process
  <1>3. ASSUME NEW c \in Conns, Dialed(c) PROVE Owned'
      BY <1>0, <1>3 DEF Dialed, Connected, ConnectionFailed, process, factory
  <1>4. ASSUME NEW c \in Conns, Read(c) PROVE Owned'
      BY <1>0, <1>4 DEF Read, ClientBytesRefused, ClientBytes, ServerBytes, Abort, process, factory, proxy, vars
  <1>5. ASSUME NEW c \in Conns, RefusedLost(c) PROVE Owned'
      BY <1>0, <1>5 DEF RefusedLost, process, factory
  <1>6. ASSUME NEW c \in Conns, ProbeLost(c) PROVE Owned'
      BY <1>0, <1>6 DEF ProbeLost, HangUp, process
  <1>7. ASSUME NEW c \in Conns, SessionLost(c) PROVE Owned'
      BY <1>0, <1>7 DEF SessionLost, HangUp
  <1>8. ASSUME NEW c \in Conns, ServerLost(c) PROVE Owned'
      BY <1>0, <1>8 DEF ServerLost, process, factory
  <1>9. CASE Interrupt \/ Exit
      BY <1>0, <1>9 DEF Interrupt, Exit, factory, proxy
  <1>10. CASE UNCHANGED vars
      BY <1>0, <1>10 DEF vars, process, factory, proxy
  <1> QED BY <1>1, <1>2, <1>3, <1>4, <1>5, <1>6, <1>7, <1>8, <1>9, <1>10 DEF Next, Arrive, Lost

\* In a capture the claim is exclusive, so the step of the connection that
\* holds it is the only one the books depend on.
LEMMA BooksStep == IInv /\ [Next]_vars => Books'
  <1> SUFFICES ASSUME IInv, [Next]_vars PROVE Books'
      OBVIOUS
  <1>0. Types /\ ClaimHeld /\ Owned /\ Books
      BY DEF IInv
  <1> USE DEF Types, ClaimHeld, Owned, Books, Claims, OneShot, Closing, Live
  <1>1. ASSUME NEW c \in Conns, Refuse(c) PROVE Books'
      BY <1>0, <1>1 DEF Refuse, process, factory
  <1>2. ASSUME NEW c \in Conns, Accept(c) PROVE Books'
      <2>1. CASE mode # "capture"
          BY <1>0, <1>2, <2>1 DEF Accept, process
      <2>2. CASE mode = "capture"
          <3>1. \A d \in Conns : ~ Claims(d)
              BY <1>0, <1>2, <2>2 DEF Accept
          <3>2. archives' = 0 /\ failed' = failed /\ ~ failed
              BY <1>0, <1>2, <2>2, <3>1 DEF Accept
          <3>3. mode' = mode /\ capture'[c] /\ ~ refused'[c] /\ down'[c] = "open"
              BY <1>0, <1>2, <2>2 DEF Accept, process
          <3>4. \A d \in Conns : d # c => ~ Claims(d)'
              BY <1>0, <1>2, <3>1 DEF Accept
          <3>5. \A d \in Conns : down'[d] # "done"
              BY <1>0, <1>2, <3>1 DEF Accept
          <3> QED BY <2>2, <3>2, <3>3, <3>4, <3>5
      <2> QED BY <2>1, <2>2
  <1>3. ASSUME NEW c \in Conns, Dialed(c) PROVE Books'
      BY <1>0, <1>3 DEF Dialed, Connected, ConnectionFailed, process, factory
  <1>4. ASSUME NEW c \in Conns, Read(c) PROVE Books'
      BY <1>0, <1>4 DEF Read, ClientBytesRefused, ClientBytes, ServerBytes, Abort, process, factory, proxy, vars
  <1>5. ASSUME NEW c \in Conns, RefusedLost(c) PROVE Books'
      BY <1>0, <1>5 DEF RefusedLost, process, factory
  <1>6. ASSUME NEW c \in Conns, ProbeLost(c) PROVE Books'
      BY <1>0, <1>6 DEF ProbeLost, process
  <1>7. ASSUME NEW c \in Conns, SessionLost(c) PROVE Books'
      BY <1>0, <1>7 DEF SessionLost
  <1>8. ASSUME NEW c \in Conns, ServerLost(c) PROVE Books'
      BY <1>0, <1>8 DEF ServerLost, process, factory
  <1>9. CASE Interrupt \/ Exit
      BY <1>0, <1>9 DEF Interrupt, Exit, factory, proxy
  <1>10. CASE UNCHANGED vars
      BY <1>0, <1>10 DEF vars, process, factory, proxy
  <1> QED BY <1>1, <1>2, <1>3, <1>4, <1>5, <1>6, <1>7, <1>8, <1>9, <1>10 DEF Next, Arrive, Lost

\* Nothing happens to the connections of a process that has exited.
LEMMA ExitedStep == IInv /\ [Next]_vars => Exited'
  <1> SUFFICES ASSUME IInv, [Next]_vars PROVE Exited'
      OBVIOUS
  <1>0. Types /\ Exited
      BY DEF IInv
  <1>1. ASSUME NEW c \in Conns, code = "none",
               Arrive(c) \/ Dialed(c) \/ Read(c) \/ Lost(c) \/ ServerLost(c)
        PROVE  Exited'
      <2>1. code' = code
          BY <1>1 DEF Arrive, Refuse, Accept, Dialed, Connected, ConnectionFailed, Read, ClientBytesRefused,
                      ClientBytes, ServerBytes, Lost, RefusedLost, ProbeLost, SessionLost, ServerLost, process, vars
      <2> QED BY <1>1, <2>1 DEF Exited
  <1>2. CASE Interrupt
      BY <1>0, <1>2 DEF Interrupt, Exited, factory, proxy
  <1>3. CASE Exit
      BY <1>0, <1>3 DEF Exit, Exited, Live, Types, factory, proxy
  <1>4. CASE UNCHANGED vars
      BY <1>0, <1>4 DEF vars, process, factory, proxy, Exited, Live
  <1> QED BY <1>1, <1>2, <1>3, <1>4 DEF Next

-----------------------------------------------------------------------------

THEOREM Inductive == Spec => []IInv
  <1>1. IInv /\ [Next]_vars => IInv'
      BY TypesStep, ClaimStep, OwnedStep, BooksStep, ExitedStep DEF IInv
  <1> QED BY InitIInv, <1>1, PTL DEF Spec

\* Every variable keeps its type, and vnclog writes at most one archive.
THEOREM TypeCorrect == Spec => []TypeOK
  <1>1. IInv => TypeOK
      <2> SUFFICES ASSUME IInv PROVE TypeOK
          OBVIOUS
      <2>1. archives \in 0..1
          <3>1. CASE mode # "capture"
              BY <3>1 DEF IInv, Books
          <3>2. CASE mode = "capture" /\ \E c \in Conns : Claims(c)
              BY <3>2 DEF IInv, Books, Claims, Live
          <3>3. CASE mode = "capture" /\ \A c \in Conns : ~ Claims(c)
              BY <3>3 DEF IInv, Books
          <3> QED BY <3>1, <3>2, <3>3
      <2> QED BY <2>1 DEF IInv, Types, TypeOK
  <1> QED BY Inductive, <1>1, PTL

\* A --one-shot run's claim is held exactly while one connection has it, and by
\* one connection at most, for any number of clients, probes and refusals.
THEOREM ClaimAlwaysHeld == Spec => []ClaimHeld
  <1>1. IInv => ClaimHeld
      BY DEF IInv
  <1> QED BY Inductive, <1>1, PTL

\* The exit status of a --capture-raw run says whether its archive was written.
THEOREM ExitAlwaysHonest == Spec => []ExitHonest
  <1>1. IInv => ExitHonest
      <2> SUFFICES ASSUME IInv, mode = "capture", code # "none"
                   PROVE  code = "0" <=> (archives = 1 \/ \A c \in Conns : down[c] # "done")
          BY DEF ExitHonest
      <2>1. CASE \E c \in Conns : down[c] = "done"
          BY <2>1 DEF IInv, Books, Exited
      <2>2. CASE \A c \in Conns : down[c] # "done"
          <3>1. \A c \in Conns : ~ Claims(c)
              BY <2>2 DEF IInv, Exited, Claims, Live
          <3> QED BY <2>2, <3>1 DEF IInv, Books, Exited
      <2> QED BY <2>1, <2>2
  <1> QED BY Inductive, <1>1, PTL
==============================================================================
