-------------------------- MODULE RunControl_proofs --------------------------
(***************************************************************************)
(* The run control, for every set of nodes and every number of runs and    *)
(* launches: a node runs one acquisition, a panel that shows none is right,*)
(* and, while data connections are accepted within their run, each is read *)
(* by the loop of its kind and written by one choice on all nodes.         *)
(***************************************************************************)
EXTENDS RunControl, FiniteSetTheorems, TLAPS

Busy(n) == \E a \in acq[n] : a.stage # "ending"
Told(n, i) == i \in 1 .. Len(cmds[n]) /\ cmds[n][i].cmd \in Kinds
Ended(n, i) == i \in 1 .. Len(status[n]) /\ status[n][i] \in Terminal

OneThread == \A n \in Nodes : \A a, b \in acq[n] : a = b

\* A session is in one place: the command on its way, the thread that is not
\* about to end, or the status that ends it; and in none when it is not shown.
SequelAt(n) ==
    /\ \A i, j \in Nat : Told(n, i) /\ Told(n, j) => i = j
    /\ \A i, j \in Nat : Ended(n, i) /\ Ended(n, j) => i = j
    /\ \A i, j \in Nat : Told(n, i) => ~Ended(n, j)
    /\ Busy(n) => \A i \in Nat : ~Told(n, i) /\ ~Ended(n, i)
    /\ panel[n] = "ready" /\ ~session_active[n] =>
          ~Busy(n) /\ \A i \in Nat : ~Told(n, i) /\ ~Ended(n, i)
Sequel == \A n \in Nodes : SequelAt(n)

Session == TypeOK /\ OneThread /\ Sequel
-----------------------------------------------------------------------------
LEMMA NoCommandYet ==
    /\ <<>> \in Seq(Commands) /\ <<>> \in Seq(Terminal \cup {"busy"})
    /\ <<>> \in Seq([run : 0 .. MaxRuns, kind : Kinds])
  OBVIOUS

LEMMA Appended ==
    ASSUME NEW S, NEW s \in Seq(S), NEW x \in S
    PROVE  /\ Append(s, x) \in Seq(S) /\ Len(s) \in Nat /\ Len(Append(s, x)) = Len(s) + 1
           /\ \A i \in 1 .. Len(s) : Append(s, x)[i] = s[i]
           /\ Append(s, x)[Len(s) + 1] = x
  OBVIOUS

LEMMA HeadOff ==
    ASSUME NEW S, NEW s \in Seq(S), s # <<>>
    PROVE  /\ Tail(s) \in Seq(S) /\ Len(s) \in Nat /\ Len(s) >= 1 /\ Len(Tail(s)) = Len(s) - 1
           /\ Head(s) = s[1] /\ Head(s) \in S
           /\ \A i \in 1 .. Len(s) - 1 : Tail(s)[i] = s[i + 1]
  OBVIOUS

LEMMA CutShort ==
    ASSUME NEW S, NEW s \in Seq(S), NEW p \in Prefixes(s)
    PROVE  /\ p \in Seq(S) /\ Len(p) \in Nat /\ Len(p) =< Len(s) /\ Len(s) \in Nat
           /\ \A i \in 1 .. Len(p) : p[i] = s[i]
  <1>1. PICK k \in 0 .. Len(s) : p = SubSeq(s, 1, k)
    BY DEF Prefixes
  <1>2. Len(s) \in Nat /\ k \in Nat /\ k =< Len(s)
    OBVIOUS
  <1>3. p = [i \in 1 .. k |-> s[i]]
    BY <1>1, <1>2
  <1>4. \A i \in 1 .. k : s[i] \in S
    BY <1>2
  <1>5. p \in Seq(S) /\ Len(p) = k
    BY <1>2, <1>3, <1>4
  <1> QED
    BY <1>2, <1>3, <1>5
-----------------------------------------------------------------------------
LEMMA InitSession == Init => Session
  <1> SUFFICES ASSUME Init PROVE Session
    OBVIOUS
  <1>1. TypeOK
    <2>1. run \in 0 .. MaxRuns /\ NoConn \in Connections /\ links \in [Nodes -> 0 .. MaxLinks]
          /\ wrote \in [Nodes -> [run : 0 .. MaxRuns, write : BOOLEAN]]
      BY RunControlAssumption DEF Init, Connections, NoConn
    <2>2. cmds \in [Nodes -> Seq(Commands)] /\ status \in [Nodes -> Seq(Terminal \cup {"busy"})]
          /\ backlog \in [Nodes -> Seq([run : 0 .. MaxRuns, kind : Kinds])]
      BY NoCommandYet DEF Init
    <2> QED
      BY <2>1, <2>2 DEF Init, TypeOK, Kinds
  <1>2. \A n \in Nodes : acq[n] = {} /\ cmds[n] = <<>> /\ status[n] = <<>>
    BY DEF Init
  <1> QED
    BY <1>1, <1>2 DEF Session, OneThread, Sequel, SequelAt, Busy, Told, Ended

\* What is left as it was at a node.
LEMMA SequelKept ==
    ASSUME NEW k \in Nodes, SequelAt(k), panel'[k] = panel[k] \/ panel'[k] = "idle",
           panel'[k] = "ready" => session_active'[k] = session_active[k],
           cmds'[k] = cmds[k], status'[k] = status[k], acq'[k] = acq[k]
    PROVE  SequelAt(k)'
  BY DEF SequelAt, Busy, Told, Ended

LEMMA ConnectSession == ASSUME Session, NEW n \in Nodes, Connect(n) PROVE Session'
  <1>1. TypeOK'
    <2>1. NoConn \in Connections /\ links[n] + 1 \in 0 .. MaxLinks
      BY RunControlAssumption DEF Session, TypeOK, Connect, Connections, NoConn
    <2>2. cmds' \in [Nodes -> Seq(Commands)] /\ status' \in [Nodes -> Seq(Terminal \cup {"busy"})]
          /\ backlog' \in [Nodes -> Seq([run : 0 .. MaxRuns, kind : Kinds])]
      BY NoCommandYet DEF Session, TypeOK, Connect
    <2> QED
      BY <2>1, <2>2 DEF Session, TypeOK, Connect
  <1>2. OneThread'
    BY DEF Session, TypeOK, OneThread, Connect
  <1>3. ASSUME NEW k \in Nodes PROVE SequelAt(k)'
    <2>1. CASE k = n
      <3>1. acq'[n] = {} /\ cmds'[n] = <<>> /\ status'[n] = <<>>
        BY DEF Session, TypeOK, Connect
      <3> QED
        BY <2>1, <3>1 DEF SequelAt, Busy, Told, Ended
    <2>2. CASE k # n
      BY <2>2, SequelKept DEF Session, Sequel, TypeOK, Connect
    <2> QED
      BY <2>1, <2>2
  <1> QED
    BY <1>1, <1>2, <1>3 DEF Session, Sequel

\* Both connections of the nodes D are closed.
LEMMA DisconnectedSession ==
    ASSUME Session, NEW D, Disconnected(D), locked' \in BOOLEAN,
           UNCHANGED <<run, pending_mode, write_mode, wrote, links, cmds, handled, acq>>
    PROVE  Session'
  <1>1. TypeOK'
    <2>1. data_conn' \in [Nodes -> Connections] /\ NoConn \in Connections
      BY RunControlAssumption DEF Session, TypeOK, Disconnected, NoConn, Connections
    <2>2. panel' \in [Nodes -> {"idle", "ready"}] /\ link' \in [Nodes -> {"none", "up", "lost"}]
          /\ \A n \in Nodes : link'[n] = "up" => link[n] = "up"
      BY DEF Session, TypeOK, Disconnected
    <2>3. session_active' \in [Nodes -> BOOLEAN]
      BY DEF Session, TypeOK, Disconnected
    <2>4. status' \in [Nodes -> Seq(Terminal \cup {"busy"})]
          /\ backlog' \in [Nodes -> Seq([run : 0 .. MaxRuns, kind : Kinds])]
      BY NoCommandYet DEF Session, TypeOK, Disconnected
    <2> QED
      BY <2>1, <2>2, <2>3, <2>4 DEF Session, TypeOK
  <1>2. OneThread'
    BY DEF Session, OneThread
  <1>3. ASSUME NEW k \in Nodes PROVE SequelAt(k)'
    <2>1. CASE k \in D
      <3>1. panel'[k] = "idle" /\ status'[k] = <<>> /\ cmds'[k] = cmds[k] /\ acq'[k] = acq[k]
        BY <2>1 DEF Disconnected
      <3> QED
        BY <3>1 DEF Session, Sequel, SequelAt, Busy, Told, Ended
    <2>2. CASE k \notin D
      <3>1. panel'[k] = panel[k] /\ session_active'[k] = session_active[k] /\ status'[k] = status[k]
            /\ cmds'[k] = cmds[k] /\ acq'[k] = acq[k]
        BY <2>2 DEF Session, TypeOK, Disconnected
      <3> QED
        BY <3>1, SequelKept DEF Session, Sequel
    <2> QED
      BY <2>1, <2>2
  <1> QED
    BY <1>1, <1>2, <1>3 DEF Session, Sequel

LEMMA LinkLostSession == ASSUME Session, NEW n \in Nodes, LinkLost(n) PROVE Session'
  <1>1. PICK c \in Prefixes(cmds[n]), s \in Prefixes(status[n]) :
            cmds' = [cmds EXCEPT ![n] = c] /\ status' = [status EXCEPT ![n] = s]
    BY DEF LinkLost
  <1>2. cmds[n] \in Seq(Commands) /\ status[n] \in Seq(Terminal \cup {"busy"})
    BY DEF Session, TypeOK
  <1>3. /\ c \in Seq(Commands) /\ Len(c) \in Nat /\ Len(c) =< Len(cmds[n]) /\ Len(cmds[n]) \in Nat
        /\ \A i \in 1 .. Len(c) : c[i] = cmds[n][i]
    BY <1>2, CutShort
  <1>4. /\ s \in Seq(Terminal \cup {"busy"}) /\ Len(s) \in Nat /\ Len(s) =< Len(status[n])
        /\ Len(status[n]) \in Nat
        /\ \A i \in 1 .. Len(s) : s[i] = status[n][i]
    BY <1>2, CutShort
  <1>5. TypeOK'
    BY <1>1, <1>3, <1>4 DEF Session, TypeOK, LinkLost, panels, node
  <1>6. OneThread'
    BY DEF Session, OneThread, LinkLost, node
  <1>7. ASSUME NEW k \in Nodes PROVE SequelAt(k)'
    <2>0. UNCHANGED <<panel, session_active, acq>>
      BY DEF LinkLost, panels, node
    <2>1. CASE k = n
      <3>1. cmds'[n] = c /\ status'[n] = s
        BY <1>1 DEF Session, TypeOK
      <3>2. \A i : (Told(n, i)' => Told(n, i)) /\ (Ended(n, i)' => Ended(n, i))
        BY <1>3, <1>4, <3>1 DEF Told, Ended
      <3> QED
        BY <2>0, <2>1, <3>2 DEF Session, Sequel, SequelAt, Busy
    <2>2. CASE k # n
      BY <1>1, <2>0, <2>2, SequelKept DEF Session, Sequel, TypeOK
    <2> QED
      BY <2>1, <2>2
  <1> QED
    BY <1>5, <1>6, <1>7 DEF Session, Sequel

LEMMA ReaderEndsSession == ASSUME Session, NEW n \in Nodes, ReaderEnds(n) PROVE Session'
  <1>1. TypeOK'
    BY DEF Session, TypeOK, ReaderEnds, node
  <1>2. OneThread'
    BY DEF Session, OneThread, ReaderEnds, node
  <1>3. ASSUME NEW k \in Nodes PROVE SequelAt(k)'
    BY SequelKept DEF Session, Sequel, TypeOK, ReaderEnds, node
  <1> QED
    BY <1>1, <1>2, <1>3 DEF Session, Sequel

LEMMA BeginSession ==
    ASSUME Session, NEW kind \in Kinds, Begin(kind), locked' \in BOOLEAN
    PROVE  Session'
  <1>0. UNCHANGED <<panel, data_conn, write_mode, wrote, links, link, status, handled, acq, backlog>>
    BY DEF Begin, node
  <1> DEFINE c == [cmd |-> kind, run |-> run']
  <1>1. run' = run + 1 /\ run' \in 0 .. MaxRuns
    BY RunControlAssumption DEF Session, TypeOK, Begin
  <1>2. c \in Commands /\ c.cmd = kind
    BY <1>1 DEF Commands
  <1>3. cmds' = [n \in Nodes |-> IF n \in Ready /\ link[n] = "up" THEN Append(cmds[n], c) ELSE cmds[n]]
    BY DEF Begin, SendAll
  <1> HIDE DEF c
  <1>4. ASSUME NEW k \in Nodes
        PROVE  /\ Append(cmds[k], c) \in Seq(Commands)
               /\ Len(cmds[k]) \in Nat /\ Len(Append(cmds[k], c)) = Len(cmds[k]) + 1
               /\ \A i \in 1 .. Len(cmds[k]) : Append(cmds[k], c)[i] = cmds[k][i]
    <2>1. cmds[k] \in Seq(Commands)
      BY DEF Session, TypeOK
    <2> QED
      BY <2>1, <1>2, Appended
  <1>5. TypeOK'
    <2>1. cmds' \in [Nodes -> Seq(Commands)]
      BY <1>3, <1>4 DEF Session, TypeOK
    <2>2. session_active' \in [Nodes -> BOOLEAN] /\ pending_mode' \in [Nodes -> Kinds]
      BY DEF Session, TypeOK, Begin, ModeSet
    <2> QED
      BY <1>0, <1>1, <2>1, <2>2 DEF Session, TypeOK
  <1>6. OneThread'
    BY <1>0 DEF Session, OneThread
  <1>7. ASSUME NEW k \in Nodes PROVE SequelAt(k)'
    <2>1. CASE k \in Ready
      <3>1. panel[k] = "ready" /\ ~session_active[k] /\ session_active'[k]
        BY <2>1 DEF Ready, Begin, Session, TypeOK
      <3>2. ~Busy(k) /\ \A i \in Nat : ~Told(k, i) /\ ~Ended(k, i)
        BY <3>1 DEF Session, Sequel, SequelAt
      <3>3. \A i \in Nat : Told(k, i)' => i = Len(cmds[k]) + 1
        BY <1>3, <1>4, <3>2 DEF Told
      <3>4. ~Busy(k)' /\ \A i \in Nat : ~Ended(k, i)'
        BY <1>0, <3>2 DEF Busy, Ended
      <3> QED
        BY <3>1, <3>3, <3>4 DEF SequelAt
    <2>2. CASE k \notin Ready
      <3>1. cmds'[k] = cmds[k] /\ panel'[k] # "ready"
        BY <2>2, <1>0, <1>3 DEF Ready
      <3> QED
        BY <1>0, <3>1, SequelKept DEF Session, Sequel
    <2> QED
      BY <2>1, <2>2
  <1> QED
    BY <1>5, <1>6, <1>7 DEF Session, Sequel

LEMMA EndRunSession == ASSUME Session, EndRun PROVE Session'
  <1>0. UNCHANGED <<run, panel, session_active, pending_mode, data_conn, write_mode, locked, wrote,
                    links, link, status, handled, acq, backlog>>
    BY DEF EndRun, panels, node
  <1> DEFINE c == [cmd |-> "stop", run |-> run]
  <1>1. c \in Commands /\ c.cmd \notin Kinds
    BY DEF Commands, Kinds, Session, TypeOK
  <1>2. cmds' = [n \in Nodes |-> IF n \in Ready /\ link[n] = "up" THEN Append(cmds[n], c) ELSE cmds[n]]
    BY DEF EndRun, SendAll
  <1> HIDE DEF c
  <1>3. ASSUME NEW k \in Nodes
        PROVE  /\ Append(cmds[k], c) \in Seq(Commands)
               /\ \A i \in Nat : Told(k, i)' => Told(k, i)
    <2>1. cmds[k] \in Seq(Commands)
      BY DEF Session, TypeOK
    <2>2. /\ Append(cmds[k], c) \in Seq(Commands)
          /\ Len(cmds[k]) \in Nat /\ Len(Append(cmds[k], c)) = Len(cmds[k]) + 1
          /\ \A i \in 1 .. Len(cmds[k]) : Append(cmds[k], c)[i] = cmds[k][i]
          /\ Append(cmds[k], c)[Len(cmds[k]) + 1] = c
      BY <2>1, <1>1, Appended
    <2> QED
      BY <1>1, <1>2, <2>2 DEF Told
  <1>4. TypeOK'
    <2>1. cmds' \in [Nodes -> Seq(Commands)]
      BY <1>2, <1>3 DEF Session, TypeOK
    <2> QED
      BY <1>0, <2>1 DEF Session, TypeOK
  <1>5. OneThread'
    BY <1>0 DEF Session, OneThread
  <1>6. ASSUME NEW k \in Nodes PROVE SequelAt(k)'
    BY <1>0, <1>3 DEF Session, Sequel, SequelAt, Busy, Ended
  <1> QED
    BY <1>4, <1>5, <1>6 DEF Session, Sequel

LEMMA PanelReadsSession == ASSUME Session, NEW n \in Nodes, PanelReads(n) PROVE Session'
  <1>0. UNCHANGED <<run, panel, pending_mode, data_conn, write_mode, locked, wrote, links, link,
                   cmds, handled, acq, backlog>>
    BY DEF PanelReads, node
  <1>1. status[n] \in Seq(Terminal \cup {"busy"}) /\ status[n] # <<>>
    BY DEF Session, TypeOK, PanelReads
  <1>2. /\ Tail(status[n]) \in Seq(Terminal \cup {"busy"}) /\ Len(status[n]) \in Nat
        /\ Len(status[n]) >= 1 /\ Len(Tail(status[n])) = Len(status[n]) - 1
        /\ Head(status[n]) = status[n][1] /\ Head(status[n]) \in Terminal \cup {"busy"}
        /\ \A i \in 1 .. Len(status[n]) - 1 : Tail(status[n])[i] = status[n][i + 1]
    BY <1>1, HeadOff
  <1>3. /\ status' = [status EXCEPT ![n] = Tail(status[n])]
        /\ session_active' = [session_active EXCEPT ![n] = @ /\ Head(status[n]) \notin Terminal]
    BY DEF PanelReads, Closed
  <1>4. TypeOK'
    <2>1. session_active' \in [Nodes -> BOOLEAN]
      BY <1>3 DEF Session, TypeOK
    <2> QED
      BY <1>0, <1>2, <1>3, <2>1 DEF Session, TypeOK
  <1>5. OneThread'
    BY <1>0 DEF Session, OneThread
  <1>6. ASSUME NEW k \in Nodes PROVE SequelAt(k)'
    <2>1. CASE k = n
      <3>1. status'[n] = Tail(status[n])
        BY <1>3 DEF Session, TypeOK
      <3>2. \A i \in Nat : Ended(n, i)' => i >= 1 /\ Ended(n, i + 1)
        BY <3>1, <1>2 DEF Ended
      <3>3. \A i \in Nat : Told(n, i)' <=> Told(n, i)
        BY <1>0 DEF Told
      <3>4. Busy(n)' <=> Busy(n)
        BY <1>0 DEF Busy
      <3>5. SequelAt(n)
        BY DEF Session, Sequel
      <3>6. CASE Head(status[n]) \in Terminal
        <4>1. Ended(n, 1)
          BY <3>6, <1>2 DEF Ended
        <4>2. ~Busy(n) /\ (\A i \in Nat : ~Told(n, i)) /\ \A i \in Nat : ~Ended(n, i)'
          BY <4>1, <3>2, <3>5 DEF SequelAt
        <4> QED
          BY <2>1, <4>2, <3>3, <3>4 DEF SequelAt
      <3>7. CASE Head(status[n]) \notin Terminal
        <4>1. session_active'[n] = session_active[n] /\ panel'[n] = panel[n]
          BY <3>7, <1>0, <1>3 DEF Session, TypeOK
        <4>2. \A i, j \in Nat : Ended(n, i)' /\ Ended(n, j)' => i = j
          <5>1. \A i, j \in Nat : Ended(n, i + 1) /\ Ended(n, j + 1) => i + 1 = j + 1
            BY <3>5 DEF SequelAt
          <5> QED
            BY <3>2, <5>1
        <4>3. \A i \in Nat : Ended(n, i)' => i + 1 \in Nat /\ Ended(n, i + 1)
          BY <3>2
        <4> QED
          BY <2>1, <4>1, <4>2, <4>3, <3>3, <3>4, <3>5 DEF SequelAt
      <3> QED
        BY <3>6, <3>7
    <2>2. CASE k # n
      BY <1>0, <1>3, <2>2, SequelKept DEF Session, Sequel, TypeOK
    <2> QED
      BY <2>1, <2>2
  <1> QED
    BY <1>4, <1>5, <1>6 DEF Session, Sequel

\* Steps that neither a command, a status nor a thread takes part in.
LEMMA PanelOnly ==
    ASSUME Session, TypeOK', UNCHANGED <<panel, session_active, cmds, status, acq>>
    PROVE  Session'
  BY DEF Session, OneThread, Sequel, SequelAt, Busy, Told, Ended

LEMMA AcceptDataSession == ASSUME Session, NEW n \in Nodes, AcceptData(n) PROVE Session'
  <1>1. backlog[n] \in Seq([run : 0 .. MaxRuns, kind : Kinds]) /\ backlog[n] # <<>>
    BY DEF Session, TypeOK, AcceptData
  <1>2. Tail(backlog[n]) \in Seq([run : 0 .. MaxRuns, kind : Kinds])
        /\ Head(backlog[n]) \in [run : 0 .. MaxRuns, kind : Kinds]
    BY <1>1, HeadOff
  <1>3. pending_mode[n] \in Kinds /\ write_mode \in BOOLEAN
    BY DEF Session, TypeOK
  <1>4. [run |-> Head(backlog[n]).run, kind |-> Head(backlog[n]).kind, mode |-> pending_mode[n]]
            \in Connections
    BY <1>2, <1>3 DEF Connections
  <1>5. wrote' \in [Nodes -> [run : 0 .. MaxRuns, write : BOOLEAN]]
    BY <1>2, <1>3 DEF Session, TypeOK, AcceptData
  <1>6. TypeOK'
    BY <1>2, <1>4, <1>5 DEF Session, TypeOK, AcceptData
  <1> QED
    BY <1>6, PanelOnly DEF AcceptData

LEMMA SessionLoopEndsSession ==
    ASSUME Session, NEW n \in Nodes, SessionLoopEnds(n) PROVE Session'
  <1>1. NoConn \in Connections
    BY RunControlAssumption DEF NoConn, Connections
  <1>2. TypeOK'
    BY <1>1 DEF Session, TypeOK, SessionLoopEnds, node
  <1> QED
    BY <1>2, PanelOnly DEF SessionLoopEnds, node

LEMMA ToggleWriteSession == ASSUME Session, ToggleWrite PROVE Session'
  <1>1. TypeOK'
    BY DEF Session, TypeOK, ToggleWrite, RefreshLock, node
  <1> QED
    BY <1>1, PanelOnly DEF ToggleWrite, node
-----------------------------------------------------------------------------
\* send() on the control connection.
LEMMA Sent ==
    ASSUME Session, NEW n \in Nodes, NEW s \in Terminal \cup {"busy"}, Send(n, s)
    PROVE  /\ status' \in [Nodes -> Seq(Terminal \cup {"busy"})]
           /\ \A k \in Nodes : k # n => status'[k] = status[k]
           /\ \A i \in Nat : Ended(n, i)' =>
                  Ended(n, i) \/ (s \in Terminal /\ i = Len(status[n]) + 1)
  <1>1. CASE link[n] = "up"
    <2>1. status[n] \in Seq(Terminal \cup {"busy"})
      BY DEF Session, TypeOK
    <2>2. /\ Append(status[n], s) \in Seq(Terminal \cup {"busy"})
          /\ Len(status[n]) \in Nat /\ Len(Append(status[n], s)) = Len(status[n]) + 1
          /\ \A i \in 1 .. Len(status[n]) : Append(status[n], s)[i] = status[n][i]
          /\ Append(status[n], s)[Len(status[n]) + 1] = s
      BY <2>1, Appended
    <2>3. status' = [status EXCEPT ![n] = Append(status[n], s)]
      BY <1>1 DEF Send
    <2>4. status'[n] = Append(status[n], s)
      BY <2>3 DEF Session, TypeOK
    <2>5. \A i \in Nat : Ended(n, i)' => Ended(n, i) \/ (s \in Terminal /\ i = Len(status[n]) + 1)
      BY <2>2, <2>4 DEF Ended
    <2> QED
      BY <2>2, <2>3, <2>5 DEF Session, TypeOK
  <1>2. CASE link[n] # "up"
    BY <1>2 DEF Send, Session, TypeOK, Ended
  <1> QED
    BY <1>1, <1>2

\* The stop event of the thread, if it is there, is set.
LEMMA StoppedThreads ==
    ASSUME Session, NEW n \in Nodes, Stopped(n)
    PROVE  /\ acq' \in [Nodes -> SUBSET Acquisitions] /\ OneThread'
           /\ Busy(n)' => Busy(n)
           /\ \A k \in Nodes : k # n => acq'[k] = acq[k]
           /\ \A a \in acq'[n] : \E b \in acq[n] :
                  b.run = a.run /\ b.kind = a.kind /\ b.stage = a.stage
           /\ \A b \in acq[n] : \E a \in acq'[n] :
                  b.run = a.run /\ b.kind = a.kind /\ b.stage = a.stage
  <1>1. acq'[n] = {[a EXCEPT !.stop = TRUE] : a \in acq[n]}
        /\ \A k \in Nodes : k # n => acq'[k] = acq[k]
    BY DEF Session, TypeOK, Stopped
  <1>2. acq[n] \subseteq Acquisitions
    BY DEF Session, TypeOK
  <1>3. ASSUME NEW a \in acq[n]
        PROVE  /\ [a EXCEPT !.stop = TRUE] \in Acquisitions
               /\ [a EXCEPT !.stop = TRUE].run = a.run /\ [a EXCEPT !.stop = TRUE].kind = a.kind
               /\ [a EXCEPT !.stop = TRUE].stage = a.stage
    BY <1>2 DEF Acquisitions
  <1>4. acq' \in [Nodes -> SUBSET Acquisitions]
    <2>1. acq'[n] \subseteq Acquisitions
      BY <1>1, <1>3
    <2>2. acq' = [acq EXCEPT ![n] = acq'[n]]
      BY DEF Session, TypeOK, Stopped
    <2> QED
      BY <2>1, <2>2 DEF Session, TypeOK
  <1>5. \A a \in acq'[n] : \E b \in acq[n] : b.run = a.run /\ b.kind = a.kind /\ b.stage = a.stage
    BY <1>1, <1>3
  <1>6. \A b \in acq[n] : \E a \in acq'[n] : b.run = a.run /\ b.kind = a.kind /\ b.stage = a.stage
    BY <1>1, <1>3
  <1>7. OneThread'
    <2>1. ASSUME NEW a \in acq'[n], NEW b \in acq'[n] PROVE a = b
      <3>1. PICK x \in acq[n] : a = [x EXCEPT !.stop = TRUE]
        BY <1>1
      <3>2. PICK y \in acq[n] : b = [y EXCEPT !.stop = TRUE]
        BY <1>1
      <3>3. x = y
        BY DEF Session, OneThread
      <3> QED
        BY <3>1, <3>2, <3>3
    <2> QED
      BY <1>1, <2>1 DEF Session, OneThread
  <1>8. Busy(n)' => Busy(n)
    BY <1>5 DEF Busy
  <1> QED
    BY <1>1, <1>4, <1>5, <1>6, <1>7, <1>8

LEMMA HandlerEndsSession == ASSUME Session, NEW n \in Nodes, HandlerEnds(n) PROVE Session'
  <1>1. /\ acq' \in [Nodes -> SUBSET Acquisitions] /\ OneThread' /\ (Busy(n)' => Busy(n))
        /\ \A k \in Nodes : k # n => acq'[k] = acq[k]
    BY StoppedThreads DEF HandlerEnds
  <1>2. UNCHANGED <<panels, links, link, cmds, status, backlog>>
        /\ handled' = [handled EXCEPT ![n] = FALSE] /\ link[n] # "up"
    BY DEF HandlerEnds, Gone
  <1>3. TypeOK'
    BY <1>1, <1>2 DEF Session, TypeOK, panels
  <1>4. ASSUME NEW k \in Nodes PROVE SequelAt(k)'
    <2>1. CASE k = n
      BY <1>1, <1>2, <2>1 DEF Session, Sequel, SequelAt, Told, Ended, panels
    <2>2. CASE k # n
      BY <1>1, <1>2, <2>2, SequelKept DEF Session, Sequel, panels
    <2> QED
      BY <2>1, <2>2
  <1> QED
    BY <1>1, <1>3, <1>4 DEF Session, Sequel

\* What reading a command takes out of the connection.
LEMMA CommandRead ==
    ASSUME Session, NEW n \in Nodes, NodeReads(n)
    PROVE  /\ Head(cmds[n]) \in Commands /\ cmds' \in [Nodes -> Seq(Commands)]
           /\ Head(cmds[n]) = cmds[n][1] /\ 1 \in 1 .. Len(cmds[n])
           /\ \A k \in Nodes : k # n => cmds'[k] = cmds[k]
           /\ \A i \in 1 .. Len(cmds'[n]) : i \in Nat /\ i >= 1 /\ i + 1 \in 1 .. Len(cmds[n])
                                          /\ cmds'[n][i] = cmds[n][i + 1]
           /\ \A i \in Nat : Told(n, i)' => i >= 1 /\ Told(n, i + 1)
  <1>1. cmds[n] \in Seq(Commands) /\ cmds[n] # <<>>
    BY DEF Session, TypeOK, NodeReads
  <1>2. /\ Tail(cmds[n]) \in Seq(Commands) /\ Len(cmds[n]) \in Nat /\ Len(cmds[n]) >= 1
        /\ Len(Tail(cmds[n])) = Len(cmds[n]) - 1
        /\ Head(cmds[n]) = cmds[n][1] /\ Head(cmds[n]) \in Commands
        /\ \A i \in 1 .. Len(cmds[n]) - 1 : Tail(cmds[n])[i] = cmds[n][i + 1]
    BY <1>1, HeadOff
  <1>3. cmds' = [cmds EXCEPT ![n] = Tail(cmds[n])]
    BY DEF NodeReads
  <1>4. cmds'[n] = Tail(cmds[n]) /\ \A k \in Nodes : k # n => cmds'[k] = cmds[k]
    BY <1>3 DEF Session, TypeOK
  <1>5. cmds' \in [Nodes -> Seq(Commands)]
    BY <1>2, <1>3 DEF Session, TypeOK
  <1>6. \A i \in 1 .. Len(cmds'[n]) : i \in Nat /\ i >= 1 /\ i + 1 \in 1 .. Len(cmds[n])
                                     /\ cmds'[n][i] = cmds[n][i + 1]
    BY <1>2, <1>4
  <1>7. \A i \in Nat : Told(n, i)' => i >= 1 /\ Told(n, i + 1)
    BY <1>6 DEF Told
  <1> QED
    BY <1>2, <1>4, <1>5, <1>6, <1>7

LEMMA NodeReadsSession == ASSUME Session, NEW n \in Nodes, NodeReads(n) PROVE Session'
  <1>0. UNCHANGED <<panels, links, link, handled, backlog>>
    BY DEF NodeReads
  <1> DEFINE c == Head(cmds[n])
  <1>1. /\ c \in Commands /\ cmds' \in [Nodes -> Seq(Commands)] /\ c = cmds[n][1]
        /\ 1 \in 1 .. Len(cmds[n]) /\ \A k \in Nodes : k # n => cmds'[k] = cmds[k]
    BY CommandRead
  <1>2. \A i \in Nat : Told(n, i)' => i >= 1 /\ i + 1 \in Nat /\ Told(n, i + 1)
    BY CommandRead
  <1>3. SequelAt(n)
    BY DEF Session, Sequel
  <1>4. \A i, j \in Nat : Told(n, i)' /\ Told(n, j)' => i = j
    <2>1. \A i, j \in Nat : Told(n, i + 1) /\ Told(n, j + 1) => i + 1 = j + 1
      BY <1>3 DEF SequelAt
    <2> QED
      BY <1>2, <2>1
  <1>5. c.cmd \in Kinds => Told(n, 1)
    BY <1>1 DEF Told
  <1>6. c.cmd \in Kinds => ~Busy(n) /\ (\A i \in Nat : ~Ended(n, i)) /\ \A i \in Nat : ~Told(n, i)'
    <2> SUFFICES ASSUME c.cmd \in Kinds
                 PROVE  ~Busy(n) /\ (\A i \in Nat : ~Ended(n, i)) /\ \A i \in Nat : ~Told(n, i)'
      OBVIOUS
    <2>1. Told(n, 1)
      BY <1>5
    <2>2. ~Busy(n) /\ \A i \in Nat : ~Ended(n, i)
      BY <1>3, <2>1 DEF SequelAt
    <2>3. ASSUME NEW i \in Nat, Told(n, i)' PROVE FALSE
      <3>1. i >= 1 /\ i + 1 \in Nat /\ Told(n, i + 1)
        BY <1>2, <2>3
      <3>2. i + 1 = 1
        BY <1>3, <2>1, <3>1 DEF SequelAt
      <3> QED
        BY <3>1, <3>2
    <2> QED
      BY <2>2, <2>3
  <1>7. CASE c.cmd = "stop" /\ Stopped(n) /\ UNCHANGED status
    <2>1. /\ acq' \in [Nodes -> SUBSET Acquisitions] /\ OneThread' /\ (Busy(n)' => Busy(n))
          /\ \A k \in Nodes : k # n => acq'[k] = acq[k]
      BY <1>7, StoppedThreads
    <2>2. TypeOK'
      BY <1>0, <1>1, <1>7, <2>1 DEF Session, TypeOK, panels
    <2>3. ASSUME NEW k \in Nodes PROVE SequelAt(k)'
      <3>1. CASE k = n
        <4>1. \A i \in Nat : Ended(n, i)' <=> Ended(n, i)
          BY <1>7 DEF Ended
        <4> QED
          BY <1>0, <1>2, <1>3, <1>4, <2>1, <3>1, <4>1 DEF SequelAt, panels
      <3>2. CASE k # n
        BY <1>0, <1>1, <1>7, <2>1, <3>2, SequelKept DEF Session, Sequel, panels
      <3> QED
        BY <3>1, <3>2
    <2> QED
      BY <2>1, <2>2, <2>3 DEF Session, Sequel
  <1>8. CASE c.cmd \in Kinds /\ Alive(n) /\ Send(n, "busy") /\ UNCHANGED acq
    <2>1. /\ status' \in [Nodes -> Seq(Terminal \cup {"busy"})]
          /\ \A k \in Nodes : k # n => status'[k] = status[k]
          /\ \A i \in Nat : Ended(n, i)' => Ended(n, i)
      BY <1>8, Sent DEF Terminal
    <2>2. TypeOK'
      BY <1>0, <1>1, <1>8, <2>1 DEF Session, TypeOK, panels
    <2>3. ASSUME NEW k \in Nodes PROVE SequelAt(k)'
      <3>1. CASE k = n
        <4>1. ~Busy(n)'
          BY <1>6, <1>8 DEF Busy
        <4>2. \A i \in Nat : ~Told(n, i)' /\ ~Ended(n, i)'
          BY <1>6, <1>8, <2>1
        <4> QED
          BY <3>1, <4>1, <4>2 DEF SequelAt
      <3>2. CASE k # n
        BY <1>0, <1>1, <1>8, <2>1, <3>2, SequelKept DEF Session, Sequel, panels
      <3> QED
        BY <3>1, <3>2
    <2>4. OneThread'
      BY <1>8 DEF Session, OneThread
    <2> QED
      BY <2>2, <2>3, <2>4 DEF Session, Sequel
  <1>9. CASE /\ c.cmd \in Kinds /\ ~Alive(n) /\ UNCHANGED status
             /\ acq' = [acq EXCEPT ![n] = @ \cup {[run |-> c.run, kind |-> c.cmd,
                                                  stage |-> "connecting", stop |-> FALSE]}]
    <2> DEFINE a == [run |-> c.run, kind |-> c.cmd, stage |-> "connecting", stop |-> FALSE]
    <2>1. a \in Acquisitions
      BY <1>1, <1>9 DEF Commands, Acquisitions
    <2>2. acq[n] = {}
      BY <1>9 DEF Alive
    <2> HIDE DEF a
    <2>3. acq' = [acq EXCEPT ![n] = acq[n] \cup {a}]
      BY <1>9 DEF a
    <2> HIDE DEF c
    <2>4. acq'[n] = {a} /\ (\A k \in Nodes : k # n => acq'[k] = acq[k])
          /\ acq' \in [Nodes -> SUBSET Acquisitions]
      BY <2>1, <2>2, <2>3 DEF Session, TypeOK
    <2>5. TypeOK'
      BY <1>0, <1>1, <1>9, <2>4 DEF Session, TypeOK, panels
    <2>6. OneThread'
      BY <2>4 DEF Session, OneThread
    <2>7. ASSUME NEW k \in Nodes PROVE SequelAt(k)'
      <3>1. CASE k = n
        <4>1. \A i \in Nat : ~Told(n, i)' /\ ~Ended(n, i)'
          BY <1>6, <1>9 DEF Ended
        <4>2. ~(panel[n] = "ready" /\ ~session_active[n])
          BY <1>1, <1>3, <1>5, <1>9 DEF SequelAt
        <4> QED
          BY <1>0, <3>1, <4>1, <4>2 DEF SequelAt, panels
      <3>2. CASE k # n
        BY <1>0, <1>1, <1>9, <2>4, <3>2, SequelKept DEF Session, Sequel, panels
      <3> QED
        BY <3>1, <3>2
    <2> QED
      BY <2>5, <2>6, <2>7 DEF Session, Sequel
  <1> QED
    BY <1>7, <1>8, <1>9 DEF NodeReads

LEMMA Replaced ==
    ASSUME Session, NEW n \in Nodes, NEW a \in acq[n], NEW b \in Acquisitions, Replace(n, a, b)
    PROVE  /\ acq[n] = {a} /\ acq'[n] = {b} /\ \A k \in Nodes : k # n => acq'[k] = acq[k]
           /\ acq' \in [Nodes -> SUBSET Acquisitions] /\ OneThread'
  <1>1. acq[n] = {a}
    BY DEF Session, OneThread
  <1>2. acq' = [acq EXCEPT ![n] = (acq[n] \ {a}) \cup {b}]
    BY DEF Replace
  <1>3. (acq[n] \ {a}) \cup {b} = {b}
    BY <1>1
  <1>4. acq'[n] = {b} /\ (\A k \in Nodes : k # n => acq'[k] = acq[k])
        /\ acq' \in [Nodes -> SUBSET Acquisitions]
    BY <1>2, <1>3 DEF Session, TypeOK
  <1>5. OneThread'
    BY <1>4 DEF Session, OneThread
  <1> QED
    BY <1>1, <1>4, <1>5

LEMMA ConnectBackSession ==
    ASSUME Session, NEW n \in Nodes, NEW a \in acq[n], ConnectBack(n, a) PROVE Session'
  <1>0. UNCHANGED <<panels, links, link, cmds, status, handled>> /\ a.stage = "connecting"
    BY DEF ConnectBack
  <1> DEFINE b == [a EXCEPT !.stage = "streaming"]
             e == [run |-> a.run, kind |-> a.kind]
  <1>1. a \in Acquisitions
    BY DEF Session, TypeOK
  <1>2. b \in Acquisitions /\ e \in [run : 0 .. MaxRuns, kind : Kinds]
    BY <1>1 DEF Acquisitions
  <1>3. Replace(n, a, b) /\ backlog' = [backlog EXCEPT ![n] = Append(backlog[n], e)]
    BY DEF ConnectBack
  <1> HIDE DEF b, e
  <1>4. /\ acq[n] = {a} /\ acq'[n] = {b} /\ \A k \in Nodes : k # n => acq'[k] = acq[k]
        /\ acq' \in [Nodes -> SUBSET Acquisitions] /\ OneThread'
    BY <1>2, <1>3, Replaced
  <1>5. backlog[n] \in Seq([run : 0 .. MaxRuns, kind : Kinds])
    BY DEF Session, TypeOK
  <1>6. Append(backlog[n], e) \in Seq([run : 0 .. MaxRuns, kind : Kinds])
    BY <1>2, <1>5, Appended
  <1>7. TypeOK'
    BY <1>0, <1>3, <1>4, <1>6 DEF Session, TypeOK, panels
  <1>8. ASSUME NEW k \in Nodes PROVE SequelAt(k)'
    <2>1. CASE k = n
      <3>1. Busy(n)
        BY <1>0 DEF Busy
      <3> QED
        BY <1>0, <2>1, <3>1 DEF Session, Sequel, SequelAt, Told, Ended, panels
    <2>2. CASE k # n
      BY <1>0, <1>4, <2>2, SequelKept DEF Session, Sequel, panels
    <2> QED
      BY <2>1, <2>2
  <1> QED
    BY <1>4, <1>7, <1>8 DEF Session, Sequel

LEMMA FinishSession ==
    ASSUME Session, NEW n \in Nodes, NEW a \in acq[n], Finish(n, a) PROVE Session'
  <1>0. UNCHANGED <<panels, links, link, cmds, handled, backlog>> /\ a.stage # "ending"
    BY DEF Finish
  <1> DEFINE b == [a EXCEPT !.stage = "ending"]
  <1>1. b \in Acquisitions /\ b.stage = "ending"
    <2>1. a \in Acquisitions
      BY DEF Session, TypeOK
    <2> QED
      BY <2>1 DEF Acquisitions
  <1>2. Replace(n, a, b)
    BY DEF Finish
  <1> HIDE DEF b
  <1>3. /\ acq'[n] = {b} /\ \A k \in Nodes : k # n => acq'[k] = acq[k]
        /\ acq' \in [Nodes -> SUBSET Acquisitions] /\ OneThread'
    BY <1>1, <1>2, Replaced
  <1>4. PICK s \in Terminal : Send(n, s)
    BY DEF Finish, Terminal
  <1>5. /\ status' \in [Nodes -> Seq(Terminal \cup {"busy"})]
        /\ \A k \in Nodes : k # n => status'[k] = status[k]
        /\ \A i \in Nat : Ended(n, i)' => Ended(n, i) \/ i = Len(status[n]) + 1
    BY <1>4, Sent
  <1>6. TypeOK'
    BY <1>0, <1>3, <1>5 DEF Session, TypeOK, panels
  <1>7. ASSUME NEW k \in Nodes PROVE SequelAt(k)'
    <2>1. CASE k = n
      <3>1. Busy(n) /\ ~Busy(n)'
        BY <1>0, <1>1, <1>3 DEF Busy
      <3>2. /\ \A i \in Nat : ~Told(n, i) /\ ~Ended(n, i)
            /\ ~(panel[n] = "ready" /\ ~session_active[n])
        BY <3>1 DEF Session, Sequel, SequelAt
      <3>3. \A i \in Nat : ~Told(n, i)' /\ (Ended(n, i)' => i = Len(status[n]) + 1)
        BY <1>0, <1>5, <3>2 DEF Told
      <3> QED
        BY <1>0, <2>1, <3>1, <3>2, <3>3 DEF SequelAt, panels
    <2>2. CASE k # n
      BY <1>0, <1>3, <1>5, <2>2, SequelKept DEF Session, Sequel, panels
    <2> QED
      BY <2>1, <2>2
  <1> QED
    BY <1>3, <1>6, <1>7 DEF Session, Sequel

LEMMA ThreadEndsSession ==
    ASSUME Session, NEW n \in Nodes, NEW a \in acq[n], ThreadEnds(n, a) PROVE Session'
  <1>0. UNCHANGED <<panels, links, link, cmds, status, handled, backlog>>
    BY DEF ThreadEnds
  <1>1. acq' = [acq EXCEPT ![n] = acq[n] \ {a}] /\ acq[n] = {a}
    BY DEF ThreadEnds, Session, OneThread
  <1>2. acq'[n] = {} /\ (\A k \in Nodes : k # n => acq'[k] = acq[k])
        /\ acq' \in [Nodes -> SUBSET Acquisitions]
    BY <1>1 DEF Session, TypeOK
  <1>3. TypeOK'
    BY <1>0, <1>2 DEF Session, TypeOK, panels
  <1>4. OneThread'
    BY <1>2 DEF Session, OneThread
  <1>5. ASSUME NEW k \in Nodes PROVE SequelAt(k)'
    <2>1. CASE k = n
      <3>1. ~Busy(n)'
        BY <1>2 DEF Busy
      <3> QED
        BY <1>0, <2>1, <3>1 DEF Session, Sequel, SequelAt, Told, Ended, panels
    <2>2. CASE k # n
      BY <1>0, <1>2, <2>2, SequelKept DEF Session, Sequel, panels
    <2> QED
      BY <2>1, <2>2
  <1> QED
    BY <1>3, <1>4, <1>5 DEF Session, Sequel
-----------------------------------------------------------------------------
LEMMA SessionStep == Session /\ [Next]_vars => Session'
  <1> SUFFICES ASSUME Session, [Next]_vars PROVE Session'
    OBVIOUS
  <1>1. CASE StartAll
    <2>1. locked' \in BOOLEAN
      BY <1>1 DEF StartAll, RefreshLock
    <2> QED
      BY <1>1, <2>1, BeginSession DEF StartAll, Kinds
  <1>2. CASE StartIntensity
    <2>1. locked' \in BOOLEAN
      BY <1>2 DEF StartIntensity, Session, TypeOK
    <2> QED
      BY <1>2, <2>1, BeginSession DEF StartIntensity, Kinds
  <1>3. CASE EndRun
    BY <1>3, EndRunSession
  <1>4. CASE ToggleWrite
    BY <1>4, ToggleWriteSession
  <1>5. CASE HealthCheck
    <2>1. PICK D : Disconnected(D)
      BY <1>5 DEF HealthCheck
    <2>2. locked' \in BOOLEAN
      BY <1>5 DEF HealthCheck, RefreshLock
    <2> QED
      BY <1>5, <2>1, <2>2, DisconnectedSession DEF HealthCheck
  <1>6. ASSUME NEW n \in Nodes, PanelStep(n) PROVE Session'
    <2>1. CASE Disconnect(n)
      <3>1. locked' \in BOOLEAN
        BY <2>1 DEF Disconnect, Session, TypeOK
      <3> QED
        BY <2>1, <3>1, DisconnectedSession DEF Disconnect
    <2> QED
      BY <1>6, <2>1, ConnectSession, ReaderEndsSession, PanelReadsSession, AcceptDataSession,
         SessionLoopEndsSession DEF PanelStep
  <1>7. ASSUME NEW n \in Nodes, LinkLost(n) PROVE Session'
    BY <1>7, LinkLostSession
  <1>8. ASSUME NEW n \in Nodes, NodeStep(n) PROVE Session'
    BY <1>8, NodeReadsSession, HandlerEndsSession, ConnectBackSession, FinishSession,
       ThreadEndsSession DEF NodeStep
  <1>9. CASE UNCHANGED vars
    <2>1. TypeOK'
      BY <1>9 DEF Session, TypeOK, vars, panels, node
    <2> QED
      BY <1>9, <2>1, PanelOnly DEF vars, panels, node
  <1> QED
    BY <1>1, <1>2, <1>3, <1>4, <1>5, <1>6, <1>7, <1>8, <1>9 DEF Next, UserStep

LEMMA SessionImplies == Session => TypeOK /\ OneAcquisition /\ IdleIsTrue
  <1> SUFFICES ASSUME Session PROVE OneAcquisition /\ IdleIsTrue
    BY DEF Session
  <1>1. ASSUME NEW n \in Nodes PROVE Cardinality(acq[n]) =< 1
    <2>1. CASE acq[n] = {}
      <3>1. Cardinality(acq[n]) = 0
        BY <2>1, FS_EmptySet
      <3> QED
        BY <3>1
    <2>2. CASE acq[n] # {}
      <3>1. PICK a : acq[n] = {a}
        BY <2>2 DEF Session, OneThread
      <3>2. Cardinality({a}) = 1
        BY FS_Singleton
      <3> QED
        BY <3>1, <3>2
    <2> QED
      BY <2>1, <2>2
  <1>2. ASSUME NEW n \in Ready, ~session_active[n]
        PROVE  /\ \A a \in acq[n] : a.stage = "ending"
               /\ \A i \in 1 .. Len(cmds[n]) : cmds[n][i].cmd \notin Kinds
    <2>1. n \in Nodes /\ SequelAt(n) /\ panel[n] = "ready"
      BY DEF Ready, Session, Sequel
    <2>2. ~Busy(n) /\ \A i \in Nat : ~Told(n, i)
      BY <1>2, <2>1 DEF SequelAt
    <2>3. \A i \in 1 .. Len(cmds[n]) : i \in Nat
      OBVIOUS
    <2> QED
      BY <2>2, <2>3 DEF Busy, Told
  <1> QED
    BY <1>1, <1>2 DEF OneAcquisition, IdleIsTrue

\* Whatever is started, stopped, lost and launched again: a node has one
\* acquisition thread at most, and a ready panel that shows no session has a
\* node that is not acquiring and has not been told to.
THEOREM SessionsShown == Spec => [](TypeOK /\ OneAcquisition /\ IdleIsTrue)
  <1>1. Spec => []Session
    BY InitSession, SessionStep, PTL DEF Spec
  <1> QED
    BY <1>1, SessionImplies, PTL
-----------------------------------------------------------------------------
\* No node is ahead of the run number.
KnownAt(n) ==
    /\ wrote[n].run =< run
    /\ \A i \in 1 .. Len(cmds[n]) : cmds[n][i].run =< run
    /\ \A a \in acq[n] : a.run =< run

\* The panel waits for the connection its node is told to open; only the
\* thread that streams has one to be accepted.
ModesAt(n) ==
    /\ \A i \in Nat : Told(n, i) => cmds[n][i].cmd = pending_mode[n]
    /\ \A a \in acq[n] : a.stage # "ending" => a.kind = pending_mode[n]
    /\ backlog[n] # <<>> =>
          /\ session_active[n]
          /\ \E a \in acq[n] : /\ a.stage = "streaming"
                               /\ backlog[n] = <<[run |-> a.run, kind |-> a.kind]>>
    /\ data_conn[n] # NoConn => data_conn[n].mode = data_conn[n].kind

\* The connection of run r at node n may still be accepted to be written.
MayWrite(n, r) ==
    \/ \E i \in 1 .. Len(cmds[n]) : cmds[n][i].cmd = "timestamp" /\ cmds[n][i].run = r
    \/ \E a \in acq[n] : a.kind = "timestamp" /\ a.stage = "connecting" /\ a.run = r
    \/ backlog[n] = <<[run |-> r, kind |-> "timestamp"]>>

\* Until then the choice is locked, and is that of the nodes accepted before.
ChoiceAt(n, r) ==
    session_active[n] /\ MayWrite(n, r) =>
        /\ locked
        /\ \A k \in Nodes : wrote[k].run = r => wrote[k].write = write_mode

Reading ==
    /\ \A n \in Nodes : KnownAt(n) /\ ModesAt(n)
    /\ \A n \in Nodes, r \in 0 .. MaxRuns : ChoiceAt(n, r)
    /\ NodesAgreeOnWriteMode

IInv == Session /\ Reading

LEMMA InitReading == Init => Reading
  <1> SUFFICES ASSUME Init PROVE Reading
    OBVIOUS
  <1>1. run = 0 /\ \A n \in Nodes :
            /\ acq[n] = {} /\ cmds[n] = <<>> /\ backlog[n] = <<>> /\ data_conn[n] = NoConn
            /\ wrote[n].run = 0 /\ wrote[n].write = TRUE /\ ~session_active[n]
    BY DEF Init
  <1>2. ASSUME NEW n \in Nodes PROVE KnownAt(n) /\ ModesAt(n)
    <2>1. wrote[n].run =< run
      BY <1>1
    <2>2. KnownAt(n)
      BY <1>1, <2>1 DEF KnownAt
    <2>3. \A i \in Nat : ~Told(n, i)
      BY <1>1 DEF Told
    <2> QED
      BY <1>1, <2>2, <2>3 DEF ModesAt
  <1>3. \A n \in Nodes, r \in 0 .. MaxRuns : ChoiceAt(n, r)
    BY <1>1 DEF ChoiceAt
  <1>4. NodesAgreeOnWriteMode
    BY <1>1 DEF NodesAgreeOnWriteMode
  <1> QED
    BY <1>2, <1>3, <1>4 DEF Reading

\* A step of one node and its panel that accepts no connection.
LEMMA ReadingKept ==
    ASSUME Reading, NEW n \in Nodes, UNCHANGED <<run, wrote, write_mode, locked>>,
           \A k \in Nodes : k # n =>
               /\ cmds'[k] = cmds[k] /\ acq'[k] = acq[k] /\ backlog'[k] = backlog[k]
               /\ pending_mode'[k] = pending_mode[k] /\ session_active'[k] = session_active[k]
               /\ data_conn'[k] = data_conn[k],
           KnownAt(n)', ModesAt(n)',
           \A r \in 0 .. MaxRuns : session_active'[n] /\ MayWrite(n, r)' =>
               session_active[n] /\ MayWrite(n, r)
    PROVE  Reading'
  <1>1. ASSUME NEW k \in Nodes PROVE KnownAt(k)' /\ ModesAt(k)'
    BY DEF Reading, KnownAt, ModesAt, Told
  <1>2. ASSUME NEW k \in Nodes, NEW r \in 0 .. MaxRuns PROVE ChoiceAt(k, r)'
    <2>1. session_active'[k] /\ MayWrite(k, r)' => session_active[k] /\ MayWrite(k, r)
      BY DEF MayWrite
    <2> QED
      BY <2>1 DEF Reading, ChoiceAt
  <1>3. NodesAgreeOnWriteMode'
    BY DEF Reading, NodesAgreeOnWriteMode
  <1> QED
    BY <1>1, <1>2, <1>3 DEF Reading

LEMMA ConnectReading == ASSUME IInv, NEW n \in Nodes, Connect(n) PROVE Reading'
  <1>1. acq'[n] = {} /\ cmds'[n] = <<>> /\ backlog'[n] = <<>> /\ data_conn'[n] = NoConn
    BY DEF IInv, Session, TypeOK, Connect
  <1>2. KnownAt(n)' /\ ModesAt(n)'
    BY <1>1 DEF IInv, Reading, KnownAt, ModesAt, Told, Connect
  <1>3. \A r \in 0 .. MaxRuns : ~MayWrite(n, r)'
    BY <1>1 DEF MayWrite
  <1> QED
    BY <1>2, <1>3, ReadingKept DEF IInv, Session, TypeOK, Connect

LEMMA DisconnectReading == ASSUME IInv, NEW n \in Nodes, Disconnect(n) PROVE Reading'
  <1>1. UNCHANGED <<run, pending_mode, write_mode, locked, wrote, links, cmds, handled, acq>>
        /\ Disconnected({n})
    BY DEF Disconnect
  <1>2. ~session_active'[n] /\ data_conn'[n] = NoConn /\ backlog'[n] = <<>>
    BY <1>1 DEF Disconnected
  <1>3. KnownAt(n)' /\ ModesAt(n)'
    BY <1>1, <1>2 DEF IInv, Reading, KnownAt, ModesAt, Told
  <1>4. \A k \in Nodes : k # n => /\ backlog'[k] = backlog[k] /\ session_active'[k] = session_active[k]
                                 /\ data_conn'[k] = data_conn[k]
    BY <1>1 DEF IInv, Session, TypeOK, Disconnected
  <1> QED
    BY <1>1, <1>2, <1>3, <1>4, ReadingKept DEF IInv

LEMMA LinkLostReading == ASSUME IInv, NEW n \in Nodes, LinkLost(n) PROVE Reading'
  <1>1. UNCHANGED <<run, wrote, write_mode, locked, pending_mode, session_active, data_conn, acq, backlog>>
    BY DEF LinkLost, panels, node
  <1>2. PICK c \in Prefixes(cmds[n]) : cmds' = [cmds EXCEPT ![n] = c]
    BY DEF LinkLost
  <1>3. cmds[n] \in Seq(Commands) /\ cmds'[n] = c /\ \A k \in Nodes : k # n => cmds'[k] = cmds[k]
    BY <1>2 DEF IInv, Session, TypeOK
  <1>4. /\ Len(c) \in Nat /\ Len(c) =< Len(cmds[n]) /\ Len(cmds[n]) \in Nat
        /\ \A i \in 1 .. Len(c) : c[i] = cmds[n][i]
    BY <1>3, CutShort
  <1>5. \A i \in 1 .. Len(cmds'[n]) : i \in 1 .. Len(cmds[n]) /\ cmds'[n][i] = cmds[n][i]
    BY <1>3, <1>4
  <1>6. KnownAt(n)' /\ ModesAt(n)'
    BY <1>1, <1>5 DEF IInv, Reading, KnownAt, ModesAt, Told
  <1>7. \A r \in 0 .. MaxRuns : MayWrite(n, r)' => MayWrite(n, r)
    BY <1>1, <1>5 DEF MayWrite
  <1> QED
    BY <1>1, <1>3, <1>6, <1>7, ReadingKept DEF IInv

LEMMA ReaderEndsReading == ASSUME IInv, NEW n \in Nodes, ReaderEnds(n) PROVE Reading'
  <1>1. UNCHANGED <<run, wrote, write_mode, locked, pending_mode, session_active, data_conn, cmds,
                    acq, backlog>>
    BY DEF ReaderEnds, node
  <1> QED
    BY <1>1 DEF IInv, Reading, KnownAt, ModesAt, ChoiceAt, MayWrite, Told, NodesAgreeOnWriteMode

LEMMA PanelReadsReading == ASSUME IInv, NEW n \in Nodes, PanelReads(n) PROVE Reading'
  <1>1. UNCHANGED <<run, panel, pending_mode, data_conn, write_mode, locked, wrote, cmds, acq, backlog>>
        /\ session_active' = [session_active EXCEPT ![n] = @ /\ Head(status[n]) \notin Terminal]
    BY DEF PanelReads, Closed, node
  <1>2. status[n] \in Seq(Terminal \cup {"busy"}) /\ status[n] # <<>>
    BY DEF IInv, Session, TypeOK, PanelReads
  <1>3. Head(status[n]) = status[n][1] /\ 1 \in 1 .. Len(status[n])
    BY <1>2, HeadOff
  <1>4. session_active'[n] <=> session_active[n] /\ Head(status[n]) \notin Terminal
    BY <1>1 DEF IInv, Session, TypeOK
  <1>5. backlog[n] # <<>> => session_active'[n]
    <2> SUFFICES ASSUME backlog[n] # <<>>, Head(status[n]) \in Terminal PROVE FALSE
      BY <1>4 DEF IInv, Reading, ModesAt
    <2>1. Busy(n)
      BY DEF IInv, Reading, ModesAt, Busy
    <2>2. Ended(n, 1)
      BY <1>3 DEF Ended
    <2> QED
      BY <2>1, <2>2 DEF IInv, Session, Sequel, SequelAt
  <1>6. KnownAt(n)' /\ ModesAt(n)'
    BY <1>1, <1>5 DEF IInv, Reading, KnownAt, ModesAt, Told
  <1>7. \A r \in 0 .. MaxRuns : MayWrite(n, r)' => MayWrite(n, r)
    BY <1>1 DEF MayWrite
  <1>8. \A k \in Nodes : k # n => session_active'[k] = session_active[k]
    BY <1>1 DEF IInv, Session, TypeOK
  <1> QED
    BY <1>1, <1>4, <1>6, <1>7, <1>8, ReadingKept DEF IInv

\* A step of the node that leaves the threads where they are.
LEMMA SameThreads ==
    ASSUME IInv, NEW n \in Nodes,
           UNCHANGED <<run, wrote, pending_mode, session_active, data_conn, backlog>>,
           \A i \in 1 .. Len(cmds'[n]) : i \in Nat /\
               \E j \in 1 .. Len(cmds[n]) : j \in Nat /\ cmds'[n][i] = cmds[n][j],
           \A a \in acq'[n] : \E b \in acq[n] : b.run = a.run /\ b.kind = a.kind /\ b.stage = a.stage,
           \A b \in acq[n] : \E a \in acq'[n] : b.run = a.run /\ b.kind = a.kind /\ b.stage = a.stage
    PROVE  KnownAt(n)' /\ ModesAt(n)' /\ \A r \in 0 .. MaxRuns : MayWrite(n, r)' => MayWrite(n, r)
  <1>1. KnownAt(n) /\ ModesAt(n)
    BY DEF IInv, Reading
  <1>2. KnownAt(n)'
    BY <1>1 DEF KnownAt
  <1>3. \A i \in Nat : Told(n, i)' => cmds'[n][i].cmd = pending_mode'[n]
    <2>1. \A i \in Nat : Told(n, i)' => \E j \in Nat : Told(n, j) /\ cmds'[n][i] = cmds[n][j]
      BY DEF Told
    <2> QED
      BY <1>1, <2>1 DEF ModesAt
  <1>4. \A a \in acq'[n] : a.stage # "ending" => a.kind = pending_mode'[n]
    BY <1>1 DEF ModesAt
  <1>5. ASSUME backlog'[n] # <<>>
        PROVE  /\ session_active'[n]
               /\ \E a \in acq'[n] : /\ a.stage = "streaming"
                                     /\ backlog'[n] = <<[run |-> a.run, kind |-> a.kind]>>
    <2>1. PICK b \in acq[n] : b.stage = "streaming" /\ backlog[n] = <<[run |-> b.run, kind |-> b.kind]>>
      BY <1>1, <1>5 DEF ModesAt
    <2>2. PICK a \in acq'[n] : b.run = a.run /\ b.kind = a.kind /\ b.stage = a.stage
      OBVIOUS
    <2>3. backlog'[n] = <<[run |-> a.run, kind |-> a.kind]>>
      BY <2>1, <2>2
    <2> QED
      BY <1>1, <1>5, <2>1, <2>2, <2>3 DEF ModesAt
  <1>6. data_conn'[n] # NoConn => data_conn'[n].mode = data_conn'[n].kind
    BY <1>1 DEF ModesAt
  <1>7. ModesAt(n)'
    BY <1>3, <1>4, <1>5, <1>6 DEF ModesAt
  <1>8. ASSUME NEW r \in 0 .. MaxRuns, MayWrite(n, r)' PROVE MayWrite(n, r)
    <2>1. CASE \E i \in 1 .. Len(cmds'[n]) : cmds'[n][i].cmd = "timestamp" /\ cmds'[n][i].run = r
      BY <2>1 DEF MayWrite
    <2>2. CASE \E a \in acq'[n] : a.kind = "timestamp" /\ a.stage = "connecting" /\ a.run = r
      <3>1. \E b \in acq[n] : b.kind = "timestamp" /\ b.stage = "connecting" /\ b.run = r
        BY <2>2
      <3> QED
        BY <3>1 DEF MayWrite
    <2>3. CASE backlog'[n] = <<[run |-> r, kind |-> "timestamp"]>>
      BY <2>3 DEF MayWrite
    <2> QED
      BY <1>8, <2>1, <2>2, <2>3 DEF MayWrite
  <1> QED
    BY <1>2, <1>7, <1>8

LEMMA NodeReadsReading == ASSUME IInv, NEW n \in Nodes, NodeReads(n) PROVE Reading'
  <1>1. UNCHANGED <<run, wrote, write_mode, locked, pending_mode, session_active, data_conn, backlog>>
    BY DEF NodeReads, panels
  <1> DEFINE c == Head(cmds[n])
  <1>2. /\ c \in Commands /\ c = cmds[n][1] /\ 1 \in 1 .. Len(cmds[n])
        /\ \A k \in Nodes : k # n => cmds'[k] = cmds[k]
    BY CommandRead DEF IInv
  <1>3. \A i \in 1 .. Len(cmds'[n]) : /\ i \in Nat /\ i + 1 \in 1 .. Len(cmds[n])
                                     /\ cmds'[n][i] = cmds[n][i + 1]
    BY CommandRead DEF IInv
  <1>4. \A i \in Nat : Told(n, i)' => i + 1 \in Nat /\ Told(n, i + 1) /\ cmds'[n][i] = cmds[n][i + 1]
    BY <1>3, CommandRead DEF IInv, Told
  <1>5. \A i \in Nat : Told(n, i)' => cmds'[n][i].cmd = pending_mode'[n]
    BY <1>1, <1>4 DEF IInv, Reading, ModesAt
  <1>6. \A i \in 1 .. Len(cmds'[n]) : cmds'[n][i].run =< run
    BY <1>3 DEF IInv, Reading, KnownAt
  <1>7. CASE c.cmd = "stop" /\ Stopped(n)
    <2>1. \A a \in acq'[n] : \E b \in acq[n] : b.run = a.run /\ b.kind = a.kind /\ b.stage = a.stage
      BY <1>7, StoppedThreads DEF IInv
    <2>2. \A b \in acq[n] : \E a \in acq'[n] : b.run = a.run /\ b.kind = a.kind /\ b.stage = a.stage
      BY <1>7, StoppedThreads DEF IInv
    <2>3. \A i \in 1 .. Len(cmds'[n]) : i \in Nat /\
              \E j \in 1 .. Len(cmds[n]) : j \in Nat /\ cmds'[n][i] = cmds[n][j]
      BY <1>3
    <2>4. KnownAt(n)' /\ ModesAt(n)' /\ \A r \in 0 .. MaxRuns : MayWrite(n, r)' => MayWrite(n, r)
      BY <1>1, <2>1, <2>2, <2>3, SameThreads
    <2>5. \A k \in Nodes : k # n => acq'[k] = acq[k]
      BY <1>7, StoppedThreads DEF IInv
    <2> QED
      BY <1>1, <1>2, <2>4, <2>5, ReadingKept DEF IInv
  <1>8. CASE c.cmd \in Kinds /\ UNCHANGED acq
    <2>1. KnownAt(n)' /\ ModesAt(n)'
      BY <1>1, <1>5, <1>6, <1>8 DEF IInv, Reading, KnownAt, ModesAt
    <2>2. \A r \in 0 .. MaxRuns : MayWrite(n, r)' => MayWrite(n, r)
      BY <1>1, <1>3, <1>8 DEF MayWrite
    <2> QED
      BY <1>1, <1>2, <1>8, <2>1, <2>2, ReadingKept DEF IInv
  <1>9. CASE /\ c.cmd \in Kinds /\ ~Alive(n)
             /\ acq' = [acq EXCEPT ![n] = @ \cup {[run |-> c.run, kind |-> c.cmd,
                                                  stage |-> "connecting", stop |-> FALSE]}]
    <2> DEFINE a == [run |-> c.run, kind |-> c.cmd, stage |-> "connecting", stop |-> FALSE]
    <2>1. a.run = c.run /\ a.kind = c.cmd /\ a.stage = "connecting"
      OBVIOUS
    <2>2. acq[n] = {} /\ acq' = [acq EXCEPT ![n] = acq[n] \cup {a}]
      BY <1>9 DEF Alive
    <2> HIDE DEF a
    <2>3. acq'[n] = {a} /\ (\A k \in Nodes : k # n => acq'[k] = acq[k])
      BY <2>2 DEF IInv, Session, TypeOK
    <2>4. Told(n, 1)
      BY <1>2, <1>9 DEF Told
    <2>5. c.cmd = pending_mode[n] /\ c.run =< run
      BY <1>2, <2>4 DEF IInv, Reading, ModesAt, KnownAt
    <2>6. backlog[n] = <<>>
      BY <2>2 DEF IInv, Reading, ModesAt
    <2>7. KnownAt(n)' /\ ModesAt(n)'
      BY <1>1, <1>5, <1>6, <2>1, <2>3, <2>5, <2>6 DEF IInv, Reading, KnownAt, ModesAt
    <2>8. \A r \in 0 .. MaxRuns : MayWrite(n, r)' => MayWrite(n, r)
      BY <1>1, <1>2, <1>3, <2>1, <2>3 DEF MayWrite
    <2> QED
      BY <1>1, <1>2, <2>3, <2>7, <2>8, ReadingKept DEF IInv
  <1> QED
    BY <1>7, <1>8, <1>9 DEF NodeReads

LEMMA HandlerEndsReading == ASSUME IInv, NEW n \in Nodes, HandlerEnds(n) PROVE Reading'
  <1>1. UNCHANGED <<run, wrote, write_mode, locked, pending_mode, session_active, data_conn, cmds, backlog>>
        /\ Stopped(n)
    BY DEF HandlerEnds, panels
  <1>2. /\ \A a \in acq'[n] : \E b \in acq[n] : b.run = a.run /\ b.kind = a.kind /\ b.stage = a.stage
        /\ \A b \in acq[n] : \E a \in acq'[n] : b.run = a.run /\ b.kind = a.kind /\ b.stage = a.stage
        /\ \A k \in Nodes : k # n => acq'[k] = acq[k]
    BY <1>1, StoppedThreads DEF IInv
  <1>3. KnownAt(n)' /\ ModesAt(n)' /\ \A r \in 0 .. MaxRuns : MayWrite(n, r)' => MayWrite(n, r)
    <2>1. \A i \in 1 .. Len(cmds'[n]) : i \in Nat /\
              \E j \in 1 .. Len(cmds[n]) : j \in Nat /\ cmds'[n][i] = cmds[n][j]
      BY <1>1
    <2> QED
      BY <1>1, <1>2, <2>1, SameThreads
  <1> QED
    BY <1>1, <1>2, <1>3, ReadingKept DEF IInv

LEMMA ConnectBackReading ==
    ASSUME IInv, NEW n \in Nodes, NEW a \in acq[n], ConnectBack(n, a) PROVE Reading'
  <1> DEFINE b == [a EXCEPT !.stage = "streaming"]
             e == [run |-> a.run, kind |-> a.kind]
  <1>1. UNCHANGED <<run, wrote, write_mode, locked, pending_mode, session_active, data_conn, cmds, panel>>
        /\ a.stage = "connecting" /\ (panel[n] = "ready" \/ session_active[n])
        /\ Replace(n, a, b) /\ backlog' = [backlog EXCEPT ![n] = Append(backlog[n], e)]
    BY DEF ConnectBack, panels
  <1>2. a \in Acquisitions
    BY DEF IInv, Session, TypeOK
  <1>3. b \in Acquisitions /\ b.run = a.run /\ b.kind = a.kind /\ b.stage = "streaming"
    BY <1>2 DEF Acquisitions
  <1>4. e = [run |-> b.run, kind |-> b.kind]
    BY <1>3
  <1> HIDE DEF b
  <1>5. acq[n] = {a} /\ acq'[n] = {b} /\ \A k \in Nodes : k # n => acq'[k] = acq[k]
    BY <1>1, <1>3, Replaced DEF IInv
  <1>6. backlog[n] = <<>>
    BY <1>1, <1>5 DEF IInv, Reading, ModesAt
  <1>7. backlog'[n] = <<e>> /\ \A k \in Nodes : k # n => backlog'[k] = backlog[k]
    BY <1>1, <1>6 DEF IInv, Session, TypeOK
  <1>8. session_active[n]
    <2>1. Busy(n)
      BY <1>1 DEF Busy
    <2> QED
      BY <1>1, <2>1 DEF IInv, Session, Sequel, SequelAt
  <1>9. ModesAt(n)'
    BY <1>1, <1>3, <1>4, <1>5, <1>7, <1>8 DEF IInv, Reading, ModesAt, Told
  <1>10. KnownAt(n)'
    BY <1>1, <1>3, <1>5 DEF IInv, Reading, KnownAt
  <1>11. ASSUME NEW r \in 0 .. MaxRuns, MayWrite(n, r)' PROVE MayWrite(n, r)
    <2>1. CASE backlog'[n] = <<[run |-> r, kind |-> "timestamp"]>>
      <3>1. e = [run |-> r, kind |-> "timestamp"]
        BY <1>7, <2>1
      <3>2. a.run = r /\ a.kind = "timestamp"
        BY <3>1
      <3> QED
        BY <1>1, <3>2 DEF MayWrite
    <2>2. CASE \E i \in 1 .. Len(cmds'[n]) : cmds'[n][i].cmd = "timestamp" /\ cmds'[n][i].run = r
      BY <1>1, <2>2 DEF MayWrite
    <2> QED
      BY <1>3, <1>5, <1>11, <2>1, <2>2 DEF MayWrite
  <1> QED
    BY <1>1, <1>5, <1>7, <1>8, <1>9, <1>10, <1>11, ReadingKept DEF IInv

LEMMA FinishReading ==
    ASSUME IInv, PromptAccept, NEW n \in Nodes, NEW a \in acq[n], Finish(n, a) PROVE Reading'
  <1> DEFINE b == [a EXCEPT !.stage = "ending"]
  <1>1. UNCHANGED <<run, wrote, write_mode, locked, pending_mode, session_active, data_conn, cmds, backlog>>
        /\ Replace(n, a, b) /\ \A i \in 1 .. Len(backlog[n]) : backlog[n][i].run # a.run
    BY DEF Finish, panels
  <1>2. a \in Acquisitions
    BY DEF IInv, Session, TypeOK
  <1>3. b \in Acquisitions /\ b.run = a.run /\ b.stage = "ending"
    BY <1>2 DEF Acquisitions
  <1> HIDE DEF b
  <1>4. acq[n] = {a} /\ acq'[n] = {b} /\ \A k \in Nodes : k # n => acq'[k] = acq[k]
    BY <1>1, <1>3, Replaced DEF IInv
  <1>5. backlog[n] = <<>>
    <2> SUFFICES ASSUME backlog[n] # <<>> PROVE FALSE
      OBVIOUS
    <2>1. backlog[n] = <<[run |-> a.run, kind |-> a.kind]>>
      BY <1>4 DEF IInv, Reading, ModesAt
    <2>2. Len(backlog[n]) = 1 /\ backlog[n][1].run = a.run
      BY <2>1
    <2> QED
      BY <1>1, <2>2
  <1>6. ModesAt(n)' /\ KnownAt(n)'
    BY <1>1, <1>3, <1>4, <1>5 DEF IInv, Reading, ModesAt, KnownAt, Told
  <1>7. \A r \in 0 .. MaxRuns : MayWrite(n, r)' => MayWrite(n, r)
    BY <1>1, <1>3, <1>4 DEF MayWrite
  <1> QED
    BY <1>1, <1>4, <1>6, <1>7, ReadingKept DEF IInv

LEMMA ThreadEndsReading ==
    ASSUME IInv, NEW n \in Nodes, NEW a \in acq[n], ThreadEnds(n, a) PROVE Reading'
  <1>1. UNCHANGED <<run, wrote, write_mode, locked, pending_mode, session_active, data_conn, cmds, backlog>>
        /\ a.stage = "ending" /\ acq' = [acq EXCEPT ![n] = acq[n] \ {a}]
    BY DEF ThreadEnds, panels
  <1>2. acq[n] = {a}
    BY DEF IInv, Session, OneThread
  <1>3. acq'[n] = {} /\ \A k \in Nodes : k # n => acq'[k] = acq[k]
    BY <1>1, <1>2 DEF IInv, Session, TypeOK
  <1>4. backlog[n] = <<>>
    BY <1>1, <1>2 DEF IInv, Reading, ModesAt
  <1>5. ModesAt(n)' /\ KnownAt(n)'
    BY <1>1, <1>3, <1>4 DEF IInv, Reading, ModesAt, KnownAt, Told
  <1>6. \A r \in 0 .. MaxRuns : MayWrite(n, r)' => MayWrite(n, r)
    BY <1>1, <1>3 DEF MayWrite
  <1> QED
    BY <1>1, <1>3, <1>5, <1>6, ReadingKept DEF IInv

LEMMA SessionLoopEndsReading == ASSUME IInv, NEW n \in Nodes, SessionLoopEnds(n) PROVE Reading'
  <1>1. UNCHANGED <<run, wrote, write_mode, locked, pending_mode, session_active, cmds, acq, backlog>>
        /\ data_conn' = [data_conn EXCEPT ![n] = NoConn]
    BY DEF SessionLoopEnds, node
  <1>2. data_conn'[n] = NoConn /\ \A k \in Nodes : k # n => data_conn'[k] = data_conn[k]
    BY <1>1 DEF IInv, Session, TypeOK
  <1>3. ModesAt(n)' /\ KnownAt(n)'
    BY <1>1, <1>2 DEF IInv, Reading, ModesAt, KnownAt, Told
  <1>4. \A r \in 0 .. MaxRuns : MayWrite(n, r)' => MayWrite(n, r)
    BY <1>1 DEF MayWrite
  <1> QED
    BY <1>1, <1>2, <1>3, <1>4, ReadingKept DEF IInv

\* The connection is accepted to be written as the nodes before it were.
LEMMA AcceptDataReading == ASSUME IInv, NEW n \in Nodes, AcceptData(n) PROVE Reading'
  <1>0. UNCHANGED <<run, session_active, pending_mode, write_mode, locked, cmds, acq>>
        /\ backlog[n] # <<>>
    BY DEF AcceptData
  <1>1. PICK a \in acq[n] : a.stage = "streaming" /\ backlog[n] = <<[run |-> a.run, kind |-> a.kind]>>
    BY <1>0 DEF IInv, Reading, ModesAt
  <1>2. /\ a.kind = pending_mode[n] /\ a.run =< run /\ session_active[n] /\ a \in Acquisitions
        /\ a.run \in 0 .. MaxRuns
    <2>1. a \in Acquisitions
      BY DEF IInv, Session, TypeOK
    <2>2. a.kind = pending_mode[n] /\ session_active[n]
      BY <1>0, <1>1 DEF IInv, Reading, ModesAt
    <2>3. a.run =< run
      BY DEF IInv, Reading, KnownAt
    <2> QED
      BY <2>1, <2>2, <2>3 DEF Acquisitions
  <1>3. Head(backlog[n]) = [run |-> a.run, kind |-> a.kind] /\ Tail(backlog[n]) = <<>>
    BY <1>1
  <1>4. Head(backlog[n]).run = a.run /\ Head(backlog[n]).kind = a.kind
    BY <1>3
  <1>5. /\ data_conn' = [data_conn EXCEPT ![n] = [run |-> a.run, kind |-> a.kind, mode |-> pending_mode[n]]]
        /\ backlog' = [backlog EXCEPT ![n] = <<>>]
        /\ wrote' = IF pending_mode[n] = "timestamp"
                    THEN [wrote EXCEPT ![n] = [run |-> a.run, write |-> write_mode]] ELSE wrote
    BY <1>3, <1>4 DEF AcceptData
  <1>6. /\ backlog'[n] = <<>> /\ data_conn'[n] = [run |-> a.run, kind |-> a.kind, mode |-> pending_mode[n]]
        /\ \A k \in Nodes : k # n => backlog'[k] = backlog[k] /\ data_conn'[k] = data_conn[k]
    BY <1>5 DEF IInv, Session, TypeOK
  <1>7. /\ \A k \in Nodes : wrote'[k] = wrote[k] \/ (wrote'[k].run = a.run /\ wrote'[k].write = write_mode)
        /\ (\A k \in Nodes : wrote'[k] = wrote[k]) \/ a.kind = "timestamp"
    BY <1>2, <1>5 DEF IInv, Session, TypeOK
  <1>8. ASSUME NEW k \in Nodes PROVE KnownAt(k)' /\ ModesAt(k)'
    <2>1. KnownAt(k)'
      BY <1>0, <1>2, <1>7 DEF IInv, Reading, KnownAt
    <2>2. CASE k = n
      <3>1. data_conn'[n].mode = data_conn'[n].kind
        BY <1>2, <1>6
      <3> QED
        BY <1>0, <1>6, <2>1, <2>2, <3>1 DEF IInv, Reading, ModesAt, Told
    <2>3. CASE k # n
      BY <1>0, <1>6, <2>1, <2>3 DEF IInv, Reading, ModesAt, Told
    <2> QED
      BY <2>2, <2>3
  <1>9. a.kind = "timestamp" => \A k \in Nodes : wrote[k].run = a.run => wrote[k].write = write_mode
    <2> SUFFICES ASSUME a.kind = "timestamp"
                 PROVE  \A k \in Nodes : wrote[k].run = a.run => wrote[k].write = write_mode
      OBVIOUS
    <2>1. MayWrite(n, a.run)
      BY <1>1 DEF MayWrite
    <2>2. ChoiceAt(n, a.run)
      BY <1>2 DEF IInv, Reading
    <2> QED
      BY <1>2, <2>1, <2>2 DEF ChoiceAt
  <1>10. ASSUME NEW k \in Nodes, NEW r \in 0 .. MaxRuns PROVE ChoiceAt(k, r)'
    <2>1. MayWrite(k, r)' => MayWrite(k, r)
      BY <1>0, <1>6 DEF MayWrite
    <2> QED
      BY <1>0, <1>7, <2>1 DEF IInv, Reading, ChoiceAt
  <1>11. NodesAgreeOnWriteMode'
    BY <1>0, <1>7, <1>9 DEF IInv, Reading, NodesAgreeOnWriteMode
  <1> QED
    BY <1>8, <1>10, <1>11 DEF Reading

\* A ready node that is told to start had nothing left of the session before.
LEMMA BeginReading ==
    ASSUME IInv, NEW kind \in Kinds, Begin(kind),
           \/ kind = "timestamp" /\ RefreshLock
           \/ kind = "intensity" /\ UNCHANGED locked
    PROVE  Reading'
  <1>0. UNCHANGED <<panel, data_conn, write_mode, wrote, link, acq, backlog>>
    BY DEF Begin, node
  <1> DEFINE c == [cmd |-> kind, run |-> run']
  <1>1. run' = run + 1 /\ run' \in 0 .. MaxRuns /\ run \in Nat
    BY RunControlAssumption DEF IInv, Session, TypeOK, Begin
  <1>2. c \in Commands /\ c.cmd = kind /\ c.run = run'
    BY <1>1 DEF Commands
  <1>3. cmds' = [n \in Nodes |-> IF n \in Ready /\ link[n] = "up" THEN Append(cmds[n], c) ELSE cmds[n]]
    BY DEF Begin, SendAll
  <1> HIDE DEF c
  <1>4. \A n \in Nodes : /\ pending_mode'[n] = IF n \in Ready THEN kind ELSE pending_mode[n]
                         /\ session_active'[n] <=> session_active[n] \/ n \in Ready
    BY DEF Begin, ModeSet
  <1>5. ASSUME NEW n \in Nodes
        PROVE  \A i \in 1 .. Len(cmds'[n]) :
                   \/ i \in 1 .. Len(cmds[n]) /\ cmds'[n][i] = cmds[n][i]
                   \/ n \in Ready /\ cmds'[n][i] = c
    <2>1. cmds[n] \in Seq(Commands)
      BY DEF IInv, Session, TypeOK
    <2>2. /\ Len(cmds[n]) \in Nat /\ Len(Append(cmds[n], c)) = Len(cmds[n]) + 1
          /\ \A i \in 1 .. Len(cmds[n]) : Append(cmds[n], c)[i] = cmds[n][i]
          /\ Append(cmds[n], c)[Len(cmds[n]) + 1] = c
      BY <2>1, <1>2, Appended
    <2> QED
      BY <1>3, <2>2
  <1>6. ASSUME NEW n \in Ready
        PROVE  /\ n \in Nodes /\ ~Busy(n) /\ backlog[n] = <<>>
               /\ \A i \in 1 .. Len(cmds[n]) : cmds[n][i].cmd \notin Kinds
               /\ \A i \in Nat : ~Told(n, i)
    <2>1. n \in Nodes /\ panel[n] = "ready" /\ ~session_active[n]
      BY DEF Ready, Begin
    <2>2. ~Busy(n) /\ \A i \in Nat : ~Told(n, i)
      BY <2>1 DEF IInv, Session, Sequel, SequelAt
    <2>3. backlog[n] = <<>>
      BY <2>1 DEF IInv, Reading, ModesAt
    <2>4. \A i \in 1 .. Len(cmds[n]) : i \in Nat
      OBVIOUS
    <2> QED
      BY <2>1, <2>2, <2>3, <2>4 DEF Told
  <1>7. ASSUME NEW n \in Nodes PROVE KnownAt(n)' /\ ModesAt(n)'
    <2>1. KnownAt(n)'
      <3>1. wrote'[n].run =< run'
        <4>1. wrote[n].run \in 0 .. MaxRuns /\ wrote[n].run =< run
          BY DEF IInv, Session, TypeOK, Reading, KnownAt
        <4> QED
          BY <1>0, <1>1, <4>1
      <3>2. ASSUME NEW i \in 1 .. Len(cmds'[n]) PROVE cmds'[n][i].run =< run'
        <4>1. CASE cmds'[n][i] = c
          BY <1>1, <1>2, <4>1
        <4>2. CASE i \in 1 .. Len(cmds[n]) /\ cmds'[n][i] = cmds[n][i]
          <5>1. cmds[n] \in Seq(Commands)
            BY DEF IInv, Session, TypeOK
          <5>2. cmds[n][i].run =< run /\ cmds[n][i].run \in 0 .. MaxRuns
            <6>1. cmds[n][i] \in Commands
              BY <4>2, <5>1
            <6>2. cmds[n][i].run =< run
              BY <4>2 DEF IInv, Reading, KnownAt
            <6> QED
              BY <6>1, <6>2 DEF Commands
          <5> QED
            BY <1>1, <4>2, <5>2
        <4> QED
          BY <1>5, <4>1, <4>2
      <3>3. ASSUME NEW a \in acq'[n] PROVE a.run =< run'
        <4>1. a.run =< run /\ a.run \in 0 .. MaxRuns
          BY <1>0 DEF IInv, Session, TypeOK, Reading, KnownAt, Acquisitions
        <4> QED
          BY <1>1, <4>1
      <3> QED
        BY <3>1, <3>2, <3>3 DEF KnownAt
    <2>2. CASE n \in Ready
      <3>1. \A i \in 1 .. Len(cmds'[n]) : cmds'[n][i].cmd \in Kinds => cmds'[n][i].cmd = kind
        BY <1>2, <1>5, <1>6, <2>2
      <3>2. \A i \in Nat : Told(n, i)' => cmds'[n][i].cmd = pending_mode'[n]
        BY <1>4, <2>2, <3>1 DEF Told
      <3>3. \A a \in acq'[n] : a.stage = "ending"
        BY <1>0, <1>6, <2>2 DEF Busy
      <3>4. backlog'[n] = <<>> /\ (data_conn'[n] # NoConn => data_conn'[n].mode = data_conn'[n].kind)
        BY <1>0, <1>6, <2>2 DEF IInv, Reading, ModesAt
      <3> QED
        BY <2>1, <3>2, <3>3, <3>4 DEF ModesAt
    <2>3. CASE n \notin Ready
      <3>1. \A i \in Nat : Told(n, i)' => Told(n, i) /\ cmds'[n][i] = cmds[n][i]
        BY <1>5, <2>3 DEF Told
      <3>2. pending_mode'[n] = pending_mode[n] /\ (session_active[n] => session_active'[n])
        BY <1>4, <2>3
      <3> QED
        BY <1>0, <2>1, <3>1, <3>2 DEF IInv, Reading, ModesAt
    <2> QED
      BY <2>2, <2>3
  <1>8. ASSUME NEW n \in Nodes, NEW r \in 0 .. MaxRuns, session_active'[n], MayWrite(n, r)'
        PROVE  \/ n \in Ready /\ r = run' /\ kind = "timestamp"
               \/ n \notin Ready /\ session_active[n] /\ MayWrite(n, r)
    <2>1. CASE n \in Ready
      <3>1. PICK i \in 1 .. Len(cmds'[n]) : cmds'[n][i].cmd = "timestamp" /\ cmds'[n][i].run = r
        BY <1>0, <1>6, <1>8, <2>1 DEF MayWrite, Busy
      <3>2. cmds'[n][i] = c
        BY <1>5, <1>6, <2>1, <3>1 DEF Kinds
      <3> QED
        BY <1>2, <2>1, <3>1, <3>2
    <2>2. CASE n \notin Ready
      BY <1>0, <1>4, <1>5, <1>8, <2>2 DEF MayWrite
    <2> QED
      BY <2>1, <2>2
  <1>9. ASSUME NEW n \in Nodes, NEW r \in 0 .. MaxRuns PROVE ChoiceAt(n, r)'
    <2> SUFFICES ASSUME session_active'[n], MayWrite(n, r)'
                 PROVE  /\ locked'
                        /\ \A k \in Nodes : wrote'[k].run = r => wrote'[k].write = write_mode'
      BY DEF ChoiceAt
    <2>1. CASE n \in Ready /\ r = run' /\ kind = "timestamp"
      <3>1. locked'
        BY <2>1 DEF RefreshLock, Committed
      <3>2. \A k \in Nodes : wrote'[k].run # r
        <4> SUFFICES ASSUME NEW k \in Nodes PROVE wrote'[k].run # r
          OBVIOUS
        <4>1. wrote[k].run \in 0 .. MaxRuns /\ wrote[k].run =< run
          BY DEF IInv, Session, TypeOK, Reading, KnownAt
        <4> QED
          BY <1>0, <1>1, <2>1, <4>1
      <3> QED
        BY <3>1, <3>2
    <2>2. CASE n \notin Ready /\ session_active[n] /\ MayWrite(n, r)
      <3>1. locked /\ \A k \in Nodes : wrote[k].run = r => wrote[k].write = write_mode
        BY <2>2 DEF IInv, Reading, ChoiceAt
      <3>2. locked'
        BY <3>1 DEF RefreshLock, Committed
      <3> QED
        BY <1>0, <3>1, <3>2
    <2> QED
      BY <1>8, <2>1, <2>2
  <1>10. NodesAgreeOnWriteMode'
    BY <1>0 DEF IInv, Reading, NodesAgreeOnWriteMode
  <1> QED
    BY <1>7, <1>9, <1>10 DEF Reading

LEMMA EndRunReading == ASSUME IInv, EndRun PROVE Reading'
  <1>0. UNCHANGED <<run, panel, session_active, pending_mode, data_conn, write_mode, locked, wrote,
                    acq, backlog>>
    BY DEF EndRun, panels, node
  <1> DEFINE c == [cmd |-> "stop", run |-> run]
  <1>1. c \in Commands /\ c.cmd = "stop" /\ c.run = run
    BY DEF Commands, IInv, Session, TypeOK
  <1>2. cmds' = [n \in Nodes |-> IF n \in Ready /\ link[n] = "up" THEN Append(cmds[n], c) ELSE cmds[n]]
    BY DEF EndRun, SendAll
  <1> HIDE DEF c
  <1>3. ASSUME NEW n \in Nodes
        PROVE  \A i \in 1 .. Len(cmds'[n]) :
                   \/ i \in 1 .. Len(cmds[n]) /\ cmds'[n][i] = cmds[n][i]
                   \/ cmds'[n][i].cmd = "stop" /\ cmds'[n][i].run = run
    <2>1. cmds[n] \in Seq(Commands)
      BY DEF IInv, Session, TypeOK
    <2>2. /\ Len(cmds[n]) \in Nat /\ Len(Append(cmds[n], c)) = Len(cmds[n]) + 1
          /\ \A i \in 1 .. Len(cmds[n]) : Append(cmds[n], c)[i] = cmds[n][i]
          /\ Append(cmds[n], c)[Len(cmds[n]) + 1] = c
      BY <2>1, <1>1, Appended
    <2> QED
      BY <1>1, <1>2, <2>2
  <1>4. ASSUME NEW n \in Nodes PROVE KnownAt(n)' /\ ModesAt(n)'
    <2>1. \A i \in Nat : Told(n, i)' => Told(n, i) /\ cmds'[n][i] = cmds[n][i]
      BY <1>3 DEF Told, Kinds
    <2>2. run =< run
      BY DEF IInv, Session, TypeOK
    <2>3. KnownAt(n)'
      BY <1>0, <1>3, <2>2 DEF IInv, Reading, KnownAt
    <2> QED
      BY <1>0, <2>1, <2>3 DEF IInv, Reading, ModesAt
  <1>5. ASSUME NEW n \in Nodes, NEW r \in 0 .. MaxRuns PROVE ChoiceAt(n, r)'
    <2>1. MayWrite(n, r)' => MayWrite(n, r)
      BY <1>0, <1>3 DEF MayWrite
    <2> QED
      BY <1>0, <2>1 DEF IInv, Reading, ChoiceAt
  <1>6. NodesAgreeOnWriteMode'
    BY <1>0 DEF IInv, Reading, NodesAgreeOnWriteMode
  <1> QED
    BY <1>4, <1>5, <1>6 DEF Reading

LEMMA ToggleWriteReading == ASSUME IInv, ToggleWrite PROVE Reading'
  <1>1. UNCHANGED <<run, session_active, pending_mode, data_conn, wrote, cmds, acq, backlog>> /\ ~locked
    BY DEF ToggleWrite, node
  <1>2. \A n \in Nodes : KnownAt(n)' /\ ModesAt(n)'
    BY <1>1 DEF IInv, Reading, KnownAt, ModesAt, Told
  <1>3. ASSUME NEW n \in Nodes, NEW r \in 0 .. MaxRuns PROVE ChoiceAt(n, r)'
    <2>1. MayWrite(n, r)' => MayWrite(n, r)
      BY <1>1 DEF MayWrite
    <2> QED
      BY <1>1, <2>1 DEF IInv, Reading, ChoiceAt
  <1>4. NodesAgreeOnWriteMode'
    BY <1>1 DEF IInv, Reading, NodesAgreeOnWriteMode
  <1> QED
    BY <1>2, <1>3, <1>4 DEF Reading

LEMMA HealthCheckReading == ASSUME IInv, HealthCheck PROVE Reading'
  <1>1. PICK D : Disconnected(D)
    BY DEF HealthCheck
  <1>2. UNCHANGED <<run, pending_mode, write_mode, wrote, cmds, acq>> /\ RefreshLock
    BY DEF HealthCheck
  <1>3. ASSUME NEW n \in Nodes
        PROVE  /\ session_active'[n] => session_active[n]
               /\ \/ data_conn'[n] = NoConn /\ backlog'[n] = <<>>
                  \/ /\ data_conn'[n] = data_conn[n] /\ backlog'[n] = backlog[n]
                     /\ session_active'[n] = session_active[n]
    BY <1>1 DEF Disconnected, IInv, Session, TypeOK
  <1>4. ASSUME NEW n \in Nodes PROVE KnownAt(n)' /\ ModesAt(n)'
    BY <1>2, <1>3 DEF IInv, Reading, KnownAt, ModesAt, Told
  <1>5. ASSUME NEW n \in Nodes, NEW r \in 0 .. MaxRuns PROVE ChoiceAt(n, r)'
    <2>1. MayWrite(n, r)' => MayWrite(n, r)
      BY <1>2, <1>3 DEF MayWrite
    <2>2. session_active'[n] => session_active[n] /\ locked'
      BY <1>2, <1>3 DEF RefreshLock, Committed
    <2> QED
      BY <1>2, <2>1, <2>2 DEF IInv, Reading, ChoiceAt
  <1>6. NodesAgreeOnWriteMode'
    BY <1>2 DEF IInv, Reading, NodesAgreeOnWriteMode
  <1> QED
    BY <1>4, <1>5, <1>6 DEF Reading
-----------------------------------------------------------------------------
LEMMA ReadingStep == ASSUME PromptAccept PROVE IInv /\ [Next]_vars => Reading'
  <1> SUFFICES ASSUME IInv, [Next]_vars PROVE Reading'
    OBVIOUS
  <1>1. CASE StartAll \/ StartIntensity
    BY <1>1, BeginReading DEF StartAll, StartIntensity, Kinds
  <1>2. CASE EndRun
    BY <1>2, EndRunReading
  <1>3. CASE ToggleWrite
    BY <1>3, ToggleWriteReading
  <1>4. CASE HealthCheck
    BY <1>4, HealthCheckReading
  <1>5. ASSUME NEW n \in Nodes, PanelStep(n) PROVE Reading'
    BY <1>5, ConnectReading, DisconnectReading, ReaderEndsReading, PanelReadsReading,
       AcceptDataReading, SessionLoopEndsReading DEF PanelStep
  <1>6. ASSUME NEW n \in Nodes, LinkLost(n) PROVE Reading'
    BY <1>6, LinkLostReading
  <1>7. ASSUME NEW n \in Nodes, NodeStep(n) PROVE Reading'
    BY <1>7, NodeReadsReading, HandlerEndsReading, ConnectBackReading, FinishReading,
       ThreadEndsReading DEF NodeStep
  <1>8. CASE UNCHANGED vars
    BY <1>8 DEF vars, panels, node, IInv, Reading, KnownAt, ModesAt, ChoiceAt, MayWrite, Told,
        NodesAgreeOnWriteMode
  <1> QED
    BY <1>1, <1>2, <1>3, <1>4, <1>5, <1>6, <1>7, <1>8 DEF Next, UserStep

\* While data connections are accepted within their run, each is read by the
\* loop of its kind, and the time stamps of a run are written for all of its
\* nodes or for none: with SessionsShown, what the panels show and the run
\* buttons allow fits what the nodes do.
THEOREM ControlIsSound == PromptAccept => (Spec => []RunControlSound)
  <1> SUFFICES ASSUME PromptAccept PROVE Spec => []RunControlSound
    OBVIOUS
  <1>1. Init => IInv
    BY InitSession, InitReading DEF IInv
  <1>2. IInv /\ [Next]_vars => IInv'
    BY SessionStep, ReadingStep DEF IInv
  <1>3. IInv => RunControlSound
    BY SessionImplies DEF IInv, Reading, ModesAt, EachConnectionItsLoop, RunControlSound, Session
  <1> QED
    BY <1>1, <1>2, <1>3, PTL DEF Spec
=============================================================================
