------------------------------ MODULE RunControl ------------------------------
(***************************************************************************)
(* How a run is started, stopped and seen to end: the node panels and the  *)
(* run buttons of master.py, and the command server of node_backend.py.    *)
(* A control connection carries commands down and status lines up, both in *)
(* order; it can break, and each side notices in its own time.  An         *)
(* acquisition is a thread of the node: it connects back to the panel's    *)
(* data server, streams, and reports its end before the thread is gone.    *)
(* The panel's accept thread serves one data connection at a time, and     *)
(* decides then how it is read and whether its time stamps are written.    *)
(***************************************************************************)
EXTENDS Integers, Sequences, FiniteSets

CONSTANTS Nodes,
          MaxRuns,       \* bound: START ALL and intensity measurements
          MaxLinks,      \* bound: launches per node
          Flaky,         \* bound: the nodes whose control connection may break or be closed
          PromptAccept   \* whether a data connection is accepted before its run ends

ASSUME RunControlAssumption ==
    /\ IsFiniteSet(Nodes) /\ Flaky \subseteq Nodes /\ MaxRuns \in Nat /\ MaxLinks \in Nat
    /\ PromptAccept \in BOOLEAN

VARIABLES run,             \* the runs started so far
          panel,           \* [node -> "idle" or "ready"]: NodePanel._state
          session_active,  \* [node -> START sent, no terminal status received]
          pending_mode,    \* [node -> the kind the next data connection has]
          data_conn,       \* [node -> what the accept thread serves, or NoConn]
          write_mode,      \* whether time stamps are written, as chosen
          locked,          \* the choice's buttons are disabled
          wrote,           \* [node -> its last run that was accepted to be written, and the flag]
          links,           \* [node -> launches so far]
          link,            \* [node -> "none", "up" or "lost"]: the control connection
          cmds, status,    \* [node -> commands and status lines in flight]
          handled,         \* [node -> _handle_controller has not returned]
          acq,             \* [node -> its live acquisition threads]
          backlog          \* [node -> data connections not accepted yet]

panels == <<run, panel, session_active, pending_mode, data_conn, write_mode, locked, wrote>>
node == <<handled, acq, backlog>>
vars == <<panels, links, link, cmds, status, node>>

Kinds == {"timestamp", "intensity"}
NoConn == [run |-> 0, kind |-> "none", mode |-> "none"]
Ready == {n \in Nodes : panel[n] = "ready"}

\* _on_ctrl_status: these end a session; "busy" is only logged.
Terminal == {"done", "error", "intensity_done"}
-----------------------------------------------------------------------------
\* Mutants of definitions below.
CommittedByAccept(n) == data_conn'[n] # NoConn
HandlerLeaves(n) == UNCHANGED acq

\* write_flag_is_committed(), for the state a button or the health check leaves.
Committed(n) == data_conn'[n] # NoConn \/ session_active'[n]

\* _refresh_write_mode_lock
RefreshLock == locked' = (\E n \in Nodes : Committed(n))

\* A data connection that could be accepted has been, when a user acts.
Settled == \A n \in Nodes : backlog[n] # <<>> => data_conn[n] # NoConn

\* `acq_thread and acq_thread.is_alive()`
Alive(n) == acq[n] # {}

\* A terminal status has been read: the session is over.
Closed(n, s) == session_active' = [session_active EXCEPT ![n] = @ /\ s \notin Terminal]

\* send_start and send_intensity name the loop the next connection needs.
ModeSet(kind) ==
    pending_mode' = [n \in Nodes |-> IF n \in Ready THEN kind ELSE pending_mode[n]]

\* The finally clause of _handle_controller; an intensity measurement has no
\* stop event to look at, it only runs its time.
Stopped(n) == acq' = [acq EXCEPT ![n] = {[a EXCEPT !.stop = TRUE] : a \in @}]

\* The node's recv has returned nothing: the connection is at its end.
Gone(n) == link[n] = "lost" /\ cmds[n] = <<>>

\* _send_ctrl to every ready node.
SendAll(c) ==
    cmds' = [n \in Nodes |-> IF n \in Ready /\ link[n] = "up" THEN Append(cmds[n], c)
                             ELSE cmds[n]]

\* The node's send(): lost with the connection.
Send(n, s) == IF link[n] = "up" THEN status' = [status EXCEPT ![n] = Append(@, s)]
              ELSE UNCHANGED status

Prefixes(s) == {SubSeq(s, 1, k) : k \in 0 .. Len(s)}
-----------------------------------------------------------------------------
Init ==
    /\ run = 0 /\ panel = [n \in Nodes |-> "idle"]
    /\ session_active = [n \in Nodes |-> FALSE]
    /\ pending_mode = [n \in Nodes |-> "timestamp"]
    /\ data_conn = [n \in Nodes |-> NoConn]
    /\ write_mode = TRUE /\ locked = FALSE
    /\ wrote = [n \in Nodes |-> [run |-> 0, write |-> TRUE]]
    /\ links = [n \in Nodes |-> 0] /\ link = [n \in Nodes |-> "none"]
    /\ cmds = [n \in Nodes |-> <<>>] /\ status = [n \in Nodes |-> <<>>]
    /\ handled = [n \in Nodes |-> FALSE]
    /\ acq = [n \in Nodes |-> {}] /\ backlog = [n \in Nodes |-> <<>>]

\* A launch kills the node.py of before, starts a new one and, seconds later,
\* _connect opens the data server and the control connection to it.
Connect(n) ==
    /\ panel[n] = "idle" /\ links[n] < MaxLinks
    /\ panel' = [panel EXCEPT ![n] = "ready"]
    /\ links' = [links EXCEPT ![n] = @ + 1] /\ link' = [link EXCEPT ![n] = "up"]
    /\ cmds' = [cmds EXCEPT ![n] = <<>>] /\ status' = [status EXCEPT ![n] = <<>>]
    /\ handled' = [handled EXCEPT ![n] = TRUE]
    /\ acq' = [acq EXCEPT ![n] = {}] /\ backlog' = [backlog EXCEPT ![n] = <<>>]
    /\ data_conn' = [data_conn EXCEPT ![n] = NoConn]
    /\ UNCHANGED <<run, session_active, pending_mode, write_mode, locked, wrote>>

\* _disconnect of the nodes D: both connections are closed.
Disconnected(D) ==
    /\ panel' = [n \in Nodes |-> IF n \in D THEN "idle" ELSE panel[n]]
    /\ session_active' = [n \in Nodes |-> session_active[n] /\ n \notin D]
    /\ link' = [n \in Nodes |-> IF n \in D THEN "lost" ELSE link[n]]
    /\ status' = [n \in Nodes |-> IF n \in D THEN <<>> ELSE status[n]]
    /\ data_conn' = [n \in Nodes |-> IF n \in D THEN NoConn ELSE data_conn[n]]
    /\ backlog' = [n \in Nodes |-> IF n \in D THEN <<>> ELSE backlog[n]]

\* The user disconnects a node.
Disconnect(n) ==
    /\ n \in Flaky /\ panel[n] = "ready" /\ Disconnected({n})
    /\ UNCHANGED <<run, pending_mode, write_mode, locked, wrote, links, cmds, handled, acq>>

\* The control connection breaks, with some of what was in flight.
LinkLost(n) ==
    /\ n \in Flaky /\ link[n] = "up" /\ link' = [link EXCEPT ![n] = "lost"]
    /\ \E c \in Prefixes(cmds[n]), s \in Prefixes(status[n]) :
          /\ cmds' = [cmds EXCEPT ![n] = c] /\ status' = [status EXCEPT ![n] = s]
    /\ UNCHANGED <<panels, links, node>>

\* _read_ctrl_thread gets to the end of a broken connection; the session and
\* the data server stay.
ReaderEnds(n) ==
    /\ panel[n] = "ready" /\ link[n] = "lost" /\ status[n] = <<>>
    /\ panel' = [panel EXCEPT ![n] = "idle"]
    /\ UNCHANGED <<run, session_active, pending_mode, data_conn, write_mode, locked, wrote,
                   links, link, cmds, status, node>>

\* _health_check: a broken connection is disconnected, if the reader has not
\* noticed it before; the lock is refreshed.
HealthCheck ==
    /\ \E D \in SUBSET {n \in Ready : link[n] = "lost"} : Disconnected(D)
    /\ RefreshLock
    /\ UNCHANGED <<run, pending_mode, write_mode, wrote, links, cmds, handled, acq>>

\* START ALL and an intensity measurement, refused while a node is finishing.
Begin(kind) ==
    /\ Settled /\ run < MaxRuns /\ Ready # {}
    /\ \A n \in Ready : ~session_active[n]
    /\ run' = run + 1
    /\ session_active' = [n \in Nodes |-> session_active[n] \/ n \in Ready]
    /\ ModeSet(kind)
    /\ SendAll([cmd |-> kind, run |-> run'])
    /\ UNCHANGED <<panel, data_conn, write_mode, wrote, links, link, status, node>>

StartAll == Begin("timestamp") /\ RefreshLock
StartIntensity == Begin("intensity") /\ UNCHANGED locked

\* Mutant: the session is taken to be over when it is told to stop.
EndRunForgets ==
    /\ Ready # {}
    /\ session_active' = [n \in Nodes |-> session_active[n] /\ n \notin Ready]
    /\ SendAll([cmd |-> "stop", run |-> run])
    /\ UNCHANGED <<run, panel, pending_mode, data_conn, write_mode, locked, wrote, links, link,
                   status, node>>

\* _end_run: soft or not, every ready node is told to stop.
EndRun ==
    /\ Ready # {}
    /\ \A n \in Ready : \A i \in 1 .. Len(cmds[n]) : cmds[n][i].cmd # "stop"
    /\ SendAll([cmd |-> "stop", run |-> run])
    /\ UNCHANGED <<panels, links, link, status, node>>

\* The write choice is changed while its buttons are enabled.
ToggleWrite ==
    /\ ~locked /\ Settled
    /\ write_mode' = ~write_mode
    /\ UNCHANGED data_conn /\ UNCHANGED session_active /\ RefreshLock
    /\ UNCHANGED <<run, panel, pending_mode, wrote, links, link, cmds, status, node>>

\* The panel reads the next status line.
PanelReads(n) ==
    /\ panel[n] = "ready" /\ status[n] # <<>>
    /\ Closed(n, Head(status[n]))
    /\ status' = [status EXCEPT ![n] = Tail(@)]
    /\ UNCHANGED <<run, panel, pending_mode, data_conn, write_mode, locked, wrote, links, link,
                   cmds, node>>

\* The accept thread takes the next data connection, and the loop and the
\* write flag that hold for all of it.
AcceptData(n) ==
    /\ backlog[n] # <<>> /\ data_conn[n] = NoConn
    /\ data_conn' = [data_conn EXCEPT ![n] = [run |-> Head(backlog[n]).run,
                        kind |-> Head(backlog[n]).kind, mode |-> pending_mode[n]]]
    /\ backlog' = [backlog EXCEPT ![n] = Tail(@)]
    /\ wrote' = IF pending_mode[n] = "timestamp"
                THEN [wrote EXCEPT ![n] = [run |-> Head(backlog[n]).run, write |-> write_mode]]
                ELSE wrote
    /\ UNCHANGED <<run, panel, session_active, pending_mode, write_mode, locked, links, link,
                   cmds, status, handled, acq>>

\* The session loop reads to the end of a connection the node has closed.
SessionLoopEnds(n) ==
    /\ data_conn[n] # NoConn
    /\ \A a \in acq[n] : a.run = data_conn[n].run => a.stage = "ending"
    /\ data_conn' = [data_conn EXCEPT ![n] = NoConn]
    /\ UNCHANGED <<run, panel, session_active, pending_mode, write_mode, locked, wrote, links,
                   link, cmds, status, node>>
-----------------------------------------------------------------------------
\* _handle_controller reads the next command.  STOP and ABORT reach the
\* thread started last.
NodeReads(n) ==
    LET c == Head(cmds[n])
    IN  /\ handled[n] /\ cmds[n] # <<>>
        /\ cmds' = [cmds EXCEPT ![n] = Tail(@)]
        /\ \/ /\ c.cmd = "stop" /\ Stopped(n) /\ UNCHANGED status
           \/ /\ c.cmd \in Kinds /\ Alive(n)
              /\ Send(n, "busy") /\ UNCHANGED acq
           \/ /\ c.cmd \in Kinds /\ ~Alive(n)
              /\ acq' = [acq EXCEPT ![n] = @ \cup {[run |-> c.run, kind |-> c.cmd,
                                                  stage |-> "connecting", stop |-> FALSE]}]
              /\ UNCHANGED status
        /\ UNCHANGED <<panels, links, link, handled, backlog>>

\* The control connection is at its end: finally: stop_event.set().
HandlerEnds(n) ==
    /\ handled[n] /\ Gone(n)
    /\ handled' = [handled EXCEPT ![n] = FALSE]
    /\ Stopped(n)
    /\ UNCHANGED <<panels, links, link, cmds, status, backlog>>

Replace(n, a, b) == acq' = [acq EXCEPT ![n] = (@ \ {a}) \cup {b}]

\* connect_receiver; there is no data server once the panel is disconnected.
ConnectBack(n, a) ==
    /\ a.stage = "connecting" /\ (panel[n] = "ready" \/ session_active[n])
    /\ Replace(n, a, [a EXCEPT !.stage = "streaming"])
    /\ backlog' = [backlog EXCEPT ![n] = Append(@, [run |-> a.run, kind |-> a.kind])]
    /\ UNCHANGED <<panels, links, link, cmds, status, handled>>

\* The acquisition is over, on a stop, in its own time or by an error: its
\* connection is closed, the terminal status is sent.
Finish(n, a) ==
    /\ a.stage \in {"connecting", "streaming"}
    /\ PromptAccept => \A i \in 1 .. Len(backlog[n]) : backlog[n][i].run # a.run
    /\ Replace(n, a, [a EXCEPT !.stage = "ending"])
    /\ \/ Send(n, "error")
       \/ /\ a.stage = "streaming"
          /\ Send(n, IF a.kind = "intensity" THEN "intensity_done" ELSE "done")
    /\ UNCHANGED <<panels, links, link, cmds, handled, backlog>>

\* ... and the thread is gone.
ThreadEnds(n, a) ==
    /\ a.stage = "ending"
    /\ acq' = [acq EXCEPT ![n] = @ \ {a}]
    /\ UNCHANGED <<panels, links, link, cmds, status, handled, backlog>>

\* What an acquisition must do: connect (or fail to), end once stopped or when
\* the time of an intensity measurement is over, and go.
Proceeds(n) ==
    \E a \in acq[n] :
        \/ ConnectBack(n, a) \/ ThreadEnds(n, a)
        \/ /\ a.stage = "connecting" \/ a.stop \/ a.kind = "intensity"
           /\ Finish(n, a)

UserStep == StartAll \/ StartIntensity \/ EndRun \/ ToggleWrite \/ HealthCheck
PanelStep(n) ==
    Connect(n) \/ Disconnect(n) \/ ReaderEnds(n) \/ PanelReads(n) \/ AcceptData(n) \/ SessionLoopEnds(n)
NodeStep(n) ==
    \/ NodeReads(n) \/ HandlerEnds(n)
    \/ \E a \in acq[n] : ConnectBack(n, a) \/ Finish(n, a) \/ ThreadEnds(n, a)

Next == UserStep \/ \E n \in Nodes : PanelStep(n) \/ LinkLost(n) \/ NodeStep(n)

Spec == Init /\ [][Next]_vars
NodeRuns(n) == NodeReads(n) \/ HandlerEnds(n) \/ Proceeds(n)
ReceiverRuns(n) == AcceptData(n) \/ SessionLoopEnds(n)
FairSpec == Spec /\ \A n \in Nodes : WF_vars(NodeRuns(n)) /\ WF_vars(ReceiverRuns(n))
-----------------------------------------------------------------------------
Commands == [cmd : Kinds \cup {"stop"}, run : 0 .. MaxRuns]
Connections == [run : 0 .. MaxRuns, kind : Kinds \cup {"none"}, mode : Kinds \cup {"none"}]
Acquisitions == [run : 0 .. MaxRuns, kind : Kinds,
                 stage : {"connecting", "streaming", "ending"}, stop : BOOLEAN]

TypeOK ==
    /\ run \in 0 .. MaxRuns /\ panel \in [Nodes -> {"idle", "ready"}]
    /\ session_active \in [Nodes -> BOOLEAN] /\ pending_mode \in [Nodes -> Kinds]
    /\ data_conn \in [Nodes -> Connections] /\ wrote \in [Nodes -> [run : 0 .. MaxRuns, write : BOOLEAN]]
    /\ write_mode \in BOOLEAN /\ locked \in BOOLEAN
    /\ links \in [Nodes -> 0 .. MaxLinks] /\ link \in [Nodes -> {"none", "up", "lost"}]
    /\ cmds \in [Nodes -> Seq(Commands)] /\ status \in [Nodes -> Seq(Terminal \cup {"busy"})]
    /\ handled \in [Nodes -> BOOLEAN] /\ \A n \in Nodes : link[n] = "up" => handled[n]
    /\ acq \in [Nodes -> SUBSET Acquisitions]
    /\ backlog \in [Nodes -> Seq([run : 0 .. MaxRuns, kind : Kinds])]

\* A node never runs two acquisitions at once, whatever is started, stopped,
\* lost and launched again.
OneAcquisition == \A n \in Nodes : Cardinality(acq[n]) =< 1

\* When a panel is ready and shows no session, its node is not acquiring and
\* has not been told to: the next START is refused at most by a thread that
\* is about to end.
IdleIsTrue ==
    \A n \in Ready : ~session_active[n] =>
        /\ \A a \in acq[n] : a.stage = "ending"
        /\ \A i \in 1 .. Len(cmds[n]) : cmds[n][i].cmd \notin Kinds

\* "so the two nodes cannot disagree": the time stamps of a run are written
\* for all of its nodes or for none.
NodesAgreeOnWriteMode ==
    \A n, k \in Nodes : wrote[n].run = wrote[k].run => wrote[n].write = wrote[k].write

\* "which receive loop the next accepted connection needs": a connection is
\* read by the loop of its kind.
EachConnectionItsLoop ==
    \A n \in Nodes : data_conn[n] # NoConn => data_conn[n].mode = data_conn[n].kind

\* _handle_controller against NodePanel: what the panels show and the run
\* buttons allow fits what the nodes do.
RunControlSound ==
    TypeOK /\ OneAcquisition /\ IdleIsTrue /\ EachConnectionItsLoop /\ NodesAgreeOnWriteMode

\* A run whose controller is gone does not go on for ever.
Abandoned(n) == link[n] = "lost"
Quiet(n) == acq[n] = {} \/ link[n] = "up"
LostControllerStops == \A n \in Nodes : Abandoned(n) ~> Quiet(n)
=============================================================================
