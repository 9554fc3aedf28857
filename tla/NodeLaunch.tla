------------------------------ MODULE NodeLaunch ------------------------------
(***************************************************************************)
(* How a node is launched and shut down over SSH: the node panel of        *)
(* master.py and ssh_launcher.py.  A launch is a thread with no            *)
(* cancellation point: an Abort, or a new Launch, only raises the epoch,   *)
(* and what the old thread posts to the GUI is dropped.  What it does to   *)
(* the node is not: it starts lSPAD, applies its mask, kills node.py and   *)
(* starts its own.  A shutdown is one more thread, which kills lSPAD.      *)
(***************************************************************************)
EXTENDS Integers, Sequences, FiniteSets

CONSTANTS MaxLaunches,   \* bound: presses of Launch
          MaxRefresh,    \* bound: M commands after which the mask is not refreshed
          MaxFaults      \* bound: steps that fail, connections that are lost

NodeLaunchAssumption == {MaxLaunches, MaxRefresh, MaxFaults} \subseteq Nat

VARIABLES state,     \* NodePanel._state
          epoch,     \* _launch_epoch
          creds,     \* whether _ssh_creds is set
          applied,   \* _applied_mask: the M command it came from, 0 if none
          gui,       \* what threads have posted to the GUI loop, in order
          link,      \* the control connection, or NoLink
          refused,   \* _connect could not reach the node
          thread,    \* [launch -> its thread: step, epoch, mask given or not, M command]
          refresh,   \* the thread of the mask-refresh button
          kills,     \* the shutdown threads that have not run: who asked
          lspad,     \* the launches whose lSPAD runs on the node
          hw_mask,   \* the M command the detector follows, 0 if none
          node_py,   \* the launches whose node.py runs on the node
          masks, faults,
          ran_on,    \* ghost: a thread, a shutdown or a post outlived its epoch
          unkilled,  \* ledger: the launches whose lSPAD a shutdown did not reach
          late_refresh   \* ghost: applied was stored by a refresh after a Disconnect

panel == <<state, epoch, creds, applied, gui, link, refused>>
node == <<lspad, hw_mask, node_py>>
counts == <<masks, faults>>
ghosts == <<ran_on, unkilled, late_refresh>>
vars == <<panel, thread, refresh, kills, node, counts, ghosts>>

Launches == 1 .. MaxLaunches
NoLink == 0
User == 0
Off == [step |-> "off", epoch |-> 0, mask |-> FALSE, sent |-> 0]
Alive(t) == thread[t].step \notin {"off", "end"}
SomeAlive == (\E t \in Launches : Alive(t)) \/ refresh.step # "off"
Started == Cardinality({t \in Launches : thread[t].step # "off"})
Fault == faults < MaxFaults /\ faults' = faults + 1
-----------------------------------------------------------------------------
\* A mutant of a definition below.
Unguarded(e) == TRUE

\* _gui_guarded: `epoch == self._launch_epoch`; 0 stands for plain _gui.
Current(e) == e \in {0, epoch}

\* _trigger_remote_shutdown drops the mask, with or without credentials.
Dropped == 0

\* _trigger_remote_shutdown, from the GUI or from the thread of a launch.
TriggerShutdown(who) ==
    /\ applied' = Dropped /\ creds' = FALSE /\ late_refresh' = FALSE
    /\ kills' = IF creds THEN kills \cup {who} ELSE kills

\* kill_node: every node.py, of whatever launch.
NodePyLeft == {}

Post(what, e) == gui' = Append(gui, [what |-> what, epoch |-> e])

\* The last clause of both handlers of _ssh_launch.
PostIdle(t) == Post("idle", thread[t].epoch)

\* _on_primary: the button says Abort.
AbortShown == state = "launching"

Goto(t, s) == thread' = [thread EXCEPT ![t].step = s]
-----------------------------------------------------------------------------
Init ==
    /\ state = "idle" /\ epoch = 0 /\ creds = FALSE /\ applied = 0 /\ gui = <<>>
    /\ link = NoLink /\ refused = FALSE
    /\ thread = [t \in Launches |-> Off] /\ refresh = Off /\ kills = {}
    /\ lspad = {} /\ hw_mask = 0 /\ node_py = {}
    /\ masks = 0 /\ faults = 0 /\ ran_on = FALSE /\ unkilled = {} /\ late_refresh = FALSE

\* _on_launch: the button says Launch while the state is idle, also in the
\* instant before the thread has posted "launching".
OnLaunch(mask) ==
    /\ state = "idle" /\ Started < MaxLaunches
    /\ epoch' = epoch + 1 /\ creds' = TRUE
    /\ thread' = [thread EXCEPT ![Started + 1] =
                    [step |-> "begin", epoch |-> epoch', mask |-> mask, sent |-> 0]]
    /\ ran_on' = (ran_on \/ SomeAlive \/ kills # {} \/ gui # <<>>)
    /\ UNCHANGED <<state, applied, gui, link, refused, refresh, kills, node, counts, unkilled,
                   late_refresh>>

\* _on_abort_launch
OnAbort ==
    /\ AbortShown /\ epoch' = epoch + 1 /\ state' = "idle" /\ refused' = FALSE
    /\ TriggerShutdown(User) /\ ran_on' = (ran_on \/ SomeAlive)
    /\ UNCHANGED <<gui, link, thread, refresh, node, counts, unkilled>>

\* _disconnect: the button, or a health check that fails.  The reader thread
\* of the connection ends with it and posts the same.  Bound: the GUI loop runs
\* the "idle" of a connection that ended before the button is pressed again.
Disconnect ==
    /\ state = "ready" /\ link # NoLink /\ link' = NoLink
    /\ Post("idle", 0) /\ TriggerShutdown(User)
    /\ UNCHANGED <<state, epoch, refused, thread, refresh, node, counts, ran_on, unkilled>>

\* _read_ctrl_thread: the connection is lost, with its node.py or without.
LinkLost ==
    /\ link # NoLink
    /\ \/ link \notin node_py /\ UNCHANGED faults
       \/ Fault
    /\ link' = NoLink /\ Post("idle", 0)
    /\ UNCHANGED <<state, epoch, creds, applied, refused, thread, refresh, kills, node, masks,
                   ghosts>>

\* The GUI loop runs what was posted first.  _connect reaches the node.py that
\* listens (any of them, if there are several), or leaves the state as it is.
Gui ==
    /\ gui # <<>> /\ gui' = Tail(gui)
    /\ LET g == Head(gui)
       IN  \/ ~Current(g.epoch) /\ UNCHANGED <<state, link, refused, faults>>
           \/ /\ Current(g.epoch) /\ g.what # "connect" /\ state' = g.what
              /\ UNCHANGED <<link, refused, faults>>
           \/ /\ Current(g.epoch) /\ g.what = "connect" /\ state' = "ready"
              /\ link' \in node_py /\ UNCHANGED <<refused, faults>>
           \/ /\ Current(g.epoch) /\ g.what = "connect" /\ refused' = TRUE
              /\ \/ node_py = {} /\ UNCHANGED faults
                 \/ Fault
              /\ UNCHANGED <<state, link>>
    /\ UNCHANGED <<epoch, creds, applied, thread, refresh, kills, node, masks, ghosts>>

\* ------------------------------------------------ the thread of a launch ---
At(t, s) == thread[t].step = s

Begin(t) ==
    /\ At(t, "begin") /\ Post("launching", thread[t].epoch) /\ Goto(t, "start")
    /\ UNCHANGED <<state, epoch, creds, applied, link, refused, refresh, kills, node, counts,
                   ghosts>>

\* launch_node: start_interactive until the port opens.
StartLspad(t) ==
    /\ At(t, "start") /\ lspad' = lspad \cup {t}
    /\ Goto(t, IF thread[t].mask THEN "mask" ELSE "update")
    /\ UNCHANGED <<panel, refresh, kills, hw_mask, node_py, counts, ghosts>>

\* _apply_mask: the M command over the tunnel.
ApplyMask(t) ==
    /\ At(t, "mask") /\ lspad # {} /\ masks' = masks + 1
    /\ hw_mask' = masks' /\ thread' = [thread EXCEPT ![t].step = "record", ![t].sent = masks']
    /\ UNCHANGED <<panel, refresh, kills, lspad, node_py, faults, ghosts>>

\* _record_applied_mask: the epoch is compared, then the mask is stored.
CheckMask(t) ==
    /\ At(t, "record") /\ Goto(t, IF Current(thread[t].epoch) THEN "keep" ELSE "update")
    /\ UNCHANGED <<panel, refresh, kills, node, counts, ghosts>>

KeepMask(t) ==
    /\ At(t, "keep") /\ applied' = thread[t].sent /\ Goto(t, "update")
    /\ late_refresh' = FALSE
    /\ UNCHANGED <<state, epoch, creds, gui, link, refused, refresh, kills, node, counts,
                   ran_on, unkilled>>

\* R and the TDC calibration, find_sii_wis, git_update, kill_node.
KillNode(t) ==
    /\ At(t, "update") /\ lspad # {} /\ node_py' = NodePyLeft /\ Goto(t, "node")
    /\ UNCHANGED <<panel, refresh, kills, lspad, hw_mask, counts, ghosts>>

\* start_detached; three seconds later _connect is posted.
StartNode(t) ==
    /\ At(t, "node") /\ node_py' = node_py \cup {t} /\ Goto(t, "connect")
    /\ UNCHANGED <<panel, refresh, kills, lspad, hw_mask, counts, ghosts>>

PostConnect(t) ==
    /\ At(t, "connect") /\ Post("connect", thread[t].epoch) /\ Goto(t, "end")
    /\ UNCHANGED <<state, epoch, creds, applied, link, refused, refresh, kills, node, counts,
                   ghosts>>

\* An exception of any step, UncommittedChangesError too: lSPAD is shut down,
\* whichever launch it belongs to.  A port that never opens is one of them.
LaunchFails(t) ==
    /\ thread[t].step \in {"start", "mask", "update", "node"}
    /\ \/ Fault
       \/ thread[t].step \in {"mask", "update"} /\ lspad = {} /\ UNCHANGED faults
    /\ lspad' \in IF At(t, "start") THEN {lspad, lspad \cup {t}} ELSE {lspad}
    /\ TriggerShutdown(t) /\ PostIdle(t) /\ Goto(t, "end")
    /\ UNCHANGED <<state, epoch, link, refused, refresh, hw_mask, node_py, masks, ran_on, unkilled>>

\* ------------------------------------- the other threads of the panel -------
\* _on_refresh_mask, _refresh_mask_thread
OnRefresh ==
    /\ state = "ready" /\ refresh.step = "off" /\ masks < MaxRefresh
    /\ refresh' = [step |-> "mask", epoch |-> epoch, mask |-> TRUE, sent |-> 0]
    /\ UNCHANGED <<panel, thread, kills, node, counts, ghosts>>

RefreshApplies ==
    /\ refresh.step = "mask" /\ lspad # {} /\ masks' = masks + 1
    /\ hw_mask' = masks' /\ refresh' = [refresh EXCEPT !.step = "record", !.sent = masks']
    /\ UNCHANGED <<panel, thread, kills, lspad, node_py, faults, ghosts>>

RefreshChecks ==
    /\ refresh.step = "record"
    /\ refresh' = IF Current(refresh.epoch) THEN [refresh EXCEPT !.step = "keep"] ELSE Off
    /\ UNCHANGED <<panel, thread, kills, node, counts, ghosts>>

RefreshKeeps ==
    /\ refresh.step = "keep" /\ applied' = refresh.sent /\ refresh' = Off
    /\ late_refresh' = ~creds
    /\ UNCHANGED <<state, epoch, creds, gui, link, refused, thread, kills, node, counts, ran_on,
                   unkilled>>

RefreshFails ==
    /\ refresh.step = "mask" /\ lspad = {} /\ refresh' = Off
    /\ UNCHANGED <<panel, thread, kills, node, counts, ghosts>>

\* shutdown_lspad; it may not get through.
ShutdownRuns(who) ==
    /\ who \in kills /\ kills' = kills \ {who}
    /\ \/ lspad' = {} /\ hw_mask' = 0 /\ unkilled' = {} /\ UNCHANGED faults
       \/ Fault /\ unkilled' = lspad /\ UNCHANGED <<lspad, hw_mask>>
    /\ UNCHANGED <<panel, thread, refresh, node_py, masks, ran_on, late_refresh>>

ThreadStep(t) ==
    \/ Begin(t) \/ StartLspad(t) \/ ApplyMask(t) \/ CheckMask(t) \/ KeepMask(t)
    \/ KillNode(t) \/ StartNode(t) \/ PostConnect(t) \/ LaunchFails(t)
RefreshStep == RefreshApplies \/ RefreshChecks \/ RefreshKeeps \/ RefreshFails
Users == (\E mask \in BOOLEAN : OnLaunch(mask)) \/ OnAbort \/ Disconnect \/ OnRefresh

Next ==
    \/ Users \/ LinkLost \/ Gui \/ RefreshStep
    \/ \E t \in Launches : ThreadStep(t)
    \/ \E who \in Launches \cup {User} : ShutdownRuns(who)

Spec == Init /\ [][Next]_vars

\* Threads run, every wait in them has a time limit, and so does the GUI loop.
Fairness == WF_vars(Gui) /\ \A t \in Launches : WF_vars(ThreadStep(t))
FairSpec == Spec /\ Fairness
-----------------------------------------------------------------------------
TypeOK ==
    /\ state \in {"idle", "launching", "ready"} /\ epoch \in 0 .. 2 * MaxLaunches
    /\ {creds, refused, ran_on, late_refresh} \subseteq BOOLEAN
    /\ masks \in 0 .. MaxLaunches + MaxRefresh
    /\ {applied, hw_mask} \subseteq 0 .. masks /\ link \in Launches \cup {NoLink}
    /\ \A t \in Launches : thread[t].epoch \in 0 .. epoch /\ thread[t].sent \in 0 .. masks
    /\ refresh.epoch \in 0 .. epoch /\ kills \subseteq Launches \cup {User}
    /\ {lspad, node_py, unkilled} \subseteq SUBSET Launches /\ faults \in 0 .. MaxFaults
    /\ \A i \in DOMAIN gui : gui[i].epoch \in 0 .. epoch

\* _on_abort_launch: an aborted launch stays aborted.  Nothing its thread
\* posts later, success or failure, makes the panel leave "idle" before the
\* user presses Launch again.
AbortStays == state # "idle" => \E t \in Launches : thread[t].epoch = epoch

\* The mask the correlator derives its pairs from is the one the detector
\* follows, also after a lost connection, a failed launch or a shutdown that did
\* not get through.  Two exceptions: something outlived its epoch (ran_on); and a
\* refresh that was under way at a Disconnect, which does not raise the epoch,
\* stores the mask of an lSPAD that is being killed (late_refresh).
MaskInUse ==
    state = "ready" /\ applied # 0 /\ refresh.step = "off" /\ ~ran_on /\ ~late_refresh
        => applied = hw_mask

\* kill_node: one node.py answers, unless something outlived its epoch.
OneNodePy == ~ran_on => Cardinality(node_py) <= 1

\* A launch that failed leaves no lSPAD behind, nor does a disconnect, unless
\* something outlived its epoch: what runs on while the panel is idle is one whose
\* shutdown did not get through, or, after a lost connection, one the panel still
\* has the credentials for.
FailureCleansUp ==
    state = "idle" /\ gui = <<>> /\ ~SomeAlive /\ kills = {} /\ ~ran_on
        => creds \/ lspad \subseteq unkilled

\* _ssh_launch: an Abort or a fresh Launch "makes this thread's eventual result a
\* no-op instead of clobbering whatever state followed".  As stated it is false of
\* the handlers of _ssh_launch, which shut down without comparing the epoch.
StaleIsNoOp ==
    [][\A t \in Launches :
          ~Current(thread[t].epoch) /\ thread'[t] # thread[t] =>
              UNCHANGED <<state, creds, applied>>]_vars

\* A panel that says it is launching comes to an end without the user, unless
\* its node.py was started and cannot be reached.
Launching == state = "launching"
Decided == ~Launching \/ refused
LaunchDecided == Launching ~> Decided
=============================================================================
