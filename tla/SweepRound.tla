----------------------------- MODULE SweepRound -----------------------------
(***************************************************************************)
(* One round of the unattended sweep: run_round of tools/sweep/run.py on   *)
(* the two real nodes (NodeLink, LiveSource), and the attempts main makes  *)
(* at it.  Four kinds of thread meet here: the main loop, which polls; the *)
(* background thread that correlates one release; the accept thread of     *)
(* each node, which queues what the node streams; the control reader of    *)
(* each node, which sees the session end.  Time stamps are units: unit u   *)
(* of the round can be correlated once both nodes have delivered it.       *)
(***************************************************************************)
EXTENDS Integers, FiniteSets

CONSTANTS Nodes,
          Attempts,   \* ATTEMPTS
          Units,      \* bound: the units of one session after the calibration
          Faults,     \* bound: faults of the nodes and of the pool in all
          Settled     \* whether the last poll after the end finds the data delivered

SweepRoundAssumption ==
    /\ IsFiniteSet(Nodes) /\ Nodes # {} /\ Attempts \in Nat \ {0}
    /\ Units \in Nat \ {0} /\ Faults \in Nat /\ Settled \in BOOLEAN

VARIABLES pc, attempt,      \* the main thread
          session_active,   \* [node -> NodeLink.session_active]
          error,            \* [node -> NodeLink.error is set]
          acq,              \* [node -> its acquisition]
          status,           \* [node -> the terminal status on its way]
          dwell,            \* [node -> the attempts whose markers are queued]
          fit,              \* what the offset was fitted on, and how
          sent, got,        \* [node -> units streamed, units in the graph's queues]
          released,         \* units the graph has released
          hist,             \* the units counted in the histograms
          correlating,      \* the flag the main loop tests
          bg, tail,         \* the two callers of accumulate: step, batch, value read
          polls,            \* polls of the tail still to make
          clock,            \* "run", "due" (duration over), "late" (180 s after STOP)
          stop_sent, faults,
          lost              \* ghost: a pool failure was swallowed, or two adds overlapped

main == <<pc, attempt, fit, released, correlating, polls, stop_sent>>
link == <<session_active, error, status>>
node == <<acq, sent>>
data == <<dwell, got>>
adders == <<hist, bg, tail>>
vars == <<main, link, node, data, adders, clock, faults, lost>>

Idle == [step |-> "none", batch |-> {}, seen |-> {}]
NoFit == [by |-> "none", of |-> {}]
None == [n \in Nodes |-> 0]

\* source.active()
Active == \E n \in Nodes : session_active[n]

\* What the graph can release: the units every node has delivered.
Complete(s) == CHOOSE k \in 0 .. Units : /\ \A n \in Nodes : k <= s[n]
                                         /\ \E n \in Nodes : k = s[n]
Ready == (released + 1) .. Complete(got)

\* A node that has gone silent while another one went on: its channels are
\* excluded, and the stream is not idle.
Streaming(n) == acq[n] \in {"on", "stopping"}
Stalled == \E n, m \in Nodes : got[n] < got[m] /\ (Streaming(m) \/ got[m] < sent[m])
-----------------------------------------------------------------------------
\* Mutants of definitions below.
KeptDwell == UNCHANGED dwell
NeverGivesUp == FALSE

\* for attempt in range(1, ATTEMPTS + 1)
MoreAttempts == attempt' < Attempts

\* flush_dwell, for both nodes
Flushed == dwell' = [n \in Nodes |-> {}]

\* _on_status: these statuses end the session.
Ends(s) == s \in {"done", "error", "busy"}
Fails(s) == s \in {"error", "busy"}

\* `for _ in range(3)`
TailPolls == 3

\* The end of the loop waits for the background thread.
Joined == ~correlating

\* `stop_sent and time.time() - stop_at > 180`
GivesUp == stop_sent /\ clock = "late"
-----------------------------------------------------------------------------
Init ==
    /\ pc = "reset" /\ attempt = 0 /\ fit = NoFit /\ released = 0
    /\ correlating = FALSE /\ polls = 0 /\ stop_sent = FALSE /\ clock = "run"
    /\ session_active = [n \in Nodes |-> FALSE] /\ error = [n \in Nodes |-> FALSE]
    /\ status = [n \in Nodes |-> "none"] /\ acq = [n \in Nodes |-> "off"]
    /\ sent = None /\ got = None /\ dwell = [n \in Nodes |-> {}]
    /\ hist = {} /\ bg = Idle /\ tail = Idle /\ faults = 0 /\ lost = FALSE

\* An exception anywhere in bring_up or run_round: the next attempt, if any.
AttemptFailed == pc' = IF MoreAttempts THEN "reset" ELSE "gave_up"

\* bring_up: full_reset_and_launch kills lSPAD and node.py of both nodes, so
\* their sessions end unreported; reconnect_ctrl replaces the connections.
BringUp ==
    /\ pc = "reset" /\ pc' = "start" /\ attempt' = attempt + 1
    /\ acq' = [n \in Nodes |-> "off"] /\ status' = [n \in Nodes |-> "none"]
    /\ UNCHANGED <<fit, released, correlating, polls, stop_sent, session_active, error, sent, data,
                   adders, clock, faults, lost>>

\* A launch that fails, a mask that reads back different, a command server
\* that does not answer.
BringUpFails ==
    /\ pc = "reset" /\ faults < Faults /\ faults' = faults + 1
    /\ attempt' = attempt + 1 /\ AttemptFailed
    /\ acq' = [n \in Nodes |-> "off"] /\ status' = [n \in Nodes |-> "none"]
    /\ UNCHANGED <<fit, released, correlating, polls, stop_sent, session_active, error, sent,
                   data, adders, clock, lost>>

\* prepare, flush and start: a new graph and new histograms.  A node that is
\* still measuring refuses.
Start ==
    /\ pc = "start" /\ pc' = "calibrate" /\ Flushed
    /\ error' = [n \in Nodes |-> FALSE]
    /\ session_active' = [n \in Nodes |-> TRUE]
    /\ \E B \in SUBSET Nodes :
          /\ faults + Cardinality(B) <= Faults /\ faults' = faults + Cardinality(B)
          /\ acq' = [n \in Nodes |-> IF n \in B THEN "refused" ELSE "on"]
          /\ status' = [n \in Nodes |-> IF n \in B THEN "busy" ELSE "none"]
    /\ sent' = None /\ got' = None /\ released' = 0 /\ hist' = {} /\ fit' = NoFit
    /\ correlating' = FALSE /\ bg' = Idle /\ tail' = Idle
    /\ stop_sent' = FALSE /\ clock' = "run" /\ lost' = FALSE
    /\ UNCHANGED <<attempt, polls>>

\* calibrate_offset: enough markers of both nodes, or 30 s without them, which
\* leaves the offset at 0.  Then the graph drops what it holds and starts.
Calibrate(by) ==
    /\ pc = "calibrate" /\ pc' = "poll"
    /\ by = "dwell" => \A n \in Nodes : dwell[n] # {}
    /\ fit' = [by |-> by, of |-> UNION {dwell[n] : n \in Nodes}]
    /\ sent' = None /\ got' = None /\ dwell' = [n \in Nodes |-> {}]
    /\ UNCHANGED <<attempt, released, correlating, polls, stop_sent, link, acq, adders, clock,
                   faults, lost>>

\* One turn of the loop, while a session is on: what is ready goes to the
\* background thread unless that is busy; then come the stall, the time, the
\* end of the patience.
Turn ==
    /\ pc = "poll" /\ Active
    /\ IF correlating \/ Ready = {}
       THEN UNCHANGED <<released, correlating, bg>>
       ELSE /\ released' = Complete(got) /\ correlating' = TRUE
            /\ bg' = [step |-> "run", batch |-> Ready, seen |-> {}]
    /\ UNCHANGED <<fit, link, sent, data, hist, tail, clock, faults, lost>>

Due == clock = "due" /\ ~stop_sent

Poll == Turn /\ ~Due /\ ~GivesUp /\ UNCHANGED <<pc, attempt, polls, stop_sent, acq>>

\* The exclusion is looked for only when nothing is being correlated.
StallAbort ==
    /\ Turn /\ ~correlating /\ Stalled /\ UNCHANGED attempt /\ AttemptFailed
    /\ acq' = [n \in Nodes |-> IF Streaming(n) THEN "off" ELSE acq[n]]
    /\ UNCHANGED <<polls, stop_sent>>

SoftStop ==
    /\ Turn /\ Due /\ stop_sent' = TRUE
    /\ acq' = [n \in Nodes |-> IF acq[n] = "on" THEN "stopping" ELSE acq[n]]
    /\ UNCHANGED <<pc, attempt, polls>>

\* sendall on the connection of a node that is gone.
SoftStopFails ==
    /\ Turn /\ Due /\ \E n \in Nodes : acq[n] = "dead"
    /\ UNCHANGED attempt /\ AttemptFailed
    /\ UNCHANGED <<polls, stop_sent, acq>>

GiveUp ==
    /\ Turn /\ GivesUp /\ pc' = "tail" /\ polls' = TailPolls
    /\ UNCHANGED <<attempt, stop_sent, acq>>

SessionsOver ==
    /\ pc = "poll" /\ ~Active /\ pc' = "tail" /\ polls' = TailPolls
    /\ UNCHANGED <<attempt, fit, released, correlating, stop_sent, link, node, data, adders,
                   clock, faults, lost>>

\* The tail: the main thread correlates what is left itself.
TailPoll ==
    /\ pc = "tail" /\ tail = Idle /\ polls > 0 /\ polls' = polls - 1
    /\ (Settled /\ polls = 1) => got = sent
    /\ released' = IF Ready = {} THEN released ELSE Complete(got)
    /\ tail' = IF Ready = {} THEN Idle ELSE [step |-> "run", batch |-> Ready, seen |-> {}]
    /\ UNCHANGED <<pc, attempt, fit, correlating, stop_sent, link, node, data, hist, bg, clock,
                   faults, lost>>

\* hists[i] += h is a read and a write.
TailRead ==
    /\ tail.step = "run" /\ tail' = [tail EXCEPT !.step = "add", !.seen = hist]
    /\ lost' = (lost \/ bg.step = "add")
    /\ UNCHANGED <<main, link, node, data, hist, bg, clock, faults>>

TailWrite ==
    /\ tail.step = "add" /\ hist' = tail.seen \cup tail.batch /\ tail' = Idle
    /\ UNCHANGED <<main, link, node, data, bg, clock, faults, lost>>

TailFails ==
    /\ tail.step = "run" /\ faults < Faults /\ faults' = faults + 1
    /\ UNCHANGED attempt /\ AttemptFailed /\ tail' = Idle
    /\ UNCHANGED <<fit, released, correlating, polls, stop_sent, link, node, data, hist, bg,
                   clock, lost>>

\* The round's result: failed on an error of a node or on an empty histogram,
\* else finalize_round records it.
Finish ==
    /\ pc = "tail" /\ tail = Idle /\ polls = 0 /\ Joined
    /\ UNCHANGED attempt
    /\ IF (\E n \in Nodes : error[n]) \/ hist = {} THEN AttemptFailed ELSE pc' = "recorded"
    /\ UNCHANGED <<fit, released, correlating, polls, stop_sent, link, node, data, adders,
                   clock, faults, lost>>
-----------------------------------------------------------------------------
\* correlate_bg; the exception of a worker ends the thread and nothing else.
BgRead ==
    /\ bg.step = "run" /\ bg' = [bg EXCEPT !.step = "add", !.seen = hist]
    /\ lost' = (lost \/ tail.step = "add")
    /\ UNCHANGED <<main, link, node, data, hist, tail, clock, faults>>

BgWrite ==
    /\ bg.step = "add" /\ hist' = bg.seen \cup bg.batch /\ bg' = Idle
    /\ correlating' = FALSE
    /\ UNCHANGED <<pc, attempt, fit, released, polls, stop_sent, link, node, data, tail, clock,
                   faults, lost>>

BgFails ==
    /\ bg.step = "run" /\ faults < Faults /\ faults' = faults + 1
    /\ bg' = Idle /\ correlating' = FALSE /\ lost' = TRUE
    /\ UNCHANGED <<pc, attempt, fit, released, polls, stop_sent, link, node, data, hist, tail,
                   clock>>

\* The nodes.  Before the graph is started only the markers of what a node
\* streams are of use.
Stream(n) ==
    /\ Streaming(n)
    /\ \/ /\ pc = "calibrate" /\ dwell' = [dwell EXCEPT ![n] = @ \cup {attempt}]
          /\ UNCHANGED sent
       \/ /\ pc # "calibrate" /\ sent[n] < Units /\ sent' = [sent EXCEPT ![n] = @ + 1]
          /\ dwell' = [dwell EXCEPT ![n] = @ \cup {attempt}]
    /\ UNCHANGED <<main, link, acq, got, adders, clock, faults, lost>>

\* The accept thread parses a chunk into the queues, the graph drains them.
Deliver(n) ==
    /\ got[n] < sent[n] /\ got' = [got EXCEPT ![n] = @ + 1]
    /\ UNCHANGED <<main, link, node, dwell, adders, clock, faults, lost>>

\* A stopped node sends the rest of its files, then "done".
NodeDone(n) ==
    /\ acq[n] = "stopping" /\ acq' = [acq EXCEPT ![n] = "done"]
    /\ status' = [status EXCEPT ![n] = "done"]
    /\ UNCHANGED <<main, session_active, error, sent, data, adders, clock, faults, lost>>

NodeError(n) ==
    /\ Streaming(n) /\ faults < Faults /\ faults' = faults + 1
    /\ acq' = [acq EXCEPT ![n] = "failed"] /\ status' = [status EXCEPT ![n] = "error"]
    /\ UNCHANGED <<main, session_active, error, sent, data, adders, clock, lost>>

\* node.py or its machine goes: no status will ever come.
NodeDies(n) ==
    /\ Streaming(n) /\ faults < Faults /\ faults' = faults + 1
    /\ acq' = [acq EXCEPT ![n] = "dead"]
    /\ UNCHANGED <<main, link, sent, data, adders, clock, lost>>

\* _on_status
OnStatus(n) ==
    /\ status[n] # "none" /\ status' = [status EXCEPT ![n] = "none"]
    /\ session_active' = [session_active EXCEPT ![n] = @ /\ ~Ends(status[n])]
    /\ error' = [error EXCEPT ![n] = @ \/ Fails(status[n])]
    /\ UNCHANGED <<main, node, data, adders, clock, faults, lost>>

\* The exposure clock, then the 180 s after STOP.
Elapse ==
    /\ pc = "poll"
    /\ \/ clock = "run" /\ clock' = "due"
       \/ clock = "due" /\ stop_sent /\ clock' = "late"
    /\ UNCHANGED <<main, link, node, data, adders, faults, lost>>

Main ==
    \/ BringUp \/ BringUpFails \/ Start
    \/ Poll \/ StallAbort \/ SoftStop \/ SoftStopFails \/ GiveUp
    \/ Calibrate("dwell") \/ Calibrate("timeout")
    \/ SessionsOver \/ TailPoll \/ TailRead \/ TailWrite \/ TailFails \/ Finish
Background == BgRead \/ BgWrite \/ BgFails
Node(n) == Stream(n) \/ NodeDone(n) \/ NodeError(n) \/ NodeDies(n)
Receiver(n) == Deliver(n) \/ OnStatus(n)

Next == Main \/ Background \/ Elapse \/ \E n \in Nodes : Node(n) \/ Receiver(n)

\* The threads of the program run and time passes; nothing is asked of the
\* nodes, except that what they have sent arrives.
Fairness ==
    /\ WF_vars(Main) /\ WF_vars(Background) /\ WF_vars(Elapse)
    /\ \A n \in Nodes : WF_vars(Deliver(n)) /\ WF_vars(OnStatus(n))

Spec == Init /\ [][Next]_vars /\ Fairness
-----------------------------------------------------------------------------
Acqs == {"off", "on", "stopping", "done", "failed", "refused", "dead"}
Adders == [step : {"none", "run", "add"}, batch : SUBSET (1 .. Units), seen : SUBSET (1 .. Units)]

TypeOK ==
    /\ pc \in {"reset", "start", "calibrate", "poll", "tail", "recorded", "gave_up"}
    /\ attempt \in 0 .. Attempts /\ polls \in 0 .. 3 /\ faults \in 0 .. Faults
    /\ session_active \in [Nodes -> BOOLEAN] /\ error \in [Nodes -> BOOLEAN]
    /\ acq \in [Nodes -> Acqs] /\ status \in [Nodes -> {"none", "done", "error", "busy"}]
    /\ dwell \in [Nodes -> SUBSET (1 .. Attempts)]
    /\ fit \in [by : {"none", "dwell", "timeout"}, of : SUBSET (1 .. Attempts)]
    /\ sent \in [Nodes -> 0 .. Units] /\ got \in [Nodes -> 0 .. Units]
    /\ released \in 0 .. Units /\ hist \subseteq 1 .. Units
    /\ bg \in Adders /\ tail \in Adders /\ clock \in {"run", "due", "late"}
    /\ {correlating, stop_sent, lost} \subseteq BOOLEAN

\* run_round, nodes.py:485 (flush_dwell): the markers an offset is fitted on
\* are those of the attempt it is used in, whatever the attempts before left.
CalibratedOnOwnSession == fit.of \subseteq {attempt} \/ pc \in {"reset", "start", "gave_up"}

\* _on_status: the flag the poll loop waits on is up only for a session that
\* is still going, one whose last word is on its way, or a node that died.
FlagMeansSession ==
    pc \in {"calibrate", "poll"} =>
        \A n \in Nodes : session_active[n] =>
            Streaming(n) \/ acq[n] = "dead" \/ status[n] # "none"

\* run_round: in a round that is recorded before the 180 s run out, every unit
\* both nodes streamed is in the histograms once, those still on their way
\* when the sessions ended included -- unless an exception of a worker was
\* swallowed or the two threads added at the same time.
EverythingCounted ==
    pc = "recorded" /\ clock # "late" /\ ~lost => hist = 1 .. Complete(sent)

\* run_round and main: a round recorded before the 180 s run out is one that
\* both nodes finished.
RecordedMeansDone ==
    pc = "recorded" /\ clock # "late" => \A n \in Nodes : acq[n] = "done"

\* run_round: a round recorded before the 180 s run out was calibrated on
\* markers of its own session, both nodes finished it, and every unit they
\* streamed is in the histograms (see EverythingCounted for the exceptions).
RoundSound ==
    /\ TypeOK /\ CalibratedOnOwnSession /\ FlagMeansSession
    /\ EverythingCounted /\ RecordedMeansDone

\* main: whatever the nodes do, the attempts at a round come to an end; a
\* node that dies in silence is met by the stall or by the 180 s.
Decided == pc \in {"recorded", "gave_up"}
Decides == <>Decided
=============================================================================
