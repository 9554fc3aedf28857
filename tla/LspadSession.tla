----------------------------- MODULE LspadSession -----------------------------
(***************************************************************************)
(* A node's dialogue with lSPAD's command server: the handshake of a       *)
(* T-mode acquisition and the search for its Run folder, the rows of an    *)
(* intensity measurement (node_backend.py), and the clearing of old Run    *)
(* folders when node.py starts.  lSPAD answers the commands in order, but  *)
(* late: the node takes what has come when its input is quiet.  Both may   *)
(* be restarted, lSPAD also without the node; its Run numbers start again. *)
(***************************************************************************)
EXTENDS Integers, Sequences, FiniteSets, FiniteSetsExt

CONSTANTS ROWS,          \* INTENSITY_ROWS
          MaxSessions,   \* bound: acquisitions and measurements
          MaxRestarts,   \* bound: restarts of lSPAD
          MaxFaults,     \* bound: time limits that pass, folders that stay, sessions that break
          Pauses         \* whether lSPAD may fall silent inside the last row

LspadSessionAssumption ==
    /\ ROWS \in Nat \ {0} /\ {MaxSessions, MaxRestarts, MaxFaults} \subseteq Nat
    /\ Pauses \in BOOLEAN

VARIABLES cmds,      \* the commands lSPAD has not answered, STOP, D, Tv and Tc (the code's
                     \* "T,v" and "T,c"), T and I: [cmd, of: the session]
          wire,      \* what lSPAD has sent and the node not read
          stream,    \* lSPAD streams to every client: somebody's acquisition was not stopped
          tdc,       \* whether the TDC calibration is valid
          counter,   \* lSPAD's Run counter
          dirs,      \* [Run number -> the session whose data it holds, 0 if there is none]
          rows_out,  \* rows of the current reply that lSPAD has sent
          session, kind, step,
          before,    \* the listing taken before T,
          run_dir,   \* the folder that was found, -1 if none
          rows, buf, \* the rows read, the line that has no end yet ("no": there is none)
          sent,      \* the rows sent to the master as the measurement, <<>> if none
          begun_ok,  \* ghost: every acquisition began with a valid calibration
          unclean,   \* ghost: lSPAD started over while old folders were there
          restarts, faults

lspad == <<cmds, stream, tdc, counter, rows_out>>
node == <<session, kind, step, before, run_dir, rows, buf, sent>>
ghosts == <<begun_ok, unclean>>
vars == <<lspad, wire, dirs, node, ghosts, restarts, faults>>

Fault == faults < MaxFaults /\ faults' = faults + 1
Runs == 0 .. MaxSessions
Listing == {r \in Runs : dirs[r] # 0}
Ask(c) == cmds' = Append(cmds, [cmd |-> c, of |-> session'])
-----------------------------------------------------------------------------
\* A mutant of a definition below.
SnapshotAtOnce == before

\* _INTENSITY_ROW_RE: a data row; the answer to STOP is none.
IsRow(x) == x \in {"row", "half", "last"}
MoreRows == Len(rows) < ROWS

\* `buf += chunk`: the line that has no end yet
Joined(x) == IF x = "rest" THEN "last" ELSE IF x \in {"half", "last"} THEN x ELSE buf

\* `d_reply_text != TMODE_SAVE_DIR`: the echo and nothing else.
EchoOnly(reply) == reply = <<"echo">>

\* is_text_reply: nothing at all is no text either.
IsText(reply) == reply # <<>> /\ \A i \in DOMAIN reply : reply[i] # "bin"

\* The snapshot of TMODE_RUN_ROOT is taken when the handshake is over.
Snapshot == Listing

\* find_tmode_run_dir: the first of the folders that are new.
NewDir(S) == Min(S)

\* clear_stale_tmode_run_dirs: every folder, except one that is in use.
Cleared(stuck) == [r \in Runs |-> IF r \in stuck THEN dirs[r] ELSE 0]
-----------------------------------------------------------------------------
Init ==
    /\ cmds = <<>> /\ wire = <<>> /\ stream \in BOOLEAN /\ tdc \in BOOLEAN
    /\ counter = 0 /\ dirs = [r \in Runs |-> 0] /\ rows_out = 0
    /\ session = 0 /\ kind = "T" /\ step = "idle" /\ before = {} /\ run_dir = -1
    /\ rows = <<>> /\ buf = "no" /\ sent = <<>>
    /\ begun_ok = TRUE /\ unclean = FALSE /\ restarts = 0 /\ faults = 0

\* ---------------------------------------------------------- lSPAD (external)
Pop == cmds' = Tail(cmds)
Reply(x) == wire' = IF Head(cmds).of = session /\ step # "idle" THEN Append(wire, x) ELSE wire
Asked(c) == cmds # <<>> /\ Head(cmds).cmd = c

LspadStops ==
    /\ Asked("STOP") /\ Pop /\ stream' = FALSE /\ Reply("stopped")
    /\ UNCHANGED <<tdc, counter, dirs, rows_out, node, ghosts, restarts, faults>>

LspadAnswers ==
    /\ \/ Asked("D") /\ Reply("echo") /\ UNCHANGED tdc
       \/ Asked("Tv") /\ Reply(IF tdc THEN "valid" ELSE "invalid") /\ UNCHANGED tdc
       \/ Asked("Tc") /\ Reply("completed") /\ tdc' = TRUE
    /\ Pop /\ UNCHANGED <<stream, counter, dirs, rows_out, node, ghosts, restarts, faults>>

\* A Run folder of the next number; one that is there already is written over.
LspadBegins ==
    /\ Asked("T") /\ Pop /\ dirs' = [dirs EXCEPT ![counter] = Head(cmds).of]
    /\ counter' = counter + 1 /\ begun_ok' = (begun_ok /\ tdc)
    /\ UNCHANGED <<stream, tdc, rows_out, wire, node, unclean, restarts, faults>>

\* The rows of an intensity reply; the last has no newline, and may come in
\* two pieces.
LspadRow ==
    /\ Asked("I") /\ rows_out < ROWS - 1 /\ rows_out' = rows_out + 1 /\ Reply("row")
    /\ UNCHANGED <<cmds, stream, tdc, counter, dirs, node, ghosts, restarts, faults>>

LspadLastRow ==
    /\ Asked("I") /\ rows_out = ROWS - 1
    /\ \/ Reply("half") /\ rows_out' = ROWS /\ UNCHANGED cmds
       \/ Reply("last") /\ rows_out' = 0 /\ Pop
    /\ UNCHANGED <<stream, tdc, counter, dirs, node, ghosts, restarts, faults>>

LspadRestOfRow ==
    /\ Asked("I") /\ rows_out = ROWS /\ Reply("rest") /\ rows_out' = 0 /\ Pop
    /\ UNCHANGED <<stream, tdc, counter, dirs, node, ghosts, restarts, faults>>

LspadStreams ==
    /\ stream /\ step # "idle" /\ Len(wire) < 2 /\ wire' = Append(wire, "bin")
    /\ UNCHANGED <<lspad, dirs, node, ghosts, restarts, faults>>

\* ------------------------------------------------------------- the node -----
At(k, s) == kind = k /\ step = s
Goto(s) == step' = s

\* run, run_intensity: KEY_SETUP, then STOP on a new connection to lSPAD.
Begin(k) ==
    /\ step = "idle" /\ session < MaxSessions /\ session' = session + 1 /\ kind' = k
    /\ sent' = <<>> /\ Ask("STOP") /\ Goto("stop") /\ wire' = <<>>
    /\ rows' = <<>> /\ buf' = "no" /\ run_dir' = -1 /\ before' = Listing
    /\ UNCHANGED <<stream, tdc, counter, rows_out, dirs, ghosts, restarts, faults>>

\* drain_lspad: everything until it is quiet, or until the cap.
Drained(s, c) == wire' = <<>> /\ Goto(s) /\ UNCHANGED session /\ Ask(c)

AfterStop ==
    /\ step = "stop" /\ IF kind = "T" THEN Drained("dir", "D") ELSE Drained("rows", "I")
    /\ UNCHANGED <<stream, tdc, counter, rows_out, dirs, kind, before, run_dir, rows, buf, sent,
                   ghosts, restarts, faults>>

AfterDir ==
    /\ At("T", "dir") /\ EchoOnly(wire) /\ Drained("tdc", "Tv")
    /\ UNCHANGED <<stream, tdc, counter, rows_out, dirs, kind, before, run_dir, rows, buf, sent,
                   ghosts, restarts, faults>>

\* An invalid calibration is renewed first; silence counts as a stream.
AfterTdc ==
    /\ At("T", "tdc") /\ IsText(wire)
    /\ wire' = <<>> /\ UNCHANGED session
    /\ IF wire = <<"invalid">> THEN Goto("cal") /\ Ask("Tc") /\ UNCHANGED before
       ELSE Goto("find") /\ before' = Snapshot /\ Ask("T")
    /\ UNCHANGED <<stream, tdc, counter, rows_out, dirs, kind, run_dir, rows, buf, sent, ghosts,
                   restarts, faults>>

AfterCalibration ==
    /\ At("T", "cal") /\ Drained("find", "T") /\ before' = Snapshot
    /\ UNCHANGED <<stream, tdc, counter, rows_out, dirs, kind, run_dir, rows, buf, sent, ghosts,
                   restarts, faults>>

Find ==
    /\ At("T", "find") /\ Listing \ before # {}
    /\ run_dir' = NewDir(Listing \ before) /\ Goto("run")
    /\ UNCHANGED <<lspad, wire, dirs, session, kind, before, rows, buf, sent, ghosts, restarts,
                   faults>>

\* A clean finish removes the folder, if that works.
RunEnds ==
    /\ At("T", "run")
    /\ \/ dirs' = [dirs EXCEPT ![run_dir] = 0] /\ UNCHANGED faults
       \/ Fault /\ UNCHANGED dirs
    /\ Goto("idle")
    /\ UNCHANGED <<lspad, wire, session, kind, before, run_dir, rows, buf, sent, ghosts,
                   restarts>>

\* One recv of the intensity reply; a line that is no row is put aside.
ReadRow ==
    /\ At("I", "rows") /\ MoreRows /\ wire # <<>> /\ Head(wire) # "bin"
    /\ wire' = Tail(wire)
    /\ LET x == Head(wire)
       IN  /\ rows' = IF x \notin {"half", "last", "rest"} /\ IsRow(x) THEN Append(rows, x)
                      ELSE rows
           /\ buf' = Joined(x)
    /\ UNCHANGED <<lspad, dirs, session, kind, step, before, run_dir, sent, ghosts, restarts,
                   faults>>

\* tail_pending and INTENSITY_TAIL_QUIET_S of silence: what is there is the
\* last row.
TailQuiet ==
    /\ At("I", "rows") /\ Len(rows) = ROWS - 1 /\ IsRow(buf) /\ wire = <<>>
    /\ Pauses \/ buf = "last"
    /\ rows' = Append(rows, buf) /\ buf' = "no"
    /\ UNCHANGED <<lspad, wire, dirs, session, kind, step, before, run_dir, sent, ghosts, restarts,
                   faults>>

RowsEnd ==
    /\ At("I", "rows") /\ ~MoreRows /\ Goto("idle")
    /\ sent' = rows
    /\ UNCHANGED <<lspad, wire, dirs, session, kind, before, run_dir, rows, buf, ghosts, restarts,
                   faults>>

\* Every check that raises, every wait that has its limit, a broken
\* connection: the folder stays for whoever wants to look at it.
SessionFails ==
    /\ \/ At("T", "dir") /\ ~EchoOnly(wire) /\ UNCHANGED faults
       \/ At("T", "tdc") /\ ~IsText(wire) /\ UNCHANGED faults
       \/ At("I", "rows") /\ wire # <<>> /\ Head(wire) = "bin" /\ UNCHANGED faults
       \/ step \in {"find", "run", "rows"} /\ Fault
    /\ Goto("idle")
    /\ UNCHANGED <<lspad, wire, dirs, session, kind, before, run_dir, rows, buf, sent, ghosts,
                   restarts>>

\* ------------------------------------------------------------- restarts -----
\* lSPAD is restarted; a session that was on fails at its next read.
LspadRestarts ==
    /\ restarts < MaxRestarts /\ restarts' = restarts + 1
    /\ cmds' = <<>> /\ wire' = <<>> /\ stream' = FALSE /\ tdc' \in BOOLEAN
    /\ counter' = 0 /\ rows_out' = 0 /\ unclean' = (Listing # {} \/ unclean)
    /\ Goto("idle")
    /\ UNCHANGED <<dirs, session, kind, before, run_dir, rows, buf, sent, begun_ok, faults>>

\* A launch: node.py is killed, started again, and clears the old folders.
NodeRestarts ==
    /\ \E stuck \in SUBSET Listing :
         /\ IF stuck = {} THEN UNCHANGED faults ELSE Fault
         /\ dirs' = Cleared(stuck) /\ unclean' = (stuck # {})
    /\ step' = "idle" /\ wire' = <<>>
    /\ UNCHANGED <<lspad, session, kind, before, run_dir, rows, buf, sent, begun_ok, restarts>>

Lspad ==
    \/ LspadStops \/ LspadAnswers \/ LspadBegins \/ LspadRow \/ LspadLastRow \/ LspadRestOfRow
Node ==
    \/ AfterStop \/ AfterDir \/ AfterTdc \/ AfterCalibration \/ Find \/ RunEnds
    \/ ReadRow \/ TailQuiet \/ RowsEnd \/ SessionFails

Next ==
    \/ Lspad \/ LspadStreams \/ Node \/ LspadRestarts \/ NodeRestarts
    \/ \E k \in {"T", "I"} : Begin(k)

Spec == Init /\ [][Next]_vars
-----------------------------------------------------------------------------
TypeOK ==
    /\ step \in {"idle", "stop", "dir", "tdc", "cal", "find", "run", "rows"}
    /\ session \in 0 .. MaxSessions /\ kind \in {"T", "I"} /\ run_dir \in Runs \cup {-1}
    /\ counter \in Runs /\ dirs \in [Runs -> 0 .. MaxSessions] /\ before \subseteq Runs
    /\ {stream, tdc, begun_ok, unclean} \subseteq BOOLEAN /\ rows_out \in 0 .. ROWS
    /\ Len(rows) \in 0 .. ROWS /\ buf \in {"no", "half", "last"}
    /\ restarts \in 0 .. MaxRestarts /\ faults \in 0 .. MaxFaults

\* find_tmode_run_dir: the folder a session reads is the one lSPAD writes for
\* it, whatever earlier sessions left behind or had asked for.
OwnRunDir == At("T", "run") => dirs[run_dir] = session

\* open_lspad_tmode_stream: no acquisition begins with an invalid calibration,
\* late as the answers may be.
BegunCalibrated == begun_ok

\* run_intensity: what is sent as a measurement is the whole of it, not the
\* answer to the STOP before it and not a part of its rows.
WholeReply ==
    sent # <<>> => sent = [i \in 1 .. ROWS |-> IF i = ROWS THEN "last" ELSE "row"]

\* clear_stale_tmode_run_dirs: after a node.py start that cleared them all, a
\* session never waits in vain for a folder whose name was there before.
NotWedged ==
    At("T", "find") /\ ~unclean => \A r \in before : dirs[r] # session
=============================================================================
