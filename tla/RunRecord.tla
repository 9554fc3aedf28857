------------------------------ MODULE RunRecord ------------------------------
(***************************************************************************)
(* What a run leaves on record: run_log.py, as master.py uses it, with the *)
(* automatic stops, the chip-stall question and the lock of the write      *)
(* choice.  The event loop opens and ends the log; its own lines, and      *)
(* those of the reader and data threads, are added without a lock: a       *)
(* thread may stand between the tests of RunLog.add and the append.  A     *)
(* line is who logged it and its number; `run` is _run_id, and one run     *)
(* stands for the sessions of both nodes.                                  *)
(***************************************************************************)
EXTENDS Integers, Sequences, Functions, FiniteSets

CONSTANTS Threads,     \* reader and data threads
          MaxRuns,     \* bound: _run_id
          MaxLines     \* bound: lines after which no thread begins another

Loop == "loop"
RecordAssumption ==
    IsFiniteSet(Threads) /\ Loop \notin Threads /\ {MaxRuns, MaxLines} \subseteq Nat

VARIABLES run,
          active,      \* a panel's _session_active
          conn,        \* a panel's _data_conn
          low_disk, backlog,     \* the latches
          dialog,      \* the chip-stall question is open
          locked,      \* _write_locked_last
          gui,         \* where the event loop is in RunLog: "free" between calls
          path,        \* the run the open file is named by, 0: none
          capturing, buf,
          out,         \* the buffer finish() has taken and not yet written
          file,
          adding,      \* [thread -> in RunLog.add: "no", "buffer" or "file"]
          said,        \* ghost: the event loop's lines since the START of a run
          lines        \* how many lines there were

running == <<run, active, conn>>
latches == <<low_disk, backlog>>
log == <<path, capturing, buf, out, file>>
vars == <<running, latches, dialog, locked, gui, log, adding, said, lines>>

Runs == 1 .. MaxRuns
Written(r) == file[r] \o (IF r = path THEN out \o buf ELSE <<>>)
Said(r) == {l \in Range(Written(r)) : l.by = Loop}
-----------------------------------------------------------------------------
\* A mutant of a definition below.
NothingFlushed == [file EXCEPT ![path] = @]

\* finish: the taken buffer goes to the file.
Flushed == [file EXCEPT ![path] = @ \o out]

\* finish: buf, self._buf = self._buf, []
Emptied == <<>>

\* _start_all resets the latches.
Reset(latch) == FALSE

-----------------------------------------------------------------------------
Init ==
    /\ run = 0 /\ active = FALSE /\ conn = FALSE /\ low_disk = FALSE /\ backlog = FALSE
    /\ dialog = FALSE /\ locked = FALSE /\ gui = "free"
    /\ path = 0 /\ capturing = FALSE /\ buf = <<>> /\ out = <<>>
    /\ file = [r \in Runs |-> <<>>] /\ adding = [t \in Threads |-> "no"]
    /\ said = [r \in Runs |-> {}] /\ lines = 0

\* Where finish() was called, while the file is written.
Flushing == [open |-> "flush_open", say |-> "flush_say", free |-> "flush_free"]

\* finish, first half, or nothing to flush: `then` comes after it.
Finish(then) ==
    /\ capturing' = FALSE
    /\ IF path # 0 /\ capturing
       THEN out' = buf /\ buf' = Emptied /\ gui' = Flushing[then]
       ELSE UNCHANGED <<out, buf>> /\ gui' = then

\* finish, second half: a failed write loses the lines (RunLog.errors).
Flush(then) ==
    /\ gui = Flushing[then] /\ gui' = then /\ file' = Flushed /\ out' = <<>>
    /\ UNCHANGED <<running, latches, dialog, locked, path, capturing, buf, adding, said, lines>>

\* RunLog.add, of the event loop
Says ==
    LET line == [by |-> Loop, n |-> lines + 1]
    IN  /\ lines' = lines + 1
        /\ buf' = IF path # 0 /\ capturing THEN Append(buf, line) ELSE buf
        /\ file' = IF path # 0 /\ ~capturing THEN [file EXCEPT ![path] = Append(@, line)] ELSE file
        /\ said' = IF path # 0 THEN [said EXCEPT ![path] = @ \cup {line}] ELSE said
        /\ UNCHANGED <<path, capturing, out>>

\* _start_all, up to RunLog.start
Start ==
    /\ gui = "free" /\ ~dialog /\ ~active /\ run < MaxRuns
    /\ active' = TRUE /\ run' = run + 1 /\ UNCHANGED conn
    /\ low_disk' = Reset(low_disk) /\ backlog' = Reset(backlog) /\ Finish("open")
    /\ UNCHANGED <<dialog, locked, path, file, adding, said, lines>>

\* RunLog.start creates the file of the run, or not: then no line is kept.
Open ==
    /\ gui = "open" /\ gui' = "lock" /\ buf' = <<>>
    /\ \/ path' = run /\ capturing' = TRUE
       \/ path' = 0 /\ capturing' = FALSE
    /\ UNCHANGED <<running, latches, dialog, locked, out, file, adding, said, lines>>

Committed == active \/ conn

\* _refresh_write_mode_lock, of START and of the health check
RefreshLock ==
    /\ gui = "lock" \/ (gui = "free" /\ locked # Committed)
    /\ gui' = "free" /\ locked' = Committed
    /\ IF locked' # locked THEN Says ELSE UNCHANGED <<log, said, lines>>
    /\ UNCHANGED <<running, latches, dialog, adding>>

\* _end_run
EndRun ==
    /\ gui = "free" /\ run < MaxRuns /\ run' = run + 1 /\ Finish("say")
    /\ UNCHANGED <<active, conn, locked, path, file, adding, said, lines>>

Stop == ~dialog /\ EndRun /\ UNCHANGED <<latches, dialog>>

SayStopped ==
    /\ gui = "say" /\ gui' = "free" /\ Says
    /\ UNCHANGED <<running, latches, dialog, locked, adding>>

\* _schedule_progress: the integration is over.
IntegrationOver ==
    /\ gui = "free" /\ capturing /\ Finish("free")
    /\ UNCHANGED <<running, latches, dialog, locked, path, file, adding, said, lines>>

StopAtLimit ==
    /\ active /\ EndRun /\ UNCHANGED dialog
    /\ \/ ~low_disk /\ low_disk' = TRUE /\ UNCHANGED backlog
       \/ ~backlog /\ backlog' = TRUE /\ UNCHANGED low_disk

\* _on_chip_stall: the other callbacks go on while the question is open.
Stall ==
    /\ gui = "free" /\ ~dialog /\ active /\ dialog' = TRUE
    /\ UNCHANGED <<running, latches, locked, gui, log, adding, said, lines>>

Answer ==
    /\ dialog /\ gui = "free" /\ dialog' = FALSE /\ UNCHANGED latches
    /\ EndRun \/ UNCHANGED <<running, locked, gui, log, adding, said, lines>>

\* The nodes: the data connection, "done", the end of the connection.
Session ==
    /\ \/ active /\ ~conn /\ conn' = TRUE /\ UNCHANGED active
       \/ active /\ active' = FALSE /\ UNCHANGED conn
       \/ ~active /\ conn /\ conn' = FALSE /\ UNCHANGED active
    /\ UNCHANGED <<run, latches, dialog, locked, gui, log, adding, said, lines>>

\* RunLog.add of a thread: the tests, then the append to what is there by then.
Add(t) ==
    /\ adding[t] = "no" /\ lines < MaxLines /\ path # 0
    /\ adding' = [adding EXCEPT ![t] = IF capturing THEN "buffer" ELSE "file"]
    /\ UNCHANGED <<running, latches, dialog, locked, gui, log, said, lines>>

Added(t) ==
    /\ adding[t] # "no" /\ adding' = [adding EXCEPT ![t] = "no"] /\ lines' = lines + 1
    /\ LET line == [by |-> t, n |-> lines']
       IN  IF adding[t] = "buffer" THEN buf' = Append(buf, line) /\ UNCHANGED file
           ELSE /\ UNCHANGED buf
                /\ file' = IF path = 0 THEN file ELSE [file EXCEPT ![path] = Append(@, line)]
    /\ UNCHANGED <<running, latches, dialog, locked, gui, path, capturing, out, said>>

EventLoop == Start \/ (\E then \in {"open", "say", "free"} : Flush(then)) \/ Open
             \/ RefreshLock \/ Stop \/ SayStopped \/ IntegrationOver \/ StopAtLimit \/ Stall
             \/ Answer

Next == EventLoop \/ Session \/ \E t \in Threads : Add(t) \/ Added(t)
Spec == Init /\ [][Next]_vars
-----------------------------------------------------------------------------
Lines == Seq([by : Threads \cup {Loop}, n : 1 .. lines])

TypeOK ==
    /\ run \in 0 .. MaxRuns /\ path \in 0 .. run
    /\ {active, conn, low_disk, backlog, dialog, locked, capturing} \subseteq BOOLEAN
    /\ gui \in {"free", "open", "lock", "say"}
               \cup {Flushing[s] : s \in DOMAIN Flushing}
    /\ {buf, out} \subseteq Lines /\ \A r \in Runs : file[r] \in Lines
    /\ \A t \in Threads : adding[t] \in {"no", "buffer", "file"}
    /\ out # <<>> => gui \notin {"free", "open", "lock", "say"}
    /\ ~capturing => \A i \in DOMAIN buf : buf[i].by # Loop

\* RunLog and _start_all: whatever the threads add meanwhile, the log of a run
\* has every line the event loop logs from its START, in order.
RunLogWhole ==
    \A r \in Runs :
        /\ Said(r) = said[r]
        /\ \A i, j \in DOMAIN Written(r) :
              i < j /\ {Written(r)[i], Written(r)[j]} \subseteq said[r]
              => Written(r)[i].n < Written(r)[j].n

\* No line is in the logs twice, or in two of them.
LoggedOnce ==
    /\ \A r \in Runs : IsInjective(Written(r))
    /\ \A r, s \in Runs : r # s => Range(Written(r)) \cap Range(Written(s)) = {}

\* _check_disk_space: a latch that is up has stopped the run of the last
\* START, or its START is not through yet: the next run is watched again.
LatchesOfThisRun == (low_disk \/ backlog) /\ gui = "free" => run # path
=============================================================================
