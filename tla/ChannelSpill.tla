---------------------------- MODULE ChannelSpill ----------------------------
(***************************************************************************)
(* ChannelGraph of correlate_engine.py with its disk tail (spill_dir set). *)
(* A channel blocked on a lagging partner moves its oldest excess to a new *)
(* spill file; a file comes back when the partners have passed it.  Here   *)
(* the order of the events in `arr` and of the files matters, so a buffer  *)
(* is a record of sequences and searchsorted is the bisection it is, also  *)
(* on an array that is no longer sorted.  The hook queue, start() and      *)
(* stop() are in ChannelGraph: a behaviour here is one session.            *)
(***************************************************************************)
EXTENDS StallDetection, SequencesExt, FiniteSetsExt

VARIABLES buf,                \* [channel -> [files, arr, pending]]
          released,           \* history: [node-1 pixel -> events handed over]
          drained,          \* history: [channel -> all events drained]
          tallied,            \* history: [pair -> coincidences handed over]
          inOrder             \* history: no buffer has ever been out of order

spillvars == <<last_ts, quiet, since_start, buf, exclusion_history, released,
          drained, tallied, inOrder>>

EmptyBuf == [files |-> <<>>, arr |-> <<>>, pending |-> <<>>]
-----------------------------------------------------------------------------
\* searchsorted(s, x): with `right`, equal elements are stepped over too.
Bisect(s, x, right) ==
    LET f[r \in (0 .. Len(s)) \X (0 .. Len(s))] ==     \* r: <<lo, hi>>
            LET mid == (r[1] + r[2]) \div 2
            IN  IF r[1] >= r[2] THEN r[1]
                ELSE IF s[mid + 1] < x \/ (right /\ s[mid + 1] = x)
                     THEN f[<<mid + 1, r[2]>>] ELSE f[<<r[1], mid>>]
    IN  f[<<0, Len(s)>>]

Drop(s, n) == SubSeq(s, n + 1, Len(s))

InRam(b) == Len(b.arr) + Len(b.pending)          \* nbytes, in events

Merge(b) == [b EXCEPT !.arr = @ \o b.pending, !.pending = <<>>]

\* spill(cut) of a merged buffer: its oldest events become the newest file.
Spill(b, cut) ==
    [b EXCEPT !.files = Append(@, SubSeq(b.arr, 1, cut)), !.arr = Drop(@, cut)]

\* A mutant of the next definition: the files are not deleted.
ReloadKeepsFiles(b, k) ==
    IF k = 0 THEN b ELSE [b EXCEPT !.arr = FlattenSeq(SubSeq(b.files, 1, k)) \o @]

\* reload_up_to taking the k oldest files: they are joined in file order and
\* inserted in arr where its first event belongs.
Reload(b, k) ==
    IF k = 0 THEN b
    ELSE LET combined == FlattenSeq(SubSeq(b.files, 1, k))
             at == Bisect(b.arr, combined[1], FALSE)
         IN  [b EXCEPT !.files = Drop(@, k),
                       !.arr = SubSeq(@, 1, at) \o combined \o Drop(@, at)]

\* The files reload_up_to(limit) takes: a prefix, each ending by the limit.
FilesUpTo(b, limit) ==
    Max({k \in 0 .. Len(b.files) : \A i \in 1 .. k : Last(b.files[i]) =< limit})

\* ... and reload_up_to(inf, max_bytes): at least one, none once Chunk is taken.
FilesOfChunk(b) ==
    Max({k \in 0 .. Len(b.files) :
            \A i \in 2 .. k : Len(FlattenSeq(SubSeq(b.files, 1, i - 1))) < Chunk})

\* The events of a buffer, oldest file first, and what spill_files promises.
Contents(b) == FlattenSeq(b.files) \o b.arr \o b.pending
Chronological(b) ==
    LET s == Contents(b) IN \A i \in 1 .. Len(s) - 1 : s[i] =< s[i + 1]

Discard(b) == [b EXCEPT !.files = <<>>]           \* discard_spill

earliest(b) ==
    CASE b.files # <<>> -> b.files[1][1]
      [] b.files = <<>> /\ b.arr # <<>> -> b.arr[1]
      [] b.files = <<>> /\ b.arr = <<>> /\ b.pending # <<>> -> b.pending[1]
      [] OTHER -> None

next_needed(c, b) == IF earliest(b) # None THEN earliest(b) ELSE last_ts[c]
-----------------------------------------------------------------------------
\* _cut_limit_for(p1), for a p1 with a live partner that has delivered.
Limit(p1) == Min({last_ts[p2] - Tmax : p2 \in LivePartners1(p1)})
AllDead1(p1) == LivePartners1(p1) = {}
Blocked(p1) == \E p2 \in LivePartners1(p1) : last_ts[p2] = None

\* _reload_ready_spills for one node-1 channel.
ReloadReady(p1, b) ==
    CASE AllDead1(p1) -> Reload(b, FilesOfChunk(b))
      [] ~AllDead1(p1) /\ ~Blocked(p1) -> Reload(b, FilesUpTo(b, Limit(p1)))
      [] OTHER -> b

\* _would_release, for the buffers B.
WouldReleaseOf(B) ==
    \E p1 \in Px1 :
        /\ earliest(B[p1]) # None
        /\ WithinLimit(p1, earliest(B[p1]))

\* _cut_for of the merged buffer b.
CutFor(p1, b) ==
    CASE AllDead1(p1) -> IF Len(b.arr) < Chunk THEN Len(b.arr) ELSE Chunk
      [] ~AllDead1(p1) /\ ~Blocked(p1) -> Bisect(b.arr, Limit(p1), TRUE)
      [] OTHER -> 0

\* _keep_for of the node-2 buffer b, the node-1 buffers being B.
KeepFor(p2, b, B) ==
    LET needed == {next_needed(p1, B[p1]) : p1 \in LivePartners2(p2)}
    IN  CASE needed = {} -> Len(b.arr)
          [] needed # {} /\ None \in needed -> 0
          [] OTHER -> Bisect(b.arr, Min(needed) - Tmax, FALSE)

\* A mutant of the next definition: one event too many stays in RAM.
SpillOverflowLate(c, b) ==
    LET partners == IF c \in Px1 THEN partners1(c) ELSE partners2(c)
    IN  IF InRam(b) > Chunk + 1 /\ partners \cap LaggingNow # {}
        THEN Spill(Merge(b), InRam(b) - Chunk) ELSE b

\* _spill_overflow for one channel: only while a partner of it is lagging.
SpillOverflow(c, b) ==
    LET partners == IF c \in Px1 THEN partners1(c) ELSE partners2(c)
    IN  IF InRam(b) > Chunk /\ partners \cap LaggingNow # {}
        THEN Spill(Merge(b), InRam(b) - Chunk) ELSE b
-----------------------------------------------------------------------------
SpillEmpty ==
    /\ buf = [c \in Channels |-> EmptyBuf]
    /\ exclusion_history = {}
    /\ released = [p1 \in Px1 |-> {}]
    /\ drained = [c \in Channels |-> {}]
    /\ tallied = [p \in Pairs |-> {}]
    /\ inOrder = TRUE

\* A behaviour begins as start() leaves the graph.
SpillInit ==
    /\ last_ts = [c \in Channels |-> None] /\ quiet = [c \in Channels |-> 0] /\ since_start = 0
    /\ SpillEmpty

\* The wall clock moves on.
SpillTick ==
    /\ StallTick
    /\ UNCHANGED <<buf, exclusion_history, released, drained, tallied, inOrder>>

\* A poll drains the next chunk of channel c.
Drain(c) ==
    \E t \in Photons[c] :
        /\ NextPhoton(c, drained[c], t)
        /\ StallDrained([d \in Channels |-> IF d = c THEN {t} ELSE {}])
        /\ buf' = [buf EXCEPT ![c].pending = Append(@, t)]
        /\ drained' = [drained EXCEPT ![c] = @ \cup {t}]
        /\ UNCHANGED <<exclusion_history, released, tallied, inOrder>>

\* release(), by its stages.  Each stage is a function of the channels.
\* _reload_ready_spills, then merge() if something is going to be released.
Reloaded == [c \in Channels |-> IF c \in Px1 THEN ReloadReady(c, buf[c]) ELSE buf[c]]
Merged(B) == IF WouldReleaseOf(B) THEN [c \in Channels |-> Merge(B[c])] ELSE B

\* How many events of each node-1 channel are handed over.
Cuts(B, would) == [p1 \in Px1 |-> IF would THEN CutFor(p1, B[p1]) ELSE 0]

\* Mutants of the next definition: the files of a reload are deleted, their
\* entries are not; the kernel sees what is in RAM only.
SnapshotLeavesEntries(B, cut) == [p2 \in Px2 |->
    IF \E p1 \in partners2(p2) : cut[p1] # 0
    THEN [Reload(B[p2], Len(B[p2].files)) EXCEPT !.files = [i \in DOMAIN B[p2].files |-> <<>>]]
    ELSE B[p2]]
SnapshotRamOnly(B, cut) == [p2 \in Px2 |->
    IF LivePartners2(p2) = {} THEN Discard(B[p2]) ELSE B[p2]]

\* t2_now: the node-2 buffers the kernel sees.  Spilled events are thrown away
\* when every partner is dead, and come back when a partner releases.
Snapshot(B, cut) == [p2 \in Px2 |->
    CASE LivePartners2(p2) = {} -> Discard(B[p2])
      [] LivePartners2(p2) # {} /\ (\E p1 \in partners2(p2) : cut[p1] # 0)
         -> Reload(B[p2], Len(B[p2].files))
      [] OTHER -> B[p2]]

\* The buffers after the cuts, with the node-2 ones trimmed.
Trimmed(B, cut, t2_now) ==
    LET rest == [c \in Channels |->
                   IF c \in Px1 THEN [B[c] EXCEPT !.arr = Drop(@, cut[c])] ELSE B[c]]
    IN  [c \in Channels |->
           IF c \in Px1 THEN rest[c]
           ELSE [t2_now[c] EXCEPT !.arr = Drop(@, KeepFor(c, t2_now[c], rest))]]

\* release(): reload, decide, cut node 1, reload or discard and trim node 2,
\* spill.  (A quantifier over a singleton set names the value of a stage.)
SpillRelease ==
    /\ exclusion_history' = exclusion_history \cup DeadNow
    /\ UNCHANGED <<last_ts, quiet, since_start, drained>>
    /\ \E ready \in {Reloaded} : \E B \in {Merged(ready)} :
       \E cut \in {Cuts(B, WouldReleaseOf(ready))} :
       LET out == \E p1 \in Px1 : cut[p1] # 0
           batch_of(p1) == ToSet(SubSeq(B[p1].arr, 1, cut[p1]))
       IN  \E t2_now \in {IF out THEN Snapshot(B, cut) ELSE [p2 \in Px2 |-> B[p2]]} :
           \E left \in {IF out THEN Trimmed(B, cut, t2_now) ELSE B} :
               /\ buf' = [c \in Channels |-> SpillOverflow(c, left[c])]
               /\ released' = [p1 \in Px1 |-> released[p1] \cup batch_of(p1)]
               /\ tallied' = [p \in Pairs |-> tallied[p] \cup
                      Coincidences(batch_of(p[1]), ToSet(t2_now[p[2]].arr))]
               /\ inOrder' = (inOrder /\ \A c \in Channels : Chronological(buf'[c]))

SpillNext == SpillTick \/ (\E c \in Channels : Drain(c)) \/ SpillRelease

SpillSpec == SpillInit /\ [][SpillNext]_spillvars
-----------------------------------------------------------------------------
SpillTypeOK ==
    /\ \A c \in Channels :
          /\ DOMAIN buf[c] = {"files", "arr", "pending"}
          /\ \A i \in DOMAIN buf[c].files : buf[c].files[i] # <<>>
          /\ ToSet(Contents(buf[c])) \subseteq Photons[c]
          /\ last_ts[c] \in Photons[c] \cup {None} /\ quiet[c] \in 0 .. AgeCap
    /\ since_start \in 0 .. AgeCap \cup {None}
    /\ exclusion_history \subseteq Channels

\* Spilling, reloading and the capped drain of a dead partner's backlog
\* neither lose nor double a node-1 event: each one drained is in the files,
\* in RAM or released, and in one place only.
Conserved ==
    \A p1 \in Px1 :
        LET rest == Contents(buf[p1])
        IN  /\ IsInjective(rest)
            /\ ToSet(rest) \cap released[p1] = {}
            /\ ToSet(rest) \cup released[p1] = drained[p1]

\* After every release a channel blocked on a lagging partner holds at most
\* the tail in RAM.  (A release is the step that neither drains nor lets time pass.)
RamCapped ==
    [][UNCHANGED <<last_ts, quiet, since_start, drained>> =>
          \A c \in Channels :
              InRam(buf'[c]) > Chunk =>
                  (IF c \in Px1 THEN partners1(c) ELSE partners2(c)) \cap LaggingNow = {}
      ]_spillvars

\* As long as the buffers have been in order, reloading before use keeps the
\* retention promise: a released event of a pair never reported dead has all
\* its coincidences counted, spilled or not.
NothingLostInOrder ==
    inOrder => \A p \in Pairs :
        p[1] \notin exclusion_history /\ p[2] \notin exclusion_history =>
            Coincidences(released[p[1]], drained[p[2]]) \subseteq tallied[p]

\* "lagging (nothing lost)": while no channel has been reported dead, a
\* released event has all its coincidences counted.
LaggingLosesNothing ==
    exclusion_history = {} =>
        \A p \in Pairs : Coincidences(released[p[1]], drained[p[2]]) \subseteq tallied[p]
=============================================================================
