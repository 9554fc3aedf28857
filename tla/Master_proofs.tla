---------------------------- MODULE Master_proofs ----------------------------
(***************************************************************************)
(* The machines of the master, for every value of their constants.  Each   *)
(* has an inductive invariant (LaunchInv, ReceiveInv, SparseInv, LogInv)   *)
(* with four lemmas: it holds initially, every action keeps it, a step of  *)
(* another machine keeps it, and it implies the property of the machine.   *)
(* The theorems of MasterPrograms, at the end, put them together.          *)
(***************************************************************************)
EXTENDS MasterPrograms, FiniteSetTheorems, WellFoundedInduction, TLAPS

-----------------------------------------------------------------------------
(***************************************************************************)
(* The launch of a node.  The launches are numbered by their epochs, and   *)
(* what a thread, a refresh or a posted callback carries is of an epoch    *)
(* that was given out (Epochs).  Unless something outlived its epoch: a    *)
(* thread, a refresh, a shutdown or a post that a new Launch or an Abort   *)
(* found unfinished (ran_on), one of these has the node at a time: the     *)
(* thread that is alive, the callback that connects, the connection, the   *)
(* end of it, or a panel whose connection was lost (Held, LinkGone).       *)
(***************************************************************************)
ThreadSteps == {"off", "begin", "start", "mask", "record", "keep", "update", "node", "connect",
    "end"}
Launched(t) == thread[t].step # "off"
Posts == [what : {"launching", "connect", "idle"}, epoch : Nat]
ThreadStates == [step : ThreadSteps, epoch : Nat, mask : BOOLEAN, sent : Nat]
MaskSent == {t \in Launch!Launches : thread[t].sent # 0}

LaunchTyped ==
    /\ state \in {"idle", "launching", "ready"} /\ epoch \in Nat
    /\ creds \in BOOLEAN /\ refused \in BOOLEAN /\ ran_on \in BOOLEAN
    /\ late_refresh \in BOOLEAN /\ unkilled \subseteq Launch!Launches
    /\ masks \in Nat /\ applied \in 0 .. masks /\ hw_mask \in 0 .. masks
    /\ launch_link \in Launch!Launches \cup {Launch!NoLink}
    /\ thread \in [Launch!Launches -> ThreadStates] /\ refresh \in ThreadStates
    /\ refresh.step \in {"off", "mask", "record", "keep"}
    /\ kills \subseteq Launch!Launches \cup {Launch!User}
    /\ lspad \subseteq Launch!Launches /\ node_py \subseteq Launch!Launches
    /\ gui \in Seq(Posts) /\ faults \in Nat /\ faults <= MaxFaults

\* Launches are numbered as they come; the epoch of one that has been launched
\* is positive, and what is posted to the GUI is of one, or of none.
IsNow == \E t \in Launch!Launches : Launched(t) /\ thread[t].epoch = epoch
Numbered ==
    \E n \in 0 .. MaxLaunches :
        /\ \A t \in Launch!Launches : Launched(t) <=> t <= n
        /\ epoch <= 2 * n /\ (IsNow => epoch < 2 * n)
OwnEpochs ==
    /\ \A t \in Launch!Launches :
          thread[t].epoch <= epoch /\ (Launched(t) <=> thread[t].epoch # 0)
    /\ refresh.epoch <= epoch
    /\ state # "idle" => IsNow
OwnPosts ==
    \A i \in DOMAIN gui :
        IF gui[i].epoch = 0 THEN gui[i].what = "idle"
        ELSE \E t \in Launch!Launches : thread[t].epoch = gui[i].epoch

Epochs == Numbered /\ OwnEpochs /\ OwnPosts

\* Each launch sends one M command, and a refresh begins below its bound.
MasksCounted ==
    /\ \A t \in Launch!Launches :
          /\ thread[t].sent <= masks
          /\ thread[t].step \in {"off", "begin", "start", "mask"} => thread[t].sent = 0
    /\ refresh.sent <= masks
    /\ masks <= MaxRefresh + Cardinality(MaskSent)
    /\ refresh.step = "mask" => masks < MaxRefresh + Cardinality(MaskSent)

\* The mask the panel shows is the detector's, or of an lSPAD being killed.
Masked == applied = 0 \/ applied = hw_mask \/ late_refresh

\* While no thread has outlived its epoch: the thread of the launch, and what
\* it has posted so far.
Working ==
    \A t \in Launch!Launches : Launch!Alive(t) =>
        /\ \A u \in Launch!Launches : Launch!Alive(u) => u = t
        /\ thread[t].epoch = epoch /\ creds /\ launch_link = Launch!NoLink
        /\ refresh.step = "off" /\ kills = {}
        /\ IF thread[t].step = "begin" THEN gui = <<>> /\ state = "idle"
           ELSE \/ gui = <<>> /\ state = "launching"
                \/ gui = <<[what |-> "launching", epoch |-> epoch]>> /\ state = "idle"
        /\ thread[t].step \in {"begin", "start", "mask", "update", "node", "connect"} => Masked
        /\ thread[t].step \in {"record", "keep"} => hw_mask = thread[t].sent
        /\ thread[t].step = "node" => node_py = {}

NoneWorks == \A t \in Launch!Launches : ~Launch!Alive(t)
Connecting == gui # <<>> /\ gui[Len(gui)] = [what |-> "connect", epoch |-> epoch]

\* The thread is through, and the GUI is to connect.
ToConnect ==
    Connecting =>
        /\ NoneWorks /\ creds /\ launch_link = Launch!NoLink /\ refresh.step = "off" /\ kills = {}
        /\ Masked
        /\ \/ Len(gui) = 1 /\ state = "launching"
           \/ /\ Len(gui) = 2 /\ gui[1] = [what |-> "launching", epoch |-> epoch]
              /\ state = "idle"

\* The last thing posted is of a launch or a connection that is over.
Closing ==
    gui # <<>> /\ gui[Len(gui)].what # "launching" /\ ~Connecting =>
        /\ NoneWorks /\ launch_link = Launch!NoLink
        /\ \/ Len(gui) = 1
           \/ /\ Len(gui) = 2 /\ gui[1] = [what |-> "launching", epoch |-> epoch]
              /\ gui[2].what = "idle" /\ state = "idle" /\ refresh.step = "off"
        /\ Len(gui) = 1 /\ gui[1].what = "connect" => state = "idle"

BeganLast == gui # <<>> /\ gui[Len(gui)].what = "launching" =>
    \E t \in Launch!Launches : Launch!Alive(t)

\* The connection is there.
Connected ==
    launch_link # Launch!NoLink =>
        /\ state = "ready" /\ gui = <<>> /\ creds /\ kills = {} /\ launch_link \in node_py
        /\ NoneWorks
        /\ refresh.step \in {"off", "mask"} => Masked
        /\ refresh.step \in {"record", "keep"} => hw_mask = refresh.sent

ReadyIs ==
    /\ state = "ready" => NoneWorks /\
         (launch_link = Launch!NoLink => gui # <<>> /\ gui[1].epoch = 0)
    /\ refresh.step # "off" => NoneWorks /\ state # "launching" /\ refresh.epoch = epoch

\* The connection was lost: the panel is idle, or will be, and keeps what it knew.
LinkGone ==
    /\ kills = {} /\ NoneWorks /\ launch_link = Launch!NoLink
    /\ \/ state = "ready" /\ Len(gui) = 1 /\ gui[1].epoch = 0
       \/ state = "idle" /\ gui = <<>>
    /\ refresh.step \in {"off", "mask"} => Masked
    /\ refresh.step \in {"record", "keep"} => hw_mask = refresh.sent

\* Who holds the credentials; without them no mask is kept but by a refresh that
\* ends late, and an lSPAD runs if a shutdown is to come or did not reach it.
Held ==
    /\ creds => \/ ~NoneWorks \/ Connecting \/ launch_link # Launch!NoLink
                \/ state = "launching" /\ gui = <<>> /\ kills = {} /\ Masked
                \/ LinkGone
    /\ ~creds => (applied = 0 \/ late_refresh) /\ (lspad \subseteq unkilled \/ kills # {})
    /\ \A x, y \in node_py : x = y

Undisturbed ==
    ~ran_on => Working /\ ToConnect /\ Closing /\ BeganLast /\ Connected /\ ReadyIs /\ Held

LaunchInv == LaunchTyped /\ Epochs /\ MasksCounted /\ Undisturbed

\* What a step of the thread of a launch does to the threads.
Moves(t, s) ==
    /\ thread' \in [Launch!Launches -> ThreadStates]
    /\ \A u \in Launch!Launches :
          /\ thread'[u].epoch = thread[u].epoch /\ thread'[u].sent = thread[u].sent
          /\ thread'[u].step = (IF u = t THEN s ELSE thread[u].step)

\* What a post does to what is to be run by the GUI.
Posted(what, e) ==
    /\ gui' \in Seq(Posts) /\ Len(gui') = Len(gui) + 1 /\ gui' # <<>>
    /\ DOMAIN gui' = 1 .. Len(gui') /\ DOMAIN gui = 1 .. Len(gui)
    /\ \A i \in 1 .. Len(gui) : gui'[i] = gui[i]
    /\ gui'[Len(gui) + 1] = [what |-> what, epoch |-> e]
    /\ gui = <<>> => gui' = <<[what |-> what, epoch |-> e]>>

LEMMA MaskedKept ==
  ASSUME UNCHANGED <<applied, hw_mask, late_refresh>>
  PROVE  Masked' <=> Masked
  BY Zenon DEF Masked

LEMMA ThreadMoves ==
  ASSUME LaunchTyped, NEW t \in Launch!Launches, NEW s \in ThreadSteps, Launch!Goto(t, s)
  PROVE  Moves(t, s)
  BY DEF LaunchTyped, ThreadStates, Launch!Goto, Moves

LEMMA GuiPosted ==
  ASSUME LaunchTyped, NEW what \in {"launching", "connect", "idle"}, NEW e \in Nat,
         Launch!Post(what, e)
  PROVE  Posted(what, e)
  <1> DEFINE r == [what |-> what, epoch |-> e]
  <1>1. gui \in Seq(Posts) /\ r \in Posts /\ gui' = Append(gui, r)
    BY DEF LaunchTyped, Posts, Launch!Post
  <1>2. gui = <<>> => gui' = <<r>>
    BY <1>1
  <1> QED
    BY <1>1, <1>2 DEF Posted

LEMMA GuiIs ==
  ASSUME LaunchTyped
  PROVE  /\ DOMAIN gui = 1 .. Len(gui) /\ Len(gui) \in Nat /\ (gui = <<>> <=> Len(gui) = 0)
         /\ \A i \in 1 .. Len(gui) : gui[i].epoch \in Nat /\
              gui[i] = [what |-> gui[i].what, epoch |-> gui[i].epoch]
  <1>1. gui \in Seq(Posts)
    BY DEF LaunchTyped
  <1>2. \A i \in 1 .. Len(gui) : gui[i] \in Posts
    BY <1>1
  <1> QED
    BY <1>1, <1>2 DEF Posts

\* What is to be run by the GUI, once it has run what was posted first.
Run ==
    /\ gui' \in Seq(Posts) /\ Len(gui') = Len(gui) - 1 /\ Len(gui) > 0
    /\ DOMAIN gui' = 1 .. Len(gui') /\ DOMAIN gui = 1 .. Len(gui)
    /\ (gui' = <<>> <=> Len(gui') = 0)
    /\ \A i \in 1 .. Len(gui') : gui'[i] = gui[i + 1]
    /\ gui[1] \in Posts

LEMMA GuiRuns ==
  ASSUME LaunchTyped, gui # <<>>, gui' = Tail(gui)
  PROVE  Run /\ Head(gui) = gui[1]
  <1>1. gui \in Seq(Posts) /\ gui' \in Seq(Posts)
    BY DEF LaunchTyped
  <1>2. Len(gui) \in Nat /\ Len(gui) > 0 /\ Len(gui') = Len(gui) - 1
    BY <1>1
  <1>3. \A i \in 1 .. Len(gui') : gui'[i] = gui[i + 1]
    BY <1>1, <1>2
  <1>6. \A s \in Seq(Posts) : DOMAIN s = 1 .. Len(s) /\ (s = <<>> <=> Len(s) = 0)
    OBVIOUS
  <1>4. DOMAIN gui' = 1 .. Len(gui') /\ DOMAIN gui = 1 .. Len(gui) /\ (gui' = <<>> <=> Len(gui') = 0)
    BY <1>1, <1>6
  <1>5. Head(gui) = gui[1] /\ gui[1] \in Posts
    BY <1>1, <1>2
  <1> QED
    BY <1>1, <1>2, <1>3, <1>4, <1>5 DEF Run

\* The threads of the launches were started in order.
LEMMA StartedIs ==
  ASSUME Numbered, Launch!NodeLaunchAssumption
  PROVE  /\ Launch!Started \in 0 .. MaxLaunches /\ epoch <= 2 * Launch!Started
         /\ IsNow => epoch < 2 * Launch!Started
         /\ \A t \in Launch!Launches : Launched(t) <=> t <= Launch!Started
  <1>1. PICK n \in 0 .. MaxLaunches :
          /\ \A t \in Launch!Launches : Launched(t) <=> t <= n
          /\ epoch <= 2 * n /\ (IsNow => epoch < 2 * n)
    BY DEF Numbered
  <1>2. {t \in Launch!Launches : thread[t].step # "off"} = 1 .. n
    BY <1>1 DEF Launched, Launch!Launches, Launch!NodeLaunchAssumption
  <1>3. Cardinality(1 .. n) = n
    BY FS_Interval DEF Launch!NodeLaunchAssumption
  <1>4. Launch!Started = Cardinality({t \in Launch!Launches : thread[t].step # "off"})
    <2>1. \A S : Launch!Cardinality(S) = Cardinality(S)
      BY DEF Launch!Cardinality, Cardinality
    <2> QED
      BY <2>1 DEF Launch!Started
  <1>5. Launch!Started = n
    BY <1>2, <1>3, <1>4
  <1> QED
    BY <1>1, <1>5

LEMMA MaskSentFinite ==
    ASSUME Launch!NodeLaunchAssumption
    PROVE  IsFiniteSet(MaskSent) /\ Cardinality(MaskSent) \in Nat
  <1>1. IsFiniteSet(Launch!Launches) /\ MaskSent \subseteq Launch!Launches
    BY FS_Interval DEF Launch!Launches, Launch!NodeLaunchAssumption, MaskSent
  <1> QED
    BY <1>1, FS_Subset, FS_CardinalityType

LEMMA LBegin ==
    ASSUME LaunchInv, Launch!NodeLaunchAssumption, NEW t \in Launch!Launches, Launch!Begin(t)
    PROVE  LaunchInv'
  <1>0. LaunchTyped /\ Epochs /\ MasksCounted /\ Undisturbed /\ MaxRefresh \in Nat
    BY DEF LaunchInv, Launch!NodeLaunchAssumption
  <1>a. /\ thread[t].step = "begin"
        /\ Moves(t, "start")
        /\ Posted("launching", thread[t].epoch)
        /\ UNCHANGED <<state, epoch, creds, applied, launch_link, refused, refresh, kills, lspad,
             hw_mask, node_py, masks, faults, ran_on, unkilled, late_refresh>>
    BY <1>0, ThreadMoves, GuiPosted DEF LaunchTyped, ThreadSteps, ThreadStates, Launch!Begin,
       Launch!Launches, Launch!NoLink, Launch!User, Launch!Post, Launch!Goto, Launch!At,
       Launch!node, Launch!counts, Launch!ghosts, Launch!NodeLaunchAssumption
  <1>1. LaunchTyped'
    <2>1. /\ state' \in {"idle", "launching", "ready"} /\ epoch' \in Nat
          /\ creds' \in BOOLEAN /\ refused' \in BOOLEAN /\ ran_on' \in BOOLEAN
          /\ late_refresh' \in BOOLEAN
      BY <1>0, <1>a DEF LaunchTyped, Posts
    <2>2. /\ masks' \in Nat /\ applied' \in 0 .. masks' /\ hw_mask' \in 0 .. masks'
          /\ launch_link' \in Launch!Launches \cup {Launch!NoLink}
      BY <1>0, <1>a DEF LaunchTyped, MasksCounted, ThreadStates, Launch!Launches, Launch!NoLink,
         Launch!User
    <2>3. /\ thread' \in [Launch!Launches -> ThreadStates] /\ refresh' \in ThreadStates
          /\ refresh'.step \in {"off", "mask", "record", "keep"}
      BY <1>0, <1>a DEF LaunchTyped, Moves, ThreadStates, ThreadSteps, Launch!Launches,
         Launch!NoLink, Launch!User
    <2>4. kills' \subseteq Launch!Launches \cup {Launch!User}
      BY <1>0, <1>a DEF LaunchTyped
    <2>5. /\ lspad' \subseteq Launch!Launches /\ node_py' \subseteq Launch!Launches
          /\ unkilled' \subseteq Launch!Launches
      BY <1>0, <1>a DEF LaunchTyped
    <2>6. gui' \in Seq(Posts) /\ faults' \in Nat /\ faults' <= MaxFaults
      BY <1>0, <1>a DEF LaunchTyped, Posted
    <2> QED
      BY <2>1, <2>2, <2>3, <2>4, <2>5, <2>6 DEF LaunchTyped
  <1>2. Epochs'
    <2>1. \A u \in Launch!Launches : (Launched(u)' <=> Launched(u)) /\
            thread'[u].epoch = thread[u].epoch
      BY <1>0, <1>a DEF OwnEpochs, Epochs, Launched, Moves
    <2>2. IsNow' <=> IsNow
      BY <2>1, <1>a DEF IsNow, Launch!Launches
    <2>3. Numbered'
      BY <2>1, <2>2, <1>0, <1>a DEF Epochs, Numbered, Launch!Launches
    <2>4. OwnEpochs'
      BY <2>1, <2>2, <1>0, <1>a DEF Epochs, OwnEpochs, LaunchTyped, ThreadStates, Launch!Launches,
         Launch!NoLink, Launch!User
    <2>5. OwnPosts'
      BY <2>1, <1>0, <1>a, <1>1, GuiIs DEF LaunchTyped, Epochs, OwnEpochs, OwnPosts, Launched,
         Launch!Launches, Launch!NoLink, Launch!User, Posted, IsNow
    <2> QED
      BY <2>3, <2>4, <2>5 DEF Epochs
  <1>3. MasksCounted'
    <2>1. MaskSent' = MaskSent
      BY <1>a DEF MaskSent, Moves, Launch!Launches
    <2> QED
      BY <2>1, <1>0, <1>a, MaskSentFinite DEF LaunchTyped, MasksCounted, Moves, ThreadStates,
         Launch!Launches, Launch!NoLink, Launch!User
  <1>4. ASSUME ~ran_on' PROVE Working' /\ ToConnect' /\ Closing' /\ BeganLast' /\ Connected' /\
               ReadyIs' /\ Held'
    <2>0. Working /\ ToConnect /\ Closing /\ BeganLast /\ Connected /\ ReadyIs /\ Held
      BY <1>0, <1>a, <1>4 DEF Undisturbed, LaunchTyped
    <2> USE <1>a DEF Launch!Launches, Launch!NoLink, Launch!User, Launch!Off, Launch!Alive,
        Moves, Posted, Run
    <2>1. Working'
      <3>1. /\ gui = <<>> /\ state = "idle" /\ thread[t].epoch = epoch /\ Masked'
            /\ creds /\ launch_link = Launch!NoLink /\ refresh.step = "off" /\ kills = {}
            /\ \A u \in Launch!Launches : Launch!Alive(u) => u = t
        BY <2>0, MaskedKept DEF Working
      <3>2. gui' = <<[what |-> "launching", epoch |-> epoch]>>
        BY <3>1
      <3>3. \A u \in Launch!Launches : Launch!Alive(u)' => u = t
        BY <3>1
      <3> QED
        BY <3>1, <3>2, <3>3 DEF Working
    <2>2. ToConnect'
      BY <1>0, <1>1, <1>4, <2>0, GuiIs DEF LaunchTyped, Epochs, OwnEpochs, OwnPosts, MasksCounted,
         Launched, Working, ToConnect, Closing, BeganLast, Connected, ReadyIs, Held, Connecting,
         NoneWorks, Masked, LinkGone
    <2>3. Closing'
      BY <1>0, <1>1, <1>4, <2>0, GuiIs DEF LaunchTyped, Epochs, OwnEpochs, OwnPosts, MasksCounted,
         Launched, Working, ToConnect, Closing, BeganLast, Connected, ReadyIs, Held, Connecting,
         NoneWorks, Masked, LinkGone
    <2>4. BeganLast'
      BY <1>0, <1>1, <1>4, <2>0, GuiIs DEF LaunchTyped, Epochs, OwnEpochs, OwnPosts, MasksCounted,
         Launched, Working, ToConnect, Closing, BeganLast, Connected, ReadyIs, Held, Connecting,
         NoneWorks, Masked, LinkGone
    <2>5. Connected'
      BY <1>0, <1>1, <1>4, <2>0, GuiIs DEF LaunchTyped, Epochs, OwnEpochs, OwnPosts, MasksCounted,
         Launched, Working, ToConnect, Closing, BeganLast, Connected, ReadyIs, Held, Connecting,
         NoneWorks, Masked, LinkGone
    <2>6. ReadyIs'
      BY <1>0, <1>1, <1>4, <2>0, GuiIs DEF LaunchTyped, Epochs, OwnEpochs, OwnPosts, MasksCounted,
         Launched, Working, ToConnect, Closing, BeganLast, Connected, ReadyIs, Held, Connecting,
         NoneWorks, Masked, LinkGone
    <2>7. Held'
      BY <1>0, <1>1, <1>4, <2>0, GuiIs DEF LaunchTyped, Epochs, OwnEpochs, OwnPosts, MasksCounted,
         Launched, Working, ToConnect, Closing, BeganLast, Connected, ReadyIs, Held, Connecting,
         NoneWorks, Masked, LinkGone
    <2> QED
      BY <2>1, <2>2, <2>3, <2>4, <2>5, <2>6, <2>7
  <1> QED
    BY <1>1, <1>2, <1>3, <1>4 DEF LaunchInv, Undisturbed

LEMMA LStartLspad ==
    ASSUME LaunchInv, Launch!NodeLaunchAssumption, NEW t \in Launch!Launches, Launch!StartLspad(t)
    PROVE  LaunchInv'
  <1>0. LaunchTyped /\ Epochs /\ MasksCounted /\ Undisturbed /\ MaxRefresh \in Nat
    BY DEF LaunchInv, Launch!NodeLaunchAssumption
  <1>a. /\ thread[t].step = "start"
        /\ \E s \in {"mask", "update"} : Moves(t, s)
        /\ lspad' = lspad \cup {t}
        /\ UNCHANGED <<state, epoch, creds, applied, gui, launch_link, refused, refresh, kills,
             hw_mask, node_py, masks, faults, ran_on, unkilled, late_refresh>>
    BY <1>0, ThreadMoves, GuiPosted DEF LaunchTyped, ThreadSteps, ThreadStates, Launch!StartLspad,
       Launch!Launches, Launch!NoLink, Launch!User, Launch!Post, Launch!Goto, Launch!At,
       Launch!panel, Launch!counts, Launch!ghosts, Launch!NodeLaunchAssumption
  <1>1. LaunchTyped'
    <2>1. /\ state' \in {"idle", "launching", "ready"} /\ epoch' \in Nat
          /\ creds' \in BOOLEAN /\ refused' \in BOOLEAN /\ ran_on' \in BOOLEAN
          /\ late_refresh' \in BOOLEAN
      BY <1>0, <1>a DEF LaunchTyped, Posts
    <2>2. /\ masks' \in Nat /\ applied' \in 0 .. masks' /\ hw_mask' \in 0 .. masks'
          /\ launch_link' \in Launch!Launches \cup {Launch!NoLink}
      BY <1>0, <1>a DEF LaunchTyped, MasksCounted, ThreadStates, Launch!Launches, Launch!NoLink,
         Launch!User
    <2>3. /\ thread' \in [Launch!Launches -> ThreadStates] /\ refresh' \in ThreadStates
          /\ refresh'.step \in {"off", "mask", "record", "keep"}
      BY <1>0, <1>a DEF LaunchTyped, Moves, ThreadStates, ThreadSteps, Launch!Launches,
         Launch!NoLink, Launch!User
    <2>4. kills' \subseteq Launch!Launches \cup {Launch!User}
      BY <1>0, <1>a DEF LaunchTyped
    <2>5. /\ lspad' \subseteq Launch!Launches /\ node_py' \subseteq Launch!Launches
          /\ unkilled' \subseteq Launch!Launches
      BY <1>0, <1>a DEF LaunchTyped
    <2>6. gui' \in Seq(Posts) /\ faults' \in Nat /\ faults' <= MaxFaults
      BY <1>0, <1>a DEF LaunchTyped
    <2> QED
      BY <2>1, <2>2, <2>3, <2>4, <2>5, <2>6 DEF LaunchTyped
  <1>2. Epochs'
    <2>1. \A u \in Launch!Launches : (Launched(u)' <=> Launched(u)) /\
            thread'[u].epoch = thread[u].epoch
      BY <1>0, <1>a DEF OwnEpochs, Epochs, Launched, Moves
    <2>2. IsNow' <=> IsNow
      BY <2>1, <1>a DEF IsNow, Launch!Launches
    <2>3. Numbered'
      BY <2>1, <2>2, <1>0, <1>a DEF Epochs, Numbered, Launch!Launches
    <2>4. OwnEpochs'
      BY <2>1, <2>2, <1>0, <1>a DEF Epochs, OwnEpochs, LaunchTyped, ThreadStates, Launch!Launches,
         Launch!NoLink, Launch!User
    <2>5. OwnPosts'
      BY <2>1, <1>0, <1>a, <1>1, GuiIs DEF LaunchTyped, Epochs, OwnEpochs, OwnPosts, Launched,
         Launch!Launches, Launch!NoLink, Launch!User, IsNow
    <2> QED
      BY <2>3, <2>4, <2>5 DEF Epochs
  <1>3. MasksCounted'
    <2>1. MaskSent' = MaskSent
      BY <1>a DEF MaskSent, Moves, Launch!Launches
    <2> QED
      BY <2>1, <1>0, <1>a, MaskSentFinite DEF LaunchTyped, MasksCounted, Moves, ThreadStates,
         Launch!Launches, Launch!NoLink, Launch!User
  <1>4. ASSUME ~ran_on' PROVE Working' /\ ToConnect' /\ Closing' /\ BeganLast' /\ Connected' /\
               ReadyIs' /\ Held'
    <2>0. Working /\ ToConnect /\ Closing /\ BeganLast /\ Connected /\ ReadyIs /\ Held
      BY <1>0, <1>a, <1>4 DEF Undisturbed, LaunchTyped
    <2> USE <1>a DEF Launch!Launches, Launch!NoLink, Launch!User, Launch!Off, Launch!Alive,
        Moves, Posted, Run
    <2>1. Working'
      <3>1. Masked' <=> Masked
        BY MaskedKept
      <3>2. \A u \in Launch!Launches : Launch!Alive(u) => u = t
        BY <2>0 DEF Working
      <3> QED
        BY <2>0, <3>1, <3>2, <1>0 DEF Working, LaunchTyped, ThreadStates
    <2>2. ToConnect'
      BY <1>0, <1>1, <1>4, <2>0, GuiIs DEF LaunchTyped, Epochs, OwnEpochs, OwnPosts, MasksCounted,
         Launched, Working, ToConnect, Closing, BeganLast, Connected, ReadyIs, Held, Connecting,
         NoneWorks, Masked, LinkGone
    <2>3. Closing'
      BY <1>0, <1>1, <1>4, <2>0, GuiIs DEF LaunchTyped, Epochs, OwnEpochs, OwnPosts, MasksCounted,
         Launched, Working, ToConnect, Closing, BeganLast, Connected, ReadyIs, Held, Connecting,
         NoneWorks, Masked, LinkGone
    <2>4. BeganLast'
      BY <1>0, <1>1, <1>4, <2>0, GuiIs DEF LaunchTyped, Epochs, OwnEpochs, OwnPosts, MasksCounted,
         Launched, Working, ToConnect, Closing, BeganLast, Connected, ReadyIs, Held, Connecting,
         NoneWorks, Masked, LinkGone
    <2>5. Connected'
      BY <1>0, <1>1, <1>4, <2>0, GuiIs DEF LaunchTyped, Epochs, OwnEpochs, OwnPosts, MasksCounted,
         Launched, Working, ToConnect, Closing, BeganLast, Connected, ReadyIs, Held, Connecting,
         NoneWorks, Masked, LinkGone
    <2>6. ReadyIs'
      BY <1>0, <1>1, <1>4, <2>0, GuiIs DEF LaunchTyped, Epochs, OwnEpochs, OwnPosts, MasksCounted,
         Launched, Working, ToConnect, Closing, BeganLast, Connected, ReadyIs, Held, Connecting,
         NoneWorks, Masked, LinkGone
    <2>7. Held'
      BY <1>0, <1>1, <1>4, <2>0, GuiIs DEF LaunchTyped, Epochs, OwnEpochs, OwnPosts, MasksCounted,
         Launched, Working, ToConnect, Closing, BeganLast, Connected, ReadyIs, Held, Connecting,
         NoneWorks, Masked, LinkGone
    <2> QED
      BY <2>1, <2>2, <2>3, <2>4, <2>5, <2>6, <2>7
  <1> QED
    BY <1>1, <1>2, <1>3, <1>4 DEF LaunchInv, Undisturbed

LEMMA LApplyMask ==
    ASSUME LaunchInv, Launch!NodeLaunchAssumption, NEW t \in Launch!Launches, Launch!ApplyMask(t)
    PROVE  LaunchInv'
  <1>0. LaunchTyped /\ Epochs /\ MasksCounted /\ Undisturbed /\ MaxRefresh \in Nat
    BY DEF LaunchInv, Launch!NodeLaunchAssumption
  <1>a. /\ thread[t].step = "mask"
        /\ thread' \in [Launch!Launches -> ThreadStates]
        /\ \A u \in Launch!Launches : /\ thread'[u].epoch = thread[u].epoch
                                     /\ thread'[u].step = (IF u = t THEN "record" ELSE thread[u].step)
                                     /\ thread'[u].sent = (IF u = t THEN masks' ELSE thread[u].sent)
        /\ masks' = masks + 1
        /\ hw_mask' = masks'
        /\ UNCHANGED <<state, epoch, creds, applied, gui, launch_link, refused, refresh, kills,
             lspad, node_py, faults, ran_on, unkilled, late_refresh>>
    <2>1. thread[t].step = "mask"
      BY <1>0, ThreadMoves DEF LaunchTyped, ThreadSteps, ThreadStates, Launch!ApplyMask,
         Launch!Launches, Launch!NoLink, Launch!User, Launch!Goto, Launch!At
    <2>2. thread' \in [Launch!Launches -> ThreadStates]
      <3> DEFINE r == [step |-> "record", epoch |-> thread[t].epoch, mask |-> thread[t].mask,
          sent |-> masks']
      <3>1. masks' \in Nat /\ thread \in [Launch!Launches -> ThreadStates] /\
              thread' = [thread EXCEPT ![t].step = "record", ![t].sent = masks']
        BY <1>0 DEF LaunchTyped, Launch!ApplyMask
      <3>2. thread[t] \in ThreadStates
        BY <3>1
      <3>0. thread' = [u \in Launch!Launches |->
              IF u = t THEN [[thread[t] EXCEPT !.step = "record"] EXCEPT !.sent = masks']
              ELSE thread[u]]
        BY <3>1
      <3>5. [[thread[t] EXCEPT !.step = "record"] EXCEPT !.sent = masks'] = r
        <4>1. [thread[t] EXCEPT !.step = "record"] =
              [step |-> "record", epoch |-> thread[t].epoch, mask |-> thread[t].mask,
                  sent |-> thread[t].sent]
          BY <3>2 DEF ThreadStates
        <4>2. \A q : q = [step |-> "record", epoch |-> thread[t].epoch, mask |-> thread[t].mask,
                sent |-> thread[t].sent]
                      => [q EXCEPT !.sent = masks'] = r
          OBVIOUS
        <4> QED
          BY <4>1, <4>2, Zenon
      <3>3. thread' = [u \in Launch!Launches |-> IF u = t THEN r ELSE thread[u]]
        BY <3>0, <3>5
      <3>4. r \in ThreadStates
        BY <3>1, <3>2 DEF ThreadStates, ThreadSteps
      <3> QED
        BY <3>1, <3>2, <3>3, <3>4
    <2>3. \A u \in Launch!Launches : /\ thread'[u].epoch = thread[u].epoch
                                      /\ thread'[u].step = (IF u = t THEN "record" ELSE thread[u].step)
                                      /\ thread'[u].sent = (IF u = t THEN masks' ELSE thread[u].sent)
      BY <1>0, ThreadMoves DEF LaunchTyped, ThreadSteps, ThreadStates, Launch!ApplyMask,
         Launch!Launches, Launch!NoLink, Launch!User, Launch!Goto, Launch!At
    <2>4. masks' = masks + 1
      BY <1>0 DEF LaunchTyped, ThreadSteps, ThreadStates, Launch!ApplyMask, Launch!Launches,
         Launch!NoLink, Launch!User, Launch!At
    <2>5. hw_mask' = masks'
      BY <1>0 DEF LaunchTyped, ThreadSteps, ThreadStates, Launch!ApplyMask, Launch!Launches,
         Launch!NoLink, Launch!User, Launch!At
    <2>6. UNCHANGED <<state, epoch, creds, applied, gui, launch_link, refused, refresh, kills,
            lspad, node_py, faults, ran_on, unkilled, late_refresh>>
      BY <1>0, ThreadMoves, GuiRuns DEF LaunchTyped, Launch!ApplyMask, Launch!Launches,
         Launch!NoLink, Launch!User, Launch!Post, Launch!Goto, Launch!At, Launch!panel,
         Launch!ghosts, Launch!NodeLaunchAssumption
    <2> QED
      BY <2>1, <2>2, <2>3, <2>4, <2>5, <2>6
  <1>1. LaunchTyped'
    <2>1. /\ state' \in {"idle", "launching", "ready"} /\ epoch' \in Nat
          /\ creds' \in BOOLEAN /\ refused' \in BOOLEAN /\ ran_on' \in BOOLEAN
          /\ late_refresh' \in BOOLEAN
      BY <1>0, <1>a DEF LaunchTyped, Posts
    <2>2. /\ masks' \in Nat /\ applied' \in 0 .. masks' /\ hw_mask' \in 0 .. masks'
          /\ launch_link' \in Launch!Launches \cup {Launch!NoLink}
      BY <1>0, <1>a DEF LaunchTyped, MasksCounted, ThreadStates, Launch!Launches, Launch!NoLink,
         Launch!User
    <2>3. /\ thread' \in [Launch!Launches -> ThreadStates] /\ refresh' \in ThreadStates
          /\ refresh'.step \in {"off", "mask", "record", "keep"}
      BY <1>0, <1>a DEF LaunchTyped, ThreadStates, ThreadSteps, Launch!Launches, Launch!NoLink,
         Launch!User
    <2>4. kills' \subseteq Launch!Launches \cup {Launch!User}
      BY <1>0, <1>a DEF LaunchTyped
    <2>5. /\ lspad' \subseteq Launch!Launches /\ node_py' \subseteq Launch!Launches
          /\ unkilled' \subseteq Launch!Launches
      BY <1>0, <1>a DEF LaunchTyped
    <2>6. gui' \in Seq(Posts) /\ faults' \in Nat /\ faults' <= MaxFaults
      BY <1>0, <1>a DEF LaunchTyped
    <2> QED
      BY <2>1, <2>2, <2>3, <2>4, <2>5, <2>6 DEF LaunchTyped
  <1>2. Epochs'
    <2>1. \A u \in Launch!Launches : (Launched(u)' <=> Launched(u)) /\
            thread'[u].epoch = thread[u].epoch
      BY <1>0, <1>a DEF OwnEpochs, Epochs, Launched
    <2>2. IsNow' <=> IsNow
      BY <2>1, <1>a DEF IsNow, Launch!Launches
    <2>3. Numbered'
      BY <2>1, <2>2, <1>0, <1>a DEF Epochs, Numbered, Launch!Launches
    <2>4. OwnEpochs'
      BY <2>1, <2>2, <1>0, <1>a DEF Epochs, OwnEpochs, LaunchTyped, ThreadStates, Launch!Launches,
         Launch!NoLink, Launch!User
    <2>5. OwnPosts'
      BY <2>1, <1>0, <1>a, <1>1, GuiIs DEF LaunchTyped, Epochs, OwnEpochs, OwnPosts, Launched,
         Launch!Launches, Launch!NoLink, Launch!User, IsNow
    <2> QED
      BY <2>3, <2>4, <2>5 DEF Epochs
  <1>3. MasksCounted'
    <2>1. thread[t].sent = 0 /\ t \notin MaskSent /\ MaskSent' = MaskSent \cup {t}
      BY <1>0, <1>a DEF MaskSent, MasksCounted, LaunchTyped, Launch!Launches, Launch!NoLink,
         Launch!User
    <2>2. Cardinality(MaskSent') = Cardinality(MaskSent) + 1
      BY <2>1, MaskSentFinite, FS_AddElement
    <2>3. ASSUME NEW u \in Launch!Launches
          PROVE  /\ thread'[u].sent <= masks'
                 /\ thread'[u].step \in {"off", "begin", "start", "mask"} => thread'[u].sent = 0
      <3>1. CASE u = t
        BY <3>1, <1>0, <1>a, <1>1 DEF LaunchTyped, MasksCounted
      <3>2. CASE u # t
        <4>1. thread[u].sent \in Nat
          BY <1>0 DEF LaunchTyped, ThreadStates
        <4>2. thread[u].sent <= masks /\ masks \in Nat /\ thread'[u].sent = thread[u].sent
              /\ thread'[u].step = thread[u].step
          BY <3>2, <1>0, <1>a DEF LaunchTyped, MasksCounted
        <4> QED
          BY <4>1, <4>2, <1>0, <1>a DEF MasksCounted
      <3> QED
        BY <3>1, <3>2
    <2>4. refresh'.sent <= masks' /\ masks' <= MaxRefresh + Cardinality(MaskSent')
      BY <2>2, <1>0, <1>a, MaskSentFinite DEF LaunchTyped, MasksCounted, ThreadStates
    <2>5. refresh'.step = "mask" => masks' < MaxRefresh + Cardinality(MaskSent')
      BY <2>2, <1>0, <1>a, MaskSentFinite DEF LaunchTyped, MasksCounted
    <2> QED
      BY <2>3, <2>4, <2>5 DEF MasksCounted
  <1>4. ASSUME ~ran_on' PROVE Working' /\ ToConnect' /\ Closing' /\ BeganLast' /\ Connected' /\
               ReadyIs' /\ Held'
    <2>0. Working /\ ToConnect /\ Closing /\ BeganLast /\ Connected /\ ReadyIs /\ Held
      BY <1>0, <1>a, <1>4 DEF Undisturbed, LaunchTyped
    <2> USE <1>a DEF Launch!Launches, Launch!NoLink, Launch!User, Launch!Off, Launch!Alive,
        Moves, Posted, Run
    <2>1. Working'
      <3>2. /\ \A u \in Launch!Launches : Launch!Alive(u) => u = t
            /\ hw_mask' = thread'[t].sent /\ thread'[t].step = "record"
        BY <2>0 DEF Working
      <3> QED
        BY <2>0, <3>2, <1>0 DEF Working, LaunchTyped, ThreadStates
    <2>2. ToConnect'
      BY <1>0, <1>1, <1>4, <2>0, GuiIs DEF LaunchTyped, Epochs, OwnEpochs, OwnPosts, MasksCounted,
         Launched, Working, ToConnect, Closing, BeganLast, Connected, ReadyIs, Held, Connecting,
         NoneWorks, Masked, LinkGone
    <2>3. Closing'
      BY <1>0, <1>1, <1>4, <2>0, GuiIs DEF LaunchTyped, Epochs, OwnEpochs, OwnPosts, MasksCounted,
         Launched, Working, ToConnect, Closing, BeganLast, Connected, ReadyIs, Held, Connecting,
         NoneWorks, Masked, LinkGone
    <2>4. BeganLast'
      BY <1>0, <1>1, <1>4, <2>0, GuiIs DEF LaunchTyped, Epochs, OwnEpochs, OwnPosts, MasksCounted,
         Launched, Working, ToConnect, Closing, BeganLast, Connected, ReadyIs, Held, Connecting,
         NoneWorks, Masked, LinkGone
    <2>5. Connected'
      BY <1>0, <1>1, <1>4, <2>0, GuiIs DEF LaunchTyped, Epochs, OwnEpochs, OwnPosts, MasksCounted,
         Launched, Working, ToConnect, Closing, BeganLast, Connected, ReadyIs, Held, Connecting,
         NoneWorks, Masked, LinkGone
    <2>6. ReadyIs'
      BY <1>0, <1>1, <1>4, <2>0, GuiIs DEF LaunchTyped, Epochs, OwnEpochs, OwnPosts, MasksCounted,
         Launched, Working, ToConnect, Closing, BeganLast, Connected, ReadyIs, Held, Connecting,
         NoneWorks, Masked, LinkGone
    <2>7. Held'
      BY <1>0, <1>1, <1>4, <2>0, GuiIs DEF LaunchTyped, Epochs, OwnEpochs, OwnPosts, MasksCounted,
         Launched, Working, ToConnect, Closing, BeganLast, Connected, ReadyIs, Held, Connecting,
         NoneWorks, Masked, LinkGone
    <2> QED
      BY <2>1, <2>2, <2>3, <2>4, <2>5, <2>6, <2>7
  <1> QED
    BY <1>1, <1>2, <1>3, <1>4 DEF LaunchInv, Undisturbed

LEMMA LCheckMask ==
    ASSUME LaunchInv, Launch!NodeLaunchAssumption, NEW t \in Launch!Launches, Launch!CheckMask(t)
    PROVE  LaunchInv'
  <1>0. LaunchTyped /\ Epochs /\ MasksCounted /\ Undisturbed /\ MaxRefresh \in Nat
    BY DEF LaunchInv, Launch!NodeLaunchAssumption
  <1>a. /\ thread[t].step = "record"
        /\ Moves(t, IF thread[t].epoch \in {0, epoch} THEN "keep" ELSE "update")
        /\ UNCHANGED <<state, epoch, creds, applied, gui, launch_link, refused, refresh, kills,
             lspad, hw_mask, node_py, masks, faults, ran_on, unkilled, late_refresh>>
    BY <1>0, ThreadMoves, GuiPosted DEF LaunchTyped, ThreadSteps, ThreadStates, Launch!CheckMask,
       Launch!Launches, Launch!NoLink, Launch!User, Launch!Current, Launch!Post, Launch!Goto,
       Launch!At, Launch!panel, Launch!node, Launch!counts, Launch!ghosts,
       Launch!NodeLaunchAssumption
  <1>1. LaunchTyped'
    <2>1. /\ state' \in {"idle", "launching", "ready"} /\ epoch' \in Nat
          /\ creds' \in BOOLEAN /\ refused' \in BOOLEAN /\ ran_on' \in BOOLEAN
          /\ late_refresh' \in BOOLEAN
      BY <1>0, <1>a DEF LaunchTyped, Posts
    <2>2. /\ masks' \in Nat /\ applied' \in 0 .. masks' /\ hw_mask' \in 0 .. masks'
          /\ launch_link' \in Launch!Launches \cup {Launch!NoLink}
      BY <1>0, <1>a DEF LaunchTyped, MasksCounted, ThreadStates, Launch!Launches, Launch!NoLink,
         Launch!User
    <2>3. /\ thread' \in [Launch!Launches -> ThreadStates] /\ refresh' \in ThreadStates
          /\ refresh'.step \in {"off", "mask", "record", "keep"}
      BY <1>0, <1>a DEF LaunchTyped, Moves, ThreadStates, ThreadSteps, Launch!Launches,
         Launch!NoLink, Launch!User
    <2>4. kills' \subseteq Launch!Launches \cup {Launch!User}
      BY <1>0, <1>a DEF LaunchTyped
    <2>5. /\ lspad' \subseteq Launch!Launches /\ node_py' \subseteq Launch!Launches
          /\ unkilled' \subseteq Launch!Launches
      BY <1>0, <1>a DEF LaunchTyped
    <2>6. gui' \in Seq(Posts) /\ faults' \in Nat /\ faults' <= MaxFaults
      BY <1>0, <1>a DEF LaunchTyped
    <2> QED
      BY <2>1, <2>2, <2>3, <2>4, <2>5, <2>6 DEF LaunchTyped
  <1>2. Epochs'
    <2>1. \A u \in Launch!Launches : (Launched(u)' <=> Launched(u)) /\
            thread'[u].epoch = thread[u].epoch
      BY <1>0, <1>a DEF OwnEpochs, Epochs, Launched, Moves
    <2>2. IsNow' <=> IsNow
      BY <2>1, <1>a DEF IsNow, Launch!Launches
    <2>3. Numbered'
      BY <2>1, <2>2, <1>0, <1>a DEF Epochs, Numbered, Launch!Launches
    <2>4. OwnEpochs'
      BY <2>1, <2>2, <1>0, <1>a DEF Epochs, OwnEpochs, LaunchTyped, ThreadStates, Launch!Launches,
         Launch!NoLink, Launch!User
    <2>5. OwnPosts'
      BY <2>1, <1>0, <1>a, <1>1, GuiIs DEF LaunchTyped, Epochs, OwnEpochs, OwnPosts, Launched,
         Launch!Launches, Launch!NoLink, Launch!User, IsNow
    <2> QED
      BY <2>3, <2>4, <2>5 DEF Epochs
  <1>3. MasksCounted'
    <2>1. MaskSent' = MaskSent
      BY <1>a DEF MaskSent, Moves, Launch!Launches
    <2> QED
      BY <2>1, <1>0, <1>a, MaskSentFinite DEF LaunchTyped, MasksCounted, Moves, ThreadStates,
         Launch!Launches, Launch!NoLink, Launch!User
  <1>4. ASSUME ~ran_on' PROVE Working' /\ ToConnect' /\ Closing' /\ BeganLast' /\ Connected' /\
               ReadyIs' /\ Held'
    <2>0. Working /\ ToConnect /\ Closing /\ BeganLast /\ Connected /\ ReadyIs /\ Held
      BY <1>0, <1>a, <1>4 DEF Undisturbed, LaunchTyped
    <2> USE <1>a DEF Launch!Launches, Launch!NoLink, Launch!User, Launch!Off, Launch!Alive,
        Moves, Posted, Run
    <2>1. Working'
      <3>2. /\ \A u \in Launch!Launches : Launch!Alive(u) => u = t
            /\ hw_mask' = thread'[t].sent /\ thread'[t].step = "keep"
        BY <2>0 DEF Working
      <3> QED
        BY <2>0, <3>2, <1>0 DEF Working, LaunchTyped, ThreadStates
    <2>2. ToConnect'
      BY <1>0, <1>1, <1>4, <2>0, GuiIs DEF LaunchTyped, Epochs, OwnEpochs, OwnPosts, MasksCounted,
         Launched, Working, ToConnect, Closing, BeganLast, Connected, ReadyIs, Held, Connecting,
         NoneWorks, Masked, LinkGone
    <2>3. Closing'
      BY <1>0, <1>1, <1>4, <2>0, GuiIs DEF LaunchTyped, Epochs, OwnEpochs, OwnPosts, MasksCounted,
         Launched, Working, ToConnect, Closing, BeganLast, Connected, ReadyIs, Held, Connecting,
         NoneWorks, Masked, LinkGone
    <2>4. BeganLast'
      BY <1>0, <1>1, <1>4, <2>0, GuiIs DEF LaunchTyped, Epochs, OwnEpochs, OwnPosts, MasksCounted,
         Launched, Working, ToConnect, Closing, BeganLast, Connected, ReadyIs, Held, Connecting,
         NoneWorks, Masked, LinkGone
    <2>5. Connected'
      BY <1>0, <1>1, <1>4, <2>0, GuiIs DEF LaunchTyped, Epochs, OwnEpochs, OwnPosts, MasksCounted,
         Launched, Working, ToConnect, Closing, BeganLast, Connected, ReadyIs, Held, Connecting,
         NoneWorks, Masked, LinkGone
    <2>6. ReadyIs'
      BY <1>0, <1>1, <1>4, <2>0, GuiIs DEF LaunchTyped, Epochs, OwnEpochs, OwnPosts, MasksCounted,
         Launched, Working, ToConnect, Closing, BeganLast, Connected, ReadyIs, Held, Connecting,
         NoneWorks, Masked, LinkGone
    <2>7. Held'
      BY <1>0, <1>1, <1>4, <2>0, GuiIs DEF LaunchTyped, Epochs, OwnEpochs, OwnPosts, MasksCounted,
         Launched, Working, ToConnect, Closing, BeganLast, Connected, ReadyIs, Held, Connecting,
         NoneWorks, Masked, LinkGone
    <2> QED
      BY <2>1, <2>2, <2>3, <2>4, <2>5, <2>6, <2>7
  <1> QED
    BY <1>1, <1>2, <1>3, <1>4 DEF LaunchInv, Undisturbed

LEMMA LKeepMask ==
    ASSUME LaunchInv, Launch!NodeLaunchAssumption, NEW t \in Launch!Launches, Launch!KeepMask(t)
    PROVE  LaunchInv'
  <1>0. LaunchTyped /\ Epochs /\ MasksCounted /\ Undisturbed /\ MaxRefresh \in Nat
    BY DEF LaunchInv, Launch!NodeLaunchAssumption
  <1>a. /\ thread[t].step = "keep"
        /\ Moves(t, "update")
        /\ applied' = thread[t].sent
        /\ late_refresh' = FALSE
        /\ UNCHANGED <<state, epoch, creds, gui, launch_link, refused, refresh, kills, lspad,
             hw_mask, node_py, masks, faults, ran_on, unkilled>>
    BY <1>0, ThreadMoves, GuiPosted DEF LaunchTyped, ThreadSteps, ThreadStates, Launch!KeepMask,
       Launch!Launches, Launch!NoLink, Launch!User, Launch!Post, Launch!Goto, Launch!At,
       Launch!node, Launch!counts, Launch!ghosts, Launch!NodeLaunchAssumption
  <1>1. LaunchTyped'
    <2>1. /\ state' \in {"idle", "launching", "ready"} /\ epoch' \in Nat
          /\ creds' \in BOOLEAN /\ refused' \in BOOLEAN /\ ran_on' \in BOOLEAN
          /\ late_refresh' \in BOOLEAN
      BY <1>0, <1>a DEF LaunchTyped, Posts
    <2>2. /\ masks' \in Nat /\ applied' \in 0 .. masks' /\ hw_mask' \in 0 .. masks'
          /\ launch_link' \in Launch!Launches \cup {Launch!NoLink}
      BY <1>0, <1>a DEF LaunchTyped, MasksCounted, ThreadStates, Launch!Launches, Launch!NoLink,
         Launch!User
    <2>3. /\ thread' \in [Launch!Launches -> ThreadStates] /\ refresh' \in ThreadStates
          /\ refresh'.step \in {"off", "mask", "record", "keep"}
      BY <1>0, <1>a DEF LaunchTyped, Moves, ThreadStates, ThreadSteps, Launch!Launches,
         Launch!NoLink, Launch!User
    <2>4. kills' \subseteq Launch!Launches \cup {Launch!User}
      BY <1>0, <1>a DEF LaunchTyped
    <2>5. /\ lspad' \subseteq Launch!Launches /\ node_py' \subseteq Launch!Launches
          /\ unkilled' \subseteq Launch!Launches
      BY <1>0, <1>a DEF LaunchTyped
    <2>6. gui' \in Seq(Posts) /\ faults' \in Nat /\ faults' <= MaxFaults
      BY <1>0, <1>a DEF LaunchTyped
    <2> QED
      BY <2>1, <2>2, <2>3, <2>4, <2>5, <2>6 DEF LaunchTyped
  <1>2. Epochs'
    <2>1. \A u \in Launch!Launches : (Launched(u)' <=> Launched(u)) /\
            thread'[u].epoch = thread[u].epoch
      BY <1>0, <1>a DEF OwnEpochs, Epochs, Launched, Moves
    <2>2. IsNow' <=> IsNow
      BY <2>1, <1>a DEF IsNow, Launch!Launches
    <2>3. Numbered'
      BY <2>1, <2>2, <1>0, <1>a DEF Epochs, Numbered, Launch!Launches
    <2>4. OwnEpochs'
      BY <2>1, <2>2, <1>0, <1>a DEF Epochs, OwnEpochs, LaunchTyped, ThreadStates, Launch!Launches,
         Launch!NoLink, Launch!User
    <2>5. OwnPosts'
      BY <2>1, <1>0, <1>a, <1>1, GuiIs DEF LaunchTyped, Epochs, OwnEpochs, OwnPosts, Launched,
         Launch!Launches, Launch!NoLink, Launch!User, IsNow
    <2> QED
      BY <2>3, <2>4, <2>5 DEF Epochs
  <1>3. MasksCounted'
    <2>1. MaskSent' = MaskSent
      BY <1>a DEF MaskSent, Moves, Launch!Launches
    <2> QED
      BY <2>1, <1>0, <1>a, MaskSentFinite DEF LaunchTyped, MasksCounted, Moves, ThreadStates,
         Launch!Launches, Launch!NoLink, Launch!User
  <1>4. ASSUME ~ran_on' PROVE Working' /\ ToConnect' /\ Closing' /\ BeganLast' /\ Connected' /\
               ReadyIs' /\ Held'
    <2>0. Working /\ ToConnect /\ Closing /\ BeganLast /\ Connected /\ ReadyIs /\ Held
      BY <1>0, <1>a, <1>4 DEF Undisturbed, LaunchTyped
    <2> USE <1>a DEF Launch!Launches, Launch!NoLink, Launch!User, Launch!Off, Launch!Alive,
        Moves, Posted, Run
    <2>1. Working'
      <3>2. /\ \A u \in Launch!Launches : Launch!Alive(u) => u = t
            /\ Masked'
        BY <2>0 DEF Working, Masked
      <3> QED
        BY <2>0, <3>2, <1>0 DEF Working, LaunchTyped, ThreadStates
    <2>2. ToConnect'
      BY <1>0, <1>1, <1>4, <2>0, GuiIs DEF LaunchTyped, Epochs, OwnEpochs, OwnPosts, MasksCounted,
         Launched, Working, ToConnect, Closing, BeganLast, Connected, ReadyIs, Held, Connecting,
         NoneWorks, Masked, LinkGone
    <2>3. Closing'
      BY <1>0, <1>1, <1>4, <2>0, GuiIs DEF LaunchTyped, Epochs, OwnEpochs, OwnPosts, MasksCounted,
         Launched, Working, ToConnect, Closing, BeganLast, Connected, ReadyIs, Held, Connecting,
         NoneWorks, Masked, LinkGone
    <2>4. BeganLast'
      BY <1>0, <1>1, <1>4, <2>0, GuiIs DEF LaunchTyped, Epochs, OwnEpochs, OwnPosts, MasksCounted,
         Launched, Working, ToConnect, Closing, BeganLast, Connected, ReadyIs, Held, Connecting,
         NoneWorks, Masked, LinkGone
    <2>5. Connected'
      BY <1>0, <1>1, <1>4, <2>0, GuiIs DEF LaunchTyped, Epochs, OwnEpochs, OwnPosts, MasksCounted,
         Launched, Working, ToConnect, Closing, BeganLast, Connected, ReadyIs, Held, Connecting,
         NoneWorks, Masked, LinkGone
    <2>6. ReadyIs'
      BY <1>0, <1>1, <1>4, <2>0, GuiIs DEF LaunchTyped, Epochs, OwnEpochs, OwnPosts, MasksCounted,
         Launched, Working, ToConnect, Closing, BeganLast, Connected, ReadyIs, Held, Connecting,
         NoneWorks, Masked, LinkGone
    <2>7. Held'
      BY <1>0, <1>1, <1>4, <2>0, GuiIs DEF LaunchTyped, Epochs, OwnEpochs, OwnPosts, MasksCounted,
         Launched, Working, ToConnect, Closing, BeganLast, Connected, ReadyIs, Held, Connecting,
         NoneWorks, Masked, LinkGone
    <2> QED
      BY <2>1, <2>2, <2>3, <2>4, <2>5, <2>6, <2>7
  <1> QED
    BY <1>1, <1>2, <1>3, <1>4 DEF LaunchInv, Undisturbed

LEMMA LKillNode ==
    ASSUME LaunchInv, Launch!NodeLaunchAssumption, NEW t \in Launch!Launches, Launch!KillNode(t)
    PROVE  LaunchInv'
  <1>0. LaunchTyped /\ Epochs /\ MasksCounted /\ Undisturbed /\ MaxRefresh \in Nat
    BY DEF LaunchInv, Launch!NodeLaunchAssumption
  <1>a. /\ thread[t].step = "update"
        /\ Moves(t, "node")
        /\ node_py' = {}
        /\ UNCHANGED <<state, epoch, creds, applied, gui, launch_link, refused, refresh, kills,
             lspad, hw_mask, masks, faults, ran_on, unkilled, late_refresh>>
    BY <1>0, ThreadMoves, GuiPosted DEF LaunchTyped, ThreadSteps, ThreadStates, Launch!KillNode,
       Launch!Launches, Launch!NoLink, Launch!User, Launch!Post, Launch!Goto, Launch!At,
       Launch!NodePyLeft, Launch!panel, Launch!node, Launch!counts, Launch!ghosts,
       Launch!NodeLaunchAssumption
  <1>1. LaunchTyped'
    <2>1. /\ state' \in {"idle", "launching", "ready"} /\ epoch' \in Nat
          /\ creds' \in BOOLEAN /\ refused' \in BOOLEAN /\ ran_on' \in BOOLEAN
          /\ late_refresh' \in BOOLEAN
      BY <1>0, <1>a DEF LaunchTyped, Posts
    <2>2. /\ masks' \in Nat /\ applied' \in 0 .. masks' /\ hw_mask' \in 0 .. masks'
          /\ launch_link' \in Launch!Launches \cup {Launch!NoLink}
      BY <1>0, <1>a DEF LaunchTyped, MasksCounted, ThreadStates, Launch!Launches, Launch!NoLink,
         Launch!User
    <2>3. /\ thread' \in [Launch!Launches -> ThreadStates] /\ refresh' \in ThreadStates
          /\ refresh'.step \in {"off", "mask", "record", "keep"}
      BY <1>0, <1>a DEF LaunchTyped, Moves, ThreadStates, ThreadSteps, Launch!Launches,
         Launch!NoLink, Launch!User
    <2>4. kills' \subseteq Launch!Launches \cup {Launch!User}
      BY <1>0, <1>a DEF LaunchTyped
    <2>5. /\ lspad' \subseteq Launch!Launches /\ node_py' \subseteq Launch!Launches
          /\ unkilled' \subseteq Launch!Launches
      BY <1>0, <1>a DEF LaunchTyped
    <2>6. gui' \in Seq(Posts) /\ faults' \in Nat /\ faults' <= MaxFaults
      BY <1>0, <1>a DEF LaunchTyped
    <2> QED
      BY <2>1, <2>2, <2>3, <2>4, <2>5, <2>6 DEF LaunchTyped
  <1>2. Epochs'
    <2>1. \A u \in Launch!Launches : (Launched(u)' <=> Launched(u)) /\
            thread'[u].epoch = thread[u].epoch
      BY <1>0, <1>a DEF OwnEpochs, Epochs, Launched, Moves
    <2>2. IsNow' <=> IsNow
      BY <2>1, <1>a DEF IsNow, Launch!Launches
    <2>3. Numbered'
      BY <2>1, <2>2, <1>0, <1>a DEF Epochs, Numbered, Launch!Launches
    <2>4. OwnEpochs'
      BY <2>1, <2>2, <1>0, <1>a DEF Epochs, OwnEpochs, LaunchTyped, ThreadStates, Launch!Launches,
         Launch!NoLink, Launch!User
    <2>5. OwnPosts'
      BY <2>1, <1>0, <1>a, <1>1, GuiIs DEF LaunchTyped, Epochs, OwnEpochs, OwnPosts, Launched,
         Launch!Launches, Launch!NoLink, Launch!User, IsNow
    <2> QED
      BY <2>3, <2>4, <2>5 DEF Epochs
  <1>3. MasksCounted'
    <2>1. MaskSent' = MaskSent
      BY <1>a DEF MaskSent, Moves, Launch!Launches
    <2> QED
      BY <2>1, <1>0, <1>a, MaskSentFinite DEF LaunchTyped, MasksCounted, Moves, ThreadStates,
         Launch!Launches, Launch!NoLink, Launch!User
  <1>4. ASSUME ~ran_on' PROVE Working' /\ ToConnect' /\ Closing' /\ BeganLast' /\ Connected' /\
               ReadyIs' /\ Held'
    <2>0. Working /\ ToConnect /\ Closing /\ BeganLast /\ Connected /\ ReadyIs /\ Held
      BY <1>0, <1>a, <1>4 DEF Undisturbed, LaunchTyped
    <2> USE <1>a DEF Launch!Launches, Launch!NoLink, Launch!User, Launch!Off, Launch!Alive,
        Moves, Posted, Run
    <2>1. Working'
      <3>1. \A u \in Launch!Launches : Launch!Alive(u)' => u = t
        BY <2>0 DEF Working
      <3>2. /\ thread[t].epoch = epoch /\ creds /\ launch_link = Launch!NoLink
            /\ refresh.step = "off" /\ kills = {} /\ Masked
            /\ \/ gui = <<>> /\ state = "launching"
               \/ gui = <<[what |-> "launching", epoch |-> epoch]>> /\ state = "idle"
        BY <1>0, <2>0 DEF Working
      <3>3. thread'[t].step = "node" /\ thread'[t].epoch = epoch'
        BY <3>2
      <3>4. /\ creds' /\ launch_link' = Launch!NoLink /\ refresh'.step = "off" /\ kills' = {}
            /\ Masked'
            /\ \/ gui' = <<>> /\ state' = "launching"
               \/ gui' = <<[what |-> "launching", epoch |-> epoch']>> /\ state' = "idle"
        BY <3>2 DEF Masked
      <3>5. thread'[t].step = "node" => node_py' = {}
        OBVIOUS
      <3> SUFFICES ASSUME NEW u \in Launch!Launches, Launch!Alive(u)', u = t
                   PROVE  /\ \A w \in Launch!Launches : Launch!Alive(w)' => w = u
                          /\ thread'[u].step = "node" /\ thread'[u].epoch = epoch'
        BY <3>1, <3>3, <3>4, <3>5 DEF Working
      <3> QED
        BY <3>1, <3>3
    <2>2. ToConnect'
      BY <1>0, <1>1, <1>4, <2>0, GuiIs DEF LaunchTyped, Epochs, OwnEpochs, OwnPosts, MasksCounted,
         Launched, Working, ToConnect, Closing, BeganLast, Connected, ReadyIs, Held, Connecting,
         NoneWorks, Masked, LinkGone
    <2>3. Closing'
      BY <1>0, <1>1, <1>4, <2>0, GuiIs DEF LaunchTyped, Epochs, OwnEpochs, OwnPosts, MasksCounted,
         Launched, Working, ToConnect, Closing, BeganLast, Connected, ReadyIs, Held, Connecting,
         NoneWorks, Masked, LinkGone
    <2>4. BeganLast'
      BY <1>0, <1>1, <1>4, <2>0, GuiIs DEF LaunchTyped, Epochs, OwnEpochs, OwnPosts, MasksCounted,
         Launched, Working, ToConnect, Closing, BeganLast, Connected, ReadyIs, Held, Connecting,
         NoneWorks, Masked, LinkGone
    <2>5. Connected'
      BY <1>0, <1>1, <1>4, <2>0, GuiIs DEF LaunchTyped, Epochs, OwnEpochs, OwnPosts, MasksCounted,
         Launched, Working, ToConnect, Closing, BeganLast, Connected, ReadyIs, Held, Connecting,
         NoneWorks, Masked, LinkGone
    <2>6. ReadyIs'
      BY <1>0, <1>1, <1>4, <2>0, GuiIs DEF LaunchTyped, Epochs, OwnEpochs, OwnPosts, MasksCounted,
         Launched, Working, ToConnect, Closing, BeganLast, Connected, ReadyIs, Held, Connecting,
         NoneWorks, Masked, LinkGone
    <2>7. Held'
      BY <1>0, <1>1, <1>4, <2>0, GuiIs DEF LaunchTyped, Epochs, OwnEpochs, OwnPosts, MasksCounted,
         Launched, Working, ToConnect, Closing, BeganLast, Connected, ReadyIs, Held, Connecting,
         NoneWorks, Masked, LinkGone
    <2> QED
      BY <2>1, <2>2, <2>3, <2>4, <2>5, <2>6, <2>7
  <1> QED
    BY <1>1, <1>2, <1>3, <1>4 DEF LaunchInv, Undisturbed

LEMMA LStartNode ==
    ASSUME LaunchInv, Launch!NodeLaunchAssumption, NEW t \in Launch!Launches, Launch!StartNode(t)
    PROVE  LaunchInv'
  <1>0. LaunchTyped /\ Epochs /\ MasksCounted /\ Undisturbed /\ MaxRefresh \in Nat
    BY DEF LaunchInv, Launch!NodeLaunchAssumption
  <1>a. /\ thread[t].step = "node"
        /\ Moves(t, "connect")
        /\ node_py' = node_py \cup {t}
        /\ UNCHANGED <<state, epoch, creds, applied, gui, launch_link, refused, refresh, kills,
             lspad, hw_mask, masks, faults, ran_on, unkilled, late_refresh>>
    BY <1>0, ThreadMoves, GuiPosted DEF LaunchTyped, ThreadSteps, ThreadStates, Launch!StartNode,
       Launch!Launches, Launch!NoLink, Launch!User, Launch!Post, Launch!Goto, Launch!At,
       Launch!panel, Launch!node, Launch!counts, Launch!ghosts, Launch!NodeLaunchAssumption
  <1>1. LaunchTyped'
    <2>1. /\ state' \in {"idle", "launching", "ready"} /\ epoch' \in Nat
          /\ creds' \in BOOLEAN /\ refused' \in BOOLEAN /\ ran_on' \in BOOLEAN
          /\ late_refresh' \in BOOLEAN
      BY <1>0, <1>a DEF LaunchTyped, Posts
    <2>2. /\ masks' \in Nat /\ applied' \in 0 .. masks' /\ hw_mask' \in 0 .. masks'
          /\ launch_link' \in Launch!Launches \cup {Launch!NoLink}
      BY <1>0, <1>a DEF LaunchTyped, MasksCounted, ThreadStates, Launch!Launches, Launch!NoLink,
         Launch!User
    <2>3. /\ thread' \in [Launch!Launches -> ThreadStates] /\ refresh' \in ThreadStates
          /\ refresh'.step \in {"off", "mask", "record", "keep"}
      BY <1>0, <1>a DEF LaunchTyped, Moves, ThreadStates, ThreadSteps, Launch!Launches,
         Launch!NoLink, Launch!User
    <2>4. kills' \subseteq Launch!Launches \cup {Launch!User}
      BY <1>0, <1>a DEF LaunchTyped
    <2>5. /\ lspad' \subseteq Launch!Launches /\ node_py' \subseteq Launch!Launches
          /\ unkilled' \subseteq Launch!Launches
      BY <1>0, <1>a DEF LaunchTyped
    <2>6. gui' \in Seq(Posts) /\ faults' \in Nat /\ faults' <= MaxFaults
      BY <1>0, <1>a DEF LaunchTyped
    <2> QED
      BY <2>1, <2>2, <2>3, <2>4, <2>5, <2>6 DEF LaunchTyped
  <1>2. Epochs'
    <2>1. \A u \in Launch!Launches : (Launched(u)' <=> Launched(u)) /\
            thread'[u].epoch = thread[u].epoch
      BY <1>0, <1>a DEF OwnEpochs, Epochs, Launched, Moves
    <2>2. IsNow' <=> IsNow
      BY <2>1, <1>a DEF IsNow, Launch!Launches
    <2>3. Numbered'
      BY <2>1, <2>2, <1>0, <1>a DEF Epochs, Numbered, Launch!Launches
    <2>4. OwnEpochs'
      BY <2>1, <2>2, <1>0, <1>a DEF Epochs, OwnEpochs, LaunchTyped, ThreadStates, Launch!Launches,
         Launch!NoLink, Launch!User
    <2>5. OwnPosts'
      BY <2>1, <1>0, <1>a, <1>1, GuiIs DEF LaunchTyped, Epochs, OwnEpochs, OwnPosts, Launched,
         Launch!Launches, Launch!NoLink, Launch!User, IsNow
    <2> QED
      BY <2>3, <2>4, <2>5 DEF Epochs
  <1>3. MasksCounted'
    <2>1. MaskSent' = MaskSent
      BY <1>a DEF MaskSent, Moves, Launch!Launches
    <2> QED
      BY <2>1, <1>0, <1>a, MaskSentFinite DEF LaunchTyped, MasksCounted, Moves, ThreadStates,
         Launch!Launches, Launch!NoLink, Launch!User
  <1>4. ASSUME ~ran_on' PROVE Working' /\ ToConnect' /\ Closing' /\ BeganLast' /\ Connected' /\
               ReadyIs' /\ Held'
    <2>0. Working /\ ToConnect /\ Closing /\ BeganLast /\ Connected /\ ReadyIs /\ Held
      BY <1>0, <1>a, <1>4 DEF Undisturbed, LaunchTyped
    <2> USE <1>a DEF Launch!Launches, Launch!NoLink, Launch!User, Launch!Off, Launch!Alive,
        Moves, Posted, Run
    <2>1. Working'
      <3>1. \A u \in Launch!Launches : Launch!Alive(u)' => u = t
        BY <2>0 DEF Working
      <3>2. /\ thread[t].epoch = epoch /\ creds /\ launch_link = Launch!NoLink
            /\ refresh.step = "off" /\ kills = {} /\ Masked
            /\ \/ gui = <<>> /\ state = "launching"
               \/ gui = <<[what |-> "launching", epoch |-> epoch]>> /\ state = "idle"
        BY <1>0, <2>0 DEF Working
      <3>3. thread'[t].step = "connect" /\ thread'[t].epoch = epoch'
        BY <3>2
      <3>4. /\ creds' /\ launch_link' = Launch!NoLink /\ refresh'.step = "off" /\ kills' = {}
            /\ Masked'
            /\ \/ gui' = <<>> /\ state' = "launching"
               \/ gui' = <<[what |-> "launching", epoch |-> epoch']>> /\ state' = "idle"
        BY <3>2 DEF Masked
      <3>5. thread'[t].step = "node" => node_py' = {}
        OBVIOUS
      <3> SUFFICES ASSUME NEW u \in Launch!Launches, Launch!Alive(u)', u = t
                   PROVE  /\ \A w \in Launch!Launches : Launch!Alive(w)' => w = u
                          /\ thread'[u].step = "connect" /\ thread'[u].epoch = epoch'
        BY <3>1, <3>3, <3>4, <3>5 DEF Working
      <3> QED
        BY <3>1, <3>3
    <2>2. ToConnect'
      BY <1>0, <1>1, <1>4, <2>0, GuiIs DEF LaunchTyped, Epochs, OwnEpochs, OwnPosts, MasksCounted,
         Launched, Working, ToConnect, Closing, BeganLast, Connected, ReadyIs, Held, Connecting,
         NoneWorks, Masked, LinkGone
    <2>3. Closing'
      BY <1>0, <1>1, <1>4, <2>0, GuiIs DEF LaunchTyped, Epochs, OwnEpochs, OwnPosts, MasksCounted,
         Launched, Working, ToConnect, Closing, BeganLast, Connected, ReadyIs, Held, Connecting,
         NoneWorks, Masked, LinkGone
    <2>4. BeganLast'
      BY <1>0, <1>1, <1>4, <2>0, GuiIs DEF LaunchTyped, Epochs, OwnEpochs, OwnPosts, MasksCounted,
         Launched, Working, ToConnect, Closing, BeganLast, Connected, ReadyIs, Held, Connecting,
         NoneWorks, Masked, LinkGone
    <2>5. Connected'
      BY <1>0, <1>1, <1>4, <2>0, GuiIs DEF LaunchTyped, Epochs, OwnEpochs, OwnPosts, MasksCounted,
         Launched, Working, ToConnect, Closing, BeganLast, Connected, ReadyIs, Held, Connecting,
         NoneWorks, Masked, LinkGone
    <2>6. ReadyIs'
      BY <1>0, <1>1, <1>4, <2>0, GuiIs DEF LaunchTyped, Epochs, OwnEpochs, OwnPosts, MasksCounted,
         Launched, Working, ToConnect, Closing, BeganLast, Connected, ReadyIs, Held, Connecting,
         NoneWorks, Masked, LinkGone
    <2>7. Held'
      BY <1>0, <1>1, <1>4, <2>0, GuiIs DEF LaunchTyped, Epochs, OwnEpochs, OwnPosts, MasksCounted,
         Launched, Working, ToConnect, Closing, BeganLast, Connected, ReadyIs, Held, Connecting,
         NoneWorks, Masked, LinkGone
    <2> QED
      BY <2>1, <2>2, <2>3, <2>4, <2>5, <2>6, <2>7
  <1> QED
    BY <1>1, <1>2, <1>3, <1>4 DEF LaunchInv, Undisturbed

LEMMA LPostConnect ==
    ASSUME LaunchInv, Launch!NodeLaunchAssumption, NEW t \in Launch!Launches, Launch!PostConnect(t)
    PROVE  LaunchInv'
  <1>0. LaunchTyped /\ Epochs /\ MasksCounted /\ Undisturbed /\ MaxRefresh \in Nat
    BY DEF LaunchInv, Launch!NodeLaunchAssumption
  <1>a. /\ thread[t].step = "connect"
        /\ Moves(t, "end")
        /\ Posted("connect", thread[t].epoch)
        /\ UNCHANGED <<state, epoch, creds, applied, launch_link, refused, refresh, kills, lspad,
             hw_mask, node_py, masks, faults, ran_on, unkilled, late_refresh>>
    BY <1>0, ThreadMoves, GuiPosted DEF LaunchTyped, ThreadSteps, ThreadStates,
       Launch!PostConnect, Launch!Launches, Launch!NoLink, Launch!User, Launch!Post, Launch!Goto,
       Launch!At, Launch!node, Launch!counts, Launch!ghosts, Launch!NodeLaunchAssumption
  <1>1. LaunchTyped'
    <2>1. /\ state' \in {"idle", "launching", "ready"} /\ epoch' \in Nat
          /\ creds' \in BOOLEAN /\ refused' \in BOOLEAN /\ ran_on' \in BOOLEAN
          /\ late_refresh' \in BOOLEAN
      BY <1>0, <1>a DEF LaunchTyped, Posts
    <2>2. /\ masks' \in Nat /\ applied' \in 0 .. masks' /\ hw_mask' \in 0 .. masks'
          /\ launch_link' \in Launch!Launches \cup {Launch!NoLink}
      BY <1>0, <1>a DEF LaunchTyped, MasksCounted, ThreadStates, Launch!Launches, Launch!NoLink,
         Launch!User
    <2>3. /\ thread' \in [Launch!Launches -> ThreadStates] /\ refresh' \in ThreadStates
          /\ refresh'.step \in {"off", "mask", "record", "keep"}
      BY <1>0, <1>a DEF LaunchTyped, Moves, ThreadStates, ThreadSteps, Launch!Launches,
         Launch!NoLink, Launch!User
    <2>4. kills' \subseteq Launch!Launches \cup {Launch!User}
      BY <1>0, <1>a DEF LaunchTyped
    <2>5. /\ lspad' \subseteq Launch!Launches /\ node_py' \subseteq Launch!Launches
          /\ unkilled' \subseteq Launch!Launches
      BY <1>0, <1>a DEF LaunchTyped
    <2>6. gui' \in Seq(Posts) /\ faults' \in Nat /\ faults' <= MaxFaults
      BY <1>0, <1>a DEF LaunchTyped, Posted
    <2> QED
      BY <2>1, <2>2, <2>3, <2>4, <2>5, <2>6 DEF LaunchTyped
  <1>2. Epochs'
    <2>1. \A u \in Launch!Launches : (Launched(u)' <=> Launched(u)) /\
            thread'[u].epoch = thread[u].epoch
      BY <1>0, <1>a DEF OwnEpochs, Epochs, Launched, Moves
    <2>2. IsNow' <=> IsNow
      BY <2>1, <1>a DEF IsNow, Launch!Launches
    <2>3. Numbered'
      BY <2>1, <2>2, <1>0, <1>a DEF Epochs, Numbered, Launch!Launches
    <2>4. OwnEpochs'
      BY <2>1, <2>2, <1>0, <1>a DEF Epochs, OwnEpochs, LaunchTyped, ThreadStates, Launch!Launches,
         Launch!NoLink, Launch!User
    <2>5. OwnPosts'
      BY <2>1, <1>0, <1>a, <1>1, GuiIs DEF LaunchTyped, Epochs, OwnEpochs, OwnPosts, Launched,
         Launch!Launches, Launch!NoLink, Launch!User, Posted, IsNow
    <2> QED
      BY <2>3, <2>4, <2>5 DEF Epochs
  <1>3. MasksCounted'
    <2>1. MaskSent' = MaskSent
      BY <1>a DEF MaskSent, Moves, Launch!Launches
    <2> QED
      BY <2>1, <1>0, <1>a, MaskSentFinite DEF LaunchTyped, MasksCounted, Moves, ThreadStates,
         Launch!Launches, Launch!NoLink, Launch!User
  <1>4. ASSUME ~ran_on' PROVE Working' /\ ToConnect' /\ Closing' /\ BeganLast' /\ Connected' /\
               ReadyIs' /\ Held'
    <2>0. Working /\ ToConnect /\ Closing /\ BeganLast /\ Connected /\ ReadyIs /\ Held
      BY <1>0, <1>a, <1>4 DEF Undisturbed, LaunchTyped
    <2> USE <1>a DEF Launch!Launches, Launch!NoLink, Launch!User, Launch!Off, Launch!Alive,
        Moves, Posted, Run
    <2>1. Working'
      BY <1>0, <1>1, <1>4, <2>0, GuiIs DEF LaunchTyped, Epochs, OwnEpochs, OwnPosts, MasksCounted,
         Launched, Working, ToConnect, Closing, BeganLast, Connected, ReadyIs, Held, Connecting,
         NoneWorks, Masked, LinkGone
    <2>2. ToConnect'
      <3>1. /\ thread[t].epoch = epoch /\ creds /\ launch_link = Launch!NoLink
            /\ refresh.step = "off" /\ kills = {} /\ Masked'
            /\ \A u \in Launch!Launches : Launch!Alive(u) => u = t
            /\ \/ gui = <<>> /\ state = "launching"
               \/ gui = <<[what |-> "launching", epoch |-> epoch]>> /\ state = "idle"
        BY <2>0, MaskedKept DEF Working
      <3>2. NoneWorks'
        BY <3>1 DEF NoneWorks
      <3>3. CASE gui = <<>> /\ state = "launching"
        <4>1. Len(gui') = 1
          BY <3>3
        <4> QED
          BY <3>1, <3>2, <3>3, <4>1 DEF ToConnect
      <3>4. CASE gui = <<[what |-> "launching", epoch |-> epoch]>> /\ state = "idle"
        <4>1. Len(gui') = 2 /\ gui'[1] = [what |-> "launching", epoch |-> epoch]
          BY <3>4
        <4> QED
          BY <3>1, <3>2, <3>4, <4>1 DEF ToConnect
      <3> QED
        BY <3>1, <3>3, <3>4
    <2>3. Closing'
      BY <1>0, <1>1, <1>4, <2>0, GuiIs DEF LaunchTyped, Epochs, OwnEpochs, OwnPosts, MasksCounted,
         Launched, Working, ToConnect, Closing, BeganLast, Connected, ReadyIs, Held, Connecting,
         NoneWorks, Masked, LinkGone
    <2>4. BeganLast'
      BY <1>0, <1>1, <1>4, <2>0, GuiIs DEF LaunchTyped, Epochs, OwnEpochs, OwnPosts, MasksCounted,
         Launched, Working, ToConnect, Closing, BeganLast, Connected, ReadyIs, Held, Connecting,
         NoneWorks, Masked, LinkGone
    <2>5. Connected'
      BY <1>0, <1>1, <1>4, <2>0, GuiIs DEF LaunchTyped, Epochs, OwnEpochs, OwnPosts, MasksCounted,
         Launched, Working, ToConnect, Closing, BeganLast, Connected, ReadyIs, Held, Connecting,
         NoneWorks, Masked, LinkGone
    <2>6. ReadyIs'
      BY <1>0, <1>1, <1>4, <2>0, GuiIs DEF LaunchTyped, Epochs, OwnEpochs, OwnPosts, MasksCounted,
         Launched, Working, ToConnect, Closing, BeganLast, Connected, ReadyIs, Held, Connecting,
         NoneWorks, Masked, LinkGone
    <2>7. Held'
      BY <1>0, <1>1, <1>4, <2>0, GuiIs DEF LaunchTyped, Epochs, OwnEpochs, OwnPosts, MasksCounted,
         Launched, Working, ToConnect, Closing, BeganLast, Connected, ReadyIs, Held, Connecting,
         NoneWorks, Masked, LinkGone
    <2> QED
      BY <2>1, <2>2, <2>3, <2>4, <2>5, <2>6, <2>7
  <1> QED
    BY <1>1, <1>2, <1>3, <1>4 DEF LaunchInv, Undisturbed

LEMMA LLaunchFails ==
    ASSUME LaunchInv, Launch!NodeLaunchAssumption, NEW t \in Launch!Launches, Launch!LaunchFails(t)
    PROVE  LaunchInv'
  <1>0. LaunchTyped /\ Epochs /\ MasksCounted /\ Undisturbed /\ MaxRefresh \in Nat
    BY DEF LaunchInv, Launch!NodeLaunchAssumption
  <1>a. /\ thread[t].step \in {"start", "mask", "update", "node"}
        /\ Moves(t, "end")
        /\ Posted("idle", thread[t].epoch)
        /\ applied' = 0
        /\ creds' = FALSE
        /\ late_refresh' = FALSE
        /\ kills' = (IF creds THEN kills \cup {t} ELSE kills)
        /\ lspad' \in {lspad, lspad \cup {t}}
        /\ faults' \in Nat /\ faults' <= MaxFaults
        /\ UNCHANGED <<state, epoch, launch_link, refused, refresh, hw_mask, node_py, masks,
             ran_on, unkilled>>
    <2>1. thread[t].step \in {"start", "mask", "update", "node"}
      BY <1>0, ThreadMoves DEF LaunchTyped, ThreadSteps, ThreadStates, Launch!LaunchFails,
         Launch!Launches, Launch!NoLink, Launch!User, Launch!Dropped, Launch!TriggerShutdown,
         Launch!PostIdle, Launch!Goto, Launch!At, Launch!node
    <2>2. Moves(t, "end")
      BY <1>0, ThreadMoves DEF LaunchTyped, ThreadSteps, ThreadStates, Launch!LaunchFails,
         Launch!Launches, Launch!NoLink, Launch!User, Launch!Dropped, Launch!TriggerShutdown,
         Launch!PostIdle, Launch!At, Launch!node
    <2>3. Posted("idle", thread[t].epoch)
      BY <1>0, ThreadMoves, GuiPosted, GuiRuns DEF LaunchTyped, ThreadSteps, ThreadStates,
         Launch!LaunchFails, Launch!Launches, Launch!NoLink, Launch!User, Launch!Dropped,
         Launch!TriggerShutdown, Launch!PostIdle, Launch!At, Launch!panel, Launch!node
    <2>4. applied' = 0
      BY <1>0 DEF LaunchTyped, ThreadSteps, ThreadStates, Launch!LaunchFails, Launch!Launches,
         Launch!NoLink, Launch!User, Launch!Dropped, Launch!TriggerShutdown, Launch!PostIdle,
         Launch!At, Launch!node
    <2>5. creds' = FALSE /\ late_refresh' = FALSE
      BY <1>0 DEF LaunchTyped, ThreadSteps, ThreadStates, Launch!LaunchFails, Launch!Launches,
         Launch!NoLink, Launch!User, Launch!Dropped, Launch!TriggerShutdown, Launch!PostIdle,
         Launch!At, Launch!node
    <2>6. kills' = (IF creds THEN kills \cup {t} ELSE kills)
      BY <1>0 DEF LaunchTyped, ThreadSteps, ThreadStates, Launch!LaunchFails, Launch!Launches,
         Launch!NoLink, Launch!User, Launch!Dropped, Launch!TriggerShutdown, Launch!PostIdle,
         Launch!At, Launch!node
    <2>7. lspad' \in {lspad, lspad \cup {t}}
      BY <1>0 DEF LaunchTyped, ThreadSteps, ThreadStates, Launch!LaunchFails, Launch!Launches,
         Launch!NoLink, Launch!User, Launch!Dropped, Launch!TriggerShutdown, Launch!PostIdle,
         Launch!At, Launch!node
    <2>8. faults' \in Nat /\ faults' <= MaxFaults
      <3>1. faults \in Nat /\ faults <= MaxFaults /\ MaxFaults \in Nat
        BY <1>0 DEF LaunchTyped, Launch!NodeLaunchAssumption
      <3>2. faults' = faults \/ (faults < MaxFaults /\ faults' = faults + 1)
        BY DEF Launch!LaunchFails, Launch!Fault
      <3> QED
        BY <3>1, <3>2
    <2>9. UNCHANGED <<state, epoch, launch_link, refused, refresh, hw_mask, node_py, masks,
            ran_on, unkilled>>
      BY <1>0, ThreadMoves DEF LaunchTyped, Launch!LaunchFails, Launch!Launches, Launch!NoLink,
         Launch!User, Launch!Dropped, Launch!TriggerShutdown, Launch!PostIdle, Launch!Goto,
         Launch!At, Launch!node
    <2> QED
      BY <2>1, <2>2, <2>3, <2>4, <2>5, <2>6, <2>7, <2>8, <2>9
  <1>1. LaunchTyped'
    <2>1. /\ state' \in {"idle", "launching", "ready"} /\ epoch' \in Nat
          /\ creds' \in BOOLEAN /\ refused' \in BOOLEAN /\ ran_on' \in BOOLEAN
          /\ late_refresh' \in BOOLEAN
      BY <1>0, <1>a DEF LaunchTyped, Posts
    <2>2. /\ masks' \in Nat /\ applied' \in 0 .. masks' /\ hw_mask' \in 0 .. masks'
          /\ launch_link' \in Launch!Launches \cup {Launch!NoLink}
      BY <1>0, <1>a DEF LaunchTyped, MasksCounted, ThreadStates, Launch!Launches, Launch!NoLink,
         Launch!User
    <2>3. /\ thread' \in [Launch!Launches -> ThreadStates] /\ refresh' \in ThreadStates
          /\ refresh'.step \in {"off", "mask", "record", "keep"}
      BY <1>0, <1>a DEF LaunchTyped, Moves, ThreadStates, ThreadSteps, Launch!Launches,
         Launch!NoLink, Launch!User
    <2>4. kills' \subseteq Launch!Launches \cup {Launch!User}
      BY <1>0, <1>a DEF LaunchTyped
    <2>5. /\ lspad' \subseteq Launch!Launches /\ node_py' \subseteq Launch!Launches
          /\ unkilled' \subseteq Launch!Launches
      BY <1>0, <1>a DEF LaunchTyped
    <2>6. gui' \in Seq(Posts) /\ faults' \in Nat /\ faults' <= MaxFaults
      BY <1>0, <1>a DEF LaunchTyped, Posted
    <2> QED
      BY <2>1, <2>2, <2>3, <2>4, <2>5, <2>6 DEF LaunchTyped
  <1>2. Epochs'
    <2>1. \A u \in Launch!Launches : (Launched(u)' <=> Launched(u)) /\
            thread'[u].epoch = thread[u].epoch
      BY <1>0, <1>a DEF OwnEpochs, Epochs, Launched, Moves
    <2>2. IsNow' <=> IsNow
      BY <2>1, <1>a DEF IsNow, Launch!Launches
    <2>3. Numbered'
      BY <2>1, <2>2, <1>0, <1>a DEF Epochs, Numbered, Launch!Launches
    <2>4. OwnEpochs'
      BY <2>1, <2>2, <1>0, <1>a DEF Epochs, OwnEpochs, LaunchTyped, ThreadStates, Launch!Launches,
         Launch!NoLink, Launch!User
    <2>5. OwnPosts'
      BY <2>1, <1>0, <1>a, <1>1, GuiIs DEF LaunchTyped, Epochs, OwnEpochs, OwnPosts, Launched,
         Launch!Launches, Launch!NoLink, Launch!User, Posted, IsNow
    <2> QED
      BY <2>3, <2>4, <2>5 DEF Epochs
  <1>3. MasksCounted'
    <2>1. MaskSent' = MaskSent
      BY <1>a DEF MaskSent, Moves, Launch!Launches
    <2> QED
      BY <2>1, <1>0, <1>a, MaskSentFinite DEF LaunchTyped, MasksCounted, Moves, ThreadStates,
         Launch!Launches, Launch!NoLink, Launch!User
  <1>4. ASSUME ~ran_on' PROVE Working' /\ ToConnect' /\ Closing' /\ BeganLast' /\ Connected' /\
               ReadyIs' /\ Held'
    <2>0. Working /\ ToConnect /\ Closing /\ BeganLast /\ Connected /\ ReadyIs /\ Held
      BY <1>0, <1>a, <1>4 DEF Undisturbed, LaunchTyped
    <2> USE <1>a DEF Launch!Launches, Launch!NoLink, Launch!User, Launch!Off, Launch!Alive,
        Moves, Posted, Run
    <2>1. Working'
      BY <1>0, <1>1, <1>4, <2>0, GuiIs DEF LaunchTyped, Epochs, OwnEpochs, OwnPosts, MasksCounted,
         Launched, Working, ToConnect, Closing, BeganLast, Connected, ReadyIs, Held, Connecting,
         NoneWorks, Masked, LinkGone
    <2>2. ToConnect'
      BY <1>0, <1>1, <1>4, <2>0, GuiIs DEF LaunchTyped, Epochs, OwnEpochs, OwnPosts, MasksCounted,
         Launched, Working, ToConnect, Closing, BeganLast, Connected, ReadyIs, Held, Connecting,
         NoneWorks, Masked, LinkGone
    <2>3. Closing'
      <3>1. /\ thread[t].epoch = epoch /\ creds /\ launch_link = Launch!NoLink /\
                 refresh.step = "off"
            /\ \A u \in Launch!Launches : Launch!Alive(u) => u = t
            /\ \/ gui = <<>> /\ state = "launching"
               \/ gui = <<[what |-> "launching", epoch |-> epoch]>> /\ state = "idle"
        BY <2>0 DEF Working
      <3>2. NoneWorks'
        BY <3>1 DEF NoneWorks
      <3>3. CASE gui = <<>> /\ state = "launching"
        <4>1. Len(gui') = 1 /\ gui'[1].what = "idle"
          BY <3>3
        <4> QED
          BY <3>1, <3>2, <4>1 DEF Closing
      <3>4. CASE gui = <<[what |-> "launching", epoch |-> epoch]>> /\ state = "idle"
        <4>1. Len(gui') = 2 /\ gui'[1] = [what |-> "launching", epoch |-> epoch]
          BY <3>4
        <4> QED
          BY <3>1, <3>2, <3>4, <4>1 DEF Closing
      <3> QED
        BY <3>1, <3>3, <3>4
    <2>4. BeganLast'
      BY <1>0, <1>1, <1>4, <2>0, GuiIs DEF LaunchTyped, Epochs, OwnEpochs, OwnPosts, MasksCounted,
         Launched, Working, ToConnect, Closing, BeganLast, Connected, ReadyIs, Held, Connecting,
         NoneWorks, Masked, LinkGone
    <2>5. Connected'
      BY <1>0, <1>1, <1>4, <2>0, GuiIs DEF LaunchTyped, Epochs, OwnEpochs, OwnPosts, MasksCounted,
         Launched, Working, ToConnect, Closing, BeganLast, Connected, ReadyIs, Held, Connecting,
         NoneWorks, Masked, LinkGone
    <2>6. ReadyIs'
      BY <1>0, <1>1, <1>4, <2>0, GuiIs DEF LaunchTyped, Epochs, OwnEpochs, OwnPosts, MasksCounted,
         Launched, Working, ToConnect, Closing, BeganLast, Connected, ReadyIs, Held, Connecting,
         NoneWorks, Masked, LinkGone
    <2>7. Held'
      BY <1>0, <1>1, <1>4, <2>0, GuiIs DEF LaunchTyped, Epochs, OwnEpochs, OwnPosts, MasksCounted,
         Launched, Working, ToConnect, Closing, BeganLast, Connected, ReadyIs, Held, Connecting,
         NoneWorks, Masked, LinkGone
    <2> QED
      BY <2>1, <2>2, <2>3, <2>4, <2>5, <2>6, <2>7
  <1> QED
    BY <1>1, <1>2, <1>3, <1>4 DEF LaunchInv, Undisturbed

LEMMA LDisconnect ==
    ASSUME LaunchInv, Launch!NodeLaunchAssumption, Launch!Disconnect
    PROVE  LaunchInv'
  <1>0. LaunchTyped /\ Epochs /\ MasksCounted /\ Undisturbed /\ MaxRefresh \in Nat
    BY DEF LaunchInv, Launch!NodeLaunchAssumption
  <1>a. /\ state = "ready"
        /\ launch_link # Launch!NoLink
        /\ launch_link' = Launch!NoLink
        /\ Posted("idle", 0)
        /\ applied' = 0
        /\ creds' = FALSE
        /\ late_refresh' = FALSE
        /\ kills' = (IF creds THEN kills \cup {Launch!User} ELSE kills)
        /\ UNCHANGED <<state, epoch, refused, thread, refresh, lspad, hw_mask, node_py, masks,
             faults, ran_on, unkilled>>
    BY <1>0, ThreadMoves, GuiPosted DEF LaunchTyped, ThreadSteps, ThreadStates, Launch!Disconnect,
       Launch!Launches, Launch!NoLink, Launch!User, Launch!Dropped, Launch!TriggerShutdown,
       Launch!Post, Launch!Goto, Launch!node, Launch!counts, Launch!ghosts,
       Launch!NodeLaunchAssumption
  <1>1. LaunchTyped'
    <2>1. /\ state' \in {"idle", "launching", "ready"} /\ epoch' \in Nat
          /\ creds' \in BOOLEAN /\ refused' \in BOOLEAN /\ ran_on' \in BOOLEAN
          /\ late_refresh' \in BOOLEAN
      BY <1>0, <1>a DEF LaunchTyped, Posts
    <2>2. /\ masks' \in Nat /\ applied' \in 0 .. masks' /\ hw_mask' \in 0 .. masks'
          /\ launch_link' \in Launch!Launches \cup {Launch!NoLink}
      BY <1>0, <1>a DEF LaunchTyped, MasksCounted, ThreadStates, Launch!Launches, Launch!NoLink,
         Launch!User
    <2>3. /\ thread' \in [Launch!Launches -> ThreadStates] /\ refresh' \in ThreadStates
          /\ refresh'.step \in {"off", "mask", "record", "keep"}
      BY <1>0, <1>a DEF LaunchTyped, ThreadStates, ThreadSteps, Launch!Launches, Launch!NoLink,
         Launch!User
    <2>4. kills' \subseteq Launch!Launches \cup {Launch!User}
      BY <1>0, <1>a DEF LaunchTyped
    <2>5. /\ lspad' \subseteq Launch!Launches /\ node_py' \subseteq Launch!Launches
          /\ unkilled' \subseteq Launch!Launches
      BY <1>0, <1>a DEF LaunchTyped
    <2>6. gui' \in Seq(Posts) /\ faults' \in Nat /\ faults' <= MaxFaults
      BY <1>0, <1>a DEF LaunchTyped, Posted
    <2> QED
      BY <2>1, <2>2, <2>3, <2>4, <2>5, <2>6 DEF LaunchTyped
  <1>2. Epochs'
    <2>1. \A u \in Launch!Launches : (Launched(u)' <=> Launched(u)) /\
            thread'[u].epoch = thread[u].epoch
      BY <1>0, <1>a DEF OwnEpochs, Epochs, Launched
    <2>2. IsNow' <=> IsNow
      BY <2>1, <1>a DEF IsNow, Launch!Launches, Launch!NoLink, Launch!User
    <2>3. Numbered'
      BY <2>1, <2>2, <1>0, <1>a DEF Epochs, Numbered, Launch!Launches, Launch!NoLink, Launch!User
    <2>4. OwnEpochs'
      BY <2>1, <2>2, <1>0, <1>a DEF Epochs, OwnEpochs, LaunchTyped, ThreadStates, Launch!Launches,
         Launch!NoLink, Launch!User
    <2>5. OwnPosts'
      <3>1. gui'[Len(gui) + 1].what = "idle" /\ gui'[Len(gui) + 1].epoch = 0
        BY <1>a DEF Posted
      <3>2. DOMAIN gui' = 1 .. Len(gui) + 1 /\ DOMAIN gui = 1 .. Len(gui) /\ Len(gui) \in Nat
        BY <1>0, <1>a, GuiIs DEF Posted
      <3> QED
        BY <2>1, <3>1, <3>2, <1>0, <1>a DEF Epochs, OwnPosts, Posted
    <2> QED
      BY <2>3, <2>4, <2>5 DEF Epochs
  <1>3. MasksCounted'
    <2>1. MaskSent' = MaskSent
      BY <1>a DEF MaskSent, Launch!Launches, Launch!NoLink, Launch!User
    <2> QED
      BY <2>1, <1>0, <1>a, MaskSentFinite DEF LaunchTyped, MasksCounted, ThreadStates,
         Launch!Launches, Launch!NoLink, Launch!User
  <1>4. ASSUME ~ran_on' PROVE Working' /\ ToConnect' /\ Closing' /\ BeganLast' /\ Connected' /\
               ReadyIs' /\ Held'
    <2>0. Working /\ ToConnect /\ Closing /\ BeganLast /\ Connected /\ ReadyIs /\ Held
      BY <1>0, <1>a, <1>4 DEF Undisturbed, LaunchTyped
    <2> USE <1>a DEF Launch!Launches, Launch!NoLink, Launch!User, Launch!Off, Launch!Alive,
        Moves, Posted, Run
    <2>1. Working'
      BY <1>0, <1>1, <1>4, <2>0, GuiIs DEF LaunchTyped, Epochs, OwnEpochs, OwnPosts, MasksCounted,
         Launched, Working, ToConnect, Closing, BeganLast, Connected, ReadyIs, Held, Connecting,
         NoneWorks, Masked, LinkGone
    <2>2. ToConnect'
      BY <1>0, <1>1, <1>4, <2>0, GuiIs DEF LaunchTyped, Epochs, OwnEpochs, OwnPosts, MasksCounted,
         Launched, Working, ToConnect, Closing, BeganLast, Connected, ReadyIs, Held, Connecting,
         NoneWorks, Masked, LinkGone
    <2>3. Closing'
      BY <1>0, <1>1, <1>4, <2>0, GuiIs DEF LaunchTyped, Epochs, OwnEpochs, OwnPosts, MasksCounted,
         Launched, Working, ToConnect, Closing, BeganLast, Connected, ReadyIs, Held, Connecting,
         NoneWorks, Masked, LinkGone
    <2>4. BeganLast'
      BY <1>0, <1>1, <1>4, <2>0, GuiIs DEF LaunchTyped, Epochs, OwnEpochs, OwnPosts, MasksCounted,
         Launched, Working, ToConnect, Closing, BeganLast, Connected, ReadyIs, Held, Connecting,
         NoneWorks, Masked, LinkGone
    <2>5. Connected'
      BY <1>0, <1>1, <1>4, <2>0, GuiIs DEF LaunchTyped, Epochs, OwnEpochs, OwnPosts, MasksCounted,
         Launched, Working, ToConnect, Closing, BeganLast, Connected, ReadyIs, Held, Connecting,
         NoneWorks, Masked, LinkGone
    <2>6. ReadyIs'
      BY <1>0, <1>1, <1>4, <2>0, GuiIs DEF LaunchTyped, Epochs, OwnEpochs, OwnPosts, MasksCounted,
         Launched, Working, ToConnect, Closing, BeganLast, Connected, ReadyIs, Held, Connecting,
         NoneWorks, Masked, LinkGone
    <2>7. Held'
      BY <1>0, <1>1, <1>4, <2>0, GuiIs DEF LaunchTyped, Epochs, OwnEpochs, OwnPosts, MasksCounted,
         Launched, Working, ToConnect, Closing, BeganLast, Connected, ReadyIs, Held, Connecting,
         NoneWorks, Masked, LinkGone
    <2> QED
      BY <2>1, <2>2, <2>3, <2>4, <2>5, <2>6, <2>7
  <1> QED
    BY <1>1, <1>2, <1>3, <1>4 DEF LaunchInv, Undisturbed

LEMMA LLinkLost ==
    ASSUME LaunchInv, Launch!NodeLaunchAssumption, Launch!LinkLost
    PROVE  LaunchInv'
  <1>0. LaunchTyped /\ Epochs /\ MasksCounted /\ Undisturbed /\ MaxRefresh \in Nat
    BY DEF LaunchInv, Launch!NodeLaunchAssumption
  <1>a. /\ launch_link # Launch!NoLink
        /\ launch_link' = Launch!NoLink
        /\ Posted("idle", 0)
        /\ faults' \in Nat /\ faults' <= MaxFaults
        /\ UNCHANGED <<state, epoch, creds, applied, refused, thread, refresh, kills, lspad,
             hw_mask, node_py, masks, ran_on, unkilled, late_refresh>>
    <2>1. launch_link # Launch!NoLink
      BY <1>0 DEF LaunchTyped, ThreadSteps, ThreadStates, Launch!LinkLost, Launch!Launches,
         Launch!NoLink, Launch!User, Launch!node
    <2>2. launch_link' = Launch!NoLink
      BY <1>0 DEF LaunchTyped, ThreadSteps, ThreadStates, Launch!LinkLost, Launch!Launches,
         Launch!NoLink, Launch!User, Launch!node
    <2>3. Posted("idle", 0)
      BY <1>0, GuiPosted, GuiRuns DEF LaunchTyped, ThreadSteps, ThreadStates, Launch!LinkLost,
         Launch!Launches, Launch!NoLink, Launch!User, Launch!node
    <2>5. faults' \in Nat /\ faults' <= MaxFaults
      <3>1. faults \in Nat /\ faults <= MaxFaults /\ MaxFaults \in Nat
        BY <1>0 DEF LaunchTyped, Launch!NodeLaunchAssumption
      <3>2. faults' = faults \/ (faults < MaxFaults /\ faults' = faults + 1)
        BY DEF Launch!LinkLost, Launch!Fault
      <3> QED
        BY <3>1, <3>2
    <2>6. UNCHANGED <<state, epoch, creds, applied, refused, thread, refresh, kills, lspad,
            hw_mask, node_py, masks, ran_on, unkilled, late_refresh>>
      BY <1>0, ThreadMoves DEF LaunchTyped, Launch!LinkLost, Launch!Launches, Launch!NoLink,
         Launch!User, Launch!Goto, Launch!node, Launch!ghosts
    <2> QED
      BY <2>1, <2>2, <2>3, <2>5, <2>6
  <1>1. LaunchTyped'
    <2>1. /\ state' \in {"idle", "launching", "ready"} /\ epoch' \in Nat
          /\ creds' \in BOOLEAN /\ refused' \in BOOLEAN /\ ran_on' \in BOOLEAN
          /\ late_refresh' \in BOOLEAN
      BY <1>0, <1>a DEF LaunchTyped, Posts
    <2>2. /\ masks' \in Nat /\ applied' \in 0 .. masks' /\ hw_mask' \in 0 .. masks'
          /\ launch_link' \in Launch!Launches \cup {Launch!NoLink}
      BY <1>0, <1>a DEF LaunchTyped, MasksCounted, ThreadStates, Launch!Launches, Launch!NoLink,
         Launch!User
    <2>3. /\ thread' \in [Launch!Launches -> ThreadStates] /\ refresh' \in ThreadStates
          /\ refresh'.step \in {"off", "mask", "record", "keep"}
      BY <1>0, <1>a DEF LaunchTyped, ThreadStates, ThreadSteps, Launch!Launches, Launch!NoLink,
         Launch!User
    <2>4. kills' \subseteq Launch!Launches \cup {Launch!User}
      BY <1>0, <1>a DEF LaunchTyped
    <2>5. /\ lspad' \subseteq Launch!Launches /\ node_py' \subseteq Launch!Launches
          /\ unkilled' \subseteq Launch!Launches
      BY <1>0, <1>a DEF LaunchTyped
    <2>6. gui' \in Seq(Posts) /\ faults' \in Nat /\ faults' <= MaxFaults
      BY <1>0, <1>a DEF LaunchTyped, Posted
    <2> QED
      BY <2>1, <2>2, <2>3, <2>4, <2>5, <2>6 DEF LaunchTyped
  <1>2. Epochs'
    <2>1. \A u \in Launch!Launches : (Launched(u)' <=> Launched(u)) /\
            thread'[u].epoch = thread[u].epoch
      BY <1>0, <1>a DEF OwnEpochs, Epochs, Launched
    <2>2. IsNow' <=> IsNow
      BY <2>1, <1>a DEF IsNow, Launch!Launches, Launch!NoLink
    <2>3. Numbered'
      BY <2>1, <2>2, <1>0, <1>a DEF Epochs, Numbered, Launch!Launches, Launch!NoLink
    <2>4. OwnEpochs'
      BY <2>1, <2>2, <1>0, <1>a DEF Epochs, OwnEpochs, LaunchTyped, ThreadStates, Launch!Launches,
         Launch!NoLink, Launch!User
    <2>5. OwnPosts'
      <3>1. gui'[Len(gui) + 1].what = "idle" /\ gui'[Len(gui) + 1].epoch = 0
        BY <1>a DEF Posted
      <3>2. DOMAIN gui' = 1 .. Len(gui) + 1 /\ DOMAIN gui = 1 .. Len(gui) /\ Len(gui) \in Nat
        BY <1>0, <1>a, GuiIs DEF Posted
      <3> QED
        BY <2>1, <3>1, <3>2, <1>0, <1>a DEF Epochs, OwnPosts, Posted
    <2> QED
      BY <2>3, <2>4, <2>5 DEF Epochs
  <1>3. MasksCounted'
    <2>1. MaskSent' = MaskSent
      BY <1>a DEF MaskSent, Launch!Launches, Launch!NoLink
    <2> QED
      BY <2>1, <1>0, <1>a, MaskSentFinite DEF LaunchTyped, MasksCounted, ThreadStates,
         Launch!Launches, Launch!NoLink, Launch!User
  <1>4. ASSUME ~ran_on' PROVE Working' /\ ToConnect' /\ Closing' /\ BeganLast' /\ Connected' /\
               ReadyIs' /\ Held'
    <2>0. Working /\ ToConnect /\ Closing /\ BeganLast /\ Connected /\ ReadyIs /\ Held
      BY <1>0, <1>a, <1>4 DEF Undisturbed, LaunchTyped
    <2> USE <1>a DEF Launch!Launches, Launch!NoLink, Launch!User, Launch!Off, Launch!Alive,
        Moves, Posted, Run
    <2>1. Working'
      BY <1>0, <1>1, <1>4, <2>0, GuiIs DEF LaunchTyped, Epochs, OwnEpochs, OwnPosts, MasksCounted,
         Launched, Working, ToConnect, Closing, BeganLast, Connected, ReadyIs, Held, Connecting,
         NoneWorks, Masked, LinkGone
    <2>2. ToConnect'
      BY <1>0, <1>1, <1>4, <2>0, GuiIs DEF LaunchTyped, Epochs, OwnEpochs, OwnPosts, MasksCounted,
         Launched, Working, ToConnect, Closing, BeganLast, Connected, ReadyIs, Held, Connecting,
         NoneWorks, Masked, LinkGone
    <2>3. Closing'
      BY <1>0, <1>1, <1>4, <2>0, GuiIs DEF LaunchTyped, Epochs, OwnEpochs, OwnPosts, MasksCounted,
         Launched, Working, ToConnect, Closing, BeganLast, Connected, ReadyIs, Held, Connecting,
         NoneWorks, Masked, LinkGone
    <2>4. BeganLast'
      BY <1>0, <1>1, <1>4, <2>0, GuiIs DEF LaunchTyped, Epochs, OwnEpochs, OwnPosts, MasksCounted,
         Launched, Working, ToConnect, Closing, BeganLast, Connected, ReadyIs, Held, Connecting,
         NoneWorks, Masked, LinkGone
    <2>5. Connected'
      BY <1>0, <1>1, <1>4, <2>0, GuiIs DEF LaunchTyped, Epochs, OwnEpochs, OwnPosts, MasksCounted,
         Launched, Working, ToConnect, Closing, BeganLast, Connected, ReadyIs, Held, Connecting,
         NoneWorks, Masked, LinkGone
    <2>6. ReadyIs'
      BY <1>0, <1>1, <1>4, <2>0, GuiIs DEF LaunchTyped, Epochs, OwnEpochs, OwnPosts, MasksCounted,
         Launched, Working, ToConnect, Closing, BeganLast, Connected, ReadyIs, Held, Connecting,
         NoneWorks, Masked, LinkGone
    <2>7. Held'
      BY <1>0, <1>1, <1>4, <2>0, GuiIs DEF LaunchTyped, Epochs, OwnEpochs, OwnPosts, MasksCounted,
         Launched, Working, ToConnect, Closing, BeganLast, Connected, ReadyIs, Held, Connecting,
         NoneWorks, Masked, LinkGone
    <2> QED
      BY <2>1, <2>2, <2>3, <2>4, <2>5, <2>6, <2>7
  <1> QED
    BY <1>1, <1>2, <1>3, <1>4 DEF LaunchInv, Undisturbed

LEMMA LOnLaunch ==
    ASSUME LaunchInv, Launch!NodeLaunchAssumption, NEW m \in BOOLEAN, Launch!OnLaunch(m)
    PROVE  LaunchInv'
  <1>0. LaunchTyped /\ Epochs /\ MasksCounted /\ Undisturbed /\ MaxRefresh \in Nat
    BY DEF LaunchInv, Launch!NodeLaunchAssumption
  <1>a. /\ state = "idle"
        /\ Launch!Started < MaxLaunches
        /\ epoch' = epoch + 1
        /\ creds' = TRUE
        /\ thread' = [thread EXCEPT ![Launch!Started + 1] = [step |-> "begin",
             epoch |-> epoch + 1, mask |-> m, sent |-> 0]]
        /\ (~ran_on' => ~ran_on /\ (\A u \in Launch!Launches : ~Launch!Alive(u)) /\
             refresh.step = "off" /\ kills = {} /\ gui = <<>>)
        /\ ran_on' \in BOOLEAN
        /\ UNCHANGED <<state, applied, gui, launch_link, refused, refresh, kills, lspad, hw_mask,
             node_py, masks, faults, unkilled, late_refresh>>
    <2>1. state = "idle"
      BY <1>0 DEF LaunchTyped, ThreadSteps, ThreadStates, Launch!OnLaunch, Launch!Launches,
         Launch!NoLink, Launch!User, Launch!SomeAlive, Launch!Alive, Launch!node, Launch!counts, Launch!ghosts
    <2>2. Launch!Started < MaxLaunches
      BY <1>0 DEF LaunchTyped, ThreadSteps, ThreadStates, Launch!OnLaunch, Launch!Launches,
         Launch!NoLink, Launch!User, Launch!SomeAlive, Launch!Alive, Launch!node, Launch!counts, Launch!ghosts
    <2>3. epoch' = epoch + 1
      BY <1>0 DEF LaunchTyped, ThreadSteps, ThreadStates, Launch!OnLaunch, Launch!Launches,
         Launch!NoLink, Launch!User, Launch!SomeAlive, Launch!Alive, Launch!node, Launch!counts, Launch!ghosts
    <2>4. creds' = TRUE
      BY <1>0 DEF LaunchTyped, ThreadSteps, ThreadStates, Launch!OnLaunch, Launch!Launches,
         Launch!NoLink, Launch!User, Launch!SomeAlive, Launch!Alive, Launch!node, Launch!counts, Launch!ghosts
    <2>5. thread' = [thread EXCEPT ![Launch!Started + 1] = [step |-> "begin",
            epoch |-> epoch + 1, mask |-> m, sent |-> 0]]
      BY <1>0, ThreadMoves DEF LaunchTyped, ThreadSteps, ThreadStates, Launch!OnLaunch,
         Launch!Launches, Launch!NoLink, Launch!User, Launch!SomeAlive, Launch!Alive, Launch!Goto,
         Launch!node, Launch!counts, Launch!ghosts
    <2>6. (~ran_on' => ~ran_on /\ (\A u \in Launch!Launches : ~Launch!Alive(u)) /\
            refresh.step = "off" /\ kills = {} /\ gui = <<>>)
      BY <1>0, ThreadMoves, GuiRuns DEF LaunchTyped, ThreadSteps, ThreadStates, Launch!OnLaunch,
         Launch!Launches, Launch!NoLink, Launch!User, Launch!SomeAlive, Launch!Alive, Launch!Post,
         Launch!Goto, Launch!node, Launch!counts, Launch!ghosts
    <2>7. ran_on' \in BOOLEAN
      BY <1>0 DEF LaunchTyped, ThreadSteps, ThreadStates, Launch!OnLaunch, Launch!Launches,
         Launch!NoLink, Launch!User, Launch!SomeAlive, Launch!Alive, Launch!node, Launch!counts, Launch!ghosts
    <2>8. UNCHANGED <<state, applied, gui, launch_link, refused, refresh, kills, lspad, hw_mask,
            node_py, masks, faults, unkilled, late_refresh>>
      BY <1>0, ThreadMoves, GuiRuns DEF LaunchTyped, Launch!OnLaunch, Launch!Launches,
         Launch!NoLink, Launch!User, Launch!SomeAlive, Launch!Alive, Launch!Post, Launch!Goto,
         Launch!node, Launch!counts, Launch!ghosts, Launch!NodeLaunchAssumption
    <2> QED
      BY <2>1, <2>2, <2>3, <2>4, <2>5, <2>6, <2>7, <2>8
  <1>1. LaunchTyped'
    <2>1. /\ state' \in {"idle", "launching", "ready"} /\ epoch' \in Nat
          /\ creds' \in BOOLEAN /\ refused' \in BOOLEAN /\ ran_on' \in BOOLEAN
          /\ late_refresh' \in BOOLEAN
      BY <1>0, <1>a DEF LaunchTyped, Posts
    <2>2. /\ masks' \in Nat /\ applied' \in 0 .. masks' /\ hw_mask' \in 0 .. masks'
          /\ launch_link' \in Launch!Launches \cup {Launch!NoLink}
      BY <1>0, <1>a DEF LaunchTyped, MasksCounted, ThreadStates, Launch!Launches, Launch!NoLink,
         Launch!User
    <2>3. /\ thread' \in [Launch!Launches -> ThreadStates] /\ refresh' \in ThreadStates
          /\ refresh'.step \in {"off", "mask", "record", "keep"}
      <3>1. [step |-> "begin", epoch |-> epoch + 1, mask |-> m, sent |-> 0] \in ThreadStates
        BY <1>0 DEF LaunchTyped, ThreadStates, ThreadSteps
      <3> QED
        BY <3>1, <1>0, <1>a DEF LaunchTyped
    <2>4. kills' \subseteq Launch!Launches \cup {Launch!User}
      BY <1>0, <1>a DEF LaunchTyped
    <2>5. /\ lspad' \subseteq Launch!Launches /\ node_py' \subseteq Launch!Launches
          /\ unkilled' \subseteq Launch!Launches
      BY <1>0, <1>a DEF LaunchTyped
    <2>6. gui' \in Seq(Posts) /\ faults' \in Nat /\ faults' <= MaxFaults
      BY <1>0, <1>a DEF LaunchTyped
    <2> QED
      BY <2>1, <2>2, <2>3, <2>4, <2>5, <2>6 DEF LaunchTyped
  <1>2. Epochs'
    <2> DEFINE n == Launch!Started
    <2>0. /\ n \in 0 .. MaxLaunches /\ epoch <= 2 * n /\ (IsNow => epoch < 2 * n) /\
               n + 1 \in Launch!Launches
          /\ \A t \in Launch!Launches : Launched(t) <=> t <= n
      BY <1>0, <1>a, StartedIs DEF Epochs, Launch!Launches, Launch!NodeLaunchAssumption
    <2>1. /\ thread'[n + 1] = [step |-> "begin", epoch |-> epoch + 1, mask |-> m, sent |-> 0]
          /\ \A t \in Launch!Launches : t # n + 1 => thread'[t] = thread[t]
      BY <2>0, <1>0, <1>a DEF LaunchTyped
    <2> HIDE DEF n
    <2>2. \A t \in Launch!Launches : Launched(t)' <=> t <= n + 1
      BY <2>0, <2>1 DEF Launched, Launch!Launches, Launch!NodeLaunchAssumption
    <2>3. Numbered'
      <3> DEFINE k == n + 1
      <3>1. k \in 0 .. MaxLaunches /\ epoch' <= 2 * k /\ epoch' < 2 * k
        BY <2>0, <1>0, <1>a DEF LaunchTyped, Launch!Launches, Launch!NodeLaunchAssumption
      <3>2. \A t \in Launch!Launches : Launched(t)' <=> t <= k
        BY <2>2
      <3> HIDE DEF k
      <3> QED
        BY <3>1, <3>2, Zenon DEF Numbered
    <2>4. \A t \in Launch!Launches : thread'[t].epoch <= epoch' /\
            (Launched(t)' <=> thread'[t].epoch # 0)
      BY <2>0, <2>1, <1>0, <1>a DEF Epochs, OwnEpochs, LaunchTyped, ThreadStates, Launched
    <2>5. OwnEpochs'
      BY <2>4, <1>0, <1>a DEF Epochs, OwnEpochs, LaunchTyped, ThreadStates
    <2>6. OwnPosts'
      <3>1. ASSUME NEW t \in Launch!Launches,
                   thread[t].epoch # 0 PROVE thread'[t].epoch = thread[t].epoch
        BY <3>1, <2>0, <2>1, <1>0 DEF Epochs, OwnEpochs, Launch!Launches,
           Launch!NodeLaunchAssumption
      <3> QED
        BY <3>1, <1>0, <1>a DEF Epochs, OwnPosts
    <2> QED
      BY <2>3, <2>5, <2>6 DEF Epochs
  <1>3. MasksCounted'
    <2> DEFINE n == Launch!Started
    <2>0. n + 1 \in Launch!Launches /\ thread[n + 1].step = "off" /\ thread[n + 1].sent = 0
      <3>1. n \in 0 .. MaxLaunches /\ n + 1 \in Launch!Launches /\ ~Launched(n + 1)
        BY <1>0, <1>a, StartedIs DEF Epochs, Launch!Launches, Launch!NodeLaunchAssumption
      <3> QED
        BY <3>1, <1>0 DEF Launched, MasksCounted
    <2>1. /\ thread'[n + 1] = [step |-> "begin", epoch |-> epoch + 1, mask |-> m, sent |-> 0]
          /\ \A t \in Launch!Launches : t # n + 1 => thread'[t] = thread[t]
      BY <2>0, <1>0, <1>a DEF LaunchTyped
    <2> HIDE DEF n
    <2>2. MaskSent' = MaskSent
      BY <2>0, <2>1 DEF MaskSent, Launch!Launches
    <2>3. ASSUME NEW u \in Launch!Launches
          PROVE  /\ thread'[u].sent <= masks'
                 /\ thread'[u].step \in {"off", "begin", "start", "mask"} => thread'[u].sent = 0
      BY <2>0, <2>1, <1>0, <1>a DEF MasksCounted, LaunchTyped
    <2> QED
      BY <2>2, <2>3, <1>0, <1>a DEF MasksCounted
  <1>4. ASSUME ~ran_on' PROVE Working' /\ ToConnect' /\ Closing' /\ BeganLast' /\ Connected' /\
               ReadyIs' /\ Held'
    <2>0. Working /\ ToConnect /\ Closing /\ BeganLast /\ Connected /\ ReadyIs /\ Held
      BY <1>0, <1>a, <1>4 DEF Undisturbed, LaunchTyped
    <2> USE <1>a DEF Launch!Launches, Launch!NoLink, Launch!User, Launch!Off, Launch!Alive,
        Moves, Posted, Run
    <2>1. Working'
      BY <1>0, <1>1, <1>4, <2>0, GuiIs DEF LaunchTyped, Epochs, OwnEpochs, OwnPosts, MasksCounted,
         Launched, Working, ToConnect, Closing, BeganLast, Connected, ReadyIs, Held, Connecting,
         NoneWorks, Masked, LinkGone
    <2>2. ToConnect'
      BY <1>0, <1>1, <1>4, <2>0, GuiIs DEF LaunchTyped, Epochs, OwnEpochs, OwnPosts, MasksCounted,
         Launched, Working, ToConnect, Closing, BeganLast, Connected, ReadyIs, Held, Connecting,
         NoneWorks, Masked, LinkGone
    <2>3. Closing'
      BY <1>0, <1>1, <1>4, <2>0, GuiIs DEF LaunchTyped, Epochs, OwnEpochs, OwnPosts, MasksCounted,
         Launched, Working, ToConnect, Closing, BeganLast, Connected, ReadyIs, Held, Connecting,
         NoneWorks, Masked, LinkGone
    <2>4. BeganLast'
      BY <1>0, <1>1, <1>4, <2>0, GuiIs DEF LaunchTyped, Epochs, OwnEpochs, OwnPosts, MasksCounted,
         Launched, Working, ToConnect, Closing, BeganLast, Connected, ReadyIs, Held, Connecting,
         NoneWorks, Masked, LinkGone
    <2>5. Connected'
      BY <1>0, <1>1, <1>4, <2>0, GuiIs DEF LaunchTyped, Epochs, OwnEpochs, OwnPosts, MasksCounted,
         Launched, Working, ToConnect, Closing, BeganLast, Connected, ReadyIs, Held, Connecting,
         NoneWorks, Masked, LinkGone
    <2>6. ReadyIs'
      BY <1>0, <1>1, <1>4, <2>0, GuiIs DEF LaunchTyped, Epochs, OwnEpochs, OwnPosts, MasksCounted,
         Launched, Working, ToConnect, Closing, BeganLast, Connected, ReadyIs, Held, Connecting,
         NoneWorks, Masked, LinkGone
    <2>7. Held'
      BY <1>0, <1>1, <1>4, <2>0, GuiIs DEF LaunchTyped, Epochs, OwnEpochs, OwnPosts, MasksCounted,
         Launched, Working, ToConnect, Closing, BeganLast, Connected, ReadyIs, Held, Connecting,
         NoneWorks, Masked, LinkGone
    <2> QED
      BY <2>1, <2>2, <2>3, <2>4, <2>5, <2>6, <2>7
  <1> QED
    BY <1>1, <1>2, <1>3, <1>4 DEF LaunchInv, Undisturbed

LEMMA LOnAbort ==
    ASSUME LaunchInv, Launch!NodeLaunchAssumption, Launch!OnAbort
    PROVE  LaunchInv'
  <1>0. LaunchTyped /\ Epochs /\ MasksCounted /\ Undisturbed /\ MaxRefresh \in Nat
    BY DEF LaunchInv, Launch!NodeLaunchAssumption
  <1>a. /\ state = "launching"
        /\ epoch' = epoch + 1
        /\ state' = "idle"
        /\ refused' = FALSE
        /\ applied' = 0
        /\ creds' = FALSE /\ late_refresh' = FALSE
        /\ kills' = (IF creds THEN kills \cup {Launch!User} ELSE kills)
        /\ (~ran_on' => ~ran_on /\ (\A u \in Launch!Launches : ~Launch!Alive(u)) /\
             refresh.step = "off")
        /\ ran_on' \in BOOLEAN
        /\ UNCHANGED <<gui, launch_link, thread, refresh, lspad, hw_mask, node_py, masks, faults,
             unkilled>>
    <2>1. state = "launching"
      BY <1>0 DEF LaunchTyped, ThreadSteps, ThreadStates, Launch!OnAbort, Launch!Launches,
         Launch!NoLink, Launch!User, Launch!SomeAlive, Launch!Alive, Launch!Dropped,
         Launch!TriggerShutdown, Launch!AbortShown, Launch!node, Launch!counts, Launch!ghosts
    <2>2. epoch' = epoch + 1
      BY <1>0 DEF LaunchTyped, ThreadSteps, ThreadStates, Launch!OnAbort, Launch!Launches,
         Launch!NoLink, Launch!User, Launch!SomeAlive, Launch!Alive, Launch!Dropped,
         Launch!TriggerShutdown, Launch!AbortShown, Launch!node, Launch!counts, Launch!ghosts
    <2>3. state' = "idle"
      BY <1>0 DEF LaunchTyped, ThreadSteps, ThreadStates, Launch!OnAbort, Launch!Launches,
         Launch!NoLink, Launch!User, Launch!SomeAlive, Launch!Alive, Launch!Dropped,
         Launch!TriggerShutdown, Launch!AbortShown, Launch!node, Launch!counts, Launch!ghosts
    <2>4. refused' = FALSE
      BY <1>0 DEF LaunchTyped, ThreadSteps, ThreadStates, Launch!OnAbort, Launch!Launches,
         Launch!NoLink, Launch!User, Launch!SomeAlive, Launch!Alive, Launch!Dropped,
         Launch!TriggerShutdown, Launch!AbortShown, Launch!node, Launch!counts, Launch!ghosts
    <2>5. applied' = 0
      BY <1>0 DEF LaunchTyped, ThreadSteps, ThreadStates, Launch!OnAbort, Launch!Launches,
         Launch!NoLink, Launch!User, Launch!SomeAlive, Launch!Alive, Launch!Dropped,
         Launch!TriggerShutdown, Launch!AbortShown, Launch!node, Launch!counts, Launch!ghosts
    <2>6. creds' = FALSE /\ late_refresh' = FALSE
      BY <1>0 DEF LaunchTyped, ThreadSteps, ThreadStates, Launch!OnAbort, Launch!Launches,
         Launch!NoLink, Launch!User, Launch!SomeAlive, Launch!Alive, Launch!Dropped,
         Launch!TriggerShutdown, Launch!AbortShown, Launch!node, Launch!counts, Launch!ghosts
    <2>7. kills' = (IF creds THEN kills \cup {Launch!User} ELSE kills)
      BY <1>0 DEF LaunchTyped, ThreadSteps, ThreadStates, Launch!OnAbort, Launch!Launches,
         Launch!NoLink, Launch!User, Launch!SomeAlive, Launch!Alive, Launch!Dropped,
         Launch!TriggerShutdown, Launch!AbortShown, Launch!node, Launch!counts, Launch!ghosts
    <2>8. (~ran_on' => ~ran_on /\ (\A u \in Launch!Launches : ~Launch!Alive(u)) /\
            refresh.step = "off")
      BY <1>0, ThreadMoves DEF LaunchTyped, ThreadSteps, ThreadStates, Launch!OnAbort,
         Launch!Launches, Launch!NoLink, Launch!User, Launch!SomeAlive, Launch!Alive,
         Launch!Dropped, Launch!TriggerShutdown, Launch!AbortShown, Launch!Goto, Launch!node,
         Launch!counts, Launch!ghosts
    <2>9. ran_on' \in BOOLEAN
      BY <1>0 DEF LaunchTyped, ThreadSteps, ThreadStates, Launch!OnAbort, Launch!Launches,
         Launch!NoLink, Launch!User, Launch!SomeAlive, Launch!Alive, Launch!Dropped,
         Launch!TriggerShutdown, Launch!AbortShown, Launch!node, Launch!counts, Launch!ghosts
    <2>10. UNCHANGED <<gui, launch_link, thread, refresh, lspad, hw_mask, node_py, masks, faults,
             unkilled>>
      BY <1>0, ThreadMoves, GuiRuns DEF LaunchTyped, Launch!OnAbort, Launch!Launches,
         Launch!NoLink, Launch!User, Launch!SomeAlive, Launch!Alive, Launch!Dropped,
         Launch!TriggerShutdown, Launch!Post, Launch!AbortShown, Launch!Goto, Launch!node,
         Launch!counts, Launch!ghosts, Launch!NodeLaunchAssumption
    <2> QED
      BY <2>1, <2>2, <2>3, <2>4, <2>5, <2>6, <2>7, <2>8, <2>9, <2>10
  <1>1. LaunchTyped'
    <2>1. /\ state' \in {"idle", "launching", "ready"} /\ epoch' \in Nat
          /\ creds' \in BOOLEAN /\ refused' \in BOOLEAN /\ ran_on' \in BOOLEAN
          /\ late_refresh' \in BOOLEAN
      <3>1. state' \in {"idle", "launching", "ready"} /\ epoch' \in Nat
        BY <1>0, <1>a DEF LaunchTyped
      <3>2. ran_on' \in BOOLEAN
        BY <1>a
      <3> QED
        BY <3>1, <3>2, <1>a
    <2>2. /\ masks' \in Nat /\ applied' \in 0 .. masks' /\ hw_mask' \in 0 .. masks'
          /\ launch_link' \in Launch!Launches \cup {Launch!NoLink}
      BY <1>0, <1>a DEF LaunchTyped, MasksCounted, ThreadStates, Launch!Launches, Launch!NoLink,
         Launch!User
    <2>3. /\ thread' \in [Launch!Launches -> ThreadStates] /\ refresh' \in ThreadStates
          /\ refresh'.step \in {"off", "mask", "record", "keep"}
      BY <1>0, <1>a DEF LaunchTyped, ThreadStates, ThreadSteps, Launch!Launches, Launch!NoLink,
         Launch!User
    <2>4. kills' \subseteq Launch!Launches \cup {Launch!User}
      BY <1>0, <1>a DEF LaunchTyped
    <2>5. /\ lspad' \subseteq Launch!Launches /\ node_py' \subseteq Launch!Launches
          /\ unkilled' \subseteq Launch!Launches
      BY <1>0, <1>a DEF LaunchTyped
    <2>6. gui' \in Seq(Posts) /\ faults' \in Nat /\ faults' <= MaxFaults
      BY <1>0, <1>a DEF LaunchTyped
    <2> QED
      BY <2>1, <2>2, <2>3, <2>4, <2>5, <2>6 DEF LaunchTyped
  <1>2. Epochs'
    <2>1. \A u \in Launch!Launches : (Launched(u)' <=> Launched(u)) /\ thread'[u] = thread[u]
      BY <1>0, <1>a DEF Launched
    <2>2. IsNow /\ ~IsNow'
      BY <2>1, <1>0, <1>a DEF IsNow, Epochs, OwnEpochs, LaunchTyped, ThreadStates
    <2>3. Numbered'
      <3>1. PICK n \in 0 .. MaxLaunches :
              /\ \A u \in Launch!Launches : Launched(u) <=> u <= n
              /\ epoch <= 2 * n /\ (IsNow => epoch < 2 * n)
        BY <1>0 DEF Epochs, Numbered
      <3>2. epoch' <= 2 * n
        BY <3>1, <2>2, <1>0, <1>a DEF LaunchTyped, Launch!NodeLaunchAssumption
      <3>3. \A u \in Launch!Launches : Launched(u)' <=> u <= n
        BY <3>1, <2>1
      <3> QED
        BY <3>2, <3>3, <2>2 DEF Numbered
    <2>4. OwnEpochs'
      BY <2>1, <2>2, <1>0, <1>a DEF Epochs, OwnEpochs, LaunchTyped, ThreadStates, Launch!Launches
    <2>5. OwnPosts'
      BY <1>0, <1>a DEF Epochs, OwnPosts
    <2> QED
      BY <2>3, <2>4, <2>5 DEF Epochs
  <1>3. MasksCounted'
    <2>1. MaskSent' = MaskSent
      BY <1>a DEF MaskSent, Launch!Launches, Launch!User
    <2> QED
      BY <2>1, <1>0, <1>a, MaskSentFinite DEF LaunchTyped, MasksCounted, ThreadStates,
         Launch!Launches, Launch!NoLink, Launch!User
  <1>4. ASSUME ~ran_on' PROVE Working' /\ ToConnect' /\ Closing' /\ BeganLast' /\ Connected' /\
               ReadyIs' /\ Held'
    <2>0. Working /\ ToConnect /\ Closing /\ BeganLast /\ Connected /\ ReadyIs /\ Held
      BY <1>0, <1>a, <1>4 DEF Undisturbed, LaunchTyped
    <2> USE <1>a DEF Launch!Launches, Launch!NoLink, Launch!User, Launch!Off, Launch!Alive,
        Moves, Posted, Run
    <2>1. Working'
      BY <1>0, <1>1, <1>4, <2>0, GuiIs DEF LaunchTyped, Epochs, OwnEpochs, OwnPosts, MasksCounted,
         Launched, Working, ToConnect, Closing, BeganLast, Connected, ReadyIs, Held, Connecting,
         NoneWorks, Masked, LinkGone
    <2>2. ToConnect'
      BY <1>0, <1>1, <1>4, <2>0, GuiIs DEF LaunchTyped, Epochs, OwnEpochs, OwnPosts, MasksCounted,
         Launched, Working, ToConnect, Closing, BeganLast, Connected, ReadyIs, Held, Connecting,
         NoneWorks, Masked, LinkGone
    <2>3. Closing'
      BY <1>0, <1>1, <1>4, <2>0, GuiIs DEF LaunchTyped, Epochs, OwnEpochs, OwnPosts, MasksCounted,
         Launched, Working, ToConnect, Closing, BeganLast, Connected, ReadyIs, Held, Connecting,
         NoneWorks, Masked, LinkGone
    <2>4. BeganLast'
      BY <1>0, <1>1, <1>4, <2>0, GuiIs DEF LaunchTyped, Epochs, OwnEpochs, OwnPosts, MasksCounted,
         Launched, Working, ToConnect, Closing, BeganLast, Connected, ReadyIs, Held, Connecting,
         NoneWorks, Masked, LinkGone
    <2>5. Connected'
      BY <1>0, <1>1, <1>4, <2>0, GuiIs DEF LaunchTyped, Epochs, OwnEpochs, OwnPosts, MasksCounted,
         Launched, Working, ToConnect, Closing, BeganLast, Connected, ReadyIs, Held, Connecting,
         NoneWorks, Masked, LinkGone
    <2>6. ReadyIs'
      BY <1>0, <1>1, <1>4, <2>0, GuiIs DEF LaunchTyped, Epochs, OwnEpochs, OwnPosts, MasksCounted,
         Launched, Working, ToConnect, Closing, BeganLast, Connected, ReadyIs, Held, Connecting,
         NoneWorks, Masked, LinkGone
    <2>7. Held'
      BY <1>0, <1>1, <1>4, <2>0, GuiIs DEF LaunchTyped, Epochs, OwnEpochs, OwnPosts, MasksCounted,
         Launched, Working, ToConnect, Closing, BeganLast, Connected, ReadyIs, Held, Connecting,
         NoneWorks, Masked, LinkGone
    <2> QED
      BY <2>1, <2>2, <2>3, <2>4, <2>5, <2>6, <2>7
  <1> QED
    BY <1>1, <1>2, <1>3, <1>4 DEF LaunchInv, Undisturbed

LEMMA LOnRefresh ==
    ASSUME LaunchInv, Launch!NodeLaunchAssumption, Launch!OnRefresh
    PROVE  LaunchInv'
  <1>0. LaunchTyped /\ Epochs /\ MasksCounted /\ Undisturbed /\ MaxRefresh \in Nat
    BY DEF LaunchInv, Launch!NodeLaunchAssumption
  <1>a. /\ state = "ready"
        /\ refresh.step = "off"
        /\ masks < MaxRefresh
        /\ refresh' = [step |-> "mask", epoch |-> epoch, mask |-> TRUE, sent |-> 0]
        /\ UNCHANGED <<state, epoch, creds, applied, gui, launch_link, refused, thread, kills,
             lspad, hw_mask, node_py, masks, faults, ran_on, unkilled, late_refresh>>
    BY <1>0, ThreadMoves, GuiPosted DEF LaunchTyped, ThreadSteps, ThreadStates, Launch!OnRefresh,
       Launch!Launches, Launch!NoLink, Launch!User, Launch!Post, Launch!Goto, Launch!panel,
       Launch!node, Launch!counts, Launch!ghosts, Launch!NodeLaunchAssumption
  <1>1. LaunchTyped'
    <2>1. /\ state' \in {"idle", "launching", "ready"} /\ epoch' \in Nat
          /\ creds' \in BOOLEAN /\ refused' \in BOOLEAN /\ ran_on' \in BOOLEAN
          /\ late_refresh' \in BOOLEAN
      BY <1>0, <1>a DEF LaunchTyped, Posts
    <2>2. /\ masks' \in Nat /\ applied' \in 0 .. masks' /\ hw_mask' \in 0 .. masks'
          /\ launch_link' \in Launch!Launches \cup {Launch!NoLink}
      BY <1>0, <1>a DEF LaunchTyped, MasksCounted, ThreadStates, Launch!Launches, Launch!NoLink,
         Launch!User
    <2>3. /\ thread' \in [Launch!Launches -> ThreadStates] /\ refresh' \in ThreadStates
          /\ refresh'.step \in {"off", "mask", "record", "keep"}
      BY <1>0, <1>a DEF LaunchTyped, ThreadStates, ThreadSteps, Launch!Launches, Launch!NoLink,
         Launch!User
    <2>4. kills' \subseteq Launch!Launches \cup {Launch!User}
      BY <1>0, <1>a DEF LaunchTyped
    <2>5. /\ lspad' \subseteq Launch!Launches /\ node_py' \subseteq Launch!Launches
          /\ unkilled' \subseteq Launch!Launches
      BY <1>0, <1>a DEF LaunchTyped
    <2>6. gui' \in Seq(Posts) /\ faults' \in Nat /\ faults' <= MaxFaults
      BY <1>0, <1>a DEF LaunchTyped
    <2> QED
      BY <2>1, <2>2, <2>3, <2>4, <2>5, <2>6 DEF LaunchTyped
  <1>2. Epochs'
    <2>1. \A u \in Launch!Launches : (Launched(u)' <=> Launched(u)) /\
            thread'[u].epoch = thread[u].epoch
      BY <1>0, <1>a DEF OwnEpochs, Epochs, Launched
    <2>2. IsNow' <=> IsNow
      BY <2>1, <1>a DEF IsNow, Launch!Launches
    <2>3. Numbered'
      BY <2>1, <2>2, <1>0, <1>a DEF Epochs, Numbered, Launch!Launches
    <2>4. OwnEpochs'
      BY <2>1, <2>2, <1>0, <1>a DEF Epochs, OwnEpochs, LaunchTyped, ThreadStates, Launch!Launches,
         Launch!NoLink, Launch!User
    <2>5. OwnPosts'
      BY <2>1, <1>0, <1>a, <1>1, GuiIs DEF LaunchTyped, Epochs, OwnEpochs, OwnPosts, Launched,
         Launch!Launches, Launch!NoLink, Launch!User, IsNow
    <2> QED
      BY <2>3, <2>4, <2>5 DEF Epochs
  <1>3. MasksCounted'
    <2>1. MaskSent' = MaskSent
      BY <1>a DEF MaskSent, Launch!Launches
    <2> QED
      BY <2>1, <1>0, <1>a, MaskSentFinite DEF LaunchTyped, MasksCounted, ThreadStates,
         Launch!Launches, Launch!NoLink, Launch!User
  <1>4. ASSUME ~ran_on' PROVE Working' /\ ToConnect' /\ Closing' /\ BeganLast' /\ Connected' /\
               ReadyIs' /\ Held'
    <2>0. Working /\ ToConnect /\ Closing /\ BeganLast /\ Connected /\ ReadyIs /\ Held
      BY <1>0, <1>a, <1>4 DEF Undisturbed, LaunchTyped
    <2> USE <1>a DEF Launch!Launches, Launch!NoLink, Launch!User, Launch!Off, Launch!Alive,
        Moves, Posted, Run
    <2>1. Working'
      BY <1>0, <1>1, <1>4, <2>0, GuiIs DEF LaunchTyped, Epochs, OwnEpochs, OwnPosts, MasksCounted,
         Launched, Working, ToConnect, Closing, BeganLast, Connected, ReadyIs, Held, Connecting,
         NoneWorks, Masked, LinkGone
    <2>2. ToConnect'
      BY <1>0, <1>1, <1>4, <2>0, GuiIs DEF LaunchTyped, Epochs, OwnEpochs, OwnPosts, MasksCounted,
         Launched, Working, ToConnect, Closing, BeganLast, Connected, ReadyIs, Held, Connecting,
         NoneWorks, Masked, LinkGone
    <2>3. Closing'
      BY <1>0, <1>1, <1>4, <2>0, GuiIs DEF LaunchTyped, Epochs, OwnEpochs, OwnPosts, MasksCounted,
         Launched, Working, ToConnect, Closing, BeganLast, Connected, ReadyIs, Held, Connecting,
         NoneWorks, Masked, LinkGone
    <2>4. BeganLast'
      BY <1>0, <1>1, <1>4, <2>0, GuiIs DEF LaunchTyped, Epochs, OwnEpochs, OwnPosts, MasksCounted,
         Launched, Working, ToConnect, Closing, BeganLast, Connected, ReadyIs, Held, Connecting,
         NoneWorks, Masked, LinkGone
    <2>5. Connected'
      BY <1>0, <1>1, <1>4, <2>0, GuiIs DEF LaunchTyped, Epochs, OwnEpochs, OwnPosts, MasksCounted,
         Launched, Working, ToConnect, Closing, BeganLast, Connected, ReadyIs, Held, Connecting,
         NoneWorks, Masked, LinkGone
    <2>6. ReadyIs'
      BY <1>0, <1>1, <1>4, <2>0, GuiIs DEF LaunchTyped, Epochs, OwnEpochs, OwnPosts, MasksCounted,
         Launched, Working, ToConnect, Closing, BeganLast, Connected, ReadyIs, Held, Connecting,
         NoneWorks, Masked, LinkGone
    <2>7. Held'
      BY <1>0, <1>1, <1>4, <2>0, GuiIs DEF LaunchTyped, Epochs, OwnEpochs, OwnPosts, MasksCounted,
         Launched, Working, ToConnect, Closing, BeganLast, Connected, ReadyIs, Held, Connecting,
         NoneWorks, Masked, LinkGone
    <2> QED
      BY <2>1, <2>2, <2>3, <2>4, <2>5, <2>6, <2>7
  <1> QED
    BY <1>1, <1>2, <1>3, <1>4 DEF LaunchInv, Undisturbed

LEMMA LRefreshApplies ==
    ASSUME LaunchInv, Launch!NodeLaunchAssumption, Launch!RefreshApplies
    PROVE  LaunchInv'
  <1>0. LaunchTyped /\ Epochs /\ MasksCounted /\ Undisturbed /\ MaxRefresh \in Nat
    BY DEF LaunchInv, Launch!NodeLaunchAssumption
  <1>a. /\ refresh.step = "mask"
        /\ masks' = masks + 1
        /\ hw_mask' = masks'
        /\ refresh' = [step |-> "record", epoch |-> refresh.epoch, mask |-> refresh.mask,
             sent |-> masks']
        /\ UNCHANGED <<state, epoch, creds, applied, gui, launch_link, refused, thread, kills,
             lspad, node_py, faults, ran_on, unkilled, late_refresh>>
    BY <1>0, ThreadMoves, GuiPosted DEF LaunchTyped, ThreadSteps, ThreadStates,
       Launch!RefreshApplies, Launch!Launches, Launch!NoLink, Launch!User, Launch!Post,
       Launch!Goto, Launch!panel, Launch!ghosts, Launch!NodeLaunchAssumption
  <1>1. LaunchTyped'
    <2>1. /\ state' \in {"idle", "launching", "ready"} /\ epoch' \in Nat
          /\ creds' \in BOOLEAN /\ refused' \in BOOLEAN /\ ran_on' \in BOOLEAN
          /\ late_refresh' \in BOOLEAN
      BY <1>0, <1>a DEF LaunchTyped, Posts
    <2>2. /\ masks' \in Nat /\ applied' \in 0 .. masks' /\ hw_mask' \in 0 .. masks'
          /\ launch_link' \in Launch!Launches \cup {Launch!NoLink}
      BY <1>0, <1>a DEF LaunchTyped, MasksCounted, ThreadStates, Launch!Launches, Launch!NoLink,
         Launch!User
    <2>3. /\ thread' \in [Launch!Launches -> ThreadStates] /\ refresh' \in ThreadStates
          /\ refresh'.step \in {"off", "mask", "record", "keep"}
      BY <1>0, <1>a DEF LaunchTyped, ThreadStates, ThreadSteps, Launch!Launches, Launch!NoLink,
         Launch!User
    <2>4. kills' \subseteq Launch!Launches \cup {Launch!User}
      BY <1>0, <1>a DEF LaunchTyped
    <2>5. /\ lspad' \subseteq Launch!Launches /\ node_py' \subseteq Launch!Launches
          /\ unkilled' \subseteq Launch!Launches
      BY <1>0, <1>a DEF LaunchTyped
    <2>6. gui' \in Seq(Posts) /\ faults' \in Nat /\ faults' <= MaxFaults
      BY <1>0, <1>a DEF LaunchTyped
    <2> QED
      BY <2>1, <2>2, <2>3, <2>4, <2>5, <2>6 DEF LaunchTyped
  <1>2. Epochs'
    <2>1. \A u \in Launch!Launches : (Launched(u)' <=> Launched(u)) /\
            thread'[u].epoch = thread[u].epoch
      BY <1>0, <1>a DEF OwnEpochs, Epochs, Launched
    <2>2. IsNow' <=> IsNow
      BY <2>1, <1>a DEF IsNow, Launch!Launches
    <2>3. Numbered'
      BY <2>1, <2>2, <1>0, <1>a DEF Epochs, Numbered, Launch!Launches
    <2>4. OwnEpochs'
      BY <2>1, <2>2, <1>0, <1>a DEF Epochs, OwnEpochs, LaunchTyped, ThreadStates, Launch!Launches,
         Launch!NoLink, Launch!User
    <2>5. OwnPosts'
      BY <2>1, <1>0, <1>a, <1>1, GuiIs DEF LaunchTyped, Epochs, OwnEpochs, OwnPosts, Launched,
         Launch!Launches, Launch!NoLink, Launch!User, IsNow
    <2> QED
      BY <2>3, <2>4, <2>5 DEF Epochs
  <1>3. MasksCounted'
    <2>1. MaskSent' = MaskSent
      BY <1>a DEF MaskSent, Launch!Launches
    <2> QED
      BY <2>1, <1>0, <1>a, MaskSentFinite DEF LaunchTyped, MasksCounted, ThreadStates,
         Launch!Launches, Launch!NoLink, Launch!User
  <1>4. ASSUME ~ran_on' PROVE Working' /\ ToConnect' /\ Closing' /\ BeganLast' /\ Connected' /\
               ReadyIs' /\ Held'
    <2>0. Working /\ ToConnect /\ Closing /\ BeganLast /\ Connected /\ ReadyIs /\ Held
      BY <1>0, <1>a, <1>4 DEF Undisturbed, LaunchTyped
    <2> USE <1>a DEF Launch!Launches, Launch!NoLink, Launch!User, Launch!Off, Launch!Alive,
        Moves, Posted, Run
    <2>1. Working'
      BY <1>0, <1>1, <1>4, <2>0, GuiIs DEF LaunchTyped, Epochs, OwnEpochs, OwnPosts, MasksCounted,
         Launched, Working, ToConnect, Closing, BeganLast, Connected, ReadyIs, Held, Connecting,
         NoneWorks, Masked, LinkGone
    <2>2. ToConnect'
      BY <1>0, <1>1, <1>4, <2>0, GuiIs DEF LaunchTyped, Epochs, OwnEpochs, OwnPosts, MasksCounted,
         Launched, Working, ToConnect, Closing, BeganLast, Connected, ReadyIs, Held, Connecting,
         NoneWorks, Masked, LinkGone
    <2>3. Closing'
      BY <1>0, <1>1, <1>4, <2>0, GuiIs DEF LaunchTyped, Epochs, OwnEpochs, OwnPosts, MasksCounted,
         Launched, Working, ToConnect, Closing, BeganLast, Connected, ReadyIs, Held, Connecting,
         NoneWorks, Masked, LinkGone
    <2>4. BeganLast'
      BY <1>0, <1>1, <1>4, <2>0, GuiIs DEF LaunchTyped, Epochs, OwnEpochs, OwnPosts, MasksCounted,
         Launched, Working, ToConnect, Closing, BeganLast, Connected, ReadyIs, Held, Connecting,
         NoneWorks, Masked, LinkGone
    <2>5. Connected'
      BY <1>0, <1>1, <1>4, <2>0, GuiIs DEF LaunchTyped, Epochs, OwnEpochs, OwnPosts, MasksCounted,
         Launched, Working, ToConnect, Closing, BeganLast, Connected, ReadyIs, Held, Connecting,
         NoneWorks, Masked, LinkGone
    <2>6. ReadyIs'
      BY <1>0, <1>1, <1>4, <2>0, GuiIs DEF LaunchTyped, Epochs, OwnEpochs, OwnPosts, MasksCounted,
         Launched, Working, ToConnect, Closing, BeganLast, Connected, ReadyIs, Held, Connecting,
         NoneWorks, Masked, LinkGone
    <2>7. Held'
      BY <1>0, <1>1, <1>4, <2>0, GuiIs DEF LaunchTyped, Epochs, OwnEpochs, OwnPosts, MasksCounted,
         Launched, Working, ToConnect, Closing, BeganLast, Connected, ReadyIs, Held, Connecting,
         NoneWorks, Masked, LinkGone
    <2> QED
      BY <2>1, <2>2, <2>3, <2>4, <2>5, <2>6, <2>7
  <1> QED
    BY <1>1, <1>2, <1>3, <1>4 DEF LaunchInv, Undisturbed

LEMMA LRefreshChecks ==
    ASSUME LaunchInv, Launch!NodeLaunchAssumption, Launch!RefreshChecks
    PROVE  LaunchInv'
  <1>0. LaunchTyped /\ Epochs /\ MasksCounted /\ Undisturbed /\ MaxRefresh \in Nat
    BY DEF LaunchInv, Launch!NodeLaunchAssumption
  <1>a. /\ refresh.step = "record"
        /\ refresh' = (IF refresh.epoch \in {0,
             epoch} THEN [step |-> "keep", epoch |-> refresh.epoch, mask |-> refresh.mask,
                 sent |-> refresh.sent] ELSE Launch!Off)
        /\ UNCHANGED <<state, epoch, creds, applied, gui, launch_link, refused, thread, kills,
             lspad, hw_mask, node_py, masks, faults, ran_on, unkilled, late_refresh>>
    <2>1. refresh.step = "record"
      BY <1>0, ThreadMoves DEF LaunchTyped, ThreadSteps, ThreadStates, Launch!RefreshChecks,
         Launch!Launches, Launch!NoLink, Launch!User, Launch!Off, Launch!Current, Launch!Goto,
         Launch!node, Launch!counts, Launch!ghosts
    <2>2. refresh' = (IF refresh.epoch \in {0,
            epoch} THEN [step |-> "keep", epoch |-> refresh.epoch, mask |-> refresh.mask,
                sent |-> refresh.sent] ELSE Launch!Off)
      <3>1. refresh \in ThreadStates
        BY <1>0 DEF LaunchTyped
      <3>2. [refresh EXCEPT !.step = "keep"] = [step |-> "keep", epoch |-> refresh.epoch,
              mask |-> refresh.mask, sent |-> refresh.sent]
        BY <3>1 DEF ThreadStates
      <3> QED
        BY <3>2, Zenon DEF Launch!RefreshChecks, Launch!Current
    <2>3. UNCHANGED <<state, epoch, creds, applied, gui, launch_link, refused, thread, kills,
            lspad, hw_mask, node_py, masks, faults, ran_on, unkilled, late_refresh>>
      BY <1>0, ThreadMoves, GuiRuns DEF LaunchTyped, Launch!RefreshChecks, Launch!Launches,
         Launch!NoLink, Launch!User, Launch!Off, Launch!Current, Launch!Post, Launch!Goto,
         Launch!panel, Launch!node, Launch!counts, Launch!ghosts, Launch!NodeLaunchAssumption
    <2> QED
      BY <2>1, <2>2, <2>3
  <1>1. LaunchTyped'
    <2>1. /\ state' \in {"idle", "launching", "ready"} /\ epoch' \in Nat
          /\ creds' \in BOOLEAN /\ refused' \in BOOLEAN /\ ran_on' \in BOOLEAN
          /\ late_refresh' \in BOOLEAN
      BY <1>0, <1>a DEF LaunchTyped, Posts
    <2>2. /\ masks' \in Nat /\ applied' \in 0 .. masks' /\ hw_mask' \in 0 .. masks'
          /\ launch_link' \in Launch!Launches \cup {Launch!NoLink}
      BY <1>0, <1>a DEF LaunchTyped, MasksCounted, ThreadStates, Launch!Launches, Launch!NoLink,
         Launch!User, Launch!Off
    <2>3. /\ thread' \in [Launch!Launches -> ThreadStates] /\ refresh' \in ThreadStates
          /\ refresh'.step \in {"off", "mask", "record", "keep"}
      BY <1>0, <1>a DEF LaunchTyped, ThreadStates, ThreadSteps, Launch!Launches, Launch!NoLink,
         Launch!User, Launch!Off
    <2>4. kills' \subseteq Launch!Launches \cup {Launch!User}
      BY <1>0, <1>a DEF LaunchTyped
    <2>5. /\ lspad' \subseteq Launch!Launches /\ node_py' \subseteq Launch!Launches
          /\ unkilled' \subseteq Launch!Launches
      BY <1>0, <1>a DEF LaunchTyped
    <2>6. gui' \in Seq(Posts) /\ faults' \in Nat /\ faults' <= MaxFaults
      BY <1>0, <1>a DEF LaunchTyped
    <2> QED
      BY <2>1, <2>2, <2>3, <2>4, <2>5, <2>6 DEF LaunchTyped
  <1>2. Epochs'
    <2>1. \A u \in Launch!Launches : (Launched(u)' <=> Launched(u)) /\
            thread'[u].epoch = thread[u].epoch
      BY <1>0, <1>a DEF OwnEpochs, Epochs, Launched
    <2>2. IsNow' <=> IsNow
      BY <2>1, <1>a DEF IsNow, Launch!Launches, Launch!Off
    <2>3. Numbered'
      BY <2>1, <2>2, <1>0, <1>a DEF Epochs, Numbered, Launch!Launches, Launch!Off
    <2>4. OwnEpochs'
      BY <2>1, <2>2, <1>0, <1>a DEF Epochs, OwnEpochs, LaunchTyped, ThreadStates, Launch!Launches,
         Launch!NoLink, Launch!User, Launch!Off
    <2>5. OwnPosts'
      BY <2>1, <1>0, <1>a, <1>1, GuiIs DEF LaunchTyped, Epochs, OwnEpochs, OwnPosts, Launched,
         Launch!Launches, Launch!NoLink, Launch!User, Launch!Off, IsNow
    <2> QED
      BY <2>3, <2>4, <2>5 DEF Epochs
  <1>3. MasksCounted'
    <2>1. MaskSent' = MaskSent
      BY <1>a DEF MaskSent, Launch!Launches, Launch!Off
    <2> QED
      BY <2>1, <1>0, <1>a, MaskSentFinite DEF LaunchTyped, MasksCounted, ThreadStates,
         Launch!Launches, Launch!NoLink, Launch!User, Launch!Off
  <1>4. ASSUME ~ran_on' PROVE Working' /\ ToConnect' /\ Closing' /\ BeganLast' /\ Connected' /\
               ReadyIs' /\ Held'
    <2>0. Working /\ ToConnect /\ Closing /\ BeganLast /\ Connected /\ ReadyIs /\ Held
      BY <1>0, <1>a, <1>4 DEF Undisturbed, LaunchTyped
    <2> USE <1>a DEF Launch!Launches, Launch!NoLink, Launch!User, Launch!Off, Launch!Alive,
        Moves, Posted, Run
    <2>1. Working'
      BY <1>0, <1>1, <1>4, <2>0, GuiIs DEF LaunchTyped, Epochs, OwnEpochs, OwnPosts, MasksCounted,
         Launched, Working, ToConnect, Closing, BeganLast, Connected, ReadyIs, Held, Connecting,
         NoneWorks, Masked, LinkGone
    <2>2. ToConnect'
      BY <1>0, <1>1, <1>4, <2>0, GuiIs DEF LaunchTyped, Epochs, OwnEpochs, OwnPosts, MasksCounted,
         Launched, Working, ToConnect, Closing, BeganLast, Connected, ReadyIs, Held, Connecting,
         NoneWorks, Masked, LinkGone
    <2>3. Closing'
      BY <1>0, <1>1, <1>4, <2>0, GuiIs DEF LaunchTyped, Epochs, OwnEpochs, OwnPosts, MasksCounted,
         Launched, Working, ToConnect, Closing, BeganLast, Connected, ReadyIs, Held, Connecting,
         NoneWorks, Masked, LinkGone
    <2>4. BeganLast'
      BY <1>0, <1>1, <1>4, <2>0, GuiIs DEF LaunchTyped, Epochs, OwnEpochs, OwnPosts, MasksCounted,
         Launched, Working, ToConnect, Closing, BeganLast, Connected, ReadyIs, Held, Connecting,
         NoneWorks, Masked, LinkGone
    <2>5. Connected'
      BY <1>0, <1>1, <1>4, <2>0, GuiIs DEF LaunchTyped, Epochs, OwnEpochs, OwnPosts, MasksCounted,
         Launched, Working, ToConnect, Closing, BeganLast, Connected, ReadyIs, Held, Connecting,
         NoneWorks, Masked, LinkGone
    <2>6. ReadyIs'
      BY <1>0, <1>1, <1>4, <2>0, GuiIs DEF LaunchTyped, Epochs, OwnEpochs, OwnPosts, MasksCounted,
         Launched, Working, ToConnect, Closing, BeganLast, Connected, ReadyIs, Held, Connecting,
         NoneWorks, Masked, LinkGone
    <2>7. Held'
      BY <1>0, <1>1, <1>4, <2>0, GuiIs DEF LaunchTyped, Epochs, OwnEpochs, OwnPosts, MasksCounted,
         Launched, Working, ToConnect, Closing, BeganLast, Connected, ReadyIs, Held, Connecting,
         NoneWorks, Masked, LinkGone
    <2> QED
      BY <2>1, <2>2, <2>3, <2>4, <2>5, <2>6, <2>7
  <1> QED
    BY <1>1, <1>2, <1>3, <1>4 DEF LaunchInv, Undisturbed

LEMMA LRefreshKeeps ==
    ASSUME LaunchInv, Launch!NodeLaunchAssumption, Launch!RefreshKeeps
    PROVE  LaunchInv'
  <1>0. LaunchTyped /\ Epochs /\ MasksCounted /\ Undisturbed /\ MaxRefresh \in Nat
    BY DEF LaunchInv, Launch!NodeLaunchAssumption
  <1>a. /\ refresh.step = "keep"
        /\ applied' = refresh.sent
        /\ refresh' = Launch!Off
        /\ late_refresh' = ~creds
        /\ UNCHANGED <<state, epoch, creds, gui, launch_link, refused, thread, kills, lspad,
             hw_mask, node_py, masks, faults, ran_on, unkilled>>
    <2>1. refresh.step = "keep"
      BY <1>0, ThreadMoves DEF LaunchTyped, ThreadSteps, ThreadStates, Launch!RefreshKeeps,
         Launch!Launches, Launch!NoLink, Launch!User, Launch!Off, Launch!Goto, Launch!node,
         Launch!counts, Launch!ghosts
    <2>2. applied' = refresh.sent
      BY <1>0, ThreadMoves DEF LaunchTyped, ThreadSteps, ThreadStates, Launch!RefreshKeeps,
         Launch!Launches, Launch!NoLink, Launch!User, Launch!Off, Launch!Goto, Launch!node,
         Launch!counts, Launch!ghosts
    <2>3. refresh' = Launch!Off
      BY <1>0, ThreadMoves DEF LaunchTyped, ThreadSteps, ThreadStates, Launch!RefreshKeeps,
         Launch!Launches, Launch!NoLink, Launch!User, Launch!Off, Launch!Goto, Launch!node,
         Launch!counts, Launch!ghosts
    <2>4. late_refresh' = ~creds
      BY Zenon DEF Launch!RefreshKeeps
    <2>6. UNCHANGED <<state, epoch, creds, gui, launch_link, refused, thread, kills, lspad,
            hw_mask, node_py, masks, faults, ran_on, unkilled>>
      BY <1>0, ThreadMoves, GuiRuns DEF LaunchTyped, Launch!RefreshKeeps, Launch!Launches,
         Launch!NoLink, Launch!User, Launch!Off, Launch!Post, Launch!Goto, Launch!node,
         Launch!counts, Launch!ghosts, Launch!NodeLaunchAssumption
    <2> QED
      BY <2>1, <2>2, <2>3, <2>4, <2>6
  <1>1. LaunchTyped'
    <2>1. /\ state' \in {"idle", "launching", "ready"} /\ epoch' \in Nat
          /\ creds' \in BOOLEAN /\ refused' \in BOOLEAN /\ ran_on' \in BOOLEAN
          /\ late_refresh' \in BOOLEAN
      <3>1. late_refresh' \in BOOLEAN
        BY <1>a, Zenon
      <3> QED
        BY <3>1, <1>0, <1>a DEF LaunchTyped, Posts
    <2>2. /\ masks' \in Nat /\ applied' \in 0 .. masks' /\ hw_mask' \in 0 .. masks'
          /\ launch_link' \in Launch!Launches \cup {Launch!NoLink}
      BY <1>0, <1>a DEF LaunchTyped, MasksCounted, ThreadStates, Launch!Launches, Launch!NoLink,
         Launch!User, Launch!Off
    <2>3. /\ thread' \in [Launch!Launches -> ThreadStates] /\ refresh' \in ThreadStates
          /\ refresh'.step \in {"off", "mask", "record", "keep"}
      BY <1>0, <1>a DEF LaunchTyped, ThreadStates, ThreadSteps, Launch!Launches, Launch!NoLink,
         Launch!User, Launch!Off
    <2>4. kills' \subseteq Launch!Launches \cup {Launch!User}
      BY <1>0, <1>a DEF LaunchTyped
    <2>5. /\ lspad' \subseteq Launch!Launches /\ node_py' \subseteq Launch!Launches
          /\ unkilled' \subseteq Launch!Launches
      BY <1>0, <1>a DEF LaunchTyped
    <2>6. gui' \in Seq(Posts) /\ faults' \in Nat /\ faults' <= MaxFaults
      BY <1>0, <1>a DEF LaunchTyped
    <2> QED
      BY <2>1, <2>2, <2>3, <2>4, <2>5, <2>6 DEF LaunchTyped
  <1>2. Epochs'
    <2>1. \A u \in Launch!Launches : (Launched(u)' <=> Launched(u)) /\
            thread'[u].epoch = thread[u].epoch
      BY <1>0, <1>a DEF OwnEpochs, Epochs, Launched
    <2>2. IsNow' <=> IsNow
      BY <2>1, <1>a DEF IsNow, Launch!Launches, Launch!NoLink, Launch!Off
    <2>3. Numbered'
      BY <2>1, <2>2, <1>0, <1>a DEF Epochs, Numbered, Launch!Launches, Launch!NoLink, Launch!Off
    <2>4. OwnEpochs'
      BY <2>1, <2>2, <1>0, <1>a DEF Epochs, OwnEpochs, LaunchTyped, ThreadStates, Launch!Launches,
         Launch!NoLink, Launch!User, Launch!Off
    <2>5. OwnPosts'
      BY <2>1, <1>0, <1>a, <1>1, GuiIs DEF LaunchTyped, Epochs, OwnEpochs, OwnPosts, Launched,
         Launch!Launches, Launch!NoLink, Launch!User, Launch!Off, IsNow
    <2> QED
      BY <2>3, <2>4, <2>5 DEF Epochs
  <1>3. MasksCounted'
    <2>1. MaskSent' = MaskSent
      BY <1>a DEF MaskSent, Launch!Launches, Launch!NoLink, Launch!Off
    <2> QED
      BY <2>1, <1>0, <1>a, MaskSentFinite DEF LaunchTyped, MasksCounted, ThreadStates,
         Launch!Launches, Launch!NoLink, Launch!User, Launch!Off
  <1>4. ASSUME ~ran_on' PROVE Working' /\ ToConnect' /\ Closing' /\ BeganLast' /\ Connected' /\
               ReadyIs' /\ Held'
    <2>0. Working /\ ToConnect /\ Closing /\ BeganLast /\ Connected /\ ReadyIs /\ Held
      BY <1>0, <1>a, <1>4 DEF Undisturbed, LaunchTyped
    <2> USE <1>a DEF Launch!Launches, Launch!NoLink, Launch!User, Launch!Off, Launch!Alive,
        Moves, Posted, Run
    <2>1. Working'
      BY <1>0, <1>1, <1>4, <2>0, GuiIs DEF LaunchTyped, Epochs, OwnEpochs, OwnPosts, MasksCounted,
         Launched, Working, ToConnect, Closing, BeganLast, Connected, ReadyIs, Held, Connecting,
         NoneWorks, Masked, LinkGone
    <2>2. ToConnect'
      BY <1>0, <1>1, <1>4, <2>0, GuiIs DEF LaunchTyped, Epochs, OwnEpochs, OwnPosts, MasksCounted,
         Launched, Working, ToConnect, Closing, BeganLast, Connected, ReadyIs, Held, Connecting,
         NoneWorks, Masked, LinkGone
    <2>3. Closing'
      BY <1>0, <1>1, <1>4, <2>0, GuiIs DEF LaunchTyped, Epochs, OwnEpochs, OwnPosts, MasksCounted,
         Launched, Working, ToConnect, Closing, BeganLast, Connected, ReadyIs, Held, Connecting,
         NoneWorks, Masked, LinkGone
    <2>4. BeganLast'
      BY <1>0, <1>1, <1>4, <2>0, GuiIs DEF LaunchTyped, Epochs, OwnEpochs, OwnPosts, MasksCounted,
         Launched, Working, ToConnect, Closing, BeganLast, Connected, ReadyIs, Held, Connecting,
         NoneWorks, Masked, LinkGone
    <2>5. Connected'
      BY <1>0, <1>1, <1>4, <2>0, GuiIs DEF LaunchTyped, Epochs, OwnEpochs, OwnPosts, MasksCounted,
         Launched, Working, ToConnect, Closing, BeganLast, Connected, ReadyIs, Held, Connecting,
         NoneWorks, Masked, LinkGone
    <2>6. ReadyIs'
      BY <1>0, <1>1, <1>4, <2>0, GuiIs DEF LaunchTyped, Epochs, OwnEpochs, OwnPosts, MasksCounted,
         Launched, Working, ToConnect, Closing, BeganLast, Connected, ReadyIs, Held, Connecting,
         NoneWorks, Masked, LinkGone
    <2>7. Held'
      BY <1>0, <1>1, <1>4, <2>0, GuiIs DEF LaunchTyped, Epochs, OwnEpochs, OwnPosts, MasksCounted,
         Launched, Working, ToConnect, Closing, BeganLast, Connected, ReadyIs, Held, Connecting,
         NoneWorks, Masked, LinkGone
    <2> QED
      BY <2>1, <2>2, <2>3, <2>4, <2>5, <2>6, <2>7
  <1> QED
    BY <1>1, <1>2, <1>3, <1>4 DEF LaunchInv, Undisturbed

LEMMA LRefreshFails ==
    ASSUME LaunchInv, Launch!NodeLaunchAssumption, Launch!RefreshFails
    PROVE  LaunchInv'
  <1>0. LaunchTyped /\ Epochs /\ MasksCounted /\ Undisturbed /\ MaxRefresh \in Nat
    BY DEF LaunchInv, Launch!NodeLaunchAssumption
  <1>a. /\ refresh.step = "mask"
        /\ refresh' = Launch!Off
        /\ UNCHANGED <<state, epoch, creds, applied, gui, launch_link, refused, thread, kills,
             lspad, hw_mask, node_py, masks, faults, ran_on, unkilled, late_refresh>>
    BY <1>0, ThreadMoves, GuiPosted DEF LaunchTyped, ThreadSteps, ThreadStates,
       Launch!RefreshFails, Launch!Launches, Launch!NoLink, Launch!User, Launch!Off, Launch!Post,
       Launch!Goto, Launch!panel, Launch!node, Launch!counts, Launch!ghosts, Launch!NodeLaunchAssumption
  <1>1. LaunchTyped'
    <2>1. /\ state' \in {"idle", "launching", "ready"} /\ epoch' \in Nat
          /\ creds' \in BOOLEAN /\ refused' \in BOOLEAN /\ ran_on' \in BOOLEAN
          /\ late_refresh' \in BOOLEAN
      BY <1>0, <1>a DEF LaunchTyped, Posts
    <2>2. /\ masks' \in Nat /\ applied' \in 0 .. masks' /\ hw_mask' \in 0 .. masks'
          /\ launch_link' \in Launch!Launches \cup {Launch!NoLink}
      BY <1>0, <1>a DEF LaunchTyped, MasksCounted, ThreadStates, Launch!Launches, Launch!NoLink,
         Launch!User, Launch!Off
    <2>3. /\ thread' \in [Launch!Launches -> ThreadStates] /\ refresh' \in ThreadStates
          /\ refresh'.step \in {"off", "mask", "record", "keep"}
      BY <1>0, <1>a DEF LaunchTyped, ThreadStates, ThreadSteps, Launch!Launches, Launch!NoLink,
         Launch!User, Launch!Off
    <2>4. kills' \subseteq Launch!Launches \cup {Launch!User}
      BY <1>0, <1>a DEF LaunchTyped
    <2>5. /\ lspad' \subseteq Launch!Launches /\ node_py' \subseteq Launch!Launches
          /\ unkilled' \subseteq Launch!Launches
      BY <1>0, <1>a DEF LaunchTyped
    <2>6. gui' \in Seq(Posts) /\ faults' \in Nat /\ faults' <= MaxFaults
      BY <1>0, <1>a DEF LaunchTyped
    <2> QED
      BY <2>1, <2>2, <2>3, <2>4, <2>5, <2>6 DEF LaunchTyped
  <1>2. Epochs'
    <2>1. \A u \in Launch!Launches : (Launched(u)' <=> Launched(u)) /\
            thread'[u].epoch = thread[u].epoch
      BY <1>0, <1>a DEF OwnEpochs, Epochs, Launched
    <2>2. IsNow' <=> IsNow
      BY <2>1, <1>a DEF IsNow, Launch!Launches, Launch!Off
    <2>3. Numbered'
      BY <2>1, <2>2, <1>0, <1>a DEF Epochs, Numbered, Launch!Launches, Launch!Off
    <2>4. OwnEpochs'
      BY <2>1, <2>2, <1>0, <1>a DEF Epochs, OwnEpochs, LaunchTyped, ThreadStates, Launch!Launches,
         Launch!NoLink, Launch!User, Launch!Off
    <2>5. OwnPosts'
      BY <2>1, <1>0, <1>a, <1>1, GuiIs DEF LaunchTyped, Epochs, OwnEpochs, OwnPosts, Launched,
         Launch!Launches, Launch!NoLink, Launch!User, Launch!Off, IsNow
    <2> QED
      BY <2>3, <2>4, <2>5 DEF Epochs
  <1>3. MasksCounted'
    <2>1. MaskSent' = MaskSent
      BY <1>a DEF MaskSent, Launch!Launches, Launch!Off
    <2> QED
      BY <2>1, <1>0, <1>a, MaskSentFinite DEF LaunchTyped, MasksCounted, ThreadStates,
         Launch!Launches, Launch!NoLink, Launch!User, Launch!Off
  <1>4. ASSUME ~ran_on' PROVE Working' /\ ToConnect' /\ Closing' /\ BeganLast' /\ Connected' /\
               ReadyIs' /\ Held'
    <2>0. Working /\ ToConnect /\ Closing /\ BeganLast /\ Connected /\ ReadyIs /\ Held
      BY <1>0, <1>a, <1>4 DEF Undisturbed, LaunchTyped
    <2> USE <1>a DEF Launch!Launches, Launch!NoLink, Launch!User, Launch!Off, Launch!Alive,
        Moves, Posted, Run
    <2>1. Working'
      BY <1>0, <1>1, <1>4, <2>0, GuiIs DEF LaunchTyped, Epochs, OwnEpochs, OwnPosts, MasksCounted,
         Launched, Working, ToConnect, Closing, BeganLast, Connected, ReadyIs, Held, Connecting,
         NoneWorks, Masked, LinkGone
    <2>2. ToConnect'
      BY <1>0, <1>1, <1>4, <2>0, GuiIs DEF LaunchTyped, Epochs, OwnEpochs, OwnPosts, MasksCounted,
         Launched, Working, ToConnect, Closing, BeganLast, Connected, ReadyIs, Held, Connecting,
         NoneWorks, Masked, LinkGone
    <2>3. Closing'
      BY <1>0, <1>1, <1>4, <2>0, GuiIs DEF LaunchTyped, Epochs, OwnEpochs, OwnPosts, MasksCounted,
         Launched, Working, ToConnect, Closing, BeganLast, Connected, ReadyIs, Held, Connecting,
         NoneWorks, Masked, LinkGone
    <2>4. BeganLast'
      BY <1>0, <1>1, <1>4, <2>0, GuiIs DEF LaunchTyped, Epochs, OwnEpochs, OwnPosts, MasksCounted,
         Launched, Working, ToConnect, Closing, BeganLast, Connected, ReadyIs, Held, Connecting,
         NoneWorks, Masked, LinkGone
    <2>5. Connected'
      BY <1>0, <1>1, <1>4, <2>0, GuiIs DEF LaunchTyped, Epochs, OwnEpochs, OwnPosts, MasksCounted,
         Launched, Working, ToConnect, Closing, BeganLast, Connected, ReadyIs, Held, Connecting,
         NoneWorks, Masked, LinkGone
    <2>6. ReadyIs'
      BY <1>0, <1>1, <1>4, <2>0, GuiIs DEF LaunchTyped, Epochs, OwnEpochs, OwnPosts, MasksCounted,
         Launched, Working, ToConnect, Closing, BeganLast, Connected, ReadyIs, Held, Connecting,
         NoneWorks, Masked, LinkGone
    <2>7. Held'
      BY <1>0, <1>1, <1>4, <2>0, GuiIs DEF LaunchTyped, Epochs, OwnEpochs, OwnPosts, MasksCounted,
         Launched, Working, ToConnect, Closing, BeganLast, Connected, ReadyIs, Held, Connecting,
         NoneWorks, Masked, LinkGone
    <2> QED
      BY <2>1, <2>2, <2>3, <2>4, <2>5, <2>6, <2>7
  <1> QED
    BY <1>1, <1>2, <1>3, <1>4 DEF LaunchInv, Undisturbed

LEMMA LShutdownRuns ==
    ASSUME LaunchInv, Launch!NodeLaunchAssumption,
           NEW who \in Launch!Launches \cup {Launch!User}, Launch!ShutdownRuns(who)
    PROVE  LaunchInv'
  <1>0. LaunchTyped /\ Epochs /\ MasksCounted /\ Undisturbed /\ MaxRefresh \in Nat
    BY DEF LaunchInv, Launch!NodeLaunchAssumption
  <1>a. /\ who \in kills
        /\ kills' = kills \ {who}
        /\ \/ lspad' = {} /\ hw_mask' = 0 /\ unkilled' = {}
           \/ unkilled' = lspad /\ UNCHANGED <<lspad, hw_mask>>
        /\ faults' \in Nat /\ faults' <= MaxFaults
        /\ UNCHANGED <<state, epoch, creds, applied, gui, launch_link, refused, thread, refresh,
             node_py, masks, ran_on, late_refresh>>
    <2>1. who \in kills
      BY <1>0 DEF LaunchTyped, ThreadSteps, ThreadStates, Launch!ShutdownRuns, Launch!Launches,
         Launch!NoLink, Launch!User
    <2>2. kills' = kills \ {who}
      BY <1>0 DEF LaunchTyped, ThreadSteps, ThreadStates, Launch!ShutdownRuns, Launch!Launches,
         Launch!NoLink, Launch!User
    <2>3. \/ lspad' = {} /\ hw_mask' = 0 /\ unkilled' = {}
          \/ unkilled' = lspad /\ UNCHANGED <<lspad, hw_mask>>
      BY <1>0 DEF LaunchTyped, ThreadSteps, ThreadStates, Launch!ShutdownRuns, Launch!Launches,
         Launch!NoLink, Launch!User, Launch!Fault, Launch!NodeLaunchAssumption
    <2>4. faults' \in Nat /\ faults' <= MaxFaults
      BY <1>0 DEF LaunchTyped, ThreadSteps, ThreadStates, Launch!ShutdownRuns, Launch!Launches,
         Launch!NoLink, Launch!User, Launch!Fault, Launch!NodeLaunchAssumption
    <2>5. UNCHANGED <<state, epoch, creds, applied, gui, launch_link, refused, thread, refresh,
            node_py, masks, ran_on, late_refresh>>
      BY <1>0, ThreadMoves, GuiRuns DEF LaunchTyped, Launch!ShutdownRuns, Launch!Launches,
         Launch!NoLink, Launch!User, Launch!Post, Launch!Goto, Launch!panel
    <2> QED
      BY <2>1, <2>2, <2>3, <2>4, <2>5
  <1>1. LaunchTyped'
    <2>1. /\ state' \in {"idle", "launching", "ready"} /\ epoch' \in Nat
          /\ creds' \in BOOLEAN /\ refused' \in BOOLEAN /\ ran_on' \in BOOLEAN
          /\ late_refresh' \in BOOLEAN
      BY <1>0, <1>a DEF LaunchTyped, Posts
    <2>2. /\ masks' \in Nat /\ applied' \in 0 .. masks' /\ hw_mask' \in 0 .. masks'
          /\ launch_link' \in Launch!Launches \cup {Launch!NoLink}
      BY <1>0, <1>a DEF LaunchTyped, MasksCounted, ThreadStates, Launch!Launches, Launch!NoLink,
         Launch!User
    <2>3. /\ thread' \in [Launch!Launches -> ThreadStates] /\ refresh' \in ThreadStates
          /\ refresh'.step \in {"off", "mask", "record", "keep"}
      BY <1>0, <1>a DEF LaunchTyped, ThreadStates, ThreadSteps, Launch!Launches, Launch!NoLink,
         Launch!User
    <2>4. kills' \subseteq Launch!Launches \cup {Launch!User}
      BY <1>0, <1>a DEF LaunchTyped
    <2>5. /\ lspad' \subseteq Launch!Launches /\ node_py' \subseteq Launch!Launches
          /\ unkilled' \subseteq Launch!Launches
      BY <1>0, <1>a DEF LaunchTyped
    <2>6. gui' \in Seq(Posts) /\ faults' \in Nat /\ faults' <= MaxFaults
      BY <1>0, <1>a DEF LaunchTyped
    <2> QED
      BY <2>1, <2>2, <2>3, <2>4, <2>5, <2>6 DEF LaunchTyped
  <1>2. Epochs'
    <2>1. \A u \in Launch!Launches : (Launched(u)' <=> Launched(u)) /\
            thread'[u].epoch = thread[u].epoch
      BY <1>0, <1>a DEF OwnEpochs, Epochs, Launched
    <2>2. IsNow' <=> IsNow
      BY <2>1, <1>a DEF IsNow, Launch!Launches, Launch!User
    <2>3. Numbered'
      BY <2>1, <2>2, <1>0, <1>a DEF Epochs, Numbered, Launch!Launches, Launch!User
    <2>4. OwnEpochs'
      BY <2>1, <2>2, <1>0, <1>a DEF Epochs, OwnEpochs, LaunchTyped, ThreadStates, Launch!Launches,
         Launch!NoLink, Launch!User
    <2>5. OwnPosts'
      BY <2>1, <1>0, <1>a, <1>1, GuiIs DEF LaunchTyped, Epochs, OwnEpochs, OwnPosts, Launched,
         Launch!Launches, Launch!NoLink, Launch!User, IsNow
    <2> QED
      BY <2>3, <2>4, <2>5 DEF Epochs
  <1>3. MasksCounted'
    <2>1. MaskSent' = MaskSent
      BY <1>a DEF MaskSent, Launch!Launches, Launch!User
    <2> QED
      BY <2>1, <1>0, <1>a, MaskSentFinite DEF LaunchTyped, MasksCounted, ThreadStates,
         Launch!Launches, Launch!NoLink, Launch!User
  <1>4. ASSUME ~ran_on' PROVE Working' /\ ToConnect' /\ Closing' /\ BeganLast' /\ Connected' /\
               ReadyIs' /\ Held'
    <2>0. Working /\ ToConnect /\ Closing /\ BeganLast /\ Connected /\ ReadyIs /\ Held
      BY <1>0, <1>a, <1>4 DEF Undisturbed, LaunchTyped
    <2> USE <1>a DEF Launch!Launches, Launch!NoLink, Launch!User, Launch!Off, Launch!Alive,
        Moves, Posted, Run
    <2>1. Working'
      BY <1>0, <1>1, <1>4, <2>0, GuiIs DEF LaunchTyped, Epochs, OwnEpochs, OwnPosts, MasksCounted,
         Launched, Working, ToConnect, Closing, BeganLast, Connected, ReadyIs, Held, Connecting,
         NoneWorks, Masked, LinkGone
    <2>2. ToConnect'
      BY <1>0, <1>1, <1>4, <2>0, GuiIs DEF LaunchTyped, Epochs, OwnEpochs, OwnPosts, MasksCounted,
         Launched, Working, ToConnect, Closing, BeganLast, Connected, ReadyIs, Held, Connecting,
         NoneWorks, Masked, LinkGone
    <2>3. Closing'
      BY <1>0, <1>1, <1>4, <2>0, GuiIs DEF LaunchTyped, Epochs, OwnEpochs, OwnPosts, MasksCounted,
         Launched, Working, ToConnect, Closing, BeganLast, Connected, ReadyIs, Held, Connecting,
         NoneWorks, Masked, LinkGone
    <2>4. BeganLast'
      BY <1>0, <1>1, <1>4, <2>0, GuiIs DEF LaunchTyped, Epochs, OwnEpochs, OwnPosts, MasksCounted,
         Launched, Working, ToConnect, Closing, BeganLast, Connected, ReadyIs, Held, Connecting,
         NoneWorks, Masked, LinkGone
    <2>5. Connected'
      BY <1>0, <1>1, <1>4, <2>0, GuiIs DEF LaunchTyped, Epochs, OwnEpochs, OwnPosts, MasksCounted,
         Launched, Working, ToConnect, Closing, BeganLast, Connected, ReadyIs, Held, Connecting,
         NoneWorks, Masked, LinkGone
    <2>6. ReadyIs'
      BY <1>0, <1>1, <1>4, <2>0, GuiIs DEF LaunchTyped, Epochs, OwnEpochs, OwnPosts, MasksCounted,
         Launched, Working, ToConnect, Closing, BeganLast, Connected, ReadyIs, Held, Connecting,
         NoneWorks, Masked, LinkGone
    <2>7. Held'
      BY <1>0, <1>1, <1>4, <2>0, GuiIs DEF LaunchTyped, Epochs, OwnEpochs, OwnPosts, MasksCounted,
         Launched, Working, ToConnect, Closing, BeganLast, Connected, ReadyIs, Held, Connecting,
         NoneWorks, Masked, LinkGone
    <2> QED
      BY <2>1, <2>2, <2>3, <2>4, <2>5, <2>6, <2>7
  <1> QED
    BY <1>1, <1>2, <1>3, <1>4 DEF LaunchInv, Undisturbed

LEMMA LGui ==
    ASSUME LaunchInv, Launch!NodeLaunchAssumption, Launch!Gui
    PROVE  LaunchInv'
  <1>0. LaunchTyped /\ Epochs /\ MasksCounted /\ Undisturbed /\ MaxRefresh \in Nat
    BY DEF LaunchInv, Launch!NodeLaunchAssumption
  <1>a. /\ gui # <<>>
        /\ Run
        /\ ((UNCHANGED <<state, launch_link, refused>> /\ gui[1].epoch \notin {0, epoch})
           \/ (gui[1].epoch \in {0, epoch} /\ gui[1].what # "connect" /\ state' = gui[1].what /\
                UNCHANGED <<launch_link, refused>>)
           \/ (gui[1].epoch \in {0, epoch} /\ gui[1].what = "connect" /\ state' = "ready" /\
                launch_link' \in node_py /\ UNCHANGED refused)
           \/ (gui[1].epoch \in {0, epoch} /\ gui[1].what = "connect" /\ refused' = TRUE /\
                UNCHANGED <<state, launch_link>>))
        /\ faults' \in Nat /\ faults' <= MaxFaults
        /\ UNCHANGED <<epoch, creds, applied, thread, refresh, kills, lspad, hw_mask, node_py,
             masks, ran_on, unkilled, late_refresh>>
    <2>1. gui # <<>>
      BY <1>0, GuiRuns DEF LaunchTyped, ThreadSteps, ThreadStates, Launch!Gui, Launch!Launches,
         Launch!NoLink, Launch!User, Launch!Current, Launch!Post, Launch!node
    <2>2. Run
      BY <1>0, GuiRuns DEF LaunchTyped, ThreadSteps, ThreadStates, Launch!Gui, Launch!Launches,
         Launch!NoLink, Launch!User, Launch!Current, Launch!Post, Launch!node
    <2>3. ((UNCHANGED <<state, launch_link, refused>> /\ gui[1].epoch \notin {0, epoch})
            \/ (gui[1].epoch \in {0, epoch} /\ gui[1].what # "connect" /\ state' = gui[1].what /\
                 UNCHANGED <<launch_link, refused>>)
            \/ (gui[1].epoch \in {0, epoch} /\ gui[1].what = "connect" /\ state' = "ready" /\
                 launch_link' \in node_py /\ UNCHANGED refused)
            \/ (gui[1].epoch \in {0, epoch} /\ gui[1].what = "connect" /\ refused' = TRUE /\
                 UNCHANGED <<state, launch_link>>))
      BY <1>0, GuiRuns DEF LaunchTyped, ThreadSteps, ThreadStates, Launch!Gui, Launch!Launches,
         Launch!NoLink, Launch!User, Launch!Current, Launch!Post, Launch!node
    <2>4. faults' \in Nat /\ faults' <= MaxFaults
      <3>1. faults \in Nat /\ faults <= MaxFaults /\ MaxFaults \in Nat
        BY <1>0 DEF LaunchTyped, Launch!NodeLaunchAssumption
      <3>2. faults' = faults \/ (faults < MaxFaults /\ faults' = faults + 1)
        BY DEF Launch!Gui, Launch!Fault
      <3> QED
        BY <3>1, <3>2
    <2>5. UNCHANGED <<epoch, creds, applied, thread, refresh, kills, lspad, hw_mask, node_py,
            masks, ran_on, unkilled, late_refresh>>
      BY <1>0, ThreadMoves DEF LaunchTyped, Launch!Gui, Launch!Launches, Launch!NoLink,
         Launch!User, Launch!Current, Launch!Goto, Launch!node, Launch!ghosts
    <2> QED
      BY <2>1, <2>2, <2>3, <2>4, <2>5
  <1>1. LaunchTyped'
    <2>1. /\ state' \in {"idle", "launching", "ready"} /\ epoch' \in Nat
          /\ creds' \in BOOLEAN /\ refused' \in BOOLEAN /\ ran_on' \in BOOLEAN
          /\ late_refresh' \in BOOLEAN
      BY <1>0, <1>a DEF LaunchTyped, Run, Posts
    <2>2. /\ masks' \in Nat /\ applied' \in 0 .. masks' /\ hw_mask' \in 0 .. masks'
          /\ launch_link' \in Launch!Launches \cup {Launch!NoLink}
      BY <1>0, <1>a DEF LaunchTyped, MasksCounted, ThreadStates, Launch!Launches, Launch!NoLink,
         Launch!User
    <2>3. /\ thread' \in [Launch!Launches -> ThreadStates] /\ refresh' \in ThreadStates
          /\ refresh'.step \in {"off", "mask", "record", "keep"}
      BY <1>0, <1>a DEF LaunchTyped, ThreadStates, ThreadSteps, Launch!Launches, Launch!NoLink,
         Launch!User
    <2>4. kills' \subseteq Launch!Launches \cup {Launch!User}
      BY <1>0, <1>a DEF LaunchTyped
    <2>5. /\ lspad' \subseteq Launch!Launches /\ node_py' \subseteq Launch!Launches
          /\ unkilled' \subseteq Launch!Launches
      BY <1>0, <1>a DEF LaunchTyped
    <2>6. gui' \in Seq(Posts) /\ faults' \in Nat /\ faults' <= MaxFaults
      BY <1>0, <1>a DEF LaunchTyped, Run
    <2> QED
      BY <2>1, <2>2, <2>3, <2>4, <2>5, <2>6 DEF LaunchTyped
  <1>2. Epochs'
    <2>1. \A u \in Launch!Launches : (Launched(u)' <=> Launched(u)) /\ thread'[u] = thread[u]
      BY <1>0, <1>a DEF Launched
    <2>2. IsNow' <=> IsNow
      BY <2>1, <1>a DEF IsNow
    <2>3. Numbered'
      BY <2>1, <2>2, <1>0, <1>a DEF Epochs, Numbered
    <2>4. gui[1].epoch \in {0, epoch} => (state' # "idle" => state # "idle" \/ IsNow)
      BY <1>0, <1>a, GuiIs DEF Epochs, OwnPosts, OwnEpochs, IsNow, LaunchTyped, ThreadStates, Run
    <2>5. OwnEpochs'
      BY <2>1, <2>2, <2>4, <1>0, <1>a DEF Epochs, OwnEpochs
    <2>6. OwnPosts'
      BY <1>0, <1>a DEF Epochs, OwnPosts, Run
    <2> QED
      BY <2>3, <2>5, <2>6 DEF Epochs
  <1>3. MasksCounted'
    <2>1. MaskSent' = MaskSent
      BY <1>a DEF MaskSent, Launch!Launches
    <2> QED
      BY <2>1, <1>0, <1>a, MaskSentFinite DEF LaunchTyped, MasksCounted, ThreadStates,
         Launch!Launches, Launch!NoLink, Launch!User
  <1>4. ASSUME ~ran_on' PROVE Working' /\ ToConnect' /\ Closing' /\ BeganLast' /\ Connected' /\
               ReadyIs' /\ Held'
    <2>0. Working /\ ToConnect /\ Closing /\ BeganLast /\ Connected /\ ReadyIs /\ Held
      BY <1>0, <1>a, <1>4 DEF Undisturbed, LaunchTyped
    <2> USE <1>a DEF Launch!Launches, Launch!NoLink, Launch!User, Launch!Off, Launch!Alive,
        Moves, Posted, Run
    <2>g. Len(gui) = 1 \/
            (Len(gui) = 2 /\ gui[1] = [what |-> "launching", epoch |-> epoch] /\
                state = "idle" /\ refresh.step = "off")
      <3>1. CASE gui[Len(gui)].what = "launching"
        BY <3>1, <2>0, GuiIs DEF BeganLast, Working
      <3>2. CASE Connecting
        BY <3>2, <2>0, GuiIs DEF ToConnect
      <3>3. CASE gui[Len(gui)].what # "launching" /\ ~Connecting
        BY <3>3, <2>0, GuiIs DEF Closing
      <3> QED
        BY <3>1, <3>2, <3>3
    <2>h. Len(gui') = Len(gui) - 1 /\
            (gui' # <<>> => Len(gui) = 2 /\ Len(gui') = 1 /\ gui'[1] = gui[2])
      BY <2>g
    <2>i. gui' # <<>> => state' = "launching" /\ launch_link' = launch_link
      BY <2>g, <2>h
    <2> USE <2>g, <2>h, <2>i
    <2>1. Working'
      <3>1. ASSUME NEW u \in Launch!Launches, Launch!Alive(u)
            PROVE  /\ gui = <<[what |-> "launching", epoch |-> epoch]>> /\ state = "idle" /\
                        thread[u].step # "begin"
                   /\ gui' = <<>> /\ state' = "launching"
        BY <3>1, <2>0 DEF Working
      <3> QED
        BY <3>1, <2>0, MaskedKept DEF Working
    <2>2. ToConnect'
      BY <1>0, <1>1, <1>4, <2>0, GuiIs DEF LaunchTyped, Epochs, OwnEpochs, OwnPosts, MasksCounted,
         Launched, Working, ToConnect, Closing, BeganLast, Connected, ReadyIs, Held, Connecting,
         NoneWorks, Masked, LinkGone
    <2>3. Closing'
      <3> SUFFICES ASSUME gui' # <<>>, gui'[Len(gui')].what # "launching", ~Connecting'
                   PROVE  /\ NoneWorks' /\ launch_link' = Launch!NoLink /\ Len(gui') = 1
                          /\ gui'[1].what = "idle"
        BY DEF Closing
      <3>1. Len(gui) = 2 /\ gui'[1] = gui[2] /\ gui # <<>> /\ ~Connecting /\
              gui[2].what # "launching"
        BY GuiIs, <1>0 DEF Connecting
      <3> QED
        BY <3>1, <1>0, <2>0 DEF Closing, NoneWorks
    <2>4. BeganLast'
      BY <1>0, <1>1, <1>4, <2>0, GuiIs DEF LaunchTyped, Epochs, OwnEpochs, OwnPosts, MasksCounted,
         Launched, Working, ToConnect, Closing, BeganLast, Connected, ReadyIs, Held, Connecting,
         NoneWorks, Masked, LinkGone
    <2>5. Connected'
      BY <1>0, <1>1, <1>4, <2>0, GuiIs DEF LaunchTyped, Epochs, OwnEpochs, OwnPosts, MasksCounted,
         Launched, Working, ToConnect, Closing, BeganLast, Connected, ReadyIs, Held, Connecting,
         NoneWorks, Masked, LinkGone
    <2>6. ReadyIs'
      <3>1. ASSUME state' = "ready", state = "ready" PROVE NoneWorks /\ gui' = <<>> /\
                   launch_link' # Launch!NoLink
        <4>1. gui[1].epoch = 0 /\ gui[1].what = "idle"
          BY <3>1, <1>0, <2>0, GuiIs DEF ReadyIs, Connected, Epochs, OwnPosts
        <4> QED
          BY <4>1, <3>1
      <3>2. ASSUME state' = "ready", state # "ready" PROVE NoneWorks /\ gui' = <<>> /\
                   launch_link' # Launch!NoLink
        <4>1. gui[1].what = "connect" /\ launch_link' \in node_py /\ gui[1].epoch \in {0, epoch}
          BY <3>2, <1>0, <1>a DEF Posts
        <4>2. Len(gui) = 1 /\ Connecting
          BY <4>1, <1>0, GuiIs DEF Connecting, Epochs, OwnPosts
        <4> QED
          BY <4>1, <4>2, <1>0, <2>0 DEF ToConnect, LaunchTyped, Launch!NodeLaunchAssumption
      <3>3. refresh'.step # "off" => NoneWorks /\ state' # "launching" /\ refresh'.epoch = epoch'
        BY <1>0, <2>0, GuiIs DEF ReadyIs, BeganLast, NoneWorks
      <3> QED
        BY <3>1, <3>2, <3>3 DEF ReadyIs, NoneWorks
    <2>7. Held'
      BY <1>0, <1>1, <1>4, <2>0, GuiIs DEF LaunchTyped, Epochs, OwnEpochs, OwnPosts, MasksCounted,
         Launched, Working, ToConnect, Closing, BeganLast, Connected, ReadyIs, Held, Connecting,
         NoneWorks, Masked, LinkGone
    <2> QED
      BY <2>1, <2>2, <2>3, <2>4, <2>5, <2>6, <2>7
  <1> QED
    BY <1>1, <1>2, <1>3, <1>4 DEF LaunchInv, Undisturbed

LEMMA LaunchInit ==
    ASSUME Launch!NodeLaunchAssumption, Launch!Init
    PROVE  LaunchInv
  <1> USE DEF Launch!Init, Launch!Launches, Launch!NoLink, Launch!User, Launch!Off
  <1>1. LaunchTyped
    <2>1. gui \in Seq(Posts)
      OBVIOUS
    <2>2. thread \in [Launch!Launches -> ThreadStates] /\ refresh \in ThreadStates
      BY DEF ThreadStates, ThreadSteps
    <2>3. /\ masks \in Nat /\ applied \in 0 .. masks /\ hw_mask \in 0 .. masks /\
               faults \in Nat /\ faults <= MaxFaults
      BY DEF Launch!NodeLaunchAssumption
    <2>4. /\ creds \in BOOLEAN /\ refused \in BOOLEAN /\ ran_on \in BOOLEAN
          /\ late_refresh \in BOOLEAN
      BY Zenon
    <2>5. /\ state \in {"idle", "launching", "ready"} /\ epoch \in Nat /\
               kills \subseteq Launch!Launches \cup {Launch!User}
          /\ launch_link \in Launch!Launches \cup {Launch!NoLink}
          /\ unkilled \subseteq Launch!Launches
          /\ lspad \subseteq Launch!Launches /\ node_py \subseteq Launch!Launches /\
               refresh.step = "off"
      OBVIOUS
    <2> QED
      BY <2>1, <2>2, <2>3, <2>4, <2>5 DEF LaunchTyped
  <1>2. Epochs
    <2>1. ~IsNow /\ \A t \in Launch!Launches : ~Launched(t)
      BY DEF IsNow, Launched
    <2>2. Numbered
      <3>1. 0 \in 0 .. MaxLaunches /\ epoch <= 2 * 0
        BY DEF Launch!NodeLaunchAssumption
      <3> QED
        BY <2>1, <3>1 DEF Numbered
    <2> QED
      BY <2>1, <2>2 DEF Epochs, OwnEpochs, OwnPosts, Launched
  <1>3. MasksCounted
    <2>1. Cardinality(MaskSent) \in Nat /\ MaxRefresh \in Nat
      BY MaskSentFinite DEF Launch!NodeLaunchAssumption
    <2> QED
      BY <2>1 DEF MasksCounted
  <1>4. Undisturbed
    BY DEF Undisturbed, Working, ToConnect, Closing, BeganLast, Connected, ReadyIs, Held,
       Connecting, NoneWorks, Masked, LinkGone, Launch!Alive
  <1> QED
    BY <1>1, <1>2, <1>3, <1>4 DEF LaunchInv

LEMMA LaunchNext ==
    ASSUME LaunchInv, Launch!NodeLaunchAssumption, Launch!Next
    PROVE  LaunchInv'
  <1>1. ASSUME NEW t \in Launch!Launches, Launch!ThreadStep(t) PROVE LaunchInv'
    BY <1>1, LBegin, LStartLspad, LApplyMask, LCheckMask, LKeepMask, LKillNode, LStartNode,
       LPostConnect, LLaunchFails DEF Launch!ThreadStep
  <1>2. CASE Launch!RefreshStep
    BY <1>2, LRefreshApplies, LRefreshChecks, LRefreshKeeps, LRefreshFails DEF Launch!RefreshStep
  <1>3. CASE Launch!Users
    BY <1>3, LOnLaunch, LOnAbort, LDisconnect, LOnRefresh DEF Launch!Users
  <1> QED
    BY <1>1, <1>2, <1>3, LLinkLost, LGui, LShutdownRuns DEF Launch!Next

LEMMA LaunchStutter ==
    ASSUME LaunchInv, UNCHANGED launchvars
    PROVE  LaunchInv'
  <1>1. LaunchTyped' /\ Epochs' /\ MasksCounted'
    BY DEF launchvars, LaunchInv, LaunchTyped, Epochs, Numbered, IsNow, OwnEpochs, OwnPosts,
       Launched, MasksCounted, MaskSent
  <1>2. Undisturbed'
    BY DEF launchvars, LaunchInv, Undisturbed, Working, ToConnect, Closing, BeganLast, Connected,
       ReadyIs, Held, Connecting,
         NoneWorks, Masked, LinkGone, Launch!Alive
  <1> QED
    BY <1>1, <1>2 DEF LaunchInv

LEMMA LaunchIs == ASSUME LaunchInv, Launch!NodeLaunchAssumption PROVE LaunchSound
  <1> USE DEF LaunchInv
  <1> HIDE DEF LaunchSound
  <1>1. Launch!TypeOK
    <2>1. PICK n \in 0 .. MaxLaunches : epoch <= 2 * n
      BY DEF Epochs, Numbered
    <2>2. epoch \in 0 .. 2 * MaxLaunches
      BY <2>1 DEF LaunchTyped, Launch!NodeLaunchAssumption
    <2>3. masks \in 0 .. MaxLaunches + MaxRefresh
      <3>1. MaskSent \subseteq 1 .. MaxLaunches /\ Cardinality(1 .. MaxLaunches) = MaxLaunches
            /\ IsFiniteSet(1 .. MaxLaunches)
        <4>1. MaxLaunches \in Nat /\ 1 \in Int
          BY DEF Launch!NodeLaunchAssumption
        <4>2. IsFiniteSet(1 .. MaxLaunches) /\ Cardinality(1 .. MaxLaunches) = MaxLaunches
          BY <4>1, FS_Interval
        <4> QED
          BY <4>2 DEF MaskSent, Launch!Launches
      <3>2. Cardinality(MaskSent) <= MaxLaunches /\ Cardinality(MaskSent) \in Nat
        BY <3>1, MaskSentFinite, FS_Subset
      <3> QED
        BY <3>2 DEF LaunchTyped, MasksCounted, Launch!NodeLaunchAssumption
    <2>4. \A t \in Launch!Launches : thread[t].epoch \in 0 .. epoch /\ thread[t].sent \in 0 .. masks
      BY DEF LaunchTyped, Epochs, OwnEpochs, MasksCounted, ThreadStates
    <2>5. refresh.epoch \in 0 .. epoch
      BY DEF LaunchTyped, Epochs, OwnEpochs, ThreadStates
    <2>6. \A i \in DOMAIN gui : gui[i].epoch \in 0 .. epoch
      BY <2>4, GuiIs DEF Epochs, OwnPosts, LaunchTyped
    <2>7. /\ {creds, refused, ran_on, late_refresh} \subseteq BOOLEAN
          /\ {applied, hw_mask} \subseteq 0 .. masks
          /\ {lspad, node_py, unkilled} \subseteq SUBSET Launch!Launches /\ faults \in 0 .. MaxFaults
      BY DEF LaunchTyped, Launch!NodeLaunchAssumption
    <2> QED
      BY <2>2, <2>3, <2>4, <2>5, <2>6, <2>7 DEF Launch!TypeOK, LaunchTyped
  <1>2. Launch!AbortStays
    BY DEF Launch!AbortStays, Epochs, OwnEpochs, IsNow
  <1>3. Launch!MaskInUse
    <2> SUFFICES ASSUME state = "ready", applied # 0, refresh.step = "off",
                 ~ran_on, ~late_refresh PROVE applied = hw_mask
      BY DEF Launch!MaskInUse
    <2>1. CASE launch_link # Launch!NoLink
      BY <2>1 DEF Undisturbed, Connected, Masked
    <2>2. CASE launch_link = Launch!NoLink
      <3>1. gui # <<>> /\ gui[1].what = "idle" /\ NoneWorks
        BY <2>2, GuiIs DEF Undisturbed, ReadyIs, Epochs, OwnPosts
      <3>2. gui[Len(gui)].what # "launching" /\ ~Connecting
        BY <3>1, GuiIs DEF Undisturbed, BeganLast, ToConnect, NoneWorks
      <3> QED
        BY <2>2, <3>1, <3>2 DEF Undisturbed, Closing, Held, LinkGone, Masked, LaunchTyped
    <2> QED
      BY <2>1, <2>2
  <1>4. Launch!OneNodePy
    <2> SUFFICES ASSUME ~ran_on PROVE Cardinality(node_py) <= 1
      <3>1. \A S : Launch!Cardinality(S) = Cardinality(S)
        BY DEF Launch!Cardinality, Cardinality
      <3> QED
        BY <3>1 DEF Launch!OneNodePy
    <2>1. \A x, y \in node_py : x = y
      BY DEF Undisturbed, Held
    <2>2. CASE node_py = {}
      BY <2>2, FS_EmptySet
    <2>3. CASE node_py # {}
      <3>1. PICK x : node_py = {x}
        BY <2>1, <2>3
      <3> QED
        <4>1. Cardinality({x}) = 1
          BY FS_Singleton
        <4> QED
          BY <3>1, <4>1
    <2> QED
      BY <2>2, <2>3
  <1>5. Launch!FailureCleansUp
    BY DEF Launch!FailureCleansUp, Undisturbed, Held, NoneWorks, Connecting, Connected,
       Launch!SomeAlive, LaunchTyped
  <1> QED
    BY <1>1, <1>2, <1>3, <1>4, <1>5 DEF LaunchSound

-----------------------------------------------------------------------------
(***************************************************************************)
(* A session of the receiver.  What was read of a key is what was sent of it *)
(* up to the chunk that is read next, in the file of the key and in the    *)
(* queue of the pixel, and nothing that was sent is lost unless the link   *)
(* broke before the end of the session was read (Got).                     *)
(***************************************************************************)
KindSet == Receive!Range(MarkerKinds)
Chip2 == {"master", "slave"}
Chunks == [what : {"CHUNK"}, key : Receive!Keys, of : Nat, id : Nat]
Frames == [what : {"SETUP", "TABLE", "END"}] \cup Chunks
MarkerTaps == {<<"master", MarkerKinds[1]>>, <<"slave", MarkerKinds[1]>>}

\* The chunks of a sequence are of connections and have numbers that were given.
Given(s) == \A i \in DOMAIN s : s[i].of \in 1 .. conn /\ s[i].id \in 1 .. chunks

ReceiveTyped ==
    /\ conn \in 0 .. MaxConns /\ mode \in {"timestamp", "intensity"}
    /\ data_link \in {"none", "open", "closed", "broken"} /\ sender \in {"off", "data", "ended"}
    /\ step \in {"accept", "setup", "timestamp", "intensity", "over"}
    /\ seen \subseteq KindSet /\ kind \in KindSet \cup {"none"}
    /\ write \in BOOLEAN /\ fired \in BOOLEAN /\ finished \in BOOLEAN /\ torn_open \in BOOLEAN
    /\ table \in 0 .. conn /\ chunks \in 0 .. MaxChunks /\ breaks \in 0 .. MaxBreaks
    /\ sent \in Seq(Chunks) /\ wire \in Seq(Frames)
    /\ queue \in [Receive!Taps -> Seq(Chunks)]
    /\ file \in [Receive!Keys -> [of : Nat, data : Seq(Chunks)]]

ReceiveCounted ==
    /\ Given(sent) /\ \A t \in Receive!Taps : Given(queue[t])
    /\ \A k \in Receive!Keys : Given(file[k].data) /\ file[k].of <= conn

ReceivePhase ==
    /\ data_link = "none" => step = "accept" /\ wire = <<>>
    /\ data_link # "none" => conn # 0
    /\ data_link = "closed" => sender = "ended"
    /\ data_link = "none" <=> sender = "off"
    /\ step = "timestamp" => mode = "timestamp" /\ ~finished
    /\ step = "over" => mode = "intensity"
    /\ step = "intensity" => mode = "intensity"
    /\ finished => wire = <<>> /\ sender # "data" /\ (step = "accept" => data_link = "none")
    /\ step = "setup" /\ ~finished => \A t \in Receive!Taps : queue[t] = <<>>

\* What is on its way in w of what was sent in s.
Way(w, s) ==
    /\ \A i \in DOMAIN w : w[i].what = "END" => i = Len(w)
    /\ \A i \in DOMAIN w : w[i].what = "CHUNK" => \E j \in DOMAIN s : w[i] = s[j]
    /\ \A i, j \in DOMAIN w :
          i < j /\ w[i].what = "CHUNK" /\ w[j].what = "CHUNK" => w[i].id < w[j].id

\* The end of the session is still to be read, or is read.
Ending(w) == \E i \in DOMAIN w : w[i].what = "END"
Uncut == finished \/ data_link # "broken" \/ Ending(wire)

\* q has what was read of key k, from a session whose end is not lost if `uncut`.
Got(q, k, s, w, uncut) ==
    /\ \A i, j \in DOMAIN q : i < j => q[i].id < q[j].id
    /\ \A i \in DOMAIN q : q[i].key = k /\ \E j \in DOMAIN s : q[i] = s[j]
    /\ \A i \in DOMAIN q, j \in DOMAIN w : w[j].what = "CHUNK" => q[i].id < w[j].id
    /\ uncut => \A j \in DOMAIN s : s[j].key = k => \/ \E i \in DOMAIN q : q[i] = s[j]
                                                   \/ \E i \in DOMAIN w : w[i] = s[j]

\* What is in s is in t; what was got of s and w is got of a and b.
AllIn(s, t) == \A j \in DOMAIN s : \E i \in DOMAIN t : t[i] = s[j]
Keeps(s, w, u, a, b, v) == \A q \in Seq(Chunks) : \A k : Got(q, k, s, w, u) => Got(q, k, a, b, v)

\* b is what of w arrives when the link breaks.
CutTo(w, b) == \E n \in 0 .. Len(w) : b = SubSeq(w, 1, n)

ReceiveWay ==
    /\ Way(wire, sent) /\ \A j \in DOMAIN sent : sent[j].of = conn
    /\ Ending(wire) => sender = "ended"
    /\ step \in {"accept", "setup"} /\ ~finished /\ data_link # "none" /\ Uncut
       => AllIn(sent, wire)

\* A session is read, or is read to its end.
Reading == step = "timestamp" \/ (finished /\ mode = "timestamp")

ReceiveGot ==
    Reading => /\ Got(queue[Receive!Pixel], Receive!Pixel, sent, wire, Uncut)
               /\ write => \A k \in Receive!Keys : Got(file[k].data, k, sent, wire, Uncut)

ReceiveFiles ==
    /\ ~torn_open => \A j, k \in Receive!Keys :
                        /\ file[j].of = file[k].of
                        /\ \A i \in DOMAIN file[k].data : file[k].data[i].of = file[k].of
    /\ step = "timestamp" /\ write => \A k \in Receive!Keys : file[k].of = conn

ReceiveKinds ==
    /\ kind = IF seen = {} THEN "none" ELSE Receive!Best(seen)
    /\ Reading /\ write =>
         \A k \in KindSet : k \in seen <=> \E c \in Chip2 : file[<<c, k>>].data # <<>>
    /\ \A t \in MarkerTaps :
          /\ \A i \in DOMAIN queue[t] : /\ queue[t][i].key \in Receive!Markers
                                        /\ queue[t][i].key[1] = t[1] /\ queue[t][i].key[2] \in seen
          /\ \A i, j \in DOMAIN queue[t] :
                i < j => Receive!Rank(queue[t][i].key[2]) >= Receive!Rank(queue[t][j].key[2])
    /\ Reading => /\ \A t \in Receive!Taps : \A i \in DOMAIN queue[t] : queue[t][i].of = conn
                  /\ fired <=> queue[<<"slave", MarkerKinds[1]>>] # <<>>

ReceiveInv == /\ ReceiveTyped /\ ReceiveCounted /\ ReceivePhase /\ ReceiveWay /\ ReceiveGot
              /\ ReceiveFiles /\ ReceiveKinds

LEMMA FrameIs ==
  /\ \A x \in Chunks : x.what = "CHUNK" /\ x.id \in Nat /\ x.of \in Nat /\
       x.key \in Receive!Keys /\ x \in Frames
  /\ \A x \in Frames : x.what = "CHUNK" => x \in Chunks
  /\ \A x \in Frames : x.what \in {"SETUP", "TABLE", "END", "CHUNK"}
  BY DEF Chunks, Frames

\* A frame more in w: a chunk, or one of the others.
LEMMA WayAdds ==
  ASSUME NEW s \in Seq(Chunks), NEW w \in Seq(Frames), Way(w, s), ~Ending(w), NEW c \in Frames,
         c.what # "CHUNK",
         NEW b, b = Append(w, c)
  PROVE  /\ b \in Seq(Frames) /\ Way(b, s) /\ (c.what # "END" => ~Ending(b))
         /\ AllIn(w, b) /\ Keeps(s, w, TRUE, s, b, TRUE)
  <1>1. /\ b \in Seq(Frames) /\ Len(w) \in Nat /\ Len(b) = Len(w) + 1 /\
             DOMAIN w = 1 .. Len(w) /\ DOMAIN b = 1 .. Len(w) + 1
    OBVIOUS
  <1>2. \A i \in DOMAIN b : (i \in DOMAIN w /\ b[i] = w[i]) \/ (i = Len(b) /\ b[i] = c)
    BY <1>1
  <1>3. \A i \in DOMAIN w : i \in DOMAIN b /\ b[i] = w[i]
    BY <1>1
  <1>4. Way(b, s)
    BY <1>2 DEF Way, Ending
  <1>5. \A i \in DOMAIN w : \E j \in DOMAIN b : b[j] = w[i]
    BY <1>3
  <1>6. ASSUME NEW q, NEW k, Got(q, k, s, w, TRUE) PROVE Got(q, k, s, b, TRUE)
    BY <1>2, <1>3, <1>6 DEF Got
  <1> QED
    BY <1>1, <1>2, <1>4, <1>5, <1>6 DEF Ending, AllIn, Keeps

LEMMA WaySends ==
  ASSUME NEW s \in Seq(Chunks), NEW w \in Seq(Frames), Way(w, s), ~Ending(w), NEW c \in Chunks,
         NEW n \in Nat, c.id = n + 1,
         \A i \in DOMAIN s : s[i].id <= n, NEW b, b = Append(w, c), NEW a, a = Append(s, c)
  PROVE  /\ a \in Seq(Chunks) /\ b \in Seq(Frames) /\ Way(b, a) /\ ~Ending(b)
         /\ (AllIn(s, w) => AllIn(a, b)) /\ Keeps(s, w, TRUE, a, b, TRUE)
  <1>1. /\ a \in Seq(Chunks) /\ b \in Seq(Frames) /\ Len(w) \in Nat /\ Len(b) = Len(w) + 1 /\
             Len(a) = Len(s) + 1
        /\ DOMAIN w = 1 .. Len(w) /\ DOMAIN b = 1 .. Len(b) /\ Len(s) \in Nat /\ DOMAIN s = 1 .. Len(s) /\ DOMAIN a = 1 .. Len(a)
        /\ c.what = "CHUNK"
    BY FrameIs
  <1>2. /\ \A i \in DOMAIN b : (i \in DOMAIN w /\ b[i] = w[i]) \/ (i = Len(b) /\ b[i] = c)
        /\ \A i \in DOMAIN a : (i \in DOMAIN s /\ a[i] = s[i]) \/ (i = Len(a) /\ a[i] = c)
    BY <1>1, FrameIs
  <1>3. /\ \A i \in DOMAIN w : i \in DOMAIN b /\ b[i] = w[i] /\ i < Len(b)
        /\ \A i \in DOMAIN s : i \in DOMAIN a /\ a[i] = s[i]
        /\ Len(b) \in DOMAIN b /\ b[Len(b)] = c /\ Len(a) \in DOMAIN a /\ a[Len(a)] = c
    BY <1>1, FrameIs
  <1>4. \A i \in DOMAIN s : s[i].id < c.id
    BY FrameIs
  <1>5. \A i \in DOMAIN w : w[i].what = "CHUNK" => w[i].id < c.id
    BY <1>4 DEF Way
  <1>6. Way(b, a)
    <2>1. ASSUME NEW i \in DOMAIN b, b[i].what = "END" PROVE i = Len(b)
      BY <1>1, <1>2, <2>1 DEF Ending
    <2>2. ASSUME NEW i \in DOMAIN b, b[i].what = "CHUNK" PROVE \E j \in DOMAIN a : b[i] = a[j]
      BY <1>2, <1>3, <2>2 DEF Way
    <2>3. ASSUME NEW i \in DOMAIN b, NEW j \in DOMAIN b, i < j, b[i].what = "CHUNK",
                 b[j].what = "CHUNK" PROVE b[i].id < b[j].id
      <3>1. i \in DOMAIN w /\ b[i] = w[i]
        BY <1>1, <1>2, <2>3
      <3> QED
        BY <1>2, <1>5, <2>3, <3>1 DEF Way
    <2> QED
      BY <2>1, <2>2, <2>3 DEF Way
  <1>7. ~Ending(b)
    BY <1>1, <1>2 DEF Ending
  <1>8. ASSUME \A j \in DOMAIN s : \E i \in DOMAIN w : w[i] = s[j]
        PROVE  \A j \in DOMAIN a : \E i \in DOMAIN b : b[i] = a[j]
    BY <1>2, <1>3, <1>8
  <1>9. ASSUME NEW q \in Seq(Chunks), NEW k, Got(q, k, s, w, TRUE) PROVE Got(q, k, a, b, TRUE)
    <2>1. \A i \in DOMAIN q : q[i].key = k /\ \E j \in DOMAIN a : q[i] = a[j]
      BY <1>3, <1>9 DEF Got
    <2>2. \A i \in DOMAIN q, j \in DOMAIN b : b[j].what = "CHUNK" => q[i].id < b[j].id
      BY <1>2, <1>4, <1>9 DEF Got
    <2>3. \A j \in DOMAIN a : a[j].key = k =>
            (\E i \in DOMAIN q : q[i] = a[j]) \/ (\E i \in DOMAIN b : b[i] = a[j])
      <3> SUFFICES ASSUME NEW j \in DOMAIN a, a[j].key = k
                   PROVE  (\E i \in DOMAIN q : q[i] = a[j]) \/ (\E i \in DOMAIN b : b[i] = a[j])
        OBVIOUS
      <3>1. CASE j \in DOMAIN s /\ a[j] = s[j]
        <4>1. (\E i \in DOMAIN q : q[i] = s[j]) \/ (\E i \in DOMAIN w : w[i] = s[j])
          BY <1>9, <3>1 DEF Got
        <4> QED
          BY <1>3, <3>1, <4>1
      <3> QED
        BY <1>2, <1>3, <3>1
    <2> QED
      BY <1>9, <2>1, <2>2, <2>3 DEF Got
  <1> QED
    BY <1>1, <1>6, <1>7, <1>8, <1>9 DEF AllIn, Keeps

\* What is lost is lost from the end.
LEMMA WayCut ==
  ASSUME NEW s \in Seq(Chunks), NEW w \in Seq(Frames), Way(w, s), NEW b, CutTo(w, b)
  PROVE  /\ b \in Seq(Frames) /\ Way(b, s) /\ (Ending(b) => Ending(w)) /\ (w = <<>> => b = w)
         /\ (Ending(b) => AllIn(w, b)) /\ Keeps(s, w, TRUE, s, b, Ending(b))
  <1>n. PICK n : n \in 0 .. Len(w) /\ b = SubSeq(w, 1, n)
    BY DEF CutTo
  <1>1. /\ b \in Seq(Frames) /\ Len(w) \in Nat /\ n \in Nat /\ n <= Len(w) /\ Len(b) = n /\
             DOMAIN w = 1 .. Len(w) /\ DOMAIN b = 1 .. n
    BY <1>n
  <1>2. \A i \in DOMAIN b : i \in DOMAIN w /\ b[i] = w[i]
    BY <1>1, <1>n
  <1>3. ASSUME Ending(b) PROVE n = Len(w)
    <2>1. PICK i : i \in DOMAIN b /\ b[i].what = "END"
      BY <1>3 DEF Ending
    <2>2. i = Len(w) /\ i \in 1 .. n
      BY <1>1, <1>2, <2>1 DEF Way
    <2>3. Len(w) \in 1 .. n
      BY <2>2
    <2>4. n \in Nat /\ Len(w) \in Nat /\ n <= Len(w)
      BY <1>1
    <2> QED
      BY <2>3, <2>4, SMT
  <1>4. n = Len(w) => b = w
    BY <1>1, <1>2
  <1>5. w = <<>> => n = Len(w)
    BY <1>1
  <1>6. Way(b, s)
    <2>1. ASSUME NEW i \in DOMAIN b, b[i].what = "END" PROVE i = Len(b)
      BY <1>1, <1>2, <2>1 DEF Way
    <2> QED
      BY <1>2, <2>1 DEF Way
  <1>7. ASSUME NEW q, NEW k, Got(q, k, s, w, TRUE) PROVE Got(q, k, s, b, Ending(b))
    <2>1. CASE n = Len(w)
      BY <1>4, <1>7, <2>1 DEF Got
    <2>2. CASE n # Len(w)
      BY <1>2, <1>3, <1>7, <2>2 DEF Got
    <2> QED
      BY <2>1, <2>2
  <1> QED
    <2>1. Ending(b) => AllIn(w, b)
      BY <1>3, <1>4 DEF AllIn
    <2> QED
      BY <1>1, <1>2, <1>3, <1>4, <1>5, <1>6, <1>7, <2>1 DEF Keeps, Ending

\* What is in s is in w, and what is in w is in b.
LEMMA AllInAll ==
  ASSUME NEW s, NEW w, NEW b, AllIn(s, w), AllIn(w, b)
  PROVE  AllIn(s, b)
  BY DEF AllIn

LEMMA KeepsKeeps ==
  ASSUME NEW s, NEW w, NEW u, NEW a, NEW b, NEW v, NEW c, NEW d, NEW x, Keeps(s, w, u, a, b, v),
         Keeps(a, b, v, c, d, x)
  PROVE  Keeps(s, w, u, c, d, x)
  BY DEF Keeps

\* What is read next.
LEMMA NextFrame ==
  ASSUME NEW w \in Seq(Frames), w # <<>>, NEW x, x = Head(w), NEW t, t = Tail(w)
  PROVE  /\ t \in Seq(Frames) /\ x \in Frames /\ Len(w) \in Nat /\ Len(w) # 0 /\
              Len(t) = Len(w) - 1 /\ DOMAIN w = 1 .. Len(w)
         /\ DOMAIN t = 1 .. Len(t) /\ 1 \in DOMAIN w /\ x = w[1]
         /\ \A i \in DOMAIN t : i + 1 \in DOMAIN w /\ t[i] = w[i + 1] /\ 1 < i + 1 /\ i \in Nat
         /\ \A i \in DOMAIN w : i # 1 => i - 1 \in DOMAIN t /\ t[i - 1] = w[i]
         /\ \A i \in DOMAIN w : w[i] = x \/ \E j \in DOMAIN t : t[j] = w[i]
  <1>1. /\ t \in Seq(Frames) /\ x \in Frames /\ Len(w) \in Nat /\ Len(w) # 0 /\
             Len(t) = Len(w) - 1 /\ DOMAIN w = 1 .. Len(w)
        /\ DOMAIN t = 1 .. Len(t) /\ 1 \in DOMAIN w /\ x = w[1]
    OBVIOUS
  <1>2. \A i \in DOMAIN t : i + 1 \in DOMAIN w /\ t[i] = w[i + 1] /\ 1 < i + 1 /\ i \in Nat
    BY <1>1
  <1>3. \A i \in DOMAIN w : i # 1 => i - 1 \in DOMAIN t /\ t[i - 1] = w[i]
    BY <1>1
  <1>4. \A i \in DOMAIN w : w[i] = x \/ \E j \in DOMAIN t : t[j] = w[i]
    BY <1>1, <1>3
  <1> QED
    BY <1>1, <1>2, <1>3, <1>4

LEMMA WayRead ==
  ASSUME NEW s \in Seq(Chunks), NEW w \in Seq(Frames), w # <<>>, Way(w, s), NEW x, x = Head(w),
         NEW t, t = Tail(w)
  PROVE  /\ t \in Seq(Frames) /\ Way(t, s) /\ (Ending(t) => Ending(w)) /\ x \in Frames
         /\ x.what # "END" => (Ending(w) => Ending(t))
         /\ x.what = "END" => t = <<>> /\ Ending(w)
  <1>1. /\ t \in Seq(Frames) /\ x \in Frames /\ Len(w) \in Nat /\ Len(w) # 0 /\
             Len(t) = Len(w) - 1 /\ DOMAIN w = 1 .. Len(w)
        /\ DOMAIN t = 1 .. Len(t) /\ 1 \in DOMAIN w /\ x = w[1]
    BY NextFrame
  <1>2. \A i \in DOMAIN t : i + 1 \in DOMAIN w /\ t[i] = w[i + 1] /\ 1 < i + 1 /\ i \in Nat
    BY NextFrame
  <1>3. \A i \in DOMAIN w : i # 1 => i - 1 \in DOMAIN t /\ t[i - 1] = w[i]
    BY NextFrame
  <1>5. Way(t, s)
    <2>1. ASSUME NEW i \in DOMAIN t, t[i].what = "END" PROVE i = Len(t)
      BY <1>1, <1>2, <2>1 DEF Way
    <2>2. ASSUME NEW i \in DOMAIN t, NEW j \in DOMAIN t, i < j, t[i].what = "CHUNK",
                 t[j].what = "CHUNK" PROVE t[i].id < t[j].id
      <3>1. i + 1 < j + 1
        BY <1>2, <2>2
      <3> QED
        BY <1>2, <2>2, <3>1 DEF Way
    <2> QED
      BY <1>2, <2>1, <2>2 DEF Way
  <1>6. Ending(t) => Ending(w)
    BY <1>2 DEF Ending
  <1>7. x.what # "END" => (Ending(w) => Ending(t))
    BY <1>1, <1>3 DEF Ending
  <1>8. x.what = "END" => t = <<>> /\ Ending(w)
    <2>1. x.what = "END" => Len(w) = 1
      BY <1>1 DEF Way
    <2> QED
      BY <1>1, <2>1 DEF Ending
  <1> QED
    BY <1>1, <1>5, <1>6, <1>7, <1>8

LEMMA ReadKeeps ==
  ASSUME NEW s \in Seq(Chunks), NEW w \in Seq(Frames), w # <<>>, Way(w, s), NEW x, x = Head(w),
         NEW t, t = Tail(w),
         NEW q, NEW k, NEW uncut, Got(q, k, s, w, uncut), x.what = "CHUNK" => x.key # k
  PROVE  Got(q, k, s, t, uncut)
  <1>1. /\ 1 \in DOMAIN w /\ x = w[1]
        /\ \A i \in DOMAIN t : i + 1 \in DOMAIN w /\ t[i] = w[i + 1]
        /\ \A i \in DOMAIN w : i # 1 => i - 1 \in DOMAIN t /\ t[i - 1] = w[i]
    BY NextFrame
  <1>2. \A i \in DOMAIN w : w[i] = x \/ \E j \in DOMAIN t : t[j] = w[i]
    BY <1>1
  <1>3. ASSUME NEW j \in DOMAIN s, s[j].key = k, uncut
        PROVE  (\E i \in DOMAIN q : q[i] = s[j]) \/ (\E i \in DOMAIN t : t[i] = s[j])
    <2>1. s[j].what = "CHUNK"
      BY FrameIs
    <2>2. s[j] # x
      BY <1>3, <2>1
    <2> QED
      BY <1>2, <1>3, <2>2 DEF Got
  <1> QED
    BY <1>1, <1>3 DEF Got

\* A chunk is read into the queue or the file of its key.
LEMMA GotAdds ==
  ASSUME NEW s \in Seq(Chunks), NEW w \in Seq(Frames), w # <<>>, Way(w, s), NEW x, x = Head(w),
         NEW t, t = Tail(w),
         x.what = "CHUNK", NEW q \in Seq(Chunks), NEW uncut, Got(q, x.key, s, w, uncut), NEW p,
             p = Append(q, x)
  PROVE  p \in Seq(Chunks) /\ Got(p, x.key, s, t, uncut)
  <1>n. /\ \A i \in DOMAIN t : i + 1 \in DOMAIN w /\ t[i] = w[i + 1] /\ 1 < i + 1
        /\ \A i \in DOMAIN w : i # 1 => i - 1 \in DOMAIN t /\ t[i - 1] = w[i]
        /\ 1 \in DOMAIN w /\ x = w[1] /\ x \in Frames
    BY NextFrame
  <1>0. /\ \A i \in DOMAIN w : w[i] = x \/ \E j \in DOMAIN t : t[j] = w[i]
        /\ \A i \in DOMAIN t : i + 1 \in DOMAIN w /\ t[i] = w[i + 1] /\ 1 < i + 1
        /\ 1 \in DOMAIN w /\ x = w[1] /\ x \in Frames
    BY <1>n
  <1>1. /\ x \in Chunks /\ \E j \in DOMAIN s : x = s[j]
        /\ \A i \in DOMAIN t : t[i].what = "CHUNK" => x.id < t[i].id
    BY <1>0, FrameIs DEF Way
  <1>t. /\ \A i \in DOMAIN t : i + 1 \in DOMAIN w /\ t[i] = w[i + 1]
        /\ 1 \in DOMAIN w /\ x = w[1]
    BY <1>0
  <1>2. /\ p \in Seq(Chunks) /\ Len(q) \in Nat /\
             DOMAIN q = 1 .. Len(q) /\ DOMAIN p = 1 .. Len(q) + 1
        /\ \A i \in DOMAIN q : i \in DOMAIN p /\ p[i] = q[i] /\ i < Len(q) + 1
        /\ Len(q) + 1 \in DOMAIN p /\ p[Len(q) + 1] = x
        /\ \A i \in DOMAIN p : i \in DOMAIN q \/ i = Len(q) + 1
    BY <1>1
  <1>3. \A i \in DOMAIN q : q[i].id < x.id
    BY <1>t DEF Got
  <1>4. ASSUME NEW i \in DOMAIN p, NEW j \in DOMAIN p, i < j PROVE p[i].id < p[j].id
    <2>1. i \in DOMAIN q
      BY <1>2, <1>4
    <2> QED
      BY <1>2, <1>3, <1>4, <2>1 DEF Got
  <1>5. ASSUME NEW i \in DOMAIN p PROVE p[i].key = x.key /\ \E j \in DOMAIN s : p[i] = s[j]
    BY <1>1, <1>2 DEF Got
  <1>6. ASSUME NEW i \in DOMAIN p, NEW j \in DOMAIN t, t[j].what = "CHUNK" PROVE p[i].id < t[j].id
    BY <1>1, <1>2, <1>t, <1>6 DEF Got
  <1>7. ASSUME NEW j \in DOMAIN s, s[j].key = x.key, uncut
        PROVE  (\E i \in DOMAIN p : p[i] = s[j]) \/ (\E i \in DOMAIN t : t[i] = s[j])
    <2>1. (\E i \in DOMAIN q : q[i] = s[j]) \/ (\E i \in DOMAIN w : w[i] = s[j])
      BY <1>7 DEF Got
    <2>2. CASE \E i \in DOMAIN q : q[i] = s[j]
      BY <1>2, <2>2
    <2>3. ASSUME NEW i \in DOMAIN w,
                 w[i] = s[j] PROVE (\E h \in DOMAIN p : p[h] = s[j]) \/ (\E h \in DOMAIN t : t[h] = s[j])
      <3>1. CASE w[i] = x
        BY <1>2, <2>3, <3>1
      <3>2. CASE w[i] # x
        <4>1. PICK h \in DOMAIN t : t[h] = w[i]
          BY <1>0, <3>2
        <4> QED
          BY <4>1, <2>3
      <3> QED
        BY <3>1, <3>2
    <2> QED
      BY <2>1, <2>2, <2>3
  <1> QED
    BY <1>2, <1>4, <1>5, <1>6, <1>7 DEF Got

\* The session begins.
LEMMA GotStarts ==
  ASSUME NEW s \in Seq(Chunks), NEW w \in Seq(Frames), w # <<>>, Way(w, s), NEW t, t = Tail(w),
         Head(w).what # "CHUNK", NEW uncut, uncut =>
             \A j \in DOMAIN s : \E i \in DOMAIN w : w[i] = s[j], NEW k
  PROVE  Got(<<>>, k, s, t, uncut)
  <1> DEFINE x == Head(w)
  <1>0. x = Head(w) /\ x.what # "CHUNK"
    OBVIOUS
  <1>2. \A j \in DOMAIN s : s[j] # x
    BY FrameIs
  <1> HIDE DEF x
  <1>n. /\ \A i \in DOMAIN w : i # 1 => i - 1 \in DOMAIN t /\ t[i - 1] = w[i]
        /\ x = w[1]
    BY <1>0, NextFrame
  <1>1. \A i \in DOMAIN w : w[i] = x \/ \E j \in DOMAIN t : t[j] = w[i]
    BY <1>n
  <1>3. DOMAIN <<>> = {}
    OBVIOUS
  <1> QED
    BY <1>1, <1>2, <1>3 DEF Got

\* The session is read to its end.
LEMMA GotAll ==
  ASSUME NEW s \in Seq(Chunks), NEW q \in Seq(Chunks), NEW k, Got(q, k, s, <<>>, TRUE)
  PROVE  /\ Receive!Range(q) = {c \in Receive!Range(s) : c.key = k}
         /\ \A i, j \in DOMAIN q : i < j => q[i].id < q[j].id
  <1>1. DOMAIN <<>> = {}
    OBVIOUS
  <1> QED
    BY <1>1 DEF Got, Receive!Range

LEMMA KeyIs ==
  ASSUME Receive!ReceiverAssumption
  PROVE  /\ MaxConns \in Nat /\ MaxChunks \in Nat /\ MaxBreaks \in Nat
         /\ 1 \in DOMAIN MarkerKinds /\ MarkerKinds[1] \in KindSet /\ DOMAIN MarkerKinds \subseteq Nat
         /\ Receive!Taps = {Receive!Pixel} \cup MarkerTaps /\ Receive!Pixel \notin MarkerTaps
         /\ Receive!Keys = {Receive!Pixel} \cup Receive!Markers
         /\ \A k \in Receive!Markers : k[1] \in Chip2 /\ k[2] \in KindSet /\
              k = <<k[1], k[2]>> /\ k # Receive!Pixel
         /\ \A c \in Chip2, k \in KindSet : <<c, k>> \in Receive!Markers
         /\ \A c \in Chip2 : <<c, MarkerKinds[1]>> \in MarkerTaps /\ <<c, MarkerKinds[1]>>[1] = c
         /\ \A t \in MarkerTaps : t[1] \in Chip2 /\ t = <<t[1], MarkerKinds[1]>>
  <1>1. /\ MaxConns \in Nat /\ MaxChunks \in Nat /\ MaxBreaks \in Nat
        /\ MarkerKinds \in Seq(STRING) /\ MarkerKinds # <<>>
    BY DEF Receive!ReceiverAssumption
  <1>2. 1 \in DOMAIN MarkerKinds /\ DOMAIN MarkerKinds \subseteq Nat
    BY <1>1
  <1>3. MarkerKinds[1] \in KindSet
    BY <1>2 DEF KindSet, Receive!Range
  <1>4. Receive!Taps = {Receive!Pixel} \cup MarkerTaps /\ Receive!Pixel \notin MarkerTaps
    BY DEF Receive!Taps, MarkerTaps, Receive!Pixel
  <1>5. \A k \in Receive!Markers : k[1] \in Chip2 /\ k[2] \in KindSet /\ k = <<k[1], k[2]>> /\
          k # Receive!Pixel
    BY DEF Receive!Markers, KindSet, Chip2, Receive!Pixel
  <1>6. \A c \in Chip2, k \in KindSet : <<c, k>> \in Receive!Markers
    BY DEF Receive!Markers, KindSet, Chip2
  <1>7. \A c \in Chip2 : <<c, MarkerKinds[1]>> \in MarkerTaps /\ <<c, MarkerKinds[1]>>[1] = c
    BY DEF Chip2, MarkerTaps
  <1>8. \A t \in MarkerTaps : t[1] \in Chip2 /\ t = <<t[1], MarkerKinds[1]>>
    BY DEF Chip2, MarkerTaps
  <1> QED
    BY <1>1, <1>2, <1>3, <1>4, <1>5, <1>6, <1>7, <1>8 DEF Receive!Keys

\* The kinds have one rank each.
LEMMA RankIs ==
  ASSUME Receive!ReceiverAssumption
  PROVE  /\ \A k \in KindSet : Receive!Rank(k) \in DOMAIN MarkerKinds /\ MarkerKinds[Receive!Rank(k)] = k
         /\ Receive!Rank(MarkerKinds[1]) = 1
         /\ \A k \in KindSet : Receive!Rank(k) <= 1 => k = MarkerKinds[1]
         /\ \A k \in KindSet : Receive!Rank(k) \in Nat /\ Receive!Rank(k) >= 1
  <1>0. MarkerKinds \in Seq(STRING) /\
          1 \in DOMAIN MarkerKinds /\ Receive!IsInjective(MarkerKinds) /\ MarkerKinds[1] \in KindSet
    BY KeyIs DEF Receive!ReceiverAssumption
  <1>1. \A k \in KindSet : Receive!Rank(k) \in DOMAIN MarkerKinds /\ MarkerKinds[Receive!Rank(k)] = k
    BY DEF KindSet, Receive!Range, Receive!Rank
  <1>2. Receive!Rank(MarkerKinds[1]) = 1
    BY <1>0, <1>1 DEF Receive!IsInjective
  <1>3. \A i \in DOMAIN MarkerKinds : i \in Nat /\ i >= 1
    BY <1>0
  <1>4. \A k \in KindSet : Receive!Rank(k) \in Nat /\ Receive!Rank(k) >= 1
    BY <1>1, <1>3
  <1>5. \A k \in KindSet : Receive!Rank(k) <= 1 => k = MarkerKinds[1]
    <2> SUFFICES ASSUME NEW k \in KindSet, Receive!Rank(k) <= 1 PROVE k = MarkerKinds[1]
      OBVIOUS
    <2>1. Receive!Rank(k) = 1
      BY <1>4
    <2> QED
      BY <1>1, <2>1
  <1> QED
    BY <1>1, <1>2, <1>4, <1>5

LEMMA LeastRank == ASSUME NEW R \in SUBSET Nat, R # {} PROVE \E m \in R : \A n \in R : m =< n
  <1>1. PICK m \in R : \A n \in R : ~(<<n, m>> \in OpToRel(<, Nat))
    BY WFMin, NatLessThanWellFounded
  <1>2. ASSUME NEW n \in R PROVE m =< n
    <2>1. <<n, m>> \in Nat \X Nat /\ m \in Nat /\ n \in Nat
      OBVIOUS
    <2>2. ~(n < m)
      BY <1>1, <2>1, Zenon DEF OpToRel
    <2> QED
      BY <2>1, <2>2
  <1> QED
    BY <1>2

\* The best kind of a set is the one of least rank.
LEMMA BestIs ==
  ASSUME Receive!ReceiverAssumption, NEW S \in SUBSET KindSet, S # {}
  PROVE  Receive!Best(S) \in S /\ \A k \in S : Receive!Rank(Receive!Best(S)) <= Receive!Rank(k)
  <1> DEFINE R == {Receive!Rank(k) : k \in S}
  <1>1. R \in SUBSET Nat /\ R # {}
    BY RankIs
  <1>2. PICK n \in R : \A i \in R : n =< i
    <2> HIDE DEF R
    <2> QED
      BY <1>1, LeastRank
  <1>3. PICK k \in S : n = Receive!Rank(k)
    BY <1>2
  <1>4. k \in S /\ \A l \in S : Receive!Rank(k) <= Receive!Rank(l)
    BY <1>2, <1>3
  <1> QED
    BY <1>4 DEF Receive!Best

LEMMA GotLess ==
  ASSUME NEW q, NEW k, NEW s, NEW w, NEW u, NEW v, Got(q, k, s, w, u), v => u
  PROVE  Got(q, k, s, w, v)
  BY DEF Got

\* The hook of a chunk (MarkerSelector).
LEMMA HookIs ==
  ASSUME Receive!ReceiverAssumption, NEW key \in Receive!Keys, NEW k
  PROVE  /\ Receive!HookKey(key, k) = Receive!Pixel <=> key = Receive!Pixel
         /\ \A t \in MarkerTaps : Receive!HookKey(key, k) = t
               => key \in Receive!Markers /\ key[1] = t[1] /\
                   (key[2] = k \/ (key[2] = MarkerKinds[1] /\ k # MarkerKinds[1]))
  <1>1. CASE key = Receive!Pixel
    BY <1>1, KeyIs DEF Receive!HookKey
  <1>2. CASE key # Receive!Pixel
    <2>1. key \in Receive!Markers /\ key[1] \in Chip2 /\ key[2] \in KindSet /\
            key = <<key[1], key[2]>>
      BY <1>2, KeyIs
    <2>2. CASE key[2] = k
      <3>1. Receive!HookKey(key, k) = <<key[1], MarkerKinds[1]>>
        BY <1>2, <2>2 DEF Receive!HookKey
      <3>2. <<key[1], MarkerKinds[1]>> \in MarkerTaps /\ <<key[1], MarkerKinds[1]>>[1] = key[1]
        BY <2>1, KeyIs
      <3> QED
        BY <1>2, <2>1, <2>2, <3>1, <3>2, KeyIs
    <2>3. CASE key[2] # k
      <3>1. Receive!HookKey(key, k) = key
        BY <2>3 DEF Receive!HookKey
      <3>2. ASSUME NEW t \in MarkerTaps, key = t PROVE key[1] = t[1] /\ key[2] = MarkerKinds[1]
        BY <3>2, <2>1, KeyIs
      <3> QED
        BY <1>2, <2>1, <2>3, <3>1, <3>2
    <2> QED
      BY <2>2, <2>3
  <1> QED
    BY <1>1, <1>2

\* What every action starts from.
LEMMA ReceiveParts ==
  ASSUME ReceiveInv, Receive!ReceiverAssumption
  PROVE  /\ ReceiveTyped /\ ReceiveCounted /\ ReceivePhase /\ ReceiveWay /\ ReceiveGot /\
              ReceiveFiles /\ ReceiveKinds
         /\ MaxConns \in Nat /\ MaxChunks \in Nat /\ MaxBreaks \in Nat /\ conn \in Nat /\
              chunks \in Nat /\ breaks \in Nat
         /\ sent \in Seq(Chunks) /\ wire \in Seq(Frames) /\ Way(wire, sent)
         /\ \A t \in Receive!Taps : queue[t] \in Seq(Chunks)
         /\ \A k \in Receive!Keys : file[k] \in [of : Nat, data : Seq(Chunks)] /\
              file[k].data \in Seq(Chunks) /\ file[k].of \in Nat
         /\ queue[Receive!Pixel] \in Seq(Chunks)
  <1>1. /\ ReceiveTyped /\ ReceiveCounted /\ ReceivePhase /\ ReceiveWay /\ ReceiveGot /\
             ReceiveFiles /\ ReceiveKinds
    BY DEF ReceiveInv
  <1>2. Receive!Pixel \in Receive!Taps /\ MaxConns \in Nat /\ MaxChunks \in Nat /\ MaxBreaks \in Nat
    BY KeyIs
  <1>3. conn \in Nat /\ chunks \in Nat /\ breaks \in Nat /\ sent \in Seq(Chunks) /\
          wire \in Seq(Frames)
    BY <1>1, <1>2 DEF ReceiveTyped
  <1>4. \A t \in Receive!Taps : queue[t] \in Seq(Chunks)
    BY <1>1 DEF ReceiveTyped
  <1>5. \A k \in Receive!Keys : file[k] \in [of : Nat, data : Seq(Chunks)] /\
          file[k].data \in Seq(Chunks) /\ file[k].of \in Nat
    BY <1>1 DEF ReceiveTyped
  <1> QED
    BY <1>1, <1>2, <1>3, <1>4, <1>5 DEF ReceiveWay

LEMMA ReceiveConnects ==
  ASSUME ReceiveInv, Receive!ReceiverAssumption, NEW m \in {"timestamp", "intensity"},
         Receive!Connect(m)
  PROVE  ReceiveInv'
  <1>0. /\ ReceiveTyped /\ ReceiveCounted /\ ReceivePhase /\ MaxConns \in Nat /\ conn \in Nat /\
             chunks \in Nat
    BY ReceiveParts
  <1>1. /\ data_link = "none" /\ conn < MaxConns /\ conn' = conn + 1 /\ mode' = m /\
             data_link' = "open"
        /\ wire' = <<[what |-> "SETUP"]>> /\ sent' = <<>> /\ sender' = "data" /\ finished' = FALSE
        /\ UNCHANGED <<step, write, seen, kind, fired, queue, file, table, torn_open, chunks,
             breaks>>
    BY DEF Receive!Connect, Receive!Frame, Receive!disk
  <1>2. step = "accept"
    BY <1>0, <1>1 DEF ReceivePhase
  <1>3. <<>> \in Seq(Chunks) /\ DOMAIN <<>> = {}
    OBVIOUS
  <1>w. [what |-> "SETUP"] \in Frames
    BY DEF Frames
  <1>4. wire' \in Seq(Frames) /\ DOMAIN wire' = {1} /\ wire'[1].what = "SETUP"
    BY <1>1, <1>w
  <1>5. conn' \in 0 .. MaxConns /\ conn' >= conn /\ chunks' \in 0 .. MaxChunks /\ chunks' >= chunks
    BY <1>0, <1>1 DEF ReceiveTyped
  <1>6. ReceiveFiles'
    <2>1. ReceiveFiles
      BY ReceiveParts
    <2> QED
      BY <1>1, <1>2, <2>1 DEF ReceiveFiles
  <1>7. ReceiveKinds'
    <2>1. ReceiveKinds
      BY ReceiveParts
    <2> QED
      BY <1>1, <1>2, <2>1 DEF ReceiveKinds, Reading
  <1>8. ReceiveCounted'
    <2>1. /\ \A t \in Receive!Taps : Given(queue[t]) /\ queue[t] \in Seq(Chunks)
          /\ \A k \in Receive!Keys : Given(file[k].data) /\ file[k].of <= conn /\ file[k].of \in Nat
          /\ \A k \in Receive!Keys : file[k].data \in Seq(Chunks)
      BY <1>0, ReceiveParts DEF ReceiveCounted
    <2>2. \A s : Given(s) =>
            \A i \in DOMAIN s : s[i].of \in 1 .. conn + 1 /\ s[i].id \in 1 .. chunks
      BY <1>0 DEF Given
    <2> QED
      BY <1>0, <1>1, <1>3, <2>1, <2>2 DEF ReceiveCounted, Given
  <1>9. ReceiveTyped'
    <2>1. table' \in 0 .. conn'
      BY <1>0, <1>1 DEF ReceiveTyped
    <2>2. /\ data_link' \in {"none", "open", "closed", "broken"} /\ sender' \in {"off", "data",
               "ended"}
          /\ mode' \in {"timestamp", "intensity"} /\ sent' \in Seq(Chunks) /\ finished' \in BOOLEAN
      BY <1>1, <1>3
    <2> QED
      BY <1>0, <1>1, <1>4, <1>5, <2>1, <2>2 DEF ReceiveTyped
  <1>10. ReceivePhase'
    <2>1. conn' # 0
      BY <1>0, <1>1
    <2> QED
      BY <1>1, <1>2, <2>1 DEF ReceivePhase
  <1>11. ReceiveWay'
    <2>1. Way(wire', sent')
      BY <1>4 DEF Way
    <2>2. ~Ending(wire')
      BY <1>4 DEF Ending
    <2> QED
      BY <1>1, <1>3, <2>1, <2>2 DEF ReceiveWay, AllIn
  <1>12. ReceiveGot'
    BY <1>1, <1>2 DEF ReceiveGot, Reading
  <1> QED
    BY <1>6, <1>7, <1>8, <1>9, <1>10, <1>11, <1>12 DEF ReceiveInv

\* Where nothing changes but what is on its way and what was sent.
LEMMA ReceiveOnWay ==
  ASSUME ReceiveInv, Receive!ReceiverAssumption,
         UNCHANGED <<conn, mode, step, write, seen, kind, fired, finished, queue, file, table,
             torn_open>>,
         chunks' \in 0 .. MaxChunks, chunks' >= chunks, breaks' \in 0 .. MaxBreaks,
         data_link # "none", data_link' \in {"open", "closed", "broken"}, sender' \in {"data",
             "ended"},
         data_link' = "closed" => sender' = "ended", finished => wire' = <<>> /\ sender' = "ended",
         sent' \in Seq(Chunks), wire' \in Seq(Frames), Way(wire', sent'), Ending(wire') =>
             sender' = "ended",
         \A j \in DOMAIN sent' : sent'[j].of = conn /\ sent'[j].id \in 1 .. chunks',
         Uncut' => Uncut,
         Uncut' /\ AllIn(sent, wire) => AllIn(sent', wire'),
             Keeps(sent, wire, Uncut, sent', wire', Uncut')
  PROVE  ReceiveInv'
  <1>0. /\ ReceiveTyped /\ ReceiveCounted /\ ReceivePhase /\ ReceiveWay /\ ReceiveGot
        /\ conn \in Nat /\ chunks \in Nat /\ MaxConns \in Nat /\ MaxChunks \in Nat
        /\ \A t \in Receive!Taps : queue[t] \in Seq(Chunks)
        /\ \A k \in Receive!Keys : file[k].data \in Seq(Chunks) /\ file[k].of \in Nat
        /\ queue[Receive!Pixel] \in Seq(Chunks)
    BY ReceiveParts
  <1>1. ReceiveFiles' /\ ReceiveKinds'
    BY ReceiveParts DEF ReceiveFiles, ReceiveKinds, Reading
  <1>2. ReceiveCounted'
    <2>1. /\ \A t \in Receive!Taps : Given(queue[t])
          /\ \A k \in Receive!Keys : Given(file[k].data) /\ file[k].of <= conn
      BY <1>0 DEF ReceiveCounted
    <2>2. \A s : Given(s) => \A i \in DOMAIN s : s[i].of \in 1 .. conn /\ s[i].id \in 1 .. chunks'
      BY <1>0 DEF Given
    <2>3. Given(sent)'
      <3>1. ASSUME NEW j \in DOMAIN sent' PROVE sent'[j].of \in 1 .. conn
        BY <1>0 DEF ReceivePhase
      <3> QED
        BY <3>1 DEF Given
    <2> QED
      BY <2>1, <2>2, <2>3 DEF ReceiveCounted, Given
  <1>3. ReceiveTyped'
    BY <1>0 DEF ReceiveTyped
  <1>4. ReceivePhase'
    BY <1>0 DEF ReceivePhase
  <1>5. ReceiveWay'
    BY <1>0 DEF ReceiveWay
  <1>6. ReceiveGot'
    BY <1>0 DEF ReceiveGot, Reading, Keeps
  <1> QED
    BY <1>1, <1>2, <1>3, <1>4, <1>5, <1>6 DEF ReceiveInv

\* The node: a chunk, the end, the close; and the link that breaks.
LEMMA ReceiveSends ==
  ASSUME ReceiveInv, Receive!ReceiverAssumption, NEW key \in Receive!Keys, Receive!Send(key)
  PROVE  ReceiveInv'
  <1> DEFINE c == [what |-> "CHUNK", key |-> key, of |-> conn, id |-> chunks + 1]
  <1>0. /\ ReceiveTyped /\ ReceiveCounted /\ ReceivePhase /\ ReceiveWay /\ conn \in Nat /\
             chunks \in Nat /\ MaxChunks \in Nat
        /\ sent \in Seq(Chunks) /\ wire \in Seq(Frames) /\ Way(wire, sent)
    BY ReceiveParts
  <1>1. /\ data_link = "open" /\ sender = "data" /\ chunks < MaxChunks /\ chunks' = chunks + 1
        /\ wire' = Append(wire, c) /\ sent' = Append(sent, c)
        /\ UNCHANGED <<conn, mode, data_link, sender, step, write, seen, kind, fired, finished,
             queue, file, table, torn_open, breaks>>
    BY DEF Receive!Send, Receive!session, Receive!disk
  <1>2. c \in Chunks /\ c.id = chunks + 1 /\ c.of = conn
    BY <1>0 DEF Chunks
  <1> HIDE DEF c
  <1>3. ~finished /\ ~Ending(wire) /\ Uncut /\ Uncut'
    BY <1>0, <1>1 DEF ReceivePhase, ReceiveWay, Uncut
  <1>4. \A i \in DOMAIN sent : sent[i].id <= chunks /\ sent[i].id \in 1 .. chunks + 1 /\
          sent[i].of = conn
    BY <1>0 DEF ReceiveCounted, Given, ReceiveWay
  <1>5. /\ sent' \in Seq(Chunks) /\ wire' \in Seq(Frames) /\ Way(wire', sent') /\ ~Ending(wire')
        /\ (AllIn(sent, wire) => AllIn(sent', wire')) /\ Keeps(sent, wire, TRUE, sent', wire', TRUE)
    BY <1>0, <1>1, <1>2, <1>3, <1>4, WaySends
  <1>6. \A j \in DOMAIN sent' : sent'[j].of = conn /\ sent'[j].id \in 1 .. chunks'
    <2> SUFFICES ASSUME NEW j \in DOMAIN sent' PROVE sent'[j].of = conn /\ sent'[j].id \in 1 .. chunks'
      BY <1>1
    <2>1. (j \in DOMAIN sent /\ sent'[j] = sent[j]) \/ sent'[j] = c
      BY <1>0, <1>1, <1>2
    <2> QED
      BY <1>0, <1>1, <1>2, <1>4, <2>1
  <1>7. Keeps(sent, wire, Uncut, sent', wire', Uncut')
    BY <1>3, <1>5, GotLess DEF Keeps
  <1>8. /\ chunks' \in 0 .. MaxChunks /\ chunks' >= chunks /\ breaks' \in 0 .. MaxBreaks
    BY <1>0, <1>1 DEF ReceiveTyped
  <1> QED
    BY <1>1, <1>3, <1>5, <1>6, <1>7, <1>8, ReceiveOnWay

LEMMA ReceiveSendsEnd ==
  ASSUME ReceiveInv, Receive!ReceiverAssumption, Receive!SendEnd
  PROVE  ReceiveInv'
  <1> DEFINE e == [what |-> "END"]
             f == [what |-> "TABLE"]
             w == IF mode = "intensity" THEN Append(wire, f) ELSE wire
  <1>0. /\ ReceiveTyped /\ ReceiveCounted /\ ReceivePhase /\ ReceiveWay /\ conn \in Nat /\
             chunks \in Nat /\ MaxChunks \in Nat
        /\ sent \in Seq(Chunks) /\ wire \in Seq(Frames) /\ Way(wire, sent)
    BY ReceiveParts
  <1>2. e \in Frames /\ e.what = "END" /\ f \in Frames /\ f.what = "TABLE"
    BY DEF Frames
  <1>1. /\ data_link = "open" /\ sender = "data" /\ sender' = "ended" /\ wire' = Append(w, e)
        /\ UNCHANGED <<conn, mode, data_link, sent, step, write, seen, kind, fired, finished,
             queue, file, table, torn_open, chunks,
                       breaks>>
    <2>1. /\ data_link = "open" /\ sender = "data" /\ sender' = "ended"
          /\ wire' = wire \o (IF mode = "intensity" THEN <<f>> ELSE <<>>) \o <<e>>
          /\ UNCHANGED <<conn, mode, data_link, sent, step, write, seen, kind, fired, finished,
               queue, file, table, torn_open, chunks,
                         breaks>>
      BY DEF Receive!SendEnd, Receive!Frame, Receive!session, Receive!disk
    <2> HIDE DEF e, f
    <2>2. CASE mode = "intensity"
      <3>1. wire \o <<f>> = Append(wire, f) /\ Append(wire, f) \in Seq(Frames)
        BY <1>0, <1>2
      <3>2. wire' = Append(wire, f) \o <<e>>
        BY <2>1, <2>2, <3>1
      <3>3. Append(wire, f) \o <<e>> = Append(Append(wire, f), e)
        BY <1>2, <3>1
      <3> QED
        BY <2>1, <2>2, <3>2, <3>3
    <2>3. CASE mode # "intensity"
      <3>1. wire \o <<>> = wire /\ wire \o <<e>> = Append(wire, e)
        BY <1>0, <1>2
      <3> QED
        BY <2>1, <2>3, <3>1
    <2> QED
      BY <2>2, <2>3
  <1>3. ~finished /\ ~Ending(wire) /\ Uncut /\ Uncut'
    BY <1>0, <1>1 DEF ReceivePhase, ReceiveWay, Uncut
  <1> HIDE DEF e, f
  <1>4. /\ w \in Seq(Frames) /\ Way(w, sent) /\ ~Ending(w)
        /\ AllIn(wire, w) /\ Keeps(sent, wire, TRUE, sent, w, TRUE)
    <2>1. CASE mode = "intensity"
      <3> DEFINE b == Append(wire, f)
      <3>1. b = Append(wire, f)
        OBVIOUS
      <3> HIDE DEF b
      <3>2. /\ b \in Seq(Frames) /\ Way(b, sent) /\ ~Ending(b)
            /\ AllIn(wire, b) /\ Keeps(sent, wire, TRUE, sent, b, TRUE)
        BY <1>0, <1>2, <1>3, <3>1, WayAdds
      <3> QED
        BY <2>1, <3>1, <3>2
    <2>2. CASE mode # "intensity"
      BY <1>0, <1>3, <2>2 DEF AllIn, Keeps
    <2> QED
      BY <2>1, <2>2
  <1> HIDE DEF w
  <1>5. /\ wire' \in Seq(Frames) /\ Way(wire', sent)
        /\ AllIn(w, wire') /\ Keeps(sent, w, TRUE, sent, wire', TRUE)
    BY <1>0, <1>1, <1>2, <1>4, WayAdds
  <1>6. Keeps(sent, wire, Uncut, sent', wire', Uncut')
    <2>1. Keeps(sent, wire, TRUE, sent, wire', TRUE)
      BY <1>4, <1>5, KeepsKeeps
    <2> QED
      BY <1>1, <1>3, <2>1, GotLess DEF Keeps
  <1>7. ASSUME AllIn(sent, wire) PROVE AllIn(sent', wire')
    <2>1. AllIn(sent, w)
      BY <1>4, <1>7, AllInAll
    <2>2. AllIn(sent, wire')
      BY <1>5, <2>1, AllInAll
    <2> QED
      BY <1>1, <2>2
  <1>8. /\ chunks' \in 0 .. MaxChunks /\ chunks' >= chunks /\ breaks' \in 0 .. MaxBreaks
        /\ \A j \in DOMAIN sent' : sent'[j].of = conn /\ sent'[j].id \in 1 .. chunks'
    BY <1>0, <1>1 DEF ReceiveTyped, ReceiveCounted, Given, ReceiveWay
  <1> QED
    BY <1>0, <1>1, <1>3, <1>5, <1>6, <1>7, <1>8, ReceiveOnWay

LEMMA ReceiveCloses ==
  ASSUME ReceiveInv, Receive!ReceiverAssumption, Receive!Close
  PROVE  ReceiveInv'
  <1>0. /\ ReceiveTyped /\ ReceiveCounted /\ ReceivePhase /\ ReceiveWay /\ ReceiveGot /\
             ReceiveFiles /\ ReceiveKinds
    BY ReceiveParts
  <1>1. /\ data_link = "open" /\ sender = "ended" /\ data_link' = "closed"
        /\ UNCHANGED <<conn, mode, wire, sent, sender, step, write, seen, kind, fired, finished,
             queue, file, table, torn_open, chunks,
                       breaks>>
    BY DEF Receive!Close, Receive!session, Receive!disk
  <1>2. Uncut /\ Uncut'
    BY <1>1 DEF Uncut
  <1>3. ReceiveTyped'
    BY <1>0, <1>1 DEF ReceiveTyped
  <1>4. ReceiveCounted'
    BY <1>0, <1>1 DEF ReceiveCounted, Given
  <1>5. ReceivePhase'
    BY <1>0, <1>1 DEF ReceivePhase
  <1>6. ReceiveWay'
    BY <1>0, <1>1, <1>2 DEF ReceiveWay
  <1>7. ReceiveGot'
    BY <1>0, <1>1, <1>2 DEF ReceiveGot, Reading
  <1>8. ReceiveFiles'
    BY <1>0, <1>1 DEF ReceiveFiles
  <1>9. ReceiveKinds'
    BY <1>0, <1>1 DEF ReceiveKinds, Reading
  <1> QED
    BY <1>3, <1>4, <1>5, <1>6, <1>7, <1>8, <1>9 DEF ReceiveInv

LEMMA ReceiveBreaks ==
  ASSUME ReceiveInv, Receive!ReceiverAssumption, Receive!Break
  PROVE  ReceiveInv'
  <1>0. /\ ReceiveTyped /\ ReceiveCounted /\ ReceivePhase /\ ReceiveWay /\ MaxBreaks \in Nat /\
             breaks \in Nat
        /\ sent \in Seq(Chunks) /\ wire \in Seq(Frames) /\ Way(wire, sent)
    BY ReceiveParts
  <1>1. /\ data_link = "open" /\ breaks < MaxBreaks /\ breaks' = breaks + 1 /\ data_link' = "broken"
        /\ \E n \in 0 .. Len(wire) : wire' = SubSeq(wire, 1, n)
        /\ UNCHANGED <<conn, mode, sent, sender, step, write, seen, kind, fired, finished, queue,
             file, table, torn_open, chunks>>
    BY DEF Receive!Break, Receive!Fault, Receive!session, Receive!disk
  <1>2. CutTo(wire, wire')
    BY <1>1 DEF CutTo
  <1>3. /\ wire' \in Seq(Frames) /\ Way(wire', sent) /\ (Ending(wire') => Ending(wire)) /\
             (wire = <<>> => wire' = wire)
        /\ (Ending(wire') => AllIn(wire, wire')) /\
             Keeps(sent, wire, TRUE, sent, wire', Ending(wire'))
    BY <1>0, <1>2, WayCut
  <1>4. Uncut /\ (Uncut' => Ending(wire') \/ finished)
    BY <1>1 DEF Uncut
  <1>5. finished => wire = <<>> /\ sender = "ended"
    BY <1>0, <1>1 DEF ReceivePhase, ReceiveTyped
  <1>6. Keeps(sent, wire, Uncut, sent', wire', Uncut')
    <2>1. Uncut' => Ending(wire') \/ wire = <<>>
      BY <1>4, <1>5
    <2>2. CASE wire = <<>>
      BY <1>1, <1>3, <1>4, <2>2, GotLess DEF Keeps
    <2>3. CASE wire # <<>>
      BY <1>1, <1>3, <1>4, <2>1, <2>3, GotLess DEF Keeps
    <2> QED
      BY <2>2, <2>3
  <1>7. ASSUME Uncut', AllIn(sent, wire) PROVE AllIn(sent', wire')
    <2>1. CASE Ending(wire')
      <3>1. AllIn(sent, wire')
        BY <1>3, <1>7, <2>1, AllInAll
      <3> QED
        BY <1>1, <3>1
    <2>2. CASE wire = <<>>
      BY <1>1, <1>3, <1>7, <2>2
    <2> QED
      BY <1>4, <1>5, <1>7, <2>1, <2>2
  <1>8. /\ chunks' \in 0 .. MaxChunks /\ chunks' >= chunks /\ breaks' \in 0 .. MaxBreaks
        /\ \A j \in DOMAIN sent' : sent'[j].of = conn /\ sent'[j].id \in 1 .. chunks'
        /\ sender' \in {"data", "ended"}
    BY <1>0, <1>1 DEF ReceiveTyped, ReceiveCounted, Given, ReceiveWay, ReceivePhase
  <1>9. Ending(wire') => sender' = "ended"
    BY <1>0, <1>1, <1>3 DEF ReceiveWay
  <1> QED
    BY <1>0, <1>1, <1>3, <1>4, <1>5, <1>6, <1>7, <1>8, <1>9, ReceiveOnWay

LEMMA ReceiveAccepts ==
  ASSUME ReceiveInv, Receive!ReceiverAssumption, NEW w \in BOOLEAN, Receive!Accept(w)
  PROVE  ReceiveInv'
  <1>0. /\ ReceiveTyped /\ ReceiveCounted /\ ReceivePhase /\ ReceiveWay /\ ReceiveGot /\
             ReceiveFiles /\ ReceiveKinds
    BY ReceiveParts
  <1>1. /\ step = "accept" /\ data_link # "none" /\ step' = "setup" /\ write' = w
        /\ queue' = [t \in Receive!Taps |-> <<>>]
        /\ UNCHANGED <<conn, mode, data_link, wire, sent, sender, seen, kind, fired, finished,
             file, table, torn_open, chunks, breaks>>
    BY DEF Receive!Accept, Receive!Dropped, Receive!session, Receive!disk
  <1>2. ~finished
    BY <1>0, <1>1 DEF ReceivePhase
  <1>3. <<>> \in Seq(Chunks) /\ DOMAIN <<>> = {} /\ \A t \in Receive!Taps : queue'[t] = <<>>
    BY <1>1
  <1>4. ReceiveTyped'
    <2>1. queue' \in [Receive!Taps -> Seq(Chunks)]
      BY <1>1, <1>3
    <2> QED
      BY <1>0, <1>1, <2>1 DEF ReceiveTyped
  <1>5. ReceiveCounted'
    BY <1>0, <1>1, <1>3 DEF ReceiveCounted, Given
  <1>6. ReceivePhase'
    BY <1>0, <1>1, <1>2, <1>3 DEF ReceivePhase
  <1>7. ReceiveWay'
    BY <1>0, <1>1 DEF ReceiveWay, Uncut
  <1>8. ReceiveGot'
    BY <1>1, <1>2 DEF ReceiveGot, Reading
  <1>9. ReceiveFiles'
    BY <1>0, <1>1 DEF ReceiveFiles
  <1>10. ReceiveKinds'
    <2>1. \A t \in MarkerTaps : queue'[t] = <<>>
      BY <1>3, KeyIs
    <2> QED
      BY <1>0, <1>1, <1>2, <1>3, <2>1 DEF ReceiveKinds, Reading
  <1> QED
    BY <1>4, <1>5, <1>6, <1>7, <1>8, <1>9, <1>10 DEF ReceiveInv

\* A frame is read.
LEMMA ReceiveReads ==
  ASSUME ReceiveInv, Receive!ReceiverAssumption, NEW f, Receive!Reads(f)
  PROVE  /\ wire # <<>> /\ wire' = Tail(wire) /\ Head(wire) \in Frames /\ Head(wire).what = f /\
              ~finished
         /\ data_link # "none" /\ wire' \in Seq(Frames) /\ Way(wire', sent) /\
              (Ending(wire') => Ending(wire))
         /\ f = "END" => wire' = <<>> /\ Ending(wire)
  <1>0. ReceivePhase /\ sent \in Seq(Chunks) /\ wire \in Seq(Frames) /\ Way(wire, sent)
    BY ReceiveParts
  <1>1. wire # <<>> /\ wire' = Tail(wire) /\ Head(wire).what = f
    BY DEF Receive!Reads, Receive!At
  <1> DEFINE x == Head(wire)
  <1>2. x = Head(wire) /\ x.what = f
    BY <1>1
  <1> HIDE DEF x
  <1>3. /\ wire' \in Seq(Frames) /\ Way(wire', sent) /\ (Ending(wire') => Ending(wire)) /\
             x \in Frames
        /\ x.what = "END" => wire' = <<>> /\ Ending(wire)
    BY <1>0, <1>1, <1>2, WayRead
  <1> QED
    BY <1>0, <1>1, <1>2, <1>3 DEF ReceivePhase

LEMMA ReceiveSetsUp ==
  ASSUME ReceiveInv, Receive!ReceiverAssumption, Receive!Setup
  PROVE  ReceiveInv'
  <1>0. /\ ReceiveTyped /\ ReceiveCounted /\ ReceivePhase /\ ReceiveWay /\ ReceiveGot /\
             ReceiveFiles /\ ReceiveKinds
        /\ conn \in Nat /\ sent \in Seq(Chunks) /\ wire \in Seq(Frames) /\ Way(wire, sent)
    BY ReceiveParts
  <1>1. /\ step = "setup" /\ Receive!Reads("SETUP") /\ step' = mode /\ seen' = {} /\
             kind' = "none" /\ fired' = FALSE
        /\ file' = IF write /\ mode = "timestamp" THEN [k \in Receive!Keys |-> [of |-> conn,
             data |-> <<>>]] ELSE file
        /\ UNCHANGED <<finished, queue, table, torn_open, breaks, conn, mode, data_link, sent,
             sender, write, chunks>>
    BY DEF Receive!Setup, Receive!Rest, Receive!Empty
  <1>2. /\ wire # <<>> /\ wire' = Tail(wire) /\ Head(wire).what = "SETUP" /\ ~finished /\
             data_link # "none"
        /\ wire' \in Seq(Frames) /\ Way(wire', sent) /\ (Ending(wire') => Ending(wire))
    BY <1>1, ReceiveReads
  <1>3. <<>> \in Seq(Chunks) /\ DOMAIN <<>> = {} /\ \A t \in Receive!Taps : queue[t] = <<>>
    BY <1>0, <1>1, <1>2 DEF ReceivePhase
  <1>4. write /\ mode = "timestamp" => \A k \in Receive!Keys : file'[k].of = conn /\
          file'[k].data = <<>>
    BY <1>1
  <1>5. ~(write /\ mode = "timestamp") => file' = file
    BY <1>1
  <1>6. Uncut' => Uncut
    BY <1>1, <1>2 DEF Uncut
  <1>7. ReceiveTyped'
    <2>1. file' \in [Receive!Keys -> [of : Nat, data : Seq(Chunks)]]
      <3>1. CASE write /\ mode = "timestamp"
        BY <1>0, <1>1, <1>3, <3>1
      <3>2. CASE ~(write /\ mode = "timestamp")
        BY <1>0, <1>5, <3>2 DEF ReceiveTyped
      <3> QED
        BY <3>1, <3>2
    <2>2. step' \in {"accept", "setup", "timestamp", "intensity", "over"}
      BY <1>0, <1>1 DEF ReceiveTyped
    <2> QED
      BY <1>0, <1>1, <1>2, <2>1, <2>2 DEF ReceiveTyped
  <1>8. ReceiveCounted'
    <2>1. Given(sent)' /\ \A t \in Receive!Taps : Given(queue[t])'
      BY <1>0, <1>1 DEF ReceiveCounted, Given
    <2>2. \A k \in Receive!Keys : Given(file[k].data)' /\ file'[k].of <= conn'
      <3>1. CASE write /\ mode = "timestamp"
        BY <1>0, <1>1, <1>3, <1>4, <3>1 DEF Given
      <3>2. CASE ~(write /\ mode = "timestamp")
        BY <1>0, <1>1, <1>5, <3>2 DEF ReceiveCounted, Given
      <3> QED
        BY <3>1, <3>2
    <2> QED
      BY <2>1, <2>2 DEF ReceiveCounted
  <1>9. ReceivePhase'
    BY <1>0, <1>1, <1>2 DEF ReceivePhase, ReceiveTyped
  <1>10. ReceiveWay'
    BY <1>0, <1>1, <1>2 DEF ReceiveWay, ReceiveTyped
  <1>11. ReceiveGot'
    <2> SUFFICES ASSUME step' = "timestamp"
                 PROVE  /\ Got(queue'[Receive!Pixel], Receive!Pixel, sent', wire', Uncut')
                        /\ write' => \A k \in Receive!Keys : Got(file'[k].data, k, sent', wire',
                             Uncut')
      BY <1>1, <1>2 DEF ReceiveGot, Reading
    <2>1. Uncut' => \A j \in DOMAIN sent : \E i \in DOMAIN wire : wire[i] = sent[j]
      BY <1>0, <1>1, <1>2, <1>6 DEF ReceiveWay, AllIn
    <2>2. ASSUME NEW k PROVE Got(<<>>, k, sent, wire', Uncut')
      <3> DEFINE b == wire'
                 u == Uncut'
      <3>1. b = Tail(wire) /\ (u => \A j \in DOMAIN sent : \E i \in DOMAIN wire : wire[i] = sent[j])
        BY <1>2, <2>1
      <3>2. Head(wire).what # "CHUNK"
        BY <1>2
      <3> HIDE DEF b, u
      <3>3. Got(<<>>, k, sent, b, u)
        BY <1>0, <1>2, <3>1, <3>2, GotStarts
      <3> QED
        BY <3>3 DEF b, u
    <2>3. Receive!Pixel \in Receive!Taps
      BY KeyIs
    <2> QED
      BY <1>1, <1>3, <1>4, <2>2, <2>3
  <1>12. ReceiveFiles'
    <2>1. CASE write /\ mode = "timestamp"
      BY <1>1, <1>3, <1>4, <2>1 DEF ReceiveFiles
    <2>2. CASE ~(write /\ mode = "timestamp")
      BY <1>0, <1>1, <1>5, <2>2 DEF ReceiveFiles
    <2> QED
      BY <2>1, <2>2
  <1>13. ReceiveKinds'
    <2>1. \A t \in MarkerTaps : queue'[t] = <<>>
      BY <1>1, <1>3, KeyIs
    <2>2. \A c \in Chip2, k \in KindSet : <<c, k>> \in Receive!Keys
      BY KeyIs
    <2>3. <<"slave", MarkerKinds[1]>> \in Receive!Taps
      BY KeyIs DEF Chip2
    <2>4. Reading' => mode = "timestamp"
      BY <1>1, <1>2 DEF Reading
    <2>5. Reading' /\ write' =>
            \A k \in KindSet : k \in seen' <=> \E c \in Chip2 : file'[<<c, k>>].data # <<>>
      BY <1>1, <1>4, <2>2, <2>4
    <2>6. \A t \in Receive!Taps : queue'[t] = <<>>
      BY <1>1, <1>3
    <2> QED
      BY <1>1, <1>3, <2>1, <2>3, <2>5, <2>6 DEF ReceiveKinds
  <1> QED
    BY <1>7, <1>8, <1>9, <1>10, <1>11, <1>12, <1>13 DEF ReceiveInv

LEMMA ReceiveEnds ==
  ASSUME ReceiveInv, Receive!ReceiverAssumption, Receive!End
  PROVE  ReceiveInv'
  <1>0. /\ ReceiveTyped /\ ReceiveCounted /\ ReceivePhase /\ ReceiveWay /\ ReceiveGot /\
             ReceiveFiles /\ ReceiveKinds
        /\ conn \in Nat /\ sent \in Seq(Chunks) /\ wire \in Seq(Frames) /\ Way(wire, sent)
    BY ReceiveParts
  <1>1. /\ step \in {"timestamp", "intensity"} /\ Receive!Reads("END") /\ finished' = TRUE
        /\ step' = IF step = "timestamp" THEN "setup" ELSE "over"
        /\ UNCHANGED <<seen, kind, fired, queue, file, table, torn_open, breaks, conn, mode,
             data_link, sent, sender, write, chunks>>
    BY DEF Receive!End, Receive!Rest, Receive!disk
  <1>2. /\ wire # <<>> /\ wire' = Tail(wire) /\ Head(wire).what = "END" /\ ~finished /\
             data_link # "none"
        /\ wire' \in Seq(Frames) /\ Way(wire', sent) /\ wire' = <<>> /\ Ending(wire)
    BY <1>1, ReceiveReads
  <1>3. Uncut /\ Uncut' /\ sender = "ended"
    BY <1>0, <1>1, <1>2 DEF Uncut, ReceiveWay
  <1>4. Reading' => Reading
    BY <1>0, <1>1, <1>2 DEF Reading, ReceivePhase
  <1>5. ReceiveTyped'
    BY <1>0, <1>1, <1>2 DEF ReceiveTyped
  <1>6. ReceiveCounted'
    BY <1>0, <1>1 DEF ReceiveCounted, Given
  <1>7. ReceivePhase'
    BY <1>0, <1>1, <1>2, <1>3 DEF ReceivePhase
  <1>8. ReceiveWay'
    BY <1>0, <1>1, <1>2, <1>3 DEF ReceiveWay
  <1>9. ReceiveGot'
    <2>1. ASSUME NEW q, NEW k, Got(q, k, sent, wire, Uncut) PROVE Got(q, k, sent, wire', Uncut')
      <3> DEFINE x == Head(wire)
      <3>1. x = Head(wire) /\ x.what = "END"
        BY <1>2
      <3> HIDE DEF x
      <3>2. Got(q, k, sent, wire', Uncut)
        BY <1>0, <1>2, <2>1, <3>1, ReadKeeps
      <3> QED
        BY <1>3, <3>2, GotLess
    <2> QED
      BY <1>0, <1>1, <1>4, <2>1 DEF ReceiveGot
  <1>10. ReceiveFiles'
    BY <1>0, <1>1 DEF ReceiveFiles
  <1>11. ReceiveKinds'
    BY <1>0, <1>1, <1>4 DEF ReceiveKinds
  <1> QED
    BY <1>5, <1>6, <1>7, <1>8, <1>9, <1>10, <1>11 DEF ReceiveInv

LEMMA ReceiveTable ==
  ASSUME ReceiveInv, Receive!ReceiverAssumption, Receive!Table
  PROVE  ReceiveInv'
  <1>0. /\ ReceiveTyped /\ ReceiveCounted /\ ReceivePhase /\ ReceiveWay /\ ReceiveGot /\
             ReceiveFiles /\ ReceiveKinds
        /\ conn \in Nat
    BY ReceiveParts
  <1>1. /\ step = "intensity" /\ Receive!Reads("TABLE") /\ table' = conn
        /\ UNCHANGED <<step, seen, kind, fired, finished, queue, file, torn_open, breaks, conn,
             mode, data_link, sent, sender, write,
                       chunks>>
    BY DEF Receive!Table, Receive!Rest, Receive!session
  <1>2. /\ ~finished /\ data_link # "none" /\ wire' \in Seq(Frames) /\ Way(wire', sent) /\
             (Ending(wire') => Ending(wire))
    BY <1>1, ReceiveReads
  <1>3. ReceiveTyped'
    BY <1>0, <1>1, <1>2 DEF ReceiveTyped
  <1>4. ReceiveCounted'
    BY <1>0, <1>1 DEF ReceiveCounted, Given
  <1>5. ReceivePhase'
    BY <1>0, <1>1, <1>2 DEF ReceivePhase
  <1>6. ReceiveWay'
    BY <1>0, <1>1, <1>2 DEF ReceiveWay
  <1>7. ReceiveGot'
    BY <1>1, <1>2 DEF ReceiveGot, Reading
  <1>8. ReceiveFiles'
    BY <1>0, <1>1 DEF ReceiveFiles
  <1>9. ReceiveKinds'
    BY <1>0, <1>1 DEF ReceiveKinds, Reading
  <1> QED
    BY <1>3, <1>4, <1>5, <1>6, <1>7, <1>8, <1>9 DEF ReceiveInv

\* The end of a session loop, whatever ends it.
LEMMA ReceiveIsOver ==
  ASSUME ReceiveInv, Receive!ReceiverAssumption, NEW why, Receive!Over(why),
         breaks' \in 0 .. MaxBreaks,
         torn_open' \in BOOLEAN, file' \in [Receive!Keys -> [of : Nat, data : Seq(Chunks)]],
         \A k \in Receive!Keys : Given(file'[k].data) /\ file'[k].of <= conn,
         (~torn_open' \/ finished) => UNCHANGED <<file, torn_open>>
  PROVE  ReceiveInv'
  <1>0. /\ ReceiveTyped /\ ReceiveCounted /\ ReceivePhase /\ ReceiveWay /\ ReceiveGot /\
             ReceiveFiles /\ ReceiveKinds
        /\ conn \in Nat
    BY ReceiveParts
  <1>1. /\ step' = "accept" /\ data_link' = "none" /\ wire' = <<>> /\ sender' = "off"
        /\ UNCHANGED <<conn, mode, sent, write, seen, kind, fired, finished, queue, table, chunks>>
    BY DEF Receive!Over, Receive!Ends, Receive!session
  <1>2. finished => wire = <<>> /\ Uncut /\ Uncut'
    BY <1>0, <1>1 DEF ReceivePhase, Uncut
  <1>3. Reading' => Reading /\ finished
    BY <1>1 DEF Reading
  <1>4. <<>> \in Seq(Frames) /\ DOMAIN <<>> = {}
    OBVIOUS
  <1>5. ReceiveTyped'
    BY <1>0, <1>1, <1>4 DEF ReceiveTyped
  <1>6. ReceiveCounted'
    BY <1>0, <1>1 DEF ReceiveCounted, Given
  <1>7. ReceivePhase'
    BY <1>0, <1>1 DEF ReceivePhase
  <1>8. ReceiveWay'
    BY <1>0, <1>1, <1>4 DEF ReceiveWay, Way, Ending
  <1>9. ReceiveGot'
    BY <1>0, <1>1, <1>2, <1>3 DEF ReceiveGot
  <1>10. ReceiveFiles'
    BY <1>0, <1>1 DEF ReceiveFiles
  <1>11. ReceiveKinds'
    BY <1>0, <1>1, <1>3 DEF ReceiveKinds
  <1> QED
    BY <1>5, <1>6, <1>7, <1>8, <1>9, <1>10, <1>11 DEF ReceiveInv

\* The loop goes on, or a write or an open fails.
LEMMA ReceiveOver ==
  ASSUME ReceiveInv, Receive!ReceiverAssumption,
         Receive!Lost \/ Receive!IntensityOver \/ Receive!WriteFails \/ Receive!OpenFails
  PROVE  ReceiveInv'
  <1>0. /\ ReceiveTyped /\ ReceiveCounted /\ ReceivePhase /\ breaks \in Nat /\
             MaxBreaks \in Nat /\ conn \in Nat
        /\ \A k \in Receive!Keys : file[k] \in [of : Nat, data : Seq(Chunks)]
    BY ReceiveParts
  <1>1. /\ file \in [Receive!Keys -> [of : Nat, data : Seq(Chunks)]] /\ torn_open \in BOOLEAN
        /\ \A k \in Receive!Keys : Given(file[k].data) /\ file[k].of <= conn
        /\ breaks \in 0 .. MaxBreaks
    BY <1>0 DEF ReceiveTyped, ReceiveCounted
  <1>2. CASE Receive!Lost
    <2>1. Receive!Over("lost") /\ UNCHANGED <<file, torn_open, breaks>>
      BY <1>2 DEF Receive!Lost
    <2> QED
      BY <1>1, <2>1, ReceiveIsOver
  <1>3. CASE Receive!IntensityOver
    <2>1. Receive!Over("lost") /\ UNCHANGED <<file, torn_open, breaks>>
      BY <1>3 DEF Receive!IntensityOver
    <2> QED
      BY <1>1, <2>1, ReceiveIsOver
  <1>4. CASE Receive!WriteFails
    <2>1. Receive!Over("crashed") /\ UNCHANGED <<file, torn_open>> /\ breaks < MaxBreaks /\
            breaks' = breaks + 1
      BY <1>4 DEF Receive!WriteFails, Receive!Fault
    <2>2. breaks' \in 0 .. MaxBreaks
      BY <1>0, <2>1
    <2> QED
      BY <1>1, <2>1, <2>2, ReceiveIsOver
  <1>5. CASE Receive!OpenFails
    <2>1. /\ Receive!Over("crashed") /\ torn_open' = TRUE /\ breaks < MaxBreaks /\
               breaks' = breaks + 1 /\ wire # <<>>
          /\ \E S \in SUBSET Receive!Keys :
                file' = [k \in Receive!Keys |-> IF k \in S THEN [of |-> conn,
                    data |-> <<>>] ELSE file[k]]
      BY <1>5 DEF Receive!OpenFails, Receive!Fault, Receive!At, Receive!Empty
    <2>2. breaks' \in 0 .. MaxBreaks /\ ~finished
      BY <1>0, <2>1 DEF ReceivePhase
    <2>3. PICK S : file' = [k \in Receive!Keys |-> IF k \in S THEN [of |-> conn,
            data |-> <<>>] ELSE file[k]]
      BY <2>1
    <2>4. [of |-> conn, data |-> <<>>] \in [of : Nat, data : Seq(Chunks)] /\ Given(<<>>)
      BY <1>0 DEF Given
    <2>5. file' \in [Receive!Keys -> [of : Nat, data : Seq(Chunks)]]
      BY <1>0, <2>3, <2>4
    <2>6. \A k \in Receive!Keys : file'[k] = [of |-> conn, data |-> <<>>] \/ file'[k] = file[k]
      BY <2>3
    <2>7. \A k \in Receive!Keys : Given(file'[k].data) /\ file'[k].of <= conn
      BY <1>0, <1>1, <2>4, <2>6
    <2>8. torn_open' \in BOOLEAN /\ ~(~torn_open' \/ finished)
      BY <2>1, <2>2
    <2>9. Receive!Over("crashed")
      BY <2>1
    <2> QED
      BY <2>2, <2>5, <2>7, <2>8, <2>9, ReceiveIsOver
  <1> QED
    BY <1>2, <1>3, <1>4, <1>5

\* A chunk is of this connection and was sent.
LEMMA ReadChunk ==
  ASSUME ReceiveInv, Receive!ReceiverAssumption, Receive!Reads("CHUNK"), NEW c, c = Head(wire)
  PROVE  /\ c \in Chunks /\ c.key \in Receive!Keys /\ c.of = conn /\ c.of \in 1 .. conn /\
              c.id \in 1 .. chunks
         /\ c.what = "CHUNK" /\ wire # <<>> /\ wire' = Tail(wire)
  <1>0. /\ ReceiveCounted /\ ReceiveWay /\ sent \in Seq(Chunks) /\ wire \in Seq(Frames) /\
             Way(wire, sent)
    BY ReceiveParts
  <1>1. wire # <<>> /\ wire' = Tail(wire) /\ c.what = "CHUNK"
    BY DEF Receive!Reads, Receive!At
  <1>2. 1 \in DOMAIN wire /\ c = wire[1]
    BY <1>0, <1>1
  <1>3. PICK j : j \in DOMAIN sent /\ c = sent[j]
    BY <1>0, <1>1, <1>2 DEF Way
  <1>4. c.of = conn /\ c.of \in 1 .. conn /\ c.id \in 1 .. chunks
    BY <1>0, <1>3 DEF ReceiveWay, ReceiveCounted, Given
  <1>5. c \in Chunks /\ c.key \in Receive!Keys
    BY <1>0, <1>3, FrameIs
  <1> QED
    BY <1>1, <1>4, <1>5

OneMore(q, c, p) == \A i \in DOMAIN p : (i \in DOMAIN q /\ p[i] = q[i]) \/ p[i] = c

LEMMA GivenAdds ==
  ASSUME NEW q \in Seq(Chunks), Given(q), NEW c \in Chunks, c.of \in 1 .. conn,
         c.id \in 1 .. chunks, NEW p, p = Append(q, c)
  PROVE  Given(p) /\ p \in Seq(Chunks) /\ p # <<>> /\ OneMore(q, c, p)
  <1>1. /\ p \in Seq(Chunks) /\ p # <<>> /\ Len(q) \in Nat /\
             DOMAIN q = 1 .. Len(q) /\ DOMAIN p = 1 .. Len(q) + 1
        /\ \A i \in DOMAIN q : p[i] = q[i]
        /\ p[Len(q) + 1] = c /\ \A i \in DOMAIN p : i \in DOMAIN q \/ i = Len(q) + 1
    OBVIOUS
  <1>2. \A i \in DOMAIN p : (i \in DOMAIN q /\ p[i] = q[i]) \/ p[i] = c
    BY <1>1
  <1> QED
    BY <1>1, <1>2 DEF Given, OneMore

LEMMA ReceiveChunk ==
  ASSUME ReceiveInv, Receive!ReceiverAssumption, Receive!Chunk
  PROVE  ReceiveInv'
  <1> DEFINE c == Head(wire)
             hook == Receive!HookKey(c.key, kind')
  <1>0. /\ ReceiveTyped /\ ReceiveCounted /\ ReceivePhase /\ ReceiveWay /\ ReceiveGot /\
             ReceiveFiles /\ ReceiveKinds
        /\ conn \in Nat /\ sent \in Seq(Chunks) /\ wire \in Seq(Frames) /\ Way(wire, sent)
        /\ \A t \in Receive!Taps : queue[t] \in Seq(Chunks)
        /\ \A k \in Receive!Keys : file[k] \in [of : Nat, data : Seq(Chunks)] /\
             file[k].data \in Seq(Chunks) /\ file[k].of \in Nat
        /\ queue[Receive!Pixel] \in Seq(Chunks)
    BY ReceiveParts
  <1>1. /\ step = "timestamp" /\ Receive!Reads("CHUNK") /\ c = Head(wire) /\
             hook = Receive!HookKey(c.key, kind')
        /\ seen' = IF c.key = Receive!Pixel THEN seen ELSE seen \cup {c.key[2]}
        /\ kind' = IF seen' = {} THEN "none" ELSE Receive!Best(seen')
        /\ fired' = (fired \/ hook = <<"slave", MarkerKinds[1]>>)
        /\ file' = IF write THEN [file EXCEPT ![c.key].data = Append(@, c)] ELSE file
        /\ queue' = IF hook \in Receive!Taps THEN [queue EXCEPT ![hook] = Append(@, c)] ELSE queue
        /\ UNCHANGED <<step, finished, table, torn_open, breaks, conn, mode, data_link, sent,
             sender, write, chunks>>
    BY DEF Receive!Chunk, Receive!Rest, Receive!Written
  <1>k. hook = Receive!HookKey(c.key, kind')
    OBVIOUS
  <1> HIDE DEF hook
  <1>c. c = Head(wire)
    OBVIOUS
  <1> HIDE DEF c
  <1>2. /\ c \in Chunks /\ c.key \in Receive!Keys /\ c.of = conn /\ c.of \in 1 .. conn /\
             c.id \in 1 .. chunks
        /\ c.what = "CHUNK" /\ wire # <<>> /\ wire' = Tail(wire)
    BY <1>1, ReadChunk
  <1>3. /\ ~finished /\ data_link # "none" /\ wire' \in Seq(Frames) /\ Way(wire', sent) /\
             (Ending(wire') => Ending(wire))
    BY <1>1, ReceiveReads
  <1>4. Reading /\ mode = "timestamp"
    BY <1>0, <1>1 DEF Reading, ReceivePhase
  <1>5. Uncut' => Uncut
    BY <1>1, <1>3 DEF Uncut
  \* Files and queues, one by one.
  <1>6. \A t \in Receive!Taps : queue'[t] = IF t = hook THEN Append(queue[t], c) ELSE queue[t]
    BY <1>0, <1>1 DEF ReceiveTyped
  <1>7. \A k \in Receive!Keys : /\ file'[k].of = file[k].of
                                /\ file'[k].data = IF write /\ k = c.key THEN Append(file[k].data, c) ELSE file[k].data
    <2>1. CASE write
      BY <1>0, <1>1, <2>1 DEF ReceiveTyped
    <2>2. CASE ~write
      BY <1>1, <2>2
    <2> QED
      BY <2>1, <2>2
  <1>8. \A t \in Receive!Taps :
           /\ Given(queue'[t]) /\ queue'[t] \in Seq(Chunks)
           /\ \A i \in DOMAIN queue'[t] : (i \in DOMAIN queue[t] /\ queue'[t][i] = queue[t][i]) \/ (queue'[t][i] = c /\ t = hook)
    <2> SUFFICES ASSUME NEW t \in Receive!Taps
                 PROVE  /\ Given(queue'[t]) /\ queue'[t] \in Seq(Chunks)
                        /\ \A i \in DOMAIN queue'[t] : \/ i \in DOMAIN queue[t] /\ queue'[t][i] = queue[t][i]
                                                       \/ queue'[t][i] = c /\ t = hook
      OBVIOUS
    <2>1. Given(queue[t]) /\ queue[t] \in Seq(Chunks)
      BY <1>0 DEF ReceiveCounted
    <2>2. CASE t = hook
      <3> DEFINE q == queue[t]
                 p == queue'[t]
      <3>1. q \in Seq(Chunks) /\ Given(q) /\ p = Append(q, c)
        BY <1>6, <2>1, <2>2
      <3> HIDE DEF q, p
      <3>2. Given(p) /\ p \in Seq(Chunks) /\ OneMore(q, c, p)
        BY <1>2, <3>1, GivenAdds
      <3> QED
        BY <2>2, <3>2 DEF q, p, OneMore
    <2>3. CASE t # hook
      BY <1>6, <2>1, <2>3
    <2> QED
      BY <2>2, <2>3
  <1>9. \A k \in Receive!Keys :
           /\ Given(file'[k].data) /\ file'[k].data \in Seq(Chunks)
           /\ \A i \in DOMAIN file'[k].data : \/ i \in DOMAIN file[k].data /\ file'[k].data[i] = file[k].data[i]
                                              \/ file'[k].data[i] = c /\ write
           /\ write => (file'[k].data # <<>> <=> k = c.key \/ file[k].data # <<>>)
    <2> SUFFICES ASSUME NEW k \in Receive!Keys
                 PROVE  /\ Given(file'[k].data) /\ file'[k].data \in Seq(Chunks)
                        /\ \A i \in DOMAIN file'[k].data : \/ i \in DOMAIN file[k].data /\ file'[k].data[i] = file[k].data[i]
                                                           \/ file'[k].data[i] = c /\ write
                        /\ write => (file'[k].data # <<>> <=> k = c.key \/ file[k].data # <<>>)
      OBVIOUS
    <2>1. Given(file[k].data) /\ file[k].data \in Seq(Chunks)
      BY <1>0 DEF ReceiveCounted
    <2>2. CASE write /\ k = c.key
      <3> DEFINE q == file[k].data
                 p == file'[k].data
      <3>1. q \in Seq(Chunks) /\ Given(q) /\ p = Append(q, c)
        BY <1>7, <2>1, <2>2
      <3> HIDE DEF q, p
      <3>2. Given(p) /\ p \in Seq(Chunks) /\ p # <<>> /\ OneMore(q, c, p)
        BY <1>2, <3>1, GivenAdds
      <3> QED
        BY <2>2, <3>2 DEF q, p, OneMore
    <2>3. CASE ~(write /\ k = c.key)
      BY <1>7, <2>1, <2>3
    <2> QED
      BY <2>2, <2>3
  <1>10. seen' \subseteq KindSet /\ seen \subseteq seen' /\ kind' \in KindSet \cup {"none"}
    <2>1. c.key # Receive!Pixel => c.key[2] \in KindSet
      BY <1>2, KeyIs
    <2>2. seen' \in SUBSET KindSet /\ seen \subseteq seen'
      BY <1>0, <1>1, <2>1 DEF ReceiveTyped
    <2>3. seen' # {} => Receive!Best(seen') \in seen'
      <3> DEFINE S == seen'
      <3>1. S \in SUBSET KindSet
        BY <2>2
      <3> HIDE DEF S
      <3>2. S # {} => Receive!Best(S) \in S
        BY <3>1, BestIs
      <3> QED
        BY <3>2 DEF S
    <2> QED
      BY <1>1, <2>2, <2>3
  <1>11. ReceiveTyped'
    <2>1. queue' \in [Receive!Taps -> Seq(Chunks)]
      <3>1. \A t \in Receive!Taps : queue'[t] \in Seq(Chunks)
        BY <1>8
      <3>2. queue' = [t \in Receive!Taps |-> queue'[t]]
        BY <1>0, <1>1 DEF ReceiveTyped
      <3> QED
        BY <3>1, <3>2
    <2>2. file' \in [Receive!Keys -> [of : Nat, data : Seq(Chunks)]]
      <3>1. \A k \in Receive!Keys : file'[k] \in [of : Nat, data : Seq(Chunks)]
        <4> SUFFICES ASSUME NEW k \in Receive!Keys PROVE file'[k] \in [of : Nat, data : Seq(Chunks)]
          OBVIOUS
        <4>1. file[k] \in [of : Nat, data : Seq(Chunks)] /\ Append(file[k].data, c) \in Seq(Chunks)
          BY <1>0, <1>2
        <4>2. CASE write /\ k = c.key
          <5>1. file'[k] = [file[k] EXCEPT !.data = Append(@, c)]
            BY <1>0, <1>1, <4>2 DEF ReceiveTyped
          <5> QED
            BY <4>1, <5>1
        <4>3. CASE ~(write /\ k = c.key)
          <5>1. file'[k] = file[k]
            BY <1>0, <1>1, <4>3 DEF ReceiveTyped
          <5> QED
            BY <4>1, <5>1
        <4> QED
          BY <4>2, <4>3
      <3>2. file' = [k \in Receive!Keys |-> file'[k]]
        BY <1>0, <1>1 DEF ReceiveTyped
      <3> QED
        BY <3>1, <3>2
    <2>3. fired' \in BOOLEAN
      BY <1>1
    <2> QED
      BY <1>0, <1>1, <1>3, <1>10, <2>1, <2>2, <2>3 DEF ReceiveTyped
  <1>12. ReceiveCounted'
    <2>1. /\ \A t \in Receive!Taps : Given(queue'[t])
          /\ \A k \in Receive!Keys : Given(file'[k].data) /\ file'[k].of <= conn
      BY <1>0, <1>7, <1>8, <1>9 DEF ReceiveCounted
    <2> QED
      BY <1>0, <1>1, <2>1 DEF ReceiveCounted, Given
  <1>13. ReceivePhase'
    BY <1>0, <1>1, <1>3 DEF ReceivePhase
  <1>14. ReceiveWay'
    BY <1>0, <1>1, <1>3 DEF ReceiveWay
  <1>15. ReceiveGot'
    <2>1. ASSUME NEW q \in Seq(Chunks), NEW k, Got(q, k, sent, wire, Uncut),
                 k # c.key PROVE Got(q, k, sent, wire', Uncut')
      <3>1. Got(q, k, sent, wire', Uncut)
        BY <1>0, <1>c, <1>2, <2>1, ReadKeeps
      <3> QED
        BY <1>5, <3>1, GotLess
    <2>2. ASSUME NEW q \in Seq(Chunks), Got(q, c.key, sent, wire, Uncut), NEW p, p = Append(q, c)
          PROVE  Got(p, c.key, sent, wire', Uncut')
      <3>1. Got(p, c.key, sent, wire', Uncut)
        BY <1>0, <1>c, <1>2, <2>2, GotAdds
      <3> QED
        BY <1>5, <3>1, GotLess
    <2>3. hook = Receive!Pixel <=> c.key = Receive!Pixel
      BY <1>k, <1>2, HookIs
    <2>p. Receive!Pixel \in Receive!Taps
      BY KeyIs
    <2>4. Got(queue'[Receive!Pixel], Receive!Pixel, sent, wire', Uncut')
      <3>1. Got(queue[Receive!Pixel], Receive!Pixel, sent, wire, Uncut)
        BY <1>0, <1>4 DEF ReceiveGot
      <3>2. CASE c.key = Receive!Pixel
        BY <1>0, <1>6, <2>2, <2>3, <2>p, <3>1, <3>2
      <3>3. CASE c.key # Receive!Pixel
        BY <1>0, <1>6, <2>1, <2>3, <2>p, <3>1, <3>3
      <3> QED
        BY <3>2, <3>3
    <2>5. ASSUME write, NEW k \in Receive!Keys PROVE Got(file'[k].data, k, sent, wire', Uncut')
      <3>1. Got(file[k].data, k, sent, wire, Uncut) /\ file[k].data \in Seq(Chunks)
        BY <1>0, <1>4, <2>5 DEF ReceiveGot
      <3>2. CASE k = c.key
        BY <1>7, <2>2, <2>5, <3>1, <3>2
      <3>3. CASE k # c.key
        BY <1>7, <2>1, <2>5, <3>1, <3>3
      <3> QED
        BY <3>2, <3>3
    <2> QED
      BY <1>1, <2>4, <2>5 DEF ReceiveGot
  <1>16. ReceiveFiles'
    <2>1. write => \A k \in Receive!Keys : file[k].of = conn
      BY <1>0, <1>1 DEF ReceiveFiles
    <2>2. ASSUME ~torn_open, NEW j \in Receive!Keys, NEW k \in Receive!Keys
          PROVE  /\ file'[j].of = file'[k].of
                 /\ \A i \in DOMAIN file'[k].data : file'[k].data[i].of = file'[k].of
      <3>1. /\ file[j].of = file[k].of
            /\ \A i \in DOMAIN file[k].data : file[k].data[i].of = file[k].of
        BY <1>0, <2>2 DEF ReceiveFiles
      <3> QED
        BY <1>2, <1>7, <1>9, <2>1, <3>1
    <2> QED
      BY <1>1, <1>7, <2>1, <2>2 DEF ReceiveFiles
  <1>17. ReceiveKinds'
    <2>0. ReceiveKinds
      BY <1>0
    <2>1. write => \A k \in KindSet : k \in seen' <=> \E x \in Chip2 : file'[<<x, k>>].data # <<>>
      <3> SUFFICES ASSUME write, NEW k \in KindSet PROVE k \in seen' <=> \E x \in Chip2 : file'[<<x, k>>].data # <<>>
        OBVIOUS
      <3>1. k \in seen <=> \E x \in Chip2 : file[<<x, k>>].data # <<>>
        BY <1>4, <2>0 DEF ReceiveKinds
      <3>2. \A x \in Chip2 : <<x, k>> \in Receive!Keys /\ <<x, k>> # Receive!Pixel
        BY KeyIs
      <3>3. \A x \in Chip2 : file'[<<x, k>>].data # <<>> <=> <<x, k>> = c.key \/
              file[<<x, k>>].data # <<>>
        BY <1>9, <3>2
      <3>4. (\E x \in Chip2 : <<x, k>> = c.key) <=> (c.key # Receive!Pixel /\ c.key[2] = k)
        <4>1. CASE c.key = Receive!Pixel
          BY <3>2, <4>1
        <4>2. CASE c.key # Receive!Pixel
          BY <1>2, <4>2, KeyIs
        <4> QED
          BY <4>1, <4>2
      <3> QED
        BY <1>1, <3>1, <3>3, <3>4
    <2>2. ASSUME NEW t \in MarkerTaps, t = hook
          PROVE  /\ c.key \in Receive!Markers /\ c.key[1] = t[1] /\ c.key[2] \in seen'
                 /\ \A k \in seen' : Receive!Rank(k) >= Receive!Rank(c.key[2])
      <3>1. c.key \in Receive!Markers /\ c.key[1] = t[1] /\
              (c.key[2] = kind' \/ c.key[2] = MarkerKinds[1])
        BY <1>k, <1>2, <2>2, HookIs
      <3>2. c.key[2] \in seen'
        BY <1>1, <3>1, KeyIs
      <3>3. kind' \in seen' /\ \A k \in seen' : Receive!Rank(kind') <= Receive!Rank(k)
        <4> DEFINE S == seen'
        <4>1. S \in SUBSET KindSet /\ S # {} /\ kind' = Receive!Best(S)
          BY <1>1, <1>10, <3>2
        <4> HIDE DEF S
        <4>2. Receive!Best(S) \in S /\ \A k \in S : Receive!Rank(Receive!Best(S)) <= Receive!Rank(k)
          BY <4>1, BestIs
        <4> QED
          BY <4>1, <4>2 DEF S
      <3>4. \A k \in seen' : Receive!Rank(k) \in Nat /\ Receive!Rank(k) >= 1
        BY <1>10, RankIs
      <3>5. \A k \in seen' : Receive!Rank(k) >= Receive!Rank(c.key[2])
        <4>1. CASE c.key[2] = kind'
          BY <3>3, <3>4, <4>1
        <4>2. CASE c.key[2] = MarkerKinds[1]
          BY <3>4, <4>2, RankIs
        <4> QED
          BY <3>1, <4>1, <4>2
      <3> QED
        BY <3>1, <3>2, <3>5
    <2>3. \A t \in MarkerTaps : t \in Receive!Taps
      BY KeyIs
    <2>4. ASSUME NEW t \in MarkerTaps
          PROVE  \A i \in DOMAIN queue'[t] : /\ queue'[t][i].key \in Receive!Markers
                                             /\ queue'[t][i].key[1] = t[1] /\
                                                  queue'[t][i].key[2] \in seen'
      BY <1>8, <1>10, <2>0, <2>2, <2>3 DEF ReceiveKinds
    <2>5. ASSUME NEW t \in MarkerTaps, NEW i \in DOMAIN queue'[t], NEW j \in DOMAIN queue'[t], i < j
          PROVE  Receive!Rank(queue'[t][i].key[2]) >= Receive!Rank(queue'[t][j].key[2])
      <3>1. CASE t = hook
        <4> DEFINE q == queue[t]
                   p == queue'[t]
        <4>1. q \in Seq(Chunks) /\ p = Append(q, c)
          BY <1>0, <1>6, <2>3, <3>1
        <4>2. /\ \A a, b \in DOMAIN q : a < b => Receive!Rank(q[a].key[2]) >= Receive!Rank(q[b].key[2])
              /\ \A a \in DOMAIN p : p[a].key[2] \in seen'
          BY <2>0, <2>4 DEF ReceiveKinds
        <4>i. i \in DOMAIN p /\ j \in DOMAIN p
          BY <2>5
        <4> HIDE DEF q, p
        <4>3. /\ Len(q) \in Nat /\ DOMAIN q = 1 .. Len(q) /\ DOMAIN p = 1 .. Len(q) + 1
              /\ \A a \in DOMAIN q : p[a] = q[a]
              /\ p[Len(q) + 1] = c
          BY <1>2, <4>1
        <4>4. CASE j = Len(q) + 1
          BY <2>2, <3>1, <4>2, <4>3, <4>4, <4>i DEF p
        <4>5. CASE j # Len(q) + 1
          <5>1. i \in DOMAIN q /\ j \in DOMAIN q
            BY <2>5, <4>3, <4>5, <4>i
          <5>2. Receive!Rank(p[i].key[2]) >= Receive!Rank(p[j].key[2])
            BY <2>5, <4>2, <4>3, <5>1
          <5> QED
            BY <5>2 DEF p
        <4> QED
          BY <4>4, <4>5
      <3>2. CASE t # hook
        BY <1>6, <2>0, <2>3, <2>5, <3>2 DEF ReceiveKinds
      <3> QED
        BY <3>1, <3>2
    <2>6. \A t \in Receive!Taps : \A i \in DOMAIN queue'[t] : queue'[t][i].of = conn
      BY <1>2, <1>4, <1>8, <2>0 DEF ReceiveKinds
    <2>7. fired' <=> queue'[<<"slave", MarkerKinds[1]>>] # <<>>
      <3>1. <<"slave", MarkerKinds[1]>> \in Receive!Taps
        BY <2>3, KeyIs DEF Chip2
      <3>2. fired <=> queue[<<"slave", MarkerKinds[1]>>] # <<>>
        BY <1>4, <2>0 DEF ReceiveKinds
      <3>3. CASE hook = <<"slave", MarkerKinds[1]>>
        <4>1. queue'[hook] = Append(queue[hook], c) /\ queue[hook] \in Seq(Chunks)
          BY <1>0, <1>6, <3>1, <3>3
        <4>2. queue'[hook] # <<>>
          <5> DEFINE q == queue[hook]
                     p == queue'[hook]
          <5>1. q \in Seq(Chunks) /\ p = Append(q, c)
            BY <4>1
          <5> HIDE DEF q, p
          <5>2. p # <<>>
            BY <1>2, <5>1
          <5> QED
            BY <5>2 DEF p
        <4> QED
          BY <1>1, <3>3, <4>2
      <3>4. CASE hook # <<"slave", MarkerKinds[1]>>
        <4>1. queue'[<<"slave", MarkerKinds[1]>>] = queue[<<"slave", MarkerKinds[1]>>]
          BY <1>6, <3>1, <3>4
        <4> QED
          BY <1>1, <3>2, <3>4, <4>1
      <3> QED
        BY <3>3, <3>4
    <2> QED
      BY <1>1, <2>1, <2>4, <2>5, <2>6, <2>7 DEF ReceiveKinds
  <1> QED
    BY <1>11, <1>12, <1>13, <1>14, <1>15, <1>16, <1>17 DEF ReceiveInv

LEMMA ReceiveNext ==
  ASSUME ReceiveInv, Receive!ReceiverAssumption, Receive!Next
  PROVE  ReceiveInv'
  <1>1. CASE Receive!NodeStep
    BY <1>1, ReceiveConnects, ReceiveSends, ReceiveSendsEnd, ReceiveCloses DEF Receive!NodeStep
  <1>2. CASE Receive!Break
    BY <1>2, ReceiveBreaks
  <1>3. CASE Receive!Accepts
    BY <1>3, ReceiveAccepts DEF Receive!Accepts
  <1>4. CASE Receive!Loop
    BY <1>4, ReceiveSetsUp, ReceiveChunk, ReceiveEnds, ReceiveTable, ReceiveOver DEF Receive!Loop
  <1>5. CASE Receive!WriteFails \/ Receive!OpenFails
    BY <1>5, ReceiveOver
  <1> QED
    BY <1>1, <1>2, <1>3, <1>4, <1>5 DEF Receive!Next

LEMMA ReceiveInit ==
  ASSUME Receive!Init, Receive!ReceiverAssumption
  PROVE  ReceiveInv
  <1>1. /\ conn = 0 /\ mode = "timestamp" /\ data_link = "none" /\ wire = <<>> /\ sent = <<>>
        /\ sender = "off" /\ step = "accept" /\ write = TRUE
        /\ seen = {} /\ kind = "none" /\ fired = FALSE /\ finished = FALSE
        /\ queue = [t \in Receive!Taps |-> <<>>] /\
             file = [k \in Receive!Keys |-> [of |-> 0, data |-> <<>>]] /\ table = 0
        /\ torn_open = FALSE /\ chunks = 0 /\ breaks = 0
    BY DEF Receive!Init, Receive!Empty
  <1>2. /\ <<>> \in Seq(Chunks) /\ <<>> \in Seq(Frames) /\ DOMAIN <<>> = {}
        /\ MaxConns \in Nat /\ MaxChunks \in Nat /\ MaxBreaks \in Nat
    BY KeyIs
  <1>3. /\ \A t \in Receive!Taps : queue[t] = <<>>
        /\ \A k \in Receive!Keys : file[k].of = 0 /\ file[k].data = <<>>
    BY <1>1
  <1>4. ReceiveTyped
    <2>1. [of |-> 0, data |-> <<>>] \in [of : Nat, data : Seq(Chunks)]
      BY <1>2
    <2>2. file \in [Receive!Keys -> [of : Nat, data : Seq(Chunks)]]
      BY <1>1, <2>1
    <2>3. queue \in [Receive!Taps -> Seq(Chunks)]
      BY <1>1, <1>2
    <2>4. write \in BOOLEAN /\ fired \in BOOLEAN /\ finished \in BOOLEAN /\ torn_open \in BOOLEAN
      BY <1>1
    <2>5. conn \in 0 .. MaxConns /\ table \in 0 .. conn /\ chunks \in 0 .. MaxChunks /\
            breaks \in 0 .. MaxBreaks
      BY <1>1, <1>2
    <2>6. sent \in Seq(Chunks) /\ wire \in Seq(Frames) /\ seen \subseteq KindSet /\
            kind \in KindSet \cup {"none"}
      BY <1>1, <1>2
    <2> QED
      BY <1>1, <2>2, <2>3, <2>4, <2>5, <2>6 DEF ReceiveTyped
  <1>5. ReceiveCounted
    BY <1>1, <1>2, <1>3 DEF ReceiveCounted, Given
  <1>6. ReceivePhase
    BY <1>1, <1>3 DEF ReceivePhase
  <1>7. ReceiveWay
    BY <1>1, <1>2 DEF ReceiveWay, Way, Ending
  <1>8. ReceiveGot
    BY <1>1 DEF ReceiveGot, Reading
  <1>9. ReceiveFiles
    BY <1>1, <1>2, <1>3 DEF ReceiveFiles
  <1>10. ReceiveKinds
    <2>1. \A t \in MarkerTaps : queue[t] = <<>>
      BY <1>3, KeyIs
    <2> QED
      BY <1>1, <1>2, <2>1 DEF ReceiveKinds, Reading
  <1> QED
    BY <1>4, <1>5, <1>6, <1>7, <1>8, <1>9, <1>10 DEF ReceiveInv

LEMMA ReceiveStutter ==
  ASSUME ReceiveInv, UNCHANGED receivevars
  PROVE  ReceiveInv'
  <1>0. /\ ReceiveTyped /\ ReceiveCounted /\ ReceivePhase /\ ReceiveWay /\ ReceiveGot /\
             ReceiveFiles /\ ReceiveKinds
    BY DEF ReceiveInv
  <1>1. UNCHANGED <<conn, mode, data_link, wire, sent, sender, step, write, seen, kind, fired,
          queue, file, table, finished, chunks,
                    breaks, torn_open>>
    BY DEF receivevars
  <1>2. ReceiveTyped'
    BY <1>0, <1>1 DEF ReceiveTyped
  <1>3. ReceiveCounted'
    BY <1>0, <1>1 DEF ReceiveCounted, Given
  <1>4. ReceivePhase'
    BY <1>0, <1>1 DEF ReceivePhase
  <1>5. ReceiveWay'
    BY <1>0, <1>1 DEF ReceiveWay, Uncut
  <1>6. ReceiveGot'
    BY <1>0, <1>1 DEF ReceiveGot, Reading, Uncut
  <1>7. ReceiveFiles'
    BY <1>0, <1>1 DEF ReceiveFiles
  <1>8. ReceiveKinds'
    BY <1>0, <1>1 DEF ReceiveKinds, Reading
  <1> QED
    BY <1>2, <1>3, <1>4, <1>5, <1>6, <1>7, <1>8 DEF ReceiveInv

LEMMA ReceiveIs ==
  ASSUME ReceiveInv, Receive!ReceiverAssumption
  PROVE  ReceiverSound
  <1>0. /\ ReceiveTyped /\ ReceiveCounted /\ ReceivePhase /\ ReceiveWay /\ ReceiveGot /\
             ReceiveFiles /\ ReceiveKinds
        /\ sent \in Seq(Chunks)
        /\ \A t \in Receive!Taps : queue[t] \in Seq(Chunks)
        /\ \A k \in Receive!Keys : file[k].data \in Seq(Chunks) /\ file[k].of \in Nat
        /\ queue[Receive!Pixel] \in Seq(Chunks)
    BY ReceiveParts
  <1>1. ASSUME finished, mode = "timestamp"
        PROVE  /\ Reading /\ ReceiveGot /\ \A q, k : Got(q, k, sent, wire, Uncut) =>
                    Got(q, k, sent, <<>>, TRUE)
    <2>1. Reading /\ wire = <<>> /\ Uncut
      BY <1>0, <1>1 DEF Reading, ReceivePhase, Uncut
    <2> QED
      BY <1>0, <2>1, GotLess
  <1>2. Receive!OneRunInDirectory
    BY <1>0 DEF ReceiveFiles, Receive!OneRunInDirectory
  <1>3. Receive!EndedComplete
    <2>1. ASSUME NEW q \in Seq(Chunks), NEW k, Got(q, k, sent, <<>>, TRUE) PROVE Receive!OfKey(q, k)
      BY <1>0, <2>1, GotAll DEF Receive!OfKey
    <2> SUFFICES ASSUME finished, mode = "timestamp"
                 PROVE  /\ write => \A k \in Receive!Keys : Receive!OfKey(file[k].data, k)
                        /\ Receive!OfKey(queue[Receive!Pixel], Receive!Pixel)
      BY DEF Receive!EndedComplete
    <2>2. /\ Got(queue[Receive!Pixel], Receive!Pixel, sent, <<>>, TRUE)
          /\ write => \A k \in Receive!Keys : Got(file[k].data, k, sent, <<>>, TRUE)
      BY <1>1 DEF ReceiveGot
    <2> QED
      BY <1>0, <2>1, <2>2
  <1>4. Receive!LiveIsOffline
    <2> SUFFICES ASSUME finished, mode = "timestamp", write PROVE kind = Receive!Offline
      BY DEF Receive!LiveIsOffline
    <2>1. \A k \in KindSet : k \in seen <=> \E c \in Chip2 : file[<<c, k>>].data # <<>>
      BY <1>0, <1>1 DEF ReceiveKinds
    <2>2. seen = {k \in KindSet : \E c \in Chip2 : file[<<c, k>>].data # <<>>}
      BY <1>0, <2>1 DEF ReceiveTyped
    <2>3. kind = IF seen = {} THEN "none" ELSE Receive!Best(seen)
      BY <1>0 DEF ReceiveKinds
    <2> QED
      BY <2>2, <2>3 DEF Receive!Offline, Receive!Best, KindSet, Chip2
  <1>5. Receive!NeverMixedBack
    <2>1. Receive!Taps \ {Receive!Pixel} = MarkerTaps
      BY KeyIs
    <2> QED
      BY <1>0, <2>1 DEF ReceiveKinds, Receive!NeverMixedBack
  <1>6. Receive!OwnMarkers
    BY <1>0 DEF ReceiveKinds, Reading, Receive!OwnMarkers
  <1>7. ASSUME NEW s \in Seq(Chunks), Given(s) PROVE s \in Receive!Contents
    <2> DEFINE T == [what : {"CHUNK"}, key : Receive!Keys, of : 1 .. conn, id : 1 .. chunks]
    <2>1. DOMAIN s = 1 .. Len(s) /\ Len(s) \in Nat /\ \A i \in DOMAIN s : s[i] \in Chunks
      OBVIOUS
    <2>2. \A i \in DOMAIN s : s[i] \in T
      BY <1>7, <2>1 DEF Given, Chunks
    <2>3. s = [i \in 1 .. Len(s) |-> s[i]] /\ Len(s) \in Nat /\ \A i \in 1 .. Len(s) : s[i] \in T
      BY <2>1, <2>2
    <2> HIDE DEF T
    <2>4. [i \in 1 .. Len(s) |-> s[i]] \in Seq(T)
      BY <2>3
    <2> QED
      BY <2>3, <2>4 DEF Receive!Contents, T
  <1>8. Receive!TypeOK
    <2>1. \A t \in Receive!Taps : queue[t] \in Receive!Contents
      BY <1>0, <1>7 DEF ReceiveCounted
    <2>2. \A k \in Receive!Keys : file[k].of \in 0 .. conn /\ file[k].data \in Receive!Contents
      BY <1>0, <1>7 DEF ReceiveCounted, ReceiveTyped
    <2>3. sent \in Receive!Contents
      BY <1>0, <1>7 DEF ReceiveCounted
    <2>4. {write, fired, finished, torn_open} \subseteq BOOLEAN
      BY <1>0 DEF ReceiveTyped
    <2> QED
      BY <1>0, <2>1, <2>2, <2>3, <2>4 DEF ReceiveTyped, KindSet, Receive!TypeOK
  <1> QED
    BY <1>2, <1>3, <1>4, <1>5, <1>6, <1>8 DEF ReceiverSound

-----------------------------------------------------------------------------
(***************************************************************************)
(* The calibration of a run.  What is on its way from a node, waits for its *)
(* drain or was drained is of the runs it says, in order (Lane); a run is  *)
(* armed once and its callbacks carry its number; and a run whose taps were *)
(* set before its data came has only its own data in the accumulator.      *)
(***************************************************************************)
Callbacks == [call : {"arm", "poll"}, run : Nat]
             \cup [call : {"first", "drain"}, run : Nat, node : SparseNodes]
SparseTyped ==
    /\ sparse_run \in 0 .. MaxRuns /\ cal_run \in 0 .. sparse_run /\ armed \in 0 .. sparse_run
    /\ active \in [SparseNodes -> BOOLEAN] /\ done \in [SparseNodes -> BOOLEAN]
    /\ draining \in [SparseNodes -> BOOLEAN] /\ streaming \in [SparseNodes -> Nat]
    /\ lanes \in [SparseNodes -> Seq(Sparse!Item)]
    /\ rx \in [SparseNodes -> [of : Nat, first : BOOLEAN]]
    /\ dwell \in [SparseNodes -> SUBSET Sparse!Chunk] /\
         acc \in [SparseNodes -> SUBSET Sparse!Chunk]
    /\ loop \subseteq Callbacks /\ (\A c \in loop : c.run <= sparse_run)
    /\ waiting \subseteq SparseNodes
    /\ late \in BOOLEAN /\ tapped \in BOOLEAN /\ spoiled \in BOOLEAN
    /\ monitor \in [id : Nat, set : BOOLEAN]
    /\ fit \in [n : Nat, of : Nat, at : Nat, used : SUBSET Nat, tapped : BOOLEAN]
    /\ markers \in 0 .. MaxChunks

\* Opens(l, r, k): the session of run r begins in l before place k.
Opens(l, r, k) == \E j \in DOMAIN l : j < k /\ l[j].what = "open" /\ l[j].run = r

\* What is on its way in l to a data thread that reads the session of run `of`,
\* from a node that streams for run s, in run r.
Lane(l, of, s, r) ==
    /\ of <= r /\ s <= r
    /\ \A i \in DOMAIN l : of <= l[i].run /\ l[i].run <= r /\ (l[i].what = "open" => of < l[i].run)
    /\ \A i, j \in DOMAIN l :
          i < j => l[i].run <= l[j].run /\ (l[j].what = "open" => l[i].run < l[j].run)
    /\ \A i \in DOMAIN l : l[i].what # "open" => l[i].run = of \/ Opens(l, l[i].run, i)
    /\ s # 0 => /\ of = s \/ Opens(l, s, Len(l) + 1)
                /\ of <= s /\ \A i \in DOMAIN l : l[i].run <= s

\* A queue holds markers of the session its data thread reads.
LanesInOrder ==
    \A n \in SparseNodes : /\ Lane(lanes[n], rx[n].of, streaming[n], sparse_run)
                           /\ \A x \in dwell[n] : x.run = rx[n].of

\* A poll of the run belongs to a calibration that is still to be fitted.
ArmedOnce ==
    /\ fit.n <= fit.at /\ fit.at <= armed
    /\ \A c \in loop : c.call = "poll" => c.run <= armed /\
         (c.run = sparse_run => fit.at < sparse_run)

TappedOnly ==
    /\ tapped /\ armed = sparse_run =>
          \A n \in SparseNodes : rx[n].of = sparse_run /\ \A x \in acc[n] : x.run = sparse_run
    /\ fit.tapped => fit.used \subseteq {fit.at}

\* A queue is drained in a run that is to be calibrated only until its data thread
\* reads the beginning of the session.
NoneSpoiled ==
    /\ ~spoiled
    /\ \A n \in SparseNodes :
          draining[n] /\ cal_run = sparse_run /\ fit.at # sparse_run
          => Opens(lanes[n], sparse_run, Len(lanes[n]) + 1)

SparseInv == SparseTyped /\ LanesInOrder /\ ArmedOnce /\ TappedOnly /\ NoneSpoiled

LEMMA SparseNames ==
  ASSUME Sparse!MasterAssumption
  PROVE  /\ MaxRuns \in Nat /\ MaxChunks \in Nat /\ MaxMonitors \in Nat
         /\ \A c \in Chips : c # "open"
         /\ \A x \in Sparse!Item : /\ x.what \in Chips \cup {"open"} /\ x.run \in Nat
                                   /\ x = [what |-> x.what, run |-> x.run]
  BY DEF Sparse!MasterAssumption, Sparse!Item, Sparse!Runs

\* START: the session of the next run begins.
LEMMA LaneBegins ==
  ASSUME NEW l \in Seq(Sparse!Item), NEW of \in Nat, NEW s \in Nat, NEW r \in Nat,
         Sparse!MasterAssumption,
         r < MaxRuns, Lane(l, of, s, r), NEW a, a = Append(l, [what |-> "open", run |-> r + 1])
  PROVE  a \in Seq(Sparse!Item) /\ Lane(a, of, r + 1, r + 1) /\ Opens(a, r + 1, Len(a) + 1)
  <1> DEFINE e == [what |-> "open", run |-> r + 1]
  <1>0. e \in Sparse!Item /\ e.what = "open" /\ e.run = r + 1
    BY SparseNames DEF Sparse!Item, Sparse!Runs
  <1>e. a = Append(l, e)
    OBVIOUS
  <1> HIDE DEF e
  <1>1. /\ a \in Seq(Sparse!Item) /\ Len(l) \in Nat /\ Len(a) = Len(l) + 1
        /\ DOMAIN l = 1 .. Len(l) /\ DOMAIN a = 1 .. Len(l) + 1
        /\ \A i \in DOMAIN l : l[i].run \in Nat
    BY <1>0, <1>e, SparseNames
  <1>2. \A i \in DOMAIN a : a[i] = IF i \in DOMAIN l THEN l[i] ELSE e
    BY <1>1, <1>e, <1>0
  <1>3. \A i \in DOMAIN a : i \in DOMAIN l \/ i = Len(l) + 1
    BY <1>1
  <1>4. \A i \in DOMAIN l : i \in DOMAIN a /\ i < Len(l) + 1 /\ l[i].run <= r
    BY <1>1 DEF Lane
  <1>5. Len(l) + 1 \in DOMAIN a /\ Len(l) + 1 \notin DOMAIN l /\ a[Len(l) + 1] = e
    BY <1>1, <1>2
  <1>6. Opens(a, r + 1, Len(a) + 1)
    BY <1>0, <1>1, <1>5 DEF Opens
  <1>7. ASSUME NEW i \in DOMAIN a
        PROVE  of <= a[i].run /\ a[i].run <= r + 1 /\ (a[i].what = "open" => of < a[i].run)
    BY <1>0, <1>1, <1>2, <1>4 DEF Lane
  <1>8. ASSUME NEW i \in DOMAIN a, NEW j \in DOMAIN a, i < j
        PROVE  a[i].run <= a[j].run /\ (a[j].what = "open" => a[i].run < a[j].run)
    <2>1. i \in DOMAIN l
      BY <1>1, <1>8
    <2> QED
      BY <2>1, <1>0, <1>1, <1>2, <1>4, <1>8 DEF Lane
  <1>9. ASSUME NEW i \in DOMAIN a, a[i].what # "open" PROVE a[i].run = of \/ Opens(a, a[i].run, i)
    <2>1. i \in DOMAIN l /\ a[i] = l[i]
      BY <1>0, <1>2, <1>9
    <2>2. ASSUME NEW j \in DOMAIN l PROVE j \in DOMAIN a /\ a[j] = l[j]
      BY <1>2, <1>4
    <2> QED
      BY <2>1, <2>2, <1>9 DEF Lane, Opens
  <1>10. of <= r + 1
    BY DEF Lane
  <1> QED
    BY <1>1, <1>6, <1>7, <1>8, <1>9, <1>10 DEF Lane

\* A dwell chunk of the session the node streams.
LEMMA LaneSends ==
  ASSUME NEW l \in Seq(Sparse!Item), NEW of \in Nat, NEW s \in Nat, NEW r \in Nat,
         Sparse!MasterAssumption,
         s # 0, Lane(l, of, s, r), NEW e \in Sparse!Item, e.what # "open", e.run = s, NEW a,
             a = Append(l, e)
  PROVE  /\ a \in Seq(Sparse!Item) /\ Lane(a, of, s, r)
         /\ \A k : Opens(l, k, Len(l) + 1) => Opens(a, k, Len(a) + 1)
  <1>0. e \in Sparse!Item /\ e.what # "open" /\ e.run = s
    OBVIOUS
  <1>1. /\ a \in Seq(Sparse!Item) /\ Len(l) \in Nat /\ Len(a) = Len(l) + 1
        /\ DOMAIN l = 1 .. Len(l) /\ DOMAIN a = 1 .. Len(l) + 1
        /\ \A i \in DOMAIN l : l[i].run \in Nat
    BY SparseNames
  <1>2. \A i \in DOMAIN a : a[i] = IF i \in DOMAIN l THEN l[i] ELSE e
    BY <1>1
  <1>4. \A i \in DOMAIN l : i \in DOMAIN a /\ i < Len(l) + 1 /\ l[i].run <= s /\ a[i] = l[i]
    BY <1>1, <1>2 DEF Lane
  <1>5. \A k : Opens(l, k, Len(l) + 1) => Opens(a, k, Len(a) + 1) /\ Opens(a, k, Len(l) + 1)
    BY <1>1, <1>4 DEF Opens
  <1>7. ASSUME NEW i \in DOMAIN a
        PROVE  /\ of <= a[i].run /\ a[i].run <= r /\ (a[i].what = "open" => of < a[i].run)
               /\ a[i].run <= s
    BY <1>0, <1>1, <1>2, <1>4 DEF Lane
  <1>8. ASSUME NEW i \in DOMAIN a, NEW j \in DOMAIN a, i < j
        PROVE  a[i].run <= a[j].run /\ (a[j].what = "open" => a[i].run < a[j].run)
    <2>1. i \in DOMAIN l
      BY <1>1, <1>8
    <2> QED
      BY <2>1, <1>0, <1>1, <1>2, <1>4, <1>8 DEF Lane
  <1>9. ASSUME NEW i \in DOMAIN a, a[i].what # "open" PROVE a[i].run = of \/ Opens(a, a[i].run, i)
    <2>1. CASE i \in DOMAIN l
      BY <2>1, <1>4, <1>9 DEF Lane, Opens
    <2>2. CASE i \notin DOMAIN l
      <3>1. i = Len(l) + 1 /\ a[i] = e
        BY <2>2, <1>1, <1>2
      <3>2. of = s \/ Opens(l, s, Len(l) + 1)
        BY DEF Lane
      <3> QED
        BY <3>1, <3>2, <1>0, <1>5
    <2> QED
      BY <2>1, <2>2
  <1>10. of <= r /\ s <= r /\ of <= s /\ (of = s \/ Opens(a, s, Len(a) + 1))
    BY <1>5 DEF Lane
  <1> QED
    BY <1>1, <1>5, <1>7, <1>8, <1>9, <1>10 DEF Lane

\* What the data thread reads next.
LEMMA LaneRead ==
  ASSUME NEW l \in Seq(Sparse!Item), NEW of \in Nat, NEW s \in Nat, NEW r \in Nat,
         Sparse!MasterAssumption,
         l # <<>>, Lane(l, of, s, r), NEW t, t = Tail(l), NEW x, x = Head(l)
  PROVE  /\ t \in Seq(Sparse!Item) /\ x \in Sparse!Item /\ x.run \in Nat /\ x.run <= r
         /\ x.what = "open" => Lane(t, x.run, s, r) /\ of < x.run
         /\ x.what # "open" => /\ Lane(t, of, s, r) /\ x.run = of
                               /\ \A k : Opens(l, k, Len(l) + 1) => Opens(t, k, Len(t) + 1)
  <1>1. /\ t \in Seq(Sparse!Item) /\ Len(l) \in Nat /\ Len(l) # 0 /\ Len(t) = Len(l) - 1
        /\ DOMAIN l = 1 .. Len(l) /\ DOMAIN t = 1 .. Len(l) - 1 /\ 1 \in DOMAIN l /\ x = l[1]
        /\ \A i \in DOMAIN l : l[i].run \in Nat /\ l[i] \in Sparse!Item
    BY SparseNames
  <1>2. \A i \in DOMAIN t : i + 1 \in DOMAIN l /\ t[i] = l[i + 1] /\ 1 < i + 1 /\ i \in Nat
    BY <1>1
  <1>3. \A i \in DOMAIN l : i # 1 => i - 1 \in DOMAIN t /\ t[i - 1] = l[i]
    BY <1>1
  <1>4. x \in Sparse!Item /\ x.run \in Nat /\ x.run <= r /\ of <= x.run /\
          (x.what = "open" => of < x.run)
    BY <1>1 DEF Lane
  <1>5. ASSUME NEW i \in DOMAIN t
        PROVE  /\ x.run <= t[i].run /\ t[i].run <= r /\ (t[i].what = "open" => x.run < t[i].run)
               /\ s # 0 => t[i].run <= s
    BY <1>1, <1>2 DEF Lane
  <1>6. ASSUME NEW i \in DOMAIN t, NEW j \in DOMAIN t, i < j
        PROVE  t[i].run <= t[j].run /\ (t[j].what = "open" => t[i].run < t[j].run)
    <2>1. i + 1 < j + 1
      BY <1>2, <1>6
    <2> QED
      BY <2>1, <1>2 DEF Lane
  \* An open of l is the first item or is left in t.
  <1>7. ASSUME NEW k, NEW i \in Nat, Opens(l, k, i + 1)
        PROVE  (x.what = "open" /\ x.run = k) \/ Opens(t, k, i)
    <2>1. PICK j \in DOMAIN l : j < i + 1 /\ l[j].what = "open" /\ l[j].run = k
      BY <1>7 DEF Opens
    <2>2. CASE j # 1
      <3>1. j - 1 \in DOMAIN t /\ j - 1 < i /\ t[j - 1] = l[j]
        BY <1>1, <1>3, <2>1, <2>2
      <3> QED
        BY <2>1, <3>1 DEF Opens
    <2> QED
      BY <1>1, <2>1, <2>2
  <1>8. ASSUME NEW i \in DOMAIN t, t[i].what # "open"
        PROVE  t[i].run = of \/ (x.what = "open" /\ x.run = t[i].run) \/ Opens(t, t[i].run, i)
    <2>1. l[i + 1].run = of \/ Opens(l, l[i + 1].run, i + 1)
      BY <1>2, <1>8 DEF Lane
    <2> QED
      BY <1>2, <1>7, <2>1
  <1>9. s # 0 => /\ of = s \/ (x.what = "open" /\ x.run = s) \/ Opens(t, s, Len(t) + 1)
                 /\ x.run <= s
    <2>1. Opens(l, s, Len(l) + 1) => (x.what = "open" /\ x.run = s) \/ Opens(t, s, Len(l))
      BY <1>1, <1>7
    <2> QED
      BY <1>1, <2>1 DEF Lane
  <1>o. of <= r /\ s <= r /\ (s # 0 => of <= s)
    BY DEF Lane
  <1>10. ASSUME x.what = "open" PROVE Lane(t, x.run, s, r)
    <2>1. \A i \in DOMAIN t : t[i].what # "open" => t[i].run = x.run \/ Opens(t, t[i].run, i)
      <3> SUFFICES ASSUME NEW i \in DOMAIN t, t[i].what # "open", t[i].run = of PROVE FALSE
        BY <1>8
      <3> QED
        BY <1>4, <1>5, <1>10
    <2>2. s # 0 => x.run = s \/ Opens(t, s, Len(t) + 1)
      BY <1>4, <1>9, <1>10, <1>o
    <2> QED
      BY <1>4, <1>5, <1>6, <1>9, <1>o, <2>1, <2>2 DEF Lane
  <1>11. ASSUME x.what # "open" PROVE Lane(t, of, s, r) /\ x.run = of
    <2>1. x.run = of
      BY <1>1, <1>11 DEF Lane, Opens
    <2> QED
      BY <1>5, <1>6, <1>8, <1>9, <1>11, <1>o, <2>1 DEF Lane
  <1>12. ASSUME x.what # "open", NEW k, Opens(l, k, Len(l) + 1) PROVE Opens(t, k, Len(t) + 1)
    <2>1. Opens(t, k, Len(l))
      BY <1>1, <1>7, <1>12
    <2> QED
      BY <1>1, <2>1
  <1> QED
    BY <1>1, <1>4, <1>10, <1>11, <1>12

\* The run goes on, or the node stops.
LEMMA LaneGoesOn ==
  ASSUME NEW l \in Seq(Sparse!Item), NEW of \in Nat, NEW s \in Nat, NEW r \in Nat,
         Sparse!MasterAssumption,
         Lane(l, of, s, r)
  PROVE  Lane(l, of, s, r + 1) /\ Lane(l, of, 0, r)
  <1>1. \A i \in DOMAIN l : l[i].run \in Nat
    BY SparseNames
  <1> QED
    BY <1>1 DEF Lane

LEMMA CallbackRun == \A c \in Callbacks : c.run \in Nat
  BY DEF Callbacks

\* START, of a run with a correlator or without.
LEMMA SparseStarts ==
  ASSUME SparseInv, Sparse!MasterAssumption, Sparse!Start \/ Sparse!StartOther
  PROVE  SparseInv'
  <1>0. SparseTyped /\ LanesInOrder /\ ArmedOnce /\ TappedOnly /\ NoneSpoiled /\ MaxRuns \in Nat
    BY SparseNames DEF SparseInv
  <1>1. Sparse!SendStart /\ UNCHANGED <<armed, acc, late, tapped>>
    BY DEF Sparse!Start, Sparse!StartOther, Sparse!cal
  <1>2. /\ sparse_run < MaxRuns /\ sparse_run' = sparse_run + 1 /\
             \A n \in SparseNodes : streaming[n] = 0
        /\ active' = [n \in SparseNodes |-> TRUE]
        /\ streaming' = [n \in SparseNodes |-> sparse_run + 1]
        /\ lanes' = [n \in SparseNodes |-> Append(lanes[n],
             [what |-> "open", run |-> sparse_run + 1])]
        /\ UNCHANGED <<done, rx, dwell, draining, spoiled, monitor, fit, markers>>
    BY <1>1 DEF Sparse!SendStart, Sparse!taps, Sparse!monitors
  <1>3. /\ waiting' \subseteq SparseNodes /\ (cal_run' = sparse_run + 1 \/ cal_run' = cal_run)
        /\ loop' \subseteq loop \cup {[call |-> "arm", run |-> sparse_run + 1]}
    <2>1. CASE Sparse!Start
      BY <1>2, <2>1 DEF Sparse!Start, Sparse!Timers, Sparse!Later
    <2>2. CASE Sparse!StartOther
      BY <1>0, <2>2 DEF Sparse!StartOther, Sparse!cal, SparseTyped
    <2> QED
      BY <2>1, <2>2
  <1>4. sparse_run \in Nat /\ sparse_run <= MaxRuns /\ armed \in Nat /\ armed <= sparse_run /\
          cal_run \in Nat /\ cal_run <= sparse_run
    BY <1>0 DEF SparseTyped
  <1>5. ASSUME NEW n \in SparseNodes
        PROVE  /\ lanes'[n] \in Seq(Sparse!Item) /\
                    Lane(lanes'[n], rx'[n].of, streaming'[n], sparse_run')
               /\ Opens(lanes'[n], sparse_run', Len(lanes'[n]) + 1)
    <2>1. lanes[n] \in Seq(Sparse!Item) /\ rx[n].of \in Nat /\ streaming[n] \in Nat
      BY <1>0 DEF SparseTyped
    <2>2. Lane(lanes[n], rx[n].of, streaming[n], sparse_run)
      BY <1>0 DEF LanesInOrder
    <2>3. lanes'[n] = Append(lanes[n], [what |-> "open", run |-> sparse_run + 1]) /\
            rx'[n].of = rx[n].of
      BY <1>2
    <2>4. streaming'[n] = sparse_run + 1
      BY <1>2
    <2> QED
      BY <1>2, <1>4, <2>1, <2>2, <2>3, <2>4, LaneBegins
  <1>6. SparseTyped'
    <2>1. sparse_run' \in 0 .. MaxRuns /\ cal_run' \in 0 .. sparse_run' /\
            armed' \in 0 .. sparse_run'
      BY <1>0, <1>1, <1>2, <1>3, <1>4
    <2>2. active' \in [SparseNodes -> BOOLEAN] /\ streaming' \in [SparseNodes -> Nat]
      BY <1>2, <1>4
    <2>3. lanes' \in [SparseNodes -> Seq(Sparse!Item)]
      BY <1>2, <1>5
    <2>4. loop' \subseteq Callbacks /\ \A c \in loop' : c.run <= sparse_run'
      <3>1. loop' \subseteq Callbacks
        BY <1>0, <1>3, <1>4 DEF SparseTyped, Callbacks
      <3>2. \A c \in loop : c.run <= sparse_run /\ c.run \in Nat
        BY <1>0, CallbackRun DEF SparseTyped
      <3> QED
        BY <1>2, <1>3, <1>4, <3>1, <3>2
    <2> QED
      BY <1>0, <1>1, <1>2, <1>3, <2>1, <2>2, <2>3, <2>4 DEF SparseTyped
  <1>7. LanesInOrder'
    BY <1>0, <1>2, <1>5 DEF LanesInOrder
  <1>8. ArmedOnce'
    <2>1. /\ fit.at \in Nat /\ fit.at <= armed /\ fit.n <= fit.at
          /\ \A c \in loop : c.call = "poll" => c.run <= armed
      BY <1>0 DEF ArmedOnce, SparseTyped
    <2>2. \A c \in loop' : c.call = "poll" => c.run <= armed
      BY <2>1, <1>3
    <2> QED
      BY <1>1, <1>2, <1>4, <2>1, <2>2 DEF ArmedOnce
  <1>9. TappedOnly'
    BY <1>0, <1>1, <1>2, <1>4 DEF TappedOnly
  <1>10. NoneSpoiled'
    BY <1>0, <1>2, <1>5 DEF NoneSpoiled
  <1> QED
    BY <1>6, <1>7, <1>8, <1>9, <1>10 DEF SparseInv

\* A stop, or a monitor measurement: another run, without a session.
LEMMA SparseEndsRun ==
  ASSUME SparseInv, Sparse!MasterAssumption, Sparse!EndRun \/ Sparse!StartMonitor
  PROVE  SparseInv'
  <1>0. SparseTyped /\ LanesInOrder /\ ArmedOnce /\ TappedOnly /\ NoneSpoiled /\ MaxRuns \in Nat
    BY SparseNames DEF SparseInv
  <1>1. /\ sparse_run < MaxRuns /\ sparse_run' = sparse_run + 1
        /\ waiting' \subseteq waiting
        /\ UNCHANGED <<active, streaming, done, lanes, rx, dwell, draining, spoiled, loop,
             cal_run, armed, acc, late,
                       tapped, fit, markers>>
    BY DEF Sparse!EndRun, Sparse!StartMonitor, Sparse!nodes, Sparse!taps, Sparse!cal
  <1>2. monitor' \in [id : Nat, set : BOOLEAN]
    <2>1. monitor \in [id : Nat, set : BOOLEAN]
      BY <1>0 DEF SparseTyped
    <2>2. CASE Sparse!EndRun
      BY <2>1, <2>2 DEF Sparse!EndRun
    <2>3. CASE Sparse!StartMonitor
      <3>1. monitor' = [id |-> monitor.id + 1, set |-> FALSE]
        BY <2>3 DEF Sparse!StartMonitor
      <3> QED
        BY <2>1, <3>1
    <2> QED
      BY <2>2, <2>3
  <1>4. sparse_run \in Nat /\ sparse_run <= MaxRuns /\ armed \in Nat /\ armed <= sparse_run /\
          cal_run \in Nat /\ cal_run <= sparse_run
    BY <1>0 DEF SparseTyped
  <1>6. SparseTyped'
    <2>1. sparse_run' \in 0 .. MaxRuns /\ cal_run' \in 0 .. sparse_run' /\
            armed' \in 0 .. sparse_run'
      BY <1>0, <1>1, <1>4
    <2>2. \A c \in loop' : c.run <= sparse_run'
      BY <1>0, <1>1, <1>4, CallbackRun DEF SparseTyped
    <2> QED
      BY <1>0, <1>1, <1>2, <2>1, <2>2 DEF SparseTyped
  <1>7. LanesInOrder'
    <2> SUFFICES ASSUME NEW n \in SparseNodes
                 PROVE  Lane(lanes[n], rx[n].of, streaming[n], sparse_run + 1) /\
                        \A x \in dwell[n] : x.run = rx[n].of
      BY <1>1 DEF LanesInOrder
    <2>1. lanes[n] \in Seq(Sparse!Item) /\ rx[n].of \in Nat /\ streaming[n] \in Nat
      BY <1>0 DEF SparseTyped
    <2>2. Lane(lanes[n], rx[n].of, streaming[n], sparse_run) /\ \A x \in dwell[n] : x.run = rx[n].of
      BY <1>0 DEF LanesInOrder
    <2> QED
      BY <1>4, <2>1, <2>2, LaneGoesOn
  <1>8. ArmedOnce'
    <2>1. /\ fit.at \in Nat /\ fit.at <= armed /\ fit.n <= fit.at
          /\ \A c \in loop : c.call = "poll" => c.run <= armed
      BY <1>0 DEF ArmedOnce, SparseTyped
    <2> QED
      BY <1>1, <1>4, <2>1 DEF ArmedOnce
  <1>9. TappedOnly'
    BY <1>0, <1>1, <1>4 DEF TappedOnly
  <1>10. NoneSpoiled'
    BY <1>0, <1>1, <1>4 DEF NoneSpoiled
  <1> QED
    BY <1>6, <1>7, <1>8, <1>9, <1>10 DEF SparseInv

\* A chunk, the end of a session, "done".
LEMMA SparseNode ==
  ASSUME SparseInv, Sparse!MasterAssumption, NEW n \in SparseNodes,
         (\E chip \in Chips : Sparse!Sends(n, chip)) \/ Sparse!Ends(n) \/ Sparse!OnDone(n)
  PROVE  SparseInv'
  <1>0. SparseTyped /\ LanesInOrder /\ ArmedOnce /\ TappedOnly /\ NoneSpoiled /\
          MaxRuns \in Nat /\ MaxChunks \in Nat
    BY SparseNames DEF SparseInv
  <1>1. /\ lanes[n] \in Seq(Sparse!Item) /\ rx[n].of \in Nat /\ streaming[n] \in Nat /\
             sparse_run \in Nat
        /\ Lane(lanes[n], rx[n].of, streaming[n], sparse_run) /\ sparse_run <= MaxRuns
    BY <1>0 DEF SparseTyped, LanesInOrder
  <1>2. /\ UNCHANGED <<sparse_run, active, rx, dwell, spoiled, loop, waiting, cal_run, armed,
             acc, late, tapped, monitor, fit>>
           \/ Sparse!OnDone(n)
        /\ UNCHANGED <<sparse_run, rx, dwell, spoiled, loop, waiting, cal_run, armed, acc, late,
             tapped, monitor, fit>>
    BY DEF Sparse!Sends, Sparse!Ends, Sparse!OnDone, Sparse!taps, Sparse!cal, Sparse!monitors
  <1>3. active' \in [SparseNodes -> BOOLEAN] /\ done' \in [SparseNodes -> BOOLEAN]
    BY <1>0 DEF Sparse!Sends, Sparse!Ends, Sparse!OnDone, SparseTyped
  <1>4. CASE \E chip \in Chips : Sparse!Sends(n, chip)
    <2>0. PICK chip \in Chips : Sparse!Sends(n, chip)
      BY <1>4
    <2> DEFINE e == [what |-> chip, run |-> streaming[n]]
               a == Append(lanes[n], e)
    <2>1. /\ streaming[n] # 0 /\ markers < MaxChunks /\ markers' = markers + 1
          /\ lanes' = [lanes EXCEPT ![n] = a]
          /\ UNCHANGED <<streaming, draining>>
      BY <2>0 DEF Sparse!Sends, Sparse!taps
    <2>2. e \in Sparse!Item /\ e.what # "open" /\ e.run = streaming[n] /\ a = Append(lanes[n], e)
      <3>1. streaming[n] <= sparse_run
        BY <1>1 DEF Lane
      <3> QED
        BY <1>0, <1>1, <2>1, <3>1, SparseNames DEF Sparse!Item, Sparse!Runs
    <2> HIDE DEF a, e
    <2>3. /\ a \in Seq(Sparse!Item) /\ Lane(a, rx[n].of, streaming[n], sparse_run)
          /\ \A k : Opens(lanes[n], k, Len(lanes[n]) + 1) => Opens(a, k, Len(a) + 1)
      <3> DEFINE l == lanes[n]
                 of == rx[n].of
                 s == streaming[n]
      <3>1. /\ l \in Seq(Sparse!Item) /\ of \in Nat /\ s \in Nat /\ s # 0 /\ e.run = s
            /\ Lane(l, of, s, sparse_run) /\ a = Append(l, e)
        BY <1>1, <2>1, <2>2
      <3> HIDE DEF l, of, s
      <3>2. /\ a \in Seq(Sparse!Item) /\ Lane(a, of, s, sparse_run)
            /\ \A k : Opens(l, k, Len(l) + 1) => Opens(a, k, Len(a) + 1)
        BY <1>1, <2>2, <3>1, LaneSends
      <3> QED
        BY <3>2 DEF l, of, s
    <2>4. /\ \A m \in SparseNodes : lanes'[m] = IF m = n THEN a ELSE lanes[m]
          /\ lanes' \in [SparseNodes -> Seq(Sparse!Item)]
      BY <1>0, <2>1, <2>3 DEF SparseTyped
    <2>5. SparseTyped'
      <3>1. markers' \in 0 .. MaxChunks
        BY <1>0, <2>1 DEF SparseTyped
      <3> QED
        BY <1>0, <1>2, <1>3, <2>1, <2>4, <3>1 DEF SparseTyped
    <2>6. LanesInOrder'
      BY <1>0, <1>2, <2>1, <2>3, <2>4 DEF LanesInOrder
    <2>7. NoneSpoiled'
      BY <1>0, <1>2, <2>1, <2>3, <2>4 DEF NoneSpoiled
    <2>8. ArmedOnce' /\ TappedOnly'
      BY <1>0, <1>2 DEF ArmedOnce, TappedOnly
    <2> QED
      BY <2>5, <2>6, <2>7, <2>8 DEF SparseInv
  <1>5. CASE Sparse!Ends(n) \/ Sparse!OnDone(n)
    <2>1. /\ UNCHANGED <<lanes, markers>> /\ streaming' \in [SparseNodes -> Nat] /\
               draining' \in [SparseNodes -> BOOLEAN]
          /\ \A m \in SparseNodes : streaming'[m] = 0 \/ streaming'[m] = streaming[m]
          /\ \A m \in SparseNodes : draining'[m] => draining[m]
      <3>1. streaming \in [SparseNodes -> Nat] /\ draining \in [SparseNodes -> BOOLEAN]
        BY <1>0 DEF SparseTyped
      <3>2. CASE Sparse!Ends(n)
        BY <3>1, <3>2 DEF Sparse!Ends, Sparse!taps
      <3>3. CASE Sparse!OnDone(n)
        BY <3>1, <3>3 DEF Sparse!OnDone
      <3> QED
        BY <1>5, <3>2, <3>3
    <2>2. SparseTyped'
      BY <1>0, <1>2, <1>3, <2>1 DEF SparseTyped
    <2>3. LanesInOrder'
      <3> SUFFICES ASSUME NEW m \in SparseNodes
                   PROVE  Lane(lanes[m], rx[m].of, streaming'[m], sparse_run) /\
                          \A x \in dwell[m] : x.run = rx[m].of
        BY <1>2, <2>1 DEF LanesInOrder
      <3>1. lanes[m] \in Seq(Sparse!Item) /\ rx[m].of \in Nat /\ streaming[m] \in Nat
        BY <1>0 DEF SparseTyped
      <3>2. Lane(lanes[m], rx[m].of, streaming[m], sparse_run) /\
              \A x \in dwell[m] : x.run = rx[m].of
        BY <1>0 DEF LanesInOrder
      <3> QED
        BY <1>1, <2>1, <3>1, <3>2, LaneGoesOn
    <2>4. NoneSpoiled'
      BY <1>0, <1>2, <2>1 DEF NoneSpoiled
    <2>5. ArmedOnce' /\ TappedOnly'
      BY <1>0, <1>2 DEF ArmedOnce, TappedOnly
    <2> QED
      BY <2>2, <2>3, <2>4, <2>5 DEF SparseInv
  <1> QED
    BY <1>4, <1>5

\* The data thread: the beginning of a session, and a chunk.
LEMMA SparseReceives ==
  ASSUME SparseInv, Sparse!MasterAssumption, NEW n \in SparseNodes, Sparse!Receive(n)
  PROVE  SparseInv'
  <1> DEFINE x == Head(lanes[n])
             t == Tail(lanes[n])
  <1>0. SparseTyped /\ LanesInOrder /\ ArmedOnce /\ TappedOnly /\ NoneSpoiled /\
          MaxRuns \in Nat /\ MaxChunks \in Nat
    BY SparseNames DEF SparseInv
  <1>1. /\ lanes[n] \in Seq(Sparse!Item) /\ rx[n].of \in Nat /\ streaming[n] \in Nat /\
             sparse_run \in Nat
        /\ Lane(lanes[n], rx[n].of, streaming[n], sparse_run) /\ sparse_run <= MaxRuns
    BY <1>0 DEF SparseTyped, LanesInOrder
  <1>2. /\ lanes[n] # <<>> /\ lanes' = [lanes EXCEPT ![n] = t]
        /\ UNCHANGED <<sparse_run, active, streaming, done, waiting, cal_run, armed, acc, late,
             tapped, monitor, fit, markers>>
    BY DEF Sparse!Receive, Sparse!cal, Sparse!monitors
  <1>3. /\ t \in Seq(Sparse!Item) /\ x \in Sparse!Item /\ x.run \in Nat /\ x.run <= sparse_run
        /\ x.what = "open" => Lane(t, x.run, streaming[n], sparse_run) /\ rx[n].of < x.run
        /\ x.what # "open" => /\ Lane(t, rx[n].of, streaming[n], sparse_run) /\ x.run = rx[n].of
                              /\ \A k : Opens(lanes[n], k, Len(lanes[n]) + 1) =>
                                   Opens(t, k, Len(t) + 1)
    <2> DEFINE l == lanes[n]
               of == rx[n].of
               s == streaming[n]
    <2>1. /\ l \in Seq(Sparse!Item) /\ of \in Nat /\ s \in Nat /\ l # <<>>
          /\ Lane(l, of, s, sparse_run) /\ t = Tail(l) /\ x = Head(l)
      BY <1>1, <1>2
    <2> HIDE DEF l, of, s, x, t
    <2>2. /\ t \in Seq(Sparse!Item) /\ x \in Sparse!Item /\ x.run \in Nat /\ x.run <= sparse_run
          /\ x.what = "open" => Lane(t, x.run, s, sparse_run) /\ of < x.run
          /\ x.what # "open" => /\ Lane(t, of, s, sparse_run) /\ x.run = of
                                /\ \A k : Opens(l, k, Len(l) + 1) => Opens(t, k, Len(t) + 1)
      BY <1>1, <2>1, LaneRead
    <2> QED
      BY <2>2 DEF l, of, s
  <1>4. CASE x.what = "open"
    <2>1. /\ rx' = [rx EXCEPT ![n] = [of |-> x.run, first |-> FALSE]]
          /\ draining' = [draining EXCEPT ![n] = FALSE]
          /\ dwell' = [dwell EXCEPT ![n] = {}] /\ Sparse!Drops(dwell[n] \ dwell'[n])
          /\ UNCHANGED loop
      <3>1. x.what \notin Chips
        BY <1>4, SparseNames
      <3> QED
        BY <1>4, <3>1 DEF Sparse!Receive, Sparse!DrainsOn, Sparse!Tapped
    <2> HIDE DEF x, t
    <2>2. /\ t \in Seq(Sparse!Item) /\ x \in Sparse!Item /\ x.run \in Nat /\ x.run <= sparse_run
          /\ Lane(t, x.run, streaming[n], sparse_run) /\ rx[n].of < x.run
      BY <1>3, <1>4
    <2>3. \A m \in SparseNodes : /\ lanes'[m] = IF m = n THEN t ELSE lanes[m]
                                 /\ rx'[m] = IF m = n THEN [of |-> x.run,
                                      first |-> FALSE] ELSE rx[m]
                                 /\ dwell'[m] = IF m = n THEN {} ELSE dwell[m]
                                 /\ draining'[m] = IF m = n THEN FALSE ELSE draining[m]
      BY <1>0, <1>2, <2>1 DEF SparseTyped
    <2>4. SparseTyped'
      <3>1. ~(\E y \in dwell[n] \ dwell'[n] : y.run = sparse_run)
        <4> SUFFICES ASSUME NEW y \in dwell[n], y.run = sparse_run PROVE FALSE
          OBVIOUS
        <4>1. y.run = rx[n].of
          BY <1>0 DEF LanesInOrder
        <4> QED
          BY <4>1, <1>1, <2>2
      <3>2. spoiled' = spoiled
        BY <2>1, <3>1, <1>0 DEF Sparse!Drops, SparseTyped
      <3>3. lanes' \in [SparseNodes -> Seq(Sparse!Item)] /\
              rx' \in [SparseNodes -> [of : Nat, first : BOOLEAN]]
        BY <1>0, <1>2, <2>1, <2>2 DEF SparseTyped
      <3>4. dwell' \in [SparseNodes -> SUBSET Sparse!Chunk] /\
              draining' \in [SparseNodes -> BOOLEAN]
        BY <1>0, <2>1 DEF SparseTyped
      <3> QED
        BY <1>0, <1>2, <2>1, <3>2, <3>3, <3>4 DEF SparseTyped
    <2>5. LanesInOrder'
      <3> SUFFICES ASSUME NEW m \in SparseNodes
                   PROVE  Lane(lanes'[m], rx'[m].of, streaming[m], sparse_run) /\
                          \A y \in dwell'[m] : y.run = rx'[m].of
        BY <1>2 DEF LanesInOrder
      <3>1. CASE m = n
        <4>1. rx'[n] = [of |-> x.run, first |-> FALSE] /\ dwell'[n] = {} /\ lanes'[n] = t
          BY <2>3
        <4>2. rx'[n].of = x.run
          BY <4>1
        <4> QED
          BY <2>2, <3>1, <4>1, <4>2
      <3>2. CASE m # n
        BY <1>0, <2>3, <3>2 DEF LanesInOrder
      <3> QED
        BY <3>1, <3>2
    <2>6. NoneSpoiled'
      <3>1. ~spoiled'
        <4>1. \A y \in dwell[n] : y.run # sparse_run
          BY <1>0, <1>1, <2>2 DEF LanesInOrder
        <4> QED
          BY <4>1, <2>1, <1>0 DEF Sparse!Drops, NoneSpoiled
      <3> QED
        <4> SUFFICES ASSUME NEW m \in SparseNodes, draining'[m], cal_run = sparse_run,
                     fit.at # sparse_run
                     PROVE  Opens(lanes'[m], sparse_run, Len(lanes'[m]) + 1)
          BY <1>2, <3>1 DEF NoneSpoiled
        <4> QED
          BY <1>0, <2>3 DEF NoneSpoiled
    <2>7. ArmedOnce'
      BY <1>0, <1>2, <2>1 DEF ArmedOnce
    <2>8. TappedOnly'
      <3>1. ~(tapped /\ armed = sparse_run)
        BY <1>0, <1>1, <2>2 DEF TappedOnly
      <3> QED
        BY <1>0, <1>2, <3>1 DEF TappedOnly
    <2> QED
      BY <2>4, <2>5, <2>6, <2>7, <2>8 DEF SparseInv
  <1>5. CASE x.what # "open"
    <2>0. x \in Sparse!Item /\ x.run \in Nat /\ x.run <= sparse_run
      BY <1>3
    <2>1. /\ x.what \in Chips /\ rx' = [rx EXCEPT ![n].first = @ \/ x.what = "slave"]
          /\ loop' \subseteq loop \cup {[call |-> "first", run |-> x.run, node |-> n]}
          /\ dwell' = [dwell EXCEPT ![n] = @ \cup {x}] /\ UNCHANGED <<draining, spoiled>>
      <3>1. x.what \in Chips
        BY <1>5, <2>0, SparseNames
      <3> QED
        BY <1>5, <3>1 DEF Sparse!Receive, Sparse!OfNode
    <2> HIDE DEF x, t
    <2>2. /\ t \in Seq(Sparse!Item)
          /\ Lane(t, rx[n].of, streaming[n], sparse_run) /\ x.run = rx[n].of
          /\ \A k : Opens(lanes[n], k, Len(lanes[n]) + 1) => Opens(t, k, Len(t) + 1)
      BY <1>3, <1>5
    <2>x. x \in Sparse!Chunk
      BY <2>0, <2>1, SparseNames DEF Sparse!Item, Sparse!Chunk
    <2>3. /\ \A m \in SparseNodes : /\ lanes'[m] = IF m = n THEN t ELSE lanes[m]
                                    /\ rx'[m].of = rx[m].of
                                    /\ dwell'[m] = IF m = n THEN dwell[n] \cup {x} ELSE dwell[m]
          /\ rx' \in [SparseNodes -> [of : Nat, first : BOOLEAN]]
          /\ lanes' \in [SparseNodes -> Seq(Sparse!Item)]
          /\ dwell' \in [SparseNodes -> SUBSET Sparse!Chunk]
      <3>1. /\ \A m \in SparseNodes : lanes'[m] = IF m = n THEN t ELSE lanes[m]
            /\ lanes' \in [SparseNodes -> Seq(Sparse!Item)]
        BY <1>0, <1>2, <2>2 DEF SparseTyped
      <3>2. /\ \A m \in SparseNodes : rx'[m].of = rx[m].of
            /\ rx' \in [SparseNodes -> [of : Nat, first : BOOLEAN]]
        <4> DEFINE f == rx[n].first \/ x.what = "slave"
        <4>1. rx \in [SparseNodes -> [of : Nat, first : BOOLEAN]]
          BY <1>0 DEF SparseTyped
        <4>2. rx' = [rx EXCEPT ![n].first = f] /\ f \in BOOLEAN
          BY <2>1, <4>1
        <4> HIDE DEF f
        <4> QED
          BY <4>1, <4>2
      <3>3. /\ \A m \in SparseNodes : dwell'[m] = IF m = n THEN dwell[n] \cup {x} ELSE dwell[m]
            /\ dwell' \in [SparseNodes -> SUBSET Sparse!Chunk]
        BY <1>0, <2>1, <2>x DEF SparseTyped
      <3> QED
        BY <3>1, <3>2, <3>3
    <2>4. SparseTyped'
      <3>1. loop' \subseteq Callbacks /\ \A c \in loop' : c.run <= sparse_run
        BY <1>0, <2>0, <2>1 DEF SparseTyped, Callbacks
      <3> QED
        BY <1>0, <1>2, <2>1, <2>3, <3>1 DEF SparseTyped
    <2>5. LanesInOrder'
      BY <1>0, <1>2, <2>2, <2>3 DEF LanesInOrder
    <2>6. NoneSpoiled'
      BY <1>0, <1>2, <2>1, <2>2, <2>3 DEF NoneSpoiled
    <2>7. ArmedOnce'
      <3>1. \A c \in loop' : c.call = "poll" => c \in loop
        BY <2>1
      <3> QED
        BY <1>0, <1>2, <3>1 DEF ArmedOnce
    <2>8. TappedOnly'
      BY <1>0, <1>2, <2>3 DEF TappedOnly
    <2> QED
      BY <2>4, <2>5, <2>6, <2>7, <2>8 DEF SparseInv
  <1> QED
    BY <1>4, <1>5

\* The 20 s timer, the first data.
LEMMA SparseArms ==
  ASSUME SparseInv, Sparse!MasterAssumption, NEW c \in loop, Sparse!ArmTimeout(c) \/
         Sparse!NoteFirstData(c)
  PROVE  SparseInv'
  <1>0. SparseTyped /\ LanesInOrder /\ ArmedOnce /\ TappedOnly /\ NoneSpoiled
    BY DEF SparseInv
  <1>1. /\ UNCHANGED <<dwell, draining, spoiled, cal_run, fit>> /\ Sparse!Fixed /\
             waiting' \subseteq waiting
        /\ \/ \E r \in {c.run, cal_run} : Sparse!Arm(r, loop \ {c})
           \/ loop' = loop \ {c} /\ UNCHANGED <<armed, acc, late, tapped>>
    BY DEF Sparse!ArmTimeout, Sparse!NoteFirstData, Sparse!taps
  <1>2. UNCHANGED <<sparse_run, active, streaming, done, lanes, rx, monitor, markers>>
    BY <1>1 DEF Sparse!Fixed, Sparse!nodes, Sparse!monitors
  <1>3. \/ /\ armed # sparse_run /\ armed' = sparse_run /\ acc' = [n \in SparseNodes |-> {}] /\
                late' = FALSE
           /\ tapped' = (\A n \in SparseNodes : rx[n].of = sparse_run)
           /\ loop' = (loop \ {c}) \cup {[call |-> "poll", run |-> sparse_run]}
        \/ loop' = loop \ {c} /\ UNCHANGED <<armed, acc, late, tapped>>
    BY <1>1 DEF Sparse!Arm, Sparse!MayArm, Sparse!Later
  <1>4. sparse_run \in Nat /\ armed \in Nat /\ armed <= sparse_run /\ fit.at \in Nat /\
          fit.at <= armed /\ fit.n <= fit.at
    BY <1>0 DEF SparseTyped, ArmedOnce
  <1>6. LanesInOrder' /\ NoneSpoiled'
    BY <1>0, <1>1, <1>2 DEF LanesInOrder, NoneSpoiled
  <1>7. CASE loop' = loop \ {c} /\ UNCHANGED <<armed, acc, late, tapped>>
    <2>1. SparseTyped'
      BY <1>0, <1>1, <1>2, <1>7 DEF SparseTyped
    <2>2. ArmedOnce' /\ TappedOnly'
      BY <1>0, <1>1, <1>2, <1>7 DEF ArmedOnce, TappedOnly
    <2> QED
      BY <1>6, <2>1, <2>2 DEF SparseInv
  <1>8. CASE /\ armed # sparse_run /\ armed' = sparse_run /\ acc' = [n \in SparseNodes |-> {}] /\
                  late' = FALSE
             /\ tapped' = (\A n \in SparseNodes : rx[n].of = sparse_run)
             /\ loop' = (loop \ {c}) \cup {[call |-> "poll", run |-> sparse_run]}
    <2>1. SparseTyped'
      <3>1. armed' \in 0 .. sparse_run /\ acc' \in [SparseNodes -> SUBSET Sparse!Chunk]
        BY <1>4, <1>8
      <3>2. late' \in BOOLEAN /\ tapped' \in BOOLEAN
        BY <1>8
      <3>3. loop' \subseteq Callbacks
        BY <1>0, <1>4, <1>8 DEF SparseTyped, Callbacks
      <3>4. \A d \in loop' : d.run <= sparse_run
        BY <1>0, <1>4, <1>8 DEF SparseTyped
      <3> QED
        BY <1>0, <1>1, <1>2, <3>1, <3>2, <3>3, <3>4 DEF SparseTyped
    <2>2. ArmedOnce'
      <3>1. \A d \in loop' : d.call = "poll" => d \in loop \/ d.run = sparse_run
        BY <1>8
      <3>2. \A d \in loop' : d.run \in Nat /\ d.run <= sparse_run
        BY <2>1, <1>2, CallbackRun DEF SparseTyped
      <3> QED
        BY <1>1, <1>2, <1>4, <1>8, <3>1, <3>2 DEF ArmedOnce
    <2>3. TappedOnly'
      BY <1>0, <1>1, <1>2, <1>8 DEF TappedOnly
    <2> QED
      BY <1>6, <2>1, <2>2, <2>3 DEF SparseInv
  <1> QED
    BY <1>3, <1>7, <1>8

\* The poll of a calibration; the fit is for its run.
LEMMA SparsePolls ==
  ASSUME SparseInv, Sparse!MasterAssumption, NEW c \in loop, Sparse!Poll(c)
  PROVE  SparseInv' /\ Sparse!OwnCallback
  <1>0. SparseTyped /\ LanesInOrder /\ ArmedOnce /\ TappedOnly /\ NoneSpoiled
    BY DEF SparseInv
  <1>1. /\ c.call = "poll" /\ UNCHANGED <<waiting, cal_run, armed, late, tapped>>
        /\ UNCHANGED <<sparse_run, active, streaming, done, lanes, rx, monitor, markers>>
    BY DEF Sparse!Poll, Sparse!Fixed, Sparse!nodes, Sparse!monitors
  <1>2. sparse_run \in Nat /\ armed \in Nat /\ armed <= sparse_run /\ c \in Callbacks /\
          c.run \in Nat /\ c.run <= sparse_run
    <2>1. c \in Callbacks
      BY <1>0 DEF SparseTyped
    <2> QED
      BY <1>0, <2>1 DEF SparseTyped, Callbacks
  <1>f. /\ fit \in [n : Nat, of : Nat, at : Nat, used : SUBSET Nat, tapped : BOOLEAN]
        /\ fit.n \in Nat /\ fit.at \in Nat /\ fit.n <= fit.at /\ fit.at <= armed
    BY <1>0 DEF SparseTyped, ArmedOnce
  <1>3. CASE c.run # sparse_run
    <2>1. loop' = loop \ {c} /\ UNCHANGED <<acc, fit, dwell, draining, spoiled>>
      BY <1>3 DEF Sparse!Poll, Sparse!Ours, Sparse!taps
    <2>2. SparseTyped'
      BY <1>0, <1>1, <2>1 DEF SparseTyped
    <2>3. LanesInOrder' /\ NoneSpoiled'
      BY <1>0, <1>1, <2>1 DEF LanesInOrder, NoneSpoiled
    <2>4. ArmedOnce' /\ TappedOnly'
      BY <1>0, <1>1, <2>1 DEF ArmedOnce, TappedOnly
    <2> QED
      BY <2>1, <2>2, <2>3, <2>4 DEF SparseInv, Sparse!OwnCallback
  <1>4. CASE c.run = sparse_run
    <2>1. /\ acc' = [n \in SparseNodes |-> acc[n] \cup dwell[n]]
          /\ dwell' = [n \in SparseNodes |-> {}] /\ UNCHANGED spoiled
          /\ \/ /\ fit' = [n |-> fit.n + 1, of |-> c.run, at |-> sparse_run,
                     used |-> Sparse!UsedIn(acc'),
                           tapped |-> tapped]
                /\ draining' = [n \in SparseNodes |-> TRUE]
                /\ loop' = (loop \ {c}) \cup
                           {Sparse!OfNode("drain", 0, n) : n \in {k \in SparseNodes : ~draining[k]}}
             \/ UNCHANGED <<loop, fit, draining>>
      BY <1>4 DEF Sparse!Poll, Sparse!Ours
    <2>2. armed = sparse_run /\ fit.at < sparse_run
      BY <1>0, <1>1, <1>2, <1>4 DEF ArmedOnce
    <2>3. acc' \in [SparseNodes -> SUBSET Sparse!Chunk] /\
            dwell' \in [SparseNodes -> SUBSET Sparse!Chunk]
      BY <1>0, <2>1 DEF SparseTyped
    <2>4. \A n \in SparseNodes : acc'[n] = acc[n] \cup dwell[n] /\ dwell'[n] = {}
      BY <2>1
    <2>5. LanesInOrder'
      BY <1>0, <1>1, <2>4 DEF LanesInOrder
    <2>6. tapped => \A n \in SparseNodes : rx[n].of = sparse_run /\
            \A x \in acc'[n] : x.run = sparse_run
      BY <1>0, <2>2, <2>4 DEF TappedOnly, LanesInOrder
    <2>7. CASE UNCHANGED <<loop, fit, draining>>
      <3>1. SparseTyped'
        BY <1>0, <1>1, <2>1, <2>3, <2>7 DEF SparseTyped
      <3>2. NoneSpoiled'
        BY <1>0, <1>1, <2>1, <2>7 DEF NoneSpoiled
      <3>3. ArmedOnce' /\ TappedOnly'
        BY <1>0, <1>1, <2>6, <2>7 DEF ArmedOnce, TappedOnly
      <3> QED
        BY <2>5, <2>7, <3>1, <3>2, <3>3 DEF SparseInv, Sparse!OwnCallback
    <2>8. CASE ~UNCHANGED <<loop, fit, draining>>
      <3> DEFINE used == Sparse!UsedIn(acc')
      <3>1. /\ fit' = [n |-> fit.n + 1, of |-> sparse_run, at |-> sparse_run, used |-> used,
                 tapped |-> tapped]
            /\ draining' = [n \in SparseNodes |-> TRUE]
            /\ \A d \in loop' : d \in loop \ {c} \/
                 \E n \in SparseNodes : d = [call |-> "drain", run |-> 0, node |-> n]
        BY <1>4, <2>1, <2>8 DEF Sparse!OfNode
      <3>2. \A r \in used : \E n \in SparseNodes : \E x \in acc'[n] : r = x.run
        BY DEF Sparse!UsedIn
      <3>3. used \subseteq Nat
        BY <3>2, <2>3, SparseNames DEF Sparse!Chunk, Sparse!Runs
      <3>4. tapped => used \subseteq {sparse_run}
        BY <2>6, <3>2
      <3> HIDE DEF used
      <3>5. /\ fit'.n = fit.n + 1 /\ fit'.of = sparse_run /\ fit'.at = sparse_run /\
                 fit'.used = used
            /\ fit'.tapped = tapped /\
                 fit' \in [n : Nat, of : Nat, at : Nat, used : SUBSET Nat, tapped : BOOLEAN]
        <4>1. tapped \in BOOLEAN
          BY <1>0 DEF SparseTyped
        <4> QED
          BY <4>1, <1>2, <1>f, <3>1, <3>3
      <3>6. SparseTyped'
        <4>1. draining' \in [SparseNodes -> BOOLEAN]
          BY <3>1
        <4>2. loop' \subseteq Callbacks /\ \A d \in loop' : d.run <= sparse_run
          BY <1>0, <1>2, <3>1 DEF SparseTyped, Callbacks
        <4> QED
          BY <1>0, <1>1, <2>1, <2>3, <3>5, <4>1, <4>2 DEF SparseTyped
      <3>7. NoneSpoiled'
        BY <1>0, <1>1, <2>1, <3>5 DEF NoneSpoiled
      <3>8. ArmedOnce'
        <4>1. ASSUME NEW d \in loop', d.call = "poll" PROVE d.run <= armed /\ d.run # sparse_run
          <5>1. d \in loop /\ d # c /\ d \in Callbacks
            BY <1>0, <3>1, <4>1 DEF SparseTyped
          <5>2. d = [call |-> "poll", run |-> d.run]
            BY <4>1, <5>1 DEF Callbacks
          <5>3. c = [call |-> "poll", run |-> c.run]
            BY <1>1, <1>2 DEF Callbacks
          <5> QED
            BY <1>0, <1>4, <4>1, <5>1, <5>2, <5>3 DEF ArmedOnce
        <4> QED
          BY <1>1, <1>2, <1>f, <2>2, <3>5, <4>1 DEF ArmedOnce
      <3>9. TappedOnly'
        BY <1>1, <2>6, <3>4, <3>5 DEF TappedOnly
      <3> QED
        BY <2>2, <2>5, <3>5, <3>6, <3>7, <3>8, <3>9 DEF SparseInv, Sparse!OwnCallback
    <2> QED
      BY <2>7, <2>8
  <1> QED
    BY <1>3, <1>4

LEMMA SparseDrains ==
  ASSUME SparseInv, Sparse!MasterAssumption, NEW c \in loop, Sparse!Drain(c)
  PROVE  SparseInv'
  <1>0. SparseTyped /\ LanesInOrder /\ ArmedOnce /\ TappedOnly /\ NoneSpoiled
    BY DEF SparseInv
  <1>1. /\ UNCHANGED <<draining, waiting, cal_run, armed, acc, late, tapped, fit>>
        /\ UNCHANGED <<sparse_run, active, streaming, done, lanes, rx, monitor, markers>>
        /\ \/ draining[c.node] /\ Sparse!Drops(dwell[c.node]) /\
                dwell' = [dwell EXCEPT ![c.node] = {}] /\ UNCHANGED loop
           \/ loop' = loop \ {c} /\ UNCHANGED <<dwell, spoiled>>
    BY DEF Sparse!Drain, Sparse!Fixed, Sparse!nodes, Sparse!monitors, Sparse!cal
  <1>2. c.node \in SparseNodes
    <2>1. c \in Callbacks /\ c.call = "drain"
      BY <1>0 DEF SparseTyped, Sparse!Drain
    <2> QED
      BY <2>1 DEF Callbacks
  <1>3. dwell' \in [SparseNodes -> SUBSET Sparse!Chunk] /\
          \A n \in SparseNodes : dwell'[n] \subseteq dwell[n]
    BY <1>0, <1>1, <1>2 DEF SparseTyped
  <1>4. spoiled' = spoiled
    <2>1. CASE draining[c.node] /\ Sparse!Drops(dwell[c.node])
      <3>1. ASSUME cal_run = sparse_run, fit.at # sparse_run, NEW x \in dwell[c.node],
                   x.run = sparse_run PROVE FALSE
        <4>1. Opens(lanes[c.node], sparse_run, Len(lanes[c.node]) + 1)
          BY <1>0, <1>2, <2>1, <3>1 DEF NoneSpoiled
        <4>2. x.run = rx[c.node].of /\ rx[c.node].of \in Nat /\ sparse_run \in Nat
          BY <1>0, <1>2, <3>1 DEF LanesInOrder, SparseTyped
        <4>3. Lane(lanes[c.node], rx[c.node].of, streaming[c.node], sparse_run)
          BY <1>0, <1>2 DEF LanesInOrder
        <4> QED
          BY <3>1, <4>1, <4>2, <4>3 DEF Opens, Lane
      <3> QED
        BY <1>0, <2>1, <3>1 DEF Sparse!Drops, SparseTyped
    <2> QED
      BY <1>1, <2>1
  <1>5. loop' \subseteq loop
    BY <1>1
  <1>6. SparseTyped'
    BY <1>0, <1>1, <1>3, <1>4, <1>5 DEF SparseTyped
  <1>7. LanesInOrder' /\ NoneSpoiled'
    BY <1>0, <1>1, <1>3, <1>4 DEF LanesInOrder, NoneSpoiled
  <1>8. ArmedOnce' /\ TappedOnly'
    BY <1>0, <1>1, <1>5 DEF ArmedOnce, TappedOnly
  <1> QED
    BY <1>6, <1>7, <1>8 DEF SparseInv

\* The other steps touch none of it.
LEMMA SparseRest ==
  ASSUME SparseInv, late' \in BOOLEAN, monitor' \in [id : Nat, set : BOOLEAN],
         UNCHANGED <<sparse_run, active, streaming, done, lanes, rx, dwell, draining, loop,
             waiting, cal_run, armed, acc,
                     fit, tapped, spoiled, markers>>
  PROVE  SparseInv'
  <1>0. SparseTyped /\ LanesInOrder /\ ArmedOnce /\ TappedOnly /\ NoneSpoiled
    BY DEF SparseInv
  <1>1. SparseTyped'
    BY <1>0 DEF SparseTyped
  <1>2. LanesInOrder' /\ NoneSpoiled'
    BY <1>0 DEF LanesInOrder, NoneSpoiled
  <1>3. ArmedOnce' /\ TappedOnly'
    BY <1>0 DEF ArmedOnce, TappedOnly
  <1> QED
    BY <1>1, <1>2, <1>3 DEF SparseInv

LEMMA SparseNext ==
  ASSUME SparseInv, Sparse!MasterAssumption, Sparse!Next
  PROVE  SparseInv' /\ Sparse!OwnCallback
  <1>0. late \in BOOLEAN /\ monitor \in [id : Nat, set : BOOLEAN]
    BY DEF SparseInv, SparseTyped
  <1>1. CASE Sparse!User
    <2>1. SparseInv'
      BY <1>1, SparseStarts, SparseEndsRun DEF Sparse!User
    <2>2. fit' = fit
      BY <1>1 DEF Sparse!User, Sparse!Start, Sparse!StartOther, Sparse!SendStart, Sparse!EndRun,
         Sparse!StartMonitor
    <2> QED
      BY <2>1, <2>2 DEF Sparse!OwnCallback
  <1>2. ASSUME NEW n \in SparseNodes, Sparse!Node(n) PROVE SparseInv' /\ Sparse!OwnCallback
    <2>1. SparseInv'
      BY <1>2, SparseNode, SparseReceives DEF Sparse!Node
    <2>2. fit' = fit
      BY <1>2 DEF Sparse!Node, Sparse!Sends, Sparse!Ends, Sparse!OnDone, Sparse!Receive
    <2> QED
      BY <2>1, <2>2 DEF Sparse!OwnCallback
  <1>3. CASE Sparse!Callback
    <2>0. PICK c \in loop : Sparse!ArmTimeout(c) \/ Sparse!NoteFirstData(c) \/ Sparse!Poll(c) \/
            Sparse!Drain(c)
      BY <1>3 DEF Sparse!Callback
    <2>1. CASE Sparse!ArmTimeout(c) \/ Sparse!NoteFirstData(c)
      <3>1. fit' = fit
        BY <2>1 DEF Sparse!ArmTimeout, Sparse!NoteFirstData
      <3> QED
        BY <2>1, <3>1, SparseArms DEF Sparse!OwnCallback
    <2>2. CASE Sparse!Poll(c)
      BY <2>2, SparsePolls
    <2>3. CASE Sparse!Drain(c)
      <3>1. fit' = fit
        BY <2>3 DEF Sparse!Drain
      <3> QED
        BY <2>3, <3>1, SparseDrains DEF Sparse!OwnCallback
    <2> QED
      BY <2>0, <2>1, <2>2, <2>3
  <1>4. CASE Sparse!Deadline
    <2>1. /\ late' = TRUE
          /\ UNCHANGED <<sparse_run, active, streaming, done, lanes, rx, dwell, draining, loop,
               waiting, cal_run, armed, acc,
                         fit, tapped, spoiled, markers, monitor>>
      BY <1>4 DEF Sparse!Deadline, Sparse!Fixed, Sparse!taps, Sparse!nodes, Sparse!monitors
    <2> QED
      BY <1>0, <2>1, SparseRest DEF Sparse!OwnCallback
  <1>5. ASSUME NEW e \in 1 .. MaxMonitors, Sparse!Monitor(e) PROVE SparseInv' /\ Sparse!OwnCallback
    <2>1. UNCHANGED <<sparse_run, active, streaming, done, lanes, rx, dwell, draining, loop,
            waiting, cal_run, armed, acc,
                      fit, tapped, spoiled, markers, monitor, late>>
      BY <1>5 DEF Sparse!Monitor, Sparse!MonitorStep, Sparse!Elapses, Sparse!taps, Sparse!nodes,
         Sparse!cal
    <2> QED
      BY <1>0, <2>1, SparseRest DEF Sparse!OwnCallback
  <1> QED
    BY <1>1, <1>2, <1>3, <1>4, <1>5 DEF Sparse!Next

LEMMA SparseInit ==
  ASSUME Sparse!Init, Sparse!MasterAssumption
  PROVE  SparseInv
  <1>0. MaxRuns \in Nat /\ MaxChunks \in Nat /\ <<>> \in Seq(Sparse!Item)
    BY SparseNames
  <1>1. /\ sparse_run = 0 /\ cal_run = 0 /\ armed = 0 /\ loop = {} /\ waiting = {} /\ markers = 0
        /\ \A n \in SparseNodes : /\ streaming[n] = 0 /\ lanes[n] = <<>> /\ rx[n].of = 0
                                  /\ dwell[n] = {} /\ acc[n] = {} /\ draining[n] = FALSE
        /\ fit.n = 0 /\ fit.at = 0 /\ fit.tapped = FALSE /\ spoiled = FALSE /\ tapped = FALSE
    BY DEF Sparse!Init
  <1>2. SparseTyped
    <2>1. active \in [SparseNodes -> BOOLEAN] /\ done \in [SparseNodes -> BOOLEAN] /\
            draining \in [SparseNodes -> BOOLEAN]
      BY DEF Sparse!Init
    <2>2. /\ streaming \in [SparseNodes -> Nat] /\ lanes \in [SparseNodes -> Seq(Sparse!Item)]
          /\ rx \in [SparseNodes -> [of : Nat, first : BOOLEAN]]
      BY <1>0 DEF Sparse!Init
    <2>3. dwell \in [SparseNodes -> SUBSET Sparse!Chunk] /\
            acc \in [SparseNodes -> SUBSET Sparse!Chunk]
      BY DEF Sparse!Init
    <2>4. late \in BOOLEAN /\ tapped \in BOOLEAN /\ spoiled \in BOOLEAN /\
            monitor \in [id : Nat, set : BOOLEAN]
      BY DEF Sparse!Init
    <2>5. fit \in [n : Nat, of : Nat, at : Nat, used : SUBSET Nat, tapped : BOOLEAN]
      BY DEF Sparse!Init
    <2>6. sparse_run \in 0 .. MaxRuns /\ cal_run \in 0 .. sparse_run /\
            armed \in 0 .. sparse_run /\ markers \in 0 .. MaxChunks
      BY <1>0, <1>1
    <2> QED
      BY <1>1, <2>1, <2>2, <2>3, <2>4, <2>5, <2>6 DEF SparseTyped
  <1>3. Lane(<<>>, 0, 0, 0)
    BY DEF Lane
  <1> QED
    BY <1>1, <1>2, <1>3 DEF SparseInv, LanesInOrder, ArmedOnce, TappedOnly, NoneSpoiled

LEMMA SparseStutter ==
  ASSUME SparseInv, UNCHANGED sparsevars
  PROVE  SparseInv'
  <1>1. late \in BOOLEAN /\ monitor \in [id : Nat, set : BOOLEAN]
    BY DEF SparseInv, SparseTyped
  <1> QED
    BY <1>1, SparseRest DEF sparsevars

LEMMA SparseIs ==
  ASSUME SparseInv, Sparse!MasterAssumption
  PROVE  CalibrationSound
  <1>0. SparseTyped /\ LanesInOrder /\ ArmedOnce /\ TappedOnly /\ NoneSpoiled
    BY DEF SparseInv
  <1>1. ASSUME NEW n \in SparseNodes
        PROVE  /\ {active[n], done[n], draining[n]} \subseteq BOOLEAN /\
                    streaming[n] \in 0 .. sparse_run
               /\ lanes[n] \in Seq(Sparse!Item) /\ rx[n] \in [of : 0 .. sparse_run, first : BOOLEAN]
               /\ {dwell[n], acc[n]} \subseteq SUBSET Sparse!Chunk
    <2>1. /\ active[n] \in BOOLEAN /\ done[n] \in BOOLEAN /\ draining[n] \in BOOLEAN
          /\ dwell[n] \in SUBSET Sparse!Chunk /\ acc[n] \in SUBSET Sparse!Chunk
          /\ lanes[n] \in Seq(Sparse!Item) /\ rx[n] \in [of : Nat, first : BOOLEAN] /\
               streaming[n] \in Nat
          /\ sparse_run \in Nat
      BY <1>0 DEF SparseTyped
    <2>2. rx[n].of <= sparse_run /\ streaming[n] <= sparse_run
      BY <1>0 DEF LanesInOrder, Lane
    <2>3. rx[n] \in [of : 0 .. sparse_run, first : BOOLEAN]
      BY <2>1, <2>2
    <2> QED
      BY <2>1, <2>2, <2>3
  <1>2. {late, tapped, spoiled, monitor.set} \subseteq BOOLEAN
    BY <1>0 DEF SparseTyped
  <1>3. \A c \in loop : c.call \in {"arm", "poll", "first", "drain"} /\ c.run \in 0 .. sparse_run
    BY <1>0 DEF SparseTyped, Callbacks
  <1>4. fit.n <= sparse_run /\ {cal_run, armed} \subseteq 0 .. sparse_run
    BY <1>0 DEF SparseTyped, ArmedOnce
  <1>5. Sparse!TypeOK
    BY <1>0, <1>1, <1>2, <1>3, <1>4 DEF SparseTyped, Sparse!TypeOK
  <1> QED
    BY <1>0, <1>5 DEF CalibrationSound, TappedOnly, NoneSpoiled, Sparse!CalibratedOnTappedData,
       Sparse!CalibrationKeepsItsData

-----------------------------------------------------------------------------
(***************************************************************************)
(* The log of a run.  Every line is in one place: the file of a run, on its *)
(* way to the file, or kept from before the file is open; those of the event *)
(* loop are all there and in order through the three.                      *)
(***************************************************************************)
LogLine == [by : Threads \cup {Log!Loop}, n : Nat]
Flushes == {"flush_open", "flush_say", "flush_free"}

LogTyped ==
    /\ log_run \in 0 .. MaxLogged /\ path \in 0 .. log_run /\ lines \in Nat
    /\ log_active \in BOOLEAN /\ log_conn \in BOOLEAN /\ low_disk \in BOOLEAN
    /\ log_backlog \in BOOLEAN /\ dialog \in BOOLEAN /\ log_locked \in BOOLEAN
    /\ capturing \in BOOLEAN
    /\ log_gui \in {"free", "open", "lock", "say"} \cup Flushes
    /\ buf \in Seq(LogLine) /\ out \in Seq(LogLine)
    /\ log_file \in [Log!Runs -> Seq(LogLine)] /\ said \in [Log!Runs -> SUBSET LogLine]
    /\ adding \in [Threads -> {"no", "buffer", "file"}]

\* The event loop is inside finish() only with a file, and lines are taken for
\* the file only there; a START has no latch up until its log is open.
LogPhase ==
    /\ capturing => path # 0 /\ log_gui \in {"free", "lock"}
    /\ log_gui \in Flushes => path # 0
    /\ log_gui \notin Flushes => out = <<>>
    /\ log_gui \in {"flush_open", "open"} => ~low_disk /\ ~log_backlog /\ log_run # 0
    /\ low_disk \/ log_backlog => log_run # path

\* Of sequences of lines.
UpTo(s, k) == \A i \in DOMAIN s : s[i].n \in 1 .. k
Distinct(s) == \A i, j \in DOMAIN s : s[i].n = s[j].n => i = j
Apart(s, t) == \A i \in DOMAIN s, j \in DOMAIN t : s[i].n # t[j].n
OfLoop(s) == {s[i] : i \in {k \in DOMAIN s : s[k].by = Log!Loop}}
Before(s, t) ==
    \A i \in DOMAIN s, j \in DOMAIN t :
        s[i].by = Log!Loop /\ t[j].by = Log!Loop => s[i].n < t[j].n
LoopSorted(s) ==
    \A i, j \in DOMAIN s : i < j /\ s[i].by = Log!Loop /\ s[j].by = Log!Loop => s[i].n < s[j].n

\* Every line is in one place.
LogPlaces ==
    /\ UpTo(out, lines) /\ UpTo(buf, lines) /\ \A r \in Log!Runs : UpTo(log_file[r], lines)
    /\ Distinct(out) /\ Distinct(buf) /\ Apart(out, buf)
    /\ \A r \in Log!Runs : /\ Distinct(log_file[r]) /\ Apart(log_file[r], out)
                           /\ Apart(log_file[r], buf)
    /\ \A r, s \in Log!Runs : r # s => Apart(log_file[r], log_file[s])

\* Those of the event loop are all there, in order, through file, out and buf.
LogOrder ==
    /\ ~capturing => OfLoop(buf) = {}
    /\ \A r \in Log!Runs :
          said[r] = OfLoop(log_file[r]) \cup (IF r = path THEN OfLoop(out) \cup OfLoop(buf) ELSE {})
    /\ LoopSorted(out) /\ LoopSorted(buf) /\ Before(out, buf)
    /\ \A r \in Log!Runs : /\ LoopSorted(log_file[r])
                           /\ r = path => Before(log_file[r], out) /\ Before(log_file[r], buf)

LogInv == LogTyped /\ LogPhase /\ LogPlaces /\ LogOrder

\* a is s with one more line e, the newest: what is kept.
Appends(s, k, e, a) ==
    /\ a \in Seq(LogLine) /\ UpTo(a, k + 1)
    /\ Distinct(s) => Distinct(a)
    /\ OfLoop(a) = OfLoop(s) \cup (IF e.by = Log!Loop THEN {e} ELSE {})
    /\ LoopSorted(s) => LoopSorted(a)
    /\ \A t \in Seq(LogLine) : UpTo(t, k) /\ Apart(s, t) => Apart(a, t) /\ Apart(t, a)
    /\ \A t \in Seq(LogLine) : UpTo(t, k) /\ Before(t, s) => Before(t, a)
    /\ \A t \in Seq(LogLine) :
          Before(s, t) /\ (e.by # Log!Loop \/ OfLoop(t) = {}) => Before(a, t)

LEMMA Appended ==
    ASSUME NEW s \in Seq(LogLine), NEW k \in Nat, NEW e \in LogLine, e.n = k + 1, UpTo(s, k),
           NEW a, a = Append(s, e)
    PROVE  Appends(s, k, e, a)
  <1>0. a \in Seq(LogLine) /\ Len(s) \in Nat /\ DOMAIN s = 1 .. Len(s) /\ DOMAIN a = 1 .. Len(s) + 1
        /\ \A i \in DOMAIN s : s[i] \in LogLine
    OBVIOUS
  <1>1. \A i \in DOMAIN a : a[i] = IF i \in DOMAIN s THEN s[i] ELSE e
    BY <1>0
  <1>2. \A i \in DOMAIN a : i \in DOMAIN s \/ i = Len(s) + 1
    BY <1>0
  <1>3. \A i \in DOMAIN s : s[i].n \in 1 .. k /\ i \in DOMAIN a /\ i < Len(s) + 1
    BY <1>0 DEF UpTo
  <1>4. Len(s) + 1 \in DOMAIN a /\ Len(s) + 1 \notin DOMAIN s /\ a[Len(s) + 1] = e
    BY <1>0, <1>1

  <1>5. UpTo(a, k + 1)
    BY <1>1, <1>3 DEF UpTo
  <1>6. Distinct(s) => Distinct(a)
    BY <1>1, <1>2, <1>3 DEF Distinct
  <1>7. OfLoop(a) = OfLoop(s) \cup (IF e.by = Log!Loop THEN {e} ELSE {})
    BY <1>1, <1>2, <1>3, <1>4 DEF OfLoop
  <1>8. LoopSorted(s) => LoopSorted(a)
    BY <1>0, <1>1, <1>2, <1>3 DEF LoopSorted
  <1>9. ASSUME NEW t \in Seq(LogLine), UpTo(t, k), Apart(s, t) PROVE Apart(a, t) /\ Apart(t, a)
    BY <1>1, <1>2, <1>3, <1>9 DEF Apart, UpTo
  <1>10. ASSUME NEW t \in Seq(LogLine), UpTo(t, k), Before(t, s) PROVE Before(t, a)
    BY <1>1, <1>2, <1>3, <1>10 DEF Before, UpTo
  <1>11. ASSUME NEW t \in Seq(LogLine), Before(s, t), e.by # Log!Loop \/
                OfLoop(t) = {} PROVE Before(a, t)
    BY <1>1, <1>2, <1>3, <1>11 DEF Before, OfLoop
  <1> QED
    BY <1>0, <1>5, <1>6, <1>7, <1>8, <1>9, <1>10, <1>11 DEF Appends

LEMMA Joined ==
  ASSUME NEW s \in Seq(LogLine), NEW t \in Seq(LogLine), NEW j, j = s \o t
  PROVE  /\ j \in Seq(LogLine)
         /\ \A k : UpTo(s, k) /\ UpTo(t, k) => UpTo(j, k)
         /\ Distinct(s) /\ Distinct(t) /\ Apart(s, t) => Distinct(j)
         /\ OfLoop(j) = OfLoop(s) \cup OfLoop(t)
         /\ Log!Range(j) = Log!Range(s) \cup Log!Range(t)
         /\ LoopSorted(s) /\ LoopSorted(t) /\ Before(s, t) => LoopSorted(j)
         /\ \A u \in Seq(LogLine) : Apart(s, u) /\ Apart(t, u) => Apart(j, u) /\ Apart(u, j)
         /\ \A u \in Seq(LogLine) : Before(s, u) /\ Before(t, u) => Before(j, u)
         /\ \A u \in Seq(LogLine) : Before(u, s) /\ Before(u, t) => Before(u, j)
  <1> DEFINE m == Len(s)
  <1>0. /\ j \in Seq(LogLine) /\ m \in Nat /\ Len(t) \in Nat /\
             DOMAIN s = 1 .. m /\ DOMAIN t = 1 .. Len(t)
        /\ DOMAIN j = 1 .. m + Len(t)
        /\ \A i \in DOMAIN s : s[i] \in LogLine
        /\ \A i \in DOMAIN t : t[i] \in LogLine
    OBVIOUS
  <1>1. \A i \in DOMAIN j : j[i] = IF i \in DOMAIN s THEN s[i] ELSE t[i - m]
    BY <1>0
  <1>2. \A i \in DOMAIN j : i \in DOMAIN s \/ (i \notin DOMAIN s /\ i - m \in DOMAIN t /\ i \in Int /\ i > m)
    BY <1>0
  <1>3. /\ \A i \in DOMAIN s : i \in DOMAIN j /\ i <= m
        /\ \A i \in DOMAIN t : i + m \in DOMAIN j /\ i + m \notin DOMAIN s /\ (i + m) - m = i
    BY <1>0
  <1> HIDE DEF m

  <1>4. ASSUME NEW k, UpTo(s, k), UpTo(t, k) PROVE UpTo(j, k)
    BY <1>1, <1>2, <1>4 DEF UpTo
  <1>5. Distinct(s) /\ Distinct(t) /\ Apart(s, t) => Distinct(j)
    <2> SUFFICES ASSUME Distinct(s), Distinct(t), Apart(s, t), NEW i \in DOMAIN j,
                 NEW k \in DOMAIN j, j[i].n = j[k].n
                 PROVE  i = k
      BY DEF Distinct
    <2>1. CASE i \in DOMAIN s /\ k \in DOMAIN s
      BY <1>1, <2>1 DEF Distinct
    <2>2. CASE i \notin DOMAIN s /\ k \notin DOMAIN s
      <3>1. i - m = k - m
        BY <1>1, <1>2, <2>2 DEF Distinct
      <3> QED
        BY <3>1, <1>2, <1>0, <2>2
    <2>3. CASE (i \in DOMAIN s /\ k \notin DOMAIN s) \/ (i \notin DOMAIN s /\ k \in DOMAIN s)
      BY <1>1, <1>2, <2>3 DEF Apart
    <2> QED
      BY <2>1, <2>2, <2>3
  <1>6. OfLoop(j) = OfLoop(s) \cup OfLoop(t)
    BY <1>1, <1>2, <1>3 DEF OfLoop
  <1>7. Log!Range(j) = Log!Range(s) \cup Log!Range(t)
    BY <1>1, <1>2, <1>3 DEF Log!Range
  <1>8. LoopSorted(s) /\ LoopSorted(t) /\ Before(s, t) => LoopSorted(j)
    <2> SUFFICES ASSUME LoopSorted(s), LoopSorted(t), Before(s, t), NEW i \in DOMAIN j,
                 NEW k \in DOMAIN j, i < k,
                        j[i].by = Log!Loop, j[k].by = Log!Loop
                 PROVE  j[i].n < j[k].n
      BY DEF LoopSorted
    <2>1. CASE i \in DOMAIN s /\ k \in DOMAIN s
      BY <1>1, <2>1 DEF LoopSorted
    <2>2. CASE i \notin DOMAIN s /\ k \notin DOMAIN s
      <3>1. i - m < k - m
        BY <1>2, <1>0, <2>2
      <3> QED
        BY <3>1, <1>1, <1>2, <2>2 DEF LoopSorted
    <2>3. CASE i \in DOMAIN s /\ k \notin DOMAIN s
      BY <1>1, <1>2, <2>3 DEF Before
    <2>4. ~(i \notin DOMAIN s /\ k \in DOMAIN s)
      BY <1>0, <1>2
    <2> QED
      BY <2>1, <2>2, <2>3, <2>4
  <1>9. ASSUME NEW u \in Seq(LogLine), Apart(s, u), Apart(t, u) PROVE Apart(j, u) /\ Apart(u, j)
    BY <1>1, <1>2, <1>9 DEF Apart
  <1>10. ASSUME NEW u \in Seq(LogLine), Before(s, u), Before(t, u) PROVE Before(j, u)
    BY <1>1, <1>2, <1>10 DEF Before
  <1>11. ASSUME NEW u \in Seq(LogLine), Before(u, s), Before(u, t) PROVE Before(u, j)
    BY <1>1, <1>2, <1>11 DEF Before
  <1> QED
    BY <1>0, <1>4, <1>5, <1>6, <1>7, <1>8, <1>9, <1>10, <1>11

LEMMA Nothing ==
  ASSUME NEW s \in Seq(LogLine)
  PROVE  /\ <<>> \in Seq(LogLine) /\ \A k : UpTo(<<>>, k)
         /\ Distinct(<<>>) /\ LoopSorted(<<>>) /\ OfLoop(<<>>) = {}
         /\ Apart(s, <<>>) /\ Apart(<<>>, s) /\ Before(s, <<>>) /\ Before(<<>>, s)
  BY DEF UpTo, Distinct, LoopSorted, OfLoop, Apart, Before

LEMMA PathIsRun ==
  ASSUME LogTyped, Log!RecordAssumption
  PROVE  path # 0 => path \in Log!Runs
  BY DEF LogTyped, Log!Runs, Log!RecordAssumption

\* finish() takes the buffer.
LEMMA FinishKeeps ==
  ASSUME LogInv, log_gui = "free", NEW then \in {"open", "say", "free"}, Log!Finish(then),
         UNCHANGED <<path, log_file, said, lines>>
  PROVE  /\ capturing' = FALSE /\ buf' \in Seq(LogLine) /\ out' \in Seq(LogLine)
         /\ \/ log_gui' = then /\ out' = <<>>
            \/ path # 0 /\ log_gui' \in Flushes /\ (then # "open" => log_gui' # "flush_open")
         /\ LogPlaces' /\ LogOrder'
  <1>0. /\ LogTyped /\ LogPlaces /\ LogOrder /\ out = <<>>
        /\ buf \in Seq(LogLine) /\ \A r \in Log!Runs : log_file[r] \in Seq(LogLine)
    BY DEF LogInv, LogPhase, LogTyped, Flushes
  <1>1. CASE path # 0 /\ capturing
    <2>1. /\ capturing' = FALSE /\ out' = buf /\ buf' = <<>> /\ log_gui' = Log!Flushing[then]
      BY <1>1 DEF Log!Finish, Log!Emptied
    <2>2. log_gui' \in Flushes /\ (then # "open" => log_gui' # "flush_open")
      <3>1. CASE then = "open"
        BY <2>1, <3>1 DEF Log!Flushing, Flushes
      <3>2. CASE then = "say"
        BY <2>1, <3>2 DEF Log!Flushing, Flushes
      <3>3. CASE then = "free"
        BY <2>1, <3>3 DEF Log!Flushing, Flushes
      <3> QED
        BY <3>1, <3>2, <3>3
    <2>3. LogPlaces'
      BY <1>0, <2>1, Nothing DEF LogPlaces
    <2>4. LogOrder'
      BY <1>0, <2>1, Nothing DEF LogOrder
    <2> QED
      BY <1>0, <1>1, <2>1, <2>2, <2>3, <2>4, Nothing
  <1>2. CASE ~(path # 0 /\ capturing)
    <2>1. /\ capturing' = FALSE /\ ~capturing /\ out' = out /\ buf' = buf /\ log_gui' = then
      BY <1>2 DEF Log!Finish, LogInv, LogPhase, LogTyped
    <2> QED
      BY <1>0, <2>1 DEF LogPlaces, LogOrder
  <1> QED
    BY <1>1, <1>2

\* A line of the event loop, outside finish().
LEMMA SaysKeeps ==
  ASSUME LogInv, Log!RecordAssumption, out = <<>>, Log!Says
  PROVE  /\ buf' \in Seq(LogLine) /\ log_file' \in [Log!Runs -> Seq(LogLine)]
         /\ said' \in [Log!Runs -> SUBSET LogLine] /\ lines' \in Nat
         /\ UNCHANGED <<path, capturing, out>>
         /\ LogPlaces' /\ LogOrder'
  <1> DEFINE e == [by |-> Log!Loop, n |-> lines + 1]
  <1>0. /\ LogTyped /\ LogPlaces /\ LogOrder /\ lines \in Nat
        /\ buf \in Seq(LogLine) /\ \A r \in Log!Runs : log_file[r] \in Seq(LogLine)
    BY DEF LogInv, LogTyped
  <1>1. /\ e \in LogLine /\ e.n = lines + 1 /\ e.by = Log!Loop
        /\ lines' = lines + 1 /\ UNCHANGED <<path, capturing, out>>
    BY <1>0 DEF Log!Says, LogLine
  <1>u. \A s : UpTo(s, lines) => UpTo(s, lines + 1)
    BY <1>0 DEF UpTo
  <1>2. CASE path = 0
    <2>1. UNCHANGED <<buf, log_file, said>>
      BY <1>2 DEF Log!Says
    <2> QED
      BY <1>0, <1>1, <1>u, <2>1 DEF LogTyped, LogPlaces, LogOrder
  <1>3. CASE path # 0
    <2>0. path \in Log!Runs
      BY <1>0, <1>3, PathIsRun
    <2>1. /\ said' = [said EXCEPT ![path] = @ \cup {e}]
          /\ said' \in [Log!Runs -> SUBSET LogLine]
      BY <1>0, <1>1, <1>3, <2>0 DEF Log!Says, LogTyped
    <2> HIDE DEF e
    <2>2. CASE capturing
      <3>1. buf' = Append(buf, e) /\ log_file' = log_file
        BY <1>3, <2>2 DEF Log!Says, e
      <3>2. /\ buf' \in Seq(LogLine) /\ UpTo(buf', lines') /\ Distinct(buf')
            /\ OfLoop(buf') = OfLoop(buf) \cup {e} /\ LoopSorted(buf')
            /\ \A t \in Seq(LogLine) : UpTo(t, lines) /\ Apart(buf, t) => Apart(t, buf')
            /\ \A t \in Seq(LogLine) : UpTo(t, lines) /\ Before(t, buf) => Before(t, buf')
        <4>1. Appends(buf, lines, e, buf') /\ Distinct(buf) /\ LoopSorted(buf)
          BY <1>0, <1>1, <3>1, Appended DEF LogPlaces, LogOrder
        <4> QED
          BY <4>1, <1>1 DEF Appends
      <3>3. LogPlaces'
        BY <1>0, <1>1, <1>u, <3>1, <3>2 DEF LogPlaces, LogTyped, Apart
      <3>4. LogOrder'
        BY <1>0, <1>1, <1>3, <2>0, <2>1, <2>2, <3>1, <3>2, Nothing DEF LogOrder, LogTyped, LogPlaces
      <3> QED
        BY <1>0, <1>1, <2>1, <3>1, <3>2, <3>3, <3>4 DEF LogTyped
    <2>3. CASE ~capturing
      <3> DEFINE f == Append(log_file[path], e)
      <3>0. f = Append(log_file[path], e)
        OBVIOUS
      <3>1. buf' = buf /\ log_file' = [log_file EXCEPT ![path] = f]
        BY <1>3, <2>3 DEF Log!Says, e
      <3> HIDE DEF f
      <3>2. /\ f \in Seq(LogLine) /\ UpTo(f, lines') /\ Distinct(f)
            /\ OfLoop(f) = OfLoop(log_file[path]) \cup {e} /\ LoopSorted(f)
            /\ \A t \in Seq(LogLine) : UpTo(t, lines) /\ Apart(log_file[path], t) =>
                 Apart(f, t) /\ Apart(t, f)
            /\ \A t \in Seq(LogLine) : Before(log_file[path], t) /\ OfLoop(t) = {} => Before(f, t)
        <4> DEFINE g == log_file[path]
        <4>1. /\ g \in Seq(LogLine) /\ UpTo(g, lines) /\ Distinct(g) /\ LoopSorted(g) /\
                   f = Append(g, e)
          BY <1>0, <2>0, <3>0 DEF LogPlaces, LogOrder
        <4>2. e.n = lines + 1 /\ e \in LogLine
          BY <1>1
        <4> HIDE DEF g
        <4>3. /\ f \in Seq(LogLine) /\ UpTo(f, lines + 1) /\ Distinct(f)
              /\ OfLoop(f) = OfLoop(g) \cup {e} /\ LoopSorted(f)
              /\ \A t \in Seq(LogLine) : UpTo(t, lines) /\ Apart(g, t) => Apart(f, t) /\ Apart(t, f)
              /\ \A t \in Seq(LogLine) : Before(g, t) /\ OfLoop(t) = {} => Before(f, t)
          <5>1. Appends(g, lines, e, f)
            BY <4>1, <4>2, <1>0, Appended
          <5> QED
            BY <5>1, <4>1, <1>1 DEF Appends
        <4> QED
          BY <4>3, <1>1 DEF g
      <3>3. /\ \A r \in Log!Runs : log_file'[r] = IF r = path THEN f ELSE log_file[r]
            /\ log_file' \in [Log!Runs -> Seq(LogLine)]
        BY <1>0, <2>0, <3>1, <3>2 DEF LogTyped
      <3>4. LogPlaces'
        BY <1>0, <1>1, <1>u, <3>1, <3>2, <3>3 DEF LogPlaces, LogTyped
      <3>5. LogOrder'
        <4>1. OfLoop(buf) = {} /\ Before(f, buf) /\ Before(f, out)
          BY <1>0, <2>0, <2>3, <3>2, Nothing DEF LogOrder
        <4>2. ASSUME NEW r \in Log!Runs
              PROVE  said'[r] = OfLoop(log_file'[r]) \cup (IF r = path' THEN OfLoop(out') \cup OfLoop(buf') ELSE {})
          BY <1>0, <1>1, <2>0, <2>1, <3>1, <3>2, <3>3 DEF LogOrder, LogTyped
        <4>3. ASSUME NEW r \in Log!Runs
              PROVE  /\ LoopSorted(log_file'[r])
                     /\ r = path' => Before(log_file'[r], out') /\ Before(log_file'[r], buf')
          BY <1>0, <1>1, <3>1, <3>2, <3>3, <4>1 DEF LogOrder
        <4> QED
          BY <1>0, <1>1, <3>1, <4>1, <4>2, <4>3 DEF LogOrder
      <3> QED
        BY <1>0, <1>1, <2>1, <3>1, <3>3, <3>4, <3>5
    <2> QED
      BY <2>2, <2>3
  <1> QED
    BY <1>2, <1>3

LEMMA AddedKeeps ==
  ASSUME LogInv, Log!RecordAssumption, NEW t \in Threads, Log!Added(t)
  PROVE  LogInv'
  <1> DEFINE e == [by |-> t, n |-> lines + 1]
  <1>0. /\ LogTyped /\ LogPhase /\ LogPlaces /\ LogOrder /\ lines \in Nat
        /\ buf \in Seq(LogLine) /\ \A r \in Log!Runs : log_file[r] \in Seq(LogLine)
    BY DEF LogInv, LogTyped
  <1>1. /\ e \in LogLine /\ e.n = lines + 1 /\ e.by # Log!Loop /\ lines' = lines + 1
        /\ adding' \in [Threads -> {"no", "buffer", "file"}]
        /\ UNCHANGED <<log_run, log_active, log_conn, low_disk, log_backlog, dialog, log_locked,
             log_gui, path,
                       capturing, out, said>>
    BY <1>0 DEF Log!Added, LogLine, LogTyped, Log!running, Log!latches, Log!RecordAssumption
  <1>u. \A s : UpTo(s, lines) => UpTo(s, lines + 1)
    BY <1>0 DEF UpTo
  <1>2. CASE buf' = Append(buf, e) /\ log_file' = log_file
    <2> HIDE DEF e
    <2>0. UpTo(buf, lines) /\ Distinct(buf) /\ LoopSorted(buf)
      BY <1>0 DEF LogPlaces, LogOrder
    <2>1. /\ buf' \in Seq(LogLine) /\ UpTo(buf', lines') /\ Distinct(buf')
          /\ OfLoop(buf') = OfLoop(buf) /\ LoopSorted(buf')
          /\ \A s \in Seq(LogLine) : UpTo(s, lines) /\ Apart(buf, s) => Apart(s, buf')
          /\ \A s \in Seq(LogLine) : UpTo(s, lines) /\ Before(s, buf) => Before(s, buf')
      <3>1. Appends(buf, lines, e, buf')
        BY <1>0, <1>1, <1>2, <2>0, Appended
      <3> QED
        BY <3>1, <2>0, <1>1 DEF Appends
    <2>2. LogPlaces'
      <3>1. out \in Seq(LogLine) /\ UpTo(out, lines) /\ Apart(buf, out) /\ Apart(out, buf')
        BY <1>0, <2>1 DEF LogPlaces, LogTyped, Apart
      <3>2. ASSUME NEW r \in Log!Runs
            PROVE  UpTo(log_file[r], lines) /\ Apart(buf, log_file[r]) /\ Apart(log_file[r], buf')
        BY <1>0, <2>1 DEF LogPlaces, Apart
      <3> QED
        BY <1>0, <1>1, <1>u, <1>2, <2>1, <3>1, <3>2 DEF LogPlaces
    <2>3. LogOrder'
      BY <1>0, <1>1, <1>2, <2>1 DEF LogOrder, LogTyped, LogPlaces
    <2>4. LogTyped' /\ LogPhase'
      BY <1>0, <1>1, <1>2, <2>1 DEF LogTyped, LogPhase
    <2> QED
      BY <2>2, <2>3, <2>4 DEF LogInv
  <1>3. CASE buf' = buf /\ log_file' = log_file
    <2>1. LogPlaces' /\ LogOrder'
      BY <1>0, <1>1, <1>u, <1>3 DEF LogPlaces, LogOrder
    <2>2. LogTyped' /\ LogPhase'
      BY <1>0, <1>1, <1>3 DEF LogTyped, LogPhase
    <2> QED
      BY <2>1, <2>2 DEF LogInv
  <1>4. CASE path # 0 /\ buf' = buf /\ log_file' = [log_file EXCEPT ![path] = Append(@, e)]
    <2> DEFINE f == Append(log_file[path], e)
    <2>0. path \in Log!Runs /\ log_file' = [log_file EXCEPT ![path] = f]
      BY <1>0, <1>4, PathIsRun
    <2>1. /\ log_file[path] \in Seq(LogLine) /\ UpTo(log_file[path], lines)
          /\ Distinct(log_file[path]) /\ LoopSorted(log_file[path])
      BY <1>0, <2>0 DEF LogPlaces, LogOrder
    <2>f. f = Append(log_file[path], e)
      OBVIOUS
    <2> HIDE DEF e, f
    <2>2. /\ f \in Seq(LogLine) /\ UpTo(f, lines') /\ Distinct(f)
          /\ OfLoop(f) = OfLoop(log_file[path]) /\ LoopSorted(f)
          /\ \A s \in Seq(LogLine) : UpTo(s, lines) /\ Apart(log_file[path], s) => Apart(f, s) /\
               Apart(s, f)
          /\ \A s \in Seq(LogLine) : Before(log_file[path], s) => Before(f, s)
      <3> DEFINE g == log_file[path]
      <3>1. g \in Seq(LogLine) /\ UpTo(g, lines) /\ Distinct(g) /\ LoopSorted(g) /\ f = Append(g, e)
        BY <2>1, <2>f
      <3>2. e.n = lines + 1 /\ e \in LogLine
        BY <1>1
      <3> HIDE DEF g
      <3>3. /\ f \in Seq(LogLine) /\ UpTo(f, lines + 1) /\ Distinct(f)
            /\ OfLoop(f) = OfLoop(g) /\ LoopSorted(f)
            /\ \A s \in Seq(LogLine) : UpTo(s, lines) /\ Apart(g, s) => Apart(f, s) /\ Apart(s, f)
            /\ \A s \in Seq(LogLine) : Before(g, s) => Before(f, s)
        <4>1. Appends(g, lines, e, f)
          BY <3>1, <3>2, <1>0, Appended
        <4> QED
          BY <4>1, <3>1, <1>1 DEF Appends
      <3> QED
        BY <3>3, <1>1 DEF g
    <2>3. /\ \A r \in Log!Runs : log_file'[r] = IF r = path THEN f ELSE log_file[r]
          /\ log_file' \in [Log!Runs -> Seq(LogLine)]
      BY <1>0, <2>0, <2>2 DEF LogTyped
    <2>4. LogPlaces'
      BY <1>0, <1>1, <1>u, <1>4, <2>2, <2>3 DEF LogPlaces, LogTyped
    <2>5. LogOrder'
      BY <1>0, <1>1, <1>4, <2>0, <2>2, <2>3 DEF LogOrder, LogTyped
    <2>6. LogTyped' /\ LogPhase'
      BY <1>0, <1>1, <1>4, <2>3 DEF LogTyped, LogPhase
    <2> QED
      BY <2>4, <2>5, <2>6 DEF LogInv
  <1> QED
    BY <1>0, <1>1, <1>2, <1>3, <1>4 DEF Log!Added

LEMMA LogActions ==
  ASSUME LogInv, Log!RecordAssumption, Log!Next
  PROVE  LogInv'
  <1>0. LogTyped /\ LogPhase /\ LogPlaces /\ LogOrder /\ MaxLogged \in Nat /\
          (path # 0 => path \in Log!Runs)
    BY PathIsRun DEF LogInv, Log!RecordAssumption
  <1> USE DEF Flushes, Log!running, Log!latches, Log!log
  \* Where the sequences of lines are left alone.
  <1>a. ASSUME UNCHANGED <<lines, out, buf, log_file, said, path, capturing>> PROVE LogPlaces' /\
               LogOrder'
    BY <1>0, <1>a DEF LogPlaces, LogOrder
  <1>1. CASE Log!Start
    <2>1. /\ log_gui = "free" /\ log_run < MaxLogged /\ log_active' = TRUE /\ log_run' = log_run + 1
          /\ low_disk' = FALSE /\ log_backlog' = FALSE /\ Log!Finish("open")
          /\ UNCHANGED <<log_conn, dialog, log_locked, path, log_file, adding, said, lines>>
      BY <1>1 DEF Log!Start, Log!Reset
    <2>2. /\ capturing' = FALSE /\ buf' \in Seq(LogLine) /\ out' \in Seq(LogLine)
          /\ \/ log_gui' = "open" /\ out' = <<>>
             \/ path # 0 /\ log_gui' \in Flushes
          /\ LogPlaces' /\ LogOrder'
      BY <2>1, FinishKeeps
    <2>3. LogTyped'
      <3>1. log_run' \in 0 .. MaxLogged /\ path' \in 0 .. log_run'
        BY <1>0, <2>1 DEF LogTyped
      <3>2. log_gui' \in {"free", "open", "lock", "say"} \cup Flushes
        BY <2>1, <2>2
      <3> QED
        BY <1>0, <2>1, <2>2, <3>1, <3>2 DEF LogTyped
    <2>4. LogPhase'
      BY <1>0, <2>1, <2>2 DEF LogPhase, LogTyped
    <2> QED
      BY <2>2, <2>3, <2>4 DEF LogInv
  <1>2. ASSUME NEW then \in {"open", "say", "free"}, Log!Flush(then) PROVE LogInv'
    <2>1. /\ log_gui \in Flushes /\ log_gui' = then /\ (then = "open" => log_gui = "flush_open")
      <3>1. CASE then = "open"
        BY <1>2, <3>1 DEF Log!Flush, Log!Flushing
      <3>2. CASE then = "say"
        BY <1>2, <3>2 DEF Log!Flush, Log!Flushing
      <3>3. CASE then = "free"
        BY <1>2, <3>3 DEF Log!Flush, Log!Flushing
      <3> QED
        BY <3>1, <3>2, <3>3
    <2> DEFINE f == log_file[path] \o out
    <2>2. /\ path \in Log!Runs /\ log_file' = [log_file EXCEPT ![path] = f] /\ out' = <<>>
          /\ UNCHANGED <<log_run, log_active, log_conn, low_disk, log_backlog, dialog, log_locked,
                         path, capturing, buf, adding, said, lines>>
      BY <1>0, <1>2, <2>1 DEF LogPhase, Log!Flush, Log!Flushed
    <2>3. /\ log_file[path] \in Seq(LogLine) /\ out \in Seq(LogLine) /\ buf \in Seq(LogLine)
          /\ \A r \in Log!Runs : log_file[r] \in Seq(LogLine)
      BY <1>0, <2>2 DEF LogTyped
    <2>f. f = log_file[path] \o out
      OBVIOUS
    <2> HIDE DEF f
    <2>4. /\ f \in Seq(LogLine) /\ UpTo(f, lines) /\ Distinct(f) /\ LoopSorted(f)
          /\ OfLoop(f) = OfLoop(log_file[path]) \cup OfLoop(out)
          /\ \A u \in Seq(LogLine) : Apart(log_file[path], u) /\ Apart(out, u) => Apart(f, u) /\
               Apart(u, f)
          /\ Before(f, buf)
      <3>1. /\ UpTo(log_file[path], lines) /\ UpTo(out, lines) /\ Distinct(log_file[path]) /\
                 Distinct(out)
            /\ Apart(log_file[path], out) /\ LoopSorted(log_file[path]) /\ LoopSorted(out)
            /\ Before(log_file[path], out) /\ Before(log_file[path], buf) /\ Before(out, buf)
        BY <1>0, <2>2 DEF LogPlaces, LogOrder
      <3> QED
        BY <2>3, <2>f, <3>1, Joined
    <2>5. /\ \A r \in Log!Runs : log_file'[r] = IF r = path THEN f ELSE log_file[r]
          /\ log_file' \in [Log!Runs -> Seq(LogLine)]
      BY <1>0, <2>2, <2>4 DEF LogTyped
    <2>6. LogTyped'
      BY <1>0, <2>1, <2>2, <2>5, Nothing DEF LogTyped
    <2>7. LogPhase'
      BY <1>0, <2>1, <2>2 DEF LogPhase, LogTyped
    <2>8. LogPlaces'
      <3>1. ASSUME NEW r \in Log!Runs, r # path PROVE Apart(log_file[r], out)
        BY <1>0 DEF LogPlaces
      <3>2. ASSUME NEW r \in Log!Runs, r # path PROVE Apart(f, log_file[r]) /\ Apart(log_file[r], f)
        <4>1. Apart(log_file[path], log_file[r]) /\ Apart(out, log_file[r])
          BY <1>0, <2>2, <3>2 DEF LogPlaces, Apart
        <4> QED
          BY <4>1, <2>3, <2>4
      <3> QED
        BY <1>0, <2>2, <2>3, <2>4, <2>5, <3>2, Nothing DEF LogPlaces
    <2>9. LogOrder'
      <3>1. ASSUME NEW r \in Log!Runs
            PROVE  said'[r] = OfLoop(log_file'[r]) \cup (IF r = path' THEN OfLoop(out') \cup OfLoop(buf') ELSE {})
        BY <1>0, <2>2, <2>3, <2>4, <2>5, Nothing DEF LogOrder
      <3> QED
        BY <1>0, <2>2, <2>3, <2>4, <2>5, <3>1, Nothing DEF LogOrder
    <2> QED
      BY <2>6, <2>7, <2>8, <2>9 DEF LogInv
  <1>3. CASE Log!Open
    <2>1. /\ log_gui = "open" /\ log_gui' = "lock" /\ buf' = <<>>
          /\ (path' = log_run /\ capturing' = TRUE) \/ (path' = 0 /\ capturing' = FALSE)
          /\ UNCHANGED <<log_run, log_active, log_conn, low_disk, log_backlog, dialog, log_locked,
                         out, log_file, adding, said, lines>>
      BY <1>3 DEF Log!Open
    <2>2. out = <<>> /\ ~capturing /\ ~low_disk /\ ~log_backlog
      BY <1>0, <2>1 DEF LogPhase
    <2>3. LogTyped' 
      <3>1. log_run' \in 0 .. MaxLogged /\ path' \in 0 .. log_run'
        BY <1>0, <2>1 DEF LogTyped
      <3>2. log_gui' \in {"free", "open", "lock", "say"} \cup Flushes
        BY <2>1
      <3> QED
        BY <1>0, <2>1, Nothing, <3>1, <3>2 DEF LogTyped
    <2>4. LogPhase'
      BY <1>0, <2>1, <2>2 DEF LogPhase, LogTyped
    <2>5. LogPlaces'
      BY <1>0, <2>1, <2>2, Nothing DEF LogPlaces, LogTyped
    <2>6. LogOrder'
      BY <1>0, <2>1, <2>2, Nothing DEF LogOrder, LogTyped
    <2> QED
      BY <2>3, <2>4, <2>5, <2>6 DEF LogInv
  <1>4. CASE Log!RefreshLock
    <2>1. /\ log_gui \in {"lock", "free"} /\ log_gui' = "free" /\ log_locked' \in BOOLEAN
          /\ Log!Says \/ UNCHANGED <<path, capturing, buf, out, log_file, said, lines>>
          /\ UNCHANGED <<log_run, log_active, log_conn, low_disk, log_backlog, dialog, adding>>
      BY <1>0, <1>4 DEF Log!RefreshLock, Log!Committed, LogTyped
    <2>2. out = <<>>
      BY <1>0, <2>1 DEF LogPhase
    <2>3. CASE Log!Says
      <3>1. /\ buf' \in Seq(LogLine) /\ log_file' \in [Log!Runs -> Seq(LogLine)]
            /\ said' \in [Log!Runs -> SUBSET LogLine] /\ lines' \in Nat
            /\ UNCHANGED <<path, capturing, out>> /\ LogPlaces' /\ LogOrder'
        BY <2>2, <2>3, SaysKeeps
      <3>2. LogTyped'
        BY <1>0, <2>1, <3>1 DEF LogTyped
      <3>3. LogPhase'
        BY <1>0, <2>1, <2>2, <3>1 DEF LogPhase
      <3> QED
        BY <3>1, <3>2, <3>3 DEF LogInv
    <2>4. CASE UNCHANGED <<path, capturing, buf, out, log_file, said, lines>>
      <3>1. LogTyped'
        BY <1>0, <2>1, <2>4 DEF LogTyped
      <3>2. LogPhase'
        BY <1>0, <2>1, <2>2, <2>4 DEF LogPhase
      <3> QED
        BY <1>a, <2>4, <3>1, <3>2 DEF LogInv
    <2> QED
      BY <2>1, <2>3, <2>4
  \* _end_run: its run is no longer the one of the open log.
  <1>b. ASSUME Log!EndRun, dialog' \in BOOLEAN, low_disk' \in BOOLEAN,
               log_backlog' \in BOOLEAN PROVE LogInv'
    <2>1. /\ log_gui = "free" /\ log_run < MaxLogged /\ log_run' = log_run + 1 /\ Log!Finish("say")
          /\ UNCHANGED <<log_active, log_conn, log_locked, path, log_file, adding, said, lines>>
      BY <1>b DEF Log!EndRun
    <2>2. /\ capturing' = FALSE /\ buf' \in Seq(LogLine) /\ out' \in Seq(LogLine)
          /\ \/ log_gui' = "say" /\ out' = <<>>
             \/ path # 0 /\ log_gui' \in Flushes /\ log_gui' # "flush_open"
          /\ LogPlaces' /\ LogOrder'
      BY <2>1, FinishKeeps
    <2>3. LogTyped'
      <3>1. log_run' \in 0 .. MaxLogged /\ path' \in 0 .. log_run'
        BY <1>0, <2>1 DEF LogTyped
      <3>2. log_gui' \in {"free", "open", "lock", "say"} \cup Flushes
        BY <2>1, <2>2
      <3> QED
        BY <1>0, <1>b, <2>1, <2>2, <3>1, <3>2 DEF LogTyped
    <2>4. LogPhase'
      BY <1>0, <1>b, <2>1, <2>2 DEF LogPhase, LogTyped
    <2> QED
      BY <2>2, <2>3, <2>4 DEF LogInv
  <1>5. CASE Log!Stop
    BY <1>5, <1>0, <1>b DEF Log!Stop, LogTyped
  <1>6. CASE Log!SayStopped
    <2>1. /\ log_gui = "say" /\ log_gui' = "free" /\ Log!Says
          /\ UNCHANGED <<log_run, log_active, log_conn, low_disk, log_backlog, dialog,
               log_locked, adding>>
      BY <1>6 DEF Log!SayStopped
    <2>2. out = <<>>
      BY <1>0, <2>1 DEF LogPhase
    <2>3. /\ buf' \in Seq(LogLine) /\ log_file' \in [Log!Runs -> Seq(LogLine)]
          /\ said' \in [Log!Runs -> SUBSET LogLine] /\ lines' \in Nat
          /\ UNCHANGED <<path, capturing, out>> /\ LogPlaces' /\ LogOrder'
      BY <2>1, <2>2, SaysKeeps
    <2>4. LogTyped'
      BY <1>0, <2>1, <2>3 DEF LogTyped
    <2>5. LogPhase'
      BY <1>0, <2>1, <2>2, <2>3 DEF LogPhase
    <2> QED
      BY <2>3, <2>4, <2>5 DEF LogInv
  <1>7. CASE Log!IntegrationOver
    <2>1. /\ log_gui = "free" /\ Log!Finish("free")
          /\ UNCHANGED <<log_run, log_active, log_conn, low_disk, log_backlog, dialog,
               log_locked, path, log_file,
                         adding, said, lines>>
      BY <1>7 DEF Log!IntegrationOver
    <2>2. /\ capturing' = FALSE /\ buf' \in Seq(LogLine) /\ out' \in Seq(LogLine)
          /\ \/ log_gui' = "free" /\ out' = <<>>
             \/ path # 0 /\ log_gui' \in Flushes /\ log_gui' # "flush_open"
          /\ LogPlaces' /\ LogOrder'
      BY <2>1, FinishKeeps
    <2>3. LogTyped'
      <3>1. log_run' \in 0 .. MaxLogged /\ path' \in 0 .. log_run'
        BY <1>0, <2>1 DEF LogTyped
      <3>2. log_gui' \in {"free", "open", "lock", "say"} \cup Flushes
        BY <2>1, <2>2
      <3> QED
        BY <1>0, <2>1, <2>2, <3>1, <3>2 DEF LogTyped
    <2>4. LogPhase'
      BY <1>0, <2>1, <2>2 DEF LogPhase
    <2> QED
      BY <2>2, <2>3, <2>4 DEF LogInv
  <1>8. CASE Log!StopAtLimit
    BY <1>8, <1>0, <1>b DEF Log!StopAtLimit, LogTyped
  <1>9. CASE Log!Stall
    <2>1. LogTyped' /\ LogPhase'
      BY <1>0, <1>9 DEF Log!Stall, LogTyped, LogPhase
    <2> QED
      BY <1>9, <1>a, <2>1 DEF Log!Stall, LogInv
  <1>10. CASE Log!Answer
    <2>1. CASE Log!EndRun
      BY <1>0, <1>10, <2>1, <1>b DEF Log!Answer, LogTyped
    <2>2. CASE ~Log!EndRun
      <3>1. /\ dialog' = FALSE
            /\ UNCHANGED <<log_run, log_active, log_conn, low_disk, log_backlog, log_locked,
                 log_gui, path, capturing, buf,
                           out, log_file, adding, said, lines>>
        BY <1>10, <2>2 DEF Log!Answer
      <3>2. LogTyped' /\ LogPhase'
        BY <1>0, <3>1 DEF LogTyped, LogPhase
      <3> QED
        BY <1>a, <3>1, <3>2 DEF LogInv
    <2> QED
      BY <2>1, <2>2
  <1>11. CASE Log!Session
    <2>1. /\ log_active' \in BOOLEAN /\ log_conn' \in BOOLEAN
          /\ UNCHANGED <<log_run, low_disk, log_backlog, dialog, log_locked, log_gui, path,
               capturing, buf,
                         out, log_file, adding, said, lines>>
      BY <1>0, <1>11 DEF Log!Session, LogTyped
    <2>2. LogTyped' /\ LogPhase'
      BY <1>0, <2>1 DEF LogTyped, LogPhase
    <2> QED
      BY <1>a, <2>1, <2>2 DEF LogInv
  <1>12. ASSUME NEW t \in Threads, Log!Add(t) PROVE LogInv'
    <2>1. /\ adding' \in [Threads -> {"no", "buffer", "file"}]
          /\ UNCHANGED <<log_run, log_active, log_conn, low_disk, log_backlog, dialog,
               log_locked, log_gui, path,
                         capturing, buf, out, log_file, said, lines>>
      BY <1>0, <1>12 DEF Log!Add, LogTyped
    <2>2. LogTyped' /\ LogPhase'
      BY <1>0, <2>1 DEF LogTyped, LogPhase
    <2> QED
      BY <1>a, <2>1, <2>2 DEF LogInv
  <1>13. ASSUME NEW t \in Threads, Log!Added(t) PROVE LogInv'
    BY <1>13, AddedKeeps
  <1> QED
    BY <1>1, <1>2, <1>3, <1>4, <1>5, <1>6, <1>7, <1>8, <1>9, <1>10, <1>11, <1>12,
       <1>13 DEF Log!Next, Log!EventLoop

LEMMA LogInit ==
  ASSUME Log!Init, Log!RecordAssumption
  PROVE  LogInv
  <1>1. \A r \in Log!Runs : log_file[r] = <<>> /\ said[r] = {}
    BY DEF Log!Init
  <1>2. buf = <<>> /\ out = <<>> /\ <<>> \in Seq(LogLine)
    BY DEF Log!Init
  <1>3. LogTyped
    <2>0. log_run = 0 /\ path = 0 /\ lines = 0 /\ log_gui = "free" /\ MaxLogged \in Nat
      BY DEF Log!Init, Log!RecordAssumption
    <2>1. log_run \in 0 .. MaxLogged /\ path \in 0 .. log_run /\ lines \in Nat
      BY <2>0
    <2>4. /\ log_active \in BOOLEAN /\ log_conn \in BOOLEAN /\ low_disk \in BOOLEAN /\
               log_backlog \in BOOLEAN
          /\ dialog \in BOOLEAN /\ log_locked \in BOOLEAN /\ capturing \in BOOLEAN
      BY DEF Log!Init
    <2>5. log_gui \in {"free", "open", "lock", "say"} \cup Flushes
      BY <2>0
    <2>2. adding \in [Threads -> {"no", "buffer", "file"}]
      BY DEF Log!Init
    <2>3. log_file \in [Log!Runs -> Seq(LogLine)] /\ said \in [Log!Runs -> SUBSET LogLine]
      BY <1>2 DEF Log!Init
    <2> QED
      BY <1>2, <2>1, <2>2, <2>3, <2>4, <2>5 DEF LogTyped
  <1>4. LogPhase
    BY DEF Log!Init, LogPhase, Flushes
  <1>5. LogPlaces
    BY <1>1, <1>2, Nothing DEF LogPlaces
  <1>6. LogOrder
    BY <1>1, <1>2, Nothing DEF LogOrder, Log!Init
  <1> QED
    BY <1>3, <1>4, <1>5, <1>6 DEF LogInv

LEMMA LogStutter ==
  ASSUME LogInv, UNCHANGED logvars
  PROVE  LogInv'
  <1>0. LogTyped /\ LogPhase /\ LogPlaces /\ LogOrder
    BY DEF LogInv
  <1>1. LogTyped'
    BY <1>0 DEF logvars, LogTyped
  <1>2. LogPhase'
    BY <1>0 DEF logvars, LogPhase
  <1>3. LogPlaces'
    BY <1>0 DEF logvars, LogPlaces
  <1>4. LogOrder'
    BY <1>0 DEF logvars, LogOrder
  <1> QED
    BY <1>1, <1>2, <1>3, <1>4 DEF LogInv

\* What is in the file of a run and on its way there.
LEMMA WrittenIs ==
  ASSUME LogInv, NEW r \in Log!Runs
  PROVE  /\ Log!Written(r) \in Seq(LogLine) /\ UpTo(Log!Written(r), lines)
         /\ Distinct(Log!Written(r)) /\ LoopSorted(Log!Written(r)) /\
              OfLoop(Log!Written(r)) = said[r]
         /\ r # path => Log!Written(r) = log_file[r]
         /\ r = path =>
              /\ Log!Range(Log!Written(r)) = Log!Range(log_file[r]) \cup Log!Range(out) \cup Log!Range(buf)
  <1>0. /\ LogTyped /\ LogPlaces /\ LogOrder /\ log_file[r] \in Seq(LogLine)
        /\ out \in Seq(LogLine) /\ buf \in Seq(LogLine)
    BY DEF LogInv, LogTyped
  <1>1. CASE r = path
    <2> DEFINE f == log_file[r]
               o == out \o buf
               w == f \o o
    <2>0. Log!Written(r) = w /\ o = out \o buf /\ w = f \o o /\ f \in Seq(LogLine) /\
            f = log_file[r]
      BY <1>0, <1>1 DEF Log!Written
    <2> HIDE DEF f, o, w
    <2>1. /\ UpTo(f, lines) /\ Distinct(f) /\ LoopSorted(f) /\ Apart(f, out) /\ Apart(f, buf)
          /\ Before(f, out) /\ Before(f, buf)
      BY <1>0, <1>1, <2>0 DEF LogPlaces, LogOrder
    <2>2. /\ o \in Seq(LogLine) /\ UpTo(o, lines) /\ Distinct(o) /\ LoopSorted(o)
          /\ OfLoop(o) = OfLoop(out) \cup OfLoop(buf) /\
               Log!Range(o) = Log!Range(out) \cup Log!Range(buf)
      <3>1. UpTo(out, lines) /\ UpTo(buf, lines) /\ Distinct(out) /\ Distinct(buf) /\
              Apart(out, buf)
        BY <1>0 DEF LogPlaces
      <3>2. LoopSorted(out) /\ LoopSorted(buf) /\ Before(out, buf)
        BY <1>0 DEF LogOrder
      <3> QED
        BY <1>0, <2>0, <3>1, <3>2, Joined
    <2>3. Apart(out, f) /\ Apart(buf, f)
      BY <2>1 DEF Apart
    <2>4. Apart(f, o) /\ Before(f, o)
      BY <1>0, <2>0, <2>1, <2>3, Joined
    <2>5. /\ w \in Seq(LogLine) /\ UpTo(w, lines) /\ Distinct(w) /\ LoopSorted(w)
          /\ OfLoop(w) = OfLoop(f) \cup OfLoop(o) /\ Log!Range(w) = Log!Range(f) \cup Log!Range(o)
      <3>1. f \in Seq(LogLine) /\ o \in Seq(LogLine) /\ w = f \o o
        BY <2>0, <2>2
      <3>2. /\ UpTo(f, lines) /\ Distinct(f) /\ LoopSorted(f) /\ UpTo(o, lines) /\ Distinct(o) /\
                 LoopSorted(o)
            /\ Apart(f, o) /\ Before(f, o)
        BY <2>1, <2>2, <2>4
      <3> QED
        BY <3>1, <3>2, Joined
    <2>6. said[r] = OfLoop(f) \cup (OfLoop(out) \cup OfLoop(buf))
      BY <1>0, <1>1, <2>0 DEF LogOrder
    <2>7. OfLoop(w) = said[r]
      BY <2>2, <2>5, <2>6
    <2>8. Log!Range(w) = Log!Range(f) \cup Log!Range(out) \cup Log!Range(buf)
      BY <2>2, <2>5
    <2> QED
      BY <1>1, <2>0, <2>5, <2>7, <2>8
  <1>2. CASE r # path
    <2>1. Log!Written(r) = log_file[r]
      BY <1>0, <1>2 DEF Log!Written
    <2>2. UpTo(log_file[r], lines) /\ Distinct(log_file[r])
      BY <1>0 DEF LogPlaces
    <2>3. LoopSorted(log_file[r]) /\ said[r] = OfLoop(log_file[r])
      BY <1>0, <1>2 DEF LogOrder
    <2> QED
      BY <1>0, <1>2, <2>1, <2>2, <2>3
  <1> QED
    BY <1>1, <1>2

LEMMA LogIs ==
  ASSUME LogInv, Log!RecordAssumption
  PROVE  RunLogSound
  <1>0. LogTyped /\ LogPhase /\ LogPlaces /\ LogOrder
    BY DEF LogInv
  <1>1. ASSUME NEW r \in Log!Runs
        PROVE  /\ Log!Said(r) = said[r]
               /\ \A i, j \in DOMAIN Log!Written(r) :
                     i < j /\ {Log!Written(r)[i], Log!Written(r)[j]} \subseteq said[r]
                     => Log!Written(r)[i].n < Log!Written(r)[j].n
    <2> DEFINE w == Log!Written(r)
    <2>1. LoopSorted(w) /\ OfLoop(w) = said[r]
      BY WrittenIs
    <2> HIDE DEF w
    <2>2. OfLoop(w) = {l \in Log!Range(w) : l.by = Log!Loop}
      BY DEF OfLoop, Log!Range
    <2>3. \A l \in OfLoop(w) : l.by = Log!Loop
      BY DEF OfLoop
    <2>4. \A i, j \in DOMAIN w : i < j /\ {w[i], w[j]} \subseteq said[r] => w[i].n < w[j].n
      BY <2>1, <2>3 DEF LoopSorted
    <2> QED
      BY <2>1, <2>2, <2>4 DEF Log!Said, w
  <1>2. Log!RunLogWhole
    BY <1>1 DEF Log!RunLogWhole
  <1>3. ASSUME NEW r \in Log!Runs PROVE Log!IsInjective(Log!Written(r))
    <2> DEFINE w == Log!Written(r)
    <2>1. Distinct(w)
      BY WrittenIs
    <2> HIDE DEF w
    <2>2. \A i, j \in DOMAIN w : w[i] = w[j] => i = j
      BY <2>1 DEF Distinct
    <2> QED
      BY <2>2 DEF Log!IsInjective, w
  <1>4. ASSUME NEW r \in Log!Runs, NEW s \in Log!Runs, r # s, r # path
        PROVE  Log!Range(Log!Written(r)) \cap Log!Range(Log!Written(s)) = {}
    <2>1. Log!Written(r) = log_file[r]
      BY <1>4, WrittenIs
    <2>2. Apart(log_file[r], log_file[s]) /\ Apart(log_file[r], out) /\ Apart(log_file[r], buf)
      BY <1>0, <1>4 DEF LogPlaces
    <2>3. ASSUME NEW u, Apart(log_file[r], u) PROVE Log!Range(log_file[r]) \cap Log!Range(u) = {}
      BY <2>3 DEF Apart, Log!Range
    <2>4. CASE s = path
      BY <2>1, <2>2, <2>3, <2>4, WrittenIs
    <2>5. CASE s # path
      BY <2>1, <2>2, <2>3, <2>5, WrittenIs
    <2> QED
      BY <2>4, <2>5
  <1>5. Log!LoggedOnce
    BY <1>3, <1>4 DEF Log!LoggedOnce
  <1>6. Log!LatchesOfThisRun
    BY <1>0 DEF LogPhase, Log!LatchesOfThisRun
  <1>7. ASSUME NEW s \in Seq(LogLine), UpTo(s, lines) PROVE s \in Log!Lines
    <2>1. DOMAIN s = 1 .. Len(s) /\ Len(s) \in Nat /\ \A i \in DOMAIN s : s[i] \in LogLine
      OBVIOUS
    <2>2. \A i \in DOMAIN s : s[i] \in [by : Threads \cup {Log!Loop}, n : 1 .. lines]
      BY <1>7, <2>1 DEF UpTo, LogLine
    <2> QED
      <3> DEFINE T == [by : Threads \cup {Log!Loop}, n : 1 .. lines]
      <3>1. s = [i \in 1 .. Len(s) |-> s[i]] /\ Len(s) \in Nat /\ \A i \in 1 .. Len(s) : s[i] \in T
        BY <2>1, <2>2
      <3> HIDE DEF T
      <3>2. [i \in 1 .. Len(s) |-> s[i]] \in Seq(T)
        BY <3>1
      <3> QED
        BY <3>1, <3>2 DEF Log!Lines, T
  <1>8. Log!TypeOK
    <2>1. log_run \in 0 .. MaxLogged /\ path \in 0 .. log_run
      BY <1>0 DEF LogTyped
    <2>2. {log_active, log_conn, low_disk, log_backlog, dialog, log_locked,
            capturing} \subseteq BOOLEAN
      BY <1>0 DEF LogTyped
    <2>3. Flushes = {Log!Flushing[s] : s \in DOMAIN Log!Flushing}
      BY DEF Flushes, Log!Flushing
    <2>4. {buf, out} \subseteq Log!Lines /\ \A r \in Log!Runs : log_file[r] \in Log!Lines
      BY <1>0, <1>7 DEF LogTyped, LogPlaces
    <2>5. out # <<>> => log_gui \notin {"free", "open", "lock", "say"}
      BY <1>0 DEF LogPhase, Flushes
    <2>6. ~capturing => \A i \in DOMAIN buf : buf[i].by # Log!Loop
      BY <1>0 DEF LogOrder, OfLoop
    <2>7. log_gui \in {"free", "open", "lock", "say"} \cup Flushes /\
            \A t \in Threads : adding[t] \in {"no", "buffer", "file"}
      BY <1>0 DEF LogTyped
    <2> QED
      BY <2>1, <2>2, <2>3, <2>4, <2>5, <2>6, <2>7 DEF Log!TypeOK
  <1> QED
    BY <1>2, <1>5, <1>6, <1>8 DEF RunLogSound

-----------------------------------------------------------------------------
(***************************************************************************)
(* The master: a step of the sum is a step of one machine and leaves the   *)
(* others as they are, so what holds of each machine holds of the master.  *)
(***************************************************************************)
LEMMA StepOfEach ==
    ASSUME [SumNext]_sumvars
    PROVE  /\ [Launch!Next]_launchvars /\ [Receive!Next]_receivevars
           /\ [Sparse!Next]_sparsevars /\ [Log!Next]_logvars
  <1>1. CASE UNCHANGED sumvars
    BY <1>1 DEF sumvars
  <1>2. CASE SumNext
    BY <1>2 DEF SumNext, Steps, InPair, InLaunch, InReceive, InSparse, InLog
  <1> QED
    BY <1>1, <1>2

\* NodePanel and ssh_launcher, for any number of launches, aborts, mask refreshes
\* and faults, the lost connections and the shutdowns that do not get through
\* among them: an abort is final for its launch; there is one node.py, the mask
\* shown is the chip's, and what runs on unasked is what a shutdown did not reach,
\* unless a Launch or an Abort found something of an earlier epoch unfinished, or,
\* for the mask, a refresh stored it after a Disconnect.
THEOREM LaunchIsSound == SumSpec => []LaunchSound
  <1>0. Launch!NodeLaunchAssumption
    BY MasterAssumption
  <1>1. SumInit => LaunchInv
    BY <1>0, LaunchInit DEF SumInit
  <1>2. LaunchInv /\ [SumNext]_sumvars => LaunchInv'
    BY <1>0, StepOfEach, LaunchNext, LaunchStutter
  <1>3. LaunchInv => LaunchSound
    BY <1>0, LaunchIs
  <1> QED
    BY <1>1, <1>2, <1>3, PTL DEF SumSpec

\* run_session_loop and marker_source.py, for any marker kinds and any number
\* of connections, chunks and faults: a directory holds one run, a session
\* that ended is whole, and its live markers are those of the offline analysis.
THEOREM ReceiverIsSound == SumSpec => []ReceiverSound
  <1>0. Receive!ReceiverAssumption
    BY MasterAssumption
  <1>1. SumInit => ReceiveInv
    BY <1>0, ReceiveInit DEF SumInit
  <1>2. ReceiveInv /\ [SumNext]_sumvars => ReceiveInv'
    BY <1>0, StepOfEach, ReceiveNext, ReceiveStutter
  <1>3. ReceiveInv => ReceiverSound
    BY <1>0, ReceiveIs
  <1> QED
    BY <1>1, <1>2, <1>3, PTL DEF SumSpec

\* start_dwell_drain and _arm_sparse_cal, for any nodes, chips, runs and
\* chunks: a run whose taps were set in time is calibrated on its own data, of
\* which nothing is discarded before.
THEOREM CalibrationIsSound == SumSpec => []CalibrationSound
  <1>0. Sparse!MasterAssumption
    BY MasterAssumption
  <1>1. SumInit => SparseInv
    BY <1>0, SparseInit DEF SumInit
  <1>2. SparseInv /\ [SumNext]_sumvars => SparseInv'
    BY <1>0, StepOfEach, SparseNext, SparseStutter
  <1>3. SparseInv => CalibrationSound
    BY <1>0, SparseIs
  <1> QED
    BY <1>1, <1>2, <1>3, PTL DEF SumSpec

\* _arm_sparse_cal and its callbacks: a run is calibrated at most once, and by
\* its own callback, however the timer, the stops and the next START fall.
THEOREM CalibratedOnce == SumSpec => OncePerRun
  <1>0. Sparse!MasterAssumption
    BY MasterAssumption
  <1>1. SumInit => SparseInv
    BY <1>0, SparseInit DEF SumInit
  <1>2. SparseInv /\ [SumNext]_sumvars => SparseInv' /\ [Sparse!OwnCallback]_sparsevars
    BY <1>0, StepOfEach, SparseNext, SparseStutter
  <1> QED
    BY <1>1, <1>2, PTL DEF SumSpec, OncePerRun

\* run_log.py and _check_disk_space, for any threads, runs and lines: the log
\* of a run has the lines of the event loop from its START on, in order, none
\* twice, and the latches are of the run of the last START.
THEOREM RunLogIsSound == SumSpec => []RunLogSound
  <1>0. Log!RecordAssumption
    BY MasterAssumption
  <1>1. SumInit => LogInv
    BY <1>0, LogInit DEF SumInit
  <1>2. LogInv /\ [SumNext]_sumvars => LogInv'
    BY <1>0, StepOfEach, LogActions, LogStutter
  <1>3. LogInv => RunLogSound
    BY <1>0, LogIs
  <1> QED
    BY <1>1, <1>2, <1>3, PTL DEF SumSpec
=============================================================================
