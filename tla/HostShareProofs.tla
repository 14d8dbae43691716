-------------------------- MODULE HostShareProofs --------------------------
(***************************************************************************)
(* One share on the host machine, for any number of `waserver` processes,  *)
(* configs, groups, faults and any capacity of the events channel: daemons *)
(* that can be reached are found, guests hear of reloads, and every group  *)
(* of the hub is accounted for.                                            *)
(***************************************************************************)
EXTENDS HostShare, FiniteSetTheorems, SequenceTheorems, WellFoundedInduction, TLAPS

\* A client of a daemon's IPC server.
Waiting(c) == c.step \in {"connected", "sent"}
\* A process that serves, as Running has it.
Serving(c) == c.cmd = "serve" /\ c.step \in {"connect", "run"}
\* A start that has found nobody listening.
Cleared(c) == \/ c.cmd = "serve" /\ c.step \in {"remove", "listen", "connect", "run"}
              \/ c.cmd = "deinit" /\ c.step \in {"hub", "delete"}

\* Whoever is in a queue waits there, once, for a daemon that serves, and a
\* request in progress is that of the head.
QueuesInv ==
  /\ \A d \in Procs : \A i \in 1 .. Len(ipc[d].queue) : Waiting(proc[ipc[d].queue[i]])
  /\ \A d, e \in Procs : \A i \in 1 .. Len(ipc[d].queue), j \in 1 .. Len(ipc[e].queue) :
       ipc[d].queue[i] = ipc[e].queue[j] => d = e /\ i = j
  /\ \A d \in Procs : ipc[d].step # "idle" => ipc[d].queue # <<>>
  /\ \A d \in Procs : ipc[d].queue # <<>> => Serving(proc[d])

\* Who listens serves and is heard; who was listening when a command began
\* still is, or serves unheard, the latter if the command has looked.
ServersInv ==
  /\ Unheard \subseteq Running
  /\ sock \in Procs => sock \in Running \ Unheard
  /\ \A q \in Procs : \A p \in proc[q].before :
       p \in Running /\ (sock = p \/ p \in Unheard)
  /\ \A q \in Procs : Cleared(proc[q]) => proc[q].before \subseteq Unheard

\* The guest's events stream is that of a daemon that runs.
StreamInv ==
  /\ sub.on # None => sub.on \in Procs /\ At(sub.on, "serve", "run")
  /\ sub.events > 0 => sub.on # None
  /\ GuestsHearReloads

\* The rollback of an init that created its group, if it has one.
Pushed(kind) == IF kind = WC THEN <<"group">> ELSE <<>>

\* What the group of an init is, and what its Rollback has to do.
InitInv(c, dk, gs) ==
  /\ c.kind # None
  /\ c.kind # WC \/ c.step \in {"exists", "group"} => c.group = 0
  /\ c.step \in {"exists", "group"} => c.undo = <<>>
  /\ c.step = "group" => c.kind = WC
  /\ c.step \in {"dir", "toml", "db", "kind", "keys"} => ~dk.keys
  /\ c.step \in {"toml", "db", "kind", "keys", "register"} => dk.there
  /\ c.step \in {"keys", "register"} => dk.kind = c.kind
  /\ c.step = "register" => dk.keys /\ dk.group = c.group
  /\ c.step \in DOMAIN CreateSteps => c.undo = Pushed(c.kind)
  /\ c.step \in {"keys", "register"} => c.undo = Append(Pushed(c.kind), "dir")
  /\ c.step = "undo" =>
       /\ c.undo \in {<<>>, <<"group">>, <<"dir">>, <<"group", "dir">>}
       /\ c.group \in gs => c.undo \in {<<"group">>, <<"group", "dir">>}
       /\ c.undo \in {<<"dir">>, <<"group", "dir">>} /\ dk.keys => dk.group = c.group

\* What deinit knows of the share it deletes.
DeinitInv(c, dk, gs) ==
  /\ c.step \in {"probe", "hub", "delete"} => dk.kind # None
  /\ c.step = "hub" => c.group = dk.group
  /\ c.step = "delete" => ~(dk.kind = WC /\ dk.keys /\ dk.group \in gs)

\* Until something goes wrong one init or deinit runs at a time, and knows
\* the disk.
GroupsInv ==
  ~mess =>
    /\ \A p, q \in Procs :
         proc[p].cmd \in {"init", "deinit"} /\ proc[q].cmd \in {"init", "deinit"} => p = q
    /\ ~disk.there => disk = Absent
    /\ \A p \in Procs : proc[p].cmd = "init" => InitInv(proc[p], disk, groups)
    /\ \A p \in Procs : proc[p].cmd = "deinit" => DeinitInv(proc[p], disk, groups)
    /\ GroupsAccounted

HostIInv ==
  /\ HostShareTypeOK
  /\ QueuesInv
  /\ ServersInv
  /\ StreamInv
  /\ GroupsInv

-----------------------------------------------------------------------------
(* Commands *)

Legal(c) == c \in Command /\ c.step \in StepsOf[c.cmd]

LEMMA Tables ==
  /\ DOMAIN StepsOf = {"none", "init", "deinit", "serve", "stop", "reload", "edit"}
  /\ DOMAIN CreateSteps = {"free", "dir", "toml", "db", "kind"}
  /\ StepsOf["none"] = {"idle"}
  /\ StepsOf["init"] = {"exists", "group", "keys", "register", "undo",
                        "free", "dir", "toml", "db", "kind"}
  /\ StepsOf["deinit"] = {"open", "probe", "hub", "delete"}
  /\ StepsOf["serve"] = {"load", "open", "bind", "ipc", "remove", "listen", "connect", "run"}
  /\ StepsOf["stop"] = {"ask", "connected", "sent"}
  /\ StepsOf["reload"] = {"ask", "connected", "sent"}
  /\ StepsOf["edit"] = {"exists", "editor", "check", "ask", "connected", "sent"}
BY DEF StepsOf, CreateSteps

LEMMA StepLegal ==
  \A c \in DOMAIN StepsOf : \A s \in StepsOf[c] : s \in Steps
BY DEF Steps

LEMMA IdleLegal ==
  /\ Legal(Idle) /\ Idle.cmd = "none" /\ Idle.step = "idle" /\ Idle.before = {}
  /\ Idle.group = 0 /\ Idle.undo = <<>> /\ Idle.kind = None /\ Idle.cfg = 0
<1>1. "none" \in DOMAIN StepsOf /\ "idle" \in StepsOf["none"] /\ "idle" \in Steps
  BY Tables, StepLegal
<1> QED
  BY <1>1, HostShareBounds DEF Legal, Idle, Command

LEMMA Typed ==
  ASSUME HostIInv
  PROVE  /\ disk \in Disk /\ file \in Files /\ groups \subseteq Groups
         /\ sock \in Procs \cup {None, Stale}
         /\ ipc \in [Procs -> IpcServer]
         /\ proc \in [Procs -> Command]
         /\ \A p \in Procs : Legal(proc[p])
         /\ mess \in BOOLEAN
BY DEF HostIInv, HostShareTypeOK, Legal

\* A process of its own accord goes on as c.
Onto(p, c) == Legal(c) /\ proc' = [proc EXCEPT ![p] = c]

LEMMA GoOnto ==
  ASSUME HostIInv, NEW p \in Procs, NEW s \in StepsOf[proc[p].cmd], Go(p, s)
  PROVE  \E c : /\ Onto(p, c) /\ c.step = s /\ c.cmd = proc[p].cmd /\ c.kind = proc[p].kind
                /\ c.group = proc[p].group /\ c.undo = proc[p].undo /\ c.cfg = proc[p].cfg
                /\ c.before = proc[p].before
<1> DEFINE c == [proc[p] EXCEPT !.step = s]
<1>1. proc \in [Procs -> Command] /\ proc[p] \in Command /\ s \in Steps
  BY Typed, StepLegal DEF Command
<1>2. /\ c \in Command /\ c.step = s /\ c.cmd = proc[p].cmd /\ c.kind = proc[p].kind
      /\ c.group = proc[p].group /\ c.undo = proc[p].undo /\ c.cfg = proc[p].cfg
      /\ c.before = proc[p].before
  BY <1>1 DEF Command
<1>3. proc' = [proc EXCEPT ![p] = c]
  BY <1>1 DEF Go, Command
<1> HIDE DEF c
<1> QED
  BY <1>2, <1>3 DEF Onto, Legal

LEMMA EndOnto ==
  ASSUME NEW p \in Procs, End(p)
  PROVE  Onto(p, Idle)
BY IdleLegal DEF End, Onto

-----------------------------------------------------------------------------
(* Daemons, their sockets and their clients *)

LEMMA RunningServes == Running = {p \in Procs : Serving(proc[p])}
BY DEF Running, Serving

\* A step of a command that neither serves nor waits for an answer, and
\* touches no socket.
Local(p, c) ==
  /\ Onto(p, c)
  /\ UNCHANGED others
  /\ ~Waiting(proc[p]) /\ ~Serving(proc[p]) /\ ~Waiting(c) /\ ~Serving(c)
  /\ c.before \subseteq proc[p].before
  /\ Cleared(c) => Cleared(proc[p]) \/ sock \notin Procs

ReachInv == QueuesInv /\ ServersInv /\ StreamInv

LEMMA LocalKeepsReach ==
  ASSUME HostIInv, NEW p \in Procs, NEW c, Local(p, c)
  PROVE  ReachInv'
<1>1. proc \in [Procs -> Command] /\ proc' = [proc EXCEPT ![p] = c] /\ ipc \in [Procs -> IpcServer]
  BY Typed DEF Local, Onto
<1>2. proc'[p] = c /\ \A q \in Procs \ {p} : proc'[q] = proc[q]
  BY <1>1
<1>3. UNCHANGED <<sock, ipc, sub, deaf, lost>>
  BY DEF Local, others
<1>4. Running' = Running /\ Unheard' = Unheard
  BY <1>2, <1>3, RunningServes DEF Local, Unheard, Running, Serving
<1>5. QueuesInv'
  <2>1. \A d \in Procs : ipc[d].queue \in Seq(Procs)
    BY <1>1 DEF IpcServer
  <2>2. \A d \in Procs : \A i \in 1 .. Len(ipc[d].queue) :
          ipc[d].queue[i] \in Procs /\ Waiting(proc[ipc[d].queue[i]])
    BY <2>1 DEF HostIInv, QueuesInv
  <2>3. \A d \in Procs : \A i \in 1 .. Len(ipc[d].queue) : ipc[d].queue[i] # p
    BY <2>2 DEF Local
  <2> QED
    BY <1>2, <1>3, <2>2, <2>3 DEF HostIInv, QueuesInv, Local
<1>6. ServersInv'
  <2>1. ServersInv
    BY DEF HostIInv
  <2>2. \A q \in Procs : \A r \in proc'[q].before :
          r \in Running /\ (sock = r \/ r \in Unheard)
    BY <1>2, <2>1 DEF ServersInv, Local
  <2>3. ASSUME NEW q \in Procs, Cleared(proc'[q]), NEW r \in proc'[q].before
        PROVE  r \in Unheard
    <3>1. CASE q = p
      BY <1>2, <2>1, <2>2, <2>3, <3>1, RunningServes DEF ServersInv, Local
    <3>2. CASE q # p
      BY <1>2, <2>1, <2>3, <3>2 DEF ServersInv
    <3> QED
      BY <3>1, <3>2
  <2> QED
    BY <1>3, <1>4, <2>1, <2>2, <2>3 DEF ServersInv
<1>7. StreamInv'
  <2>1. StreamInv /\ (sub.on # None => sub.on # p)
    BY DEF HostIInv, StreamInv, At, Local, Serving
  <2> QED
    BY <1>2, <1>3, <2>1 DEF StreamInv, GuestsHearReloads, At
<1> QED
  BY <1>5, <1>6, <1>7 DEF ReachInv

\* Commands that start, end or go on without a socket.
LEMMA EndIsLocal ==
  ASSUME HostIInv, NEW p \in Procs, ~Waiting(proc[p]), ~Serving(proc[p]), End(p), UNCHANGED others
  PROVE  Local(p, Idle)
BY EndOnto, IdleLegal DEF Local, Waiting, Serving, Cleared

LEMMA GoIsLocal ==
  ASSUME HostIInv, NEW p \in Procs, ~Waiting(proc[p]), ~Serving(proc[p]),
         NEW s \in StepsOf[proc[p].cmd], s \notin {"connected", "sent", "connect", "run"},
         s \in {"remove", "listen", "hub", "delete"} =>
           proc[p].step \in {"remove", "listen", "hub", "delete"} \/ sock \notin Procs,
         Go(p, s), UNCHANGED others
  PROVE  \E c : Local(p, c)
<1>1. PICK c : /\ Onto(p, c) /\ c.step = s /\ c.cmd = proc[p].cmd /\ c.before = proc[p].before
  BY GoOnto
<1>2. Legal(proc[p])
  BY Typed
<1>3. Cleared(c) => Cleared(proc[p]) \/ sock \notin Procs
  BY <1>1, <1>2, Tables DEF Cleared, Legal
<1> QED
  BY <1>1, <1>3 DEF Local, Waiting, Serving

-----------------------------------------------------------------------------
(* Groups *)

\* The share on disk names group g.
Named(dk, g) == dk.kind = WC /\ dk.keys /\ dk.group = g

\* What the one init or deinit that runs, and nobody disturbs, knows.
Knows(c, dk, gs) ==
  /\ ~dk.there => dk = Absent
  /\ c.cmd = "init" => InitInv(c, dk, gs)
  /\ c.cmd = "deinit" => DeinitInv(c, dk, gs)
  /\ \A g \in gs : Named(dk, g) \/ (c.cmd = "init" /\ c.group = g)

LEMMA KnowsOne ==
  ASSUME HostIInv, ~mess, NEW p \in Procs, proc[p].cmd \in {"init", "deinit"}
  PROVE  Knows(proc[p], disk, groups)
BY DEF HostIInv, GroupsInv, GroupsAccounted, InProgress, Knows, Named

LEMMA OneKnows ==
  ASSUME HostIInv, NEW p \in Procs, NEW c, Onto(p, c),
         proc[p].cmd \in {"init", "deinit"}, c.cmd \in {"none", proc[p].cmd},
         ~mess' => ~mess /\ Knows(c, disk', groups')
  PROVE  GroupsInv'
<1> SUFFICES ASSUME ~mess'
             PROVE  GroupsInv'
  BY DEF GroupsInv
<1>1. /\ proc \in [Procs -> Command] /\ Legal(c)
      /\ proc'[p] = c /\ \A q \in Procs \ {p} : proc'[q] = proc[q]
  BY Typed DEF Onto
<1>2. \A q \in Procs : proc[q].cmd \in {"init", "deinit"} => q = p
  BY DEF HostIInv, GroupsInv
<1>3. c.cmd = "init" => c.step # "idle"
  BY <1>1, Tables DEF Legal
<1>4. GroupsAccounted'
  BY <1>1, <1>3 DEF Knows, Named, GroupsAccounted, InProgress
<1> QED
  BY <1>1, <1>2, <1>4 DEF GroupsInv, Knows

\* Nobody who inits or deinits takes part.
Bystanders ==
  \A q \in Procs :
    /\ proc'[q].cmd \in {"init", "deinit"} => proc[q].cmd = proc'[q].cmd
    /\ proc[q].cmd \in {"init", "deinit"} =>
         /\ proc'[q].cmd = proc[q].cmd /\ proc'[q].step = proc[q].step
         /\ proc'[q].kind = proc[q].kind /\ proc'[q].group = proc[q].group
         /\ proc'[q].undo = proc[q].undo

LEMMA BystandersKeepGroups ==
  ASSUME HostIInv, Bystanders, UNCHANGED <<groups, mess>>,
         disk' = disk \/ (open_state /\ disk' = record_legacy_transport)
  PROVE  GroupsInv' /\ disk' \in Disk
<1>1. disk \in Disk
  BY Typed
<1>2. /\ disk' \in Disk
      /\ disk'.there = disk.there /\ disk'.keys = disk.keys /\ disk'.group = disk.group
      /\ disk.kind # None => disk'.kind = disk.kind
      /\ disk'.kind # None \/ disk'.kind = disk.kind
  BY <1>1 DEF record_legacy_transport, Disk, WC, None
<1>3. ASSUME ~disk.there, disk = Absent
      PROVE  disk' = disk
  BY <1>3 DEF Absent, open_state
<1> SUFFICES ASSUME ~mess'
             PROVE  GroupsInv'
  BY <1>2 DEF GroupsInv
<1>4. ~mess /\ GroupsInv
  BY DEF HostIInv
<1>5. ASSUME NEW q \in Procs, proc'[q].cmd = "init"
      PROVE  InitInv(proc'[q], disk', groups')
  <2>1. InitInv(proc[q], disk, groups) /\ proc[q].cmd = "init"
    BY <1>4, <1>5 DEF GroupsInv, Bystanders
  <2>2. proc[q].step \in {"keys", "register"} => disk'.kind = disk.kind
    BY <1>2, <2>1 DEF InitInv
  <2> QED
    BY <1>2, <2>1, <2>2 DEF InitInv, Bystanders
<1>6. ASSUME NEW q \in Procs, proc'[q].cmd = "deinit"
      PROVE  DeinitInv(proc'[q], disk', groups')
  <2>1. DeinitInv(proc[q], disk, groups) /\ proc[q].cmd = "deinit"
    BY <1>4, <1>6 DEF GroupsInv, Bystanders
  <2> QED
    BY <1>2, <2>1 DEF DeinitInv, Bystanders
<1>7. GroupsAccounted'
  BY <1>2, <1>4 DEF GroupsInv, GroupsAccounted, InProgress, Bystanders, WC, None
<1> QED
  BY <1>2, <1>3, <1>4, <1>5, <1>6, <1>7 DEF GroupsInv, Bystanders

\* A step of an init or a deinit, as the rest of the system sees it.
CommandMove(p) ==
  \E c : /\ Local(p, c)
         /\ proc[p].cmd \in {"init", "deinit"} /\ c.cmd \in {"none", proc[p].cmd}
         /\ disk' \in Disk /\ file' \in Files /\ groups' \subseteq Groups
         /\ mess' \in {mess, TRUE}
         /\ ~mess' => ~mess /\ Knows(c, disk', groups')

LEMMA AbsentTyped == Absent \in Disk /\ ~Absent.keys /\ ~Absent.there
BY DEF Absent, Disk

LEMMA Rollbacks ==
  /\ Append(<<>>, "dir") = <<"dir">> /\ Append(<<"group">>, "dir") = <<"group", "dir">>
  /\ Front(<<"group">>) = <<>> /\ Front(<<"dir">>) = <<>>
  /\ Front(<<"group", "dir">>) = <<"group">>
  /\ Last(<<"group">>) = "group" /\ Last(<<"dir">>) = "dir" /\ Last(<<"group", "dir">>) = "dir"
  /\ <<>> \notin {<<"group">>, <<"dir">>, <<"group", "dir">>}
  /\ <<"group">> \notin {<<"dir">>, <<"group", "dir">>} /\ <<"dir">> # <<"group", "dir">>
<1> DEFINE R == Seq({"group", "dir"})
<1>a. <<>> \in R /\ <<"dir">> \in R /\ <<"group">> \in R /\ <<"group", "dir">> \in R
  OBVIOUS
<1>b. ASSUME NEW s \in R, NEW r \in R, Len(s) = Len(r), \A i \in 1 .. Len(s) : s[i] = r[i]
      PROVE  s = r
  BY <1>b, SeqEqual
<1>1. Append(<<>>, "dir") = <<"dir">> /\ Append(<<"group">>, "dir") = <<"group", "dir">>
  <2>1. Append(<<>>, "dir") = <<"dir">>
    OBVIOUS
  <2> DEFINE s == Append(<<"group">>, "dir")
  <2>2. s \in R /\ Len(s) = 2 /\ s[1] = "group" /\ s[2] = "dir"
    BY <1>a
  <2>3. \A i \in 1 .. 2 : i = 1 \/ i = 2
    OBVIOUS
  <2> HIDE DEF s
  <2>4. s = <<"group", "dir">>
    BY <1>a, <1>b, <2>2, <2>3
  <2> QED
    BY <2>1, <2>4 DEF s
<1>2. Front(<<"group">>) = <<>> /\ Front(<<"dir">>) = <<>>
  BY DEF Front
<1>3. Front(<<"group", "dir">>) = <<"group">>
  <2> DEFINE s == <<"group", "dir">>
  <2>1. s \in R /\ Len(s) = 2 /\ s[1] = "group"
    BY <1>a
  <2> HIDE DEF s
  <2>2. Front(s) = SubSeq(s, 1, 1)
    BY <2>1 DEF Front
  <2>3. SubSeq(s, 1, 1) \in R /\ Len(SubSeq(s, 1, 1)) = 1 /\ SubSeq(s, 1, 1)[1] = "group"
    BY <2>1
  <2> DEFINE f == SubSeq(s, 1, 1)
  <2>4. f \in R /\ Len(f) = 1 /\ f[1] = "group" /\ Len(<<"group">>) = 1 /\ <<"group">>[1] = "group"
    BY <2>3
  <2> HIDE DEF f
  <2>5. f = <<"group">>
    BY <1>a, <1>b, <2>4
  <2>6. Front(s) = <<"group">>
    BY <2>2, <2>5 DEF f
  <2> QED
    BY <2>6 DEF s
<1>4. Last(<<"group">>) = "group" /\ Last(<<"dir">>) = "dir" /\ Last(<<"group", "dir">>) = "dir"
  BY DEF Last
<1>5. /\ <<>> \notin {<<"group">>, <<"dir">>, <<"group", "dir">>}
      /\ <<"group">> \notin {<<"dir">>, <<"group", "dir">>} /\ <<"dir">> # <<"group", "dir">>
  OBVIOUS
<1> QED
  BY <1>1, <1>2, <1>3, <1>4, <1>5

\* An init or deinit that ends: no group is left to it.
LEMMA EndMoves ==
  ASSUME HostIInv, NEW p \in Procs, proc[p].cmd \in {"init", "deinit"}, End(p), UNCHANGED others,
         disk' \in Disk, file' \in Files, groups' \subseteq Groups, mess' \in {mess, TRUE},
         ~mess' => /\ ~disk'.there => disk' = Absent
                   /\ \A g \in groups' : Named(disk', g)
  PROVE  CommandMove(p)
<1>1. Legal(proc[p])
  BY Typed
<1>2. ~Waiting(proc[p]) /\ ~Serving(proc[p])
  BY <1>1, Tables DEF Legal, Waiting, Serving
<1>3. Local(p, Idle)
  BY <1>2, EndIsLocal
<1>4. Knows(Idle, disk', groups') <=> /\ ~disk'.there => disk' = Absent
                                     /\ \A g \in groups' : Named(disk', g)
  BY IdleLegal DEF Knows
<1>5. ~mess' => ~mess /\ Knows(Idle, disk', groups')
  BY <1>4
<1>6. Idle.cmd = "none"
  BY IdleLegal
<1> QED
  BY <1>3, <1>5, <1>6 DEF CommandMove

\* One that goes on with the next step.
LEMMA GoMoves ==
  ASSUME HostIInv, NEW p \in Procs, proc[p].cmd \in {"init", "deinit"}, UNCHANGED others,
         NEW c, Onto(p, c), c.cmd = proc[p].cmd, c.before = proc[p].before,
         c.step \in {"hub", "delete"} =>
           proc[p].step \in {"hub", "delete"} \/ sock \notin Procs,
         disk' \in Disk, file' \in Files, groups' \subseteq Groups, mess' \in {mess, TRUE},
         ~mess' => ~mess /\ Knows(c, disk', groups')
  PROVE  CommandMove(p)
<1>1. Legal(proc[p]) /\ Legal(c)
  BY Typed DEF Onto
<1>2. /\ ~Waiting(proc[p]) /\ ~Serving(proc[p]) /\ ~Waiting(c) /\ ~Serving(c)
  BY <1>1, Tables DEF Legal, Waiting, Serving
<1>3. Cleared(c) => Cleared(proc[p]) \/ sock \notin Procs
  BY <1>1, Tables DEF Cleared, Legal
<1>4. Local(p, c)
  BY <1>2, <1>3 DEF Local
<1> QED
  BY <1>4 DEF CommandMove

LEMMA MinInSet ==
  ASSUME NEW S, S \subseteq Nat, S # {}
  PROVE  Min(S) \in S
<1>1. PICK x \in S : \A y \in S : ~(<<y, x>> \in OpToRel(<, Nat))
  BY NatLessThanWellFounded, WFMin
<1>2. OpToRel(<, Nat) = {p \in Nat \X Nat : p[1] < p[2]}
  BY DEF OpToRel
<1>3. \A y \in S : ~(y < x)
  BY <1>1, <1>2
<1>4. \A y \in S : x <= y
  BY <1>3
<1> QED
  BY <1>4 DEF Min

LEMMA NewGroupFree ==
  ASSUME groups \subseteq Groups, groups # Groups
  PROVE  NewGroup \in Groups \ groups
<1>1. \A g \in Groups : g \in Nat
  BY HostShareBounds DEF Groups
<1>2. \E g \in Groups : g \notin groups
  OBVIOUS
<1> HIDE DEF Groups
<1>3. Groups \ groups \subseteq Nat /\ Groups \ groups # {}
  BY <1>1, <1>2
<1> QED
  BY <1>3, MinInSet DEF NewGroup

LEMMA InitGroupMoves ==
  ASSUME HostIInv, NEW p \in Procs,
         \/ up_exists(p) \/ add_connectivity_group(p) \/ explain_group_quota(p)
         \/ group_answer_lost(p)
  PROVE  CommandMove(p)
<1>1. /\ disk \in Disk /\ file \in Files /\ groups \subseteq Groups /\ mess \in BOOLEAN
      /\ proc \in [Procs -> Command] /\ Legal(proc[p])
  BY Typed
<1>2. proc[p].cmd = "init" /\ proc[p].step \in {"exists", "group"}
  BY DEF up_exists, add_connectivity_group, explain_group_quota, group_answer_lost, At
<1>3. ~mess => Knows(proc[p], disk, groups)
  BY <1>2, KnowsOne
<1>4. ~mess => \A g \in groups : Named(disk, g)
  BY <1>1, <1>2, <1>3 DEF Knows, InitInv, Groups
<1>5. CASE End(p)
  <2>1. CASE up_exists(p) \/ explain_group_quota(p)
    BY <1>1, <1>2, <1>3, <1>4, <1>5, <2>1, EndMoves DEF up_exists, explain_group_quota, Knows, local
  <2>2. CASE group_answer_lost(p)
    <3>1. mess' = TRUE /\ groups' \subseteq Groups
      BY <1>1, <2>2, NewGroupFree DEF group_answer_lost, Mess
    <3> QED
      BY <1>1, <1>2, <1>5, <2>2, <3>1, EndMoves DEF group_answer_lost, local
  <2>3. CASE add_connectivity_group(p)
    <3>1. proc'[p].step = "free" /\ proc'[p].step = "idle"
      BY <1>1, <1>5, <2>3, IdleLegal DEF add_connectivity_group, End, Command
    <3> QED
      BY <3>1
  <2> QED
    BY <2>1, <2>2, <2>3
<1>6. CASE up_exists(p) /\ ~End(p)
  <2>1. PICK s \in {"group", "free"} : Go(p, s) /\ (s = "free" <=> proc[p].kind # WC)
    BY <1>6 DEF up_exists
  <2>2. proc[p].step = "exists" /\ UNCHANGED <<disk, file, groups, mess>> /\ UNCHANGED others
    BY <1>6 DEF up_exists, At, local
  <2>3. PICK c : /\ Onto(p, c) /\ c.step = s /\ c.cmd = "init" /\ c.kind = proc[p].kind
                 /\ c.group = proc[p].group /\ c.undo = proc[p].undo /\ c.before = proc[p].before
    BY <1>2, <2>1, GoOnto, Tables
  <2>4. ~mess => Knows(c, disk, groups)
    BY <1>2, <1>3, <2>1, <2>2, <2>3, Tables DEF Knows, InitInv, Pushed
  <2> QED
    BY <1>1, <1>2, <2>1, <2>2, <2>3, <2>4, GoMoves
<1>7. CASE add_connectivity_group(p)
  <2> DEFINE c == [proc[p] EXCEPT !.step = "free", !.group = NewGroup, !.undo = <<"group">>]
  <2>1. NewGroup \in Groups \ groups
    BY <1>1, <1>7, NewGroupFree DEF add_connectivity_group
  <2>2. "free" \in Steps /\ "free" \in StepsOf["init"]
    BY Tables, StepLegal
  <2>s. <<"group">> \in Seq({"group", "dir"})
    OBVIOUS
  <2>3. /\ c \in Command /\ c.step = "free" /\ c.cmd = "init" /\ c.kind = proc[p].kind
        /\ c.group = NewGroup /\ c.undo = <<"group">> /\ c.before = proc[p].before
    BY <1>1, <1>2, <2>1, <2>2, <2>s DEF Command, Legal
  <2>4. proc' = [proc EXCEPT ![p] = c]
    BY <1>1, <1>7 DEF add_connectivity_group, Command
  <2> HIDE DEF c
  <2>5. Onto(p, c)
    BY <2>2, <2>3, <2>4 DEF Onto, Legal
  <2>6. /\ groups' = groups \cup {NewGroup} /\ UNCHANGED <<disk, file, mess>> /\ UNCHANGED others
        /\ proc[p].step = "group"
    BY <1>7 DEF add_connectivity_group, local, At
  <2>7. ~mess => Knows(c, disk', groups')
    BY <1>2, <1>3, <1>4, <2>1, <2>3, <2>6 DEF Knows, InitInv, Pushed
  <2> QED
    BY <1>1, <1>2, <2>1, <2>3, <2>5, <2>6, <2>7, GoMoves
<1> QED
  BY <1>5, <1>6, <1>7 DEF explain_group_quota, group_answer_lost

\* What every step of an init or a deinit starts from.
LEMMA MoveFrom ==
  ASSUME HostIInv, NEW p \in Procs, proc[p].cmd \in {"init", "deinit"}
  PROVE  /\ disk \in Disk /\ file \in Files /\ groups \subseteq Groups /\ mess \in BOOLEAN
         /\ proc \in [Procs -> Command] /\ Legal(proc[p]) /\ proc[p] \in Command
         /\ ~mess => Knows(proc[p], disk, groups)
BY Typed, KnowsOne DEF Legal

LEMMA FilesZero == 0 \in Files
BY HostShareBounds DEF Files, Broken

LEMMA CreateMoves ==
  ASSUME HostIInv, NEW p \in Procs, create(p)
  PROVE  CommandMove(p)
<1> DEFINE s == proc[p].step
           u == IF s = "kind" THEN Append(proc[p].undo, "dir") ELSE proc[p].undo
           c == [proc[p] EXCEPT !.step = CreateSteps[s], !.undo = u]
<1>1. proc[p].cmd = "init" /\ s \in {"free", "dir", "toml", "db", "kind"} /\ ~Obstructed(s)
  BY Tables DEF create
<1>2. /\ disk \in Disk /\ file \in Files /\ groups \subseteq Groups /\ mess \in BOOLEAN
      /\ proc \in [Procs -> Command] /\ Legal(proc[p]) /\ proc[p] \in Command
      /\ ~mess => Knows(proc[p], disk, groups)
  BY <1>1, MoveFrom
<1>3. /\ CreateSteps[s] \in StepsOf["init"] /\ CreateSteps[s] \in Steps
      /\ CreateSteps[s] \notin {"exists", "group", "register", "undo", "hub", "delete", "free"}
      /\ (s = "free" => CreateSteps[s] = "dir") /\ (CreateSteps[s] = "dir" => s = "free")
      /\ (s = "kind" <=> CreateSteps[s] = "keys")
      /\ s # "kind" => CreateSteps[s] \in DOMAIN CreateSteps
  <2>1. /\ CreateSteps["free"] = "dir" /\ CreateSteps["dir"] = "toml" /\ CreateSteps["toml"] = "db"
        /\ CreateSteps["db"] = "kind" /\ CreateSteps["kind"] = "keys"
    BY DEF CreateSteps
  <2>2. CreateSteps[s] \in {"dir", "toml", "db", "kind", "keys"}
    BY <1>1, <2>1
  <2>3. CreateSteps[s] \in StepsOf["init"]
    BY <2>2, Tables
  <2>4. CreateSteps[s] \in Steps
    BY <2>3, Tables, StepLegal
  <2> QED
    BY <1>1, <2>1, <2>2, <2>3, <2>4, Tables
<1>4. u \in Seq({"group", "dir"}) /\ (s # "kind" => u = proc[p].undo)
      /\ (s = "kind" => u = Append(proc[p].undo, "dir"))
  <2>1. proc[p].undo \in Seq({"group", "dir"})
    BY <1>2 DEF Command
  <2> QED
    BY <2>1
<1>5. proc' = [proc EXCEPT ![p] = c]
  BY <1>2 DEF create, Command
<1> HIDE DEF u
<1>6. /\ c \in Command /\ c.step = CreateSteps[s] /\ c.cmd = "init" /\ c.kind = proc[p].kind
      /\ c.group = proc[p].group /\ c.undo = u /\ c.before = proc[p].before
  BY <1>1, <1>2, <1>3, <1>4 DEF Command
<1> HIDE DEF c
<1>7. Onto(p, c)
  BY <1>3, <1>5, <1>6 DEF Onto, Legal
<1>8. /\ disk' \in Disk /\ disk'.keys = disk.keys /\ disk'.group = disk.group
      /\ disk'.there = (disk.there \/ s = "dir") /\ (s = "free" => disk' = disk /\ ~disk.there)
      /\ (s # "kind" => disk'.kind = disk.kind) /\ (s = "kind" => disk'.kind = proc[p].kind)
  <2>1. disk' = Created(s, proc[p].kind) /\ proc[p].kind \in Transports \cup {None, WC}
    BY <1>2 DEF create, Command
  <2>2. CASE s = "free"
    <3>1. disk' = disk /\ ~disk.there
      BY <1>1, <2>1, <2>2 DEF Created, Obstructed
    <3>2. disk.there \in BOOLEAN
      BY <1>2 DEF Disk
    <3> QED
      BY <1>2, <2>2, <3>1, <3>2
  <2>3. CASE s = "dir"
    <3>1. disk' = [disk EXCEPT !.there = TRUE]
      BY <2>1, <2>3 DEF Created
    <3> QED
      BY <1>2, <2>3, <3>1 DEF Disk
  <2>4. CASE s = "toml"
    <3>1. disk' = [disk EXCEPT !.toml = TRUE] /\ disk.there
      BY <1>1, <2>1, <2>4 DEF Created, Obstructed
    <3> QED
      BY <1>2, <2>4, <3>1 DEF Disk
  <2>5. CASE s = "db"
    <3>1. disk' = [disk EXCEPT !.db = TRUE] /\ disk.there
      BY <1>1, <2>1, <2>5 DEF Created, Obstructed
    <3> QED
      BY <1>2, <2>5, <3>1 DEF Disk
  <2>6. CASE s = "kind"
    <3>1. disk' = [disk EXCEPT !.kind = proc[p].kind]
      BY <2>1, <2>6 DEF Created
    <3> QED
      BY <1>2, <2>1, <2>6, <3>1 DEF Disk
  <2> QED
    BY <1>1, <2>2, <2>3, <2>4, <2>5, <2>6
<1>9. groups' = groups /\ mess' = mess /\ UNCHANGED others /\ file' \in Files
  BY <1>2, FilesZero DEF create
<1>10. ASSUME ~mess
       PROVE  Knows(c, disk', groups')
  <2>1. Knows(proc[p], disk, groups)
    BY <1>2, <1>10
  <2>2. (~disk'.keys /\ disk'.there) \/ (s = "free" /\ disk' = Absent)
    BY <1>1, <1>8, <2>1 DEF Knows, InitInv
  <2>3. s = "free" => disk' = Absent /\ ~disk'.keys
    BY <1>8, <2>1, AbsentTyped DEF Knows
  <2>4. InitInv(c, disk', groups')
    <3>1. InitInv(proc[p], disk, groups)
      BY <1>1, <2>1 DEF Knows
    <3>2. s # "kind" => c.undo = Pushed(c.kind)
      BY <1>1, <1>4, <1>6, <3>1, Tables DEF InitInv
    <3>3. s = "kind" => c.undo = Append(Pushed(c.kind), "dir")
      BY <1>1, <1>4, <1>6, <3>1, Tables DEF InitInv
    <3>4. c.kind # None /\ (c.kind # WC => c.group = 0)
      BY <1>6, <3>1 DEF InitInv
    <3> QED
      BY <1>1, <1>3, <1>6, <1>8, <2>2, <2>3, <3>2, <3>3, <3>4, Tables DEF InitInv
  <2>5. \A g \in groups' : c.group = g
    <3>1. ASSUME NEW g \in groups
          PROVE  ~Named(disk, g)
      BY <1>1, <1>8, <2>1, AbsentTyped DEF Knows, InitInv, Named
    <3> QED
      BY <1>6, <1>9, <2>1, <3>1 DEF Knows
  <2> QED
    BY <1>6, <2>2, <2>4, <2>5 DEF Knows
<1>11. c.step \notin {"hub", "delete"}
  BY <1>3, <1>6
<1> QED
  BY <1>1, <1>2, <1>6, <1>7, <1>8, <1>9, <1>10, <1>11, GoMoves

\* An init that fails and has nothing but its Rollback left to do.
LEMMA FailedMoves ==
  ASSUME HostIInv, NEW p \in Procs,
         \/ create_refused(p) \/ create_failed(p) \/ init_failed(p)
  PROVE  CommandMove(p)
<1>1. /\ proc[p].cmd = "init" /\ proc[p].step \in {"free", "dir", "toml", "db", "kind", "keys", "register"}
      /\ Go(p, "undo") /\ UNCHANGED <<disk, file, groups, mess>> /\ UNCHANGED others
  BY Tables DEF create_refused, create_failed, init_failed, local
<1>2. /\ disk \in Disk /\ file \in Files /\ groups \subseteq Groups /\ mess \in BOOLEAN
      /\ ~mess => Knows(proc[p], disk, groups)
  BY <1>1, MoveFrom
<1>3. PICK c : /\ Onto(p, c) /\ c.step = "undo" /\ c.cmd = "init" /\ c.kind = proc[p].kind
               /\ c.group = proc[p].group /\ c.undo = proc[p].undo /\ c.before = proc[p].before
  BY <1>1, GoOnto, Tables
<1>4. ASSUME ~mess
      PROVE  Knows(c, disk, groups)
  <2>1. InitInv(proc[p], disk, groups) /\ Knows(proc[p], disk, groups)
    BY <1>1, <1>2, <1>4 DEF Knows
  <2>2. c.undo \in {<<>>, <<"group">>, <<"dir">>, <<"group", "dir">>}
    BY <1>1, <1>3, <2>1, Rollbacks, Tables DEF InitInv, Pushed
  <2>3. c.group \in groups => c.undo \in {<<"group">>, <<"group", "dir">>}
    <3>1. c.group \in groups => c.kind = WC
      BY <1>2, <1>3, <2>1 DEF InitInv, Groups
    <3> QED
      BY <1>1, <1>3, <2>1, <3>1, Rollbacks, Tables DEF InitInv, Pushed
  <2>4. c.undo \in {<<"dir">>, <<"group", "dir">>} /\ disk.keys => disk.group = c.group
    <3>1. c.undo \in {<<"dir">>, <<"group", "dir">>} => proc[p].step \in {"keys", "register"}
      BY <1>1, <1>3, <2>1, Rollbacks, Tables DEF InitInv, Pushed
    <3> QED
      BY <1>3, <2>1, <3>1 DEF InitInv
  <2>5. c.kind # None /\ (c.kind # WC => c.group = 0)
    BY <1>3, <2>1 DEF InitInv
  <2>6. InitInv(c, disk, groups)
    BY <1>3, <2>2, <2>3, <2>4, <2>5, Tables DEF InitInv
  <2> QED
    BY <1>1, <1>3, <2>1, <2>6 DEF Knows
<1> QED
  BY <1>1, <1>2, <1>3, <1>4, GoMoves

\* The keys and the registration: the share names the group from here on.
LEMMA KeysMoves ==
  ASSUME HostIInv, NEW p \in Procs, set_keys(p) \/ register(p)
  PROVE  CommandMove(p)
<1>1. /\ proc[p].cmd = "init" /\ proc[p].step \in {"keys", "register"}
      /\ UNCHANGED <<groups, mess, file>> /\ UNCHANGED others
  BY DEF set_keys, register, At
<1>2. /\ disk \in Disk /\ file \in Files /\ groups \subseteq Groups /\ mess \in BOOLEAN
      /\ proc[p] \in Command
      /\ ~mess => Knows(proc[p], disk, groups)
  BY <1>1, MoveFrom
<1>3. /\ disk' \in Disk /\ disk'.there = disk.there /\ disk'.kind = disk.kind
      /\ set_keys(p) => disk'.keys /\ disk'.group = proc[p].group
      /\ register(p) => disk'.keys = disk.keys /\ disk'.group = disk.group
  <2>1. proc[p].group \in Groups \cup {0}
    BY <1>2 DEF Command
  <2>2. CASE set_keys(p)
    <3>1. disk' = [disk EXCEPT !.keys = TRUE, !.group = proc[p].group] /\ proc[p].step = "keys"
      BY <2>2 DEF set_keys, At
    <3>2. ~register(p)
      BY <3>1 DEF register, At
    <3> QED
      BY <1>2, <2>1, <3>1, <3>2 DEF Disk
  <2>3. CASE register(p)
    <3>1. disk' = [disk EXCEPT !.registered = TRUE] /\ proc[p].step = "register"
      BY <2>3 DEF register, At
    <3>2. ~set_keys(p)
      BY <3>1 DEF set_keys, At
    <3> QED
      BY <1>2, <3>1, <3>2 DEF Disk
  <2> QED
    BY <2>2, <2>3
<1>4. ASSUME ~mess
      PROVE  /\ disk'.keys /\ disk'.group = proc[p].group /\ disk'.kind = proc[p].kind
             /\ disk'.there /\ InitInv(proc[p], disk, groups)
             /\ \A g \in groups : Named(disk', g)
  <2>1. Knows(proc[p], disk, groups) /\ InitInv(proc[p], disk, groups)
    BY <1>1, <1>2, <1>4 DEF Knows
  <2>2. disk'.there /\ disk'.kind = proc[p].kind
    BY <1>1, <1>3, <2>1 DEF InitInv
  <2>3. disk'.keys /\ disk'.group = proc[p].group
    BY <1>3, <2>1 DEF InitInv, register, At
  <2>4. ASSUME NEW g \in groups
        PROVE  Named(disk', g)
    <3>1. g # 0
      BY <1>2 DEF Groups
    <3>2. g = proc[p].group
      BY <2>1, <2>3, <1>3 DEF Knows, Named, InitInv, set_keys, register, At
    <3> QED
      BY <2>1, <2>2, <2>3, <3>1, <3>2 DEF Named, InitInv
  <2> QED
    BY <2>1, <2>2, <2>3, <2>4
<1>5. CASE End(p)
  BY <1>1, <1>2, <1>3, <1>4, <1>5, EndMoves
<1>6. CASE ~End(p)
  <2>1. Go(p, "register") /\ proc[p].step = "keys" /\ proc[p].kind = WC
    BY <1>6 DEF set_keys, register, At
  <2>2. PICK c : /\ Onto(p, c) /\ c.step = "register" /\ c.cmd = "init" /\ c.kind = proc[p].kind
                 /\ c.group = proc[p].group /\ c.undo = proc[p].undo /\ c.before = proc[p].before
    BY <1>1, <2>1, GoOnto, Tables
  <2>3. ~mess => InitInv(c, disk', groups)
    BY <1>1, <1>4, <2>1, <2>2, Tables DEF InitInv
  <2>4. ~mess => Knows(c, disk', groups)
    BY <1>4, <2>2, <2>3 DEF Knows
  <2> QED
    BY <1>1, <1>2, <1>3, <2>2, <2>4, GoMoves
<1> QED
  BY <1>5, <1>6

\* Rollback::run takes one step after the other off its stack.
LEMMA UndoMoves ==
  ASSUME HostIInv, NEW p \in Procs, undo(p) \/ undo_failed(p)
  PROVE  CommandMove(p)
<1> DEFINE c == [proc[p] EXCEPT !.undo = Front(@)]
<1>1. /\ proc[p].cmd = "init" /\ proc[p].step = "undo" /\ proc[p].undo # <<>>
      /\ Popped(p) /\ UNCHANGED others
  BY DEF undo, undo_failed, At
<1>2. /\ disk \in Disk /\ file \in Files /\ groups \subseteq Groups /\ mess \in BOOLEAN
      /\ proc \in [Procs -> Command] /\ Legal(proc[p]) /\ proc[p] \in Command
      /\ ~mess => Knows(proc[p], disk, groups)
  BY <1>1, MoveFrom
<1>3. proc[p].undo \in Seq({"group", "dir"}) /\ Front(proc[p].undo) \in Seq({"group", "dir"})
  <2>1. proc[p].undo \in Seq({"group", "dir"})
    BY <1>2 DEF Command
  <2> DEFINE u == proc[p].undo
  <2>2. u \in Seq({"group", "dir"}) /\ u # <<>>
    BY <1>1, <2>1
  <2> HIDE DEF u
  <2>3. Front(u) \in Seq({"group", "dir"})
    <3>1. Len(u) \in Nat /\ Len(u) - 1 \in Nat
      BY <2>2
    <3> QED
      BY <2>2, <3>1, SubSeqProperties DEF Front
  <2> QED
    BY <2>1, <2>3 DEF u
<1>4. /\ c \in Command /\ c.step = "undo" /\ c.cmd = "init" /\ c.kind = proc[p].kind
      /\ c.group = proc[p].group /\ c.undo = Front(proc[p].undo) /\ c.before = proc[p].before
  BY <1>1, <1>2, <1>3 DEF Command
<1>5. proc' = [proc EXCEPT ![p] = c]
  BY <1>1, <1>2 DEF Popped, Command
<1> HIDE DEF c
<1>6. Onto(p, c)
  BY <1>4, <1>5, Tables DEF Onto, Legal
<1>7. CASE undo_failed(p)
  <2>1. mess' = TRUE /\ UNCHANGED <<disk, file, groups>>
    BY <1>7 DEF undo_failed, Mess, local
  <2> QED
    BY <1>1, <1>2, <1>4, <1>6, <2>1, GoMoves
<1>8. CASE undo(p)
  <2>1. /\ disk' = IF Last(proc[p].undo) = "dir" THEN Absent ELSE disk
        /\ file' = IF Last(proc[p].undo) = "dir" THEN 0 ELSE file
        /\ groups' = IF Last(proc[p].undo) = "group" THEN groups \ {proc[p].group} ELSE groups
        /\ mess' = mess
    BY <1>8 DEF undo
  <2>2. disk' \in Disk /\ file' \in Files /\ groups' \subseteq Groups
    BY <1>2, <2>1, AbsentTyped, FilesZero
  <2>3. ASSUME ~mess
        PROVE  Knows(c, disk', groups')
    <3>1. Knows(proc[p], disk, groups) /\ InitInv(proc[p], disk, groups)
      BY <1>1, <1>2, <2>3 DEF Knows
    <3>2. proc[p].undo \in {<<"group">>, <<"dir">>, <<"group", "dir">>}
      BY <1>1, <3>1 DEF InitInv
    <3>3. c.kind # None /\ (c.kind # WC => c.group = 0)
      BY <1>4, <3>1 DEF InitInv
    <3>4. c.group \in groups => proc[p].undo \in {<<"group">>, <<"group", "dir">>}
      BY <1>1, <1>4, <3>1 DEF InitInv
    <3>5. CASE proc[p].undo = <<"group">>
      <4>1. disk' = disk /\ groups' = groups \ {c.group} /\ c.undo = <<>>
        BY <1>4, <2>1, <3>5, Rollbacks
      <4>2. InitInv(c, disk', groups')
        BY <1>4, <3>3, <4>1, Rollbacks, Tables DEF InitInv
      <4> QED
        BY <1>4, <3>1, <4>1, <4>2 DEF Knows
    <3>6. CASE proc[p].undo \in {<<"dir">>, <<"group", "dir">>}
      <4>1. disk' = Absent /\ groups' = groups /\ c.undo \in {<<>>, <<"group">>}
            /\ (c.undo = <<"group">> <=> proc[p].undo = <<"group", "dir">>)
        BY <1>4, <2>1, <3>6, Rollbacks
      <4>2. InitInv(c, disk', groups')
        BY <1>4, <3>3, <3>4, <3>6, <4>1, AbsentTyped, Rollbacks, Tables DEF InitInv
      <4>3. \A g \in groups : g = c.group
        BY <1>1, <1>4, <3>1, <3>6 DEF Knows, InitInv, Named
      <4> QED
        BY <1>4, <4>1, <4>2, <4>3 DEF Knows
    <3> QED
      BY <3>2, <3>5, <3>6
  <2> QED
    BY <1>1, <1>2, <1>4, <1>6, <2>1, <2>2, <2>3, GoMoves
<1> QED
  BY <1>7, <1>8

\* Commands that end where they are.
LEMMA GivenUpMoves ==
  ASSUME HostIInv, NEW p \in Procs, undone(p) \/ killed(p)
  PROVE  CommandMove(p)
<1>1. /\ proc[p].cmd \in {"init", "deinit"} /\ End(p) /\ UNCHANGED others
      /\ UNCHANGED <<disk, file, groups>> /\ mess' \in {mess, TRUE}
  BY DEF undone, killed, At, local, Mess
<1>2. /\ disk \in Disk /\ file \in Files /\ groups \subseteq Groups /\ mess \in BOOLEAN
      /\ ~mess => Knows(proc[p], disk, groups)
  BY <1>1, MoveFrom
<1>3. ASSUME ~mess'
      PROVE  /\ ~disk'.there => disk' = Absent
             /\ \A g \in groups' : Named(disk', g)
  <2>1. undone(p) /\ ~mess
    BY <1>3 DEF killed, undone, Mess
  <2>2. Knows(proc[p], disk, groups) /\ proc[p].cmd = "init" /\ proc[p].step = "undo" /\ proc[p].undo = <<>>
    BY <1>2, <2>1 DEF undone, At
  <2>3. proc[p].group \notin groups
    BY <2>2, Rollbacks DEF Knows, InitInv
  <2> QED
    BY <1>1, <2>2, <2>3 DEF Knows
<1> QED
  BY <1>1, <1>2, <1>3, EndMoves

LEMMA DeinitMoves ==
  ASSUME HostIInv, NEW p \in Procs,
         down_open(p) \/ down_probe(p) \/ remove_connectivity_group(p)
  PROVE  CommandMove(p)
<1>1. proc[p].cmd = "deinit" /\ UNCHANGED <<file, mess>> /\ UNCHANGED others
  BY DEF down_open, down_probe, remove_connectivity_group, At, local
<1>2. /\ disk \in Disk /\ file \in Files /\ groups \subseteq Groups /\ mess \in BOOLEAN
      /\ proc \in [Procs -> Command] /\ Legal(proc[p]) /\ proc[p] \in Command
      /\ ~mess => Knows(proc[p], disk, groups)
  BY <1>1, MoveFrom
<1>3. ~mess => (~disk.there => disk = Absent) /\ \A g \in groups : Named(disk, g)
  BY <1>1, <1>2 DEF Knows
<1>4. CASE down_open(p)
  <2>1. /\ groups' = groups /\ disk' = IF open_state THEN record_legacy_transport ELSE disk
        /\ IF open_state THEN Go(p, "probe") ELSE End(p)
    BY <1>4 DEF down_open
  <2>2. CASE ~open_state
    BY <1>1, <1>2, <1>3, <2>1, <2>2, EndMoves
  <2>3. CASE open_state
    <3>1. /\ disk' \in Disk /\ disk'.there = disk.there /\ disk'.keys = disk.keys
          /\ disk'.group = disk.group /\ (disk.kind # None => disk'.kind = disk.kind)
          /\ disk'.kind # None
      BY <1>2, <2>1, <2>3 DEF record_legacy_transport, Disk, WC, None
    <3>2. ~mess => disk.there
      BY <1>3, <2>3 DEF open_state, Absent
    <3>3. ~mess => \A g \in groups : Named(disk', g)
      BY <1>3, <3>1 DEF Named, WC, None
    <3>4. PICK c : /\ Onto(p, c) /\ c.step = "probe" /\ c.cmd = "deinit" /\ c.before = proc[p].before
      BY <1>1, <2>1, <2>3, GoOnto, Tables
    <3>5. ~mess => Knows(c, disk', groups')
      BY <2>1, <3>1, <3>2, <3>3, <3>4 DEF Knows, DeinitInv
    <3> QED
      BY <1>1, <1>2, <2>1, <3>1, <3>4, <3>5, GoMoves
  <2> QED
    BY <2>2, <2>3
<1>5. CASE down_probe(p)
  <2>1. UNCHANGED <<disk, groups>> /\ proc[p].step = "probe"
    BY <1>5 DEF down_probe, local, At
  <2>2. CASE connect
    <3>1. End(p)
      BY <1>5, <2>2 DEF down_probe
    <3> QED
      BY <1>1, <1>2, <1>3, <2>1, <3>1, EndMoves
  <2>3. CASE ~connect
    <3> DEFINE s == IF disk.kind = WC /\ disk.keys THEN "hub" ELSE "delete"
               c == [proc[p] EXCEPT !.step = s, !.group = disk.group]
    <3>1. /\ s \in {"hub", "delete"} /\ s \in StepsOf["deinit"] /\ s \in Steps
          /\ disk.group \in Groups \cup {0}
      <4>1. s \in {"hub", "delete"} /\ s \in StepsOf["deinit"]
        BY Tables
      <4> QED
        BY <1>2, <4>1, StepLegal, Tables DEF Disk
    <3>2. s = "delete" => ~(disk.kind = WC /\ disk.keys)
      OBVIOUS
    <3>3. proc' = [proc EXCEPT ![p] = c]
      BY <1>2, <1>5, <2>3 DEF down_probe, Command
    <3> HIDE DEF s
    <3>4. /\ c \in Command /\ c.step = s /\ c.cmd = "deinit" /\ c.group = disk.group
          /\ c.before = proc[p].before
      BY <1>1, <1>2, <3>1 DEF Command
    <3> HIDE DEF c
    <3>5. Onto(p, c)
      BY <3>1, <3>3, <3>4 DEF Onto, Legal
    <3>6. ~mess => Knows(c, disk', groups')
      BY <1>1, <1>2, <1>3, <2>1, <3>1, <3>2, <3>4 DEF Knows, DeinitInv
    <3>7. sock \notin Procs
      BY <2>3 DEF connect
    <3> QED
      BY <1>1, <1>2, <2>1, <3>4, <3>5, <3>6, <3>7, GoMoves
  <2> QED
    BY <2>2, <2>3
<1>6. CASE remove_connectivity_group(p)
  <2>1. /\ disk' = disk /\ groups' = groups \ {proc[p].group} /\ proc[p].step = "hub"
        /\ IF proc[p].group \in groups THEN Go(p, "delete") ELSE End(p)
    BY <1>6 DEF remove_connectivity_group, local, At
  <2>2. ~mess => \A g \in groups' : Named(disk, g)
    BY <1>3, <2>1
  <2>3. CASE proc[p].group \notin groups
    BY <1>1, <1>2, <1>3, <2>1, <2>2, <2>3, EndMoves
  <2>4. CASE proc[p].group \in groups
    <3>1. PICK c : /\ Onto(p, c) /\ c.step = "delete" /\ c.cmd = "deinit" /\ c.before = proc[p].before
      BY <1>1, <2>1, <2>4, GoOnto, Tables
    <3>2. ~mess => Knows(c, disk', groups')
      BY <1>1, <1>2, <1>3, <2>1, <2>2, <3>1 DEF Knows, DeinitInv
    <3> QED
      BY <1>1, <1>2, <2>1, <3>1, <3>2, GoMoves
  <2> QED
    BY <2>3, <2>4
<1> QED
  BY <1>4, <1>5, <1>6

LEMMA DeletedMoves ==
  ASSUME HostIInv, NEW p \in Procs,
         remove_group_failed(p) \/ delete(p) \/ delete_failed(p)
  PROVE  CommandMove(p)
<1>1. proc[p].cmd = "deinit" /\ End(p) /\ UNCHANGED others /\ mess' \in {mess, TRUE}
  BY DEF remove_group_failed, delete, delete_failed, At, Mess
<1>2. /\ disk \in Disk /\ file \in Files /\ groups \subseteq Groups /\ mess \in BOOLEAN
      /\ ~mess => Knows(proc[p], disk, groups)
  BY <1>1, MoveFrom
<1>3. CASE remove_group_failed(p)
  <2>1. mess' = TRUE /\ UNCHANGED <<disk, file>> /\ groups' \subseteq groups
    BY <1>3 DEF remove_group_failed, Mess, local
  <2> QED
    BY <1>1, <1>2, <2>1, EndMoves
<1>4. ASSUME proc[p].step = "delete", ~mess
      PROVE  groups = {} /\ (~disk.there => disk = Absent)
  BY <1>1, <1>2, <1>4 DEF Knows, DeinitInv, Named
<1>5. CASE delete(p)
  <2>1. disk' = Absent /\ file' = 0 /\ proc[p].step = "delete" /\ UNCHANGED <<groups, mess>>
    BY <1>5 DEF delete, At
  <2> QED
    BY <1>1, <1>2, <1>4, <2>1, EndMoves, AbsentTyped, FilesZero
<1>6. CASE delete_failed(p)
  <2>1. PICK keep \in SUBSET {"toml", "db"} :
          disk' = [(IF "db" \in keep THEN disk ELSE [Absent EXCEPT !.there = disk.there])
                      EXCEPT !.toml = disk.toml /\ "toml" \in keep]
    BY <1>6 DEF delete_failed
  <2>2. proc[p].step = "delete" /\ UNCHANGED <<groups, mess>> /\ file' = IF disk'.toml THEN file ELSE 0
    BY <1>6 DEF delete_failed, At
  <2> DEFINE old == IF "db" \in keep THEN disk ELSE [Absent EXCEPT !.there = disk.there]
  <2>3. old \in Disk /\ old.there = disk.there
    <3>1. [Absent EXCEPT !.there = disk.there] \in Disk /\ [Absent EXCEPT !.there = disk.there].there = disk.there
      BY <1>2, AbsentTyped DEF Disk
    <3> QED
      BY <1>2, <3>1
  <2>4. disk = Absent => old = Absent
    BY DEF Absent
  <2> HIDE DEF old
  <2>5. disk' = [old EXCEPT !.toml = disk.toml /\ "toml" \in keep]
    BY <2>1 DEF old
  <2>6. disk' \in Disk /\ disk'.there = disk.there
    <3>1. (disk.toml /\ "toml" \in keep) \in BOOLEAN
      OBVIOUS
    <3> QED
      BY <2>3, <2>5, <3>1 DEF Disk
  <2>7. disk = Absent => disk' = Absent
    <3>1. Absent.toml = FALSE
      BY DEF Absent
    <3>2. disk = Absent => disk' = [Absent EXCEPT !.toml = FALSE]
      BY <2>4, <2>5, <3>1
    <3> QED
      BY <3>2 DEF Absent
  <2> QED
    BY <1>1, <1>2, <1>4, <2>2, <2>6, <2>7, EndMoves, FilesZero
<1> QED
  BY <1>3, <1>5, <1>6

-----------------------------------------------------------------------------
(* Types, and the steps of one process *)

LEMMA TypedRest ==
  ASSUME HostIInv
  PROVE  /\ sub \in [on : Procs \cup {None}, events : 0 .. EventCap, seen : 0 .. MaxVersion]
         /\ deaf \subseteq Procs /\ lost \subseteq Procs /\ faults \in 0 .. MaxFaults
BY DEF HostIInv, HostShareTypeOK

LEMMA DownTyped == Down \in IpcServer /\ Down.queue = <<>> /\ Down.step = "idle"
<1>1. <<>> \in Seq(Procs) /\ 0 \in 0 .. MaxVersion
  BY HostShareBounds
<1> QED
  BY <1>1 DEF Down, IpcServer

LEMMA OntoTyped ==
  ASSUME HostIInv, NEW p \in Procs, NEW c, Onto(p, c)
  PROVE  /\ proc' \in [Procs -> Command] /\ (\A q \in Procs : Legal(proc'[q]))
         /\ proc'[p] = c /\ (\A q \in Procs \ {p} : proc'[q] = proc[q])
<1>1. proc \in [Procs -> Command] /\ (\A q \in Procs : Legal(proc[q])) /\ c \in Command
  BY Typed DEF Onto, Legal
<1>2. proc' \in [Procs -> Command] /\ proc'[p] = c /\ \A q \in Procs \ {p} : proc'[q] = proc[q]
  BY <1>1 DEF Onto
<1> QED
  BY <1>1, <1>2 DEF Onto

LEMMA FaultTyped ==
  ASSUME HostIInv, faults' = faults \/ Fault
  PROVE  faults' \in 0 .. MaxFaults
BY TypedRest, HostShareBounds DEF Fault

LEMMA CommandMovePreserves ==
  ASSUME HostIInv, NEW p \in Procs, CommandMove(p), faults' = faults \/ Fault
  PROVE  HostIInv'
<1>1. PICK c : /\ Local(p, c)
               /\ proc[p].cmd \in {"init", "deinit"} /\ c.cmd \in {"none", proc[p].cmd}
               /\ disk' \in Disk /\ file' \in Files /\ groups' \subseteq Groups
               /\ mess' \in {mess, TRUE}
               /\ ~mess' => ~mess /\ Knows(c, disk', groups')
  BY DEF CommandMove
<1>2. Onto(p, c) /\ UNCHANGED <<sock, ipc, sub, deaf, lost>>
  BY <1>1 DEF Local, others
<1>3. ReachInv'
  BY <1>1, LocalKeepsReach
<1>4. GroupsInv'
  BY <1>1, <1>2, OneKnows
<1>5. HostShareTypeOK'
  BY <1>1, <1>2, OntoTyped, Typed, TypedRest, FaultTyped DEF HostShareTypeOK, Legal
<1> QED
  BY <1>3, <1>4, <1>5 DEF HostIInv, ReachInv

\* A step of a command that is no init and no deinit.
LEMMA OntoBystands ==
  ASSUME HostIInv, NEW p \in Procs, NEW c, Onto(p, c),
         proc[p].cmd \notin {"init", "deinit"}, c.cmd \notin {"init", "deinit"}
  PROVE  Bystanders
BY OntoTyped DEF Bystanders

LEMMA LocalStep ==
  ASSUME HostIInv, NEW p \in Procs, NEW c, Local(p, c),
         proc[p].cmd \notin {"init", "deinit"}, c.cmd \notin {"init", "deinit"},
         UNCHANGED <<groups, mess, faults>>, file' \in Files,
         disk' = disk \/ (open_state /\ disk' = record_legacy_transport)
  PROVE  HostIInv'
<1>1. Onto(p, c) /\ UNCHANGED <<sock, ipc, sub, deaf, lost>>
  BY DEF Local, others
<1>2. ReachInv'
  BY LocalKeepsReach
<1>3. GroupsInv' /\ disk' \in Disk
  BY <1>1, OntoBystands, BystandersKeepGroups
<1>4. HostShareTypeOK'
  BY <1>1, <1>3, OntoTyped, Typed, TypedRest DEF HostShareTypeOK, Legal
<1> QED
  BY <1>2, <1>3, <1>4 DEF HostIInv, ReachInv

-----------------------------------------------------------------------------
(* What a step that touches a socket keeps *)

\* Servers, if none starts, ends or loses its socket.
LEMMA ServersKept ==
  ASSUME HostIInv, UNCHANGED <<sock, deaf, lost>>,
         \A q \in Procs : /\ Serving(proc'[q]) <=> Serving(proc[q])
                          /\ proc'[q].before \subseteq proc[q].before
                          /\ Cleared(proc'[q]) => Cleared(proc[q])
  PROVE  ServersInv'
<1>1. Running' = Running /\ Unheard' = Unheard
  BY RunningServes DEF Running, Serving, Unheard
<1>2. ServersInv
  BY DEF HostIInv
<1> QED
  BY <1>1, <1>2 DEF ServersInv

\* Queues, if the same clients wait.
LEMMA QueuesKept ==
  ASSUME HostIInv,
         \A d \in Procs : /\ ipc'[d].queue = ipc[d].queue
                          /\ ipc'[d].step # "idle" => ipc'[d].queue # <<>>
                          /\ Waiting(proc[d]) => Waiting(proc'[d])
                          /\ Serving(proc[d]) => Serving(proc'[d])
  PROVE  QueuesInv'
<1>1. \A d \in Procs : ipc[d].queue \in Seq(Procs)
  BY Typed DEF IpcServer
<1>2. \A d \in Procs : \A i \in 1 .. Len(ipc[d].queue) :
        ipc[d].queue[i] \in Procs /\ Waiting(proc[ipc[d].queue[i]])
  BY <1>1 DEF HostIInv, QueuesInv
<1>3. QueuesInv
  BY DEF HostIInv
<1>4. \A d \in Procs : \A i \in 1 .. Len(ipc'[d].queue) : Waiting(proc'[ipc'[d].queue[i]])
  BY <1>2
<1>5. \A d, e \in Procs : \A i \in 1 .. Len(ipc'[d].queue), j \in 1 .. Len(ipc'[e].queue) :
        ipc'[d].queue[i] = ipc'[e].queue[j] => d = e /\ i = j
  BY <1>3 DEF QueuesInv
<1>6. \A d \in Procs : ipc'[d].queue # <<>> => Serving(proc'[d])
  BY <1>3 DEF QueuesInv
<1> QED
  BY <1>4, <1>5, <1>6 DEF QueuesInv

\* The guest's stream, if its daemon goes on as it was.
LEMMA StreamKept ==
  ASSUME HostIInv, sub' = sub,
         \A d \in Procs : At(d, "serve", "run") =>
           /\ proc'[d].cmd = proc[d].cmd /\ proc'[d].step = proc[d].step
           /\ \/ proc'[d].cfg = proc[d].cfg /\ (ipc'[d].step = "send" \/ ipc[d].step # "send")
              \/ ipc'[d].step = "send"
  PROVE  StreamInv'
BY DEF HostIInv, StreamInv, GuestsHearReloads, At

-----------------------------------------------------------------------------
(* Commands that do not touch a socket *)

LEMMA ServeSteps ==
  ASSUME HostIInv, NEW p \in Procs, serve_load(p) \/ serve_open(p) \/ bind(p) \/ ipc_check(p)
  PROVE  HostIInv'
<1>1. /\ proc[p].cmd = "serve" /\ proc[p].step \in {"load", "open", "bind", "ipc"}
      /\ UNCHANGED <<file, groups, mess, faults>> /\ UNCHANGED others
      /\ disk' = disk \/ (open_state /\ disk' = record_legacy_transport)
  BY DEF serve_load, serve_open, bind, ipc_check, At, local
<1>2. /\ proc \in [Procs -> Command] /\ proc[p] \in Command /\ file \in Files /\ disk \in Disk
      /\ ~Waiting(proc[p]) /\ ~Serving(proc[p])
  BY <1>1, Typed DEF Waiting, Serving
<1>3. CASE End(p)
  <2>1. Local(p, Idle)
    BY <1>1, <1>2, <1>3, EndIsLocal
  <2> QED
    BY <1>1, <1>2, <2>1, LocalStep, IdleLegal
<1>4. ASSUME NEW s \in {"ipc", "remove", "listen"}, Go(p, s), s # "ipc" => sock \notin Procs
      PROVE  HostIInv'
  <2>1. s \in StepsOf["serve"]
    BY Tables
  <2>2. PICK c : Onto(p, c) /\ c.step = s /\ c.cmd = "serve" /\ c.before = proc[p].before
    BY <1>1, <1>4, <2>1, GoOnto
  <2>3. Local(p, c)
    BY <1>1, <1>2, <1>4, <2>2 DEF Local, Waiting, Serving, Cleared
  <2> QED
    BY <1>1, <1>2, <2>2, <2>3, LocalStep
<1>5. CASE serve_load(p) /\ ~End(p)
  <2> DEFINE c == [proc[p] EXCEPT !.step = "open", !.cfg = file]
  <2>1. proc' = [proc EXCEPT ![p] = c] /\ file # Broken
    BY <1>2, <1>5 DEF serve_load, load_config, Command
  <2>2. file \in 0 .. MaxVersion
    BY <1>2, <2>1, HostShareBounds DEF Files, Broken
  <2>3. "open" \in StepsOf["serve"] /\ "open" \in Steps
    BY Tables, StepLegal
  <2>4. c \in Command /\ c.step = "open" /\ c.cmd = "serve" /\ c.before = proc[p].before
    BY <1>1, <1>2, <2>2, <2>3 DEF Command
  <2> HIDE DEF c
  <2>5. Local(p, c)
    BY <1>1, <1>2, <2>1, <2>3, <2>4 DEF Local, Onto, Legal, Waiting, Serving, Cleared
  <2> QED
    BY <1>1, <1>2, <2>4, <2>5, LocalStep
<1>6. CASE serve_open(p) /\ ~End(p)
  <2> DEFINE k == record_legacy_transport.kind
             c == [proc[p] EXCEPT !.step = "bind", !.kind = k]
  <2>1. proc' = [proc EXCEPT ![p] = c]
    BY <1>2, <1>6 DEF serve_open, Command
  <2>2. k \in Transports \cup {None, WC}
    BY <1>2 DEF record_legacy_transport, Disk
  <2>3. "bind" \in StepsOf["serve"] /\ "bind" \in Steps
    BY Tables, StepLegal
  <2> HIDE DEF k
  <2>4. c \in Command /\ c.step = "bind" /\ c.cmd = "serve" /\ c.before = proc[p].before
    BY <1>1, <1>2, <2>2, <2>3 DEF Command
  <2> HIDE DEF c
  <2>5. Local(p, c)
    BY <1>1, <1>2, <2>1, <2>3, <2>4 DEF Local, Onto, Legal, Waiting, Serving, Cleared
  <2> QED
    BY <1>1, <1>2, <2>4, <2>5, LocalStep
<1>7. CASE bind(p) /\ ~End(p)
  BY <1>4, <1>7 DEF bind
<1>8. CASE ipc_check(p) /\ ~End(p)
  <2>1. Go(p, IF sock = None THEN "listen" ELSE "remove") /\ sock \notin Procs
    BY <1>8 DEF ipc_check, connect
  <2>2. PICK s \in {"remove", "listen"} : Go(p, s)
    BY <2>1
  <2> QED
    BY <1>4, <2>1, <2>2
<1> QED
  BY <1>3, <1>5, <1>6, <1>7, <1>8

LEMMA EditSteps ==
  ASSUME HostIInv, NEW p \in Procs, edit_exists(p) \/ open_in_editor(p) \/ edit_check(p)
  PROVE  HostIInv'
<1>1. /\ proc[p].cmd = "edit" /\ proc[p].step \in {"exists", "editor", "check"}
      /\ UNCHANGED <<disk, groups, mess, faults>> /\ UNCHANGED others
  BY DEF edit_exists, open_in_editor, edit_check, At, local
<1>2. ~Waiting(proc[p]) /\ ~Serving(proc[p])
  BY <1>1 DEF Waiting, Serving
<1>3. file' \in Files
  BY Typed DEF edit_exists, open_in_editor, edit_check, local
<1>4. CASE End(p)
  <2>1. Local(p, Idle)
    BY <1>1, <1>2, <1>4, EndIsLocal
  <2> QED
    BY <1>1, <1>3, <2>1, LocalStep, IdleLegal
<1>5. CASE ~End(p)
  <2>1. PICK s \in {"editor", "check", "ask"} : Go(p, s)
    BY <1>5 DEF edit_exists, open_in_editor, edit_check
  <2>2. s \in StepsOf["edit"]
    BY Tables
  <2>3. PICK c : Onto(p, c) /\ c.step = s /\ c.cmd = "edit" /\ c.before = proc[p].before
    BY <1>1, <2>1, <2>2, GoOnto
  <2>4. Local(p, c)
    BY <1>1, <1>2, <2>1, <2>3 DEF Local, Waiting, Serving, Cleared
  <2> QED
    BY <1>1, <1>3, <2>3, <2>4, LocalStep
<1> QED
  BY <1>4, <1>5

-----------------------------------------------------------------------------
(* A command that begins *)

LEMMA CommandStep ==
  ASSUME HostIInv, NEW p \in Procs, NEW cmd, NEW step, NEW kind, command(p, cmd, step, kind),
         \/ cmd = "init" /\ step = "exists" /\ kind \in Transports
         \/ cmd = "deinit" /\ step = "open" /\ kind = None
         \/ cmd = "serve" /\ step = "load" /\ kind = None
         \/ cmd \in {"stop", "reload"} /\ step = "ask" /\ kind = None
         \/ cmd = "edit" /\ step = "exists" /\ kind = None
  PROVE  HostIInv'
<1> DEFINE b == IF cmd \in {"serve", "deinit"} THEN {sock} \cap Procs ELSE {}
           c == [Idle EXCEPT !.cmd = cmd, !.step = step, !.kind = kind, !.before = b]
<1>1. /\ proc[p].step = "idle" /\ proc' = [proc EXCEPT ![p] = c]
      /\ UNCHANGED <<disk, file, groups, sock, ipc, sub, deaf, lost, faults>>
      /\ mess' = (mess \/ /\ cmd \in {"init", "deinit"}
                          /\ \E q \in Procs : proc[q].cmd \in {"init", "deinit"})
  BY DEF command, local
<1>2. proc \in [Procs -> Command] /\ Legal(proc[p]) /\ proc[p].cmd = "none"
  <2>1. proc \in [Procs -> Command] /\ Legal(proc[p])
    BY Typed
  <2>2. proc[p].cmd \in DOMAIN StepsOf
    BY <2>1 DEF Command
  <2> QED
    BY <1>1, <2>1, <2>2, Tables DEF Legal
<1>3. cmd \in DOMAIN StepsOf /\ step \in StepsOf[cmd] /\ step \in Steps
  <2>1. cmd \in DOMAIN StepsOf /\ step \in StepsOf[cmd]
    BY Tables
  <2> QED
    BY <2>1, StepLegal
<1>4. b \in SUBSET Procs /\ b \subseteq {sock} /\ kind \in Transports \cup {None, WC}
  OBVIOUS
<1> HIDE DEF b
<1>5. /\ c \in Command /\ c.cmd = cmd /\ c.step = step /\ c.kind = kind /\ c.group = 0
      /\ c.undo = <<>> /\ c.before = b
  <2>1. Idle \in Command
    BY IdleLegal DEF Legal
  <2>2. c \in Command /\ c.cmd = cmd /\ c.step = step /\ c.kind = kind /\ c.before = b
        /\ c.group = Idle.group /\ c.undo = Idle.undo
    BY <1>3, <1>4, <2>1 DEF Command
  <2> QED
    BY <2>2, IdleLegal
<1> HIDE DEF c
<1>6. Onto(p, c)
  BY <1>1, <1>3, <1>5 DEF Onto, Legal
<1>7. /\ proc' \in [Procs -> Command] /\ (\A q \in Procs : Legal(proc'[q]))
      /\ proc'[p] = c /\ (\A q \in Procs \ {p} : proc'[q] = proc[q])
  BY <1>6, OntoTyped
<1>8. ~Waiting(proc[p]) /\ ~Serving(proc[p]) /\ ~Serving(c) /\ ~Cleared(c)
  BY <1>1, <1>2, <1>5 DEF Waiting, Serving, Cleared
<1>9. QueuesInv'
  BY <1>1, <1>7, <1>8, QueuesKept DEF HostIInv, QueuesInv
<1>10. ServersInv'
  <2>1. Running' = Running /\ Unheard' = Unheard
    BY <1>1, <1>7, <1>8 DEF Running, Serving, Unheard
  <2>2. ServersInv
    BY DEF HostIInv
  <2>3. ASSUME NEW q \in Procs, NEW r \in proc'[q].before
        PROVE  r \in Running /\ (sock = r \/ r \in Unheard)
    BY <1>4, <1>5, <1>7, <2>2, <2>3 DEF ServersInv
  <2>4. \A q \in Procs : Cleared(proc'[q]) => proc'[q].before \subseteq Unheard
    BY <1>7, <1>8, <2>2 DEF ServersInv
  <2> QED
    BY <1>1, <2>1, <2>2, <2>3, <2>4 DEF ServersInv
<1>11. StreamInv'
  BY <1>1, <1>2, <1>7, StreamKept DEF At
<1>12. mess' \in BOOLEAN
  BY <1>1, Typed
<1>13. GroupsInv'
  <2>1. SUFFICES ASSUME ~mess'
                 PROVE  GroupsInv'
    BY DEF GroupsInv
  <2>2. ~mess /\ (cmd \in {"init", "deinit"} => \A q \in Procs : proc[q].cmd \notin {"init", "deinit"})
    BY <1>1, <2>1
  <2>3. GroupsInv
    BY DEF HostIInv
  <2>4. cmd = "init" => InitInv(c, disk, groups)
    BY <1>5, TransportsAssumption, Tables DEF InitInv, None, WC
  <2>5. cmd = "deinit" => DeinitInv(c, disk, groups)
    BY <1>5 DEF DeinitInv
  <2>6. GroupsAccounted'
    BY <1>1, <1>2, <1>7, <2>2, <2>3 DEF GroupsInv, GroupsAccounted, InProgress
  <2> QED
    BY <1>1, <1>2, <1>5, <1>7, <2>2, <2>3, <2>4, <2>5, <2>6 DEF GroupsInv
<1>14. HostShareTypeOK'
  BY <1>1, <1>7, <1>12, Typed, TypedRest DEF HostShareTypeOK, Legal
<1> QED
  BY <1>9, <1>10, <1>11, <1>13, <1>14 DEF HostIInv

-----------------------------------------------------------------------------
(* ipc::Server::bind *)

LEMMA RemoveStep ==
  ASSUME HostIInv, NEW p \in Procs, ipc_remove(p)
  PROVE  HostIInv'
<1>1. /\ proc[p].cmd = "serve" /\ proc[p].step = "remove" /\ sock' = None
      /\ lost' = lost \cup (({sock} \cap Procs) \ proc[p].before)
      /\ UNCHANGED <<disk, file, groups, ipc, sub, deaf, mess, faults>>
  BY DEF ipc_remove, At, local
<1>2. PICK c : /\ Onto(p, c) /\ c.cmd \in {"none", "serve"} /\ c.step \in {"idle", "listen"}
               /\ c.before \subseteq proc[p].before
  <2>1. CASE End(p)
    BY <2>1, EndOnto, IdleLegal
  <2>2. CASE Go(p, "listen")
    BY <1>1, <2>2, GoOnto, Tables
  <2> QED
    BY <2>1, <2>2 DEF ipc_remove
<1>3. /\ proc' \in [Procs -> Command] /\ (\A q \in Procs : Legal(proc'[q]))
      /\ proc'[p] = c /\ (\A q \in Procs \ {p} : proc'[q] = proc[q])
  BY <1>2, OntoTyped
<1>4. ServersInv /\ None \notin Procs
  BY NamesAssumption DEF HostIInv, None
<1>5. {sock} \cap proc[p].before = {}
  BY <1>1, <1>4, Typed DEF ServersInv, Cleared, Command
<1>6. lost' = lost \cup ({sock} \cap Procs) /\ Unheard' = Unheard \cup ({sock} \cap Procs)
  BY <1>1, <1>5 DEF Unheard
<1>7. Running' = Running
  BY <1>1, <1>2, <1>3 DEF Running
<1>8. QueuesInv'
  BY <1>1, <1>2, <1>3, QueuesKept DEF HostIInv, QueuesInv, Waiting, Serving
<1>9. ServersInv'
  <2>1. \A q \in Procs : proc'[q].before \subseteq proc[q].before
    BY <1>2, <1>3
  <2>2. \A q \in Procs : Cleared(proc'[q]) => Cleared(proc[q])
    BY <1>1, <1>2, <1>3 DEF Cleared
  <2>3. \A q \in Procs : \A r \in proc'[q].before : r \in Running' /\ r \in Unheard'
    BY <1>4, <1>6, <1>7, <2>1, RunningServes DEF ServersInv
  <2>4. Unheard' \subseteq Running'
    BY <1>4, <1>6, <1>7 DEF ServersInv
  <2> QED
    BY <1>1, <1>4, <2>3, <2>4 DEF ServersInv
<1>10. StreamInv'
  BY <1>1, <1>3, StreamKept DEF At
<1>11. GroupsInv'
  BY <1>1, <1>2, OntoBystands, BystandersKeepGroups
<1>12. HostShareTypeOK'
  BY <1>1, <1>3, Typed, TypedRest DEF HostShareTypeOK, Legal
<1> QED
  BY <1>8, <1>9, <1>10, <1>11, <1>12 DEF HostIInv

LEMMA ListenStep ==
  ASSUME HostIInv, NEW p \in Procs, ipc_listen(p)
  PROVE  HostIInv'
<1>1. /\ proc[p].cmd = "serve" /\ proc[p].step = "listen"
      /\ UNCHANGED <<disk, file, groups, sub, deaf, lost, mess, faults>>
  BY DEF ipc_listen, At, local
<1>2. CASE sock # None
  <2>1. End(p) /\ UNCHANGED others
    BY <1>1, <1>2 DEF ipc_listen, others
  <2>2. Local(p, Idle)
    BY <1>1, <2>1, EndIsLocal DEF Waiting, Serving
  <2> QED
    BY <1>1, <2>2, LocalStep, Typed, IdleLegal
<1>3. CASE sock = None
  <2>1. PICK s \in {"connect", "run"} : Go(p, s)
    BY <1>3 DEF ipc_listen
  <2>2. PICK c : Onto(p, c) /\ c.step = s /\ c.cmd = "serve" /\ c.before = proc[p].before
    BY <1>1, <2>1, GoOnto, Tables
  <2>3. /\ proc' \in [Procs -> Command] /\ (\A q \in Procs : Legal(proc'[q]))
        /\ proc'[p] = c /\ (\A q \in Procs \ {p} : proc'[q] = proc[q])
    BY <2>2, OntoTyped
  <2> DEFINE n == [Down EXCEPT !.up = TRUE]
  <2>4. n \in IpcServer /\ n.queue = <<>> /\ n.step = "idle"
    BY DownTyped DEF IpcServer
  <2>5. sock' = p /\ ipc' = [ipc EXCEPT ![p] = n] /\ ipc \in [Procs -> IpcServer]
    BY <1>3, Typed DEF ipc_listen
  <2> HIDE DEF n
  <2>6. ipc' \in [Procs -> IpcServer] /\ ipc'[p] = n /\ \A q \in Procs \ {p} : ipc'[q] = ipc[q]
    BY <2>4, <2>5
  <2>7. ServersInv /\ QueuesInv /\ StreamInv /\ None \notin Procs
    BY NamesAssumption DEF HostIInv, None
  <2>8. Running' = Running \cup {p} /\ p \notin Running /\ Unheard' = Unheard
    BY <1>1, <2>2, <2>3 DEF Running, Unheard
  <2>9. ServersInv'
    <3>1. \A q \in Procs : proc'[q].before = proc[q].before /\ (Cleared(proc'[q]) => Cleared(proc[q]))
      BY <1>1, <2>2, <2>3 DEF Cleared
    <3>2. \A q \in Procs : \A r \in proc[q].before : r \in Running /\ r \in Unheard
      BY <1>3, <2>7, RunningServes DEF ServersInv
    <3> QED
      BY <2>5, <2>7, <2>8, <3>1, <3>2 DEF ServersInv
  <2>10. QueuesInv'
    <3>1. \A d \in Procs : ipc[d].queue \in Seq(Procs)
      BY <2>5 DEF IpcServer
    <3>2. \A d \in Procs : \A i \in 1 .. Len(ipc[d].queue) :
            ipc[d].queue[i] \in Procs \ {p} /\ Waiting(proc[ipc[d].queue[i]])
      BY <1>1, <2>7, <3>1 DEF QueuesInv, Waiting
    <3>3. Len(n.queue) = 0
      BY <2>4
    <3>4. \A d \in Procs : \A i \in 1 .. Len(ipc'[d].queue) : Waiting(proc'[ipc'[d].queue[i]])
      BY <2>3, <2>6, <3>2, <3>3
    <3>5. \A d, e \in Procs : \A i \in 1 .. Len(ipc'[d].queue), j \in 1 .. Len(ipc'[e].queue) :
            ipc'[d].queue[i] = ipc'[e].queue[j] => d = e /\ i = j
      BY <2>6, <2>7, <3>3 DEF QueuesInv
    <3>6. \A d \in Procs : /\ ipc'[d].step # "idle" => ipc'[d].queue # <<>>
                           /\ ipc'[d].queue # <<>> => Serving(proc'[d])
      BY <2>3, <2>4, <2>6, <2>7 DEF QueuesInv
    <3> QED
      BY <3>4, <3>5, <3>6 DEF QueuesInv
  <2>11. StreamInv'
    BY <1>1, <2>3, <2>6, StreamKept DEF At
  <2>12. GroupsInv'
    BY <1>1, <2>2, OntoBystands, BystandersKeepGroups
  <2>13. HostShareTypeOK'
    BY <1>1, <2>3, <2>5, <2>6, Typed, TypedRest DEF HostShareTypeOK, Legal
  <2> QED
    BY <2>9, <2>10, <2>11, <2>12, <2>13 DEF HostIInv
<1> QED
  BY <1>2, <1>3

\* A daemon whose hub session comes about, a client that sends its request.
LEMMA GoOnStep ==
  ASSUME HostIInv, NEW p \in Procs, start_serving(p) \/ request(p)
  PROVE  HostIInv'
<1>1. UNCHANGED <<disk, file, groups, sock, ipc, sub, deaf, lost, mess, faults>> /\ Legal(proc[p])
  BY Typed DEF start_serving, request, local, others
<1>2. PICK c : /\ Onto(p, c) /\ c.cmd = proc[p].cmd /\ c.before = proc[p].before /\ c.cfg = proc[p].cfg
               /\ \/ c.cmd = "serve" /\ proc[p].step = "connect" /\ c.step = "run"
                  \/ c.cmd \in {"stop", "reload", "edit"} /\ proc[p].step = "connected" /\ c.step = "sent"
  <2>1. CASE start_serving(p)
    BY <2>1, GoOnto, Tables DEF start_serving, At
  <2>2. CASE request(p)
    <3>1. proc[p].cmd \in {"stop", "reload", "edit"} /\ proc[p].step = "connected" /\ Go(p, "sent")
      BY <1>1, <2>2, Tables DEF Legal, Command, request
    <3> QED
      BY <3>1, GoOnto, Tables
  <2> QED
    BY <2>1, <2>2
<1>3. /\ proc' \in [Procs -> Command] /\ (\A q \in Procs : Legal(proc'[q]))
      /\ proc'[p] = c /\ (\A q \in Procs \ {p} : proc'[q] = proc[q])
  BY <1>2, OntoTyped
<1>4. QueuesInv'
  BY <1>1, <1>2, <1>3, QueuesKept DEF HostIInv, QueuesInv, Waiting, Serving
<1>5. ServersInv'
  BY <1>1, <1>2, <1>3, ServersKept DEF Serving, Cleared
<1>6. StreamInv'
  BY <1>1, <1>2, <1>3, StreamKept DEF At
<1>7. GroupsInv'
  BY <1>1, <1>2, OntoBystands, BystandersKeepGroups
<1>8. HostShareTypeOK'
  BY <1>1, <1>3, Typed, TypedRest DEF HostShareTypeOK, Legal
<1> QED
  BY <1>4, <1>5, <1>6, <1>7, <1>8 DEF HostIInv

-----------------------------------------------------------------------------
(* Clients of a daemon *)

\* Who waits is neither a daemon nor an init or deinit.
LEMMA WaitingOnly ==
  ASSUME NEW c, Legal(c), Waiting(c)
  PROVE  c.cmd \in {"stop", "reload", "edit"} /\ ~Serving(c) /\ ~Cleared(c)
<1>1. c.cmd \in DOMAIN StepsOf
  BY DEF Legal, Command
<1> QED
  BY <1>1, Tables DEF Legal, Waiting, Serving, Cleared

LEMMA QueuedWaits ==
  ASSUME HostIInv, NEW d \in Procs, NEW i \in 1 .. Len(ipc[d].queue)
  PROVE  ipc[d].queue[i] \in Procs /\ Waiting(proc[ipc[d].queue[i]])
<1>1. ipc[d].queue \in Seq(Procs)
  BY Typed DEF IpcServer
<1> QED
  BY <1>1 DEF HostIInv, QueuesInv

LEMMA QueuedOnce ==
  ASSUME HostIInv, NEW d \in Procs, NEW e \in Procs, NEW i \in 1 .. Len(ipc[d].queue),
         NEW j \in 1 .. Len(ipc[e].queue), ipc[d].queue[i] = ipc[e].queue[j]
  PROVE  d = e /\ i = j
BY DEF HostIInv, QueuesInv

LEMMA AskStep ==
  ASSUME HostIInv, NEW p \in Procs, ask(p)
  PROVE  HostIInv'
<1>1. /\ proc[p].step = "ask" /\ UNCHANGED <<disk, file, groups, sock, sub, deaf, lost, mess, faults>>
      /\ Legal(proc[p]) /\ proc[p].cmd \in DOMAIN StepsOf
  BY Typed DEF ask, local, Command, Legal
<1>2. proc[p].cmd \in {"stop", "reload", "edit"} /\ ~Waiting(proc[p]) /\ ~Serving(proc[p])
  BY <1>1, Tables DEF Legal, Waiting, Serving
<1>3. CASE ~connect
  <2>1. End(p) /\ UNCHANGED others
    BY <1>1, <1>3 DEF ask, others
  <2>2. Local(p, Idle)
    BY <1>2, <2>1, EndIsLocal
  <2> QED
    BY <1>1, <1>2, <2>2, LocalStep, Typed, IdleLegal
<1>4. CASE connect
  <2>1. /\ sock \in Procs /\ Go(p, "connected") /\ ipc' = [ipc EXCEPT ![sock].queue = Append(@, p)]
        /\ ipc \in [Procs -> IpcServer]
    BY <1>4, Typed DEF ask, connect
  <2>2. PICK c : Onto(p, c) /\ c.step = "connected" /\ c.cmd = proc[p].cmd /\ c.before = proc[p].before
    BY <1>2, <2>1, GoOnto, Tables
  <2>3. /\ proc' \in [Procs -> Command] /\ (\A q \in Procs : Legal(proc'[q]))
        /\ proc'[p] = c /\ (\A q \in Procs \ {p} : proc'[q] = proc[q])
    BY <2>2, OntoTyped
  <2>4. Waiting(c) /\ ~Serving(c) /\ ~Cleared(c)
    BY <1>2, <2>2 DEF Waiting, Serving, Cleared
  <2> DEFINE n == [ipc[sock] EXCEPT !.queue = Append(@, p)]
  <2>5. ipc[sock] \in IpcServer /\ ipc[sock].queue \in Seq(Procs)
    BY <2>1 DEF IpcServer
  <2>6. Append(ipc[sock].queue, p) \in Seq(Procs)
    BY <2>5
  <2>7. n \in IpcServer /\ n.queue = Append(ipc[sock].queue, p) /\ n.step = ipc[sock].step
    BY <2>5, <2>6 DEF IpcServer
  <2>8. ipc' = [ipc EXCEPT ![sock] = n]
    BY <2>1, <2>5 DEF IpcServer
  <2> HIDE DEF n
  <2>9. ipc' \in [Procs -> IpcServer] /\ ipc'[sock] = n /\ \A q \in Procs \ {sock} : ipc'[q] = ipc[q]
    BY <2>1, <2>7, <2>8
  <2>10. QueuesInv /\ ServersInv
    BY DEF HostIInv
  <2>11. Serving(proc[sock]) /\ sock # p
    BY <1>2, <2>1, <2>10 DEF ServersInv, Running, Serving
  <2>12. QueuesInv'
    <3>1. \A d \in Procs : ipc[d].queue \in Seq(Procs)
      BY <2>1 DEF IpcServer
    <3>2. \A d \in Procs : \A i \in 1 .. Len(ipc[d].queue) :
            ipc[d].queue[i] \in Procs \ {p} /\ Waiting(proc[ipc[d].queue[i]])
      BY <1>2, <2>10, <3>1 DEF QueuesInv
    <3> DEFINE L == Len(ipc[sock].queue)
    <3>3. /\ L \in Nat /\ Len(n.queue) = L + 1 /\ n.queue[L + 1] = p
          /\ \A i \in 1 .. L : n.queue[i] = ipc[sock].queue[i]
      BY <2>5, <2>7
    <3> HIDE DEF L
    <3>4. \A i \in 1 .. Len(n.queue) : i = L + 1 \/ i \in 1 .. L
      BY <3>3
    <3>5. \A d \in Procs : \A i \in 1 .. Len(ipc'[d].queue) :
            \/ d = sock /\ i = L + 1 /\ ipc'[d].queue[i] = p
            \/ i \in 1 .. Len(ipc[d].queue) /\ ipc'[d].queue[i] = ipc[d].queue[i]
      BY <2>9, <3>3, <3>4 DEF L
    <3>6. ASSUME NEW d \in Procs, NEW i \in 1 .. Len(ipc'[d].queue)
          PROVE  Waiting(proc'[ipc'[d].queue[i]])
      <4>1. CASE ipc'[d].queue[i] = p
        BY <2>3, <2>4, <4>1
      <4>2. CASE i \in 1 .. Len(ipc[d].queue) /\ ipc'[d].queue[i] = ipc[d].queue[i]
        BY <2>3, <3>2, <4>2
      <4> QED
        BY <3>5, <4>1, <4>2
    <3>7. ASSUME NEW d \in Procs, NEW e \in Procs, NEW i \in 1 .. Len(ipc'[d].queue),
                 NEW j \in 1 .. Len(ipc'[e].queue), ipc'[d].queue[i] = ipc'[e].queue[j]
          PROVE  d = e /\ i = j
      <4>1. CASE d = sock /\ i = L + 1 /\ ipc'[d].queue[i] = p
        <5>1. j \notin 1 .. Len(ipc[e].queue) \/ ipc'[e].queue[j] # ipc[e].queue[j]
          BY <3>2, <3>7, <4>1
        <5>2. e = sock /\ j = L + 1
          BY <3>5, <5>1
        <5> QED
          BY <4>1, <5>2
      <4>2. CASE i \in 1 .. Len(ipc[d].queue) /\ ipc'[d].queue[i] = ipc[d].queue[i]
        <5>1. ipc[d].queue[i] # p
          BY <3>2, <4>2
        <5>2. j \in 1 .. Len(ipc[e].queue) /\ ipc'[e].queue[j] = ipc[e].queue[j]
          BY <3>5, <3>7, <4>2, <5>1
        <5>3. ipc[d].queue[i] = ipc[e].queue[j]
          BY <3>7, <4>2, <5>2
        <5> QED
          BY <4>2, <5>2, <5>3, QueuedOnce
      <4> QED
        BY <3>5, <4>1, <4>2
    <3>8. \A d \in Procs : Serving(proc[d]) => Serving(proc'[d])
      BY <1>2, <2>3
    <3>9. n.queue # <<>>
      BY <3>3
    <3>10. \A d \in Procs : /\ ipc'[d].step # "idle" => ipc'[d].queue # <<>>
                            /\ ipc'[d].queue # <<>> => Serving(proc'[d])
      BY <2>9, <2>10, <2>11, <3>8, <3>9 DEF QueuesInv
    <3> QED
      BY <3>6, <3>7, <3>10 DEF QueuesInv
  <2>13. ServersInv'
    BY <1>1, <1>2, <2>2, <2>3, <2>4, ServersKept
  <2>14. \A d \in Procs : ipc'[d].step = ipc[d].step
    BY <2>7, <2>9
  <2>15. StreamInv'
    BY <1>1, <2>3, <2>14, StreamKept DEF At
  <2>16. GroupsInv'
    BY <1>1, <1>2, <2>2, OntoBystands, BystandersKeepGroups
  <2>17. HostShareTypeOK'
    BY <1>1, <2>3, <2>9, Typed, TypedRest DEF HostShareTypeOK, Legal
  <2> QED
    BY <2>12, <2>13, <2>15, <2>16, <2>17 DEF HostIInv
<1> QED
  BY <1>3, <1>4

\* The client at the head of a queue.
LEMMA HeadWaits ==
  ASSUME HostIInv, NEW d \in Procs, ipc[d].queue # <<>>
  PROVE  /\ Head(ipc[d].queue) \in Procs /\ Waiting(proc[Head(ipc[d].queue)])
         /\ proc[Head(ipc[d].queue)].cmd \in {"stop", "reload", "edit"}
         /\ ~Serving(proc[Head(ipc[d].queue)])
         /\ Serving(proc[d]) /\ Head(ipc[d].queue) # d
         /\ ipc[d] \in IpcServer /\ ipc[d].queue \in Seq(Procs) /\ Len(ipc[d].queue) \in Nat \ {0}
         /\ Head(ipc[d].queue) = ipc[d].queue[1]
<1>1. ipc[d] \in IpcServer /\ ipc[d].queue \in Seq(Procs)
  BY Typed DEF IpcServer
<1>2. /\ Len(ipc[d].queue) \in Nat \ {0} /\ Head(ipc[d].queue) = ipc[d].queue[1]
      /\ 1 \in 1 .. Len(ipc[d].queue) /\ ipc[d].queue[1] \in Procs
  BY <1>1
<1>3. Waiting(proc[ipc[d].queue[1]]) /\ Serving(proc[d])
  BY <1>2 DEF HostIInv, QueuesInv
<1>4. Legal(proc[ipc[d].queue[1]])
  BY <1>2, Typed
<1>5. ~Serving(proc[ipc[d].queue[1]]) /\ proc[ipc[d].queue[1]].cmd \in {"stop", "reload", "edit"}
  BY <1>3, <1>4, WaitingOnly
<1> QED
  BY <1>1, <1>2, <1>3, <1>5

\* A response that takes the head off the queue.
LEMMA RespondStep ==
  ASSUME HostIInv, NEW d \in Procs, ipc[d].queue # <<>>, send_response(d, "idle"),
         UNCHANGED <<disk, file, groups, sock, deaf, lost, mess, faults>>,
         \/ sub' = sub /\ ipc[d].step # "send"
         \/ sub' = EventSent(d)
  PROVE  HostIInv'
<1> DEFINE h == Head(ipc[d].queue)
           n == [ipc[d] EXCEPT !.queue = Tail(@), !.step = "idle", !.fresh = 0]
<1>1. /\ h \in Procs /\ Waiting(proc[h]) /\ proc[h].cmd \in {"stop", "reload", "edit"}
      /\ ~Serving(proc[h]) /\ Serving(proc[d]) /\ h # d /\ ipc[d] \in IpcServer
      /\ ipc[d].queue \in Seq(Procs) /\ Len(ipc[d].queue) \in Nat \ {0} /\ h = ipc[d].queue[1]
  BY HeadWaits
<1>2. End(h) /\ ipc \in [Procs -> IpcServer] /\ ipc' = [ipc EXCEPT ![d] = n]
  BY <1>1, Typed DEF send_response, IpcServer
<1>3. Tail(ipc[d].queue) \in Seq(Procs) /\ 0 \in 0 .. MaxVersion
  BY <1>1, HostShareBounds
<1>4. n \in IpcServer /\ n.queue = Tail(ipc[d].queue) /\ n.step = "idle"
  BY <1>1, <1>3 DEF IpcServer
<1> HIDE DEF n, h
<1>5. ipc' \in [Procs -> IpcServer] /\ ipc'[d] = n /\ \A q \in Procs \ {d} : ipc'[q] = ipc[q]
  BY <1>2, <1>4
<1>6. Onto(h, Idle)
  BY <1>1, <1>2, EndOnto
<1>7. /\ proc' \in [Procs -> Command] /\ (\A q \in Procs : Legal(proc'[q]))
      /\ proc'[h] = Idle /\ (\A q \in Procs \ {h} : proc'[q] = proc[q])
  BY <1>1, <1>6, OntoTyped
<1>8. QueuesInv'
  <2>1. QueuesInv
    BY DEF HostIInv
  <2>2. /\ Len(n.queue) = Len(ipc[d].queue) - 1
        /\ \A i \in 1 .. Len(n.queue) : i + 1 \in 1 .. Len(ipc[d].queue) /\ i + 1 # 1
                                        /\ n.queue[i] = ipc[d].queue[i + 1]
    BY <1>1, <1>4
  <2>3. \A e \in Procs : ipc[e].queue \in Seq(Procs)
    BY <1>2 DEF IpcServer
  <2>4. ASSUME NEW e \in Procs, NEW i \in 1 .. Len(ipc'[e].queue)
        PROVE  \E j \in 1 .. Len(ipc[e].queue) :
                 /\ ipc'[e].queue[i] = ipc[e].queue[j] /\ ipc[e].queue[j] \in Procs \ {h}
                 /\ j = IF e = d THEN i + 1 ELSE i
    <3>1. CASE e = d
      <4>1. i + 1 \in 1 .. Len(ipc[d].queue) /\ i + 1 # 1 /\ ipc'[e].queue[i] = ipc[d].queue[i + 1]
        BY <1>5, <2>2, <2>4, <3>1
      <4>2. ipc[d].queue[i + 1] # ipc[d].queue[1] /\ ipc[d].queue[i + 1] \in Procs
        BY <1>1, <2>1, <4>1 DEF QueuesInv
      <4> QED
        BY <1>1, <3>1, <4>1, <4>2
    <3>2. CASE e # d
      <4>1. ipc'[e].queue = ipc[e].queue /\ i \in 1 .. Len(ipc[e].queue) /\ 1 \in 1 .. Len(ipc[d].queue)
        BY <1>1, <1>5, <2>4, <3>2
      <4>2. ipc[e].queue[i] # ipc[d].queue[1] /\ ipc[e].queue[i] \in Procs
        BY <2>1, <2>3, <3>2, <4>1 DEF QueuesInv
      <4> QED
        BY <1>1, <3>2, <4>1, <4>2
    <3> QED
      BY <3>1, <3>2
  <2>5. ASSUME NEW e \in Procs, NEW i \in 1 .. Len(ipc'[e].queue)
        PROVE  Waiting(proc'[ipc'[e].queue[i]])
    <3>1. PICK j \in 1 .. Len(ipc[e].queue) :
            ipc'[e].queue[i] = ipc[e].queue[j] /\ ipc[e].queue[j] \in Procs \ {h}
      BY <2>4
    <3> QED
      BY <1>7, <3>1, QueuedWaits
  <2>6. ASSUME NEW e \in Procs, NEW f \in Procs, NEW i \in 1 .. Len(ipc'[e].queue),
               NEW j \in 1 .. Len(ipc'[f].queue), ipc'[e].queue[i] = ipc'[f].queue[j]
        PROVE  e = f /\ i = j
    <3>1. PICK k \in 1 .. Len(ipc[e].queue) :
            ipc'[e].queue[i] = ipc[e].queue[k] /\ k = IF e = d THEN i + 1 ELSE i
      BY <2>4
    <3>2. PICK l \in 1 .. Len(ipc[f].queue) :
            ipc'[f].queue[j] = ipc[f].queue[l] /\ l = IF f = d THEN j + 1 ELSE j
      BY <2>4
    <3>3. ipc[e].queue[k] = ipc[f].queue[l]
      BY <2>6, <3>1, <3>2
    <3>5. e = f /\ k = l
      BY <3>3, QueuedOnce
    <3>4. i \in Int /\ j \in Int
      OBVIOUS
    <3> QED
      BY <3>1, <3>2, <3>5, <3>4
  <2>7. \A e \in Procs : /\ ipc'[e].step # "idle" => ipc'[e].queue # <<>>
                         /\ ipc'[e].queue # <<>> => Serving(proc'[e])
    BY <1>1, <1>4, <1>5, <1>7, <2>1 DEF QueuesInv
  <2> QED
    BY <2>5, <2>6, <2>7 DEF QueuesInv
<1>9. ~Serving(Idle) /\ ~Cleared(Idle) /\ Idle.before = {} /\ Idle.cmd = "none"
  BY IdleLegal DEF Serving, Cleared
<1>10. ServersInv'
  BY <1>1, <1>7, <1>9, ServersKept
<1>11. \A q \in Procs : At(q, "serve", "run") => proc'[q] = proc[q]
  BY <1>1, <1>7 DEF At
<1>12. \A q \in Procs : ipc'[q].step = ipc[q].step \/ (q = d /\ ipc'[q].step = "idle")
  BY <1>4, <1>5
<1>13. /\ StreamInv'
       /\ sub' \in [on : Procs \cup {None}, events : 0 .. EventCap, seen : 0 .. MaxVersion]
  <2>1. StreamInv /\ sub \in [on : Procs \cup {None}, events : 0 .. EventCap, seen : 0 .. MaxVersion]
    BY TypedRest DEF HostIInv
  <2>2. CASE sub' = sub /\ (sub.on = d => ipc[d].step # "send")
    <3>1. StreamInv'
      BY <1>11, <1>12, <2>1, <2>2 DEF StreamInv, GuestsHearReloads, At
    <3> QED
      BY <2>1, <2>2, <3>1
  <2>3. CASE sub' = EventSent(d) /\ sub.on = d
    <3> DEFINE e == Min({sub.events + 1, EventCap})
    <3>1. e \in 1 .. EventCap
      <4>1. {sub.events + 1, EventCap} \subseteq Nat \ {0} /\ {sub.events + 1, EventCap} # {}
        BY <2>1, HostShareBounds
      <4>2. e \in {sub.events + 1, EventCap} /\ e <= EventCap
        <5>1. sub.events \in 0 .. EventCap
          BY <2>1
        <5>2. {sub.events + 1, EventCap} \subseteq Nat
          BY <4>1
        <5>3. e \in {sub.events + 1, EventCap}
          BY <4>1, <5>2, MinInSet
        <5>4. CASE sub.events < EventCap
          BY <5>1, <5>3, <5>4, HostShareBounds
        <5>5. CASE sub.events = EventCap
          <6>1. \A x \in {sub.events + 1, EventCap} : EventCap <= x
            BY <5>1, <5>5, HostShareBounds
          <6>2. \A x \in {sub.events + 1, EventCap} :
                  (\A y \in {sub.events + 1, EventCap} : x <= y) => x = EventCap
            BY <5>1, <5>5, HostShareBounds
          <6>3. e = EventCap
            BY <6>1, <6>2 DEF Min
          <6> QED
            BY <5>3, <6>3, HostShareBounds
        <5> QED
          BY <5>1, <5>4, <5>5, HostShareBounds
      <4> QED
        BY <4>1, <4>2, HostShareBounds
    <3>2. sub' = [sub EXCEPT !.events = e]
      BY <2>3 DEF EventSent
    <3> HIDE DEF e
    <3>3. /\ sub' \in [on : Procs \cup {None}, events : 0 .. EventCap, seen : 0 .. MaxVersion]
          /\ sub'.on = sub.on /\ sub'.events = e /\ sub'.events # 0
      BY <2>1, <3>1, <3>2, HostShareBounds
    <3>4. StreamInv'
      <4>1. sub.on # None => sub.on \in Procs /\ At(sub.on, "serve", "run")
        BY <2>1 DEF StreamInv
      <4>2. sub.on # None => proc'[sub.on] = proc[sub.on]
        BY <1>11, <4>1
      <4>3. d # None
        BY NamesAssumption DEF None
      <4> QED
        BY <2>3, <3>3, <4>1, <4>2, <4>3 DEF StreamInv, GuestsHearReloads, At
    <3> QED
      BY <3>3, <3>4
  <2> QED
    BY <2>2, <2>3 DEF EventSent
<1>14. GroupsInv'
  BY <1>1, <1>6, <1>9, OntoBystands, BystandersKeepGroups
<1>15. HostShareTypeOK'
  BY <1>5, <1>7, <1>13, Typed, TypedRest DEF HostShareTypeOK, Legal
<1> QED
  BY <1>8, <1>10, <1>13, <1>14, <1>15 DEF HostIInv

-----------------------------------------------------------------------------
(* Reloads *)

LEMMA ReloadSteps ==
  ASSUME HostIInv, NEW d \in Procs,
         handle_reload(d) \/ reload_unchanged(d) \/ reload_swap(d) \/ reload_send(d)
  PROVE  HostIInv'
<1>1. UNCHANGED <<disk, file, groups, sock, deaf, lost, mess, faults>>
  BY DEF handle_reload, reload_unchanged, reload_swap, reload_send, local
<1>2. ipc[d].queue # <<>>
  BY DEF HostIInv, QueuesInv, handle_reload, parse_request, reload_unchanged, reload_swap, reload_send
<1>3. CASE send_response(d, "idle")
  <2>1. \/ sub' = sub /\ ipc[d].step # "send"
        \/ sub' = EventSent(d)
    BY DEF handle_reload, parse_request, reload_unchanged, reload_swap, reload_send
  <2> QED
    BY <1>1, <1>2, <1>3, <2>1, RespondStep
<1>4. /\ ipc \in [Procs -> IpcServer] /\ ipc[d] \in IpcServer
      /\ proc \in [Procs -> Command] /\ proc[d] \in Command /\ (\A q \in Procs : Legal(proc[q]))
      /\ file \in Files
  BY Typed
<1>5. CASE handle_reload(d) /\ ~send_response(d, "idle")
  <2> DEFINE n == [ipc[d] EXCEPT !.step = "swap", !.fresh = file]
  <2>1. load_config /\ proc' = proc /\ sub' = sub /\ ipc' = [ipc EXCEPT ![d] = n]
    BY <1>4, <1>5 DEF handle_reload, IpcServer
  <2>2. file \in 0 .. MaxVersion
    BY <1>4, <2>1, HostShareBounds DEF load_config, Files, Broken
  <2>3. n \in IpcServer /\ n.queue = ipc[d].queue /\ n.step = "swap" /\ ipc[d].step = "idle"
    BY <1>4, <1>5, <2>2 DEF IpcServer, handle_reload, parse_request
  <2> HIDE DEF n
  <2>4. ipc' \in [Procs -> IpcServer] /\ ipc'[d] = n /\ \A q \in Procs \ {d} : ipc'[q] = ipc[q]
    BY <1>4, <2>1, <2>3
  <2>5. QueuesInv'
    BY <1>2, <2>1, <2>3, <2>4, QueuesKept DEF HostIInv, QueuesInv
  <2>6. ServersInv'
    BY <1>1, <2>1, ServersKept
  <2>7. StreamInv'
    BY <2>1, <2>3, <2>4, StreamKept
  <2>8. GroupsInv'
    BY <1>1, <2>1, BystandersKeepGroups DEF Bystanders
  <2>9. HostShareTypeOK'
    BY <1>1, <1>4, <2>1, <2>4, Typed, TypedRest DEF HostShareTypeOK, Legal
  <2> QED
    BY <2>5, <2>6, <2>7, <2>8, <2>9 DEF HostIInv
<1>6. CASE reload_swap(d)
  <2> DEFINE n == [ipc[d] EXCEPT !.step = "send"]
             c == [proc[d] EXCEPT !.cfg = ipc[d].fresh]
  <2>1. /\ proc' = [proc EXCEPT ![d] = c] /\ sub' = sub /\ ipc' = [ipc EXCEPT ![d] = n]
    BY <1>4, <1>6 DEF reload_swap, IpcServer, Command
  <2>2. n \in IpcServer /\ n.queue = ipc[d].queue /\ n.step = "send" /\ ipc[d].fresh \in 0 .. MaxVersion
    BY <1>4 DEF IpcServer
  <2>3. /\ c \in Command /\ c.cmd = proc[d].cmd /\ c.step = proc[d].step /\ c.kind = proc[d].kind
        /\ c.group = proc[d].group /\ c.undo = proc[d].undo /\ c.before = proc[d].before
    BY <1>4, <2>2 DEF Command
  <2> HIDE DEF n, c
  <2>4. ipc' \in [Procs -> IpcServer] /\ ipc'[d] = n /\ \A q \in Procs \ {d} : ipc'[q] = ipc[q]
    BY <1>4, <2>1, <2>2
  <2>5. Onto(d, c)
    BY <1>4, <2>1, <2>3 DEF Onto, Legal
  <2>6. /\ proc' \in [Procs -> Command] /\ (\A q \in Procs : Legal(proc'[q]))
        /\ proc'[d] = c /\ (\A q \in Procs \ {d} : proc'[q] = proc[q])
    BY <2>5, OntoTyped
  <2>7. QueuesInv'
    BY <1>2, <2>2, <2>3, <2>4, <2>6, QueuesKept DEF HostIInv, QueuesInv, Waiting, Serving
  <2>8. ServersInv'
    BY <1>1, <2>3, <2>6, ServersKept DEF Serving, Cleared
  <2>9. StreamInv'
    BY <2>1, <2>2, <2>3, <2>4, <2>6, StreamKept
  <2>10. GroupsInv'
    BY <1>1, <2>3, <2>6, BystandersKeepGroups DEF Bystanders
  <2>11. HostShareTypeOK'
    BY <1>1, <2>1, <2>4, <2>6, Typed, TypedRest DEF HostShareTypeOK, Legal
  <2> QED
    BY <2>7, <2>8, <2>9, <2>10, <2>11 DEF HostIInv
<1> QED
  BY <1>3, <1>5, <1>6 DEF reload_unchanged, reload_send

-----------------------------------------------------------------------------
(* A daemon that ends, or ends its IPC loop *)

\* The process q after daemon d hung up, if it is not d itself.
HungUp(d, q, c) ==
  \/ /\ c = Idle /\ Waiting(proc[q])
     /\ \E i \in 1 .. Len(ipc[d].queue) : ipc[d].queue[i] = q
  \/ /\ c.cmd = proc[q].cmd /\ c.step = proc[q].step /\ c.kind = proc[q].kind
     /\ c.group = proc[q].group /\ c.undo = proc[q].undo /\ c.cfg = proc[q].cfg
     /\ c.before = proc[q].before \ {d}
     /\ ~\E i \in 1 .. Len(ipc[d].queue) : ipc[d].queue[i] = q

LEMMA GoneFacts ==
  ASSUME HostIInv, NEW d \in Procs
  PROVE  /\ Gone(d) \in [Procs -> Command] /\ (\A q \in Procs : Legal(Gone(d)[q]))
         /\ Gone(d)[d] = Idle
         /\ \A q \in Procs \ {d} : HungUp(d, q, Gone(d)[q])
<1>1. /\ proc \in [Procs -> Command] /\ (\A q \in Procs : Legal(proc[q]))
      /\ ipc[d].queue \in Seq(Procs)
  BY Typed DEF IpcServer
<1>2. DOMAIN ipc[d].queue = 1 .. Len(ipc[d].queue)
  BY <1>1
<1>3. ASSUME NEW q \in Procs, NEW c, c = [proc[q] EXCEPT !.before = @ \ {d}]
      PROVE  /\ Legal(c) /\ c.cmd = proc[q].cmd /\ c.step = proc[q].step /\ c.kind = proc[q].kind
             /\ c.group = proc[q].group /\ c.undo = proc[q].undo /\ c.cfg = proc[q].cfg
             /\ c.before = proc[q].before \ {d}
  <2>1. proc[q] \in Command /\ proc[q].before \in SUBSET Procs /\ proc[q].step \in StepsOf[proc[q].cmd]
    BY <1>1 DEF Command, Legal
  <2>2. proc[q].before \ {d} \in SUBSET Procs
    BY <2>1
  <2>3. /\ c \in Command /\ c.cmd = proc[q].cmd /\ c.step = proc[q].step /\ c.kind = proc[q].kind
        /\ c.group = proc[q].group /\ c.undo = proc[q].undo /\ c.cfg = proc[q].cfg
        /\ c.before = proc[q].before \ {d}
    BY <1>3, <2>1, <2>2 DEF Command
  <2> QED
    BY <2>1, <2>3 DEF Legal
<1>4. ASSUME NEW q \in Procs
      PROVE  /\ Legal(Gone(d)[q])
             /\ q = d => Gone(d)[q] = Idle
             /\ q # d => HungUp(d, q, Gone(d)[q])
  <2>1. CASE q = d
    BY <2>1, IdleLegal DEF Gone
  <2>2. CASE q # d /\ \E i \in 1 .. Len(ipc[d].queue) : ipc[d].queue[i] = q
    <3>1. Gone(d)[q] = Idle
      BY <1>2, <2>2 DEF Gone
    <3>2. Waiting(proc[q])
      BY <2>2, QueuedWaits
    <3> QED
      BY <2>2, <3>1, <3>2, IdleLegal DEF HungUp
  <2>3. CASE q # d /\ ~\E i \in 1 .. Len(ipc[d].queue) : ipc[d].queue[i] = q
    <3>1. Gone(d)[q] = [proc[q] EXCEPT !.before = @ \ {d}]
      BY <1>2, <2>3 DEF Gone
    <3> QED
      BY <1>3, <2>3, <3>1 DEF HungUp
  <2> QED
    BY <2>1, <2>2, <2>3
<1>5. Gone(d) = [q \in Procs |-> Gone(d)[q]]
  BY DEF Gone
<1>6. Gone(d) \in [Procs -> Command]
  BY <1>4, <1>5 DEF Legal
<1> QED
  BY <1>4, <1>6

LEMMA DownStep ==
  ASSUME HostIInv, NEW d \in Procs, Serving(proc[d]), Hangup(d),
         UNCHANGED <<disk, file, groups, mess, faults>>,
         proc' \in [Procs -> Command], \A q \in Procs : Legal(proc'[q]),
         \A q \in Procs \ {d} : HungUp(d, q, proc'[q]),
         \/ /\ proc'[d] = Idle /\ deaf' = deaf \ {d} /\ lost' = lost \ {d}
            /\ sub' = IF sub.on = d THEN NoGuest ELSE sub
         \/ /\ proc'[d] = proc[d] /\ proc[d].step = "connect"
            /\ deaf' = deaf \cup {d} /\ lost' = lost /\ sub' = sub
  PROVE  HostIInv'
<1>1. /\ ipc \in [Procs -> IpcServer] /\ ipc' = [ipc EXCEPT ![d] = Down]
      /\ sock' = IF sock = d THEN Stale ELSE sock
  BY Typed DEF Hangup
<1>2. /\ ipc' \in [Procs -> IpcServer] /\ ipc'[d] = Down
      /\ \A q \in Procs \ {d} : ipc'[q] = ipc[q]
  BY <1>1, DownTyped
<1>3. QueuesInv /\ ServersInv /\ StreamInv
  BY DEF HostIInv
<1>4. \A q \in Procs : Waiting(proc[q]) => q # d /\ proc[q].cmd \notin {"init", "deinit"} /\ ~Serving(proc[q])
  BY Typed, WaitingOnly
<1>5. ~Serving(Idle) /\ ~Cleared(Idle) /\ Idle.before = {} /\ Idle.cmd = "none"
  BY IdleLegal DEF Serving, Cleared
<1>6. \A q \in Procs \ {d} :
        /\ Serving(proc'[q]) <=> Serving(proc[q])
        /\ proc'[q].before \subseteq proc[q].before \ {d}
        /\ Cleared(proc'[q]) => Cleared(proc[q])
        /\ Serving(proc[q]) => /\ proc'[q].cmd = proc[q].cmd /\ proc'[q].step = proc[q].step
                               /\ proc'[q].cfg = proc[q].cfg
  BY <1>4, <1>5 DEF HungUp, Serving, Cleared
<1>7. QueuesInv'
  <2>1. Len(Down.queue) = 0
    BY DownTyped
  <2>2. ASSUME NEW e \in Procs, NEW i \in 1 .. Len(ipc'[e].queue)
        PROVE  e # d /\ ipc'[e].queue = ipc[e].queue /\ i \in 1 .. Len(ipc[e].queue)
    <3>1. e # d
      BY <1>2, <2>1, <2>2
    <3> QED
      BY <1>2, <2>2, <3>1
  <2>3. ASSUME NEW e \in Procs, NEW i \in 1 .. Len(ipc'[e].queue)
        PROVE  Waiting(proc'[ipc'[e].queue[i]])
    <3> DEFINE q == ipc[e].queue[i]
    <3>1. /\ e # d /\ ipc'[e].queue = ipc[e].queue /\ i \in 1 .. Len(ipc[e].queue)
      BY <2>2
    <3>2. q \in Procs /\ Waiting(proc[q])
      BY <3>1, QueuedWaits
    <3>3. ASSUME NEW j \in 1 .. Len(ipc[d].queue), ipc[d].queue[j] = q
          PROVE  FALSE
      BY <3>1, <3>3, QueuedOnce
    <3>4. q \in Procs \ {d} /\ HungUp(d, q, proc'[q])
      BY <1>4, <3>2
    <3> HIDE DEF q
    <3>5. Waiting(proc'[q])
      BY <3>2, <3>3, <3>4 DEF HungUp, Waiting
    <3> QED
      BY <3>1, <3>5 DEF q
  <2>4. ASSUME NEW e \in Procs, NEW f \in Procs, NEW i \in 1 .. Len(ipc'[e].queue),
               NEW j \in 1 .. Len(ipc'[f].queue), ipc'[e].queue[i] = ipc'[f].queue[j]
        PROVE  e = f /\ i = j
    <3>1. i \in 1 .. Len(ipc[e].queue) /\ j \in 1 .. Len(ipc[f].queue) /\ ipc[e].queue[i] = ipc[f].queue[j]
      BY <2>2, <2>4
    <3> QED
      BY <3>1, QueuedOnce
  <2>5. \A e \in Procs : /\ ipc'[e].step # "idle" => ipc'[e].queue # <<>>
                         /\ ipc'[e].queue # <<>> => Serving(proc'[e])
    BY <1>2, <1>3, <1>6, DownTyped DEF QueuesInv
  <2> QED
    BY <2>3, <2>4, <2>5 DEF QueuesInv
<1>8. Stale \notin Procs /\ None \notin Procs
  BY NamesAssumption DEF Stale, None
<1>9. ASSUME proc'[d] = Idle
      PROVE  /\ ServersInv' /\ StreamInv' /\ deaf' \subseteq Procs /\ lost' \subseteq Procs
             /\ sub' \in [on : Procs \cup {None}, events : 0 .. EventCap, seen : 0 .. MaxVersion]
  <2>1. \/ deaf' = deaf \ {d} /\ lost' = lost \ {d} /\ sub' = IF sub.on = d THEN NoGuest ELSE sub
    BY <1>5, <1>9 DEF Serving
  <2>2. Running' = Running \ {d} /\ Unheard' = Unheard \ {d}
    BY <1>5, <1>6, <1>9, <2>1 DEF Running, Serving, Unheard
  <2>3. ServersInv'
    <3>1. \A q \in Procs : proc'[q].before \subseteq proc[q].before \ {d} /\ (Cleared(proc'[q]) => Cleared(proc[q]))
      BY <1>5, <1>6, <1>9
    <3>2. \A q \in Procs : \A r \in proc'[q].before : r \in Running' /\ (sock' = r \/ r \in Unheard')
      BY <1>1, <1>3, <2>2, <3>1 DEF ServersInv
    <3>3. \A q \in Procs : Cleared(proc'[q]) => proc'[q].before \subseteq Unheard'
      BY <1>3, <2>2, <3>1 DEF ServersInv
    <3>4. Unheard' \subseteq Running' /\ (sock' \in Procs => sock' \in Running' \ Unheard')
      BY <1>1, <1>3, <1>8, <2>2 DEF ServersInv
    <3> QED
      BY <3>2, <3>3, <3>4 DEF ServersInv
  <2>4. ASSUME sub.on = d
        PROVE  /\ StreamInv'
               /\ sub' \in [on : Procs \cup {None}, events : 0 .. EventCap, seen : 0 .. MaxVersion]
    <3>1. sub' = NoGuest
      BY <2>1, <2>4
    <3>2. StreamInv'
      BY <3>1 DEF StreamInv, GuestsHearReloads, NoGuest, None
    <3>3. sub' \in [on : Procs \cup {None}, events : 0 .. EventCap, seen : 0 .. MaxVersion]
      BY <3>1, HostShareBounds DEF NoGuest
    <3> QED
      BY <3>2, <3>3
  <2>5. ASSUME sub.on # d
        PROVE  /\ StreamInv'
               /\ sub' \in [on : Procs \cup {None}, events : 0 .. EventCap, seen : 0 .. MaxVersion]
    <3>1. sub' = sub
      BY <2>1, <2>5
    <3>2. StreamInv'
      BY <1>2, <1>3, <1>6, <2>5, <3>1 DEF StreamInv, GuestsHearReloads, At, Serving
    <3> QED
      BY <3>1, <3>2, TypedRest
  <2>6. /\ StreamInv' /\ deaf' \subseteq Procs /\ lost' \subseteq Procs
        /\ sub' \in [on : Procs \cup {None}, events : 0 .. EventCap, seen : 0 .. MaxVersion]
    BY <2>1, <2>4, <2>5, TypedRest
  <2> QED
    BY <2>3, <2>6
<1>10. ASSUME proc'[d] = proc[d], proc[d].step = "connect",
              deaf' = deaf \cup {d}, lost' = lost, sub' = sub
       PROVE  /\ ServersInv' /\ StreamInv' /\ deaf' \subseteq Procs /\ lost' \subseteq Procs
              /\ sub' \in [on : Procs \cup {None}, events : 0 .. EventCap, seen : 0 .. MaxVersion]
  <2>1. Running' = Running /\ Unheard' = Unheard \cup {d} /\ d \in Running
    BY <1>6, <1>10 DEF Running, Serving, Unheard
  <2>2. ServersInv'
    <3>1. \A q \in Procs : proc'[q].before \subseteq proc[q].before /\ (Cleared(proc'[q]) => Cleared(proc[q]))
      BY <1>6, <1>10
    <3>2. \A q \in Procs : \A r \in proc'[q].before : r \in Running' /\ (sock' = r \/ r \in Unheard')
      BY <1>1, <1>3, <2>1, <3>1 DEF ServersInv
    <3>3. \A q \in Procs : Cleared(proc'[q]) => proc'[q].before \subseteq Unheard'
      BY <1>3, <2>1, <3>1 DEF ServersInv
    <3>4. Unheard' \subseteq Running' /\ (sock' \in Procs => sock' \in Running' \ Unheard')
      BY <1>1, <1>3, <1>8, <2>1 DEF ServersInv
    <3> QED
      BY <3>2, <3>3, <3>4 DEF ServersInv
  <2>3. StreamInv'
    BY <1>2, <1>3, <1>6, <1>10 DEF StreamInv, GuestsHearReloads, At, Serving
  <2> QED
    BY <1>10, <2>2, <2>3, TypedRest
<1>11. /\ ServersInv' /\ StreamInv' /\ deaf' \subseteq Procs /\ lost' \subseteq Procs
       /\ sub' \in [on : Procs \cup {None}, events : 0 .. EventCap, seen : 0 .. MaxVersion]
  BY <1>9, <1>10
<1>12. GroupsInv'
  <2>1. Bystanders
    BY <1>4, <1>5 DEF Bystanders, HungUp, Serving
  <2> QED
    BY <2>1, BystandersKeepGroups
<1>13. HostShareTypeOK'
  <2>1. sock' \in Procs \cup {None, Stale}
    BY <1>1, Typed
  <2> QED
    BY <1>2, <1>11, <2>1, Typed, TypedRest DEF HostShareTypeOK, Legal
<1> QED
  BY <1>7, <1>11, <1>12, <1>13 DEF HostIInv

LEMMA DaemonEnds ==
  ASSUME HostIInv, NEW d \in Procs, Serving(proc[d]), daemon_ends(d)
  PROVE  HostIInv'
<1>1. /\ proc' = Gone(d) /\ Hangup(d) /\ UNCHANGED <<disk, file, groups, mess, faults>>
      /\ deaf' = deaf \ {d} /\ lost' = lost \ {d} /\ sub' = IF sub.on = d THEN NoGuest ELSE sub
  BY DEF daemon_ends, local
<1> QED
  BY <1>1, GoneFacts, DownStep

LEMMA StopStep ==
  ASSUME HostIInv, NEW d \in Procs, handle_shutdown(d)
  PROVE  HostIInv'
<1>1. Serving(proc[d])
  BY HeadWaits DEF handle_shutdown, parse_request
<1>2. CASE ~At(d, "serve", "connect")
  BY <1>1, <1>2, DaemonEnds DEF handle_shutdown
<1>3. CASE At(d, "serve", "connect")
  <2>1. /\ Hangup(d) /\ proc' = [Gone(d) EXCEPT ![d] = proc[d]] /\ deaf' = deaf \cup {d}
        /\ UNCHANGED <<disk, file, groups, sub, lost, mess, faults>>
    BY <1>3 DEF handle_shutdown, local
  <2>2. /\ Gone(d) \in [Procs -> Command] /\ (\A q \in Procs : Legal(Gone(d)[q]))
        /\ (\A q \in Procs \ {d} : HungUp(d, q, Gone(d)[q])) /\ Legal(proc[d]) /\ proc[d] \in Command
    BY GoneFacts, Typed
  <2>3. /\ proc' \in [Procs -> Command] /\ proc'[d] = proc[d]
        /\ \A q \in Procs \ {d} : proc'[q] = Gone(d)[q]
    BY <2>1, <2>2
  <2>4. (\A q \in Procs : Legal(proc'[q])) /\ \A q \in Procs \ {d} : HungUp(d, q, proc'[q])
    BY <2>2, <2>3
  <2>5. proc[d].step = "connect"
    BY <1>3 DEF At
  <2> QED
    BY <1>1, <2>1, <2>3, <2>4, <2>5, DownStep
<1> QED
  BY <1>2, <1>3

-----------------------------------------------------------------------------
(* The guest and the editor *)

LEMMA GuestSteps ==
  ASSUME HostIInv, sse_event \/ edit_by_hand \/ \E d \in Procs : get_events(d)
  PROVE  HostIInv'
<1>1. UNCHANGED <<disk, groups, sock, ipc, proc, deaf, lost, mess, faults>>
  BY DEF sse_event, edit_by_hand, get_events, local, others
<1>2. QueuesInv' /\ ServersInv'
  BY <1>1 DEF HostIInv, QueuesInv, ServersInv, Running, Unheard
<1>3. GroupsInv'
  BY <1>1, BystandersKeepGroups DEF Bystanders
<1>4. file' \in Files
  BY Typed DEF sse_event, edit_by_hand, get_events, local
<1>5. /\ StreamInv /\ sub \in [on : Procs \cup {None}, events : 0 .. EventCap, seen : 0 .. MaxVersion]
      /\ None \notin Procs /\ proc \in [Procs -> Command]
  BY Typed, TypedRest, NamesAssumption DEF HostIInv, None
<1>6. /\ StreamInv'
      /\ sub' \in [on : Procs \cup {None}, events : 0 .. EventCap, seen : 0 .. MaxVersion]
  <2>1. CASE edit_by_hand
    <3>1. sub' = sub
      BY <2>1 DEF edit_by_hand, others
    <3> QED
      BY <1>1, <1>5, <3>1 DEF StreamInv, GuestsHearReloads, At
  <2>2. ASSUME NEW d \in Procs, get_events(d)
        PROVE  /\ StreamInv'
               /\ sub' \in [on : Procs \cup {None}, events : 0 .. EventCap, seen : 0 .. MaxVersion]
    <3>1. sub' = [on |-> d, events |-> 1, seen |-> 0] /\ At(d, "serve", "run")
      BY <2>2 DEF get_events, Running, At
    <3>2. sub'.on = d /\ sub'.events = 1
      BY <3>1
    <3>3. sub' \in [on : Procs \cup {None}, events : 0 .. EventCap, seen : 0 .. MaxVersion]
      BY <3>1, HostShareBounds
    <3> QED
      BY <1>1, <1>5, <3>1, <3>2, <3>3 DEF StreamInv, GuestsHearReloads, At
  <2>3. CASE sse_event
    <3>1. sub.events > 0 /\ sub' = [sub EXCEPT !.events = @ - 1, !.seen = proc[sub.on].cfg]
      BY <2>3 DEF sse_event
    <3>2. sub.on \in Procs /\ At(sub.on, "serve", "run")
      BY <1>5, <3>1 DEF StreamInv
    <3>3. proc[sub.on].cfg \in 0 .. MaxVersion /\ sub.events - 1 \in 0 .. EventCap
      BY <1>5, <3>1, <3>2, HostShareBounds DEF Command
    <3>4. /\ sub' \in [on : Procs \cup {None}, events : 0 .. EventCap, seen : 0 .. MaxVersion]
          /\ sub'.on = sub.on /\ sub'.seen = proc[sub.on].cfg
      BY <1>5, <3>1, <3>3
    <3> QED
      BY <1>1, <1>5, <3>2, <3>4 DEF StreamInv, GuestsHearReloads, At
  <2> QED
    BY <2>1, <2>2, <2>3
<1>7. HostShareTypeOK'
  BY <1>1, <1>4, <1>6, Typed, TypedRest DEF HostShareTypeOK, Legal
<1> QED
  BY <1>2, <1>3, <1>6, <1>7 DEF HostIInv

-----------------------------------------------------------------------------
(* Theorems *)

LEMMA HostInitial ==
  ASSUME HostShareInit
  PROVE  HostIInv
<1>1. /\ disk = Absent /\ file = 0 /\ groups = {} /\ sock = None /\ sub = NoGuest
      /\ deaf = {} /\ lost = {} /\ mess = FALSE /\ faults = 0
      /\ \A p \in Procs : ipc[p] = Down /\ proc[p] = Idle
  BY DEF HostShareInit
<1>2. None \notin Procs
  BY NamesAssumption DEF None
<1>3. HostShareTypeOK
  <2>1. ipc \in [Procs -> IpcServer] /\ proc \in [Procs -> Command]
    BY DownTyped, IdleLegal DEF HostShareInit, Legal
  <2>2. sub \in [on : Procs \cup {None}, events : 0 .. EventCap, seen : 0 .. MaxVersion]
    BY <1>1, HostShareBounds DEF NoGuest
  <2>3. disk \in Disk /\ file \in Files /\ faults \in 0 .. MaxFaults
    BY <1>1, AbsentTyped, FilesZero, HostShareBounds
  <2>4. \A p \in Procs : proc[p].step \in StepsOf[proc[p].cmd]
    BY <1>1, IdleLegal DEF Legal
  <2> QED
    BY <1>1, <2>1, <2>2, <2>3, <2>4 DEF HostShareTypeOK
<1>4. QueuesInv
  BY <1>1, DownTyped DEF QueuesInv
<1>5. ServersInv
  BY <1>1, <1>2, IdleLegal DEF ServersInv, Unheard
<1>6. StreamInv
  BY <1>1 DEF StreamInv, GuestsHearReloads, NoGuest
<1>7. GroupsInv
  BY <1>1, IdleLegal DEF GroupsInv, GroupsAccounted
<1> QED
  BY <1>3, <1>4, <1>5, <1>6, <1>7 DEF HostIInv

\* Every step of a command, a daemon, the guest or a fault.
LEMMA HostStep ==
  ASSUME HostIInv, HostShareNext
  PROVE  HostIInv'
<1>1. ASSUME NEW p \in Procs, Commands(p)
      PROVE  HostIInv'
  BY <1>1, CommandStep DEF Commands
<1>2. ASSUME NEW p \in Procs, Works(p)
      PROVE  HostIInv'
  <2>1. CASE \/ up_exists(p) \/ add_connectivity_group(p) \/ explain_group_quota(p)
    <3>1. faults' = faults
      BY <2>1 DEF up_exists, add_connectivity_group, explain_group_quota
    <3> QED
      BY <2>1, <3>1, InitGroupMoves, CommandMovePreserves
  <2>2. CASE \/ create(p) \/ create_refused(p) \/ set_keys(p) \/ register(p) \/ undo(p) \/ undone(p)
    <3>1. faults' = faults
      BY <2>2 DEF create, create_refused, set_keys, register, undo, undone
    <3> QED
      BY <2>2, <3>1, CreateMoves, FailedMoves, KeysMoves, UndoMoves, GivenUpMoves,
         CommandMovePreserves
  <2>3. CASE \/ down_open(p) \/ down_probe(p) \/ remove_connectivity_group(p) \/ delete(p)
    <3>1. faults' = faults
      BY <2>3 DEF down_open, down_probe, remove_connectivity_group, delete
    <3> QED
      BY <2>3, <3>1, DeinitMoves, DeletedMoves, CommandMovePreserves
  <2>4. CASE \/ serve_load(p) \/ serve_open(p) \/ bind(p) \/ ipc_check(p)
    BY <2>4, ServeSteps
  <2>5. CASE ipc_remove(p) \/ ipc_listen(p) \/ start_serving(p) \/ request(p) \/ ask(p)
    BY <2>5, RemoveStep, ListenStep, GoOnStep, AskStep
  <2>6. CASE edit_exists(p) \/ open_in_editor(p) \/ edit_check(p)
    BY <2>6, EditSteps
  <2> QED
    BY <1>2, <2>1, <2>2, <2>3, <2>4, <2>5, <2>6 DEF Works
<1>3. ASSUME NEW p \in Procs, Answers(p)
      PROVE  HostIInv'
  BY <1>3, StopStep, ReloadSteps DEF Answers
<1>4. ASSUME NEW p \in Procs, Faults(p)
      PROVE  HostIInv'
  <2>1. faults' = faults \/ Fault
    BY <1>4 DEF Faults, group_answer_lost, create_failed, init_failed, undo_failed,
                remove_group_failed, delete_failed, killed
  <2>2. CommandMove(p)
    BY <1>4, InitGroupMoves, FailedMoves, UndoMoves, DeletedMoves, GivenUpMoves DEF Faults
  <2> QED
    BY <2>1, <2>2, CommandMovePreserves
<1>5. ASSUME NEW p \in Procs, serving_ends(p)
      PROVE  HostIInv'
  BY <1>5, DaemonEnds DEF serving_ends, Running, Serving
<1> QED
  BY <1>1, <1>2, <1>3, <1>4, <1>5, GuestSteps DEF HostShareNext

\* The inductive invariant: the queues of the IPC servers, who listens and who
\* was listening when a command began, the guest's events stream, and what the
\* one init or deinit knows of the disk and of its group.
THEOREM HostShareInvariant == HostShareSpec => []HostIInv
<1>1. HostShareInit => HostIInv
  BY HostInitial
<1>2. HostIInv /\ [HostShareNext]_vars => HostIInv'
  <2>1. ASSUME HostIInv, UNCHANGED vars
        PROVE  HostIInv'
    <3>1. UNCHANGED <<disk, file, groups, sock, ipc, proc, sub, deaf, lost, mess, faults>>
      BY <2>1 DEF vars, local
    <3>2. HostShareTypeOK' /\ QueuesInv' /\ ServersInv'
      BY <2>1, <3>1 DEF HostIInv, HostShareTypeOK, QueuesInv, ServersInv, Running, Unheard
    <3>3. StreamInv'
      BY <2>1, <3>1 DEF HostIInv, StreamInv, GuestsHearReloads, At
    <3>4. GroupsInv'
      BY <2>1, <3>1, BystandersKeepGroups DEF Bystanders
    <3> QED
      BY <3>2, <3>3, <3>4 DEF HostIInv
  <2> QED
    BY <2>1, HostStep
<1> QED
  BY <1>1, <1>2, PTL DEF HostShareSpec

\* A command that finds a daemon listening leaves it alone: no second server
\* comes up next to it and deinit does not take the share from under it.
THEOREM DaemonsAreLeftAlone == HostShareSpec => []HostShareInv
<1>1. HostIInv => HostShareInv
  <2> SUFFICES ASSUME HostIInv
               PROVE  HostShareInv
    OBVIOUS
  <2>1. ServersInv /\ HostShareTypeOK
    BY DEF HostIInv
  <2>2. OneServer
    BY <2>1 DEF ServersInv, OneServer, Cleared, Running
  <2>3. DeinitSpares
    BY <2>1 DEF ServersInv, DeinitSpares, Cleared
  <2> QED
    BY <2>1, <2>2, <2>3 DEF HostShareInv
<1> QED
  BY <1>1, HostShareInvariant, PTL

\* A guest that has caught up with its events stream has the config that is
\* served, however many reloads and lost events there were.
THEOREM ReloadsAreHeard == HostShareSpec => []GuestsHearReloads
<1>1. HostIInv => GuestsHearReloads
  BY DEF HostIInv, StreamInv
<1> QED
  BY <1>1, HostShareInvariant, PTL

\* A connectivity group of the hub is the one of the share on disk or one an
\* init in progress will undo, unless something failed that cannot be undone.
THEOREM NoGroupIsForgotten == HostShareSpec => []GroupsAccounted
<1>1. HostIInv => GroupsAccounted
  BY DEF HostIInv, GroupsInv, GroupsAccounted
<1> QED
  BY <1>1, HostShareInvariant, PTL
=============================================================================
