------------------------- MODULE ClientSharesProofs -------------------------
(***************************************************************************)
(* The shares of one device, for any number of shares, calls in progress   *)
(* and names: what is listed is whole, keys and ghosts are accounted for,  *)
(* labels are unique and one endpoint is open per share.                   *)
(***************************************************************************)
EXTENDS ClientShares, FiniteSetTheorems, WellFoundedInduction, TLAPS

\* What the rows, the keys and the host node say of share i.
ShareInv(i) ==
  /\ ~row[i].exists => row[i] = NoRow
  /\ row[i].label \in (Names \X (1 .. MaxSuffix)) \cup {<<i, 0>>, NoLabel}
  /\ Listed(i) => /\ row[i].host /\ row[i].info /\ row[i].label # NoLabel
                  /\ i \in keys \cup left /\ i \in bound \cup left
  /\ i \in keys => row[i].exists \/ i \in failed \cup kept
  /\ i \in bound \ keys => (row[i].exists /\ ~Listed(i)) \/ i \in failed \cup untold

\* A join that has not listed its share yet.
Unlisted(c) == c.op = "join" /\ c.step # "listed"

\* What a join has done of its share by now.
JoinInv(c) ==
  Unlisted(c) =>
    /\ row[c.share].exists /\ row[c.share].complete = "NULL"
    /\ c.step # "row" => c.share \in bound
    /\ c.step \notin {"row", "activated"} => row[c.share].host
    /\ c.step \in {"saved", "info", "labelled"} => c.share \in keys
    /\ c.step \in {"info", "labelled"} => row[c.share].info
    /\ c.step = "labelled" => row[c.share].label # NoLabel

\* What a leave has done.
LeaveInv(c) ==
  c.op = "leave" =>
    /\ c.share \in left
    /\ c.step \in {"forget", "delete"} => c.share \notin bound \/ c.share \in untold
    /\ c.step = "delete" => c.share \notin keys \/ c.share \in kept

\* Nobody else deals with a share while it is being joined.
JoinsAlone ==
  \A t, u \in Tasks :
    Unlisted(task[t]) /\ task[u] # Idle /\ task[u].share = task[t].share => t = u

\* The calls that restore a share nobody leaves have its one cell, and no other
\* is set.
CellsInv ==
  /\ \A t \in Tasks :
       task[t].op = "restore" /\ task[t].step # "found" /\ task[t].share \notin left
         => task[t].cell = cellOf[task[t].share] /\ task[t].cell # 0
  /\ \A c \in filled : c[1] \notin left => c[2] = cellOf[c[1]] /\ c[2] # 0

\* What write_deduped_hostname reads and writes under one lock never runs into
\* the UNIQUE constraint of the column, which join_labelled leaves out.
LabelsUnique ==
  \A i, j \in Shares :
    (row[i].label # NoLabel /\ row[i].label = row[j].label) => i = j

SharesIInv ==
  /\ SharesTypeOK
  /\ \A i \in Shares : ShareInv(i)
  /\ \A t \in Tasks : JoinInv(task[t]) /\ LeaveInv(task[t])
  /\ JoinsAlone
  /\ LabelsUnique
  /\ CellsInv

-----------------------------------------------------------------------------
(* Calls *)

LEMMA CallKinds ==
  ASSUME NEW c \in Calls \cup {Idle}
  PROVE  /\ c # Idle => c.share \in Shares /\ c.op \in {"join", "restore", "leave"}
         /\ c.op = "join" => c \in [op : {"join"}, share : Shares, step : JoinSteps]
         /\ c.op = "restore" => c \in [op : {"restore"}, share : Shares, step : RestoreSteps, cell : Nat]
         /\ c.op = "leave" => c \in [op : {"leave"}, share : Shares, step : LeaveSteps, cell : Nat]
         /\ c.op \in {"none", "join", "restore", "leave"} /\ (c.op = "none" <=> c = Idle)
<1>1. Idle.op = "none"
  BY DEF Idle
<1>2. CASE c = Idle
  BY <1>1, <1>2
<1>3. CASE c \in [op : {"join"}, share : Shares, step : JoinSteps]
  BY <1>1, <1>3
<1>4. CASE c \in [op : {"restore"}, share : Shares, step : RestoreSteps, cell : Nat]
  BY <1>1, <1>4
<1>5. CASE c \in [op : {"leave"}, share : Shares, step : LeaveSteps, cell : Nat]
  BY <1>1, <1>5
<1> QED
  BY <1>2, <1>3, <1>4, <1>5 DEF Calls

LEMMA Typed ==
  ASSUME SharesIInv
  PROVE  /\ client \in {"up", "down"} /\ row \in [Shares -> Row] /\ keys \subseteq Shares
         /\ bound \subseteq Shares /\ task \in [Tasks -> Calls \cup {Idle}]
         /\ failed \subseteq Shares /\ left \subseteq Shares
         /\ untold \subseteq Shares /\ kept \subseteq Shares
         /\ cellOf \in [Shares -> Nat] /\ filled \subseteq Shares \X Nat /\ nodes \subseteq filled
BY DEF SharesIInv, SharesTypeOK

\* Call t goes on as c.
Onto(t, c) == c \in Calls \cup {Idle} /\ task' = [task EXCEPT ![t] = c]

LEMMA OntoTask ==
  ASSUME SharesIInv, NEW t \in Tasks, NEW c, Onto(t, c)
  PROVE  /\ task' \in [Tasks -> Calls \cup {Idle}]
         /\ task'[t] = c /\ \A u \in Tasks \ {t} : task'[u] = task[u]
BY Typed DEF Onto

LEMMA ReturnOnto ==
  ASSUME NEW t \in Tasks, Return(t)
  PROVE  Onto(t, Idle)
BY DEF Return, Onto

\* A call that goes on to step s of its operation.
LEMMA StepOnto ==
  ASSUME SharesIInv, NEW t \in Tasks, NEW s, Step(t, s),
         \/ task[t].op = "join" /\ s \in JoinSteps
         \/ task[t].op = "restore" /\ s \in RestoreSteps
         \/ task[t].op = "leave" /\ s \in LeaveSteps
  PROVE  \E c : /\ Onto(t, c) /\ c.op = task[t].op /\ c.share = task[t].share /\ c.step = s
                /\ c.op \in {"restore", "leave"} => c.cell = task[t].cell
                /\ c # Idle
<1> DEFINE c == [task[t] EXCEPT !.step = s]
<1>1. task \in [Tasks -> Calls \cup {Idle}] /\ task[t] \in Calls \cup {Idle}
  BY Typed
<1>2. /\ task[t].op = "join" => task[t] \in [op : {"join"}, share : Shares, step : JoinSteps]
      /\ task[t].op = "restore" => task[t] \in [op : {"restore"}, share : Shares, step : RestoreSteps, cell : Nat]
      /\ task[t].op = "leave" => task[t] \in [op : {"leave"}, share : Shares, step : LeaveSteps, cell : Nat]
  BY <1>1, CallKinds
<1>3. CASE task[t].op = "join" /\ s \in JoinSteps
  <2>1. task[t] \in [op : {"join"}, share : Shares, step : JoinSteps]
    BY <1>2, <1>3
  <2>2. /\ c \in [op : {"join"}, share : Shares, step : JoinSteps]
        /\ c.op = "join" /\ c.share = task[t].share /\ c.step = s
    BY <1>3, <2>1
  <2>3. task' = [task EXCEPT ![t] = c]
    BY <1>1, <2>1 DEF Step
  <2> HIDE DEF c
  <2>4. c \in Calls /\ c # Idle
    BY <2>2, CallKinds DEF Calls, Idle
  <2> QED
    BY <1>3, <2>2, <2>3, <2>4 DEF Onto
<1>4. CASE task[t].op = "restore" /\ s \in RestoreSteps
  <2>1. task[t] \in [op : {"restore"}, share : Shares, step : RestoreSteps, cell : Nat]
    BY <1>2, <1>4
  <2>2. /\ c \in [op : {"restore"}, share : Shares, step : RestoreSteps, cell : Nat]
        /\ c.op = "restore" /\ c.share = task[t].share /\ c.step = s /\ c.cell = task[t].cell
    BY <1>4, <2>1
  <2>3. task' = [task EXCEPT ![t] = c]
    BY <1>1, <2>1 DEF Step
  <2> HIDE DEF c
  <2>4. c \in Calls /\ c # Idle
    BY <2>2 DEF Calls, Idle
  <2> QED
    BY <1>4, <2>2, <2>3, <2>4 DEF Onto
<1>5. CASE task[t].op = "leave" /\ s \in LeaveSteps
  <2>1. task[t] \in [op : {"leave"}, share : Shares, step : LeaveSteps, cell : Nat]
    BY <1>2, <1>5
  <2>2. /\ c \in [op : {"leave"}, share : Shares, step : LeaveSteps, cell : Nat]
        /\ c.op = "leave" /\ c.share = task[t].share /\ c.step = s /\ c.cell = task[t].cell
    BY <1>5, <2>1
  <2>3. task' = [task EXCEPT ![t] = c]
    BY <1>1, <2>1 DEF Step
  <2> HIDE DEF c
  <2>4. c \in Calls /\ c # Idle
    BY <2>2 DEF Calls, Idle
  <2> QED
    BY <1>5, <2>2, <2>3, <2>4 DEF Onto
<1> QED
  BY <1>3, <1>4, <1>5

-----------------------------------------------------------------------------
(* Steps that deal with one share *)

\* Nobody but t deals with share i.
Alone(t, i) == \A u \in Tasks \ {t} : task[u] # Idle => task[u].share # i

Others(i) ==
  /\ \A j \in Shares \ {i} :
       /\ row'[j] = row[j] /\ (j \in keys' <=> j \in keys) /\ (j \in bound' <=> j \in bound)
  /\ failed \subseteq failed' /\ left \subseteq left' /\ untold \subseteq untold' /\ kept \subseteq kept'

RestTyped ==
  /\ client' \in {"up", "down"} /\ row' \in [Shares -> Row] /\ keys' \subseteq Shares
  /\ bound' \subseteq Shares /\ failed' \subseteq Shares /\ left' \subseteq Shares
  /\ untold' \subseteq Shares /\ kept' \subseteq Shares

\* Call t, which has to do with share i alone, goes on as c.
ShareMove(t, i, c) ==
  /\ Onto(t, c)
  /\ task[t] # Idle => task[t].share = i
  /\ c # Idle => c.share = i
  /\ RestTyped
  /\ Others(i)
  /\ ShareInv(i)' /\ JoinInv(c)' /\ LeaveInv(c)'
  /\ Unlisted(task[t]) \/ ((i \in bound' => i \in bound) /\ (i \in keys' => i \in keys))
  /\ task[t] # Idle \/ Alone(t, i) \/ (Listed(i) /\ UNCHANGED <<row, keys, bound>>)
  /\ Unlisted(c) => Unlisted(task[t]) \/ Alone(t, i)

LEMMA ShareMoveKeeps ==
  ASSUME SharesIInv, NEW t \in Tasks, NEW i \in Shares, NEW c, ShareMove(t, i, c)
  PROVE  /\ \A j \in Shares : ShareInv(j)'
         /\ \A u \in Tasks : (JoinInv(task[u]) /\ LeaveInv(task[u]))'
         /\ JoinsAlone'
         /\ task' \in [Tasks -> Calls \cup {Idle}]
<1>1. /\ task' \in [Tasks -> Calls \cup {Idle}]
      /\ task'[t] = c /\ \A u \in Tasks \ {t} : task'[u] = task[u]
  BY OntoTask DEF ShareMove
<1>2. ASSUME NEW j \in Shares
      PROVE  ShareInv(j)'
  <2>1. CASE j = i
    BY <2>1 DEF ShareMove
  <2>2. CASE j # i
    <3>1. ShareInv(j)
      BY DEF SharesIInv
    <3> QED
      BY <2>2, <3>1 DEF ShareMove, Others, ShareInv, Listed
  <2> QED
    BY <2>1, <2>2
<1>3. \A u \in Tasks : task[u] \in Calls \cup {Idle}
  BY Typed
<1>4. \A u \in Tasks : task[u].op \in {"join", "leave"} => task[u] # Idle /\ task[u].share \in Shares
  BY <1>3, CallKinds
<1>5. \A u \in Tasks : JoinInv(task[u]) /\ LeaveInv(task[u])
  BY DEF SharesIInv
\* An unlisted join of another call on the same share is not disturbed.
<1>6. ASSUME NEW u \in Tasks \ {t}, Unlisted(task[u]), task[u].share = i
      PROVE  task[t] = Idle /\ ~Alone(t, i) /\ FALSE
  <2>1. task[u] # Idle
    BY <1>4, <1>6 DEF Unlisted
  <2>2. ~Alone(t, i)
    BY <1>6, <2>1 DEF Alone
  <2>3. task[t] = Idle
    BY <1>6, <2>1 DEF SharesIInv, JoinsAlone, ShareMove
  <2>4. Listed(i)
    BY <2>2, <2>3 DEF ShareMove
  <2>5. row[i].complete = "NULL"
    BY <1>5, <1>6 DEF JoinInv
  <2> QED
    BY <2>4, <2>5 DEF Listed
<1>7. ASSUME NEW u \in Tasks
      PROVE  (JoinInv(task[u]) /\ LeaveInv(task[u]))'
  <2>1. CASE u = t
    <3>1. JoinInv(c)' /\ LeaveInv(c)' /\ task'[u] = c
      BY <1>1, <2>1 DEF ShareMove
    <3> QED
      BY <3>1 DEF JoinInv, LeaveInv, Unlisted
  <2>2. CASE u # t
    <3>1. task'[u] = task[u] /\ JoinInv(task[u]) /\ LeaveInv(task[u])
      BY <1>1, <1>5, <2>2
    <3>2. CASE task[u].share # i
      BY <1>4, <3>1, <3>2 DEF ShareMove, Others, JoinInv, LeaveInv, Unlisted
    <3>3. CASE task[u].share = i
      <4>1. ~Unlisted(task[u])
        BY <1>6, <2>2, <3>3
      <4>2. task[u].op = "leave" => (i \in bound' => i \in bound) /\ (i \in keys' => i \in keys)
        <5> SUFFICES ASSUME task[u].op = "leave", Unlisted(task[t])
                     PROVE  FALSE
          BY DEF ShareMove
        <5>1. task[u] # Idle /\ task[t] # Idle
          BY <1>4 DEF Unlisted
        <5> QED
          BY <2>2, <3>3, <5>1 DEF SharesIInv, JoinsAlone, ShareMove
      <4> QED
        BY <3>1, <3>3, <4>1, <4>2 DEF ShareMove, Others, JoinInv, LeaveInv, Unlisted
    <3> QED
      BY <3>2, <3>3
  <2> QED
    BY <2>1, <2>2
<1>8. JoinsAlone'
  <2> SUFFICES ASSUME NEW u \in Tasks, NEW v \in Tasks, Unlisted(task'[u]),
                      task'[v] # Idle, task'[v].share = task'[u].share
               PROVE  u = v
    BY DEF JoinsAlone, Unlisted
  <2>1. CASE u # t /\ v # t
    BY <1>1, <2>1 DEF SharesIInv, JoinsAlone
  <2>2. CASE u # t /\ v = t
    <3>1. task[u].share = i /\ Unlisted(task[u])
      BY <1>1, <2>2 DEF ShareMove
    <3> QED
      BY <1>6, <2>2, <3>1
  <2>3. CASE u = t /\ v # t
    <3>1. Unlisted(c) /\ c # Idle /\ c.share = i /\ task[v] # Idle /\ task[v].share = i
      BY <1>1, <2>3, CallKinds DEF ShareMove, Unlisted, Onto, Idle
    <3>2. Unlisted(task[t])
      BY <2>3, <3>1 DEF ShareMove, Alone
    <3>3. task[t].share = i
      BY <1>4, <3>2 DEF ShareMove, Unlisted
    <3> QED
      BY <2>3, <3>1, <3>2, <3>3 DEF SharesIInv, JoinsAlone
  <2> QED
    BY <2>1, <2>2, <2>3
<1> QED
  BY <1>1, <1>2, <1>7, <1>8

-----------------------------------------------------------------------------
(* Labels and cells *)

LEMMA LabelsKept ==
  ASSUME SharesIInv, \A j \in Shares : row'[j].label \in {row[j].label, NoLabel}
  PROVE  LabelsUnique'
<1>1. LabelsUnique
  BY DEF SharesIInv
<1> QED
  BY <1>1 DEF LabelsUnique

CellsTyped ==
  cellOf' \in [Shares -> Nat] /\ filled' \subseteq Shares \X Nat /\ nodes' \subseteq filled'

\* A call that gets no cell, and sets none.
LEMMA CellsKept ==
  ASSUME SharesIInv, NEW t \in Tasks, NEW c, Onto(t, c), left \subseteq left',
         cellOf' = cellOf, filled' \subseteq filled, nodes' \subseteq filled',
         c.op = "restore" /\ c.step # "found" =>
           /\ task[t].op = "restore" /\ task[t].step # "found"
           /\ c.share = task[t].share /\ c.cell = task[t].cell
  PROVE  CellsInv' /\ CellsTyped
<1>1. task'[t] = c /\ \A u \in Tasks \ {t} : task'[u] = task[u]
  BY OntoTask
<1>2. CellsInv /\ filled \subseteq Shares \X Nat /\ cellOf \in [Shares -> Nat]
  BY Typed DEF SharesIInv
<1>3. ASSUME NEW u \in Tasks, task'[u].op = "restore", task'[u].step # "found",
             task'[u].share \notin left'
      PROVE  task'[u].cell = cellOf'[task'[u].share] /\ task'[u].cell # 0
  <2>1. CASE u = t
    BY <1>1, <1>2, <1>3, <2>1 DEF CellsInv
  <2>2. CASE u # t
    BY <1>1, <1>2, <1>3, <2>2 DEF CellsInv
  <2> QED
    BY <2>1, <2>2
<1>4. \A d \in filled' : d[1] \notin left' => d[2] = cellOf'[d[1]] /\ d[2] # 0
  BY <1>2 DEF CellsInv
<1> QED
  BY <1>2, <1>3, <1>4 DEF CellsInv, CellsTyped

LEMMA MoveStep ==
  ASSUME SharesIInv, NEW t \in Tasks, NEW i \in Shares, NEW c, ShareMove(t, i, c),
         LabelsUnique', CellsInv', CellsTyped
  PROVE  SharesIInv'
<1>1. /\ \A j \in Shares : ShareInv(j)'
      /\ \A u \in Tasks : (JoinInv(task[u]) /\ LeaveInv(task[u]))'
      /\ JoinsAlone'
      /\ task' \in [Tasks -> Calls \cup {Idle}]
  BY ShareMoveKeeps
<1>2. SharesTypeOK'
  BY <1>1 DEF ShareMove, RestTyped, CellsTyped, SharesTypeOK
<1> QED
  BY <1>1, <1>2 DEF SharesIInv

LEMMA IdleInv == ~Unlisted(Idle) /\ Idle.op = "none" /\ Idle.op \notin {"join", "leave", "restore"}
BY DEF Unlisted, Idle

\* A step that reads and writes nothing but cells.
LEMMA QuietMove ==
  ASSUME SharesIInv, NEW t \in Tasks, NEW i \in Shares, NEW c, Onto(t, c),
         task[t] # Idle => task[t].share = i, c # Idle => c.share = i,
         UNCHANGED <<client, row, keys, bound, failed, left, untold, kept>>,
         ~Unlisted(c), LeaveInv(c), task[t] # Idle \/ Listed(i)
  PROVE  ShareMove(t, i, c) /\ LabelsUnique'
<1>1. ShareInv(i)
  BY DEF SharesIInv
<1>2. ShareInv(i)' /\ JoinInv(c)' /\ LeaveInv(c)'
  BY <1>1 DEF ShareInv, Listed, JoinInv, LeaveInv, Unlisted
<1>3. RestTyped /\ Others(i)
  BY Typed DEF RestTyped, Others
<1>4. LabelsUnique'
  BY LabelsKept
<1> QED
  BY <1>2, <1>3, <1>4 DEF ShareMove

-----------------------------------------------------------------------------
(* Client::join *)

\* What a call on a share is, and on which.
LEMMA CallFacts ==
  ASSUME SharesIInv, NEW t \in Tasks, task[t].op \in {"join", "restore", "leave"}
  PROVE  /\ task[t] # Idle /\ task[t].share \in Shares
         /\ ShareInv(task[t].share) /\ row[task[t].share] \in Row
         /\ JoinInv(task[t]) /\ LeaveInv(task[t])
         /\ task[t].op = "join" => task[t].step \in JoinSteps
         /\ task[t].op = "restore" => task[t].step \in RestoreSteps /\ task[t].cell \in Nat
         /\ task[t].op = "leave" => task[t].step \in LeaveSteps /\ task[t].cell \in Nat
<1>1. task[t] \in Calls \cup {Idle} /\ row \in [Shares -> Row]
  BY Typed
<1>2. task[t] # Idle /\ task[t].share \in Shares
  BY <1>1, CallKinds, IdleInv
<1>3. /\ task[t].op = "join" => task[t].step \in JoinSteps
      /\ task[t].op = "restore" => task[t].step \in RestoreSteps /\ task[t].cell \in Nat
      /\ task[t].op = "leave" => task[t].step \in LeaveSteps /\ task[t].cell \in Nat
  BY <1>1, CallKinds
<1> QED
  BY <1>1, <1>2, <1>3 DEF SharesIInv

\* A row with a column changed.
LEMMA RowTyped ==
  /\ NoRow \in Row /\ ~NoRow.exists /\ NoRow.label = NoLabel /\ NoRow.complete = "NULL"
  /\ ~NoRow.host /\ ~NoRow.info /\ ~NoRow.dead
BY DEF NoRow, Row

\* Steps of an unlisted join that leave it unlisted, and that of listing.
LEMMA JoinMove ==
  ASSUME SharesIInv, NEW t \in Tasks, NEW i \in Shares, NEW r \in Row, NEW s \in JoinSteps,
         task[t].op = "join", task[t].share = i, Unlisted(task[t]),
         row' = [row EXCEPT ![i] = r], Step(t, s),
         keys' = keys \/ keys' = keys \cup {i}, bound' = bound \/ bound' = bound \cup {i},
         UNCHANGED <<client, cells, history>>,
         r.exists, r.label \in (Names \X (1 .. MaxSuffix)) \cup {<<i, 0>>, NoLabel},
         r.complete = IF s = "listed" THEN "TRUE" ELSE "NULL",
         s # "row" => i \in bound',
         s \notin {"row", "activated"} => r.host,
         s \in {"saved", "info", "labelled", "listed"} => i \in keys',
         s \in {"info", "labelled", "listed"} => r.info,
         s \in {"labelled", "listed"} => r.label # NoLabel,
         LabelsUnique'
  PROVE  SharesIInv'
<1>1. PICK c : Onto(t, c) /\ c.op = "join" /\ c.share = i /\ c.step = s /\ c # Idle
  BY StepOnto
<1>2. row \in [Shares -> Row] /\ row'[i] = r /\ \A j \in Shares \ {i} : row'[j] = row[j]
  BY Typed
<1>3. Others(i) /\ RestTyped
  BY <1>2, Typed DEF Others, RestTyped, history
<1>4. ShareInv(i)
  BY DEF SharesIInv
<1>5. ShareInv(i)'
  BY <1>2, <1>4 DEF ShareInv, Listed
<1>6. JoinInv(c)' /\ LeaveInv(c)'
  BY <1>1, <1>2 DEF JoinInv, LeaveInv, Unlisted
<1>7. ShareMove(t, i, c)
  BY <1>1, <1>3, <1>5, <1>6, CallFacts DEF ShareMove
<1>8. CellsInv' /\ CellsTyped
  BY <1>1, Typed, CellsKept DEF cells, history
<1> QED
  BY <1>7, <1>8, MoveStep

LEMMA JoinWrites ==
  ASSUME SharesIInv, NEW t \in Tasks,
         join_activated(t) \/ join_located(t) \/ join_saved(t) \/ join_info(t) \/ join_listed(t)
  PROVE  SharesIInv'
<1>1. /\ task[t].op = "join" /\ task[t].step \in {"row", "activated", "located", "saved", "labelled"}
      /\ UNCHANGED <<client, cells, history>>
  BY DEF join_activated, join_located, join_saved, join_info, join_listed, At, store
<1>2. PICK i \in Shares : i = task[t].share
  BY <1>1, CallFacts
<1>3. /\ row[i] \in Row /\ ShareInv(i) /\ JoinInv(task[t]) /\ Unlisted(task[t]) /\ row \in [Shares -> Row]
  BY <1>1, <1>2, CallFacts, Typed DEF Unlisted
<1>4. /\ row[i].exists /\ row[i].complete = "NULL"
      /\ row[i].label \in (Names \X (1 .. MaxSuffix)) \cup {<<i, 0>>, NoLabel}
  BY <1>2, <1>3 DEF ShareInv, JoinInv
<1>5. row = [row EXCEPT ![i] = row[i]]
  BY <1>3
<1>6. CASE join_activated(t)
  <2>1. /\ row' = [row EXCEPT ![i] = row[i]] /\ bound' = bound \cup {i} /\ keys' = keys
        /\ Step(t, "activated") /\ "activated" \in JoinSteps
    BY <1>2, <1>5, <1>6 DEF join_activated, store, JoinSteps
  <2>2. LabelsUnique'
    BY <1>6, LabelsKept DEF join_activated, store
  <2> QED
    BY <1>1, <1>2, <1>3, <1>4, <2>1, <2>2, JoinMove
<1>7. CASE join_located(t)
  <2> DEFINE r == [row[i] EXCEPT !.host = TRUE]
  <2>1. r \in Row /\ r.exists = row[i].exists /\ r.label = row[i].label /\ r.complete = row[i].complete /\ r.host
    BY <1>3 DEF Row
  <2>2. /\ row' = [row EXCEPT ![i] = r] /\ bound' = bound /\ keys' = keys
        /\ Step(t, "located") /\ "located" \in JoinSteps /\ task[t].step = "activated"
    BY <1>2, <1>3, <1>7 DEF join_located, JoinSteps, Row, At
  <2> HIDE DEF r
  <2>3. LabelsUnique'
    BY <1>3, <2>1, <2>2, LabelsKept
  <2>4. i \in bound
    BY <1>2, <1>3, <2>2 DEF JoinInv
  <2> QED
    BY <1>1, <1>2, <1>3, <1>4, <2>1, <2>2, <2>3, <2>4, JoinMove
<1>8. CASE join_saved(t)
  <2>1. /\ row' = [row EXCEPT ![i] = row[i]] /\ keys' = keys \cup {i} /\ bound' = bound
        /\ Step(t, "saved") /\ "saved" \in JoinSteps /\ task[t].step = "located"
    BY <1>2, <1>5, <1>8 DEF join_saved, JoinSteps, At
  <2>2. LabelsUnique'
    BY <1>8, LabelsKept DEF join_saved
  <2>3. i \in bound /\ row[i].host
    BY <1>2, <1>3, <2>1 DEF JoinInv
  <2> QED
    BY <1>1, <1>2, <1>3, <1>4, <2>1, <2>2, <2>3, JoinMove
<1>9. CASE join_info(t)
  <2> DEFINE r == [row[i] EXCEPT !.info = TRUE]
  <2>1. /\ r \in Row /\ r.exists = row[i].exists /\ r.label = row[i].label
        /\ r.complete = row[i].complete /\ r.host = row[i].host /\ r.info
    BY <1>3 DEF Row
  <2>2. /\ row' = [row EXCEPT ![i] = r] /\ bound' = bound /\ keys' = keys
        /\ Step(t, "info") /\ "info" \in JoinSteps /\ task[t].step = "saved"
    BY <1>2, <1>3, <1>9 DEF join_info, JoinSteps, Row, At
  <2> HIDE DEF r
  <2>3. LabelsUnique'
    BY <1>3, <2>1, <2>2, LabelsKept
  <2>4. i \in bound /\ i \in keys /\ row[i].host
    BY <1>2, <1>3, <2>2 DEF JoinInv
  <2> QED
    BY <1>1, <1>2, <1>3, <1>4, <2>1, <2>2, <2>3, <2>4, JoinMove
<1>10. CASE join_listed(t)
  <2> DEFINE r == [row[i] EXCEPT !.complete = "TRUE"]
  <2>1. /\ r \in Row /\ r.exists = row[i].exists /\ r.label = row[i].label
        /\ r.complete = "TRUE" /\ r.host = row[i].host /\ r.info = row[i].info
    BY <1>3 DEF Row
  <2>2. /\ row' = [row EXCEPT ![i] = r] /\ bound' = bound /\ keys' = keys
        /\ Step(t, "listed") /\ "listed" \in JoinSteps /\ task[t].step = "labelled"
    BY <1>2, <1>3, <1>10 DEF join_listed, JoinSteps, Row, At
  <2> HIDE DEF r
  <2>3. LabelsUnique'
    BY <1>3, <2>1, <2>2, LabelsKept
  <2>4. i \in bound /\ i \in keys /\ row[i].host /\ row[i].info /\ row[i].label # NoLabel
    BY <1>2, <1>3, <2>2 DEF JoinInv
  <2> QED
    BY <1>1, <1>2, <1>3, <1>4, <2>1, <2>2, <2>3, <2>4, JoinMove
<1> QED
  BY <1>6, <1>7, <1>8, <1>9, <1>10

\* write_deduped_hostname: the label is one of the name's or the share's own,
\* and no other row has it.
LEMMA DedupedIsNew ==
  ASSUME SharesIInv, NEW i \in Shares, NEW name \in Names \cup {i}
  PROVE  /\ DedupedHostname(i, name) \in (Names \X (1 .. MaxSuffix)) \cup {<<i, 0>>}
         /\ DedupedHostname(i, name) # NoLabel
         /\ \A j \in Shares \ {i} : row[j].label # DedupedHostname(i, name)
<1>1. \A j \in Shares : /\ row[j].label \in (Names \X (1 .. MaxSuffix)) \cup {<<j, 0>>, NoLabel}
                        /\ ~row[j].exists => row[j].label = NoLabel
  BY RowTyped DEF SharesIInv, ShareInv
<1>2. CASE name = i \/ Candidates(i, name) = {}
  <2>1. DedupedHostname(i, name) = <<i, 0>>
    BY <1>2 DEF DedupedHostname
  <2>2. <<i, 0>> # NoLabel /\ <<i, 0>> \notin Names \X (1 .. MaxSuffix)
    BY DEF NoLabel
  <2>3. \A j \in Shares \ {i} : row[j].label # <<i, 0>>
    BY <1>1, <2>2
  <2> QED
    BY <2>1, <2>2, <2>3
<1>3. CASE name # i /\ Candidates(i, name) # {}
  <2> DEFINE C == Candidates(i, name)
             n == CHOOSE k \in C : \A m \in C : k <= m
  <2>1. C \subseteq Nat /\ C # {} /\ C \subseteq 1 .. MaxSuffix
    <3>1. C # {} /\ C \subseteq 1 .. MaxSuffix
      BY <1>3 DEF Candidates
    <3> HIDE DEF C
    <3>2. \A k \in 1 .. MaxSuffix : k \in Nat
      BY SuffixAssumption
    <3> QED
      BY <3>1, <3>2
  <2>2. n \in C
    <3>1. PICK x \in C : \A y \in C : ~(<<y, x>> \in OpToRel(<, Nat))
      BY <2>1, NatLessThanWellFounded, WFMin
    <3>2. OpToRel(<, Nat) = {p \in Nat \X Nat : p[1] < p[2]}
      BY DEF OpToRel
    <3>3. \A y \in C : x <= y
      <4> SUFFICES ASSUME NEW y \in C
                   PROVE  x <= y
        OBVIOUS
      <4>1. x \in Nat /\ y \in Nat
        BY <2>1
      <4>2. ~(y < x)
        BY <3>1, <3>2, <4>1
      <4> QED
        BY <4>1, <4>2
    <3> QED
      BY <3>3
  <2>3. DedupedHostname(i, name) = <<name, n>>
    BY <1>3 DEF DedupedHostname
  <2> HIDE DEF n
  <2>4. n \in 1 .. MaxSuffix /\ \A j \in Shares \ {i} : row[j].exists => row[j].label # <<name, n>>
    BY <2>2 DEF Candidates
  <2>5. name \in Names /\ <<name, n>> # NoLabel
    BY <1>3 DEF NoLabel
  <2> QED
    BY <1>1, <2>3, <2>4, <2>5
<1> QED
  BY <1>2, <1>3

LEMMA JoinLabels ==
  ASSUME SharesIInv, NEW t \in Tasks, NEW name \in Names \cup {task[t].share}, join_labelled(t, name)
  PROVE  SharesIInv'
<1>1. task[t].op = "join" /\ task[t].step = "info" /\ UNCHANGED <<client, cells, history>>
  BY DEF join_labelled, At
<1>2. PICK i \in Shares : i = task[t].share
  BY <1>1, CallFacts
<1>3. /\ row[i] \in Row /\ JoinInv(task[t]) /\ Unlisted(task[t]) /\ row \in [Shares -> Row]
  BY <1>1, <1>2, CallFacts, Typed DEF Unlisted
<1> DEFINE l == DedupedHostname(i, name)
           r == [row[i] EXCEPT !.label = l]
<1>4. /\ l \in (Names \X (1 .. MaxSuffix)) \cup {<<i, 0>>} /\ l # NoLabel
      /\ \A j \in Shares \ {i} : row[j].label # l
  BY <1>2, DedupedIsNew
<1>5. row' = [row EXCEPT ![i] = r]
  BY <1>2, <1>3 DEF join_labelled, Row
<1> HIDE DEF l
<1>6. /\ r \in Row /\ r.exists = row[i].exists /\ r.label = l
      /\ r.complete = row[i].complete /\ r.host = row[i].host /\ r.info = row[i].info
  <2>1. l \in Labels
    BY <1>4 DEF Labels
  <2> QED
    BY <1>3, <2>1 DEF Row
<1> HIDE DEF r
<1>7. LabelsUnique'
  <2>1. row'[i].label = l /\ \A j \in Shares \ {i} : row'[j] = row[j]
    BY <1>3, <1>5, <1>6
  <2>2. LabelsUnique
    BY DEF SharesIInv
  <2> QED
    BY <1>4, <2>1, <2>2 DEF LabelsUnique
<1>8. /\ i \in bound /\ i \in keys /\ row[i].exists /\ row[i].complete = "NULL"
      /\ row[i].host /\ row[i].info
  BY <1>1, <1>2, <1>3 DEF JoinInv
<1>9. bound' = bound /\ keys' = keys /\ Step(t, "labelled") /\ "labelled" \in JoinSteps
  BY DEF join_labelled, JoinSteps
<1> QED
  BY <1>1, <1>2, <1>3, <1>4, <1>5, <1>6, <1>7, <1>8, <1>9, JoinMove

LEMMA JoinBegins ==
  ASSUME SharesIInv, NEW t \in Tasks, NEW i \in Shares, join(t, i)
  PROVE  SharesIInv'
<1> DEFINE r == [row[i] EXCEPT !.exists = TRUE]
           c == [op |-> "join", share |-> i, step |-> "row"]
<1>1. /\ task[t] = Idle /\ ~row[i].exists /\ i \notin keys /\ i \notin bound
      /\ UNCHANGED <<client, keys, bound, cells, history>>
      /\ row \in [Shares -> Row] /\ row[i] \in Row
  BY Typed DEF join
<1>2. Alone(t, i)
  BY DEF join, Alone
<1>3. /\ c \in [op : {"join"}, share : Shares, step : JoinSteps]
      /\ c.op = "join" /\ c.share = i /\ c.step = "row"
  BY DEF JoinSteps
<1>4. task' = [task EXCEPT ![t] = c] /\ row' = [row EXCEPT ![i] = r]
  BY <1>1 DEF join, Row
<1> HIDE DEF c
<1>5. Onto(t, c) /\ c # Idle
  BY <1>3, <1>4 DEF Onto, Calls, Idle
<1>6. ShareInv(i)
  BY DEF SharesIInv
<1>7. /\ r \in Row /\ r.exists /\ r.label = NoLabel /\ r.complete = "NULL"
  <2>1. row[i] = NoRow
    BY <1>1, <1>6 DEF ShareInv
  <2> QED
    BY <1>1, <2>1, RowTyped DEF Row
<1> HIDE DEF r
<1>8. row'[i] = r /\ \A j \in Shares \ {i} : row'[j] = row[j]
  BY <1>1, <1>4
<1>9. Others(i) /\ RestTyped
  BY <1>1, <1>4, <1>7, <1>8, Typed DEF Others, RestTyped, history
<1>10. ShareInv(i)'
  BY <1>1, <1>7, <1>8 DEF ShareInv, Listed
<1>11. JoinInv(c)' /\ LeaveInv(c)'
  BY <1>3, <1>7, <1>8 DEF JoinInv, LeaveInv
<1>12. ShareMove(t, i, c)
  BY <1>1, <1>2, <1>3, <1>5, <1>9, <1>10, <1>11 DEF ShareMove
<1>13. CellsInv' /\ CellsTyped
  BY <1>1, <1>3, <1>5, Typed, CellsKept DEF cells, history
<1>14. LabelsUnique'
  BY <1>7, <1>8, LabelsKept
<1> QED
  BY <1>12, <1>13, <1>14, MoveStep

LEMMA JoinEnds ==
  ASSUME SharesIInv, NEW t \in Tasks, join_returns(t) \/ join_fails(t) \/ join_answer_lost(t)
  PROVE  SharesIInv'
<1>1. task[t].op = "join" /\ Return(t) /\ UNCHANGED <<client, keys, cells, left, untold, kept>>
  BY DEF join_returns, join_fails, join_answer_lost, At, store, history
<1>2. PICK i \in Shares : i = task[t].share
  BY <1>1, CallFacts
<1>3. Onto(t, Idle) /\ task[t] # Idle
  BY <1>1, ReturnOnto, CallFacts
<1>4. CellsInv' /\ CellsTyped
  BY <1>1, <1>3, Typed, CellsKept, IdleInv DEF cells
<1>5. CASE join_returns(t)
  <2>1. UNCHANGED <<client, row, keys, bound, failed, left, untold, kept>> /\ LeaveInv(Idle)
    BY <1>5, IdleInv DEF join_returns, store, history, LeaveInv
  <2>2. ShareMove(t, i, Idle) /\ LabelsUnique'
    BY <1>2, <1>3, <2>1, QuietMove, IdleInv
  <2> QED
    BY <1>4, <2>2, MoveStep
<1>6. CASE join_fails(t) \/ join_answer_lost(t)
  <2>1. /\ row' = row \/ row' = [row EXCEPT ![i] = NoRow]
        /\ failed' = failed \cup {i}
        /\ bound' = bound \/ (bound' = bound \cup {i} /\ Unlisted(task[t]))
    BY <1>2, <1>6 DEF join_fails, join_answer_lost, At, Unlisted
  <2>2. row \in [Shares -> Row] /\ row' \in [Shares -> Row]
    BY <2>1, Typed, RowTyped
  <2>3. row'[i] \in {row[i], NoRow} /\ \A j \in Shares \ {i} : row'[j] = row[j]
    BY <2>1, <2>2
  <2>4. Others(i) /\ RestTyped
    BY <1>1, <2>1, <2>2, <2>3, Typed DEF Others, RestTyped
  <2>5. ShareInv(i)
    BY DEF SharesIInv
  <2>6. ShareInv(i)'
    <3>1. CASE row'[i] = NoRow
      BY <1>1, <2>1, <3>1, RowTyped DEF ShareInv, Listed
    <3>2. CASE row'[i] = row[i]
      BY <1>1, <2>1, <2>5, <3>2 DEF ShareInv, Listed
    <3> QED
      BY <2>3, <3>1, <3>2
  <2>7. JoinInv(Idle)' /\ LeaveInv(Idle)'
    BY IdleInv DEF JoinInv, LeaveInv, Unlisted
  <2>8. ShareMove(t, i, Idle)
    BY <1>1, <1>2, <1>3, <2>1, <2>4, <2>6, <2>7, IdleInv DEF ShareMove
  <2>9. LabelsUnique'
    BY <2>3, LabelsKept, RowTyped
  <2> QED
    BY <1>4, <2>8, <2>9, MoveStep
<1> QED
  BY <1>5, <1>6

-----------------------------------------------------------------------------
(* Client::restore_guest_node *)

\* A share without a cell in the map has one to give it: there is one cell more
\* than there are calls.
LEMMA NewCellFree ==
  ASSUME SharesIInv, NEW i \in Shares, cellOf[i] = 0
  PROVE  NewCell(i) \in Cells /\ NewCell(i) \in Nat /\ NewCell(i) # 0
<1> DEFINE H == {u \in Tasks : task[u].op \in {"restore", "leave"}}
           f == [u \in H |-> task[u].cell]
           held == {task[u].cell : u \in H}
<1>1. IsFiniteSet(H) /\ Cardinality(H) <= Cardinality(Tasks)
  BY TasksAssumption, FS_Subset
<1>2. f \in Surjection(H, held)
  BY DEF Surjection
<1>3. IsFiniteSet(held) /\ Cardinality(held) <= Cardinality(H)
  BY <1>1, <1>2, FS_Surjection
<1>4. Cardinality(Tasks) \in Nat /\ Cardinality(H) \in Nat /\ Cardinality(held) \in Nat
  BY <1>1, <1>3, TasksAssumption, FS_CardinalityType
<1>5. Cardinality(Cells) = Cardinality(Tasks) + 1
  BY <1>4, FS_Interval DEF Cells
<1>6. ~(Cells \subseteq held)
  <2> SUFFICES ASSUME Cells \subseteq held PROVE FALSE
    OBVIOUS
  <2>1. Cardinality(Cells) <= Cardinality(held)
    BY <1>3, FS_Subset
  <2> QED
    BY <1>1, <1>3, <1>4, <1>5, <2>1
<1>7. PICK n \in Cells : n \notin held
  BY <1>6
<1>8. n # 0 /\ \A k \in Cells : k \in Nat /\ k # 0
  BY <1>4, <1>7 DEF Cells
<1>9. ~Owned(<<i, n>>, Tasks)
  BY <1>7, <1>8 DEF Owned, CellOf
<1>10. NewCell(i) \in Cells
  BY <1>7, <1>9 DEF NewCell
<1> QED
  BY <1>8, <1>10

LEMMA RestoreBegins ==
  ASSUME SharesIInv, NEW t \in Tasks, NEW i \in Shares, restore(t, i)
  PROVE  SharesIInv'
<1> DEFINE c == [op |-> "restore", share |-> i, step |-> "found", cell |-> 0]
<1>1. /\ task[t] = Idle /\ Listed(i) /\ task' = [task EXCEPT ![t] = c]
      /\ UNCHANGED <<client, row, keys, bound, failed, left, untold, kept>> /\ UNCHANGED cells
  BY DEF restore, store, history
<1>2. /\ c \in [op : {"restore"}, share : Shares, step : RestoreSteps, cell : Nat]
      /\ c.op = "restore" /\ c.share = i /\ c.step = "found"
  BY DEF RestoreSteps
<1> HIDE DEF c
<1>3. Onto(t, c) /\ ~Unlisted(c) /\ LeaveInv(c)
  BY <1>1, <1>2 DEF Onto, Calls, Unlisted, LeaveInv
<1>4. ShareMove(t, i, c) /\ LabelsUnique'
  BY <1>1, <1>2, <1>3, QuietMove
<1>5. CellsInv' /\ CellsTyped
  BY <1>1, <1>2, <1>3, Typed, CellsKept DEF cells
<1> QED
  BY <1>4, <1>5, MoveStep

\* Steps that get no cell and set none.
LEMMA RestoreReads ==
  ASSUME SharesIInv, NEW t \in Tasks,
         \/ restore_dead(t) \/ restore_cached(t) \/ restore_begins(t)
         \/ restore_lacks_key(t) \/ restore_fails(t)
  PROVE  SharesIInv'
<1>1. /\ task[t].op = "restore"
      /\ UNCHANGED <<client, row, keys, bound, failed, left, untold, kept>> /\ UNCHANGED cells
  BY DEF restore_dead, restore_cached, restore_begins, restore_lacks_key, restore_fails,
         At, store, history
<1>2. PICK i \in Shares : i = task[t].share
  BY <1>1, CallFacts
<1>3. task[t] # Idle
  BY <1>1, CallFacts
<1>4. CASE Return(t)
  <2>1. Onto(t, Idle) /\ LeaveInv(Idle)
    BY <1>4, ReturnOnto, IdleInv DEF LeaveInv
  <2>2. ShareMove(t, i, Idle) /\ LabelsUnique'
    BY <1>1, <1>2, <1>3, <2>1, QuietMove, IdleInv
  <2>3. CellsInv' /\ CellsTyped
    BY <1>1, <2>1, Typed, CellsKept, IdleInv DEF cells
  <2> QED
    BY <2>2, <2>3, MoveStep
<1>5. CASE restore_cached(t) \/ restore_begins(t)
  <2>1. PICK s \in {"using", "binding"} : Step(t, s)
    BY <1>5 DEF restore_cached, restore_begins
  <2>2. task[t].step = "cell" /\ s \in RestoreSteps
    BY <1>5 DEF restore_cached, restore_begins, At, RestoreSteps
  <2>3. PICK c : /\ Onto(t, c) /\ c.op = "restore" /\ c.share = i /\ c.step = s
                 /\ c.cell = task[t].cell /\ c # Idle
    BY <1>1, <1>2, <2>1, <2>2, StepOnto
  <2>4. ~Unlisted(c) /\ LeaveInv(c)
    BY <2>3 DEF Unlisted, LeaveInv
  <2>5. ShareMove(t, i, c) /\ LabelsUnique'
    BY <1>1, <1>2, <1>3, <2>3, <2>4, QuietMove
  <2>6. CellsInv' /\ CellsTyped
    BY <1>1, <1>2, <2>2, <2>3, Typed, CellsKept DEF cells
  <2> QED
    BY <2>5, <2>6, MoveStep
<1> QED
  BY <1>4, <1>5 DEF restore_dead, restore_lacks_key, restore_fails

LEMMA RestoreCell ==
  ASSUME SharesIInv, NEW t \in Tasks, restore_cell(t)
  PROVE  SharesIInv'
<1>1. /\ task[t].op = "restore" /\ task[t].step = "found"
      /\ UNCHANGED <<client, row, keys, bound, failed, left, untold, kept, filled, nodes>>
  BY DEF restore_cell, At, store, history
<1>2. PICK i \in Shares : i = task[t].share
  BY <1>1, CallFacts
<1>3. /\ task[t] # Idle /\ task \in [Tasks -> Calls \cup {Idle}] /\ cellOf \in [Shares -> Nat]
      /\ task[t] \in [op : {"restore"}, share : Shares, step : RestoreSteps, cell : Nat]
  BY <1>1, CallFacts, Typed, CallKinds
<1>4. PICK n : /\ n = IF cellOf[i] = 0 THEN NewCell(i) ELSE cellOf[i]
               /\ cellOf' = [cellOf EXCEPT ![i] = n]
               /\ task' = [task EXCEPT ![t].step = "cell", ![t].cell = n]
  BY <1>2 DEF restore_cell
<1>5. n \in Nat /\ n # 0
  BY <1>3, <1>4, NewCellFree
<1> DEFINE c == [task[t] EXCEPT !.step = "cell", !.cell = n]
<1>6. /\ c \in [op : {"restore"}, share : Shares, step : RestoreSteps, cell : Nat]
      /\ c.op = "restore" /\ c.share = i /\ c.step = "cell" /\ c.cell = n
  BY <1>2, <1>3, <1>5 DEF RestoreSteps
<1>7. task' = [task EXCEPT ![t] = c]
  BY <1>3, <1>4
<1> HIDE DEF c
<1>8. Onto(t, c) /\ ~Unlisted(c) /\ LeaveInv(c)
  BY <1>6, <1>7 DEF Onto, Calls, Unlisted, LeaveInv
<1>9. ShareMove(t, i, c) /\ LabelsUnique'
  BY <1>1, <1>2, <1>3, <1>6, <1>8, QuietMove
<1>10. task'[t] = c /\ \A u \in Tasks \ {t} : task'[u] = task[u]
  BY <1>8, OntoTask
<1>11. /\ cellOf' \in [Shares -> Nat] /\ cellOf'[i] = n /\ (cellOf[i] # 0 => n = cellOf[i])
       /\ \A j \in Shares \ {i} : cellOf'[j] = cellOf[j]
  BY <1>3, <1>4, <1>5
<1>12. CellsInv /\ filled \subseteq Shares \X Nat /\ nodes \subseteq filled
  BY Typed DEF SharesIInv
<1>13. CellsInv'
  <2>1. ASSUME NEW u \in Tasks, task'[u].op = "restore", task'[u].step # "found",
               task'[u].share \notin left
        PROVE  task'[u].cell = cellOf'[task'[u].share] /\ task'[u].cell # 0
    <3>1. CASE u = t
      BY <1>5, <1>6, <1>10, <1>11, <3>1
    <3>2. CASE u # t
      <4>1. task'[u] = task[u] /\ task[u].share \in Shares
        BY <1>10, <2>1, <3>2, CallFacts
      <4>2. task[u].cell = cellOf[task[u].share] /\ task[u].cell # 0
        BY <1>12, <2>1, <4>1 DEF CellsInv
      <4> QED
        BY <1>11, <4>1, <4>2
    <3> QED
      BY <3>1, <3>2
  <2>2. ASSUME NEW d \in filled, d[1] \notin left
        PROVE  d[2] = cellOf'[d[1]] /\ d[2] # 0
    <3>1. d[1] \in Shares /\ d[2] = cellOf[d[1]] /\ d[2] # 0
      BY <1>12, <2>2 DEF CellsInv
    <3> QED
      BY <1>11, <3>1
  <2> QED
    BY <1>1, <2>1, <2>2 DEF CellsInv
<1>14. CellsTyped
  BY <1>1, <1>11, <1>12 DEF CellsTyped
<1> QED
  BY <1>9, <1>13, <1>14, MoveStep

LEMMA RestoreBound ==
  ASSUME SharesIInv, NEW t \in Tasks, restore_bound(t)
  PROVE  SharesIInv'
<1>1. /\ task[t].op = "restore" /\ task[t].step = "binding" /\ cellOf' = cellOf
      /\ UNCHANGED <<client, row, keys, bound, failed, left, untold, kept>>
      /\ filled' = filled \cup {CellOf(t)} /\ nodes' = nodes \cup {CellOf(t)} /\ Step(t, "using")
  BY DEF restore_bound, At, store, history
<1>2. PICK i \in Shares : i = task[t].share
  BY <1>1, CallFacts
<1>3. task[t] # Idle /\ task[t].cell \in Nat
  BY <1>1, CallFacts
<1>4. PICK c : /\ Onto(t, c) /\ c.op = "restore" /\ c.share = i /\ c.step = "using"
               /\ c.cell = task[t].cell /\ c # Idle
  BY <1>1, <1>2, StepOnto DEF RestoreSteps
<1>5. ~Unlisted(c) /\ LeaveInv(c)
  BY <1>4 DEF Unlisted, LeaveInv
<1>6. ShareMove(t, i, c) /\ LabelsUnique'
  BY <1>1, <1>2, <1>3, <1>4, <1>5, QuietMove
<1>7. task'[t] = c /\ \A u \in Tasks \ {t} : task'[u] = task[u]
  BY <1>4, OntoTask
<1>8. /\ CellsInv /\ filled \subseteq Shares \X Nat /\ nodes \subseteq filled
      /\ cellOf \in [Shares -> Nat]
  BY Typed DEF SharesIInv
<1>9. CellOf(t) = <<i, task[t].cell>> /\ (i \notin left => task[t].cell = cellOf[i] /\ task[t].cell # 0)
  BY <1>1, <1>2, <1>8 DEF CellOf, CellsInv
<1>10. CellsInv'
  <2>1. ASSUME NEW u \in Tasks, task'[u].op = "restore", task'[u].step # "found",
               task'[u].share \notin left
        PROVE  task'[u].cell = cellOf[task'[u].share] /\ task'[u].cell # 0
    <3>1. CASE u = t
      BY <1>4, <1>7, <1>9, <2>1, <3>1
    <3>2. CASE u # t
      BY <1>7, <1>8, <2>1, <3>2 DEF CellsInv
    <3> QED
      BY <3>1, <3>2
  <2>2. ASSUME NEW d \in filled', d[1] \notin left
        PROVE  d[2] = cellOf[d[1]] /\ d[2] # 0
    <3>1. CASE d \in filled
      BY <1>8, <2>2, <3>1 DEF CellsInv
    <3>2. CASE d = CellOf(t)
      BY <1>9, <2>2, <3>2
    <3> QED
      BY <1>1, <2>2, <3>1, <3>2
  <2> QED
    BY <1>1, <2>1, <2>2 DEF CellsInv
<1>11. CellsTyped
  BY <1>1, <1>3, <1>8, <1>9 DEF CellsTyped
<1> QED
  BY <1>6, <1>10, <1>11, MoveStep

\* A call that returns and lets go of its cell.
LEMMA DroppingCells ==
  ASSUME SharesIInv, NEW t \in Tasks, ReturnDropping(t), cellOf' = cellOf, left' = left
  PROVE  Onto(t, Idle) /\ CellsInv' /\ CellsTyped
<1>1. Onto(t, Idle)
  BY ReturnOnto DEF ReturnDropping
<1>2. filled' \subseteq filled /\ nodes' \subseteq filled'
  BY Typed DEF ReturnDropping
<1> QED
  BY <1>1, <1>2, CellsKept, IdleInv

LEMMA RestoreUsed ==
  ASSUME SharesIInv, NEW t \in Tasks, restore_used(t)
  PROVE  SharesIInv'
<1>1. /\ task[t].op = "restore" /\ ReturnDropping(t)
      /\ UNCHANGED <<client, keys, bound, cellOf, failed, left, untold, kept>>
  BY DEF restore_used, At, history
<1>2. PICK i \in Shares : i = task[t].share
  BY <1>1, CallFacts
<1>3. /\ task[t] # Idle /\ row \in [Shares -> Row] /\ row[i] \in Row /\ ShareInv(i)
  BY <1>1, <1>2, CallFacts, Typed
<1> DEFINE r == [row[i] EXCEPT !.dead = row[i].exists]
<1>4. /\ r \in Row /\ r.exists = row[i].exists /\ r.label = row[i].label /\ r.host = row[i].host
      /\ r.info = row[i].info /\ r.complete = row[i].complete
  BY <1>3 DEF Row
<1>5. ~row[i].exists => r = row[i]
  <2>1. ~row[i].exists => row[i].dead = row[i].exists
    BY <1>3, RowTyped DEF ShareInv, Row
  <2> QED
    BY <1>3, <2>1 DEF Row
<1>6. row' = row \/ row' = [row EXCEPT ![i] = r]
  BY <1>2, <1>3 DEF restore_used, Row
<1> HIDE DEF r
<1>7. /\ row' \in [Shares -> Row] /\ row'[i] \in {row[i], r}
      /\ \A j \in Shares \ {i} : row'[j] = row[j]
  BY <1>3, <1>4, <1>6
<1>8. Others(i) /\ RestTyped
  BY <1>1, <1>7, Typed DEF Others, RestTyped
<1>9. ShareInv(i)'
  <2>1. /\ row'[i].exists = row[i].exists /\ row'[i].label = row[i].label /\ row'[i].host = row[i].host
        /\ row'[i].info = row[i].info /\ row'[i].complete = row[i].complete
        /\ ~row[i].exists => row'[i] = row[i]
    BY <1>4, <1>5, <1>7
  <2> QED
    BY <1>1, <1>3, <2>1 DEF ShareInv, Listed
<1>10. Onto(t, Idle) /\ CellsInv' /\ CellsTyped
  BY <1>1, DroppingCells
<1>11. JoinInv(Idle)' /\ LeaveInv(Idle)'
  BY IdleInv DEF JoinInv, LeaveInv, Unlisted
<1>12. ShareMove(t, i, Idle)
  BY <1>1, <1>2, <1>3, <1>8, <1>9, <1>10, <1>11, IdleInv DEF ShareMove
<1>13. LabelsUnique'
  BY <1>4, <1>7, LabelsKept
<1> QED
  BY <1>10, <1>12, <1>13, MoveStep

-----------------------------------------------------------------------------
(* Client::leave *)

\* A leave forgets the key only once the host node was told or is known not to
\* be, and the row only once the key is gone or known to stay.
LEMMA LeaveMove ==
  ASSUME SharesIInv, NEW t \in Tasks, NEW i \in Shares, NEW c,
         task[t].op = "leave", task[t].share = i, Onto(t, c),
         c = Idle \/ (c.op = "leave" /\ c.share = i),
         client' = client, failed' = failed, left' = left,
         untold' = untold \/ untold' = untold \cup {i},
         kept' = kept \/ kept' = kept \cup {i},
         bound' = bound \/ bound' = bound \ {i},
         keys' = keys \/ (keys' = keys \ {i} /\ (i \notin bound' \/ i \in untold')),
         \/ row' = row
         \/ /\ row' = [row EXCEPT ![i] = NoRow]
            /\ i \notin keys' \/ i \in kept'
            /\ i \notin bound' \/ i \in untold',
         (LeaveInv(c))'
  PROVE  ShareMove(t, i, c) /\ LabelsUnique'
<1>1. /\ task[t] # Idle /\ ShareInv(i) /\ LeaveInv(task[t]) /\ row[i] \in Row
  BY CallFacts
<1>2. i \in left
  BY <1>1 DEF LeaveInv
<1>3. /\ row \in [Shares -> Row] /\ keys \subseteq Shares /\ bound \subseteq Shares
      /\ NoRow \in Row /\ NoRow.label = NoLabel /\ ~NoRow.exists
  BY Typed, RowTyped
<1>4. row' \in [Shares -> Row] /\ \A j \in Shares \ {i} : row'[j] = row[j]
  BY <1>3
<1>5. row'[i] \in {row[i], NoRow}
  BY <1>3
<1>6. RestTyped
  BY <1>4, Typed DEF RestTyped
<1>7. Others(i)
  BY <1>4 DEF Others
<1>8. ~Unlisted(c) /\ ~Unlisted(task[t])
  BY IdleInv DEF Unlisted
<1>9. (JoinInv(c))'
  BY <1>8 DEF JoinInv, Unlisted
<1>10. ShareInv(i)'
  <2>1. CASE row' = row
    BY <1>1, <1>2, <2>1 DEF ShareInv, Listed
  <2>2. CASE row' # row
    <3>1. row'[i] = NoRow /\ (i \notin keys' \/ i \in kept') /\ (i \notin bound' \/ i \in untold')
      BY <1>3, <2>2
    <3> QED
      BY <1>3, <3>1 DEF ShareInv, Listed
  <2> QED
    BY <2>1, <2>2
<1>11. LabelsUnique'
  BY <1>3, <1>4, <1>5, LabelsKept
<1>12. (i \in bound' => i \in bound) /\ (i \in keys' => i \in keys)
  OBVIOUS
<1> QED
  BY <1>1, <1>6, <1>7, <1>8, <1>9, <1>10, <1>11, <1>12, IdleInv DEF ShareMove

LEMMA LeaveBegins ==
  ASSUME SharesIInv, NEW t \in Tasks, NEW i \in Shares, leave(t, i)
  PROVE  SharesIInv'
<1> DEFINE c == [op |-> "leave", share |-> i, step |-> "found", cell |-> 0]
<1>1. /\ task[t] = Idle /\ Listed(i) /\ task' = [task EXCEPT ![t] = c]
      /\ left' = left \cup {i} /\ UNCHANGED <<client, row, keys, bound, failed, untold, kept>>
      /\ UNCHANGED cells
  BY DEF leave, store
<1>2. /\ c \in [op : {"leave"}, share : Shares, step : LeaveSteps, cell : Nat]
      /\ c.op = "leave" /\ c.share = i /\ c.step = "found"
  BY DEF LeaveSteps
<1> HIDE DEF c
<1>3. Onto(t, c) /\ ~Unlisted(c)
  BY <1>1, <1>2 DEF Onto, Calls, Unlisted
<1>4. (LeaveInv(c))' /\ (JoinInv(c))'
  BY <1>1, <1>2, <1>3 DEF LeaveInv, JoinInv, Unlisted
<1>5. RestTyped /\ Others(i)
  BY <1>1, Typed DEF RestTyped, Others
<1>6. ShareInv(i)
  BY DEF SharesIInv
<1>7. ShareInv(i)'
  BY <1>1, <1>6 DEF ShareInv, Listed
<1>8. ShareMove(t, i, c)
  BY <1>1, <1>2, <1>3, <1>4, <1>5, <1>7 DEF ShareMove
<1>9. LabelsUnique'
  BY <1>1, LabelsKept
<1>10. CellsInv' /\ CellsTyped
  BY <1>1, <1>2, <1>3, Typed, CellsKept DEF cells
<1> QED
  BY <1>8, <1>9, <1>10, MoveStep

\* The share's cell leaves the map: nothing is promised of its cells any more.
LEMMA LeaveTaken ==
  ASSUME SharesIInv, NEW t \in Tasks, leave_taken(t)
  PROVE  SharesIInv'
<1>1. /\ task[t].op = "leave" /\ task[t].step = "found"
      /\ UNCHANGED <<client, row, keys, bound, failed, left, untold, kept, filled, nodes>>
  BY DEF leave_taken, At, store, history
<1>2. PICK i \in Shares : i = task[t].share
  BY <1>1, CallFacts
<1>3. /\ task[t] # Idle /\ task \in [Tasks -> Calls \cup {Idle}] /\ cellOf \in [Shares -> Nat]
      /\ task[t] \in [op : {"leave"}, share : Shares, step : LeaveSteps, cell : Nat]
      /\ LeaveInv(task[t])
  BY <1>1, CallFacts, Typed, CallKinds
<1>4. PICK n \in Nat : n = cellOf[i]
  BY <1>3
<1>5. PICK c : c = [task[t] EXCEPT !.step = "close", !.cell = n]
  OBVIOUS
<1>6. /\ c \in [op : {"leave"}, share : Shares, step : LeaveSteps, cell : Nat]
      /\ c.op = "leave" /\ c.share = i /\ c.step = "close"
  BY <1>2, <1>3, <1>5 DEF LeaveSteps
<1>7. task' = [task EXCEPT ![t] = c] /\ cellOf' = [cellOf EXCEPT ![i] = 0]
  BY <1>2, <1>3, <1>4, <1>5 DEF leave_taken
<1>8. Onto(t, c) /\ i \in left
  BY <1>1, <1>2, <1>3, <1>6, <1>7 DEF Onto, Calls, LeaveInv
<1>9. (LeaveInv(c))'
  BY <1>1, <1>6, <1>8 DEF LeaveInv
<1>10. ShareMove(t, i, c) /\ LabelsUnique'
  BY <1>1, <1>2, <1>6, <1>8, <1>9, LeaveMove
<1>11. task'[t] = c /\ \A u \in Tasks \ {t} : task'[u] = task[u]
  BY <1>8, OntoTask
<1>12. cellOf' \in [Shares -> Nat] /\ \A j \in Shares \ {i} : cellOf'[j] = cellOf[j]
  BY <1>3, <1>7
<1>13. CellsInv /\ filled \subseteq Shares \X Nat /\ nodes \subseteq filled
  BY Typed DEF SharesIInv
<1>14. CellsInv'
  <2>1. ASSUME NEW u \in Tasks, task'[u].op = "restore", task'[u].step # "found",
               task'[u].share \notin left
        PROVE  task'[u].cell = cellOf'[task'[u].share] /\ task'[u].cell # 0
    <3>1. u # t /\ task'[u] = task[u]
      BY <1>6, <1>11, <2>1
    <3>2. task[u].share \in Shares /\ task[u].share # i
      BY <1>8, <2>1, <3>1, CallFacts
    <3>3. task[u].cell = cellOf[task[u].share] /\ task[u].cell # 0
      BY <1>13, <2>1, <3>1 DEF CellsInv
    <3> QED
      BY <1>12, <3>1, <3>2, <3>3
  <2>2. ASSUME NEW d \in filled, d[1] \notin left
        PROVE  d[2] = cellOf'[d[1]] /\ d[2] # 0
    <3>1. d[1] \in Shares /\ d[1] # i /\ d[2] = cellOf[d[1]] /\ d[2] # 0
      BY <1>8, <1>13, <2>2 DEF CellsInv
    <3> QED
      BY <1>12, <3>1
  <2> QED
    BY <1>1, <2>1, <2>2 DEF CellsInv
<1>15. CellsTyped
  BY <1>1, <1>12, <1>13 DEF CellsTyped
<1> QED
  BY <1>10, <1>14, <1>15, MoveStep

\* The steps between taking the cell and deleting the row.
LEMMA LeaveGoesOn ==
  ASSUME SharesIInv, NEW t \in Tasks,
         \/ leave_closed(t) \/ leave_dials(t) \/ leave_told(t)
         \/ leave_not_told(t) \/ leave_forgot(t)
  PROVE  SharesIInv'
<1>1. task[t].op = "leave" /\ UNCHANGED <<client, row, cellOf, filled, failed, left>>
  BY DEF leave_closed, leave_dials, leave_told, leave_not_told, leave_forgot, At,
         store, cells, history
<1>2. PICK i \in Shares : i = task[t].share
  BY <1>1, CallFacts
<1>3. LeaveInv(task[t]) /\ i \in left
  BY <1>1, <1>2, CallFacts DEF LeaveInv
<1>4. nodes' \subseteq filled'
  BY <1>1, Typed DEF leave_closed, leave_dials, leave_told, leave_not_told, leave_forgot, cells
<1>5. PICK s \in {"tell", "telling", "forget", "delete"} :
        /\ Step(t, s)
        /\ untold' = untold \/ untold' = untold \cup {i}
        /\ kept' = kept \/ kept' = kept \cup {i}
        /\ bound' = bound \/ bound' = bound \ {i}
        /\ keys' = keys \/ (keys' = keys \ {i} /\ (i \notin bound' \/ i \in untold'))
        /\ s \in {"forget", "delete"} => i \notin bound' \/ i \in untold'
        /\ s = "delete" => i \notin keys' \/ i \in kept'
  <2>1. CASE leave_closed(t) \/ leave_dials(t)
    BY <2>1 DEF leave_closed, leave_dials, store, history
  <2>2. CASE leave_told(t)
    <3>1. Step(t, "forget") /\ bound' = bound \ {i} /\ UNCHANGED <<keys, untold, kept>>
      BY <1>2, <2>2 DEF leave_told, store, history
    <3> QED
      BY <3>1
  <2>3. CASE leave_not_told(t)
    <3>1. /\ Step(t, "forget") /\ untold' = untold \cup {i} /\ UNCHANGED <<keys, kept>>
          /\ bound' = bound \/ bound' = bound \ {i}
      BY <1>2, <2>3 DEF leave_not_told, store
    <3> QED
      BY <3>1
  <2>4. CASE leave_forgot(t)
    <3>1. /\ Step(t, "delete") /\ UNCHANGED <<bound, untold>>
          /\ \/ keys' = keys \ {i} /\ kept' = kept
             \/ keys' = keys /\ kept' = kept \cup {i}
      BY <1>2, <2>4 DEF leave_forgot
    <3>2. i \notin bound \/ i \in untold
      BY <1>1, <1>2, <1>3, <2>4 DEF leave_forgot, At, LeaveInv
    <3> QED
      BY <3>1, <3>2
  <2> QED
    BY <2>1, <2>2, <2>3, <2>4
<1>6. s \in LeaveSteps
  BY DEF LeaveSteps
<1>7. PICK c : Onto(t, c) /\ c.op = "leave" /\ c.share = i /\ c.step = s /\ c # Idle
  BY <1>1, <1>2, <1>5, <1>6, StepOnto
<1>8. (LeaveInv(c))'
  BY <1>1, <1>3, <1>5, <1>7 DEF LeaveInv
<1>9. ShareMove(t, i, c) /\ LabelsUnique'
  BY <1>1, <1>2, <1>5, <1>7, <1>8, LeaveMove
<1>10. CellsInv' /\ CellsTyped
  BY <1>1, <1>4, <1>7, CellsKept
<1> QED
  BY <1>9, <1>10, MoveStep

LEMMA LeaveEndsKeep ==
  ASSUME SharesIInv, NEW t \in Tasks, leave_no_row(t) \/ leave_returns(t)
  PROVE  SharesIInv'
<1>1. /\ task[t].op = "leave" /\ ReturnDropping(t)
      /\ UNCHANGED <<client, keys, bound, cellOf, failed, left, untold, kept>>
  BY DEF leave_no_row, leave_returns, At, store, history
<1>2. PICK i \in Shares : i = task[t].share
  BY <1>1, CallFacts
<1>3. LeaveInv(task[t])
  BY <1>1, CallFacts
<1>4. \/ row' = row
      \/ /\ row' = [row EXCEPT ![i] = NoRow]
         /\ i \notin keys' \/ i \in kept'
         /\ i \notin bound' \/ i \in untold'
  BY <1>1, <1>2, <1>3 DEF leave_no_row, leave_returns, At, LeaveInv, store
<1>5. Onto(t, Idle) /\ CellsInv' /\ CellsTyped
  BY <1>1, DroppingCells
<1>6. (LeaveInv(Idle))'
  BY IdleInv DEF LeaveInv
<1>7. ShareMove(t, i, Idle) /\ LabelsUnique'
  BY <1>1, <1>2, <1>4, <1>5, <1>6, LeaveMove
<1> QED
  BY <1>5, <1>7, MoveStep

-----------------------------------------------------------------------------
(* The app's process *)

\* What a request on its way may still do at the host node: bind a key whose
\* row is there and not listed, or forget one that is being left.
LEMMA CrashKeeps ==
  ASSUME SharesIInv, crash
  PROVE  SharesIInv'
<1>1. /\ client' = "down" /\ task' = [t \in Tasks |-> Idle] /\ cellOf' = [i \in Shares |-> 0]
      /\ filled' = {} /\ nodes' = {} /\ UNCHANGED <<row, keys, failed, left, untold, kept>>
  BY DEF crash, store, history
<1>2. PICK calls \in SUBSET InFlight :
        bound' = (bound \cup SharesOf(calls, "join")) \ SharesOf(calls, "leave")
  BY DEF crash
<1>3. ASSUME NEW i \in SharesOf(calls, "join")
      PROVE  i \in Shares /\ row[i].exists /\ ~Listed(i)
  <2>1. PICK t \in Tasks : t \in InFlight /\ task[t].op = "join" /\ task[t].share = i
    BY <1>2, <1>3 DEF SharesOf, InFlight
  <2>2. task[t].step = "row" /\ Unlisted(task[t])
    BY <2>1 DEF InFlight, At, Unlisted
  <2>3. JoinInv(task[t]) /\ task[t].share \in Shares
    BY <2>1, CallFacts
  <2> QED
    BY <2>1, <2>2, <2>3 DEF JoinInv, Listed
<1>4. ASSUME NEW i \in SharesOf(calls, "leave")
      PROVE  i \in left
  <2>1. PICK t \in Tasks : task[t].op = "leave" /\ task[t].share = i
    BY <1>2, <1>4 DEF SharesOf, InFlight
  <2> QED
    BY <2>1, CallFacts DEF LeaveInv
<1>5. SharesTypeOK'
  <2>1. bound' \subseteq Shares
    BY <1>2, <1>3, Typed
  <2> QED
    BY <1>1, <2>1, Typed DEF SharesTypeOK
<1>6. ASSUME NEW i \in Shares
      PROVE  ShareInv(i)'
  <2>1. ShareInv(i)
    BY DEF SharesIInv
  <2>2. i \in bound => i \in bound' \cup left
    BY <1>2, <1>4
  <2>3. i \in bound' => i \in bound \/ (row[i].exists /\ ~Listed(i))
    BY <1>2, <1>3
  <2> QED
    BY <1>1, <2>1, <2>2, <2>3 DEF ShareInv, Listed
<1>7. \A t \in Tasks : task'[t] = Idle
  BY <1>1
<1>8. \A t \in Tasks : (JoinInv(task[t]) /\ LeaveInv(task[t]))'
  BY <1>7, IdleInv DEF JoinInv, LeaveInv, Unlisted
<1>9. JoinsAlone'
  BY <1>7, IdleInv DEF JoinsAlone, Unlisted
<1>10. LabelsUnique'
  BY <1>1, LabelsKept
<1>11. CellsInv'
  BY <1>1, <1>7, IdleInv DEF CellsInv
<1> QED
  BY <1>5, <1>6, <1>8, <1>9, <1>10, <1>11 DEF SharesIInv

\* DB::open deletes nothing: no row says FALSE.
LEMMA OpenKeeps ==
  ASSUME SharesIInv, open
  PROVE  SharesIInv'
<1>1. /\ client' = "up" /\ UNCHANGED <<keys, bound, task, cellOf, filled, nodes, failed, left, untold, kept>>
  BY DEF open, cells, history
<1>2. row \in [Shares -> Row] /\ \A i \in Shares : row[i].complete # "FALSE"
  BY Typed DEF Row
<1>3. row' = [i \in Shares |-> row[i]]
  BY <1>2 DEF open
<1>4. row' = row
  BY <1>2, <1>3
<1>5. SharesTypeOK'
  BY <1>1, <1>4, Typed DEF SharesTypeOK
<1>6. \A i \in Shares : ShareInv(i)'
  BY <1>1, <1>4 DEF SharesIInv, ShareInv, Listed
<1>7. (\A t \in Tasks : JoinInv(task[t]) /\ LeaveInv(task[t]))'
  BY <1>1, <1>4 DEF SharesIInv, JoinInv, LeaveInv, Unlisted
<1>8. (JoinsAlone /\ LabelsUnique /\ CellsInv)'
  BY <1>1, <1>4 DEF SharesIInv, JoinsAlone, LabelsUnique, CellsInv, Unlisted
<1> QED
  BY <1>5, <1>6, <1>7, <1>8 DEF SharesIInv

-----------------------------------------------------------------------------
(* The invariant *)

LEMMA SharesStart == Init => SharesIInv
<1> SUFFICES ASSUME Init PROVE SharesIInv
  OBVIOUS
<1>1. SharesTypeOK
  BY RowTyped DEF Init, SharesTypeOK
<1>2. \A t \in Tasks : task[t] = Idle
  BY DEF Init
<1>3. \A i \in Shares : row[i] = NoRow
  BY DEF Init
<1>4. \A i \in Shares : ShareInv(i)
  BY <1>3, RowTyped DEF Init, ShareInv, Listed
<1>5. \A t \in Tasks : JoinInv(task[t]) /\ LeaveInv(task[t])
  BY <1>2, IdleInv DEF JoinInv, LeaveInv
<1>6. JoinsAlone
  BY <1>2, IdleInv DEF JoinsAlone
<1>7. LabelsUnique
  BY <1>3, RowTyped DEF LabelsUnique
<1>8. CellsInv
  BY <1>2, IdleInv DEF Init, CellsInv
<1> QED
  BY <1>1, <1>4, <1>5, <1>6, <1>7, <1>8 DEF SharesIInv

LEMMA SharesStutter ==
  ASSUME SharesIInv, UNCHANGED vars
  PROVE  SharesIInv'
BY DEF vars, cells, history, SharesIInv, SharesTypeOK, ShareInv, JoinInv, LeaveInv, Unlisted,
       JoinsAlone, LabelsUnique, CellsInv, Listed

LEMMA SharesStep == SharesIInv /\ [Next]_vars => SharesIInv'
<1> SUFFICES ASSUME SharesIInv, [Next]_vars PROVE SharesIInv'
  OBVIOUS
<1>1. ASSUME NEW t \in Tasks, NEW i \in Shares, join(t, i) \/ restore(t, i) \/ leave(t, i)
      PROVE  SharesIInv'
  BY <1>1, JoinBegins, RestoreBegins, LeaveBegins
<1>2. ASSUME NEW t \in Tasks, task[t].op = "join" /\ JoinStep(t)
      PROVE  SharesIInv'
  <2>1. ASSUME NEW n \in Names \cup {task[t].share}, join_labelled(t, n)
        PROVE  SharesIInv'
    BY <2>1, JoinLabels
  <2>2. CASE join_located(t) \/ join_saved(t) \/ join_info(t) \/ join_listed(t)
    BY <2>2, JoinWrites
  <2>3. CASE join_returns(t)
    BY <2>3, JoinEnds
  <2> QED
    BY <1>2, <2>1, <2>2, <2>3 DEF JoinStep
<1>3. ASSUME NEW t \in Tasks, join_activated(t)
      PROVE  SharesIInv'
  BY <1>3, JoinWrites
<1>4. ASSUME NEW t \in Tasks, join_fails(t) \/ join_answer_lost(t)
      PROVE  SharesIInv'
  BY <1>4, JoinEnds
<1>5. ASSUME NEW t \in Tasks, RestoreStep(t)
      PROVE  SharesIInv'
  BY <1>5, RestoreReads, RestoreCell, RestoreBound, RestoreUsed DEF RestoreStep
<1>6. ASSUME NEW t \in Tasks, LeaveStep(t) \/ leave_told(t)
      PROVE  SharesIInv'
  BY <1>6, LeaveTaken, LeaveGoesOn, LeaveEndsKeep DEF LeaveStep
<1>7. CASE UNCHANGED vars
  BY <1>7, SharesStutter
<1> QED
  BY <1>1, <1>2, <1>3, <1>4, <1>5, <1>6, <1>7, CrashKeeps, OpenKeeps DEF Next

\* Client: whatever calls of the app interleave and wherever a crash cuts them,
\* each step leaves the rows, the keys, the host node's bindings and the cells
\* related as the other calls rely on.
THEOREM SharesInvariant == Spec => []SharesIInv
<1>1. Init => SharesIInv
  BY SharesStart
<1>2. SharesIInv /\ [Next]_vars => SharesIInv'
  BY SharesStep
<1> QED
  BY <1>1, <1>2, PTL DEF Spec

\* The rows, the keys, the calls and the cells have their types.
THEOREM SharesTyped == Spec => []SharesTypeOK
<1>1. SharesIInv => SharesTypeOK
  BY DEF SharesIInv
<1> QED
  BY <1>1, SharesInvariant, PTL

\* record_join: what the app gets to see is complete.
THEOREM ListedSharesAreWhole == Spec => []ListedIsWhole
<1>1. SharesIInv => ListedIsWhole
  BY DEF SharesIInv, ShareInv, ListedIsWhole
<1> QED
  BY <1>1, SharesInvariant, PTL

\* delete_row and secrets.delete: a key without its row is that of a failed join
\* or of a leave whose secret store kept it.
THEOREM NoKeyIsForgotten == Spec => []KeysAccounted
<1>1. SharesIInv => KeysAccounted
  <2> SUFFICES ASSUME SharesIInv, NEW i \in keys
               PROVE  row[i].exists \/ i \in failed \cup kept
    BY DEF KeysAccounted
  <2>1. i \in Shares
    BY Typed
  <2> QED
    BY <2>1 DEF SharesIInv, ShareInv
<1> QED
  BY <1>1, SharesInvariant, PTL

\* Client::leave: a key the host node serves and this device lost is that of a
\* join in progress, cut off or failed, or of a leave that did not get through.
THEOREM NoGhostIsForgotten == Spec => []GhostsAccounted
<1>1. SharesIInv => GhostsAccounted
  <2> SUFFICES ASSUME SharesIInv, NEW i \in bound \ keys
               PROVE  (row[i].exists /\ ~Listed(i)) \/ i \in failed \cup untold
    BY DEF GhostsAccounted
  <2>1. i \in Shares
    BY Typed
  <2> QED
    BY <2>1 DEF SharesIInv, ShareInv
<1> QED
  BY <1>1, SharesInvariant, PTL

\* restore_guest_node: until a leave begins, a share has one endpoint open.
THEOREM OneEndpointPerShare == Spec => []OneNodePerShare
<1>1. SharesIInv => OneNodePerShare
  <2> SUFFICES ASSUME SharesIInv, NEW c \in nodes, NEW d \in nodes,
                      c[1] = d[1], c[1] \notin left
               PROVE  c = d
    BY DEF OneNodePerShare
  <2>1. c \in filled /\ d \in filled /\ c \in Shares \X Nat /\ d \in Shares \X Nat
    BY Typed
  <2>2. c[2] = d[2]
    BY <2>1 DEF SharesIInv, CellsInv
  <2> QED
    BY <2>1, <2>2
<1> QED
  BY <1>1, SharesInvariant, PTL
=============================================================================
