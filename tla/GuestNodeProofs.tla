-------------------------- MODULE GuestNodeProofs --------------------------
(***************************************************************************)
(* A guest node for any number of calls in progress, config versions and   *)
(* faults: its state is well formed and observers are up to date, a share  *)
(* ends for good only by what the host node said, and a connection that    *)
(* works stays cached.                                                     *)
(***************************************************************************)
EXTENDS GuestNode, FiniteSetTheorems, WellFoundedInduction, TLAPS

\* The calls that wait for the gate, and the check that holds it.
Queued(t) == At(t, "gate") \/ task[t].op = "check"

\* The gate's queue holds each of them once, and a check that is past waiting
\* is its head.
GateInv ==
  /\ \A t \in Tasks : Queued(t) <=> \E i \in 1 .. Len(gate) : gate[i] = t
  /\ \A i, j \in 1 .. Len(gate) : gate[i] = gate[j] => i = j
  /\ \A t \in Tasks : task[t].op = "check" /\ ~At(t, "gate") => gate[1] = t

\* A call that looks at its connection holds a cell, and one that stores the
\* share has been sent it.
CallsHold ==
  \A t \in Tasks :
    /\ task[t].step \in {"init", "connecting", "open", "probe", "asked"} => task[t].cell \in Cells
    /\ At(t, "info") => task[t].got \in 0 .. MaxVersion

\* A close code is what the host node holds the device to be, for good.
CodesTrue == \A k \in Cells : slot[k] \in {"revoked", "unknown"} => host = slot[k]

GuestIInv ==
  /\ GuestTypeOK
  /\ GateInv
  /\ CallsHold
  /\ ChangesSeen
  /\ CodesTrue
  /\ TerminalIsTold

-----------------------------------------------------------------------------
(* Cells *)

LEMMA MinInSet ==
  ASSUME NEW S, S \subseteq Nat, S # {}
  PROVE  Min(S) \in S
<1>1. PICK x \in S : \A y \in S : ~(<<y, x>> \in OpToRel(<, Nat))
  BY NatLessThanWellFounded, WFMin
<1>2. OpToRel(<, Nat) = {p \in Nat \X Nat : p[1] < p[2]}
  BY DEF OpToRel
<1>3. \A y \in S : ~(y < x)
  BY <1>1, <1>2
<1>4. \A y \in S : x <= y
  BY <1>3
<1> QED
  BY <1>4 DEF Min

\* There is one cell more than there are calls to hold one.
LEMMA FreeCell ==
  ASSUME task \in [Tasks -> Call], NEW H \in SUBSET Tasks
  PROVE  /\ Min(Cells \ {task[u].cell : u \in H}) \in Cells
         /\ Min(Cells \ {task[u].cell : u \in H}) \notin {task[u].cell : u \in H}
<1> DEFINE held == {task[u].cell : u \in H}
           f == [u \in H |-> task[u].cell]
<1>1. IsFiniteSet(H) /\ Cardinality(H) <= Cardinality(Tasks)
  BY GuestBounds, FS_Subset
<1>2. f \in Surjection(H, held)
  BY DEF Surjection
<1>3. IsFiniteSet(held) /\ Cardinality(held) <= Cardinality(H)
  BY <1>1, <1>2, FS_Surjection
<1>4. /\ Cardinality(Tasks) \in Nat /\ Cardinality(H) \in Nat /\ Cardinality(held) \in Nat
  BY <1>1, <1>3, GuestBounds, FS_CardinalityType
<1>5. Cardinality(Cells) = Cardinality(Tasks) + 1
  BY <1>4, FS_Interval DEF Cells
<1>6. ~(Cells \subseteq held)
  <2> SUFFICES ASSUME Cells \subseteq held PROVE FALSE
    OBVIOUS
  <2>1. Cardinality(Cells) <= Cardinality(held)
    BY <1>3, FS_Subset
  <2> QED
    BY <1>1, <1>3, <1>4, <1>5, <2>1
<1>7. Cells \ held # {} /\ Cells \ held \subseteq Nat
  BY <1>4, <1>6 DEF Cells
<1>8. Min(Cells \ held) \in Cells \ held
  BY <1>7, MinInSet
<1> QED
  BY <1>8

\* Letting go of a cell, and replacing the current one, leave every other
\* connection as it is.
LEMMA CellsAfter ==
  ASSUME GuestTypeOK, NEW H \in SUBSET Tasks,
         Replace(H) \/ (slot' = Kept(H, {cell}) /\ UNCHANGED cell)
  PROVE  /\ slot' \in [Cells -> ConnStates] /\ cell' \in Cells
         /\ \A k \in Cells : slot'[k] \in {slot[k], None}
<1>1. slot \in [Cells -> ConnStates] /\ cell \in Cells /\ task \in [Tasks -> Call]
  BY DEF GuestTypeOK
<1>2. cell' \in Cells
  BY <1>1, FreeCell DEF Replace
<1>3. \E K : slot' = Kept(H, K)
  BY DEF Replace
<1> QED
  BY <1>1, <1>2, <1>3 DEF Kept, ConnStates

-----------------------------------------------------------------------------
(* Calls and the gate *)

\* What a call's own step does to the queue: the call gets in line, the call
\* at the head leaves, or nothing changes.
GateMove(t) ==
  /\ \A u \in Tasks \ {t} : task'[u] = task[u]
  /\ \/ /\ gate' = Append(gate, t)
        /\ ~Queued(t) /\ task'[t].step = "gate"
     \/ /\ gate' = Tail(gate) /\ gate # <<>> /\ gate[1] = t
        /\ task'[t].step # "gate" /\ task'[t].op # "check"
     \/ /\ gate' = gate
        /\ Queued(t) <=> task'[t].step = "gate" \/ task'[t].op = "check"
        /\ task'[t].op = "check" /\ task'[t].step # "gate" => gate[1] = t

\* CallsHold, of one call.
Holding(c) ==
  /\ c.step \in {"init", "connecting", "open", "probe", "asked"} => c.cell \in Cells
  /\ c.step = "info" => c.got \in 0 .. MaxVersion

CallMove(t) ==
  /\ task' \in [Tasks -> Call]
  /\ Holding(task'[t])
  /\ GateMove(t)

\* Whoever is at the head of the gate and waits for it, or is past it.
Past(t) == ~At(t, "gate") \/ (task[t].op = "check" /\ Head(gate) = t)

LEMMA GateMovePreserves ==
  ASSUME task \in [Tasks -> Call], gate \in Seq(Tasks), GateInv, NEW t \in Tasks, CallMove(t)
  PROVE  GateInv' /\ gate' \in Seq(Tasks)
<1> DEFINE In(u) == task'[u].step = "gate" \/ task'[u].op = "check"
<1> USE DEF GateInv, CallMove, GateMove, Queued, At
<1>1. CASE /\ gate' = Append(gate, t)
           /\ ~Queued(t) /\ task'[t].step = "gate"
  <2>1. /\ gate' \in Seq(Tasks) /\ Len(gate') = Len(gate) + 1 /\ gate'[Len(gate) + 1] = t
        /\ \A i \in 1 .. Len(gate) : gate'[i] = gate[i] /\ gate[i] # t
    BY <1>1
  <2>2. \A u \in Tasks : In(u) <=> \E i \in 1 .. Len(gate') : gate'[i] = u
    <3> TAKE u \in Tasks
    <3>1. CASE u = t
      BY <1>1, <2>1, <3>1
    <3>2. CASE u # t
      <4>1. task'[u] = task[u]
        BY <3>2
      <4>2. (\E i \in 1 .. Len(gate') : gate'[i] = u) <=> (\E i \in 1 .. Len(gate) : gate[i] = u)
        BY <2>1, <3>2
      <4> QED
        BY <4>1, <4>2
    <3> QED
      BY <3>1, <3>2
  <2>3. \A i, j \in 1 .. Len(gate') : gate'[i] = gate'[j] => i = j
    BY <2>1
  <2>4. \A u \in Tasks : task'[u].op = "check" /\ task'[u].step # "gate" => gate'[1] = u
    <3> SUFFICES ASSUME NEW u \in Tasks, task'[u].op = "check", task'[u].step # "gate"
                 PROVE  gate'[1] = u
      OBVIOUS
    <3>1. u # t /\ task'[u] = task[u]
      BY <1>1
    <3>2. gate[1] = u /\ \E i \in 1 .. Len(gate) : gate[i] = u
      BY <3>1
    <3> QED
      BY <2>1, <3>2
  <2> QED
    BY <2>1, <2>2, <2>3, <2>4
<1>2. CASE /\ gate' = Tail(gate) /\ gate # <<>> /\ gate[1] = t
           /\ task'[t].step # "gate" /\ task'[t].op # "check"
  <2>1. /\ gate' \in Seq(Tasks) /\ Len(gate') = Len(gate) - 1 /\ Len(gate) \in Nat \ {0}
        /\ \A i \in 1 .. Len(gate') : gate'[i] = gate[i + 1] /\ gate[i + 1] # t
    BY <1>2
  <2>2. \A u \in Tasks : In(u) <=> \E i \in 1 .. Len(gate') : gate'[i] = u
    <3> TAKE u \in Tasks
    <3>1. CASE u = t
      BY <1>2, <2>1, <3>1
    <3>2. CASE u # t
      <4>1. task'[u] = task[u]
        BY <3>2
      <4>2. ASSUME NEW i \in 1 .. Len(gate), gate[i] = u
            PROVE  i - 1 \in 1 .. Len(gate') /\ gate'[i - 1] = u
        <5>1. i # 1
          BY <1>2, <3>2, <4>2
        <5>2. i - 1 \in 1 .. Len(gate') /\ (i - 1) + 1 = i
          BY <2>1, <5>1
        <5>3. gate'[i - 1] = gate[(i - 1) + 1]
          BY <2>1, <5>2
        <5> QED
          BY <4>2, <5>2, <5>3
      <4>3. (\E i \in 1 .. Len(gate') : gate'[i] = u) <=> (\E i \in 1 .. Len(gate) : gate[i] = u)
        BY <2>1, <4>2
      <4> QED
        BY <4>1, <4>3
    <3> QED
      BY <3>1, <3>2
  <2>3. \A i, j \in 1 .. Len(gate') : gate'[i] = gate'[j] => i = j
    <3> TAKE i, j \in 1 .. Len(gate')
    <3>1. i + 1 \in 1 .. Len(gate) /\ j + 1 \in 1 .. Len(gate)
      BY <2>1
    <3> QED
      BY <2>1, <3>1
  <2>4. \A u \in Tasks : task'[u].op = "check" => task'[u].step = "gate"
    <3> SUFFICES ASSUME NEW u \in Tasks, task'[u].op = "check", task'[u].step # "gate"
                 PROVE  FALSE
      OBVIOUS
    <3>1. u # t /\ task'[u] = task[u]
      BY <1>2
    <3>2. gate[1] = u
      BY <3>1
    <3> QED
      BY <1>2, <3>1, <3>2
  <2> QED
    BY <2>1, <2>2, <2>3, <2>4
<1>3. CASE /\ gate' = gate
           /\ Queued(t) <=> In(t)
           /\ task'[t].op = "check" /\ task'[t].step # "gate" => gate[1] = t
  <2>1. \A u \in Tasks : Queued(u) <=> In(u)
    BY <1>3
  <2>2. \A u \in Tasks : task'[u].op = "check" /\ task'[u].step # "gate" => gate[1] = u
    BY <1>3
  <2> QED
    BY <1>3, <2>1, <2>2
<1> QED
  BY <1>1, <1>2, <1>3

LEMMA HeadIsQueued ==
  ASSUME gate \in Seq(Tasks), GateInv, NEW t \in Tasks, Queued(t)
  PROVE  gate # <<>> /\ Head(gate) = gate[1]
BY DEF GateInv

\* A check that is not waiting behind another call is the head of the queue.
LEMMA PastIsHead ==
  ASSUME gate \in Seq(Tasks), GateInv, NEW t \in Tasks, Past(t), task[t].op = "check"
  PROVE  gate # <<>> /\ gate[1] = t
BY HeadIsQueued DEF GateInv, Queued, Past

LEMMA ReturnMoves ==
  ASSUME GuestIInv, NEW t \in Tasks, Past(t), Return(t)
  PROVE  CallMove(t) /\ task'[t] = Idle
<1>1. task \in [Tasks -> Call] /\ gate \in Seq(Tasks) /\ GateInv
  BY DEF GuestIInv, GuestTypeOK
<1>2. Idle \in Call
  BY GuestBounds DEF Idle, Joined, Row, Call, Steps
<1>3. /\ task' \in [Tasks -> Call] /\ task'[t] = Idle
      /\ \A u \in Tasks \ {t} : task'[u] = task[u]
  BY <1>1, <1>2 DEF Return
<1>4. Holding(task'[t]) /\ task'[t].step = "idle" /\ task'[t].op = "none"
  BY <1>3 DEF Holding, Idle
<1>5. CASE task[t].op = "check"
  BY <1>1, <1>3, <1>4, <1>5, PastIsHead DEF Return, CallMove, GateMove
<1>6. CASE task[t].op # "check"
  BY <1>3, <1>4, <1>6 DEF Return, CallMove, GateMove, Past, Queued
<1> QED
  BY <1>5, <1>6

\* A call that goes on, past the gate, without letting go of it.
LEMMA GoingOnMoves ==
  ASSUME GuestIInv, NEW t \in Tasks, Past(t), UNCHANGED gate,
         NEW c \in Call, task' = [task EXCEPT ![t] = c],
         c.op = task[t].op, c.step # "gate", Holding(c)
  PROVE  CallMove(t) /\ task'[t] = c
<1>1. task \in [Tasks -> Call] /\ gate \in Seq(Tasks) /\ GateInv
  BY DEF GuestIInv, GuestTypeOK
<1>2. task' \in [Tasks -> Call] /\ task'[t] = c /\ \A u \in Tasks \ {t} : task'[u] = task[u]
  BY <1>1
<1>3. CASE task[t].op = "check"
  BY <1>1, <1>2, <1>3, PastIsHead DEF CallMove, GateMove, Queued
<1>4. CASE task[t].op # "check"
  BY <1>1, <1>2, <1>4 DEF CallMove, GateMove, Past, Queued
<1> QED
  BY <1>3, <1>4

LEMMA RecordMoves ==
  ASSUME GuestIInv, NEW t \in Tasks, Past(t), NEW s, record_terminal_error(t, s)
  PROVE  CallMove(t) /\ task'[t].step = "row"
<1> DEFINE c == [task[t] EXCEPT !.step = "row", !.cell = 0, !.first = FALSE]
<1>1. task \in [Tasks -> Call]
  BY DEF GuestIInv, GuestTypeOK
<1>2. c \in Call /\ c.op = task[t].op /\ c.step = "row"
  BY <1>1 DEF Call, Steps
<1>3. task' = [task EXCEPT ![t] = c] /\ UNCHANGED gate
  BY <1>1 DEF record_terminal_error, Call
<1> HIDE DEF c
<1> QED
  BY <1>2, <1>3, GoingOnMoves DEF Holding

LEMMA ReconnectMoves ==
  ASSUME GuestIInv, NEW t \in Tasks, Past(t), cell' \in Cells, Reconnect(t)
  PROVE  CallMove(t) /\ task'[t].step \in {"idle", "init", "open"}
<1>1. CASE Return(t)
  BY <1>1, ReturnMoves DEF Idle
<1>2. CASE ~Return(t)
  <2> DEFINE c == [task[t] EXCEPT !.step = IF slot'[cell'] = None THEN "init" ELSE "open",
                                  !.cell = cell',
                                  !.first = slot'[cell'] # None]
  <2>1. task \in [Tasks -> Call]
    BY DEF GuestIInv, GuestTypeOK
  <2>2. c \in Call /\ c.op = task[t].op /\ c.step \in {"init", "open"} /\ c.cell \in Cells
    BY <2>1 DEF Call, Steps
  <2>3. task' = [task EXCEPT ![t] = c] /\ UNCHANGED gate
    BY <1>2, <2>1 DEF Reconnect, Call
  <2> HIDE DEF c
  <2> QED
    BY <2>2, <2>3, GoingOnMoves DEF Holding
<1> QED
  BY <1>1, <1>2

LEMMA EvictMoves ==
  ASSUME GuestIInv, NEW t \in Tasks, NEW k, evict(t, k)
  PROVE  /\ slot' \in [Cells -> ConnStates] /\ cell' \in Cells
         /\ \A j \in Cells : slot'[j] \in {slot[j], None}
BY CellsAfter DEF GuestIInv, evict, LetGo

LEMMA ProbeFailedMoves ==
  ASSUME GuestIInv, NEW t \in Tasks, Past(t), NEW k, ProbeFailed(t, k)
  PROVE  CallMove(t) /\ task'[t].step \in {"row", "idle", "init", "open"}
<1>1. cell' \in Cells
  BY EvictMoves DEF ProbeFailed
<1> QED
  BY <1>1, RecordMoves, ReconnectMoves DEF ProbeFailed

\* The step of any call keeps the queue and the calls in order.
LEMMA TaskMoves ==
  ASSUME GuestIInv, NEW t \in Tasks,
         \/ TaskStep(t) \/ dial_failed(t) \/ store_failed(t)
         \/ \E op \in {"stream", "refresh", "check"} : call(t, op)
  PROVE  CallMove(t)
<1>1. /\ task \in [Tasks -> Call] /\ gate \in Seq(Tasks) /\ GateInv /\ cell \in Cells
      /\ row \in Row /\ config \in 0 .. MaxVersion /\ MaxVersion \in Nat
  BY GuestBounds DEF GuestIInv, GuestTypeOK
<1>2. task[t] \in Call /\ Holding(task[t])
  BY <1>1 DEF GuestIInv, CallsHold, Holding, At
<1> DEFINE Onto(c) == UNCHANGED gate /\ task' = [task EXCEPT ![t] = c]
<1>3. ASSUME ~At(t, "gate"), NEW c \in Call, Onto(c), c.op = task[t].op, c.step # "gate", Holding(c)
      PROVE  CallMove(t)
  BY <1>3, GoingOnMoves DEF Past
<1>4. ASSUME ~At(t, "gate"), NEW s \in Steps, s \notin {"gate", "info"}, Go(t, s), UNCHANGED gate,
             task[t].cell \in Cells \/ s \in {"idle", "row", "notify", "answered"}
      PROVE  CallMove(t)
  <2> DEFINE c == [task[t] EXCEPT !.step = s]
  <2>1. c \in Call /\ c.op = task[t].op /\ c.step = s /\ c.cell = task[t].cell
    BY <1>2, <1>4 DEF Call
  <2>2. Onto(c)
    BY <1>1, <1>4 DEF Go, Call
  <2>3. Holding(c)
    BY <1>4, <2>1 DEF Holding
  <2> HIDE DEF c
  <2> QED
    BY <1>3, <1>4, <2>1, <2>2, <2>3
<1>5. CASE \E op \in {"stream", "refresh", "check"} : call(t, op)
  <2> PICK op \in {"stream", "refresh", "check"} : call(t, op)
    BY <1>5
  <2> DEFINE c == [task[t] EXCEPT !.op = op, !.step = "gate"]
  <2>1. c \in Call /\ c.step = "gate"
    BY <1>2 DEF Call, Steps
  <2>2. task' = [task EXCEPT ![t] = c]
    BY <1>1 DEF call, Call
  <2>3. ~Queued(t)
    BY DEF call, Idle, Queued, At
  <2> HIDE DEF c
  <2> QED
    BY <1>1, <2>1, <2>2, <2>3 DEF call, CallMove, GateMove, Holding, Queued, At
<1>6. CASE open_stream(t)
  <2>1. gate # <<>> /\ gate[1] = t
    BY <1>1, <1>6, HeadIsQueued DEF open_stream, Queued
  <2>2. ASSUME NEW c \in Call, task' = [task EXCEPT ![t] = c], c.op # "check", c.step # "gate",
               Holding(c)
        PROVE  CallMove(t)
    BY <1>1, <1>6, <2>1, <2>2 DEF open_stream, CallMove, GateMove
  <2>3. CASE dead # None
    <3>1. Idle \in Call /\ Idle.op # "check" /\ Idle.step # "gate" /\ Holding(Idle)
      BY <1>1 DEF Idle, Joined, Row, Call, Steps, Holding
    <3>2. task' = [task EXCEPT ![t] = Idle]
      BY <1>6, <2>3 DEF open_stream
    <3> QED
      BY <2>2, <3>1, <3>2
  <2>4. CASE dead = None
    <3> DEFINE c == [task[t] EXCEPT !.step = IF slot[cell] = None THEN "init" ELSE "open",
                                    !.cell = cell, !.first = slot[cell] # None]
    <3>1. c \in Call /\ c.op = task[t].op /\ c.cell = cell /\ c.step \in {"init", "open"}
      BY <1>1, <1>2 DEF Call, Steps
    <3>2. task' = [task EXCEPT ![t] = c]
      BY <1>1, <1>6, <2>4 DEF open_stream, OnCell, Call
    <3> HIDE DEF c
    <3> QED
      BY <1>1, <1>6, <2>2, <3>1, <3>2 DEF open_stream, Holding
  <2> QED
    BY <2>3, <2>4
<1>7. CASE cell_filled(t) \/ dial(t) \/ dialled(t)
  BY <1>2, <1>4, <1>7 DEF cell_filled, dial, dialled, At, Holding, Steps
<1>8. CASE dial_failed(t) \/ fetch_failed(t) \/ probe_answered(t) \/ on_share_changed(t)
           \/ store_failed(t)
  BY <1>8, ReturnMoves DEF dial_failed, fetch_failed, probe_answered, on_share_changed,
                           store_failed, At, Past
<1>9. CASE hub_refuses(t) \/ stream_closed(t)
  BY <1>9, RecordMoves DEF hub_refuses, stream_closed, At, Past
<1>10. CASE stream_opened(t)
  <2>1. CASE task[t].op # "refresh"
    BY <1>10, <2>1, ReturnMoves DEF stream_opened, At, Past
  <2>2. CASE task[t].op = "refresh"
    <3> DEFINE c == [task[t] EXCEPT !.step = "asked", !.first = FALSE, !.got = row.hash]
    <3>0. row.hash \in 0 .. MaxVersion + 2
      BY <1>1 DEF Row
    <3>1. c \in Call /\ c.op = task[t].op /\ c.step = "asked" /\ c.cell = task[t].cell
      BY <1>2, <3>0 DEF Call, Steps
    <3>2. Onto(c)
      BY <1>1, <1>10, <2>2 DEF stream_opened, Call
    <3> HIDE DEF c
    <3> QED
      BY <1>2, <1>3, <1>10, <3>1, <3>2 DEF stream_opened, At, Holding
  <2> QED
    BY <2>1, <2>2
<1>11. CASE open_failed(t)
  <2>1. CASE \E state : record_terminal_error(t, state)
    BY <1>11, <2>1, RecordMoves DEF open_failed, At, Past
  <2>2. CASE Return(t)
    BY <1>11, <2>2, ReturnMoves DEF open_failed, At, Past
  <2>3. CASE /\ task' = [task EXCEPT ![t].step = "init", ![t].cell = cell', ![t].first = FALSE]
             /\ UNCHANGED gate
    <3> DEFINE c == [task[t] EXCEPT !.step = "init", !.cell = cell', !.first = FALSE]
    <3>1. cell' \in Cells
      BY <1>11, EvictMoves DEF open_failed
    <3>2. c \in Call /\ c.op = task[t].op /\ c.step = "init" /\ c.cell \in Cells
      BY <1>1, <1>2, <3>1 DEF Call, Steps
    <3>3. Onto(c)
      BY <1>1, <2>3 DEF Call
    <3> HIDE DEF c
    <3> QED
      BY <1>3, <1>11, <3>2, <3>3 DEF open_failed, At, Holding
  <2> QED
    BY <1>11, <2>1, <2>2, <2>3 DEF open_failed
<1>12. CASE record_row(t) \/ write_share_info(t)
  BY <1>4, <1>12 DEF record_row, write_share_info, At, Steps
<1>18. CASE read_share(t)
  <2> DEFINE c == [task[t] EXCEPT !.step = "tell", !.got = 0, !.snap = row]
  <2>0. 0 \in 0 .. MaxVersion + 2 /\ "tell" \in Steps
    BY <1>1 DEF Steps
  <2>1. c \in Call /\ c.op = task[t].op /\ c.step = "tell"
    BY <1>1, <1>2, <2>0 DEF Call
  <2>2. Onto(c)
    BY <1>1, <1>18 DEF read_share, Call
  <2> HIDE DEF c
  <2> QED
    BY <1>3, <1>18, <2>1, <2>2 DEF read_share, At, Holding
<1>13. CASE get_share(t)
  <2> DEFINE c == [task[t] EXCEPT !.step = "answered", !.cell = 0, !.got = Answer(task[t].got)]
  <2>1. Answer(task[t].got) \in 0 .. MaxVersion + 2
    BY <1>1 DEF Answer, Refused, Unchanged
  <2>2. c \in Call /\ c.op = task[t].op /\ c.step = "answered"
    BY <1>2, <2>1 DEF Call, Steps
  <2>3. Onto(c)
    BY <1>1, <1>13 DEF get_share, Call
  <2> HIDE DEF c
  <2> QED
    BY <1>3, <1>13, <2>2, <2>3 DEF get_share, At, Holding
<1>14. CASE write_outdated(t)
  <2>1. CASE AfterOutdated(t) = "idle"
    BY <1>14, <2>1, ReturnMoves DEF write_outdated, At, Past
  <2>2. CASE AfterOutdated(t) # "idle"
    <3> DEFINE c == [task[t] EXCEPT !.step = AfterOutdated(t)]
    <3>1. /\ AfterOutdated(t) \in {"info", "notify"}
          /\ AfterOutdated(t) = "info" => task[t].got \in 0 .. MaxVersion
      BY <2>2 DEF AfterOutdated
    <3>2. c \in Call /\ c.op = task[t].op /\ c.step = AfterOutdated(t) /\ c.got = task[t].got
      BY <1>2, <3>1 DEF Call, Steps
    <3>3. Onto(c)
      BY <1>1, <1>14, <2>2 DEF write_outdated, Go, Call
    <3> HIDE DEF c
    <3> QED
      BY <1>3, <1>14, <3>1, <3>2, <3>3 DEF write_outdated, At, Holding
  <2> QED
    BY <2>1, <2>2
<1>15. CASE no_connection(t)
  BY <1>1, <1>15, ReconnectMoves DEF no_connection, Holds, Past, net
<1>16. CASE found_closed(t) \/ probe_failed(t) \/ probe_timed_out(t)
  BY <1>16, ProbeFailedMoves DEF found_closed, probe_failed, probe_timed_out, Holds, At, Past
<1>17. CASE probe(t)
  <2> DEFINE c == [task[t] EXCEPT !.step = "probe", !.cell = cell]
  <2>1. c \in Call /\ c.op = task[t].op /\ c.step = "probe" /\ c.cell = cell
    BY <1>1, <1>2 DEF Call, Steps
  <2>2. Onto(c)
    BY <1>1, <1>17 DEF probe, Call
  <2> HIDE DEF c
  <2> QED
    BY <1>1, <1>17, <2>1, <2>2, GoingOnMoves DEF probe, Holds, Past, Holding
<1> QED
  BY <1>5, <1>6, <1>7, <1>8, <1>9, <1>10, <1>11, <1>12, <1>13, <1>14, <1>15, <1>16, <1>17, <1>18
     DEF TaskStep

-----------------------------------------------------------------------------
(* The connection, the close codes and the stored share *)

\* What a step does to the connections and to what is known of the host: a
\* connection is left alone, forgotten, opened, lost, or closed with the code
\* of what the host node holds the device to be.
NetMove ==
  /\ slot' \in [Cells -> ConnStates] /\ cell' \in Cells
  /\ \A k \in Cells : \/ slot'[k] \notin {"revoked", "unknown"}
                      \/ slot'[k] = slot[k]
                      \/ host # "guest" /\ slot'[k] = host
  /\ host' = host \/ (host = "guest" /\ host' \in {"revoked", "unknown"})

\* And to what is held of the share: it ends by the host's word only.
EndMove ==
  /\ \/ dead' = dead
     \/ host # "guest" /\ dead' = IF host = "revoked" THEN "revoked" ELSE "removed"
  /\ row' \in Row /\ row'.terminal \in {row.terminal, dead}
  /\ unseen' \in BOOLEAN /\ storeOk' \in BOOLEAN

LEMMA CodeIsTrue ==
  ASSUME GuestIInv, NEW k \in Cells, terminal_from_close(slot[k]) # None
  PROVE  /\ host # "guest"
         /\ terminal_from_close(slot[k]) = IF host = "revoked" THEN "revoked" ELSE "removed"
BY DEF GuestIInv, GuestTypeOK, CodesTrue, terminal_from_close, None, ConnStates

LEMMA RecordIsTrue ==
  ASSUME GuestIInv, NEW t \in Tasks, NEW k \in Cells, terminal_from_close(slot[k]) # None,
         record_terminal_error(t, terminal_from_close(slot[k]))
  PROVE  /\ host # "guest"
         /\ dead' = IF host = "revoked" THEN "revoked" ELSE "removed"
BY CodeIsTrue DEF record_terminal_error

LEMMA TaskNetMoves ==
  ASSUME GuestIInv, NEW t \in Tasks,
         \/ TaskStep(t) \/ dial_failed(t) \/ store_failed(t)
         \/ \E op \in {"stream", "refresh", "check"} : call(t, op)
  PROVE  NetMove /\ UNCHANGED hostVars
<1>1. /\ slot \in [Cells -> ConnStates] /\ cell \in Cells /\ GuestTypeOK /\ task[t] \in Call
      /\ host \in {"guest", "revoked", "unknown"}
  BY DEF GuestIInv, GuestTypeOK
<1>2. CASE UNCHANGED <<net, hostVars>>
  BY <1>1, <1>2 DEF NetMove, net, hostVars
<1>3. ASSUME LetGo(t) \/ (\E k : evict(t, k)), UNCHANGED hostVars
      PROVE  NetMove /\ UNCHANGED hostVars
  <2>1. /\ slot' \in [Cells -> ConnStates] /\ cell' \in Cells
        /\ \A j \in Cells : slot'[j] \in {slot[j], None}
    BY <1>1, <1>3, CellsAfter, EvictMoves DEF LetGo
  <2> QED
    BY <1>3, <2>1 DEF NetMove, hostVars, None
<1>4. CASE dialled(t)
  <2>1. task[t].cell \in Cells
    BY <1>4 DEF dialled, GuestIInv, CallsHold, At
  <2>2. \E s \in {"open", "unserved"} : slot' = [slot EXCEPT ![task[t].cell] = s]
    BY <1>4 DEF dialled
  <2>3. slot' \in [Cells -> ConnStates]
    BY <1>1, <2>1, <2>2 DEF ConnStates, Up
  <2> QED
    BY <1>1, <1>4, <2>1, <2>2, <2>3 DEF dialled, NetMove, hostVars
<1>5. CASE \/ open_stream(t) \/ cell_filled(t) \/ dial(t) \/ hub_refuses(t) \/ record_row(t)
           \/ read_share(t) \/ on_share_changed(t) \/ write_outdated(t) \/ write_share_info(t)
           \/ no_connection(t) \/ probe(t) \/ dial_failed(t) \/ store_failed(t)
           \/ \E op \in {"stream", "refresh", "check"} : call(t, op)
  BY <1>2, <1>5 DEF open_stream, cell_filled, dial, hub_refuses, record_row,
       read_share, on_share_changed, write_outdated, write_share_info, no_connection, probe, dial_failed,
       store_failed, call
<1>6. CASE stream_opened(t)
  BY <1>2, <1>3, <1>6 DEF stream_opened
<1>7. CASE stream_closed(t) \/ get_share(t) \/ fetch_failed(t) \/ probe_answered(t)
  BY <1>3, <1>7 DEF stream_closed, get_share, fetch_failed, probe_answered
<1>8. CASE open_failed(t) \/ found_closed(t) \/ probe_failed(t) \/ probe_timed_out(t)
  BY <1>3, <1>8 DEF open_failed, found_closed, probe_failed, probe_timed_out, ProbeFailed
<1> QED
  BY <1>4, <1>5, <1>6, <1>7, <1>8 DEF TaskStep

LEMMA TaskEndMoves ==
  ASSUME GuestIInv, NEW t \in Tasks,
         \/ TaskStep(t) \/ dial_failed(t) \/ store_failed(t)
         \/ \E op \in {"stream", "refresh", "check"} : call(t, op)
  PROVE  EndMove
<1>1. /\ row \in Row /\ dead \in Terminal \cup {None} /\ unseen \in BOOLEAN /\ storeOk \in BOOLEAN
      /\ cell \in Cells /\ kind \in Kinds /\ host \in {"guest", "revoked", "unknown"}
  BY DEF GuestIInv, GuestTypeOK
<1>2. task[t].step \in {"init", "connecting", "open", "probe", "asked"} => task[t].cell \in Cells
  BY DEF GuestIInv, CallsHold
<1>3. CASE UNCHANGED <<dead, stored>>
  BY <1>1, <1>3 DEF EndMove, stored
<1>4. ASSUME UNCHANGED stored, NEW k \in Cells, terminal_from_close(slot[k]) # None,
             record_terminal_error(t, terminal_from_close(slot[k]))
      PROVE  EndMove
  BY <1>1, <1>4, RecordIsTrue DEF EndMove, stored, None
<1>5. CASE hub_refuses(t)
  BY <1>1, <1>5 DEF hub_refuses, record_terminal_error, EndMove, stored, None
<1>6. CASE stream_closed(t)
  BY <1>2, <1>4, <1>6 DEF stream_closed, InCell, At
<1>7. CASE open_failed(t)
  BY <1>2, <1>3, <1>4, <1>7 DEF open_failed, InCell, At
<1>8. CASE found_closed(t) \/ probe_failed(t) \/ probe_timed_out(t)
  BY <1>1, <1>2, <1>3, <1>4, <1>8 DEF found_closed, probe_failed, probe_timed_out, ProbeFailed, At
<1>9. CASE record_row(t)
  BY <1>1, <1>9 DEF record_row, EndMove, Row
<1>10. CASE on_share_changed(t)
  BY <1>1, <1>10 DEF on_share_changed, EndMove
<1>11. CASE write_outdated(t)
  BY <1>1, <1>11 DEF write_outdated, EndMove, Row
<1>12. CASE write_share_info(t)
  <2>1. task[t].got \in 0 .. MaxVersion
    BY <1>12 DEF write_share_info, GuestIInv, CallsHold
  <2> QED
    BY <1>1, <1>12, <2>1 DEF write_share_info, EndMove, Row
<1>13. CASE store_failed(t)
  BY <1>1, <1>13 DEF store_failed, EndMove
<1>14. CASE \/ open_stream(t) \/ cell_filled(t) \/ dial(t) \/ dialled(t) \/ stream_opened(t)
            \/ get_share(t) \/ fetch_failed(t) \/ no_connection(t) \/ probe(t)
            \/ probe_answered(t) \/ dial_failed(t) \/ read_share(t)
            \/ \E op \in {"stream", "refresh", "check"} : call(t, op)
  BY <1>3, <1>14 DEF open_stream, cell_filled, dial, dialled, stream_opened, get_share,
       fetch_failed, no_connection, probe, probe_answered, dial_failed, read_share, call
<1> QED
  BY <1>5, <1>6, <1>7, <1>8, <1>9, <1>10, <1>11, <1>12, <1>13, <1>14 DEF TaskStep

\* Whoever owes the observer a call still does after another call's step.
LEMMA ChangesSeenPreserved ==
  ASSUME GuestIInv, NEW t \in Tasks,
         \/ TaskStep(t) \/ dial_failed(t) \/ store_failed(t)
         \/ \E op \in {"stream", "refresh", "check"} : call(t, op)
  PROVE  ChangesSeen'
<1>1. ChangesSeen /\ row \in Row /\ task \in [Tasks -> Call]
  BY DEF GuestIInv, GuestTypeOK
<1>2. \A u \in Tasks \ {t} : task'[u] = task[u]
  BY TaskMoves DEF CallMove, GateMove
<1>3. ASSUME task[t].step \notin {"info", "notify", "tell"}, UNCHANGED <<row, storeOk>>,
             unseen' => unseen
      PROVE  ChangesSeen'
  BY <1>1, <1>2, <1>3 DEF ChangesSeen, At
<1>4. ASSUME task'[t].step \in {"info", "notify"}
      PROVE  ChangesSeen'
  BY <1>4 DEF ChangesSeen, At
<1>5. CASE record_row(t) \/ write_share_info(t)
  BY <1>1, <1>4, <1>5 DEF record_row, write_share_info, Go, Call
<1>6. CASE on_share_changed(t)
  BY <1>1, <1>2, <1>6 DEF on_share_changed, ChangesSeen, At
<1>10. CASE read_share(t)
  <2>1. task'[t].step = "tell" /\ task'[t].snap = row
    BY <1>1, <1>10 DEF read_share, Call
  <2> QED
    BY <1>10, <2>1 DEF read_share, stored, ChangesSeen, At
<1>7. CASE store_failed(t)
  BY <1>7 DEF store_failed, ChangesSeen
<1>8. CASE write_outdated(t)
  <2>1. CASE AfterOutdated(t) = "idle"
    <3>1. row.outdated = (task[t].got = Refused)
      BY <2>1 DEF AfterOutdated
    <3>2. row' = row
      BY <1>1, <1>8, <3>1 DEF write_outdated, Row
    <3>3. UNCHANGED storeOk /\ (unseen' => unseen)
      BY <1>8, <3>2 DEF write_outdated
    <3> QED
      BY <1>3, <1>8, <3>2, <3>3 DEF write_outdated, At
  <2>2. CASE AfterOutdated(t) # "idle"
    <3>1. AfterOutdated(t) \in {"info", "notify"}
      BY <2>2 DEF AfterOutdated
    <3>2. task'[t].step = AfterOutdated(t)
      BY <1>1, <1>8, <2>2 DEF write_outdated, Go, Call
    <3> QED
      BY <1>4, <3>1, <3>2
  <2> QED
    BY <2>1, <2>2
<1>9. CASE \/ open_stream(t) \/ cell_filled(t) \/ dial(t) \/ dialled(t) \/ hub_refuses(t)
           \/ stream_opened(t) \/ stream_closed(t) \/ open_failed(t) \/ dial_failed(t)
           \/ get_share(t) \/ fetch_failed(t) \/ no_connection(t) \/ found_closed(t)
           \/ probe(t) \/ probe_answered(t) \/ probe_failed(t) \/ probe_timed_out(t)
           \/ \E op \in {"stream", "refresh", "check"} : call(t, op)
  <2>1. UNCHANGED <<row, unseen, storeOk>>
    BY <1>9 DEF open_stream, cell_filled, dial, dialled, hub_refuses, stream_opened,
         stream_closed, open_failed, dial_failed, get_share, fetch_failed, no_connection,
         found_closed, probe, probe_answered, probe_failed, probe_timed_out, call, stored
  <2>2. task[t].step \notin {"info", "notify", "tell"}
    BY <1>9 DEF open_stream, cell_filled, dial, dialled, hub_refuses, stream_opened,
         stream_closed, open_failed, dial_failed, get_share, fetch_failed, no_connection,
         found_closed, probe, probe_answered, probe_failed, probe_timed_out, call, Holds, At,
         Idle
  <2> QED
    BY <1>3, <2>1, <2>2
<1> QED
  BY <1>5, <1>6, <1>7, <1>8, <1>9, <1>10 DEF TaskStep

\* The counters and flags no call depends on.
LEMMA FlagsTyped ==
  ASSUME GuestIInv, [GuestNext]_vars
  PROVE  /\ kind' \in Kinds /\ config' \in 0 .. MaxVersion /\ tooOld' \in BOOLEAN
         /\ used' \in BOOLEAN /\ faults' \in 0 .. MaxFaults
<1>1. /\ kind \in Kinds /\ config \in 0 .. MaxVersion /\ tooOld \in BOOLEAN /\ used \in BOOLEAN
      /\ faults \in 0 .. MaxFaults
  BY DEF GuestIInv, GuestTypeOK
<1>2. UNCHANGED faults \/ Fault
  <2>1. ASSUME NEW t \in Tasks, TaskStep(t)
        PROVE  UNCHANGED faults \/ Fault
    BY <2>1 DEF TaskStep, open_stream, cell_filled, dial, dialled, hub_refuses,
         stream_opened, stream_closed, open_failed, record_row, read_share, on_share_changed,
         get_share, fetch_failed, write_outdated, write_share_info, no_connection,
         found_closed, probe, probe_answered, probe_failed, probe_timed_out
  <2>2. ASSUME NEW t \in Tasks, dial_failed(t) \/ store_failed(t)
        PROVE  UNCHANGED faults \/ Fault
    BY <2>2 DEF dial_failed, store_failed
  <2> QED
    BY <2>1, <2>2 DEF GuestNext, vars, call, drop_connection, reload, upgrade, turn_away,
         host_closes, connection_lost, idle_timeout
<1>3. faults' \in 0 .. MaxFaults
  BY <1>1, <1>2, GuestBounds DEF Fault
<1>4. ASSUME NEW t \in Tasks, TaskStep(t)
      PROVE  UNCHANGED hostVars /\ used' \in {used, TRUE}
  BY <1>4 DEF TaskStep, open_stream, cell_filled, dial, dialled, hub_refuses,
         stream_opened, stream_closed, open_failed, record_row, read_share, on_share_changed,
         get_share, fetch_failed, write_outdated, write_share_info, no_connection,
         found_closed, probe, probe_answered, probe_failed, probe_timed_out
<1>5. /\ kind' = kind /\ used' \in {used, TRUE}
      /\ UNCHANGED <<config, tooOld>> \/ reload \/ upgrade
  <2>1. CASE \E t \in Tasks : TaskStep(t)
    BY <2>1, <1>4 DEF hostVars
  <2>2. CASE \E t \in Tasks : dial_failed(t) \/ store_failed(t)
    BY <2>2 DEF dial_failed, store_failed, hostVars
  <2>3. CASE \E t \in Tasks, op \in {"stream", "refresh", "check"} : call(t, op)
    BY <2>3 DEF call, hostVars
  <2>4. CASE drop_connection \/ reload \/ upgrade \/ turn_away
    BY <2>4 DEF drop_connection, reload, upgrade, turn_away, hostVars
  <2>5. CASE \E k \in Cells : host_closes(k) \/ connection_lost(k) \/ idle_timeout(k)
    BY <2>5 DEF host_closes, connection_lost, idle_timeout, hostVars
  <2>6. CASE UNCHANGED vars
    BY <2>6 DEF vars, hostVars
  <2> QED
    BY <2>1, <2>2, <2>3, <2>4, <2>5, <2>6 DEF GuestNext
<1>6. config' \in 0 .. MaxVersion
  BY <1>1, <1>5, GuestBounds DEF reload, upgrade
<1>7. tooOld' = tooOld \/ tooOld' = ~tooOld
  BY <1>5 DEF reload, upgrade
<1>8. tooOld' \in BOOLEAN
  BY <1>1, <1>7, Zenon
<1> QED
  BY <1>1, <1>3, <1>5, <1>6, <1>8

\* The host node and the network, and the app dropping its connections.
Outside ==
  \/ drop_connection \/ reload \/ upgrade \/ turn_away
  \/ \E k \in Cells : host_closes(k) \/ connection_lost(k) \/ idle_timeout(k)

LEMMA OutsideMoves ==
  ASSUME GuestIInv, Outside \/ UNCHANGED vars
  PROVE  NetMove /\ UNCHANGED <<task, gate, dead, stored>>
<1>1. /\ slot \in [Cells -> ConnStates] /\ cell \in Cells /\ GuestTypeOK
      /\ host \in {"guest", "revoked", "unknown"}
  BY DEF GuestIInv, GuestTypeOK
<1>2. CASE reload \/ upgrade \/ UNCHANGED vars
  BY <1>1, <1>2 DEF reload, upgrade, vars, hostVars, net, NetMove
<1>3. CASE turn_away
  BY <1>1, <1>3 DEF turn_away, net, NetMove
<1>4. CASE drop_connection
  <2>1. /\ slot' \in [Cells -> ConnStates] /\ cell' \in Cells
        /\ \A k \in Cells : slot'[k] \in {slot[k], None}
    BY <1>1, <1>4, CellsAfter DEF drop_connection
  <2> QED
    BY <1>4, <2>1 DEF drop_connection, hostVars, NetMove, None
<1>5. ASSUME NEW k \in Cells, host_closes(k) \/ connection_lost(k) \/ idle_timeout(k)
      PROVE  NetMove /\ UNCHANGED <<task, gate, dead, stored>>
  <2>1. PICK s : /\ slot' = [slot EXCEPT ![k] = s]
                 /\ s \in {"stalled", "closing"} \/ (s = host /\ host # "guest")
    BY <1>5 DEF host_closes, connection_lost, idle_timeout
  <2>2. slot' \in [Cells -> ConnStates]
    BY <1>1, <2>1 DEF ConnStates, Ended
  <2>3. UNCHANGED <<cell, hostVars, task, gate, dead, stored>>
    BY <1>5 DEF host_closes, connection_lost, idle_timeout
  <2> QED
    BY <1>1, <2>1, <2>2, <2>3 DEF NetMove, hostVars
<1> QED
  BY <1>2, <1>3, <1>4, <1>5 DEF Outside, drop_connection, reload, upgrade, turn_away, vars

LEMMA StoryKept ==
  ASSUME GuestIInv, NetMove, EndMove
  PROVE  /\ CodesTrue' /\ TerminalIsTold'
         /\ host' \in {"guest", "revoked", "unknown"} /\ dead' \in Terminal \cup {None}
<1>1. /\ slot \in [Cells -> ConnStates] /\ CodesTrue /\ TerminalIsTold
      /\ host \in {"guest", "revoked", "unknown"} /\ dead \in Terminal \cup {None}
  BY DEF GuestIInv, GuestTypeOK
<1>2. host' \in {"guest", "revoked", "unknown"} /\ dead' \in Terminal \cup {None}
  BY <1>1 DEF NetMove, EndMove, Terminal
<1>3. CodesTrue'
  BY <1>1 DEF NetMove, CodesTrue
<1>4. TerminalIsTold'
  BY <1>1 DEF NetMove, EndMove, TerminalIsTold, Terminal, None
<1> QED
  BY <1>2, <1>3, <1>4

LEMMA GuestIInvPreserved ==
  ASSUME GuestIInv, [GuestNext]_vars
  PROVE  GuestIInv'
<1>1. CASE \E t \in Tasks :
             \/ TaskStep(t) \/ dial_failed(t) \/ store_failed(t)
             \/ \E op \in {"stream", "refresh", "check"} : call(t, op)
  <2> PICK t \in Tasks : \/ TaskStep(t) \/ dial_failed(t) \/ store_failed(t)
                         \/ \E op \in {"stream", "refresh", "check"} : call(t, op)
    BY <1>1
  <2>1. CallMove(t)
    BY TaskMoves
  <2>2. NetMove /\ EndMove /\ ChangesSeen'
    BY TaskNetMoves, TaskEndMoves, ChangesSeenPreserved
  <2>3. GateInv' /\ gate' \in Seq(Tasks)
    BY <2>1, GateMovePreserves DEF GuestIInv, GuestTypeOK
  <2>4. CallsHold'
    BY <2>1 DEF CallMove, GateMove, Holding, CallsHold, GuestIInv, At
  <2>5. GuestTypeOK'
    BY <2>1, <2>2, <2>3, StoryKept, FlagsTyped DEF GuestTypeOK, CallMove, NetMove, EndMove
  <2> QED
    BY <2>2, <2>3, <2>4, <2>5, StoryKept DEF GuestIInv
<1>2. CASE Outside \/ UNCHANGED vars
  <2>1. NetMove /\ UNCHANGED <<task, gate, dead, row, unseen, storeOk>>
    BY <1>2, OutsideMoves DEF stored
  <2>2. EndMove
    BY <2>1 DEF EndMove, GuestIInv, GuestTypeOK
  <2>3. GuestTypeOK'
    BY <2>1, <2>2, StoryKept, FlagsTyped DEF GuestTypeOK, NetMove, GuestIInv
  <2>4. GateInv' /\ CallsHold' /\ ChangesSeen'
    BY <2>1 DEF GuestIInv, GateInv, CallsHold, ChangesSeen, Queued, At
  <2> QED
    BY <2>1, <2>2, <2>3, <2>4, StoryKept DEF GuestIInv
<1> QED
  BY <1>1, <1>2 DEF GuestNext, Outside

-----------------------------------------------------------------------------
(* Theorems *)

\* The inductive invariant of a guest node: the gate's queue is the calls that
\* wait for it, and a close code is the truth about the device.
THEOREM GuestInvariant == GuestSpec => []GuestIInv
<1>1. GuestInit => GuestIInv
  <2> SUFFICES ASSUME GuestInit PROVE GuestIInv
    OBVIOUS
  <2>1. Cardinality(Tasks) \in Nat /\ MaxVersion \in Nat /\ MaxFaults \in Nat
    BY GuestBounds, FS_CardinalityType
  <2>2. Idle \in Call /\ row \in Row /\ 1 \in Cells
    BY <2>1 DEF GuestInit, Idle, Joined, Call, Row, Steps, Cells, Terminal
  <2>3. GuestTypeOK
    <3>1. /\ slot \in [Cells -> ConnStates] /\ cell \in Cells /\ task \in [Tasks -> Call]
          /\ gate \in Seq(Tasks)
      BY <2>2 DEF GuestInit, ConnStates
    <3>2. faults \in 0 .. MaxFaults /\ config \in 0 .. MaxVersion
      BY <2>1 DEF GuestInit
    <3> QED
      BY <2>2, <3>1, <3>2 DEF GuestInit, GuestTypeOK
  <2>4. GateInv
    BY DEF GuestInit, GateInv, Queued, At, Idle
  <2>5. CallsHold /\ ChangesSeen /\ CodesTrue /\ TerminalIsTold
    BY DEF GuestInit, CallsHold, ChangesSeen, CodesTrue, TerminalIsTold, At, Idle, Joined,
                         None
  <2> QED
    BY <2>3, <2>4, <2>5 DEF GuestIInv
<1> QED
  BY <1>1, GuestIInvPreserved, PTL DEF GuestSpec

\* The guest node's own state is well formed, and whatever calls overlap, an
\* observer that has not seen a change of the share is about to be told.
THEOREM ObserversAreTold == GuestSpec => []GuestInv
<1>1. GuestIInv => GuestInv
  BY DEF GuestIInv, GuestInv
<1> QED
  BY <1>1, GuestInvariant, PTL

\* Whichever call meets a close code, and whenever: a share is recorded as
\* revoked or removed only if the host node, or the hub, holds it to be that.
THEOREM EndsByTheHostsWord == GuestSpec => []TerminalIsTold
<1>1. GuestIInv => TerminalIsTold
  BY DEF GuestIInv
<1> QED
  BY <1>1, GuestInvariant, PTL

\* Letting go of a cell that is not the current one leaves the cache alone.
LEMMA CurrentKept ==
  ASSUME GuestIInv, NEW t \in Tasks, NEW k,
         LetGo(t) \/ (evict(t, k) /\ k # cell)
  PROVE  cell' = cell /\ slot'[cell] = slot[cell]
<1>1. slot' = Kept(Tasks \ {t}, {cell}) /\ cell' = cell
  BY DEF evict, LetGo
<1> QED
  BY <1>1 DEF Kept, GuestIInv, GuestTypeOK

\* Whatever calls fail on connections that were replaced meanwhile: one that
\* works leaves the cache only when the app drops it, or by the check that
\* probed it in vain.
THEOREM LiveConnectionStays == GuestSpec => LiveConnectionKept
<1> DEFINE Probed == \E t \in Tasks : At(t, "probe") /\ task[t].cell = cell /\ task'[t].step # "probe"
           Live == slot[cell] = "open" /\ (cell' # cell \/ slot'[cell] = None)
<1>1. ASSUME GuestIInv, [GuestNext]_vars, Live, task' # task
      PROVE  Probed
  <2>1. /\ slot \in [Cells -> ConnStates] /\ cell \in Cells /\ task \in [Tasks -> Call]
    BY <1>1 DEF GuestIInv, GuestTypeOK
  <2>2. ~(UNCHANGED net) /\ slot[cell] \notin Ended /\ slot[cell] # None
    BY <1>1 DEF net, Ended, None
  <2>3. PICK t \in Tasks : \/ TaskStep(t) \/ dial_failed(t) \/ store_failed(t)
                           \/ \E op \in {"stream", "refresh", "check"} : call(t, op)
    BY <1>1 DEF GuestNext, vars, drop_connection, reload, upgrade, turn_away, host_closes,
                connection_lost, idle_timeout
  <2>4. ~LetGo(t) /\ \A k : evict(t, k) => k = cell
    BY <1>1, <2>2, CurrentKept
  <2>5. CASE probe_timed_out(t)
    <3>1. task[t].cell = cell
      BY <2>4, <2>5 DEF probe_timed_out, ProbeFailed
    <3>2. task'[t].step # "probe"
      BY <1>1, <2>5, ProbeFailedMoves DEF probe_timed_out, Past, At
    <3> QED
      BY <2>5, <3>1, <3>2 DEF probe_timed_out
  <2>6. CASE open_failed(t) \/ found_closed(t) \/ probe_failed(t)
    BY <2>2, <2>4, <2>6 DEF open_failed, found_closed, probe_failed, ProbeFailed, InCell
  <2>7. CASE dialled(t)
    <3>1. cell' = cell /\ slot'[cell] \in {slot[cell], "open", "unserved"}
      BY <2>1, <2>7 DEF dialled
    <3> QED
      BY <1>1, <2>2, <3>1 DEF None
  <2>8. CASE stream_opened(t) \/ stream_closed(t) \/ get_share(t) \/ fetch_failed(t)
             \/ probe_answered(t)
    BY <2>2, <2>4, <2>8 DEF stream_opened, stream_closed, get_share, fetch_failed,
                            probe_answered, net
  <2>9. CASE \/ open_stream(t) \/ cell_filled(t) \/ dial(t) \/ hub_refuses(t) \/ record_row(t)
             \/ read_share(t) \/ on_share_changed(t) \/ write_outdated(t) \/ write_share_info(t)
             \/ no_connection(t) \/ probe(t) \/ dial_failed(t) \/ store_failed(t)
             \/ \E op \in {"stream", "refresh", "check"} : call(t, op)
    BY <2>2, <2>9 DEF open_stream, cell_filled, dial, hub_refuses, record_row,
         read_share, on_share_changed, write_outdated, write_share_info, no_connection, probe, dial_failed,
         store_failed, call
  <2> QED
    BY <2>3, <2>5, <2>6, <2>7, <2>8, <2>9 DEF TaskStep
<1>2. GuestIInv /\ [GuestNext]_vars => [Live => UNCHANGED task \/ Probed]_vars
  BY <1>1
<1> QED
  BY <1>2, GuestInvariant, PTL DEF GuestSpec, LiveConnectionKept
=============================================================================
