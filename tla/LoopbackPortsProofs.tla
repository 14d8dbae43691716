------------------------ MODULE LoopbackPortsProofs ------------------------
(***************************************************************************)
(* The loopback ports for any number of shares, ports and calls: a port    *)
(* that is served has an owner, is the one the database remembers and is   *)
(* served until somebody takes it away.                                    *)
(***************************************************************************)
EXTENDS LoopbackPorts, WellFoundedInduction, TLAPS

\* Who has a cell: the proxy, a forwarder, or one that is being made.
Forwards(t, c) == task[t].op = "forward" /\ c \in task[t].todo
Has(c) ==
  \/ \E k \in Keys : cellOf[k] = c \/ c \in fwd[k]
  \/ \E t \in Tasks : Forwards(t, c)

Listens(c) == \E p \in Ports : sock[p] = c
Rebinding(c) == \E t \in Tasks : task[t].op = "rebind" /\ task[t].cell = c
Awaited(c) == \E t \in Tasks : task[t].op = "rebind" /\ task[t].step = "await" /\ task[t].cell = c

\* A cell that is set listens, if at all, on its port, with accept loops; what
\* listens without an owner is closing, and an owner's cell is closing only
\* while a rebind waits for it.
CellInv(c) ==
  /\ bp[c].state = "set" => bp[c].port \in Ports
  /\ \A p \in Ports : sock[p] = c /\ bp[c].state = "set" => p = bp[c].port
  /\ \A p, q \in Ports : sock[p] = c /\ sock[q] = c => p = q
  /\ Listens(c) /\ bp[c].state # "set" => ~Has(c) /\ ~Held(c)
  /\ Listens(c) /\ c \notin closing => bp[c].state = "set" /\ bp[c].loops /\ Has(c)
  /\ c \in closing /\ Has(c) => Awaited(c)
  /\ Has(c) /\ bp[c].state = "set" /\ ~Rebinding(c) /\ c \notin down => sock[bp[c].port] = c

\* A forwarder's cells are set, and nobody else has them.
OwnersInv ==
  /\ \A k, j \in Keys : cellOf[k] = cellOf[j] /\ cellOf[k] # 0 => k = j
  /\ \A k, j \in Keys : \A c \in fwd[k] : c \in fwd[j] => k = j
  /\ \A k \in Keys : \A c \in fwd[k] : bp[c].state = "set"
  /\ \A t \in Tasks : \A c \in Cells : Forwards(t, c) =>
       /\ bp[c].state = "set"
       /\ \A k \in Keys : c \notin fwd[k]
       /\ \A u \in Tasks \ {t} : task[u].cell # c /\ c \notin task[u].todo
  /\ kind = "forwarder" => \A k \in Keys : cellOf[k] = 0
  /\ kind # "forwarder" => \A k \in Keys : fwd[k] = {}

\* A call of app_port or share_port has its key's cell, until the share is left;
\* one of them at a time binds a cell, to the port its row remembers.
Binds(t) == task[t].op = "port" /\ task[t].step \in {"fresh", "again"}

PortCall(c) ==
  c.op = "port" =>
    /\ kind # "forwarder"
    /\ c.key \in Keys /\ c.cell \in Cells /\ c.todo = {} /\ c.step \in {"get", "fresh", "again"}
    /\ c.step # "get" => bp[c.cell].state = "binding"
    /\ c.key \in joined => cellOf[c.key] = c.cell
    /\ \A k \in Keys : cellOf[k] = c.cell => k = c.key
    /\ c.step = "again" => c.port \in Ports /\ (c.key \in joined => memo[c.key] = c.port)

RebindCall(c) ==
  c.op = "rebind" =>
    /\ c.step \in {"next", "await", "bind"} /\ (c.step = "next" <=> c.cell = 0)
    /\ \A d \in Cells : d = c.cell => bp[d].state = "set"

ForwardCall(t) ==
  task[t].op = "forward" =>
    /\ kind = "forwarder" /\ lock = t
    /\ task[t].key \in Keys /\ task[t].cell = 0 /\ task[t].step = None
    /\ fwd[task[t].key] = {}

\* What has nothing yet: no call, or one that waits for the forwarders.
NoCall(c) ==
  /\ c.op = None => c = Idle
  /\ c.op = "lock" => kind = "forwarder" /\ c.cell = 0 /\ c.todo = {} /\ c.step = None

CallsInv ==
  /\ \A t \in Tasks : PortCall(task[t]) /\ RebindCall(task[t]) /\ ForwardCall(t) /\ NoCall(task[t])
  /\ \A t, u \in Tasks : Binds(t) /\ Binds(u) /\ task[t].cell = task[u].cell => t = u

PortsIInv ==
  /\ PortsTypeOK
  /\ \A c \in Cells : CellInv(c)
  /\ OwnersInv
  /\ CallsInv
  /\ RememberedIsServed

-----------------------------------------------------------------------------
(* Cells *)

LEMMA Typed ==
  ASSUME PortsIInv
  PROVE  /\ kind \in Kinds /\ joined \subseteq Keys /\ memo \in [Keys -> Ports \cup {0}]
         /\ cellOf \in [Keys -> Cells \cup {0}] /\ fwd \in [Keys -> SUBSET Cells]
         /\ lock \in Tasks \cup {None} /\ bp \in [Cells -> BoundPort]
         /\ sock \in [Ports -> Cells \cup {Free, Other, Leaked}]
         /\ closing \subseteq Cells /\ (\A c \in closing : Listens(c))
         /\ task \in [Tasks -> Call] /\ down \subseteq Cells
BY DEF PortsIInv, PortsTypeOK, Range, Listens

LEMMA Numbers ==
  /\ Cells \subseteq Nat /\ Ports \subseteq Nat
  /\ 0 \notin Cells /\ 0 \notin Ports
  /\ Free \notin Cells /\ Other \notin Cells /\ Leaked \notin Cells
BY CellsAssumption, WantsAssumption DEF Cells, Ports, Free, Other, Leaked

LEMMA IdleCall ==
  /\ Idle \in Call /\ Idle.op = None /\ Idle.cell = 0 /\ Idle.todo = {} /\ Idle.step = None
  /\ Idle.key = None /\ Idle.port = 0
BY DEF Idle, Call

LEMMA EmptyIsBoundPort == Empty \in BoundPort /\ Empty.state = "empty"
BY DEF Empty, BoundPort

\* What the code calls owned is what has an owner here.
LEMMA OwnedHas ==
  ASSUME PortsIInv, NEW c \in Cells
  PROVE  Owned(c) <=> Has(c)
BY DEF Owned, Has, Forwards

LEMMA MinInSet ==
  ASSUME NEW S, S \subseteq Nat, S # {}
  PROVE  Min(S) \in S
<1>1. PICK x \in S : \A y \in S : ~(<<y, x>> \in OpToRel(<, Nat))
  BY NatLessThanWellFounded, WFMin
<1>2. OpToRel(<, Nat) = {p \in Nat \X Nat : p[1] < p[2]}
  BY DEF OpToRel
<1>3. \A y \in S : ~(y < x)
  BY <1>1, <1>2
<1>4. \A y \in S : x <= y
  BY <1>3
<1> QED
  BY <1>4 DEF Min

\* A cell that is not in use is empty, and nothing listens or waits for it.
LEMMA NewCellFree ==
  ASSUME PortsIInv, Unused # {}
  PROVE  /\ NewCell \in Cells /\ ~Has(NewCell) /\ ~Held(NewCell) /\ ~Listens(NewCell)
         /\ NewCell \notin closing /\ bp[NewCell].state = "empty"
<1>1. Unused \subseteq Cells
  BY DEF Unused
<1>2. PICK c \in Unused : c = NewCell
  BY <1>1, Numbers, MinInSet DEF NewCell
<1>3. c \in Cells /\ ~Held(c)
  BY <1>2 DEF Unused
<1>4. ~Listens(c)
  BY <1>2 DEF Unused, Listens
<1>5. ~Has(c)
  BY <1>2, <1>3, OwnedHas DEF Unused
<1>6. bp[c].state = "empty"
  BY <1>2, EmptyIsBoundPort DEF Unused
<1>7. c \notin closing
  BY <1>4, Typed
<1> QED
  BY <1>2, <1>3, <1>4, <1>5, <1>6, <1>7

-----------------------------------------------------------------------------
(* Steps of one call *)

\* The cells a call holds.
Uses(r, c) == r.cell = c \/ c \in r.todo

\* Call t goes on as e.
Onto(t, e) == e \in Call /\ task' = [task EXCEPT ![t] = e]

LEMMA OntoTask ==
  ASSUME PortsIInv, NEW t \in Tasks, NEW e, Onto(t, e)
  PROVE  /\ task' \in [Tasks -> Call] /\ task'[t] = e
         /\ \A u \in Tasks \ {t} : task'[u] = task[u]
BY Typed DEF Onto

\* What a step leaves of cell c as it was.
SameCell(c) ==
  /\ bp'[c] = bp[c] /\ (c \in closing' <=> c \in closing)
  /\ \A p \in Ports : sock'[p] = c <=> sock[p] = c
  /\ \A k \in Keys : (cellOf'[k] = c <=> cellOf[k] = c) /\ (c \in fwd'[k] <=> c \in fwd[k])
  /\ c \in down => c \in down'

LEMMA CellElse ==
  ASSUME PortsIInv, NEW t \in Tasks, NEW e, Onto(t, e), NEW c \in Cells, SameCell(c),
         Uses(e, c) <=> Uses(task[t], c),
         e.op = "forward" /\ c \in e.todo <=> Forwards(t, c),
         task[t].op = "rebind" /\ task[t].cell = c =>
           e.op = "rebind" /\ e.cell = c /\ e.step = task[t].step
  PROVE  CellInv(c)'
<1>1. task'[t] = e /\ \A u \in Tasks \ {t} : task'[u] = task[u]
  BY OntoTask
<1>2. CellInv(c)
  BY DEF PortsIInv
<1>3. Held(c)' <=> Held(c)
  BY <1>1 DEF Held, Uses
<1>4. Has(c)' <=> Has(c)
  BY <1>1 DEF Has, Forwards, SameCell
<1>5. Rebinding(c) => Rebinding(c)'
  BY <1>1 DEF Rebinding
<1>6. Awaited(c) => Awaited(c)'
  BY <1>1 DEF Awaited
<1>7. Listens(c)' <=> Listens(c)
  BY DEF Listens, SameCell
<1>8. (c \in down => c \in down') /\ bp'[c] = bp[c] /\ (c \in closing' <=> c \in closing)
      /\ \A p \in Ports : sock'[p] = c <=> sock[p] = c
  BY DEF SameCell
<1> QED
  BY <1>2, <1>3, <1>4, <1>5, <1>6, <1>7, <1>8 DEF CellInv

LEMMA CallMove ==
  ASSUME PortsIInv, NEW t \in Tasks, NEW e, Onto(t, e), NEW c,
         \A d \in Cells \ {c} : bp'[d] = bp[d],
         UNCHANGED <<kind, joined, cellOf, fwd, lock>>,
         \A u \in Tasks \ {t} : Binds(u) =>
           task[u].cell # c /\ (task[u].key \in joined => memo'[task[u].key] = memo[task[u].key]),
         c \in Cells /\ bp[c].state = "set" =>
           \/ bp'[c].state = "set"
           \/ ~Has(c) /\ \A u \in Tasks \ {t} : ~Uses(task[u], c),
         task[t].op # "forward", e.op # "forward",
         PortCall(e)', RebindCall(e)', NoCall(e)',
         e.op = "port" /\ e.step \in {"fresh", "again"} => e.cell = c,
         \A d \in Cells : Uses(e, d) => \A u \in Tasks : ~Forwards(u, d)
  PROVE  CallsInv' /\ OwnersInv'
<1>1. task'[t] = e /\ \A u \in Tasks \ {t} : task'[u] = task[u]
  BY OntoTask
<1>2. \A u \in Tasks : PortCall(task[u]) /\ RebindCall(task[u]) /\ ForwardCall(u) /\ NoCall(task[u])
  BY DEF PortsIInv, CallsInv
<1>3. ASSUME NEW u \in Tasks \ {t}
      PROVE  PortCall(task[u])' /\ RebindCall(task[u])' /\ ForwardCall(u)' /\ NoCall(task[u])'
  <2>1. task'[u] = task[u] /\ PortCall(task[u]) /\ RebindCall(task[u]) /\ ForwardCall(u)
        /\ NoCall(task[u])
    BY <1>1, <1>2
  <2>2. PortCall(task[u])'
    <3>1. CASE Binds(u)
      BY <2>1, <3>1 DEF PortCall, Binds
    <3>2. CASE ~Binds(u)
      BY <2>1, <3>2 DEF PortCall, Binds
    <3> QED
      BY <3>1, <3>2
  <2>3. RebindCall(task[u])'
    BY <2>1 DEF RebindCall, Uses
  <2> QED
    BY <2>1, <2>2, <2>3 DEF ForwardCall, NoCall
<1>4. PortCall(task[t])' /\ RebindCall(task[t])' /\ ForwardCall(t)' /\ NoCall(task[t])'
  BY <1>1 DEF ForwardCall, PortCall, RebindCall, NoCall
<1>5. \A u, v \in Tasks : Binds(u)' /\ Binds(v)' /\ task'[u].cell = task'[v].cell => u = v
  <2>1. \A u, v \in Tasks : Binds(u) /\ Binds(v) /\ task[u].cell = task[v].cell => u = v
    BY DEF PortsIInv, CallsInv
  <2>2. \A u \in Tasks \ {t} : Binds(u)' <=> Binds(u)
    BY <1>1 DEF Binds
  <2>3. Binds(t)' => task'[t].cell = c
    BY <1>1 DEF Binds
  <2> QED
    BY <1>1, <2>1, <2>2, <2>3
<1>6. CallsInv'
  BY <1>3, <1>4, <1>5 DEF CallsInv
<1>7. \A u \in Tasks, d \in Cells : Forwards(u, d)' <=> Forwards(u, d)
  BY <1>1 DEF Forwards
<1>8. OwnersInv
  BY DEF PortsIInv
<1>9. \A d \in Cells : Has(d) /\ bp[d].state = "set" => bp'[d].state = "set"
  OBVIOUS
<1>10. ASSUME NEW u \in Tasks, NEW d \in Cells, Forwards(u, d)'
       PROVE  /\ bp'[d].state = "set"
              /\ \A k \in Keys : d \notin fwd'[k]
              /\ \A v \in Tasks \ {u} : task'[v].cell # d /\ d \notin task'[v].todo
  <2>1. Forwards(u, d) /\ Has(d) /\ u # t
    BY <1>7, <1>10 DEF Has, Forwards
  <2>2. /\ bp[d].state = "set"
        /\ \A k \in Keys : d \notin fwd[k]
        /\ \A v \in Tasks \ {u} : task[v].cell # d /\ d \notin task[v].todo
    BY <1>8, <2>1 DEF OwnersInv
  <2>3. e.cell # d /\ d \notin e.todo
    BY <2>1 DEF Uses
  <2> QED
    BY <1>1, <1>9, <2>1, <2>2, <2>3
<1>11. \A k \in Keys : \A d \in fwd'[k] : bp'[d].state = "set"
  <2> SUFFICES ASSUME NEW k \in Keys, NEW d \in fwd[k]
               PROVE  bp'[d].state = "set"
    OBVIOUS
  <2>1. d \in Cells
    BY Typed
  <2>2. Has(d) /\ bp[d].state = "set"
    BY <1>8 DEF OwnersInv, Has
  <2> QED
    BY <1>9, <2>1, <2>2
<1>12. OwnersInv'
  BY <1>8, <1>10, <1>11 DEF OwnersInv
<1> QED
  BY <1>6, <1>12

LEMMA CellStays ==
  ASSUME PortsIInv, NEW c \in Cells, SameCell(c), UNCHANGED task
  PROVE  CellInv(c)'
<1>1. CellInv(c)
  BY DEF PortsIInv
<1>2. (Held(c)' <=> Held(c)) /\ (Has(c)' <=> Has(c))
  BY DEF Held, Has, Forwards, SameCell
<1>3. (Rebinding(c) => Rebinding(c)') /\ (Awaited(c) => Awaited(c)')
  BY DEF Rebinding, Awaited
<1>4. Listens(c)' <=> Listens(c)
  BY DEF Listens, SameCell
<1>5. (c \in down => c \in down') /\ bp'[c] = bp[c] /\ (c \in closing' <=> c \in closing)
      /\ \A p \in Ports : sock'[p] = c <=> sock[p] = c
  BY DEF SameCell
<1> QED
  BY <1>1, <1>2, <1>3, <1>4, <1>5 DEF CellInv

\* A cell that loses its owner: its loops are aborted, and it is forgotten unless
\* a call holds it.
LEMMA CellReleased ==
  ASSUME PortsIInv, NEW c \in Cells, Has(c), ~Has(c)', sock' = sock,
         c \in closing' <=> c \in closing \/ (bp[c].loops /\ Listens(c)),
         \/ bp'[c] = Empty /\ ~Held(c)'
         \/ bp'[c] = bp[c] /\ Held(c)'
  PROVE  CellInv(c)'
<1>1. CellInv(c)
  BY DEF PortsIInv
<1>2. Listens(c)' <=> Listens(c)
  BY DEF Listens
<1>3. ~(Listens(c)' /\ c \notin closing')
  BY <1>1, <1>2 DEF CellInv
<1>4. CASE bp'[c] = Empty /\ ~Held(c)'
  BY <1>1, <1>3, <1>4, EmptyIsBoundPort DEF CellInv
<1>5. CASE bp'[c] = bp[c] /\ Held(c)'
  BY <1>1, <1>2, <1>3, <1>5 DEF CellInv
<1> QED
  BY <1>4, <1>5

\* The parts of the invariant, after a step.
StateTyped ==
  /\ kind \in Kinds /\ joined \subseteq Keys /\ memo \in [Keys -> Ports \cup {0}]
  /\ cellOf \in [Keys -> Cells \cup {0}] /\ fwd \in [Keys -> SUBSET Cells]
  /\ lock \in Tasks \cup {None} /\ bp \in [Cells -> BoundPort]
  /\ sock \in [Ports -> Cells \cup {Free, Other, Leaked}]
  /\ closing \subseteq Cells /\ (\A c \in closing : Listens(c))
  /\ task \in [Tasks -> Call] /\ down \subseteq Cells

LEMMA StateTypedNow == PortsIInv => StateTyped
BY Typed DEF StateTyped

LEMMA InvAfter ==
  ASSUME StateTyped', \A c \in Cells : CellInv(c)', OwnersInv', CallsInv', RememberedIsServed'
  PROVE  PortsIInv'
<1>1. PortsTypeOK'
  BY DEF StateTyped, PortsTypeOK, Range, Listens
<1> QED
  BY <1>1 DEF PortsIInv

\* What holds of a call.
LEMMA CallFacts ==
  ASSUME PortsIInv, NEW t \in Tasks
  PROVE  /\ task[t] \in Call /\ PortCall(task[t]) /\ RebindCall(task[t]) /\ ForwardCall(t)
         /\ NoCall(task[t])
         /\ task[t].op \in {None, "port", "lock", "rebind", "forward"}
BY Typed DEF PortsIInv, CallsInv, Call

\* A call that lets go of its cell leaves it as recorded, or empty when it was
\* the last.
LEMMA LetsGo ==
  ASSUME PortsIInv, NEW t \in Tasks, NEW c \in Cells, task[t].cell = c, task[t].op # "forward",
         NEW r \in BoundPort, Let(t, c, r)
  PROVE  /\ bp' \in [Cells -> BoundPort] /\ \A d \in Cells \ {c} : bp'[d] = bp[d]
         /\ \/ /\ bp'[c] = Empty /\ ~Has(c) /\ c \notin task[t].todo
               /\ \A u \in Tasks \ {t} : ~Uses(task[u], c)
            \/ /\ bp'[c] = r
               /\ Has(c) \/ c \in task[t].todo \/ \E u \in Tasks \ {t} : Uses(task[u], c)
<1>1. bp \in [Cells -> BoundPort]
  BY Typed
<1>2. Drops(t, c) <=> /\ ~Has(c) /\ c \notin task[t].todo
                      /\ \A u \in Tasks \ {t} : ~Uses(task[u], c)
  BY OwnedHas DEF Drops, Uses
<1> QED
  BY <1>1, <1>2, EmptyIsBoundPort DEF Let

LEMMA HasKept ==
  ASSUME PortsIInv, NEW t \in Tasks, NEW e, Onto(t, e), task[t].op # "forward",
         e.op # "forward", UNCHANGED <<cellOf, fwd>>
  PROVE  /\ \A c : Has(c)' <=> Has(c)
         /\ \A c : Held(c)' <=> Uses(e, c) \/ \E u \in Tasks \ {t} : Uses(task[u], c)
         /\ \A c : Held(c) <=> Uses(task[t], c) \/ \E u \in Tasks \ {t} : Uses(task[u], c)
<1>1. task'[t] = e /\ \A u \in Tasks \ {t} : task'[u] = task[u]
  BY OntoTask
<1>2. \A c : Has(c)' <=> Has(c)
  BY <1>1 DEF Has, Forwards
<1>3. \A c : Held(c)' <=> Uses(e, c) \/ \E u \in Tasks \ {t} : Uses(task[u], c)
  BY <1>1 DEF Held, Uses
<1>4. \A c : Held(c) <=> Uses(task[t], c) \/ \E u \in Tasks \ {t} : Uses(task[u], c)
  BY DEF Held, Uses
<1> QED
  BY <1>2, <1>3, <1>4

-----------------------------------------------------------------------------
(* PerAppProxy::app_port and PerShareForwardProxy::share_port *)

LEMMA IdleAfter ==
  /\ PortCall(Idle)' /\ RebindCall(Idle)' /\ NoCall(Idle)' /\ \A d \in Cells : ~Uses(Idle, d)
  /\ PortCall(Idle) /\ RebindCall(Idle)
BY IdleCall, Numbers DEF PortCall, RebindCall, NoCall, Uses, None

\* A call that ends with nothing bound.
LEMMA PortReturns ==
  ASSUME PortsIInv, NEW t \in Tasks, task[t].op = "port", Return(t),
         NEW r \in BoundPort, Let(t, task[t].cell, r),
         \/ r = bp[task[t].cell] /\ r.state = "set"
         \/ r = Empty /\ bp[task[t].cell].state # "set" /\ (bp[task[t].cell].state = "binding" => Binds(t)),
         UNCHANGED <<proxy, sock, closing, down>>
  PROVE  PortsIInv'
<1>1. PICK c \in Cells : c = task[t].cell
  BY CallFacts DEF PortCall
<1>2. Onto(t, Idle) /\ task[t].todo = {} /\ Let(t, c, r) /\ (Binds(t) \/ bp[c].state # "binding")
  BY <1>1, CallFacts, IdleCall DEF Onto, Return, PortCall
<1>3. /\ bp' \in [Cells -> BoundPort] /\ \A d \in Cells \ {c} : bp'[d] = bp[d]
      /\ \/ bp'[c] = Empty /\ ~Has(c) /\ \A u \in Tasks \ {t} : ~Uses(task[u], c)
         \/ bp'[c] = r /\ (Has(c) \/ \E u \in Tasks \ {t} : Uses(task[u], c))
  BY <1>1, <1>2, LetsGo
<1>4. UNCHANGED <<kind, joined, memo, cellOf, fwd, lock, sock, closing, down>>
  BY DEF proxy
<1>5. /\ \A u \in Tasks \ {t} : Binds(u) => task[u].cell # c
      /\ c \in Cells /\ bp[c].state = "set" =>
           \/ bp'[c].state = "set"
           \/ ~Has(c) /\ \A u \in Tasks \ {t} : ~Uses(task[u], c)
  <2>1. ASSUME NEW u \in Tasks \ {t}, Binds(u), task[u].cell = c
        PROVE  FALSE
    <3>1. bp[c].state = "binding"
      BY <2>1, CallFacts DEF Binds, PortCall
    <3>2. Binds(t)
      BY <1>2, <3>1
    <3> QED
      BY <1>1, <2>1, <3>2 DEF PortsIInv, CallsInv
  <2>2. c \in Cells /\ bp[c].state = "set" =>
           \/ bp'[c].state = "set"
           \/ ~Has(c) /\ \A u \in Tasks \ {t} : ~Uses(task[u], c)
    BY <1>1, <1>3
  <2> QED
    BY <2>1, <2>2
<1>6. CallsInv' /\ OwnersInv'
  <2>1. Idle.op # "forward" /\ (Idle.op = None => Idle = Idle)
        /\ ~(Idle.op = "port" /\ Idle.step \in {"fresh", "again"})
    BY IdleCall DEF None
  <2> QED
    BY <1>2, <1>3, <1>4, <1>5, <2>1, IdleAfter, CallMove
<1>7. /\ \A d : Has(d)' <=> Has(d)
      /\ \A d : Held(d)' <=> Uses(Idle, d) \/ \E u \in Tasks \ {t} : Uses(task[u], d)
  BY <1>2, <1>4, HasKept, IdleCall DEF None
<1>8. task'[t] = Idle /\ \A u \in Tasks \ {t} : task'[u] = task[u]
  BY <1>2, OntoTask
<1>9. CellInv(c)'
  <2>1. CellInv(c)
    BY DEF PortsIInv
  <2>2. Held(c)' <=> \E u \in Tasks \ {t} : Uses(task[u], c)
    BY <1>7, IdleAfter
  <2>3. (Rebinding(c) => Rebinding(c)') /\ (Awaited(c) => Awaited(c)')
    BY <1>8 DEF Rebinding, Awaited
  <2>4. Listens(c)' <=> Listens(c)
    BY <1>4 DEF Listens
  <2>5. CASE bp'[c] = Empty /\ ~Has(c) /\ \A u \in Tasks \ {t} : ~Uses(task[u], c)
    BY <1>4, <1>7, <2>1, <2>2, <2>3, <2>4, <2>5, EmptyIsBoundPort DEF CellInv
  <2>6. CASE bp'[c] = r /\ (Has(c) \/ \E u \in Tasks \ {t} : Uses(task[u], c))
    <3>1. CASE r = bp[c] /\ r.state = "set"
      BY <1>4, <1>7, <2>1, <2>2, <2>3, <2>4, <2>6, <3>1 DEF CellInv
    <3>2. CASE r = Empty /\ bp[c].state # "set"
      <4>1. Held(c)
        BY <1>1 DEF Held
      <4>2. ~Listens(c)
        BY <2>1, <3>2, <4>1 DEF CellInv
      <4> QED
        BY <1>4, <1>7, <2>1, <2>2, <2>3, <2>4, <2>6, <3>2, <4>2, EmptyIsBoundPort DEF CellInv, Listens
    <3> QED
      BY <1>1, <3>1, <3>2
  <2> QED
    BY <1>3, <2>5, <2>6
<1>10. ASSUME NEW d \in Cells \ {c}
       PROVE  CellInv(d)'
  <2>1. SameCell(d)
    BY <1>3, <1>4 DEF SameCell
  <2>2. ~Uses(task[t], d) /\ ~Uses(Idle, d)
    BY <1>1, <1>2, IdleAfter DEF Uses
  <2> QED
    BY <1>2, <2>1, <2>2, CellElse, IdleCall DEF Forwards, None
<1>11. StateTyped'
  BY <1>3, <1>4, <1>8, StateTypedNow, OntoTask, <1>2 DEF StateTyped, Listens
<1>12. RememberedIsServed'
  <2>1. bp'[c].state = "set" => bp'[c] = bp[c]
    BY <1>1, <1>3, EmptyIsBoundPort
  <2>2. \A k \in Keys : cellOf[k] # 0 => cellOf[k] \in Cells
    BY Typed
  <2> QED
    BY <1>3, <1>4, <2>1, <2>2, Typed DEF RememberedIsServed, PortsIInv
<1> QED
  BY <1>6, <1>9, <1>10, <1>11, <1>12, InvAfter

\* A call that goes on with its cell, which may be bound now.
LEMMA PortGoesOn ==
  ASSUME PortsIInv, NEW t \in Tasks, NEW e, Onto(t, e), task[t].op = "port", e.op = "port",
         e.key = task[t].key, e.cell = task[t].cell, e.todo = {}, e.step \in {"fresh", "again"},
         e.step = "again" => e.port \in Ports /\ (e.key \in joined => memo[e.key] = e.port),
         NEW b \in BoundPort, bp' = [bp EXCEPT ![e.cell] = b], b.state = "binding",
         \/ bp[e.cell].state = "empty"
         \/ Binds(t) /\ b = bp[e.cell],
         UNCHANGED <<proxy, sock, closing, down>>
  PROVE  PortsIInv'
<1>1. PICK c \in Cells : c = task[t].cell /\ c = e.cell
  BY CallFacts DEF PortCall
<1>2. /\ bp \in [Cells -> BoundPort] /\ bp' \in [Cells -> BoundPort] /\ bp'[c] = b
      /\ \A d \in Cells \ {c} : bp'[d] = bp[d]
  BY <1>1, Typed
<1>3. UNCHANGED <<kind, joined, memo, cellOf, fwd, lock, sock, closing, down>>
  BY DEF proxy
<1>4. task'[t] = e /\ \A u \in Tasks \ {t} : task'[u] = task[u]
  BY OntoTask
<1>5. PortCall(task[t]) /\ task[t].todo = {}
  BY CallFacts DEF PortCall
<1>6. bp[c].state # "set" /\ bp'[c].state = "binding"
  BY <1>1, <1>2
<1>7. \A u \in Tasks \ {t} : Binds(u) => task[u].cell # c
  <2> SUFFICES ASSUME NEW u \in Tasks \ {t}, Binds(u), task[u].cell = c
               PROVE  FALSE
    OBVIOUS
  <2>1. bp[c].state = "binding"
    BY CallFacts DEF Binds, PortCall
  <2>2. Binds(t)
    BY <1>1, <2>1
  <2> QED
    BY <1>1, <2>2 DEF PortsIInv, CallsInv
<1>8. CallsInv' /\ OwnersInv'
  <2>1. PortCall(e)'
    BY <1>1, <1>2, <1>3, <1>5, <1>6 DEF PortCall
  <2>2. RebindCall(e)' /\ NoCall(e)'
    BY DEF RebindCall, NoCall, None
  <2>3. \A d \in Cells : Uses(e, d) => \A u \in Tasks : ~Forwards(u, d)
    <3> SUFFICES ASSUME NEW d \in Cells, Uses(e, d), NEW u \in Tasks, Forwards(u, d)
                 PROVE  FALSE
      OBVIOUS
    <3>1. d = c
      BY <1>1 DEF Uses
    <3>2. bp[c].state = "set"
      BY <3>1 DEF PortsIInv, OwnersInv
    <3> QED
      BY <1>6, <3>2
  <2> QED
    BY <1>1, <1>2, <1>3, <1>6, <1>7, <2>1, <2>2, <2>3, CallMove
<1>9. /\ \A d : Has(d)' <=> Has(d)
      /\ \A d : Held(d)' <=> Uses(e, d) \/ \E u \in Tasks \ {t} : Uses(task[u], d)
  BY <1>3, HasKept
<1>10. CellInv(c)'
  <2>1. CellInv(c) /\ Held(c)
    BY <1>1 DEF PortsIInv, Held
  <2>2. Held(c)'
    BY <1>1, <1>9 DEF Uses
  <2>3. ~Listens(c) /\ ~Listens(c)'
    BY <1>3, <1>6, <2>1 DEF CellInv, Listens
  <2>4. c \notin closing'
    BY <1>3, <2>3, Typed
  <2> QED
    BY <1>6, <2>2, <2>3, <2>4 DEF CellInv, Listens
<1>11. ASSUME NEW d \in Cells \ {c}
       PROVE  CellInv(d)'
  <2>1. SameCell(d)
    BY <1>2, <1>3 DEF SameCell
  <2>2. ~Uses(task[t], d) /\ ~Uses(e, d)
    BY <1>1, <1>5 DEF Uses
  <2> QED
    BY <2>1, <2>2, CellElse DEF Forwards
<1>12. StateTyped'
  BY <1>2, <1>3, StateTypedNow, OntoTask DEF StateTyped, Listens
<1>13. RememberedIsServed'
  BY <1>2, <1>3, <1>6, Typed DEF RememberedIsServed, PortsIInv
<1> QED
  BY <1>8, <1>10, <1>11, <1>12, <1>13, InvAfter

LEMMA PortSteps ==
  ASSUME PortsIInv, NEW t \in Tasks,
         already_bound(t) \/ get_or_try_init(t) \/ port_taken(t) \/ bind_failed(t)
  PROVE  PortsIInv'
<1>1. task[t].op = "port" /\ UNCHANGED <<proxy, sock, closing, down>>
  BY DEF already_bound, get_or_try_init, port_taken, bind_failed, At
<1>2. /\ task[t] \in Call /\ task[t].cell \in Cells /\ bp[task[t].cell] \in BoundPort
      /\ task[t].todo = {} /\ task[t].key \in Keys /\ bp \in [Cells -> BoundPort]
      /\ task \in [Tasks -> Call]
  BY <1>1, CallFacts, Typed DEF PortCall
<1>3. CASE already_bound(t)
  BY <1>1, <1>2, <1>3, PortReturns DEF already_bound
<1>4. CASE bind_failed(t)
  <2>1. Binds(t) /\ bp[task[t].cell].state = "binding"
    BY <1>4, CallFacts DEF bind_failed, At, Binds, PortCall
  <2> QED
    BY <1>1, <1>4, <2>1, PortReturns, EmptyIsBoundPort DEF bind_failed
<1>5. CASE get_or_try_init(t) /\ task[t].key \notin joined
  BY <1>1, <1>5, PortReturns, EmptyIsBoundPort DEF get_or_try_init
<1>6. CASE get_or_try_init(t) /\ task[t].key \in joined
  <2>1. PICK s, p : /\ s = IF memo[task[t].key] = 0 THEN "fresh" ELSE "again"
                    /\ p = memo[task[t].key]
    OBVIOUS
  <2>2. PICK e : e = [task[t] EXCEPT !.step = s, !.port = p]
    OBVIOUS
  <2>3. PICK b : b = [bp[task[t].cell] EXCEPT !.state = "binding"]
    OBVIOUS
  <2>4. p \in Ports \cup {0} /\ s \in {"fresh", "again"} /\ (s = "again" => p \in Ports)
    BY <1>2, <2>1, Typed
  <2>5. /\ e \in Call /\ e.op = "port" /\ e.key = task[t].key /\ e.cell = task[t].cell
        /\ e.todo = {} /\ e.step = s /\ e.port = p
    BY <1>1, <1>2, <2>2, <2>4 DEF Call
  <2>6. task' = [task EXCEPT ![t] = e]
    BY <1>2, <1>6, <2>1, <2>2 DEF get_or_try_init
  <2>7. b \in BoundPort /\ b.state = "binding" /\ bp' = [bp EXCEPT ![e.cell] = b]
    BY <1>2, <1>6, <2>3, <2>5 DEF get_or_try_init, BoundPort
  <2>8. bp[e.cell].state = "empty"
    BY <1>6, <2>5 DEF get_or_try_init
  <2> QED
    BY <1>1, <2>1, <2>4, <2>5, <2>6, <2>7, <2>8, PortGoesOn DEF Onto
<1>7. CASE port_taken(t)
  <2>1. PICK e : e = [task[t] EXCEPT !.step = "fresh"]
    OBVIOUS
  <2>2. /\ e \in Call /\ e.op = "port" /\ e.key = task[t].key /\ e.cell = task[t].cell
        /\ e.todo = {} /\ e.step = "fresh"
    BY <1>1, <1>2, <2>1 DEF Call
  <2>3. task' = [task EXCEPT ![t] = e]
    BY <1>2, <1>7, <2>1 DEF port_taken, Go
  <2>4. PICK b \in BoundPort : b = bp[e.cell]
    BY <1>2, <2>2
  <2>5. bp' = [bp EXCEPT ![e.cell] = b]
    BY <1>2, <1>7, <2>4 DEF port_taken
  <2>6. Binds(t) /\ b.state = "binding"
    BY <1>7, <2>2, <2>4, CallFacts DEF port_taken, At, Binds, PortCall
  <2> QED
    BY <1>1, <2>2, <2>3, <2>4, <2>5, <2>6, PortGoesOn DEF Onto
<1> QED
  BY <1>3, <1>4, <1>5, <1>6, <1>7

-----------------------------------------------------------------------------
(* Binding a port *)

\* What binding does to the cells: an owned one listens on the port, a port
\* bound for one that was released meanwhile is nobody's.
LEMMA BoundCells ==
  ASSUME PortsIInv, NEW t \in Tasks, NEW e, Onto(t, e), NEW c \in Cells, task[t].cell = c,
         task[t].op # "forward", e.op # "forward", e.cell # c, e.todo = task[t].todo,
         \A d \in Cells \ {c} : e.cell # d,
         NEW p \in Ports, sock[p] = Free, Bound(t, c, p), ~Listens(c),
         UNCHANGED <<cellOf, fwd, closing>>, down' = down \/ down' = down \ {c}
  PROVE  /\ \A d \in Cells : CellInv(d)'
         /\ bp' \in [Cells -> BoundPort] /\ (\A d \in Cells \ {c} : bp'[d] = bp[d])
         /\ sock' \in [Ports -> Cells \cup {Free, Other, Leaked}]
         /\ \A d \in closing' : Listens(d)'
         /\ bp'[c].state = "set" => bp'[c].port = p
         /\ \/ bp'[c].state = "set"
            \/ ~Has(c) /\ c \notin e.todo /\ \A u \in Tasks \ {t} : ~Uses(task[u], c)
<1>1. PICK r : r = [state |-> "set", port |-> p, loops |-> TRUE]
  OBVIOUS
<1>2. r \in BoundPort /\ r.state = "set" /\ r.port = p /\ r.loops
  BY <1>1 DEF BoundPort
<1>3. /\ bp' \in [Cells -> BoundPort] /\ \A d \in Cells \ {c} : bp'[d] = bp[d]
      /\ \/ /\ bp'[c] = Empty /\ ~Has(c) /\ c \notin task[t].todo
            /\ \A u \in Tasks \ {t} : ~Uses(task[u], c)
         \/ /\ bp'[c] = r
            /\ Has(c) \/ c \in task[t].todo \/ \E u \in Tasks \ {t} : Uses(task[u], c)
  BY <1>1, <1>2, LetsGo DEF Bound
<1>4. sock \in [Ports -> Cells \cup {Free, Other, Leaked}]
  BY Typed
<1>5. /\ sock'[p] = (IF Has(c) THEN c ELSE Leaked) /\ \A q \in Ports \ {p} : sock'[q] = sock[q]
      /\ sock' \in [Ports -> Cells \cup {Free, Other, Leaked}]
  BY <1>4, OwnedHas DEF Bound
<1>6. /\ \A d : Has(d)' <=> Has(d)
      /\ \A d : Held(d)' <=> Uses(e, d) \/ \E u \in Tasks \ {t} : Uses(task[u], d)
  BY HasKept
<1>7. task'[t] = e /\ \A u \in Tasks \ {t} : task'[u] = task[u]
  BY OntoTask
<1>8. \A d \in Cells \ {c} : \A q \in Ports : sock'[q] = d <=> sock[q] = d
  BY <1>5, Numbers
<1>9. CellInv(c)'
  <2>1. CellInv(c) /\ c \notin closing'
    BY Typed DEF PortsIInv
  <2>2. \A q \in Ports : sock'[q] = c => q = p /\ Has(c)
    BY <1>5, Numbers DEF Listens
  <2>3. CASE bp'[c] = Empty /\ ~Has(c)
    BY <1>6, <2>1, <2>2, <2>3, EmptyIsBoundPort DEF CellInv, Listens
  <2>4. CASE bp'[c] = r
    <3>1. Has(c)' \/ Held(c)'
      BY <1>2, <1>3, <1>6, <2>4, EmptyIsBoundPort DEF Uses
    <3>2. Has(c)' => sock'[bp'[c].port] = c
      BY <1>2, <1>5, <1>6, <2>4
    <3> QED
      BY <1>2, <1>6, <2>1, <2>2, <2>4, <3>1, <3>2 DEF CellInv, Listens
  <2> QED
    BY <1>3, <2>3, <2>4
<1>10. ASSUME NEW d \in Cells \ {c}
       PROVE  CellInv(d)'
  <2>1. SameCell(d)
    BY <1>3, <1>8 DEF SameCell
  <2>2. Uses(task[t], d) <=> Uses(e, d)
    BY DEF Uses
  <2> QED
    BY <2>1, <2>2, CellElse DEF Forwards
<1>11. \A d \in closing' : Listens(d)'
  <2> SUFFICES ASSUME NEW d \in closing PROVE Listens(d)'
    OBVIOUS
  <2>1. d # c /\ d \in Cells /\ Listens(d)
    BY Typed
  <2> QED
    BY <1>8, <2>1 DEF Listens
<1> QED
  BY <1>2, <1>3, <1>5, <1>9, <1>10, <1>11, EmptyIsBoundPort

\* rebind_port and bind_port for a share's or an app's cell.
LEMMA PortBinds ==
  ASSUME PortsIInv, NEW t \in Tasks, Binds(t), NEW p \in Ports, sock[p] = Free,
         Bound(t, task[t].cell, p), Return(t),
         UNCHANGED <<kind, joined, cellOf, fwd, lock, closing, down>>,
         memo' = memo \/ memo' = [memo EXCEPT ![task[t].key] = p],
         task[t].key \in joined => memo'[task[t].key] = p
  PROVE  PortsIInv'
<1>1. task[t].op = "port" /\ PortCall(task[t])
  BY CallFacts DEF Binds
<1>2. PICK c \in Cells : c = task[t].cell
  BY <1>1 DEF PortCall
<1>3. PICK k \in Keys : k = task[t].key
  BY <1>1 DEF PortCall
<1>4. /\ Onto(t, Idle) /\ task[t].todo = {} /\ bp[c].state = "binding"
      /\ k \in joined => cellOf[k] = c
      /\ \A j \in Keys : cellOf[j] = c => j = k
  BY <1>1, <1>2, <1>3, IdleCall DEF Onto, Return, PortCall, Binds
<1>5. ~Listens(c)
  <2>1. Held(c) /\ CellInv(c)
    BY <1>2 DEF Held, PortsIInv
  <2> QED
    BY <1>4, <2>1 DEF CellInv
<1>6. /\ \A d \in Cells : CellInv(d)'
      /\ bp' \in [Cells -> BoundPort] /\ (\A d \in Cells \ {c} : bp'[d] = bp[d])
      /\ sock' \in [Ports -> Cells \cup {Free, Other, Leaked}]
      /\ \A d \in closing' : Listens(d)'
      /\ bp'[c].state = "set" => bp'[c].port = p
      /\ \/ bp'[c].state = "set"
         \/ ~Has(c) /\ c \notin Idle.todo /\ \A u \in Tasks \ {t} : ~Uses(task[u], c)
  <2>1. PICK e : e = Idle
    OBVIOUS
  <2>2. /\ Onto(t, e) /\ e.op # "forward" /\ task[t].op # "forward" /\ e.todo = task[t].todo
        /\ e.cell # c /\ \A d \in Cells \ {c} : e.cell # d
    BY <1>1, <1>4, <2>1, IdleCall, Numbers DEF None
  <2>3. Bound(t, c, p) /\ task[t].cell = c
    BY <1>2
  <2>4. UNCHANGED <<cellOf, fwd, closing>> /\ (down' = down \/ down' = down \ {c})
    OBVIOUS
  <2>5. /\ \A d \in Cells : CellInv(d)'
        /\ bp' \in [Cells -> BoundPort] /\ (\A d \in Cells \ {c} : bp'[d] = bp[d])
        /\ sock' \in [Ports -> Cells \cup {Free, Other, Leaked}]
        /\ \A d \in closing' : Listens(d)'
        /\ bp'[c].state = "set" => bp'[c].port = p
        /\ \/ bp'[c].state = "set"
           \/ ~Has(c) /\ c \notin e.todo /\ \A u \in Tasks \ {t} : ~Uses(task[u], c)
    BY <1>5, <2>2, <2>3, <2>4, BoundCells
  <2> QED
    BY <2>1, <2>5
<1>7. \A u \in Tasks \ {t} : Binds(u) =>
        task[u].cell # c /\ (task[u].key \in joined => memo'[task[u].key] = memo[task[u].key])
  <2> SUFFICES ASSUME NEW u \in Tasks \ {t}, Binds(u)
               PROVE  task[u].cell # c /\ (task[u].key \in joined => memo'[task[u].key] = memo[task[u].key])
    OBVIOUS
  <2>1. task[u].cell # c
    BY <1>2 DEF PortsIInv, CallsInv
  <2>2. task[u].key \in Keys /\ (task[u].key \in joined => cellOf[task[u].key] = task[u].cell)
    BY CallFacts DEF Binds, PortCall
  <2>3. task[u].key \in joined => task[u].key # k
    BY <1>4, <2>1, <2>2
  <2> QED
    BY <1>3, <2>1, <2>2, <2>3, Typed
<1>8. CallsInv' /\ OwnersInv'
  <2>1. Idle.op # "forward" /\ ~(Idle.op = "port" /\ Idle.step \in {"fresh", "again"})
    BY IdleCall DEF None
  <2> QED
    BY <1>1, <1>4, <1>6, <1>7, <2>1, IdleAfter, CallMove
<1>9. StateTyped'
  BY <1>3, <1>4, <1>6, StateTypedNow, OntoTask DEF StateTyped
<1>10. RememberedIsServed'
  <2> SUFFICES ASSUME NEW j \in joined, cellOf[j] # 0, bp'[cellOf[j]].state = "set"
               PROVE  memo'[j] = bp'[cellOf[j]].port
    BY DEF RememberedIsServed
  <2>1. j \in Keys /\ cellOf[j] \in Cells
    BY Typed
  <2>2. CASE cellOf[j] = c
    BY <1>3, <1>4, <1>6, <2>1, <2>2
  <2>3. CASE cellOf[j] # c
    <3>1. j # k
      BY <1>4, <2>3
    <3>2. memo'[j] = memo[j]
      BY <1>3, <2>1, <3>1, Typed
    <3>3. bp'[cellOf[j]] = bp[cellOf[j]]
      BY <1>6, <2>1, <2>3
    <3> QED
      BY <3>2, <3>3 DEF PortsIInv, RememberedIsServed
  <2> QED
    BY <2>2, <2>3
<1> QED
  BY <1>6, <1>8, <1>9, <1>10, InvAfter

LEMMA BindingSteps ==
  ASSUME PortsIInv, NEW t \in Tasks,
         rebind_port(t) \/ \E p \in Ports : write_port(t, p)
  PROVE  PortsIInv'
<1>1. CASE rebind_port(t)
  <2>1. /\ Binds(t) /\ task[t].port \in Ports
        /\ task[t].key \in joined => memo[task[t].key] = task[t].port
    BY <1>1, CallFacts DEF rebind_port, At, Binds, PortCall
  <2> QED
    BY <1>1, <2>1, PortBinds DEF rebind_port, proxy
<1>2. ASSUME NEW p \in Ports, write_port(t, p)
      PROVE  PortsIInv'
  <2>1. Binds(t) /\ task[t].key \in Keys
    BY <1>2, CallFacts DEF write_port, At, Binds, PortCall
  <2>2. /\ memo' = memo \/ memo' = [memo EXCEPT ![task[t].key] = p]
        /\ task[t].key \in joined => memo'[task[t].key] = p
    BY <1>2, <2>1, Typed DEF write_port
  <2> QED
    BY <1>2, <2>1, <2>2, PortBinds DEF write_port
<1> QED
  BY <1>1, <1>2

-----------------------------------------------------------------------------
(* rebind *)

LEMMA NotForwarded ==
  ASSUME PortsIInv, NEW t \in Tasks, task[t].op # "forward", NEW d \in Cells, Uses(task[t], d),
         NEW u \in Tasks
  PROVE  ~Forwards(u, d)
BY DEF PortsIInv, OwnersInv, Uses, Forwards

\* The next cell is taken: its accept loops are aborted, and awaited if they
\* have the port still.
LEMMA RebindTakes ==
  ASSUME PortsIInv, NEW t \in Tasks, NEW c \in Cells, rebind_take(t, c)
  PROVE  PortsIInv'
<1>1. /\ task[t].op = "rebind" /\ task[t].step = "next" /\ c \in task[t].todo
      /\ UNCHANGED <<kind, joined, memo, cellOf, fwd, lock, sock, down>>
  BY DEF rebind_take, Rebinds, proxy
<1>2. /\ task[t] \in Call /\ task[t].cell = 0 /\ task \in [Tasks -> Call]
      /\ task[t].todo \subseteq Cells /\ bp[c].state = "set"
  BY <1>1, CallFacts, Typed DEF RebindCall, Call, rebind_take
<1>3. PICK s : s = IF bp[c].loops /\ Listens(c) THEN "await" ELSE "bind"
  OBVIOUS
<1>4. PICK e : e = [task[t] EXCEPT !.todo = @ \ {c}, !.cell = c, !.step = s]
  OBVIOUS
<1>5. /\ e \in Call /\ e.op = "rebind" /\ e.cell = c /\ e.step = s /\ e.todo = task[t].todo \ {c}
  BY <1>1, <1>2, <1>3, <1>4 DEF Call
<1>6. c \in Range(sock) <=> Listens(c)
  BY Typed DEF Range, Listens
<1>7. task' = [task EXCEPT ![t] = e]
  BY <1>2, <1>3, <1>4, <1>6 DEF rebind_take
<1>8. Onto(t, e) /\ task'[t] = e /\ \A u \in Tasks \ {t} : task'[u] = task[u]
  BY <1>5, <1>7, OntoTask DEF Onto
<1>9. /\ bp \in [Cells -> BoundPort] /\ bp' \in [Cells -> BoundPort]
      /\ bp'[c].state = bp[c].state /\ bp'[c].port = bp[c].port
      /\ \A d \in Cells \ {c} : bp'[d] = bp[d]
  BY Typed DEF rebind_take, BoundPort
<1>10. /\ closing \subseteq closing' /\ closing' \subseteq closing \cup {c}
       /\ c \in closing' => c \in closing \/ (bp[c].loops /\ Listens(c))
       /\ bp[c].loops /\ Listens(c) => c \in closing'
  BY <1>6 DEF rebind_take
<1>11. CallsInv' /\ OwnersInv'
  <2>1. PortCall(e)' /\ RebindCall(e)' /\ NoCall(e)'
    <3>1. s \in {"await", "bind"} /\ c # 0
      BY <1>3, Numbers
    <3>2. \A d \in Cells : d = e.cell => bp'[d].state = "set"
      BY <1>1, <1>2, <1>5, <1>9
    <3> QED
      BY <1>5, <3>1, <3>2 DEF PortCall, RebindCall, NoCall, None
  <2>2. ~(e.op = "port" /\ e.step \in {"fresh", "again"}) /\ e.op # "forward"
    BY <1>5
  <2>3. \A d \in Cells : Uses(e, d) => \A u \in Tasks : ~Forwards(u, d)
    <3>1. \A d \in Cells : Uses(e, d) => Uses(task[t], d)
      BY <1>1, <1>5 DEF Uses
    <3> QED
      BY <1>1, <3>1, NotForwarded
  <2>4. bp[c].state = "set" /\ bp'[c].state = "set"
    BY <1>1, <1>2, <1>9
  <2>5. \A u \in Tasks \ {t} : Binds(u) =>
           task[u].cell # c /\ (task[u].key \in joined => memo'[task[u].key] = memo[task[u].key])
    BY <1>1, <2>4, CallFacts DEF Binds, PortCall
  <2> QED
    BY <1>1, <1>8, <1>9, <2>1, <2>2, <2>3, <2>4, <2>5, CallMove
<1>12. /\ \A d : Has(d)' <=> Has(d)
       /\ \A d : Held(d)' <=> Uses(e, d) \/ \E u \in Tasks \ {t} : Uses(task[u], d)
  BY <1>1, <1>5, <1>8, HasKept
<1>13. CellInv(c)'
  <2>1. CellInv(c) /\ bp[c].state = "set"
    BY <1>1, <1>2 DEF PortsIInv
  <2>2. Held(c)' /\ Rebinding(c)'
    BY <1>5, <1>8, <1>12 DEF Uses, Rebinding
  <2>3. c \in closing' /\ Has(c)' => Awaited(c)'
    <3>1. CASE bp[c].loops /\ Listens(c)
      BY <1>3, <1>5, <1>8, <3>1 DEF Awaited
    <3>2. CASE ~(bp[c].loops /\ Listens(c))
      <4>1. c \in closing' /\ Has(c)' => Awaited(c)
        BY <1>10, <1>12, <2>1, <3>2 DEF CellInv
      <4>2. Awaited(c) => Awaited(c)'
        BY <1>1, <1>8 DEF Awaited
      <4> QED
        BY <4>1, <4>2
    <3> QED
      BY <3>1, <3>2
  <2>4. Listens(c)' => c \in closing'
    BY <1>1, <1>10, <2>1 DEF CellInv, Listens
  <2> QED
    BY <1>1, <1>9, <1>12, <2>1, <2>2, <2>3, <2>4 DEF CellInv, Listens
<1>14. ASSUME NEW d \in Cells \ {c}
       PROVE  CellInv(d)'
  <2>1. SameCell(d)
    BY <1>1, <1>9, <1>10 DEF SameCell
  <2>2. Uses(task[t], d) <=> Uses(e, d)
    BY <1>2, <1>5, Numbers DEF Uses
  <2>3. task[t].cell # d
    BY <1>2, Numbers
  <2> QED
    BY <1>1, <1>5, <1>8, <2>1, <2>2, <2>3, CellElse DEF Forwards
<1>15. StateTyped'
  BY <1>1, <1>8, <1>9, <1>10, StateTypedNow, OntoTask DEF StateTyped, Listens
<1>16. RememberedIsServed'
  <2>1. \A k \in Keys : cellOf[k] # 0 => cellOf[k] \in Cells
    BY Typed
  <2>2. \A d \in Cells : bp'[d].state = bp[d].state /\ bp'[d].port = bp[d].port
    BY <1>9
  <2> QED
    BY <1>1, <2>1, <2>2, Typed DEF RememberedIsServed, PortsIInv
<1> QED
  BY <1>11, <1>13, <1>14, <1>15, <1>16, InvAfter

\* The port is bound again, if it is free.
LEMMA RebindBinds ==
  ASSUME PortsIInv, NEW t \in Tasks, rebind_bind(t)
  PROVE  PortsIInv'
<1>1. /\ task[t].op = "rebind" /\ task[t].step = "bind"
      /\ UNCHANGED <<kind, joined, memo, cellOf, fwd, lock, closing>>
  BY DEF rebind_bind, Rebinds, proxy
<1>2. /\ task[t] \in Call /\ task[t].cell \in Cells /\ task \in [Tasks -> Call]
      /\ bp[task[t].cell].state = "set"
  BY <1>1, CallFacts, Typed DEF RebindCall, Call
<1>3. PICK c \in Cells : c = task[t].cell
  BY <1>2
<1>4. CellInv(c) /\ bp[c].state = "set" /\ bp[c] \in BoundPort
  BY <1>2, <1>3, Typed DEF PortsIInv
<1>5. PICK p \in Ports : p = bp[c].port
  BY <1>4 DEF CellInv
<1>6. PICK e : e = [task[t] EXCEPT !.cell = 0, !.step = "next"]
  OBVIOUS
<1>7. /\ e \in Call /\ e.op = "rebind" /\ e.cell = 0 /\ e.step = "next" /\ e.todo = task[t].todo
  BY <1>1, <1>2, <1>6 DEF Call
<1>8. task' = [task EXCEPT ![t] = e]
  BY <1>2, <1>6 DEF rebind_bind
<1>9. Onto(t, e) /\ task'[t] = e /\ \A u \in Tasks \ {t} : task'[u] = task[u]
  BY <1>7, <1>8, OntoTask DEF Onto
<1>10. /\ \A d : Has(d)' <=> Has(d)
       /\ \A d : Held(d)' <=> Uses(e, d) \/ \E u \in Tasks \ {t} : Uses(task[u], d)
  BY <1>1, <1>7, <1>9, HasKept
<1>11. /\ \A d \in Cells : CellInv(d)'
       /\ bp' \in [Cells -> BoundPort] /\ (\A d \in Cells \ {c} : bp'[d] = bp[d])
       /\ sock' \in [Ports -> Cells \cup {Free, Other, Leaked}]
       /\ \A d \in closing' : Listens(d)'
       /\ bp'[c].state = "set" => bp'[c].port = p
       /\ \/ bp'[c].state = "set"
          \/ ~Has(c) /\ c \notin e.todo /\ \A u \in Tasks \ {t} : ~Uses(task[u], c)
       /\ down' \subseteq Cells
  <2>1. CASE sock[p] = Free
    <3>1. Bound(t, c, p) /\ down' = down \ {c}
      BY <1>3, <1>5, <2>1 DEF rebind_bind
    <3>2. ~Listens(c)
      BY <1>4, <1>5, <2>1, Numbers DEF CellInv, Listens
    <3>3. task[t].op # "forward" /\ e.op # "forward" /\ \A d \in Cells : e.cell # d
      BY <1>1, <1>7, Numbers
    <3>4. /\ \A d \in Cells : CellInv(d)'
          /\ bp' \in [Cells -> BoundPort] /\ (\A d \in Cells \ {c} : bp'[d] = bp[d])
          /\ sock' \in [Ports -> Cells \cup {Free, Other, Leaked}]
          /\ \A d \in closing' : Listens(d)'
          /\ bp'[c].state = "set" => bp'[c].port = p
          /\ \/ bp'[c].state = "set"
             \/ ~Has(c) /\ c \notin e.todo /\ \A u \in Tasks \ {t} : ~Uses(task[u], c)
      BY <1>1, <1>3, <1>7, <1>9, <2>1, <3>1, <3>2, <3>3, BoundCells
    <3> QED
      BY <3>1, <3>4, Typed
  <2>2. CASE sock[p] # Free
    <3>1. Let(t, c, bp[c]) /\ sock' = sock
      BY <1>3, <1>5, <2>2 DEF rebind_bind
    <3>2. down' = IF Has(c) /\ sock[p] # c THEN down \cup {c} ELSE down
      BY <1>3, <1>5, <2>2, OwnedHas DEF rebind_bind
    <3>3. /\ bp' \in [Cells -> BoundPort] /\ \A d \in Cells \ {c} : bp'[d] = bp[d]
          /\ \/ /\ bp'[c] = Empty /\ ~Has(c) /\ c \notin task[t].todo
                /\ \A u \in Tasks \ {t} : ~Uses(task[u], c)
             \/ /\ bp'[c] = bp[c]
                /\ Has(c) \/ c \in task[t].todo \/ \E u \in Tasks \ {t} : Uses(task[u], c)
      BY <1>1, <1>3, <1>4, <3>1, LetsGo
    <3>4. Listens(c)' <=> Listens(c)
      BY <3>1 DEF Listens
    <3>5. Awaited(c) => Awaited(c)' /\ Rebinding(c)'
      BY <1>1, <1>9 DEF Awaited, Rebinding
    <3>6. CellInv(c)'
      <4>1. CASE bp'[c] = Empty /\ ~Has(c) /\ c \notin task[t].todo
                 /\ \A u \in Tasks \ {t} : ~Uses(task[u], c)
        <5>1. ~Held(c)' /\ ~Has(c)'
          BY <1>7, <1>10, <4>1, Numbers DEF Uses
        <5> QED
          BY <1>1, <1>4, <3>1, <3>4, <4>1, <5>1, EmptyIsBoundPort DEF CellInv
      <4>2. CASE /\ bp'[c] = bp[c]
                 /\ Has(c) \/ c \in task[t].todo \/ \E u \in Tasks \ {t} : Uses(task[u], c)
        <5>1. Has(c)' \/ Held(c)'
          BY <1>7, <1>10, <4>2 DEF Uses
        <5>2. Has(c)' /\ c \notin down' => sock'[bp'[c].port] = c
          BY <1>5, <1>10, <3>1, <3>2, <4>2
        <5> QED
          BY <1>1, <1>4, <1>10, <3>1, <3>4, <3>5, <4>2, <5>1, <5>2 DEF CellInv
      <4> QED
        BY <3>3, <4>1, <4>2
    <3>7. ASSUME NEW d \in Cells \ {c}
          PROVE  CellInv(d)'
      <4>1. SameCell(d)
        BY <1>1, <3>1, <3>2, <3>3 DEF SameCell
      <4>2. Uses(task[t], d) <=> Uses(e, d)
        BY <1>3, <1>7, Numbers DEF Uses
      <4> QED
        BY <1>1, <1>3, <1>7, <1>9, <4>1, <4>2, CellElse DEF Forwards
    <3>8. \A d \in closing' : Listens(d)'
      BY <1>1, <3>1, Typed DEF Listens
    <3>9. bp'[c].state = "set" => bp'[c].port = p
      BY <1>5, <3>3, EmptyIsBoundPort
    <3>10. \/ bp'[c].state = "set"
           \/ ~Has(c) /\ c \notin e.todo /\ \A u \in Tasks \ {t} : ~Uses(task[u], c)
      BY <1>4, <1>7, <3>3
    <3>11. down' \subseteq Cells /\ sock' \in [Ports -> Cells \cup {Free, Other, Leaked}]
      BY <3>1, <3>2, Typed
    <3> QED
      BY <3>3, <3>6, <3>7, <3>8, <3>9, <3>10, <3>11
  <2> QED
    BY <2>1, <2>2
<1>12. CallsInv' /\ OwnersInv'
  <2>1. PortCall(e)' /\ RebindCall(e)' /\ NoCall(e)'
    BY <1>7, Numbers DEF PortCall, RebindCall, NoCall, None
  <2>2. ~(e.op = "port" /\ e.step \in {"fresh", "again"}) /\ e.op # "forward"
    BY <1>7
  <2>3. \A d \in Cells : Uses(e, d) => \A u \in Tasks : ~Forwards(u, d)
    <3>1. \A d \in Cells : Uses(e, d) => Uses(task[t], d)
      BY <1>7, Numbers DEF Uses
    <3> QED
      BY <1>1, <3>1, NotForwarded
  <2>4. \A u \in Tasks \ {t} : Binds(u) =>
           task[u].cell # c /\ (task[u].key \in joined => memo'[task[u].key] = memo[task[u].key])
    BY <1>1, <1>4, CallFacts DEF Binds, PortCall
  <2> QED
    BY <1>1, <1>9, <1>11, <2>1, <2>2, <2>3, <2>4, CallMove
<1>13. StateTyped'
  BY <1>1, <1>9, <1>11, StateTypedNow, OntoTask DEF StateTyped
<1>14. RememberedIsServed'
  <2>1. \A k \in Keys : cellOf[k] # 0 => cellOf[k] \in Cells
    BY Typed
  <2>2. \A d \in Cells : bp'[d].state = "set" => bp[d].state = "set" /\ bp'[d].port = bp[d].port
    BY <1>4, <1>5, <1>11
  <2> QED
    BY <1>1, <2>1, <2>2, Typed DEF RememberedIsServed, PortsIInv
<1> QED
  BY <1>11, <1>12, <1>13, <1>14, InvAfter

LEMMA RebindEnds ==
  ASSUME PortsIInv, NEW t \in Tasks, rebound(t)
  PROVE  PortsIInv'
<1>1. /\ task[t].op = "rebind" /\ task[t].step = "next" /\ task[t].todo = {} /\ Return(t)
      /\ UNCHANGED <<kind, joined, memo, cellOf, fwd, lock, bp, sock, closing, down>>
  BY DEF rebound, Rebinds, proxy
<1>2. task[t].cell = 0
  BY <1>1, CallFacts DEF RebindCall
<1>3. Onto(t, Idle)
  BY <1>1, IdleCall DEF Onto, Return
<1>4. CallsInv' /\ OwnersInv'
  <2>1. Idle.op # "forward" /\ ~(Idle.op = "port" /\ Idle.step \in {"fresh", "again"})
    BY IdleCall DEF None
  <2>2. \A u \in Tasks \ {t} : Binds(u) =>
           task[u].cell # 0 /\ (task[u].key \in joined => memo'[task[u].key] = memo[task[u].key])
    BY <1>1, CallFacts, Numbers DEF Binds, PortCall
  <2> QED
    BY <1>1, <1>3, <2>1, <2>2, IdleAfter, CallMove, Numbers
<1>5. ASSUME NEW d \in Cells
      PROVE  CellInv(d)'
  <2>1. SameCell(d) /\ ~Uses(task[t], d) /\ ~Uses(Idle, d) /\ task[t].cell # d
    BY <1>1, <1>2, IdleAfter, Numbers DEF SameCell, Uses
  <2> QED
    BY <1>1, <1>3, <2>1, CellElse, IdleCall DEF Forwards, None
<1>6. StateTyped'
  BY <1>1, <1>3, StateTypedNow, OntoTask DEF StateTyped, Listens
<1>7. RememberedIsServed'
  BY <1>1 DEF RememberedIsServed, PortsIInv
<1> QED
  BY <1>4, <1>5, <1>6, <1>7, InvAfter

LEMMA NoForwards ==
  ASSUME PortsIInv, kind # "forwarder" \/ lock = None
  PROVE  \A u \in Tasks : task[u].op # "forward" /\ \A d : ~Forwards(u, d)
BY CallFacts, NoneAssumption DEF Forwards, ForwardCall, None

\* A call that has taken no cell goes on with cells somebody has, or it had.
LEMMA GoesOn ==
  ASSUME PortsIInv, NEW t \in Tasks, NEW e, Onto(t, e), task[t].op # "forward", task[t].cell = 0,
         e.op \notin {"forward", "port"}, e.cell = 0, RebindCall(e), NoCall(e),
         \A d \in e.todo : d \in Cells /\ (Has(d) \/ d \in task[t].todo)
                             /\ \A u \in Tasks : ~Forwards(u, d),
         UNCHANGED <<proxy, bp, sock, closing, down>>
  PROVE  PortsIInv'
<1>1. UNCHANGED <<kind, joined, memo, cellOf, fwd, lock, bp, sock, closing, down>>
  BY DEF proxy
<1>2. task'[t] = e /\ (\A u \in Tasks \ {t} : task'[u] = task[u]) /\ task' \in [Tasks -> Call]
  BY OntoTask
<1>3. CallsInv' /\ OwnersInv'
  <2>1. PortCall(e)' /\ RebindCall(e)' /\ NoCall(e)'
    BY <1>1 DEF PortCall, RebindCall, NoCall
  <2>2. \A u \in Tasks \ {t} : Binds(u) =>
           task[u].cell # 0 /\ (task[u].key \in joined => memo'[task[u].key] = memo[task[u].key])
    BY <1>1, CallFacts, Numbers DEF Binds, PortCall
  <2>3. \A d \in Cells : Uses(e, d) => \A u \in Tasks : ~Forwards(u, d)
    BY Numbers DEF Uses
  <2>4. PICK c : c = 0 /\ c \notin Cells
    BY Numbers
  <2>5. (\A d \in Cells \ {c} : bp'[d] = bp[d]) /\ UNCHANGED <<kind, joined, cellOf, fwd, lock>>
    BY <1>1
  <2> QED
    BY <2>1, <2>2, <2>3, <2>4, <2>5, CallMove
<1>4. /\ \A d : Has(d)' <=> Has(d)
      /\ \A d : Held(d)' <=> Uses(e, d) \/ \E u \in Tasks \ {t} : Uses(task[u], d)
      /\ \A d : Held(d) <=> Uses(task[t], d) \/ \E u \in Tasks \ {t} : Uses(task[u], d)
  BY <1>1, HasKept
<1>5. ASSUME NEW d \in Cells
      PROVE  CellInv(d)'
  <2>1. CellInv(d)
    BY DEF PortsIInv
  <2>2. Uses(e, d) => Has(d) \/ Uses(task[t], d)
    BY Numbers DEF Uses
  <2>3. Held(d)' => Has(d) \/ Held(d)
    BY <1>4, <2>2
  <2>4. (Rebinding(d) => Rebinding(d)') /\ (Awaited(d) => Awaited(d)')
    BY <1>2, Numbers DEF Rebinding, Awaited
  <2>5. Listens(d)' <=> Listens(d)
    BY <1>1 DEF Listens
  <2> QED
    BY <1>1, <1>4, <2>1, <2>3, <2>4, <2>5 DEF CellInv
<1>6. StateTyped'
  BY <1>1, <1>2, StateTypedNow DEF StateTyped, Listens
<1>7. RememberedIsServed'
  BY <1>1 DEF RememberedIsServed, PortsIInv
<1> QED
  BY <1>3, <1>5, <1>6, <1>7, InvAfter

\* A call that has begun nothing ends.
LEMMA Gone ==
  ASSUME PortsIInv, NEW t \in Tasks, task[t].op # "forward", task[t].cell = 0, Return(t),
         UNCHANGED <<proxy, bp, sock, closing, down>>
  PROVE  PortsIInv'
<1>1. Onto(t, Idle) /\ Idle.op \notin {"forward", "port"}
  BY IdleCall DEF Onto, Return, None
<1>2. RebindCall(Idle) /\ NoCall(Idle)
  BY IdleCall DEF RebindCall, NoCall, None
<1> QED
  BY <1>1, <1>2, IdleCall, GoesOn

\* A call that waits for the forwarders' mutex.
LEMMA Waiting ==
  ASSUME PortsIInv, NEW t \in Tasks, task[t] = Idle, kind = "forwarder", NEW k \in Keys \cup {None},
         Waits(t, k), UNCHANGED <<proxy, bp, sock, closing, down>>
  PROVE  PortsIInv'
<1>1. PICK e : e = [Idle EXCEPT !.op = "lock", !.key = k]
  OBVIOUS
<1>2. e \in Call /\ e.op = "lock" /\ e.cell = 0 /\ e.todo = {} /\ e.step = None
  BY <1>1, IdleCall DEF Idle, Call
<1>3. Onto(t, e) /\ task[t].op # "forward" /\ task[t].cell = 0
  BY <1>1, <1>2, IdleCall DEF Waits, Onto, None
<1>4. RebindCall(e) /\ NoCall(e) /\ e.op \notin {"forward", "port"}
  BY <1>2 DEF RebindCall, NoCall, None
<1> QED
  BY <1>2, <1>3, <1>4, GoesOn

\* The cells of a rebind that begins.
LEMMA Beginning ==
  ASSUME PortsIInv, NEW t \in Tasks, task[t].op \in {None, "lock"}, kind # "forwarder" \/ lock = None,
         NEW R, \A d \in R : d \in Cells /\ Has(d), Begins(t, R),
         UNCHANGED <<proxy, bp, sock, closing, down>>
  PROVE  PortsIInv'
<1>1. PICK e : e = [Idle EXCEPT !.op = "rebind", !.step = "next", !.todo = R]
  OBVIOUS
<1>2. e \in Call /\ e.op = "rebind" /\ e.cell = 0 /\ e.step = "next" /\ e.todo = R
  BY <1>1, IdleCall DEF Idle, Call
<1>3. Onto(t, e)
  BY <1>1, <1>2 DEF Begins, Onto
<1>4. task[t].op # "forward" /\ task[t].cell = 0
  BY CallFacts, IdleCall DEF NoCall, None
<1>5. RebindCall(e) /\ NoCall(e) /\ e.op \notin {"forward", "port"}
  BY <1>2, Numbers DEF RebindCall, NoCall, None
<1>6. \A u \in Tasks : \A d : ~Forwards(u, d)
  BY NoForwards
<1> QED
  BY <1>2, <1>3, <1>4, <1>5, <1>6, GoesOn

LEMMA RebindBegins ==
  ASSUME PortsIInv, NEW t \in Tasks, rebind(t) \/ rebind_locked(t)
  PROVE  PortsIInv'
<1>1. UNCHANGED <<proxy, bp, sock, closing, down>>
  BY DEF rebind, rebind_locked
<1>2. CASE rebind(t) /\ kind = "per-app"
  <2>1. PICK R : R = Range(cellOf) \ {0}
    OBVIOUS
  <2>2. \A d \in R : d \in Cells /\ Has(d)
    BY <2>1, Typed DEF Range, Has
  <2>3. Begins(t, R) /\ task[t].op = None /\ kind # "forwarder"
    BY <1>2, <2>1, IdleCall DEF rebind
  <2> QED
    BY <1>1, <2>2, <2>3, Beginning
<1>3. CASE rebind(t) /\ kind # "per-app"
  <2>1. kind = "forwarder" /\ task[t] = Idle /\ Waits(t, None)
    BY <1>3, Typed, KindsAssumption DEF rebind
  <2> QED
    BY <1>1, <2>1, Waiting
<1>4. CASE rebind_locked(t)
  <2>1. PICK R : R = Forwarded
    OBVIOUS
  <2>2. \A d \in R : d \in Cells /\ Has(d)
    BY <2>1, Typed DEF Forwarded, Range, Has
  <2>3. Begins(t, R) /\ task[t].op = "lock" /\ lock = None
    BY <1>4, <2>1 DEF rebind_locked
  <2> QED
    BY <1>1, <2>2, <2>3, Beginning
<1> QED
  BY <1>2, <1>3, <1>4

\* A cell that is not bound when its turn comes.
LEMMA RebindSkips ==
  ASSUME PortsIInv, NEW t \in Tasks, NEW c \in Cells, rebind_skip(t, c)
  PROVE  PortsIInv'
<1>1. /\ task[t].op = "rebind" /\ task[t].step = "next" /\ c \in task[t].todo
      /\ UNCHANGED <<proxy, bp, sock, closing, down>>
  BY DEF rebind_skip, Rebinds
<1>2. task[t] \in Call /\ task[t].cell = 0
  BY <1>1, CallFacts DEF RebindCall
<1>3. PICK e : e = [task[t] EXCEPT !.todo = @ \ {c}]
  OBVIOUS
<1>4. /\ e \in Call /\ e.op = "rebind" /\ e.cell = 0 /\ e.step = "next"
      /\ e.todo = task[t].todo \ {c}
  BY <1>1, <1>2, <1>3 DEF Call
<1>5. Onto(t, e)
  BY <1>3, <1>4, Typed DEF rebind_skip, Onto
<1>6. RebindCall(e) /\ NoCall(e)
  BY <1>4, Numbers DEF RebindCall, NoCall, None
<1>7. \A d \in e.todo : d \in Cells /\ d \in task[t].todo /\ \A u \in Tasks : ~Forwards(u, d)
  BY <1>1, <1>2, <1>4, NotForwarded DEF Call, Uses
<1> QED
  BY <1>1, <1>2, <1>4, <1>5, <1>6, <1>7, GoesOn

-----------------------------------------------------------------------------
(* app_port begins *)

LEMMA AppPort ==
  ASSUME PortsIInv, NEW t \in Tasks, NEW k \in Keys, app_port(t, k)
  PROVE  PortsIInv'
<1>1. /\ kind # "forwarder" /\ task[t] = Idle
      /\ UNCHANGED <<kind, joined, memo, fwd, lock, bp, sock, closing, down>>
  BY DEF app_port
<1>2. PICK c : c = IF cellOf[k] = 0 THEN NewCell ELSE cellOf[k]
  OBVIOUS
<1>3. c \in Cells
  BY <1>2, Typed, NewCellFree DEF app_port
<1>4. /\ cellOf \in [Keys -> Cells \cup {0}] /\ cellOf' \in [Keys -> Cells \cup {0}]
      /\ cellOf'[k] = c /\ \A j \in Keys \ {k} : cellOf'[j] = cellOf[j]
  BY <1>2, <1>3, Typed DEF app_port
<1>5. /\ cellOf[k] = c \/ (cellOf[k] = 0 /\ ~Has(c) /\ ~Held(c) /\ bp[c].state = "empty")
      /\ Listens(c) => bp[c].state = "set" /\ Has(c)
  <2>1. CASE cellOf[k] = 0
    BY <1>2, <2>1, NewCellFree DEF app_port
  <2>2. CASE cellOf[k] # 0
    BY <1>2, <1>3, <2>2 DEF Has, PortsIInv, CellInv
  <2> QED
    BY <2>1, <2>2
<1>6. PICK e : e = [Idle EXCEPT !.op = "port", !.key = k, !.cell = c, !.step = "get"]
  OBVIOUS
<1>7. e \in Call /\ e.op = "port" /\ e.key = k /\ e.cell = c /\ e.step = "get" /\ e.todo = {}
  BY <1>3, <1>6, IdleCall DEF Idle, Call
<1>8. Onto(t, e) /\ task'[t] = e /\ (\A u \in Tasks \ {t} : task'[u] = task[u])
      /\ task' \in [Tasks -> Call]
  <2>1. Onto(t, e)
    BY <1>2, <1>6, <1>7 DEF app_port, Onto
  <2> QED
    BY <2>1, OntoTask
<1>9. \A u \in Tasks : /\ task[u].op # "forward" /\ task'[u].op # "forward"
                       /\ \A d : ~Forwards(u, d) /\ ~Forwards(u, d)'
  <2>1. \A u \in Tasks : task[u].op # "forward" /\ \A d : ~Forwards(u, d)
    BY <1>1, NoForwards
  <2> QED
    BY <1>7, <1>8, <2>1 DEF Forwards
<1>10. \A j \in Keys : fwd[j] = {}
  BY <1>1 DEF PortsIInv, OwnersInv
<1>11. \A j \in Keys : cellOf[j] = c => j = k
  <2> SUFFICES ASSUME NEW j \in Keys, cellOf[j] = c PROVE j = k
    OBVIOUS
  <2>1. Has(c)
    BY DEF Has
  <2> QED
    BY <1>3, <1>5, <2>1, Numbers DEF PortsIInv, OwnersInv
<1>12. OwnersInv'
  <2>1. \A i, j \in Keys : cellOf'[i] = cellOf'[j] /\ cellOf'[i] # 0 => i = j
    BY <1>4, <1>11 DEF PortsIInv, OwnersInv
  <2> QED
    BY <1>1, <1>9, <1>10, <2>1 DEF OwnersInv
<1>13. CallsInv'
  <2>1. ASSUME NEW u \in Tasks
        PROVE  PortCall(task[u])' /\ RebindCall(task[u])' /\ ForwardCall(u)' /\ NoCall(task[u])'
    <3>1. CASE u = t
      <4>1. PortCall(task[t])'
        BY <1>1, <1>3, <1>4, <1>7, <1>8, <1>11 DEF PortCall
      <4> QED
        BY <1>7, <1>8, <3>1, <4>1 DEF RebindCall, ForwardCall, NoCall, None
    <3>2. CASE u # t
      <4>1. task'[u] = task[u] /\ PortCall(task[u]) /\ RebindCall(task[u]) /\ NoCall(task[u])
        BY <1>8, <3>2, CallFacts
      <4>2. ASSUME task[u].op = "port"
            PROVE  /\ task[u].key \in joined => cellOf'[task[u].key] = task[u].cell
                   /\ \A j \in Keys : cellOf'[j] = task[u].cell => j = task[u].key
        <5>1. task[u].cell = c => Held(c)
          BY DEF Held
        <5> QED
          BY <1>3, <1>4, <1>5, <4>1, <4>2, <5>1, Numbers DEF PortCall
      <4>3. PortCall(task[u])'
        BY <1>1, <4>1, <4>2 DEF PortCall
      <4> QED
        BY <1>1, <1>9, <4>1, <4>3 DEF RebindCall, ForwardCall, NoCall
    <3> QED
      BY <3>1, <3>2
  <2>2. \A u, v \in Tasks : Binds(u)' /\ Binds(v)' /\ task'[u].cell = task'[v].cell => u = v
    <3>1. \A u \in Tasks : Binds(u)' => u # t /\ Binds(u)
      BY <1>7, <1>8 DEF Binds
    <3> QED
      BY <1>8, <3>1 DEF PortsIInv, CallsInv
  <2> QED
    BY <2>1, <2>2 DEF CallsInv
<1>14. CellInv(c)'
  <2>1. CellInv(c)
    BY <1>3 DEF PortsIInv
  <2>2. Has(c)' /\ (Listens(c)' <=> Listens(c))
    BY <1>1, <1>4 DEF Has, Listens
  <2>3. (Rebinding(c) => Rebinding(c)') /\ (Awaited(c) => Awaited(c)')
    BY <1>1, <1>8, IdleCall DEF Rebinding, Awaited, None
  <2>4. CASE Has(c)
    BY <1>1, <1>5, <2>1, <2>2, <2>3, <2>4 DEF CellInv
  <2>5. CASE ~Has(c)
    <3>1. bp[c].state = "empty" /\ ~Listens(c)
      BY <1>5, <2>5 DEF Has
    <3>2. c \notin closing
      BY <3>1, Typed
    <3> QED
      BY <1>1, <2>2, <3>1, <3>2 DEF CellInv, Listens
  <2> QED
    BY <2>4, <2>5
<1>15. ASSUME NEW d \in Cells \ {c}
       PROVE  CellInv(d)'
  <2>1. SameCell(d)
    BY <1>1, <1>4, <1>5, Numbers DEF SameCell
  <2>2. ~Uses(task[t], d) /\ ~Uses(e, d)
    BY <1>1, <1>7, IdleAfter DEF Uses
  <2> QED
    BY <1>1, <1>7, <1>8, <1>9, <2>1, <2>2, CellElse, IdleCall DEF None
<1>16. StateTyped'
  BY <1>1, <1>4, <1>8, StateTypedNow DEF StateTyped, Listens
<1>17. RememberedIsServed'
  <2>1. \A j \in joined : j \in Keys
    BY Typed
  <2> QED
    BY <1>1, <1>4, <1>5, <2>1 DEF RememberedIsServed, PortsIInv
<1> QED
  BY <1>12, <1>13, <1>14, <1>15, <1>16, <1>17, InvAfter

-----------------------------------------------------------------------------
(* forward_loopback_origins *)

LEMMA ForwardFacts ==
  ASSUME PortsIInv, NEW t \in Tasks, task[t].op = "forward"
  PROVE  /\ kind = "forwarder" /\ lock = t /\ task[t].key \in Keys /\ task[t].cell = 0
         /\ task[t].step = None /\ fwd[task[t].key] = {} /\ task[t] \in Call
         /\ task[t].todo \subseteq Cells
         /\ \A u \in Tasks \ {t} : task[u].op # "forward" /\ \A d : ~Forwards(u, d)
         /\ \A u \in Tasks : task[u].op # "port" /\ ~Binds(u)
         /\ \A j \in Keys : cellOf[j] = 0
         /\ \A d \in task[t].todo : /\ bp[d].state = "set"
                                    /\ \A j \in Keys : d \notin fwd[j]
                                    /\ \A u \in Tasks \ {t} : ~Uses(task[u], d)
<1>1. /\ kind = "forwarder" /\ lock = t /\ task[t].key \in Keys /\ task[t].cell = 0
      /\ task[t].step = None /\ fwd[task[t].key] = {} /\ task[t] \in Call
  BY CallFacts DEF ForwardCall
<1>2. \A u \in Tasks \ {t} : task[u].op # "forward" /\ \A d : ~Forwards(u, d)
  BY <1>1, CallFacts DEF ForwardCall, Forwards
<1>3. \A u \in Tasks : task[u].op # "port" /\ ~Binds(u)
  BY <1>1, CallFacts DEF PortCall, Binds
<1>4. \A j \in Keys : cellOf[j] = 0
  BY <1>1 DEF PortsIInv, OwnersInv
<1>5. task[t].todo \subseteq Cells
  BY <1>1 DEF Call
<1>6. \A d \in task[t].todo : /\ bp[d].state = "set"
                              /\ \A j \in Keys : d \notin fwd[j]
                              /\ \A u \in Tasks \ {t} : ~Uses(task[u], d)
  BY <1>5 DEF PortsIInv, OwnersInv, Forwards, Uses
<1> QED
  BY <1>1, <1>2, <1>3, <1>4, <1>5, <1>6

LEMMA ForwardWaits ==
  ASSUME PortsIInv, NEW t \in Tasks, NEW k \in Keys, forward_loopback_origins(t, k)
  PROVE  PortsIInv'
BY Waiting DEF forward_loopback_origins

LEMMA ForwardBegins ==
  ASSUME PortsIInv, NEW t \in Tasks, forward_locked(t), NEW k \in Keys, k = task[t].key,
         fwd[k] = {}, k \in joined
  PROVE  PortsIInv'
<1>1. /\ kind = "forwarder" /\ task[t].op = "lock" /\ task[t].cell = 0 /\ task[t].todo = {}
      /\ lock = None /\ lock' = t
      /\ UNCHANGED <<kind, joined, memo, cellOf, fwd, bp, sock, closing, down>>
  BY CallFacts DEF forward_locked, NoCall
<1>2. PICK e : e = [Idle EXCEPT !.op = "forward", !.key = k]
  OBVIOUS
<1>3. /\ e \in Call /\ e.op = "forward" /\ e.key = k /\ e.cell = 0 /\ e.step = None /\ e.todo = {}
  BY <1>2, IdleCall DEF Idle, Call
<1>4. Onto(t, e) /\ task'[t] = e /\ (\A u \in Tasks \ {t} : task'[u] = task[u])
      /\ task' \in [Tasks -> Call]
  <2>1. Onto(t, e)
    BY <1>2, <1>3 DEF forward_locked, Onto
  <2> QED
    BY <2>1, OntoTask
<1>5. \A u \in Tasks : task[u].op # "forward" /\ \A d : ~Forwards(u, d) /\ ~Forwards(u, d)'
  <2>1. \A u \in Tasks : task[u].op # "forward" /\ \A d : ~Forwards(u, d)
    BY <1>1, NoForwards
  <2> QED
    BY <1>3, <1>4, <2>1 DEF Forwards
<1>6. CallsInv'
  <2>1. ASSUME NEW u \in Tasks
        PROVE  PortCall(task[u])' /\ RebindCall(task[u])' /\ ForwardCall(u)' /\ NoCall(task[u])'
    <3>1. CASE u = t
      BY <1>1, <1>3, <1>4, <3>1 DEF PortCall, RebindCall, ForwardCall, NoCall, None
    <3>2. CASE u # t
      <4>1. task'[u] = task[u] /\ PortCall(task[u]) /\ RebindCall(task[u]) /\ NoCall(task[u])
        BY <1>4, <3>2, CallFacts
      <4> QED
        BY <1>1, <1>5, <4>1 DEF PortCall, RebindCall, ForwardCall, NoCall
    <3> QED
      BY <3>1, <3>2
  <2>2. \A u, v \in Tasks : Binds(u)' /\ Binds(v)' /\ task'[u].cell = task'[v].cell => u = v
    <3>1. \A u \in Tasks : Binds(u)' => u # t /\ Binds(u)
      BY <1>3, <1>4 DEF Binds
    <3> QED
      BY <1>4, <3>1 DEF PortsIInv, CallsInv
  <2> QED
    BY <2>1, <2>2 DEF CallsInv
<1>7. OwnersInv'
  BY <1>1, <1>5 DEF PortsIInv, OwnersInv
<1>8. ASSUME NEW d \in Cells
      PROVE  CellInv(d)'
  <2>1. SameCell(d)
    BY <1>1 DEF SameCell
  <2>2. ~Uses(task[t], d) /\ ~Uses(e, d) /\ ~Forwards(t, d) /\ d \notin e.todo
    BY <1>1, <1>3, <1>5, IdleAfter, Numbers DEF Uses
  <2> QED
    BY <1>1, <1>4, <2>1, <2>2, CellElse, IdleCall DEF None
<1>9. StateTyped'
  BY <1>1, <1>4, StateTypedNow DEF StateTyped, Listens
<1>10. RememberedIsServed'
  BY <1>1 DEF RememberedIsServed, PortsIInv
<1> QED
  BY <1>6, <1>7, <1>8, <1>9, <1>10, InvAfter

LEMMA ForwardLocked ==
  ASSUME PortsIInv, NEW t \in Tasks, forward_locked(t)
  PROVE  PortsIInv'
<1>1. task[t].op = "lock" /\ task[t].key \in Keys /\ task[t].cell = 0
  BY CallFacts DEF forward_locked, NoCall, Call
<1>2. CASE fwd[task[t].key] = {} /\ task[t].key \in joined
  BY <1>1, <1>2, ForwardBegins
<1>3. CASE ~(fwd[task[t].key] = {} /\ task[t].key \in joined)
  <2>1. Return(t) /\ UNCHANGED <<proxy, bp, sock, closing, down>>
    BY <1>3 DEF forward_locked, proxy
  <2> QED
    BY <1>1, <2>1, Gone
<1> QED
  BY <1>2, <1>3

\* The next port is bound, in a cell of its own.
LEMMA ForwardPort ==
  ASSUME PortsIInv, NEW t \in Tasks, forward_port(t)
  PROVE  PortsIInv'
<1>1. /\ task[t].op = "forward" /\ Missing(t) # {} /\ Unused # {}
      /\ UNCHANGED <<kind, joined, memo, cellOf, fwd, lock, closing, down>>
  BY DEF forward_port, proxy
<1>2. PICK p : p = Min(Missing(t))
  OBVIOUS
<1>3. p \in Ports /\ sock[p] = Free
  <2>1. Missing(t) \subseteq Ports
    BY <1>1, ForwardFacts, WantsAssumption DEF Missing
  <2> QED
    BY <1>1, <1>2, <2>1, MinInSet, Numbers DEF forward_port, Taken
<1>4. PICK c \in Cells : c = NewCell
  BY <1>1, NewCellFree
<1>5. /\ ~Has(c) /\ ~Held(c) /\ ~Listens(c) /\ c \notin closing /\ bp[c].state = "empty"
  BY <1>1, <1>4, NewCellFree
<1>6. PICK r : r = [state |-> "set", port |-> p, loops |-> TRUE]
  OBVIOUS
<1>7. r \in BoundPort /\ r.state = "set" /\ r.port = p /\ r.loops
  BY <1>3, <1>6 DEF BoundPort
<1>8. /\ bp' \in [Cells -> BoundPort] /\ bp'[c] = r /\ \A d \in Cells \ {c} : bp'[d] = bp[d]
  BY <1>2, <1>4, <1>6, <1>7, Typed DEF forward_port
<1>9. /\ sock \in [Ports -> Cells \cup {Free, Other, Leaked}]
      /\ sock' \in [Ports -> Cells \cup {Free, Other, Leaked}]
      /\ sock'[p] = c /\ \A q \in Ports \ {p} : sock'[q] = sock[q]
  BY <1>2, <1>3, <1>4, Typed DEF forward_port
<1>10. PICK e : e = [task[t] EXCEPT !.todo = @ \cup {c}]
  OBVIOUS
<1>11. /\ e \in Call /\ e.op = "forward" /\ e.key = task[t].key /\ e.cell = 0 /\ e.step = None
       /\ e.todo = task[t].todo \cup {c}
  BY <1>1, <1>10, ForwardFacts DEF Call
<1>12. Onto(t, e) /\ task'[t] = e /\ (\A u \in Tasks \ {t} : task'[u] = task[u])
       /\ task' \in [Tasks -> Call]
  <2>1. task' = [task EXCEPT ![t] = e]
    BY <1>4, <1>10, Typed DEF forward_port
  <2>2. Onto(t, e)
    BY <1>11, <2>1 DEF Onto
  <2> QED
    BY <2>2, OntoTask
<1>13. \A d : Forwards(t, d)' <=> Forwards(t, d) \/ d = c
  BY <1>1, <1>11, <1>12 DEF Forwards
<1>14. \A u \in Tasks \ {t} : ~Uses(task[u], c) /\ \A d : ~Forwards(u, d)'
  BY <1>1, <1>5, <1>12, ForwardFacts DEF Held, Uses, Forwards
<1>15. \A j \in Keys : c \notin fwd[j]
  BY <1>5 DEF Has
<1>16. OwnersInv'
  <2>1. ASSUME NEW u \in Tasks, NEW d \in Cells, Forwards(u, d)'
        PROVE  /\ bp'[d].state = "set"
               /\ \A j \in Keys : d \notin fwd'[j]
               /\ \A v \in Tasks \ {u} : task'[v].cell # d /\ d \notin task'[v].todo
    <3>1. u = t /\ (d \in task[t].todo \/ d = c)
      BY <1>11, <1>12, <1>14, <2>1 DEF Forwards
    <3>2. \A v \in Tasks \ {t} : ~Uses(task[v], d)
      BY <1>1, <1>14, <3>1, ForwardFacts
    <3>3. bp'[d].state = "set" /\ \A j \in Keys : d \notin fwd'[j]
      BY <1>1, <1>7, <1>8, <1>15, <3>1, ForwardFacts
    <3> QED
      BY <1>12, <3>1, <3>2, <3>3 DEF Uses
  <2>2. \A j \in Keys : \A d \in fwd'[j] : bp'[d].state = "set"
    BY <1>1, <1>8, <1>15, Typed DEF PortsIInv, OwnersInv
  <2> QED
    BY <1>1, <2>1, <2>2 DEF PortsIInv, OwnersInv
<1>17. CallsInv'
  <2>1. ASSUME NEW u \in Tasks
        PROVE  PortCall(task[u])' /\ RebindCall(task[u])' /\ ForwardCall(u)' /\ NoCall(task[u])'
    <3>1. CASE u = t
      <4>1. ForwardCall(t)
        BY CallFacts
      <4> QED
        BY <1>1, <1>11, <1>12, <3>1, <4>1 DEF PortCall, RebindCall, ForwardCall, NoCall, None
    <3>2. CASE u # t
      <4>1. /\ task'[u] = task[u] /\ task[u].op # "port" /\ task[u].op # "forward"
            /\ RebindCall(task[u]) /\ NoCall(task[u])
        BY <1>1, <1>12, <3>2, CallFacts, ForwardFacts
      <4>2. RebindCall(task[u])'
        BY <1>8, <1>14, <3>2, <4>1 DEF RebindCall, Uses
      <4> QED
        BY <1>1, <4>1, <4>2 DEF PortCall, ForwardCall, NoCall
    <3> QED
      BY <3>1, <3>2
  <2>2. \A u \in Tasks : ~Binds(u)'
    BY <1>1, <1>11, <1>12, ForwardFacts DEF Binds
  <2> QED
    BY <2>1, <2>2 DEF CallsInv
<1>18. CellInv(c)'
  <2>1. Has(c)' /\ Held(c)'
    BY <1>11, <1>12, <1>13 DEF Has, Held
  <2>2. \A q \in Ports : sock'[q] = c <=> q = p
    BY <1>5, <1>9 DEF Listens
  <2> QED
    BY <1>1, <1>3, <1>5, <1>7, <1>8, <2>1, <2>2 DEF CellInv, Listens
<1>19. ASSUME NEW d \in Cells \ {c}
       PROVE  CellInv(d)'
  <2>1. SameCell(d)
    BY <1>1, <1>3, <1>8, <1>9, Numbers DEF SameCell
  <2>2. Uses(task[t], d) <=> Uses(e, d)
    BY <1>1, <1>11, ForwardFacts DEF Uses
  <2> QED
    BY <1>1, <1>11, <1>12, <1>13, <2>1, <2>2, CellElse DEF Forwards
<1>20. StateTyped'
  <2>1. \A d \in closing : Listens(d)'
    BY <1>3, <1>9, Typed, Numbers DEF Listens
  <2> QED
    BY <1>1, <1>8, <1>9, <1>12, <2>1, StateTypedNow DEF StateTyped
<1>21. RememberedIsServed'
  BY <1>1, ForwardFacts, Typed DEF RememberedIsServed
<1> QED
  BY <1>16, <1>17, <1>18, <1>19, <1>20, <1>21, InvAfter

\* What a forwarder's call leaves to the others when it ends.
LEMMA ForwardGone ==
  ASSUME PortsIInv, NEW t \in Tasks, task[t].op = "forward", Return(t), lock' = None,
         UNCHANGED <<kind, joined, cellOf>>,
         \A d \in Cells : d \notin task[t].todo => bp'[d] = bp[d]
  PROVE  /\ CallsInv' /\ Onto(t, Idle) /\ task'[t] = Idle
         /\ (\A u \in Tasks \ {t} : task'[u] = task[u]) /\ task' \in [Tasks -> Call]
         /\ \A u \in Tasks : \A d : ~Forwards(u, d)'
<1>1. Onto(t, Idle)
  BY IdleCall DEF Onto, Return
<1>2. task'[t] = Idle /\ (\A u \in Tasks \ {t} : task'[u] = task[u]) /\ task' \in [Tasks -> Call]
  BY <1>1, OntoTask
<1>3. \A u \in Tasks : task'[u].op \notin {"port", "forward"} /\ ~Binds(u)'
  BY <1>2, ForwardFacts, IdleCall DEF Binds, None
<1>4. ASSUME NEW u \in Tasks
      PROVE  PortCall(task[u])' /\ RebindCall(task[u])' /\ ForwardCall(u)' /\ NoCall(task[u])'
  <2>1. PortCall(task[u])' /\ ForwardCall(u)'
    BY <1>3 DEF PortCall, ForwardCall
  <2>2. NoCall(task[u])'
    BY <1>2, CallFacts, IdleCall DEF NoCall, None
  <2>3. CASE u = t
    BY <1>2, <2>1, <2>2, <2>3, IdleCall DEF RebindCall, None
  <2>4. CASE u # t
    <3>1. task'[u] = task[u] /\ RebindCall(task[u]) /\ \A d \in task[t].todo : ~Uses(task[u], d)
      BY <1>2, <2>4, CallFacts, ForwardFacts
    <3>2. RebindCall(task[u])'
      BY <3>1 DEF RebindCall, Uses
    <3> QED
      BY <2>1, <2>2, <3>2
  <2> QED
    BY <2>3, <2>4
<1>5. CallsInv'
  BY <1>3, <1>4 DEF CallsInv
<1>6. \A u \in Tasks : \A d : ~Forwards(u, d)'
  BY <1>3 DEF Forwards
<1> QED
  BY <1>1, <1>2, <1>5, <1>6

\* The ports bound so far are closed.
LEMMA PortInUse ==
  ASSUME PortsIInv, NEW t \in Tasks, port_in_use(t)
  PROVE  PortsIInv'
<1>1. /\ task[t].op = "forward" /\ lock' = None /\ Return(t)
      /\ UNCHANGED <<kind, joined, memo, cellOf, fwd, sock>>
  BY DEF port_in_use
<1>2. PICK cs : cs = task[t].todo /\ cs \subseteq Cells
  BY <1>1, ForwardFacts
<1>3. /\ \A d : d \in closing' <=> d \in closing \/ (d \in cs /\ bp[d].loops /\ Listens(d))
      /\ bp' \in [Cells -> BoundPort] /\ (\A d \in cs : bp'[d] = Empty)
      /\ (\A d \in Cells \ cs : bp'[d] = bp[d])
      /\ down' = down \ cs
  <2>1. \A d : d \in Range(sock) <=> Listens(d)
    BY Typed DEF Range, Listens
  <2> QED
    BY <1>2, <2>1, Typed, EmptyIsBoundPort DEF port_in_use, Released
<1>4. /\ CallsInv' /\ Onto(t, Idle) /\ task'[t] = Idle
      /\ (\A u \in Tasks \ {t} : task'[u] = task[u]) /\ task' \in [Tasks -> Call]
      /\ \A u \in Tasks : \A d : ~Forwards(u, d)'
  <2>1. \A d \in Cells : d \notin task[t].todo => bp'[d] = bp[d]
    BY <1>2, <1>3
  <2> QED
    BY <1>1, <2>1, ForwardGone
<1>5. OwnersInv'
  <2>1. \A j \in Keys : \A d \in fwd'[j] : bp'[d].state = "set"
    BY <1>1, <1>2, <1>3, ForwardFacts, Typed DEF PortsIInv, OwnersInv
  <2> QED
    BY <1>1, <1>4, <2>1 DEF PortsIInv, OwnersInv
<1>6. ASSUME NEW d \in cs
      PROVE  CellInv(d)'
  <2>1. d \in Cells /\ Has(d)
    BY <1>1, <1>2 DEF Has, Forwards
  <2>2. ~Has(d)'
    BY <1>1, <1>2, <1>4, <2>1, ForwardFacts, Numbers DEF Has
  <2>3. ~Held(d)'
    BY <1>1, <1>2, <1>4, <2>1, ForwardFacts, IdleCall, Numbers DEF Held, Uses
  <2> QED
    BY <1>1, <1>3, <2>1, <2>2, <2>3, CellReleased
<1>7. ASSUME NEW d \in Cells \ cs
      PROVE  CellInv(d)'
  <2>1. SameCell(d)
    BY <1>1, <1>3 DEF SameCell
  <2>2. ~Uses(task[t], d) /\ ~Uses(Idle, d) /\ d \notin task[t].todo
    BY <1>1, <1>2, ForwardFacts, IdleAfter, Numbers DEF Uses
  <2> QED
    BY <1>1, <1>4, <2>1, <2>2, CellElse, IdleCall DEF Forwards, None
<1>8. StateTyped'
  BY <1>1, <1>2, <1>3, <1>4, StateTypedNow DEF StateTyped, Listens
<1>9. RememberedIsServed'
  BY <1>1, ForwardFacts, Typed DEF RememberedIsServed
<1> QED
  BY <1>4, <1>5, <1>6, <1>7, <1>8, <1>9, InvAfter

\* The app gets the forwarder.
LEMMA ForwardingBegins ==
  ASSUME PortsIInv, NEW t \in Tasks, forwarding(t)
  PROVE  PortsIInv'
<1>1. /\ task[t].op = "forward" /\ lock' = None /\ Return(t)
      /\ UNCHANGED <<kind, joined, memo, cellOf, bp, sock, closing, down>>
  BY DEF forwarding
<1>2. PICK k \in Keys : k = task[t].key /\ fwd[k] = {}
  BY <1>1, ForwardFacts
<1>3. PICK cs : cs = task[t].todo /\ cs \subseteq Cells
  BY <1>1, ForwardFacts
<1>4. fwd' \in [Keys -> SUBSET Cells] /\ fwd'[k] = cs /\ \A j \in Keys \ {k} : fwd'[j] = fwd[j]
  BY <1>2, <1>3, Typed DEF forwarding
<1>5. /\ CallsInv' /\ Onto(t, Idle) /\ task'[t] = Idle
      /\ (\A u \in Tasks \ {t} : task'[u] = task[u]) /\ task' \in [Tasks -> Call]
      /\ \A u \in Tasks : \A d : ~Forwards(u, d)'
  BY <1>1, ForwardGone
<1>6. /\ \A u \in Tasks \ {t} : \A d : ~Forwards(u, d)
      /\ \A d : Forwards(t, d) <=> d \in cs
  BY <1>1, <1>3, ForwardFacts DEF Forwards
<1>7. \A d : Has(d)' <=> Has(d)
  <2>1. ASSUME NEW d PROVE Has(d)' <=> Has(d)
    <3>1. Has(d)' <=> \E j \in Keys : cellOf[j] = d \/ d \in fwd'[j]
      BY <1>1, <1>5 DEF Has
    <3>2. Has(d) <=> (\E j \in Keys : cellOf[j] = d \/ d \in fwd[j]) \/ d \in cs
      BY <1>6 DEF Has
    <3>3. \A j \in Keys : d \in fwd[j] => d \in fwd'[j]
      BY <1>2, <1>4
    <3>4. \A j \in Keys : d \in fwd'[j] => d \in fwd[j] \/ d \in cs
      BY <1>4
    <3>5. d \in cs => d \in fwd'[k]
      BY <1>4
    <3> QED
      BY <3>1, <3>2, <3>3, <3>4, <3>5
  <2> QED
    BY <2>1
<1>8. OwnersInv'
  <2>1. ASSUME NEW i \in Keys, NEW j \in Keys, NEW d \in fwd'[i], d \in fwd'[j]
        PROVE  i = j
    <3>1. \A h \in Keys : d \in cs => d \notin fwd[h]
      BY <1>1, <1>3, ForwardFacts
    <3>2. CASE i = k \/ j = k
      BY <1>4, <2>1, <3>1, <3>2
    <3>3. CASE i # k /\ j # k
      BY <1>4, <2>1, <3>3 DEF PortsIInv, OwnersInv
    <3> QED
      BY <3>2, <3>3
  <2>2. ASSUME NEW j \in Keys, NEW d \in fwd'[j]
        PROVE  bp'[d].state = "set"
    <3>1. CASE j = k
      BY <1>1, <1>3, <1>4, <2>2, <3>1, ForwardFacts
    <3>2. CASE j # k
      BY <1>1, <1>4, <2>2, <3>2 DEF PortsIInv, OwnersInv
    <3> QED
      BY <3>1, <3>2
  <2>3. kind = "forwarder"
    BY <1>1, ForwardFacts
  <2> QED
    BY <1>1, <1>5, <2>1, <2>2, <2>3 DEF PortsIInv, OwnersInv
<1>9. ASSUME NEW d \in Cells
      PROVE  CellInv(d)'
  <2>1. CellInv(d)
    BY DEF PortsIInv
  <2>2. Held(d)' => Held(d)
    BY <1>5, IdleCall, Numbers DEF Held
  <2>3. Held(d) /\ ~Held(d)' => Has(d)'
    <3>1. SUFFICES ASSUME Held(d), ~Held(d)' PROVE d \in cs
      BY <1>4 DEF Has
    <3>2. Uses(task[t], d)
      BY <1>5, <3>1 DEF Held, Uses
    <3> QED
      BY <1>1, <1>3, <3>2, ForwardFacts, Numbers DEF Uses
  <2>4. (Rebinding(d) => Rebinding(d)') /\ (Awaited(d) => Awaited(d)')
    BY <1>1, <1>5 DEF Rebinding, Awaited
  <2>5. Listens(d)' <=> Listens(d)
    BY <1>1 DEF Listens
  <2> QED
    BY <1>1, <1>7, <2>1, <2>2, <2>3, <2>4, <2>5 DEF CellInv
<1>10. StateTyped'
  BY <1>1, <1>4, <1>5, StateTypedNow DEF StateTyped, Listens
<1>11. RememberedIsServed'
  BY <1>1 DEF RememberedIsServed, PortsIInv
<1> QED
  BY <1>5, <1>8, <1>9, <1>10, <1>11, InvAfter

-----------------------------------------------------------------------------
(* What is released *)

LEMMA ReleasedCells ==
  ASSUME PortsIInv, NEW cs \in SUBSET Cells, NEW gone \in SUBSET cs, Released(cs, gone),
         UNCHANGED <<sock, task>>,
         \A c \in cs : Has(c) /\ ~Has(c)' /\ (c \in gone <=> ~Held(c)),
         \A c \in Cells \ cs : \A k \in Keys :
           (cellOf'[k] = c <=> cellOf[k] = c) /\ (c \in fwd'[k] <=> c \in fwd[k])
  PROVE  /\ \A c \in Cells : CellInv(c)'
         /\ bp' \in [Cells -> BoundPort] /\ (\A c \in Cells \ gone : bp'[c] = bp[c])
         /\ closing' \subseteq Cells /\ (\A c \in closing' : Listens(c)') /\ down' \subseteq Cells
<1>1. \A c : c \in Range(sock) <=> Listens(c)
  BY Typed DEF Range, Listens
<1>2. /\ \A c : c \in closing' <=> c \in closing \/ (c \in cs /\ bp[c].loops /\ Listens(c))
      /\ bp' \in [Cells -> BoundPort]
      /\ (\A c \in gone : bp'[c] = Empty) /\ (\A c \in Cells \ gone : bp'[c] = bp[c])
      /\ down' = down \ cs
  BY <1>1, Typed, EmptyIsBoundPort DEF Released
<1>3. ASSUME NEW c \in cs
      PROVE  CellInv(c)'
  <2>1. Held(c)' <=> Held(c)
    BY DEF Held
  <2>2. c \in closing' <=> c \in closing \/ (bp[c].loops /\ Listens(c))
    BY <1>2
  <2>3. \/ bp'[c] = Empty /\ ~Held(c)'
        \/ bp'[c] = bp[c] /\ Held(c)'
    BY <1>2, <2>1
  <2>4. c \in Cells /\ Has(c) /\ ~Has(c)' /\ sock' = sock
    OBVIOUS
  <2> QED
    BY <2>2, <2>3, <2>4, CellReleased
<1>4. ASSUME NEW c \in Cells \ cs
      PROVE  CellInv(c)'
  <2>1. SameCell(c)
    BY <1>2 DEF SameCell
  <2> QED
    BY <2>1, CellStays
<1>5. closing' \subseteq Cells /\ (\A c \in closing' : Listens(c)') /\ down' \subseteq Cells
  BY <1>2, Typed DEF Listens
<1> QED
  BY <1>2, <1>3, <1>4, <1>5

\* A share that was left gives its port up.
LEMMA Release ==
  ASSUME PortsIInv, NEW k \in Keys, release(k)
  PROVE  PortsIInv'
<1>1. /\ kind # "forwarder" /\ k \notin joined /\ cellOf[k] # 0
      /\ UNCHANGED <<kind, joined, memo, fwd, lock, sock, task>>
  BY DEF release
<1>2. PICK c \in Cells : c = cellOf[k]
  BY <1>1, Typed
<1>3. PICK gone : gone = {d \in {c} : ~Held(d)}
  OBVIOUS
<1>4. Released({c}, gone) /\ gone \in SUBSET {c} /\ {c} \in SUBSET Cells
  BY <1>2, <1>3 DEF release
<1>5. /\ cellOf' \in [Keys -> Cells \cup {0}] /\ cellOf'[k] = 0
      /\ \A j \in Keys \ {k} : cellOf'[j] = cellOf[j] /\ cellOf[j] # c
  <2>1. \A j \in Keys : cellOf[j] = c => j = k
    BY <1>1, <1>2 DEF PortsIInv, OwnersInv
  <2> QED
    BY <2>1, Typed DEF release
<1>6. /\ \A j \in Keys : fwd[j] = {}
      /\ \A u \in Tasks : task[u].op # "forward" /\ \A d : ~Forwards(u, d)
  BY <1>1, NoForwards DEF PortsIInv, OwnersInv
<1>7. Has(c) /\ ~Has(c)'
  <2>1. \A j \in Keys : cellOf'[j] # c
    BY <1>5, Numbers
  <2>2. \A u \in Tasks : ~Forwards(u, c)'
    BY <1>1, <1>6 DEF Forwards
  <2>3. Has(c)
    BY <1>2 DEF Has
  <2> QED
    BY <1>1, <1>6, <2>1, <2>2, <2>3 DEF Has
<1>8. /\ \A d \in Cells : CellInv(d)'
      /\ bp' \in [Cells -> BoundPort] /\ (\A d \in Cells \ gone : bp'[d] = bp[d])
      /\ closing' \subseteq Cells /\ (\A d \in closing' : Listens(d)') /\ down' \subseteq Cells
  <2>1. \A d \in {c} : Has(d) /\ ~Has(d)' /\ (d \in gone <=> ~Held(d))
    BY <1>3, <1>7
  <2>2. \A d \in Cells \ {c} : \A j \in Keys :
          (cellOf'[j] = d <=> cellOf[j] = d) /\ (d \in fwd'[j] <=> d \in fwd[j])
    BY <1>1, <1>2, <1>5, Numbers
  <2> QED
    BY <1>1, <1>4, <2>1, <2>2, ReleasedCells
<1>9. \A d \in Cells : Held(d) => bp'[d] = bp[d]
  BY <1>3, <1>8
<1>10. OwnersInv'
  <2>1. \A i, j \in Keys : cellOf'[i] = cellOf'[j] /\ cellOf'[i] # 0 => i = j
    BY <1>5 DEF PortsIInv, OwnersInv
  <2>2. \A u \in Tasks : \A d : ~Forwards(u, d)'
    BY <1>1, <1>6 DEF Forwards
  <2> QED
    BY <1>1, <1>6, <2>1, <2>2 DEF OwnersInv
<1>11. CallsInv'
  <2>1. ASSUME NEW u \in Tasks
        PROVE  PortCall(task[u])' /\ RebindCall(task[u])' /\ ForwardCall(u)' /\ NoCall(task[u])'
    <3>1. PortCall(task[u]) /\ RebindCall(task[u]) /\ NoCall(task[u]) /\ task'[u] = task[u]
      BY <1>1, CallFacts
    <3>2. \A d \in Cells : Uses(task[u], d) => bp'[d] = bp[d]
      BY <1>9 DEF Held, Uses
    <3>3. ASSUME task[u].op = "port"
          PROVE  /\ task[u].key \in joined => cellOf'[task[u].key] = task[u].cell
                 /\ \A j \in Keys : cellOf'[j] = task[u].cell => j = task[u].key
                 /\ bp'[task[u].cell] = bp[task[u].cell]
      BY <1>1, <1>5, <3>1, <3>2, <3>3, Numbers DEF PortCall, Uses
    <3>4. PortCall(task[u])'
      BY <1>1, <3>1, <3>3 DEF PortCall
    <3>5. RebindCall(task[u])'
      BY <3>1, <3>2 DEF RebindCall, Uses
    <3> QED
      BY <1>1, <1>6, <3>1, <3>4, <3>5 DEF ForwardCall, NoCall
  <2>2. \A u, v \in Tasks : Binds(u)' /\ Binds(v)' /\ task'[u].cell = task'[v].cell => u = v
    BY <1>1 DEF PortsIInv, CallsInv, Binds
  <2> QED
    BY <2>1, <2>2 DEF CallsInv
<1>12. StateTyped'
  BY <1>1, <1>5, <1>8, StateTypedNow DEF StateTyped
<1>13. RememberedIsServed'
  <2> SUFFICES ASSUME NEW j \in joined, cellOf'[j] # 0, bp'[cellOf'[j]].state = "set"
               PROVE  memo[j] = bp'[cellOf'[j]].port
    BY <1>1 DEF RememberedIsServed
  <2>1. j \in Keys /\ j # k /\ cellOf'[j] = cellOf[j] /\ cellOf[j] \in Cells /\ cellOf[j] # c
    BY <1>1, <1>5, Typed
  <2>2. bp'[cellOf[j]] = bp[cellOf[j]]
    BY <1>4, <1>8, <2>1
  <2> QED
    BY <2>1, <2>2 DEF PortsIInv, RememberedIsServed
<1> QED
  BY <1>8, <1>10, <1>11, <1>12, <1>13, InvAfter

\* The proxy goes with every port of its own.
LEMMA DropProxy ==
  ASSUME PortsIInv, drop_proxy
  PROVE  PortsIInv'
<1>1. /\ kind # "forwarder" /\ \A u \in Tasks : task[u].op # "port"
      /\ UNCHANGED <<kind, joined, memo, fwd, lock, sock, task>>
  BY DEF drop_proxy
<1>2. PICK cs : cs = Range(cellOf) \ {0}
  OBVIOUS
<1>3. cs \in SUBSET Cells /\ \A d \in Cells : d \in cs <=> \E j \in Keys : cellOf[j] = d
  BY <1>2, Typed, Numbers DEF Range
<1>4. PICK gone : gone = {d \in cs : ~Held(d)}
  OBVIOUS
<1>5. Released(cs, gone) /\ gone \in SUBSET cs
  BY <1>2, <1>4 DEF drop_proxy
<1>6. cellOf' \in [Keys -> Cells \cup {0}] /\ \A j \in Keys : cellOf'[j] = 0
  BY DEF drop_proxy
<1>7. /\ \A j \in Keys : fwd[j] = {}
      /\ \A u \in Tasks : task[u].op # "forward" /\ \A d : ~Forwards(u, d)
  BY <1>1, NoForwards DEF PortsIInv, OwnersInv
<1>8. \A u \in Tasks : \A d : ~Forwards(u, d)'
  BY <1>1, <1>7 DEF Forwards
<1>9. /\ \A d \in Cells : CellInv(d)'
      /\ bp' \in [Cells -> BoundPort] /\ (\A d \in Cells \ gone : bp'[d] = bp[d])
      /\ closing' \subseteq Cells /\ (\A d \in closing' : Listens(d)') /\ down' \subseteq Cells
  <2>1. \A d \in cs : Has(d) /\ ~Has(d)' /\ (d \in gone <=> ~Held(d))
    BY <1>1, <1>3, <1>4, <1>6, <1>7, <1>8, Numbers DEF Has
  <2>2. \A d \in Cells \ cs : \A j \in Keys :
          (cellOf'[j] = d <=> cellOf[j] = d) /\ (d \in fwd'[j] <=> d \in fwd[j])
    BY <1>1, <1>3, <1>6, Numbers
  <2> QED
    BY <1>1, <1>3, <1>5, <2>1, <2>2, ReleasedCells
<1>10. \A d \in Cells : Held(d) => bp'[d] = bp[d]
  BY <1>4, <1>9
<1>11. OwnersInv'
  BY <1>1, <1>6, <1>7, <1>8 DEF OwnersInv
<1>12. CallsInv'
  <2>1. ASSUME NEW u \in Tasks
        PROVE  PortCall(task[u])' /\ RebindCall(task[u])' /\ ForwardCall(u)' /\ NoCall(task[u])'
    <3>1. RebindCall(task[u]) /\ NoCall(task[u]) /\ task'[u] = task[u]
      BY <1>1, CallFacts
    <3>2. \A d \in Cells : Uses(task[u], d) => bp'[d] = bp[d]
      BY <1>10 DEF Held, Uses
    <3>3. RebindCall(task[u])'
      BY <3>1, <3>2 DEF RebindCall, Uses
    <3> QED
      BY <1>1, <1>7, <3>1, <3>3 DEF PortCall, ForwardCall, NoCall
  <2>2. \A u \in Tasks : ~Binds(u)'
    BY <1>1 DEF Binds
  <2> QED
    BY <2>1, <2>2 DEF CallsInv
<1>13. StateTyped'
  BY <1>1, <1>6, <1>9, StateTypedNow DEF StateTyped
<1>14. RememberedIsServed'
  BY <1>1, <1>6, Typed DEF RememberedIsServed
<1> QED
  BY <1>9, <1>11, <1>12, <1>13, <1>14, InvAfter

\* The app lets a forwarder go.
LEMMA DropForwarder ==
  ASSUME PortsIInv, NEW k \in Keys, drop_forwarder(k)
  PROVE  PortsIInv'
<1>1. /\ fwd[k] # {} /\ \A d \in fwd[k] : ~Held(d)
      /\ UNCHANGED <<kind, joined, memo, cellOf, lock, sock, task>>
  BY DEF drop_forwarder
<1>2. PICK cs \in SUBSET Cells : cs = fwd[k]
  BY Typed
<1>3. Released(cs, cs) /\ cs \in SUBSET cs
  BY <1>2 DEF drop_forwarder
<1>4. fwd' \in [Keys -> SUBSET Cells] /\ fwd'[k] = {} /\ \A j \in Keys \ {k} : fwd'[j] = fwd[j]
  BY Typed DEF drop_forwarder
<1>5. kind = "forwarder" /\ \A j \in Keys : cellOf[j] = 0
  BY <1>1 DEF PortsIInv, OwnersInv
<1>6. \A j \in Keys \ {k} : \A d \in cs : d \notin fwd[j]
  BY <1>2 DEF PortsIInv, OwnersInv
<1>7. \A u \in Tasks : \A d : Forwards(u, d)' <=> Forwards(u, d)
  BY <1>1 DEF Forwards
<1>8. \A u \in Tasks : \A d \in cs : ~Uses(task[u], d)
  BY <1>1, <1>2 DEF Held, Uses
<1>9. /\ \A d \in Cells : CellInv(d)'
      /\ bp' \in [Cells -> BoundPort] /\ (\A d \in Cells \ cs : bp'[d] = bp[d])
      /\ closing' \subseteq Cells /\ (\A d \in closing' : Listens(d)') /\ down' \subseteq Cells
  <2>1. ASSUME NEW d \in cs
        PROVE  Has(d) /\ ~Has(d)' /\ (d \in cs <=> ~Held(d))
    <3>1. Has(d) /\ ~Held(d)
      BY <1>1, <1>2 DEF Has
    <3>2. \A j \in Keys : d \notin fwd'[j] /\ cellOf'[j] # d
      BY <1>1, <1>4, <1>5, <1>6, Numbers
    <3>3. \A u \in Tasks : ~Forwards(u, d)'
      BY <1>7, <1>8 DEF Forwards, Uses
    <3> QED
      BY <3>1, <3>2, <3>3 DEF Has
  <2>2. \A d \in Cells \ cs : \A j \in Keys :
          (cellOf'[j] = d <=> cellOf[j] = d) /\ (d \in fwd'[j] <=> d \in fwd[j])
    BY <1>1, <1>2, <1>4
  <2> QED
    BY <1>1, <1>3, <2>1, <2>2, ReleasedCells
<1>10. OwnersInv'
  <2>1. \A i, j \in Keys : \A d \in fwd'[i] : d \in fwd'[j] => i = j
    BY <1>4 DEF PortsIInv, OwnersInv
  <2>2. ASSUME NEW j \in Keys, NEW d \in fwd'[j]
        PROVE  bp'[d].state = "set"
    <3>1. j # k /\ d \in fwd[j] /\ d \in Cells /\ d \notin cs
      BY <1>4, <1>6, <2>2, Typed
    <3> QED
      BY <1>9, <3>1 DEF PortsIInv, OwnersInv
  <2>3. ASSUME NEW u \in Tasks, NEW d \in Cells, Forwards(u, d)'
        PROVE  /\ bp'[d].state = "set"
               /\ \A j \in Keys : d \notin fwd'[j]
               /\ \A v \in Tasks \ {u} : task'[v].cell # d /\ d \notin task'[v].todo
    <3>1. Forwards(u, d) /\ d \notin cs
      BY <1>7, <1>8, <2>3 DEF Forwards, Uses
    <3>2. /\ bp[d].state = "set" /\ \A j \in Keys : d \notin fwd[j]
          /\ \A v \in Tasks \ {u} : task[v].cell # d /\ d \notin task[v].todo
      BY <3>1 DEF PortsIInv, OwnersInv
    <3> QED
      BY <1>1, <1>4, <1>9, <3>1, <3>2
  <2> QED
    BY <1>1, <1>5, <2>1, <2>2, <2>3 DEF OwnersInv
<1>11. CallsInv'
  <2>1. ASSUME NEW u \in Tasks
        PROVE  PortCall(task[u])' /\ RebindCall(task[u])' /\ ForwardCall(u)' /\ NoCall(task[u])'
    <3>1. /\ PortCall(task[u]) /\ RebindCall(task[u]) /\ ForwardCall(u) /\ NoCall(task[u])
          /\ task'[u] = task[u]
      BY <1>1, CallFacts
    <3>2. RebindCall(task[u])'
      BY <1>8, <1>9, <3>1 DEF RebindCall, Uses
    <3>3. ForwardCall(u)'
      BY <1>1, <1>4, <3>1 DEF ForwardCall
    <3> QED
      BY <1>1, <1>5, <3>1, <3>2, <3>3 DEF PortCall, NoCall
  <2>2. \A u, v \in Tasks : Binds(u)' /\ Binds(v)' /\ task'[u].cell = task'[v].cell => u = v
    BY <1>1 DEF PortsIInv, CallsInv, Binds
  <2> QED
    BY <2>1, <2>2 DEF CallsInv
<1>12. StateTyped'
  BY <1>1, <1>4, <1>9, StateTypedNow DEF StateTyped
<1>13. RememberedIsServed'
  BY <1>1, <1>5, Typed DEF RememberedIsServed
<1> QED
  BY <1>9, <1>10, <1>11, <1>12, <1>13, InvAfter

-----------------------------------------------------------------------------
(* The runtime, the device and the other shares *)

\* Accept loops that are dropped leave their ports free; whoever awaited them
\* goes on.
LEMMA DroppedLoops ==
  ASSUME PortsIInv, NEW cs, Dropped(cs), UNCHANGED <<proxy, bp>>,
         down \subseteq down', down' \subseteq Cells,
         \A c \in Cells : c \in cs /\ Listens(c) /\ Has(c) => c \in closing \/ c \in down'
  PROVE  PortsIInv'
<1>1. UNCHANGED <<kind, joined, memo, cellOf, fwd, lock, bp>>
  BY DEF proxy
<1>2. /\ sock \in [Ports -> Cells \cup {Free, Other, Leaked}]
      /\ sock' \in [Ports -> Cells \cup {Free, Other, Leaked}]
      /\ \A p \in Ports : sock'[p] = IF sock[p] \in cs THEN Free ELSE sock[p]
  BY Typed DEF Dropped
<1>3. /\ \A c \in Cells \ cs : \A p \in Ports : sock'[p] = c <=> sock[p] = c
      /\ \A c \in Cells : c \in cs => \A p \in Ports : sock'[p] # c
  BY <1>2, Numbers
<1>4. closing' = closing \ cs
  BY DEF Dropped
<1>5. \A u \in Tasks : /\ task[u] \in Call
                       /\ \/ task'[u] = task[u]
                          \/ /\ task[u].step = "await" /\ task[u].cell \in cs
                             /\ task'[u] = [task[u] EXCEPT !.step = "bind"]
                       /\ task[u].step = "await" /\ task'[u] = task[u] => task[u].cell \notin cs
  <2>1. ASSUME NEW u \in Tasks
        PROVE  /\ task[u] \in Call
               /\ \/ task'[u] = task[u]
                  \/ /\ task[u].step = "await" /\ task[u].cell \in cs
                     /\ task'[u] = [task[u] EXCEPT !.step = "bind"]
               /\ task[u].step = "await" /\ task'[u] = task[u] => task[u].cell \notin cs
    <3>1. task[u] \in Call
      BY Typed
    <3>2. task'[u] = IF task[u].step = "await" /\ task[u].cell \in cs
                       THEN [task[u] EXCEPT !.step = "bind"] ELSE task[u]
      BY DEF Dropped
    <3>3. [task[u] EXCEPT !.step = "bind"].step = "bind"
      BY <3>1 DEF Call
    <3> QED
      BY <3>1, <3>2, <3>3
  <2> QED
    BY <2>1
<1>6. \A u \in Tasks : /\ task'[u] \in Call /\ task'[u].op = task[u].op /\ task'[u].key = task[u].key
                       /\ task'[u].cell = task[u].cell /\ task'[u].port = task[u].port
                       /\ task'[u].todo = task[u].todo
                       /\ \/ task'[u] = task[u]
                          \/ task[u].step = "await" /\ task'[u].step = "bind"
  <2> SUFFICES ASSUME NEW u \in Tasks, task'[u] # task[u]
               PROVE  /\ task'[u] \in Call /\ task'[u].op = task[u].op /\ task'[u].key = task[u].key
                      /\ task'[u].cell = task[u].cell /\ task'[u].port = task[u].port
                      /\ task'[u].todo = task[u].todo
                      /\ task[u].step = "await" /\ task'[u].step = "bind"
    BY <1>5
  <2>1. PICK e : e = [task[u] EXCEPT !.step = "bind"]
    OBVIOUS
  <2>2. task[u] \in Call /\ task[u].step = "await" /\ task'[u] = e
    BY <1>5, <2>1
  <2>3. /\ e \in Call /\ e.op = task[u].op /\ e.key = task[u].key /\ e.cell = task[u].cell
        /\ e.port = task[u].port /\ e.todo = task[u].todo /\ e.step = "bind"
    BY <2>1, <2>2 DEF Call
  <2> QED
    BY <2>2, <2>3
<1>7. \A u \in Tasks : task[u].step = "await" => task[u].op = "rebind"
  BY CallFacts, IdleCall DEF PortCall, ForwardCall, NoCall, None
<1>8. task' \in [Tasks -> Call]
  BY <1>6 DEF Dropped
<1>9. \A c : (Held(c)' <=> Held(c)) /\ (Has(c)' <=> Has(c)) /\ (Rebinding(c)' <=> Rebinding(c))
  BY <1>1, <1>6 DEF Held, Has, Forwards, Rebinding
<1>10. ASSUME NEW c \in Cells
       PROVE  CellInv(c)'
  <2>1. CellInv(c)
    BY DEF PortsIInv
  <2>2. CASE c \in cs
    <3>1. ~Listens(c)' /\ c \notin closing'
      BY <1>3, <1>4, <2>2 DEF Listens
    <3>2. Has(c) /\ bp[c].state = "set" /\ ~Rebinding(c) => c \in down'
      <4> SUFFICES ASSUME Has(c), bp[c].state = "set", ~Rebinding(c), c \notin down'
                   PROVE  FALSE
        OBVIOUS
      <4>1. ~Awaited(c)
        BY DEF Awaited, Rebinding
      <4>2. c \notin closing /\ c \notin down
        BY <2>1, <4>1 DEF CellInv
      <4>3. Listens(c)
        BY <2>1, <4>2 DEF CellInv, Listens
      <4> QED
        BY <2>2, <4>2, <4>3
    <3> QED
      BY <1>1, <1>9, <2>1, <3>1, <3>2 DEF CellInv, Listens
  <2>3. CASE c \notin cs
    <3>1. \A p \in Ports : sock'[p] = c <=> sock[p] = c
      BY <1>3, <2>3
    <3>2. (Listens(c)' <=> Listens(c)) /\ (c \in closing' <=> c \in closing)
      BY <1>4, <2>3, <3>1 DEF Listens
    <3>3. Awaited(c) => Awaited(c)'
      BY <1>5, <2>3 DEF Awaited
    <3>4. c \in down => c \in down'
      OBVIOUS
    <3> QED
      BY <1>1, <1>9, <2>1, <3>1, <3>2, <3>3, <3>4 DEF CellInv
  <2> QED
    BY <2>2, <2>3
<1>11. OwnersInv'
  BY <1>1, <1>6 DEF PortsIInv, OwnersInv, Forwards
<1>12. CallsInv'
  <2>1. ASSUME NEW u \in Tasks
        PROVE  PortCall(task[u])' /\ RebindCall(task[u])' /\ ForwardCall(u)' /\ NoCall(task[u])'
    <3>1. PortCall(task[u]) /\ RebindCall(task[u]) /\ ForwardCall(u) /\ NoCall(task[u])
      BY CallFacts
    <3>2. CASE task'[u] = task[u]
      BY <1>1, <3>1, <3>2 DEF PortCall, RebindCall, ForwardCall, NoCall
    <3>3. CASE task[u].op = "rebind" /\ task[u].step = "await" /\ task'[u].step = "bind"
      <4>1. task'[u].op = "rebind"
        BY <1>6, <3>3
      <4>2. RebindCall(task[u])'
        BY <1>1, <1>6, <3>1, <3>3 DEF RebindCall
      <4> QED
        BY <4>1, <4>2 DEF PortCall, ForwardCall, NoCall, None
    <3> QED
      BY <1>5, <1>6, <1>7, <3>2, <3>3
  <2>2. \A u \in Tasks : Binds(u)' <=> Binds(u)
    BY <1>6, <1>7 DEF Binds
  <2>3. \A u, v \in Tasks : Binds(u)' /\ Binds(v)' /\ task'[u].cell = task'[v].cell => u = v
    BY <1>6, <2>2 DEF PortsIInv, CallsInv
  <2> QED
    BY <2>1, <2>3 DEF CallsInv
<1>13. StateTyped'
  <2>1. \A c \in closing' : Listens(c)'
    BY <1>3, <1>4, Typed DEF Listens
  <2> QED
    BY <1>1, <1>2, <1>4, <1>8, <2>1, StateTypedNow DEF StateTyped
<1>14. RememberedIsServed'
  BY <1>1 DEF RememberedIsServed, PortsIInv
<1> QED
  BY <1>10, <1>11, <1>12, <1>13, <1>14, InvAfter

LEMMA Runtime ==
  ASSUME PortsIInv, os_reclaims \/ \E c \in Cells : loop_dropped(c)
  PROVE  PortsIInv'
<1>1. ASSUME NEW c \in Cells, loop_dropped(c)
      PROVE  PortsIInv'
  <2>1. Dropped({c}) /\ c \in closing /\ UNCHANGED <<proxy, bp>> /\ down' = down
    BY <1>1 DEF loop_dropped
  <2> QED
    BY <2>1, DroppedLoops, Typed
<1>2. CASE os_reclaims
  <2>1. PICK cs : cs = Cells \cup {Leaked}
    OBVIOUS
  <2>2. /\ Dropped(cs) /\ UNCHANGED <<proxy, bp>>
        /\ down' = down \cup {c \in Range(sock) \cap Cells : Owned(c)}
    BY <1>2, <2>1 DEF os_reclaims
  <2>3. \A c \in Cells : Listens(c) /\ Has(c) => c \in down'
    BY <2>2, Typed, OwnedHas DEF Range, Listens
  <2>4. down \subseteq down' /\ down' \subseteq Cells
    BY <2>2, Typed
  <2> QED
    BY <2>2, <2>3, <2>4, DroppedLoops
<1> QED
  BY <1>1, <1>2

LEMMA Leave ==
  ASSUME PortsIInv, NEW k \in Keys, leave(k)
  PROVE  PortsIInv'
<1>1. /\ joined' = joined \ {k} /\ memo' = [memo EXCEPT ![k] = 0]
      /\ UNCHANGED <<kind, cellOf, fwd, lock, bp, sock, closing, task, down>>
  BY DEF leave
<1>2. memo' \in [Keys -> Ports \cup {0}] /\ \A j \in joined' : j \in joined /\ memo'[j] = memo[j]
  BY <1>1, Typed
<1>3. \A c \in Cells : CellInv(c)'
  BY <1>1, CellStays DEF SameCell
<1>4. OwnersInv'
  BY <1>1 DEF PortsIInv, OwnersInv, Forwards
<1>5. CallsInv'
  <2>1. ASSUME NEW u \in Tasks
        PROVE  PortCall(task[u])' /\ RebindCall(task[u])' /\ ForwardCall(u)' /\ NoCall(task[u])'
    <3>1. PortCall(task[u]) /\ RebindCall(task[u]) /\ ForwardCall(u) /\ NoCall(task[u])
      BY CallFacts
    <3>2. PortCall(task[u])'
      BY <1>1, <1>2, <3>1 DEF PortCall
    <3> QED
      BY <1>1, <3>1, <3>2 DEF RebindCall, ForwardCall, NoCall
  <2> QED
    BY <1>1, <2>1 DEF PortsIInv, CallsInv, Binds
<1>6. StateTyped'
  BY <1>1, <1>2, StateTypedNow DEF StateTyped, Listens
<1>7. RememberedIsServed'
  BY <1>1, <1>2 DEF RememberedIsServed, PortsIInv
<1> QED
  BY <1>3, <1>4, <1>5, <1>6, <1>7, InvAfter

\* A step that changes no port of ours.
LEMMA Elsewhere ==
  ASSUME PortsIInv, UNCHANGED <<proxy, bp, closing, task, down>>,
         sock' \in [Ports -> Cells \cup {Free, Other, Leaked}],
         \A c \in Cells, q \in Ports : sock'[q] = c <=> sock[q] = c
  PROVE  PortsIInv'
<1>1. UNCHANGED <<kind, joined, memo, cellOf, fwd, lock, bp, closing, task, down>>
  BY DEF proxy
<1>2. \A c \in Cells : CellInv(c)'
  BY <1>1, CellStays DEF SameCell
<1>3. OwnersInv'
  BY <1>1 DEF PortsIInv, OwnersInv, Forwards
<1>4. CallsInv'
  <2>1. ASSUME NEW u \in Tasks
        PROVE  PortCall(task[u])' /\ RebindCall(task[u])' /\ ForwardCall(u)' /\ NoCall(task[u])'
    BY <1>1, CallFacts DEF PortCall, RebindCall, ForwardCall, NoCall
  <2> QED
    BY <1>1, <2>1 DEF PortsIInv, CallsInv, Binds
<1>5. StateTyped'
  <2>1. \A c \in closing : Listens(c)'
    BY Typed DEF Listens
  <2> QED
    BY <1>1, <2>1, StateTypedNow DEF StateTyped
<1>6. RememberedIsServed'
  BY <1>1 DEF RememberedIsServed, PortsIInv
<1> QED
  BY <1>2, <1>3, <1>4, <1>5, <1>6, InvAfter

-----------------------------------------------------------------------------
LEMMA PortsInitially == PortsInit => PortsIInv
<1> SUFFICES ASSUME PortsInit PROVE PortsIInv
  OBVIOUS
<1>1. /\ \A c \in Cells : bp[c] = Empty
      /\ \A t \in Tasks : task[t] = Idle
      /\ \A k \in Keys : cellOf[k] = 0 /\ fwd[k] = {}
      /\ \A p \in Ports : sock[p] = Free
      /\ closing = {} /\ down = {} /\ lock = None
  BY DEF PortsInit
<1>2. PortsTypeOK
  BY IdleCall, EmptyIsBoundPort DEF PortsInit, PortsTypeOK
<1>3. \A c \in Cells : ~Has(c) /\ ~Listens(c)
  BY <1>1, IdleCall, Numbers DEF Has, Listens, Forwards, None
<1>4. \A c \in Cells : CellInv(c)
  BY <1>1, <1>3, EmptyIsBoundPort DEF CellInv, Listens
<1>5. OwnersInv
  BY <1>1, IdleCall DEF OwnersInv, Forwards, None
<1>6. CallsInv
  BY <1>1, IdleCall DEF CallsInv, PortCall, RebindCall, ForwardCall, NoCall, Binds, None
<1>7. RememberedIsServed
  BY <1>1, Typed DEF RememberedIsServed, PortsInit
<1> QED
  BY <1>2, <1>4, <1>5, <1>6, <1>7 DEF PortsIInv

LEMMA PortsStep == PortsIInv /\ [PortsNext]_vars => PortsIInv'
<1> SUFFICES ASSUME PortsIInv, [PortsNext]_vars PROVE PortsIInv'
  OBVIOUS
<1>1. ASSUME NEW t \in Tasks, Works(t) \/ rebind(t)
      PROVE  PortsIInv'
  <2>1. CASE already_bound(t) \/ get_or_try_init(t) \/ port_taken(t) \/ bind_failed(t)
    BY <2>1, PortSteps
  <2>2. CASE rebind_port(t) \/ \E p \in Ports : write_port(t, p)
    BY <2>2, BindingSteps
  <2>3. CASE forward_port(t)
    BY <2>3, ForwardPort
  <2>4. CASE port_in_use(t)
    BY <2>4, PortInUse
  <2>5. CASE forwarding(t)
    BY <2>5, ForwardingBegins
  <2>6. ASSUME NEW c \in Cells, rebind_take(t, c)
        PROVE  PortsIInv'
    BY <2>6, RebindTakes
  <2>7. CASE rebind_bind(t)
    BY <2>7, RebindBinds
  <2>8. CASE rebound(t)
    BY <2>8, RebindEnds
  <2>9. CASE rebind(t) \/ rebind_locked(t)
    BY <2>9, RebindBegins
  <2>10. CASE forward_locked(t)
    BY <2>10, ForwardLocked
  <2>11. ASSUME NEW c \in Cells, rebind_skip(t, c)
         PROVE  PortsIInv'
    BY <2>11, RebindSkips
  <2>12. task[t].todo \subseteq Cells
    BY CallFacts DEF Call
  <2> QED
    BY <1>1, <2>1, <2>2, <2>3, <2>4, <2>5, <2>6, <2>7, <2>8, <2>9, <2>10, <2>11, <2>12 DEF Works
<1>2. ASSUME NEW t \in Tasks, NEW k \in Keys, app_port(t, k) \/ forward_loopback_origins(t, k)
      PROVE  PortsIInv'
  BY <1>2, AppPort, ForwardWaits
<1>3. ASSUME NEW k \in Keys, leave(k) \/ release(k) \/ drop_forwarder(k)
      PROVE  PortsIInv'
  BY <1>3, Leave, Release, DropForwarder
<1>4. CASE os_reclaims \/ \E c \in Cells : loop_dropped(c)
  BY <1>4, Runtime
<1>5. ASSUME NEW p \in Ports, other_process(p)
      PROVE  PortsIInv'
  <2>1. /\ sock' \in [Ports -> Cells \cup {Free, Other, Leaked}]
        /\ \A c \in Cells, q \in Ports : sock'[q] = c <=> sock[q] = c
    BY <1>5, Typed, Numbers DEF other_process
  <2> QED
    BY <1>5, <2>1, Elsewhere DEF other_process
<1>6. CASE drop_proxy
  BY <1>6, DropProxy
<1>7. CASE UNCHANGED vars
  BY <1>7, Elsewhere, Typed DEF vars, proxy
<1> QED
  BY <1>1, <1>2, <1>3, <1>4, <1>5, <1>6, <1>7 DEF PortsNext

\* The inductive invariant: who has a cell, what listens for it and which call
\* binds it, over app_port, share_port, rebind and the forwarders' calls.
THEOREM PortsInvariant == PortsSpec => []PortsIInv
BY PortsInitially, PortsStep, PTL DEF PortsSpec

\* A port that is served is the one in the database, and it is served between
\* rebinds until the system or another process takes it: a browser finds the
\* port it was started with (PerAppProxy::app_port, share_port, rebind).
THEOREM PortsStayServed == PortsSpec => []PortsInv
<1>1. PortsIInv => PortsInv
  <2> SUFFICES ASSUME PortsIInv PROVE ServedUnlessTaken
    BY DEF PortsIInv, PortsInv
  <2> SUFFICES ASSUME NEW c \in (Range(cellOf) \ {0}) \cup Forwarded,
                      bp[c].state = "set", ~Held(c), c \notin down
               PROVE  sock[bp[c].port] = c /\ c \notin closing
    BY DEF ServedUnlessTaken
  <2>1. c \in Cells /\ Owned(c)
    BY Typed DEF Owned, Range, Forwarded
  <2>2. Has(c) /\ CellInv(c)
    BY <2>1, OwnedHas DEF PortsIInv
  <2>3. ~Rebinding(c) /\ ~Awaited(c)
    BY DEF Held, Rebinding, Awaited
  <2> QED
    BY <2>2, <2>3 DEF CellInv
<1> QED
  BY <1>1, PortsInvariant, PTL

\* What the SDK still serves belongs to a proxy or a forwarder somebody holds, or
\* is being closed: release and drop leave no open port behind.
THEOREM OpenPortsAreOwned == PortsSpec => []OpenIsOwned
<1>1. PortsIInv => OpenIsOwned
  <2> SUFFICES ASSUME PortsIInv, NEW c \in Cells, c \in Range(sock), c \notin closing
               PROVE  Owned(c)
    BY DEF OpenIsOwned
  <2>1. Listens(c)
    BY Typed DEF Range, Listens
  <2> QED
    BY <2>1, OwnedHas DEF PortsIInv, CellInv
<1> QED
  BY <1>1, PortsInvariant, PTL
=============================================================================
