------------------------------ MODULE SdkTimer ------------------------------
(***************************************************************************)
(* The timer of the SDK (CNVSTimer, of which IVS_SDKTVWall and             *)
(* IVS_SDKNetKeyBoard have copies): a thread that wakes once a scale, and  *)
(* under the lock of the list goes through a multimap of items, ordered by *)
(* the scale at which they are due.  It runs the callbacks of those whose  *)
(* time has passed, still under the lock.                                  *)
(*                                                                         *)
(* A trigger knows its item, and an item its trigger.  cancelTimer marks   *)
(* the item without the lock, and then takes and releases the lock, which  *)
(* waits for a scan to end.                                                *)
(*                                                                         *)
(* The key of an item is kept relative to the scale of the timer, and is   *)
(* not counted below 0: new keys always lie after the present scale.       *)
(***************************************************************************)
EXTENDS Integers, Sequences, FiniteSets, SequencesExt

CONSTANTS
  Triggers,  \* ITrigger objects
  Repeated,  \* those that are registered as enRepeated
  Period,    \* nScales of each
  Items,     \* addresses of CTimerItem objects
  Reuse,     \* a new item may get the address of one that a cancellation still
             \* points at; otherwise such a cancellation goes no further
  None       \* NULL

ASSUME TimerAssumption ==
  /\ Reuse \in BOOLEAN
  /\ Repeated \subseteq Triggers /\ Period \in [Triggers -> Nat \ {0}]
  /\ None \notin Triggers \cup Items

VARIABLES
  phase,   \* of the owner: "off", "on", "clear", "exit": it has set m_bExit
  alive,   \* the items that exist
  item,    \* what they hold
  list,    \* m_plistTrigger, in its order
  ptr,     \* m_pTimerItem of the triggers
  cl,      \* the client of each trigger
  tm,      \* the thread: where it is, its iterator, the item it runs
  jumped   \* history: how often (up to twice) the item x has fired and taken the iterator over
           \* y, which was due by its key and has not been looked at since

vars == <<phase, alive, item, list, ptr, cl, tm, jumped>>

Blank == [trig |-> None, removed |-> FALSE, left |-> 0, due |-> FALSE]
NoJumps == [x \in Items |-> [y \in Items |-> 0]]
Thread(at) == [at |-> at, pos |-> 0, cur |-> None, trig |-> None]

Init ==
  /\ phase = "off" /\ alive = {} /\ item = [i \in Items |-> Blank]
  /\ list = <<>> /\ ptr = [t \in Triggers |-> None]
  /\ cl = [t \in Triggers |-> "idle"] /\ tm = Thread("off") /\ jumped = NoJumps

\* m_pMutexListOfTrigger
Unlocked == tm.at \notin {"scan", "call", "done"}

Delete(i) ==
  /\ alive' = alive \ {i} /\ item' = [item EXCEPT ![i] = Blank]
  /\ jumped' = [x \in Items |-> [y \in Items |-> IF i \in {x, y} THEN 0 ELSE jumped[x][y]]]
LookedAt(i) == jumped' = [x \in Items |-> [jumped[x] EXCEPT ![i] = 0]]
JumpTo(i, place) ==
  LET over == {list[k] : k \in {k \in tm.pos..(place - 1) : item[list[k]].left = 0}}
  IN jumped' = [jumped EXCEPT ![i] = [y \in Items |-> IF y \in over /\ @[y] < 2 THEN @[y] + 1
                                                   ELSE @[y]]]

\* multimap::insert puts an item behind those with the same key.
PlaceOf(l, left) == Cardinality({k \in DOMAIN l : item[l[k]].left <= left}) + 1

-----------------------------------------------------------------------------
(* The owner starts the timer and stops it when its triggers are cancelled. *)

\* init and run.  After exit, m_bExit is reset for the next start.
Start ==
  /\ phase = "off" /\ phase' = "on" /\ tm' = Thread("sleep")
  /\ UNCHANGED <<alive, item, list, ptr, cl, jumped>>

\* clearTimer deletes what is left, which is marked as removed.
ClearTimer ==
  /\ phase = "on" /\ \A t \in Triggers : cl[t] = "idle"
  /\ Unlocked /\ phase' = "clear"
  /\ list' = <<>> /\ alive' = alive \ ToSet(list)
  /\ item' = [i \in Items |-> IF i \in ToSet(list) THEN Blank ELSE item[i]]
  /\ jumped' = NoJumps /\ UNCHANGED <<ptr, cl, tm>>

Exit ==
  /\ phase = "clear" /\ phase' = "exit"
  /\ UNCHANGED <<alive, item, list, ptr, cl, tm, jumped>>

\* VOS_ThreadJoin returns.
Joined ==
  /\ phase = "exit" /\ tm.at = "off" /\ phase' = "off"
  /\ UNCHANGED <<alive, item, list, ptr, cl, tm, jumped>>

-----------------------------------------------------------------------------
(* The clients: each owns one trigger.                                     *)

ClGo(t, at) == cl' = [cl EXCEPT ![t] = at]

\* registerTimer points the trigger at the new item, and then takes the lock.
RegisterTimer(t) ==
  /\ cl[t] = "idle" /\ phase = "on"
  /\ \E i \in Items \ alive :
       /\ Reuse \/ \A u \in Triggers : ptr[u] # i
       /\ alive' = alive \cup {i} /\ ptr' = [ptr EXCEPT ![t] = i]
       /\ item' = [item EXCEPT ![i] = [Blank EXCEPT !.trig = t, !.left = Period[t]]]
  /\ ClGo(t, "insert")
  /\ UNCHANGED <<phase, list, tm, jumped>>

Insert(t) ==
  /\ cl[t] = "insert" /\ Unlocked
  /\ list' = InsertAt(list, PlaceOf(list, item[ptr[t]].left), ptr[t])
  /\ ClGo(t, "set")
  /\ UNCHANGED <<phase, alive, item, ptr, tm, jumped>>

\* An item that may still fire.
Fires(i) == i \in alive /\ ~item[i].removed /\ item[i].trig # None

\* cancelTimer, which reads m_pTimerItem for each of its three writes.  Whether
\* the item is due is of no interest any more.
CancelTimer(t) ==
  /\ cl[t] = "set" /\ ClGo(t, IF ptr[t] = None THEN "barrier" ELSE "mark")
  /\ UNCHANGED <<phase, alive, item, list, ptr, tm, jumped>>

Mark(t) ==
  /\ cl[t] = "mark" /\ ptr[t] \in alive
  /\ item' = [item EXCEPT ![ptr[t]].removed = TRUE, ![ptr[t]].due = FALSE]
  /\ ClGo(t, "detach")
  /\ UNCHANGED <<phase, alive, list, ptr, tm, jumped>>

Detach(t) ==
  /\ cl[t] = "detach" /\ ptr[t] \in alive
  /\ item' = [item EXCEPT ![ptr[t]].trig = None] /\ ClGo(t, "forget")
  /\ UNCHANGED <<phase, alive, list, ptr, tm, jumped>>

ForgetItem(t) ==
  /\ cl[t] = "forget" /\ ptr' = [ptr EXCEPT ![t] = None] /\ ClGo(t, "barrier")
  /\ UNCHANGED <<phase, alive, item, list, tm, jumped>>

\* (bug) cancelTimer does not wait for the scan.
NoBarrier(t) ==
  /\ cl[t] = "barrier" /\ ClGo(t, "idle")
  /\ UNCHANGED <<phase, alive, item, list, ptr, tm, jumped>>

Barrier(t) ==
  /\ cl[t] = "barrier" /\ Unlocked /\ ClGo(t, "idle")
  /\ UNCHANGED <<phase, alive, item, list, ptr, tm, jumped>>

-----------------------------------------------------------------------------
(* The thread: mainLoop.                                                   *)

TmAt(at) == tm.at = at
Cur == list[tm.pos]

\* The ticks of an item have passed; the sleep may be longer than a scale, so
\* that this says nothing about its key.
TicksPass(i) ==
  /\ Fires(i) /\ ~item[i].due /\ item' = [item EXCEPT ![i].due = TRUE]
  /\ UNCHANGED <<phase, alive, list, ptr, cl, tm, jumped>>

\* The next scale.
Wake ==
  /\ TmAt("sleep") /\ phase # "exit" /\ tm' = Thread("lock")
  /\ item' = [i \in Items |-> IF item[i].left > 0 THEN [item[i] EXCEPT !.left = @ - 1]
                              ELSE item[i]]
  /\ UNCHANGED <<phase, alive, list, ptr, cl, jumped>>

Quit ==
  /\ TmAt("sleep") /\ phase = "exit" /\ tm' = Thread("off")
  /\ UNCHANGED <<phase, alive, item, list, ptr, cl, jumped>>

\* Without a list there is nothing to scan.
Lock ==
  /\ TmAt("lock")
  /\ tm' = IF phase = "on" THEN [Thread("scan") EXCEPT !.pos = 1] ELSE Thread("sleep")
  /\ UNCHANGED <<phase, alive, item, list, ptr, cl, jumped>>

EraseRemoved ==
  /\ TmAt("scan") /\ tm.pos <= Len(list)
  /\ item[Cur].removed \/ item[Cur].trig = None
  /\ list' = RemoveAt(list, tm.pos) /\ Delete(Cur)
  /\ UNCHANGED <<phase, ptr, cl, tm>>

NotYet ==
  /\ TmAt("scan") /\ tm.pos <= Len(list)
  /\ ~item[Cur].removed /\ item[Cur].trig # None /\ ~item[Cur].due
  /\ tm' = [tm EXCEPT !.pos = @ + 1]
  /\ LookedAt(Cur)
  /\ UNCHANGED <<phase, alive, item, list, ptr, cl>>

\* onTrigger begins.
OnTrigger ==
  /\ TmAt("scan") /\ tm.pos <= Len(list)
  /\ ~item[Cur].removed /\ item[Cur].trig # None /\ item[Cur].due
  /\ tm' = [tm EXCEPT !.at = "call", !.cur = Cur, !.trig = item[Cur].trig]
  /\ item' = [item EXCEPT ![Cur].due = FALSE]
  /\ list' = RemoveAt(list, tm.pos)
  /\ LookedAt(Cur)
  /\ UNCHANGED <<phase, alive, ptr, cl>>

Returned ==
  /\ TmAt("call") /\ tm' = [tm EXCEPT !.at = "done"]
  /\ UNCHANGED <<phase, alive, item, list, ptr, cl, jumped>>

OneShotDone ==
  /\ TmAt("done") /\ tm.trig \notin Repeated
  /\ ptr' = [ptr EXCEPT ![tm.trig] = None] /\ Delete(tm.cur)
  /\ tm' = [Thread("scan") EXCEPT !.pos = tm.pos]
  /\ UNCHANGED <<phase, list, cl>>

\* (bug) The key is not renewed, and the pass ends with the item that fired.
PutBackFirst ==
  /\ TmAt("done") /\ tm.trig \in Repeated
  /\ list' = InsertAt(list, tm.pos, tm.cur)
  /\ tm' = [Thread("scan") EXCEPT !.pos = Len(list) + 2]
  /\ JumpTo(tm.cur, Len(list) + 1)
  /\ UNCHANGED <<phase, alive, item, ptr, cl>>

\* The iterator goes to the item that was put back: what lies between is left
\* for the next pass.
PutBack ==
  LET place == PlaceOf(list, Period[tm.trig]) IN
  /\ TmAt("done") /\ tm.trig \in Repeated
  /\ item' = [item EXCEPT ![tm.cur].left = Period[tm.trig]]
  /\ list' = InsertAt(list, place, tm.cur)
  /\ tm' = [Thread("scan") EXCEPT !.pos = place]
  /\ JumpTo(tm.cur, place)
  /\ UNCHANGED <<phase, alive, ptr, cl>>

Unlock ==
  /\ TmAt("scan") /\ tm.pos > Len(list) /\ tm' = Thread("sleep")
  /\ UNCHANGED <<phase, alive, item, list, ptr, cl, jumped>>

-----------------------------------------------------------------------------
Owner == Start \/ ClearTimer \/ Exit \/ Joined
Client(t) ==
  \/ RegisterTimer(t) \/ Insert(t) \/ CancelTimer(t) \/ Mark(t) \/ Detach(t)
  \/ ForgetItem(t) \/ Barrier(t)
MainLoop ==
  \/ Wake \/ Quit \/ Lock \/ EraseRemoved \/ NotYet \/ OnTrigger \/ Returned
  \/ OneShotDone \/ PutBack \/ Unlock

Next ==
  \/ Owner \/ MainLoop \/ \E t \in Triggers : Client(t)
  \/ \E i \in Items : TicksPass(i)

\* The thread runs, the callbacks return and time passes.  A client gets the
\* lock, which is free while the thread sleeps.
Fairness ==
  /\ WF_vars(MainLoop) /\ \A i \in Items : WF_vars(TicksPass(i))
  /\ \A t \in Triggers : SF_vars(Insert(t)) /\ WF_vars(Mark(t)) /\ WF_vars(Detach(t))
                           /\ WF_vars(ForgetItem(t)) /\ SF_vars(Barrier(t))
  /\ WF_vars(Exit) /\ WF_vars(Joined)

Spec == Init /\ [][Next]_vars
FairSpec == Spec /\ Fairness

-----------------------------------------------------------------------------
\* Every variable keeps its type, and the list holds living items, each once.
TypeOK ==
  /\ phase \in {"off", "on", "clear", "exit"} /\ alive \subseteq Items
  /\ item \in [Items -> [trig : Triggers \cup {None}, removed : BOOLEAN,
                         left : Nat, due : BOOLEAN]]
  /\ list \in Seq(alive) /\ IsInjective(list)
  /\ ptr \in [Triggers -> Items \cup {None}]
  /\ cl \in [Triggers -> {"idle", "insert", "set", "mark", "detach", "forget", "barrier"}]
  /\ tm \in [at : {"off", "sleep", "lock", "scan", "call", "done"}, pos : Nat,
             cur : alive \cup {None}, trig : Triggers \cup {None}]
  /\ jumped \in [Items -> [Items -> 0..2]]

\* An item that may still fire is found by the cancellation of its trigger:
\* nothing fires that nobody can stop.
Cancellable ==
  \A i \in Items : Fires(i) =>
    ptr[item[i].trig] = i \/ (tm.cur = i /\ item[i].trig \notin Repeated)

\* An item that is due is passed over at most once by each of the others,
\* though every item that fires takes the iterator with it.
NeverTwice == \A x, y \in Items : jumped[x][y] <= 1

\* Only the items of triggers that were deregistered are deleted (the comment at
\* SDKTimer.cpp:519).  The code breaks this: cancelTimer writes to the item
\* after it has marked it, when the thread may have deleted it and the address
\* may belong to the item of another trigger.
RegisteredIsKept ==
  \A t \in Triggers : cl[t] = "set" /\ ptr[t] # None => Fires(ptr[t])

\* If every pass ends, an item that is due fires, unless it is cancelled.  (A
\* callback that takes longer than its period is due again in the same pass.)
PassesEnd == []<>(tm.at \in {"sleep", "off"})
DueFires ==
  PassesEnd => \A t \in Triggers :
    (cl[t] = "set" /\ ptr[t] \in alive /\ item[ptr[t]].due)
      ~> (cl[t] # "set" \/ ptr[t] \notin alive \/ ~item[ptr[t]].due)

\* The triggers that may fire without being registered anew.  A one-shot trigger
\* whose callback runs is not among them.
Armed == {t \in Triggers : \E i \in Items :
            /\ Fires(i) /\ item[i].trig = t
            /\ tm.cur = i => t \in Repeated}
Promise == INSTANCE TimerPromise WITH
  Stray <- Reuse,
  armed <- Armed,
  cancelling <- {t \in Triggers : cl[t] \in {"mark", "detach", "forget", "barrier"}},
  busy <- IF tm.at = "call" THEN tm.trig ELSE None

\* What SDKTimer.cpp does item by item, mainLoop with the lock and cancelTimer
\* mostly without it, keeps the promise that SDKTimer.h makes by its interface: a
\* trigger fires only while it is registered, and once cancelTimer has returned
\* its callback does not run.  Without Reuse, only its own cancellation disarms
\* a trigger; with it, that of another may (RegisteredIsKept).
KeepsPromise == Promise!Spec
=============================================================================
