-------------------------- MODULE SlackIntakeProofs --------------------------
(***************************************************************************)
(* Proofs about SlackIntake, for any instances, handlers at a time,        *)
(* deliveries, replays and faults.                                         *)
(*                                                                         *)
(* The deduper gives one handler per instance (OnePerInstance).  Across    *)
(* instances nothing does, so TakenOnce needs that a handler which routed  *)
(* without a rival still has none (NoRival).  AckedIsKept needs what each  *)
(* place of a handler owes: it returns without a failure only when the     *)
(* message is over, that is work, answered, or given up with nobody told,  *)
(* and clears the row only then (OwesNothing).                             *)
(***************************************************************************)
EXTENDS SlackIntake, TLAPS

Handler == [kind : {"free", "delivery", "replay"}, on : Instances \cup {"none"},
            pc : {"over", "start", "look", "send", "enqueue", "return"},
            done : {"no", "acked", "withheld"}, staged : BOOLEAN, failed : BOOLEAN,
            write : {"none", "flight", "over"}, clear : {"no", "now", "after", "over"}]

\* A place that is taken is some instance's; one that is not is as Free is.
PlaceOK(x) ==
    /\ x \in Handler
    /\ x.kind # "free" => x.on \in Instances
    /\ x.kind = "free" => x = Free

IntakeTypeOK ==
    /\ h \in [Handlers -> Handler]
    /\ row \in [age : {"none", "fresh", "stale", "dead"}, attempts : Nat, claimed : BOOLEAN]
    /\ sweep \in [Instances -> [pc : {"idle", "claim"}, attempts : Nat]]
    /\ seen \in [Instances -> BOOLEAN]
    /\ \A n \in Handlers : PlaceOK(h[n])
    /\ row.age = "none" => row = NoRow

\* The instance of a handler at work has the message in its deduper.
OnePerInstance ==
    /\ \A n \in Submitting : seen[h[n].on]
    /\ \A m, n \in Submitting : h[m].on = h[n].on => m = n

\* Without an overlap one handler is at work, and what it found is still so.
NoRival ==
    ~overlapped =>
        /\ ~(run /\ signal)
        /\ \A m, n \in Submitting : m = n
        /\ \A n \in Handlers : /\ h[n].pc = "send" => ~run
                               /\ h[n].pc = "enqueue" => ~signal

\* The message is dealt with, or given up with nobody told.
Over == Handled \/ Swallowed

\* What a handler that is done or clears the row has seen to.
OwesNothing ==
    /\ "stop" \in ends => halt
    /\ \A n \in Handlers :
          /\ h[n].pc = "return" /\ ~h[n].failed => Over
          /\ h[n].failed => h[n].done # "no"
          /\ h[n].clear \in {"now", "after"} => Over
    /\ AckedIsKept

IntakeInv == IntakeTypeOK /\ OnePerInstance /\ NoRival /\ OwesNothing

-----------------------------------------------------------------------------
(* Handlers                                                                *)

\* A free place has nothing under way.
LEMMA FreePlace ==
    /\ PlaceOK(Free) /\ Free.pc = "over" /\ Free.kind = "free" /\ Free.write = "none"
    /\ Free.clear = "no" /\ ~Free.failed /\ Free.on = "none" /\ Free.done = "no"
BY DEF PlaceOK, Free, Handler

\* A handler with something under way belongs to an instance.
LEMMA TakenPlace ==
    ASSUME IntakeTypeOK, NEW n \in Handlers,
           h[n].pc # "over" \/ h[n].write = "flight" \/ h[n].clear \in {"now", "after"}
    PROVE  h[n] \in Handler /\ h[n].kind # "free" /\ h[n].on \in Instances
BY FreePlace DEF IntakeTypeOK, PlaceOK

\* A step of one handler leaves the others.
LEMMA HandlerMoves ==
    ASSUME IntakeTypeOK, NEW n \in Handlers, NEW x, PlaceOK(x), h' = [h EXCEPT ![n] = x]
    PROVE  /\ h' \in [Handlers -> Handler] /\ \A m \in Handlers : PlaceOK(h'[m])
           /\ h'[n] = x
           /\ \A m \in Handlers \ {n} : h'[m] = h[m]
BY DEF IntakeTypeOK, PlaceOK

\* Put leaves the place as it is given, or free when nothing is under way.
LEMMA PutMoves ==
    ASSUME IntakeTypeOK, NEW n \in Handlers, NEW x, PlaceOK(x), Put(n, x)
    PROVE  /\ h' \in [Handlers -> Handler] /\ \A m \in Handlers : PlaceOK(h'[m])
           /\ h'[n] = x \/ (h'[n] = Free /\ x.pc = "over")
           /\ \A m \in Handlers \ {n} : h'[m] = h[m]
<1> DEFINE y == IF x.pc = "over" /\ x.write # "flight" /\ x.clear \notin {"now", "after"}
                THEN Free ELSE x
<1>1. PlaceOK(y) /\ (y = x \/ (y = Free /\ x.pc = "over"))
  BY FreePlace
<1>2. h' = [h EXCEPT ![n] = y]
  BY DEF Put
<1> HIDE DEF y
<1> QED BY <1>1, <1>2, HandlerMoves

\* The row is cleared now, or after its write.
LEMMA ClearOfType == ASSUME NEW n PROVE ClearOf(n) \in {"now", "after"}
BY DEF ClearOf

\* gate.persisted() clears only what did not fail.
LEMMA persistedIs ==
    ASSUME NEW n, h[n] \in Handler
    PROVE  /\ persisted(n) \in Handler
           /\ persisted(n).kind = h[n].kind /\ persisted(n).on = h[n].on
           /\ persisted(n).pc = h[n].pc /\ persisted(n).failed = h[n].failed
           /\ persisted(n).done = (IF h[n].done = "no" THEN "acked" ELSE h[n].done)
           /\ persisted(n).clear = h[n].clear \/ ~h[n].failed
BY ClearOfType DEF persisted, Handler

\* gate.failed(): the envelope is acknowledged or withheld, and the row stays.
LEMMA failedIs ==
    ASSUME NEW n, h[n] \in Handler
    PROVE  LET x == [failed(n) EXCEPT !.pc = "return"]
           IN  /\ x \in Handler /\ x.kind = h[n].kind /\ x.on = h[n].on
               /\ x.pc = "return" /\ x.failed /\ x.done # "no" /\ x.clear = h[n].clear
BY DEF failed, Handler

\* A new handler starts at a place that was free.
LEMMA HandlerBegins ==
    ASSUME IntakeTypeOK, NEW i \in Instances, NEW kind \in {"delivery", "replay"},
           Begins(i, kind)
    PROVE  \E n \in Handlers :
              /\ h[n] = Free /\ h'[n].pc = "start" /\ ~h'[n].failed
              /\ h'[n].clear = "no"
              /\ h' \in [Handlers -> Handler] /\ \A m \in Handlers : PlaceOK(h'[m])
              /\ \A m \in Handlers \ {n} : h'[m] = h[m]
<1> DEFINE x == [Free EXCEPT !.kind = kind, !.on = i, !.pc = "start"]
<1>1. x \in Handler /\ x.kind = kind /\ x.on = i /\ x.pc = "start" /\ ~x.failed /\ x.clear = "no"
  BY DEF Free, Handler
<1>2. PlaceOK(x)
  BY <1>1 DEF PlaceOK
<1>3. PICK n \in Handlers : h[n] = Free /\ h' = [h EXCEPT ![n] = x]
  BY DEF Begins
<1> HIDE DEF x
<1> QED BY <1>1, <1>2, <1>3, HandlerMoves

\* The steps of a handler that change one or two of its fields.
LEMMA PcMoves ==
    ASSUME IntakeTypeOK, NEW n \in Handlers, h[n].pc # "over",
           NEW where \in {"over", "start", "look", "send", "enqueue", "return"},
           h' = [h EXCEPT ![n].pc = where]
    PROVE  /\ h' \in [Handlers -> Handler] /\ \A m \in Handlers : PlaceOK(h'[m])
           /\ h'[n].pc = where /\ h'[n].failed = h[n].failed /\ h'[n].on = h[n].on
           /\ h'[n].done = h[n].done /\ h'[n].clear = h[n].clear
           /\ \A m \in Handlers \ {n} : h'[m] = h[m]
<1> DEFINE x == [h[n] EXCEPT !.pc = where]
<1>1. h[n] \in Handler /\ h[n].kind # "free" /\ h[n].on \in Instances
  BY TakenPlace
<1>2. /\ x \in Handler /\ x.kind = h[n].kind /\ x.on = h[n].on /\ x.pc = where
      /\ x.failed = h[n].failed /\ x.done = h[n].done /\ x.clear = h[n].clear
  BY <1>1 DEF Handler
<1>3. h' = [h EXCEPT ![n] = x] /\ PlaceOK(x)
  BY <1>1, <1>2 DEF PlaceOK
<1> HIDE DEF x
<1> QED BY <1>2, <1>3, HandlerMoves
-----------------------------------------------------------------------------
(* Steps                                                                   *)

AtWork == {"look", "send", "enqueue"}

\* A step in which no handler comes to work and what the message has become stays.
LEMMA QuietStep ==
    ASSUME IntakeInv, IntakeTypeOK', UNCHANGED <<halt, run, signal, ends, seen, overlapped>>,
           acked' => acked \/ Over \/ Staged',
           Staged => Staged' \/ Over \/ dropped',
           dropped => dropped',
           \A m \in Handlers :
              /\ h'[m].pc \in AtWork => h'[m].pc = h[m].pc /\ h'[m].on = h[m].on
              /\ h'[m].pc = "return" /\ ~h'[m].failed => Over
              /\ h'[m].failed => h'[m].done # "no"
              /\ h'[m].clear \in {"now", "after"} => Over
    PROVE  IntakeInv'
<1>1. OnePerInstance'
  BY DEF IntakeInv, OnePerInstance, Submitting, AtWork
<1>2. NoRival'
  BY DEF IntakeInv, NoRival, Submitting, AtWork
<1>3. Over' <=> Over
  BY DEF Over, Handled, Swallowed
<1>4. AckedIsKept'
  BY <1>3 DEF IntakeInv, OwesNothing, Over, AckedIsKept
<1>5. "stop" \in ends' => halt'
  BY DEF IntakeInv, OwesNothing
<1>6. OwesNothing'
  BY <1>3, <1>4, <1>5 DEF OwesNothing
<1> QED BY <1>1, <1>2, <1>6 DEF IntakeInv

\* The same for a step of one handler.
LEMMA QuietHandler ==
    ASSUME IntakeInv, IntakeTypeOK', UNCHANGED <<halt, run, signal, ends, seen, overlapped>>,
           acked' => acked \/ Over \/ Staged',
           Staged => Staged' \/ Over \/ dropped',
           dropped => dropped',
           NEW n \in Handlers, \A m \in Handlers \ {n} : h'[m] = h[m],
           h'[n].pc \in AtWork => h'[n].pc = h[n].pc /\ h'[n].on = h[n].on,
           h'[n].pc = "return" /\ ~h'[n].failed => Over,
           h'[n].failed => h'[n].done # "no",
           h'[n].clear \in {"now", "after"} => Over
    PROVE  IntakeInv'
<1>1. \A m \in Handlers :
         /\ h'[m].pc \in AtWork => h'[m].pc = h[m].pc /\ h'[m].on = h[m].on
         /\ h'[m].pc = "return" /\ ~h'[m].failed => Over
         /\ h'[m].failed => h'[m].done # "no"
         /\ h'[m].clear \in {"now", "after"} => Over
  BY DEF IntakeInv, OwesNothing
<1> QED BY <1>1, QuietStep

\* Slack delivers.
LEMMA DeliversStep ==
    ASSUME IntakeInv, NEW i \in Instances, Delivers(i)
    PROVE  IntakeInv'
<1>1. IntakeTypeOK
  BY DEF IntakeInv
<1>2. PICK n \in Handlers :
              /\ h[n] = Free /\ h'[n].pc = "start" /\ ~h'[n].failed
              /\ h'[n].clear = "no"
              /\ h' \in [Handlers -> Handler] /\ \A m \in Handlers : PlaceOK(h'[m])
              /\ \A m \in Handlers \ {n} : h'[m] = h[m]
  BY <1>1, HandlerBegins DEF Delivers
<1>3. IntakeTypeOK'
  BY <1>1, <1>2 DEF IntakeTypeOK, Delivers
<1> QED BY <1>2, <1>3, QuietHandler DEF Delivers, AtWork, Staged

\* The cap fires; a write is late.
LEMMA CapStep ==
    ASSUME IntakeInv, NEW n \in Handlers, CapFires(n) \/ StagingIsLate(n)
    PROVE  IntakeInv'
<1>1. IntakeTypeOK /\ h[n] \in Handler
  BY DEF IntakeInv, IntakeTypeOK
<1>2. h[n].kind # "free" /\ h[n].on \in Instances
  BY <1>1, TakenPlace DEF CapFires, StagingIsLate, IntakeTypeOK, PlaceOK
<1>3. PICK x : /\ h' = [h EXCEPT ![n] = x]
               /\ x \in Handler /\ x.kind = h[n].kind /\ x.on = h[n].on /\ x.pc = h[n].pc
               /\ x.failed = h[n].failed /\ x.done \in {h[n].done, "withheld"}
               /\ x.clear = h[n].clear
  <2>1. CASE CapFires(n)
    <3> DEFINE y == [h[n] EXCEPT !.staged = TRUE, !.write = "flight"]
    <3>1. h' = [h EXCEPT ![n] = y]
      BY <1>1, <2>1 DEF CapFires, IntakeTypeOK
    <3>2. /\ y \in Handler /\ y.kind = h[n].kind /\ y.on = h[n].on /\ y.pc = h[n].pc
          /\ y.failed = h[n].failed /\ y.done = h[n].done /\ y.clear = h[n].clear
      BY <1>1 DEF Handler
    <3> QED BY <3>1, <3>2
  <2>2. CASE StagingIsLate(n)
    <3> DEFINE y == [h[n] EXCEPT !.done = "withheld"]
    <3>1. h' = [h EXCEPT ![n] = y]
      BY <2>2 DEF StagingIsLate
    <3>2. /\ y \in Handler /\ y.kind = h[n].kind /\ y.on = h[n].on /\ y.pc = h[n].pc
          /\ y.failed = h[n].failed /\ y.done = "withheld" /\ y.clear = h[n].clear
      BY <1>1 DEF Handler
    <3> QED BY <3>1, <3>2
  <2> QED BY <2>1, <2>2
<1>4. PlaceOK(x)
  BY <1>2, <1>3 DEF PlaceOK
<1>5. /\ h' \in [Handlers -> Handler] /\ \A m \in Handlers : PlaceOK(h'[m])
      /\ h'[n] = x /\ \A m \in Handlers \ {n} : h'[m] = h[m]
  BY <1>1, <1>3, <1>4, HandlerMoves
<1>6. IntakeTypeOK'
  BY <1>1, <1>5 DEF IntakeTypeOK, CapFires, StagingIsLate
<1>7. UNCHANGED <<halt, row, run, signal, ends, acked, seen, overlapped, dropped>>
  BY DEF CapFires, StagingIsLate
<1> QED BY <1>3, <1>5, <1>6, <1>7, QuietHandler DEF IntakeInv, OwesNothing, Staged

\* The write of the row lands, or fails.
LEMMA WriteStep ==
    ASSUME IntakeInv, NEW n \in Handlers, WriteLands(n) \/ WriteFails(n)
    PROVE  IntakeInv'
<1>1. IntakeTypeOK /\ h[n] \in Handler /\ h[n].kind # "free" /\ h[n].on \in Instances
  BY TakenPlace DEF IntakeInv, WriteLands, WriteFails
<1>2. PICK x : /\ Put(n, x)
               /\ x \in Handler /\ x.kind = h[n].kind /\ x.on = h[n].on /\ x.pc = h[n].pc
               /\ x.failed = h[n].failed /\ x.clear = h[n].clear
               /\ h[n].done # "no" => x.done = h[n].done
  <2>1. CASE WriteLands(n)
    <3> DEFINE y == [h[n] EXCEPT !.write = "over", !.done = IF @ = "no" THEN "acked" ELSE @]
    <3>1. Put(n, y)
      BY <2>1 DEF WriteLands
    <3>2. /\ y \in Handler /\ y.kind = h[n].kind /\ y.on = h[n].on /\ y.pc = h[n].pc
          /\ y.failed = h[n].failed /\ y.clear = h[n].clear
          /\ h[n].done # "no" => y.done = h[n].done
      BY <1>1 DEF Handler
    <3> HIDE DEF y
    <3> QED BY <3>1, <3>2
  <2>2. CASE WriteFails(n)
    <3> DEFINE y == [h[n] EXCEPT !.write = "over", !.done = IF @ = "no" THEN "withheld" ELSE @]
    <3>1. Put(n, y)
      BY <2>2 DEF WriteFails
    <3>2. /\ y \in Handler /\ y.kind = h[n].kind /\ y.on = h[n].on /\ y.pc = h[n].pc
          /\ y.failed = h[n].failed /\ y.clear = h[n].clear
          /\ h[n].done # "no" => y.done = h[n].done
      BY <1>1 DEF Handler
    <3> HIDE DEF y
    <3> QED BY <3>1, <3>2
  <2> QED BY <2>1, <2>2
<1>3. PlaceOK(x)
  BY <1>1, <1>2 DEF PlaceOK
<1>4. /\ h' \in [Handlers -> Handler] /\ \A m \in Handlers : PlaceOK(h'[m])
      /\ h'[n] = x \/ h'[n] = Free
      /\ \A m \in Handlers \ {n} : h'[m] = h[m]
  BY <1>1, <1>2, <1>3, PutMoves
<1>5. NewRow \in [age : {"none", "fresh", "stale", "dead"}, attempts : Nat, claimed : BOOLEAN]
      /\ NewRow.age = "fresh" /\ NewRow # NoRow
  BY DEF NewRow, NoRow
<1>6. row' = row \/ (row' = NewRow /\ ~Staged)
  BY DEF WriteLands, WriteFails
<1>7. IntakeTypeOK'
  BY <1>1, <1>4, <1>5, <1>6 DEF IntakeTypeOK, WriteLands, WriteFails
<1>8. UNCHANGED <<halt, run, signal, ends, seen, overlapped, dropped>>
  BY DEF WriteLands, WriteFails
<1>9. acked' => acked \/ Staged'
  BY <1>5 DEF WriteLands, WriteFails, Staged
<1>10. Staged => Staged'
  BY <1>6 DEF Staged
<1>11. /\ h'[n].pc \in AtWork => h'[n].pc = h[n].pc /\ h'[n].on = h[n].on
       /\ h'[n].pc = "return" /\ ~h'[n].failed => Over
       /\ h'[n].failed => h'[n].done # "no"
       /\ h'[n].clear \in {"now", "after"} => Over
  BY <1>2, <1>4, FreePlace DEF IntakeInv, OwesNothing, AtWork
<1> QED BY <1>4, <1>7, <1>8, <1>9, <1>10, <1>11, QuietHandler

\* A delivery or a replay is refused, or comes to work.
LEMMA dispatchStep ==
    ASSUME IntakeInv, NEW n \in Handlers, dispatch(n)
    PROVE  IntakeInv'
<1>1. IntakeTypeOK /\ h[n] \in Handler /\ h[n].kind # "free" /\ h[n].on \in Instances
  BY TakenPlace DEF IntakeInv, dispatch
<1>2. CASE seen[h[n].on]
  <2> DEFINE x == [failed(n) EXCEPT !.pc = "return"]
  <2>1. /\ x \in Handler /\ x.kind = h[n].kind /\ x.on = h[n].on /\ x.pc = "return"
        /\ x.failed /\ x.done # "no" /\ x.clear = h[n].clear
    BY <1>1, failedIs
  <2>2. h' = [h EXCEPT ![n] = x] /\ UNCHANGED <<seen, overlapped>>
    BY <1>2 DEF dispatch
  <2>3. PlaceOK(x)
    BY <1>1, <2>1 DEF PlaceOK
  <2> HIDE DEF x
  <2>4. /\ h' \in [Handlers -> Handler] /\ \A m \in Handlers : PlaceOK(h'[m])
        /\ h'[n] = x /\ \A m \in Handlers \ {n} : h'[m] = h[m]
    BY <1>1, <2>2, <2>3, HandlerMoves
  <2>5. IntakeTypeOK'
    BY <1>1, <2>2, <2>4 DEF IntakeTypeOK, dispatch
  <2>6. UNCHANGED <<halt, row, run, signal, ends, acked, dropped>>
    BY DEF dispatch
  <2> QED BY <2>1, <2>2, <2>4, <2>5, <2>6, QuietHandler
          DEF IntakeInv, OwesNothing, AtWork, Staged
<1>3. CASE ~seen[h[n].on]
  <2>1. /\ h' = [h EXCEPT ![n].pc = "look"] /\ h[n].pc = "start"
        /\ seen' = [seen EXCEPT ![h[n].on] = TRUE]
        /\ overlapped' = (overlapped \/ Submitting # {})
        /\ UNCHANGED <<halt, row, run, signal, ends, acked, dropped, sweep>>
    BY <1>3 DEF dispatch
  <2>2. /\ h' \in [Handlers -> Handler] /\ \A m \in Handlers : PlaceOK(h'[m])
        /\ h'[n].pc = "look" /\ h'[n].failed = h[n].failed /\ h'[n].on = h[n].on
        /\ h'[n].done = h[n].done /\ h'[n].clear = h[n].clear
        /\ \A m \in Handlers \ {n} : h'[m] = h[m]
    BY <1>1, <2>1, PcMoves
  <2>3. IntakeTypeOK'
    BY <1>1, <2>1, <2>2 DEF IntakeTypeOK
  <2>4. Submitting' = Submitting \cup {n} /\ n \notin Submitting
    BY <2>1, <2>2 DEF Submitting
  <2>5. OnePerInstance'
    <3>1. \A m \in Submitting : h[m].on # h[n].on /\ m # n /\ m \in Handlers
      BY <1>3, <2>1 DEF IntakeInv, OnePerInstance, Submitting
    <3>2. \A m \in Submitting' : seen'[h'[m].on]
      BY <1>1, <2>1, <2>2, <2>4, <3>1 DEF IntakeInv, OnePerInstance, IntakeTypeOK
    <3>3. ASSUME NEW m \in Submitting', NEW k \in Submitting', h'[m].on = h'[k].on
          PROVE  m = k
      BY <2>2, <2>4, <3>1, <3>3 DEF IntakeInv, OnePerInstance
    <3> QED BY <3>2, <3>3 DEF OnePerInstance
  <2>6. NoRival'
    <3> SUFFICES ASSUME ~overlapped' PROVE NoRival'
      BY DEF NoRival
    <3>1. ~overlapped /\ Submitting' = {n}
      BY <2>1, <2>4
    <3> QED BY <2>1, <2>2, <3>1 DEF IntakeInv, NoRival
  <2>7. Over' <=> Over
    BY <2>1 DEF Over, Handled, Swallowed
  <2>8. OwesNothing'
    BY <2>1, <2>2, <2>7 DEF IntakeInv, OwesNothing, Over, AckedIsKept, Staged
  <2> QED BY <2>3, <2>5, <2>6, <2>8 DEF IntakeInv
<1> QED BY <1>2, <1>3
\* A handler at work routes the message.
LEMMA RoutesStep ==
    ASSUME IntakeInv, NEW n \in Handlers, Routes(n)
    PROVE  IntakeInv'
<1>1. PICK where \in {"send", "enqueue", "return"} :
         /\ h' = [h EXCEPT ![n].pc = where]
         /\ where = "return" => run \/ signal
         /\ where # "return" => ~run /\ ~signal
  BY DEF Routes
<1>2. /\ h[n].pc = "look" /\ IntakeTypeOK
      /\ UNCHANGED <<halt, row, run, signal, ends, acked, seen, sweep, overlapped, dropped>>
  BY DEF Routes, IntakeInv
<1>3. /\ h' \in [Handlers -> Handler] /\ \A m \in Handlers : PlaceOK(h'[m])
      /\ h'[n].pc = where /\ h'[n].failed = h[n].failed /\ h'[n].on = h[n].on
      /\ h'[n].done = h[n].done /\ h'[n].clear = h[n].clear
      /\ \A m \in Handlers \ {n} : h'[m] = h[m]
  BY <1>1, <1>2, PcMoves
<1>4. IntakeTypeOK'
  BY <1>2, <1>3 DEF IntakeTypeOK
<1>5. Submitting' \subseteq Submitting /\ \A m \in Submitting' : h'[m].on = h[m].on
  BY <1>2, <1>3 DEF Submitting
<1>6. OnePerInstance'
  BY <1>2, <1>5 DEF IntakeInv, OnePerInstance
<1>7. NoRival'
  BY <1>1, <1>2, <1>3, <1>5 DEF IntakeInv, NoRival
<1>8. Over' <=> Over
  BY <1>2 DEF Over, Handled, Swallowed
<1>9. h'[n].pc = "return" => Over
  BY <1>1, <1>3 DEF Over, Handled, Swallowed
<1>10. OwesNothing'
  BY <1>2, <1>3, <1>8, <1>9 DEF IntakeInv, OwesNothing, Over, AckedIsKept, Staged
<1> QED BY <1>4, <1>6, <1>7, <1>10 DEF IntakeInv

\* A handler at work returns, whatever of its submission has landed.
LEMMA WorkOver ==
    ASSUME IntakeInv, IntakeTypeOK', NEW n \in Submitting, h'[n].pc = "return",
           \A m \in Handlers \ {n} : h'[m] = h[m],
           UNCHANGED <<halt, overlapped, row, dropped>>,
           "stop" \in ends' => "stop" \in ends \/ halt,
           run => run', signal => signal', ends \subseteq ends',
           run' => run \/ h[n].pc = "enqueue", signal' => signal \/ h[n].pc = "send",
           \A i \in Instances \ {h[n].on} : seen'[i] = seen[i],
           acked' => acked \/ Over',
           ~h'[n].failed => Over', h'[n].failed => h'[n].done # "no",
           h'[n].clear \in {"now", "after"} => Over'
    PROVE  IntakeInv'
<1>1. /\ n \in Handlers /\ Submitting' = Submitting \ {n}
      /\ \A m \in Submitting' : h'[m] = h[m] /\ m \in Handlers
  BY DEF Submitting
<1>2. \A m \in Submitting' : h[m].on \in Instances \ {h[n].on}
  <2>1. \A m \in Submitting : h[m].pc # "over" /\ m \in Handlers
    BY DEF Submitting
  <2> QED BY <1>1, <2>1, TakenPlace DEF IntakeInv, OnePerInstance
<1>3. OnePerInstance'
  BY <1>1, <1>2 DEF IntakeInv, OnePerInstance
<1>4. NoRival'
  <2> SUFFICES ASSUME ~overlapped' PROVE NoRival'
    BY DEF NoRival
  <2>1. Submitting' = {} /\ ~overlapped
    BY <1>1 DEF IntakeInv, NoRival
  <2>2. ~(run' /\ signal')
    BY <1>1, <2>1 DEF IntakeInv, NoRival
  <2>3. \A m \in Handlers : h'[m].pc \notin AtWork
    BY <2>1 DEF Submitting, AtWork
  <2> QED BY <2>1, <2>2, <2>3 DEF NoRival, AtWork
<1>5. Over => Over'
  BY DEF Over, Handled, Swallowed
<1>6. AckedIsKept'
  BY <1>5 DEF IntakeInv, OwesNothing, Over, AckedIsKept, Staged
<1>7. OwesNothing'
  BY <1>1, <1>5, <1>6 DEF IntakeInv, OwesNothing
<1> QED BY <1>3, <1>4, <1>7 DEF IntakeInv

\* The message becomes a signal or a run.
LEMMA SubmitsStep ==
    ASSUME IntakeInv, NEW n \in Handlers, Submits(n)
    PROVE  IntakeInv'
<1>1. IntakeTypeOK /\ h[n] \in Handler /\ h[n].kind # "free" /\ h[n].on \in Instances
  BY TakenPlace DEF IntakeInv, Submits
<1> DEFINE new == IF h[n].pc = "enqueue" /\ run THEN h[n] ELSE persisted(n)
           x == [new EXCEPT !.pc = "return"]
<1>2. /\ new \in Handler /\ new.kind = h[n].kind /\ new.on = h[n].on
      /\ new.failed = h[n].failed
      /\ new.done = h[n].done \/ new.done = (IF h[n].done = "no" THEN "acked" ELSE h[n].done)
  BY <1>1, persistedIs
<1>3. h' = [h EXCEPT ![n] = x] /\ Acks(n, new)
  BY DEF Submits
<1> HIDE DEF new
<1>4. /\ x \in Handler /\ x.kind = h[n].kind /\ x.on = h[n].on /\ x.pc = "return"
      /\ x.failed = h[n].failed /\ x.done = new.done
  BY <1>2 DEF Handler
<1>5. PlaceOK(x)
  BY <1>1, <1>4 DEF PlaceOK
<1> HIDE DEF x
<1>6. /\ h' \in [Handlers -> Handler] /\ \A m \in Handlers : PlaceOK(h'[m])
      /\ h'[n] = x /\ \A m \in Handlers \ {n} : h'[m] = h[m]
  BY <1>1, <1>3, <1>5, HandlerMoves
<1>7. /\ UNCHANGED <<halt, row, seen, overlapped, dropped, sweep>> /\ n \in Submitting
      /\ Over'
  BY DEF Submits, Submitting, Over, Handled, Swallowed
<1>8. /\ run => run'
      /\ signal => signal'
      /\ run' => run \/ h[n].pc = "enqueue"
      /\ signal' => signal \/ h[n].pc = "send"
      /\ ends \subseteq ends'
      /\ "stop" \in ends' => "stop" \in ends \/ halt
  BY DEF Submits
<1>9. IntakeTypeOK'
  BY <1>1, <1>6, <1>7 DEF IntakeTypeOK
<1>10. x.failed => x.done # "no"
  BY <1>2, <1>4 DEF IntakeInv, OwesNothing
<1>11. /\ acked' => acked \/ Over'
       /\ h'[n].pc = "return" /\ (h'[n].failed => h'[n].done # "no")
  BY <1>4, <1>6, <1>7, <1>10
<1> QED BY <1>6, <1>7, <1>8, <1>9, <1>11, WorkOver

\* A call whose answer is lost may have landed, and undoes nothing.
LEMMA LandedMay ==
    ASSUME NEW n, NEW more \in SUBSET {"told", "untold"}, MayHaveLanded(n, more)
    PROVE  /\ ends \subseteq ends' /\ more \subseteq ends'
           /\ "stop" \in ends' => "stop" \in ends \/ halt
           /\ run => run'
           /\ signal => signal'
           /\ run' => run \/ h[n].pc = "enqueue"
           /\ signal' => signal \/ h[n].pc = "send"
BY DEF MayHaveLanded

\* A handler fails before it could tell that the message was taken in.
LEMMA HandlerFailsStep ==
    ASSUME IntakeInv, NEW n \in Handlers, HandlerFails(n)
    PROVE  IntakeInv'
<1>1. n \in Submitting /\ h[n].pc # "over"
  BY DEF HandlerFails, Submitting
<1>2. IntakeTypeOK /\ h[n] \in Handler /\ h[n].kind # "free" /\ h[n].on \in Instances
  BY <1>1, TakenPlace DEF IntakeInv
<1> DEFINE x == [failed(n) EXCEPT !.pc = "return"]
<1>3. /\ x \in Handler /\ x.kind = h[n].kind /\ x.on = h[n].on /\ x.pc = "return"
      /\ x.failed /\ x.done # "no" /\ x.clear = h[n].clear
  BY <1>2, failedIs
<1>4. PlaceOK(x)
  BY <1>2, <1>3 DEF PlaceOK
<1>5. h' = [h EXCEPT ![n] = x]
  BY DEF HandlerFails
<1> HIDE DEF x
<1>6. /\ h' \in [Handlers -> Handler] /\ \A m \in Handlers : PlaceOK(h'[m])
      /\ h'[n] = x /\ \A m \in Handlers \ {n} : h'[m] = h[m]
  BY <1>2, <1>4, <1>5, HandlerMoves
<1>7. /\ UNCHANGED <<halt, row, acked, overlapped, dropped, sweep>>
      /\ seen' = [seen EXCEPT ![h[n].on] = FALSE] /\ MayHaveLanded(n, {})
  BY DEF HandlerFails
<1>8. IntakeTypeOK'
  BY <1>2, <1>6, <1>7 DEF IntakeTypeOK
<1>9. /\ run => run'
      /\ signal => signal'
      /\ run' => run \/ h[n].pc = "enqueue"
      /\ signal' => signal \/ h[n].pc = "send"
      /\ ends \subseteq ends'
      /\ "stop" \in ends' => "stop" \in ends \/ halt
  BY <1>7, LandedMay
<1>10. Over => Over'
  BY <1>9 DEF Over, Handled, Swallowed
<1>11. h'[n].clear \in {"now", "after"} => Over'
  BY <1>3, <1>6, <1>10 DEF IntakeInv, OwesNothing
<1>12. \A i \in Instances \ {h[n].on} : seen'[i] = seen[i]
  BY <1>2, <1>7 DEF IntakeTypeOK
<1>13. h'[n].pc = "return" /\ h'[n].failed /\ h'[n].done # "no" /\ (acked' => acked)
  BY <1>3, <1>6, <1>7
<1> QED BY <1>1, <1>6, <1>7, <1>8, <1>9, <1>11, <1>12, <1>13, WorkOver

\* A refusal or a failure ends the message, and its author is told or is not.
LEMMA SettlesStep ==
    ASSUME IntakeInv, NEW n \in Handlers, Settles(n) \/ maybeInterceptStop(n)
    PROVE  IntakeInv'
<1>1. n \in Submitting /\ h[n].pc # "over" /\ IntakeTypeOK
  BY DEF Settles, maybeInterceptStop, Submitting, IntakeInv
<1>2. /\ h' = [h EXCEPT ![n].pc = "return"]
      /\ UNCHANGED <<halt, row, acked, seen, overlapped, dropped, sweep>>
  BY DEF Settles, maybeInterceptStop
<1>3. /\ h' \in [Handlers -> Handler] /\ \A m \in Handlers : PlaceOK(h'[m])
      /\ h'[n].pc = "return" /\ h'[n].failed = h[n].failed /\ h'[n].on = h[n].on
      /\ h'[n].done = h[n].done /\ h'[n].clear = h[n].clear
      /\ \A m \in Handlers \ {n} : h'[m] = h[m]
  BY <1>1, <1>2, PcMoves
<1>4. IntakeTypeOK'
  BY <1>1, <1>2, <1>3 DEF IntakeTypeOK
<1>5. h'[n].failed => h'[n].done # "no"
  BY <1>3 DEF IntakeInv, OwesNothing
<1>6. /\ run => run'
      /\ signal => signal'
      /\ run' => run \/ h[n].pc = "enqueue"
      /\ signal' => signal \/ h[n].pc = "send"
      /\ ends \subseteq ends'
      /\ "stop" \in ends' => "stop" \in ends \/ halt
      /\ ends' \cap {"stop", "told", "untold"} # {}
  <2>1. CASE Settles(n)
    <3>1. CASE UNCHANGED <<run, signal, faults>> /\ ends' = ends \cup {"told"}
      BY <3>1
    <3>2. CASE \E note \in {"told", "untold"} : MayHaveLanded(n, {note})
      <4>1. PICK note \in {"told", "untold"} : MayHaveLanded(n, {note})
        BY <3>2
      <4>2. {note} \in SUBSET {"told", "untold"}
        OBVIOUS
      <4> QED BY <4>1, <4>2, LandedMay
    <3> QED BY <2>1, <3>1, <3>2 DEF Settles
  <2>2. CASE maybeInterceptStop(n)
    BY <2>2 DEF maybeInterceptStop
  <2> QED BY <2>1, <2>2
<1>7. Over'
  BY <1>6 DEF Over, Handled, Swallowed
<1>8. \A i \in Instances \ {h[n].on} : seen'[i] = seen[i]
  BY <1>2
<1> QED BY <1>1, <1>2, <1>3, <1>4, <1>5, <1>6, <1>7, <1>8, WorkOver

\* processEvent() returns.
LEMMA ReturnsStep ==
    ASSUME IntakeInv, NEW n \in Handlers, Returns(n)
    PROVE  IntakeInv'
<1>1. IntakeTypeOK /\ h[n] \in Handler /\ h[n].kind # "free" /\ h[n].on \in Instances
  BY TakenPlace DEF IntakeInv, Returns
<1> DEFINE x == [persisted(n) EXCEPT !.pc = "over"]
<1>2. /\ persisted(n) \in Handler
      /\ persisted(n).kind = h[n].kind /\ persisted(n).on = h[n].on
      /\ persisted(n).failed = h[n].failed
      /\ persisted(n).done = (IF h[n].done = "no" THEN "acked" ELSE h[n].done)
      /\ persisted(n).clear = h[n].clear \/ ~h[n].failed
  BY <1>1, persistedIs
<1>3. /\ x \in Handler /\ x.kind = h[n].kind /\ x.on = h[n].on /\ x.pc = "over"
      /\ x.failed = h[n].failed /\ x.done = persisted(n).done /\ x.clear = persisted(n).clear
  BY <1>2 DEF Handler
<1>4. Put(n, x) /\ Acks(n, persisted(n))
      /\ UNCHANGED <<halt, row, run, signal, ends, seen, sweep, overlapped, dropped>>
  BY DEF Returns
<1>5. PlaceOK(x)
  BY <1>1, <1>3 DEF PlaceOK
<1> HIDE DEF x
<1>6. /\ h' \in [Handlers -> Handler] /\ \A m \in Handlers : PlaceOK(h'[m])
      /\ h'[n] = x \/ h'[n] = Free
      /\ \A m \in Handlers \ {n} : h'[m] = h[m]
  BY <1>1, <1>4, <1>5, PutMoves
<1>7. IntakeTypeOK'
  BY <1>1, <1>4, <1>6 DEF IntakeTypeOK
<1>8. ~h[n].failed => Over
  BY DEF Returns, IntakeInv, OwesNothing
<1>9. acked' => acked \/ Over
  BY <1>4, <1>8 DEF Acks, IntakeInv, OwesNothing
<1>10. /\ h'[n].pc = "over"
       /\ h'[n].failed => h'[n].done # "no"
       /\ h'[n].clear \in {"now", "after"} => Over
  BY <1>2, <1>3, <1>6, <1>8, FreePlace DEF IntakeInv, OwesNothing
<1> QED BY <1>4, <1>6, <1>7, <1>9, <1>10, QuietHandler DEF AtWork, Staged

\* The row is cleared.
LEMMA ClearsStep ==
    ASSUME IntakeInv, NEW n \in Handlers, Clears(n)
    PROVE  IntakeInv'
<1>1. IntakeTypeOK /\ h[n] \in Handler /\ h[n].kind # "free" /\ h[n].on \in Instances
  BY TakenPlace DEF IntakeInv, Clears
<1> DEFINE x == [h[n] EXCEPT !.clear = "over"]
<1>2. /\ x \in Handler /\ x.kind = h[n].kind /\ x.on = h[n].on /\ x.pc = h[n].pc
      /\ x.failed = h[n].failed /\ x.done = h[n].done /\ x.clear = "over"
  BY <1>1 DEF Handler
<1>3. Put(n, x) /\ UNCHANGED <<halt, run, signal, ends, acked, seen, sweep, overlapped, dropped>>
  BY DEF Clears
<1>4. PlaceOK(x)
  BY <1>1, <1>2 DEF PlaceOK
<1> HIDE DEF x
<1>5. /\ h' \in [Handlers -> Handler] /\ \A m \in Handlers : PlaceOK(h'[m])
      /\ h'[n] = x \/ h'[n] = Free
      /\ \A m \in Handlers \ {n} : h'[m] = h[m]
  BY <1>1, <1>3, <1>4, PutMoves
<1>6. row' \in {row, NoRow} /\ Over
  BY DEF Clears, IntakeInv, OwesNothing
<1>7. NoRow \in [age : {"none", "fresh", "stale", "dead"}, attempts : Nat, claimed : BOOLEAN]
  BY DEF NoRow
<1>8. IntakeTypeOK'
  BY <1>1, <1>3, <1>5, <1>6, <1>7 DEF IntakeTypeOK
<1>9. /\ h'[n].pc \in AtWork => h'[n].pc = h[n].pc /\ h'[n].on = h[n].on
      /\ h'[n].pc = "return" /\ ~h'[n].failed => Over
      /\ h'[n].failed => h'[n].done # "no"
      /\ h'[n].clear \in {"now", "after"} => Over
  BY <1>2, <1>5, <1>6, FreePlace DEF IntakeInv, OwesNothing, AtWork
<1> QED BY <1>3, <1>5, <1>6, <1>8, <1>9, QuietHandler

\* The sweeper reads, and the row ages.
LEMMA RowStep ==
    ASSUME IntakeInv, (\E i \in Instances : SweepReads(i)) \/ GetsStale \/ GetsOld \/ ClaimLapses
    PROVE  IntakeInv'
<1>1. IntakeTypeOK
  BY DEF IntakeInv
<1>2. NoRow \in [age : {"none", "fresh", "stale", "dead"}, attempts : Nat, claimed : BOOLEAN]
      /\ NoRow.age = "none" /\ ~NoRow.claimed
  BY DEF NoRow
<1>3. /\ row' \in [age : {"none", "fresh", "stale", "dead"}, attempts : Nat, claimed : BOOLEAN]
      /\ row'.age = "none" => row' = NoRow
      /\ Staged => Staged' \/ dropped'
      /\ dropped => dropped'
      /\ UNCHANGED <<halt, run, signal, ends, acked, h, seen, overlapped>>
  <2>1. CASE \E i \in Instances : SweepReads(i)
    BY <1>1, <1>2, <2>1 DEF SweepReads, IntakeTypeOK, Staged
  <2>2. CASE GetsStale
    BY <1>1, <1>2, <2>2 DEF GetsStale, IntakeTypeOK, Staged
  <2>3. CASE GetsOld
    BY <1>1, <1>2, <2>3 DEF GetsOld, IntakeTypeOK, Staged
  <2>4. CASE ClaimLapses
    BY <1>1, <1>2, <2>4 DEF ClaimLapses, IntakeTypeOK, Staged
  <2> QED BY <2>1, <2>2, <2>3, <2>4
<1>4. sweep' \in [Instances -> [pc : {"idle", "claim"}, attempts : Nat]]
  BY <1>1 DEF SweepReads, GetsStale, GetsOld, ClaimLapses, IntakeTypeOK
<1>5. IntakeTypeOK'
  BY <1>1, <1>3, <1>4 DEF IntakeTypeOK
<1> QED BY <1>3, <1>5, QuietStep DEF IntakeInv, OwesNothing

\* A sweeper claims the row and begins to replay it.
LEMMA SweepClaimsStep ==
    ASSUME IntakeInv, NEW i \in Instances, SweepClaims(i)
    PROVE  IntakeInv'
<1>1. IntakeTypeOK /\ UNCHANGED <<halt, run, signal, ends, acked, seen, overlapped, dropped>>
  BY DEF IntakeInv, SweepClaims
<1>2. sweep' \in [Instances -> [pc : {"idle", "claim"}, attempts : Nat]]
  BY <1>1 DEF SweepClaims, IntakeTypeOK
<1>3. CASE ClaimWon
  <2>1. PICK n \in Handlers :
              /\ h[n] = Free /\ h'[n].pc = "start" /\ ~h'[n].failed
              /\ h'[n].clear = "no"
              /\ h' \in [Handlers -> Handler] /\ \A m \in Handlers : PlaceOK(h'[m])
              /\ \A m \in Handlers \ {n} : h'[m] = h[m]
    BY <1>1, <1>3, HandlerBegins DEF SweepClaims
  <2>2. row' = [row EXCEPT !.claimed = TRUE, !.attempts = sweep[i].attempts + 1]
    BY <1>3 DEF SweepClaims
  <2>3. sweep[i].attempts + 1 \in Nat /\ ~NoRow.claimed /\ row.age # "none"
    BY <1>1, <1>3 DEF IntakeTypeOK, NoRow, ClaimWon, Staged
  <2>4. /\ row' \in [age : {"none", "fresh", "stale", "dead"}, attempts : Nat, claimed : BOOLEAN]
        /\ row'.age # "none" /\ row' # NoRow
    BY <1>1, <2>2, <2>3 DEF IntakeTypeOK
  <2>5. IntakeTypeOK'
    BY <1>1, <1>2, <2>1, <2>4 DEF IntakeTypeOK
  <2> QED BY <1>1, <2>1, <2>4, <2>5, QuietHandler DEF AtWork, Staged
<1>4. CASE ~ClaimWon
  <2>1. UNCHANGED <<row, h>>
    BY <1>4 DEF SweepClaims
  <2>2. IntakeTypeOK'
    BY <1>1, <1>2, <2>1 DEF IntakeTypeOK
  <2> QED BY <1>1, <2>1, <2>2, QuietStep DEF IntakeInv, OwesNothing, Staged
<1> QED BY <1>3, <1>4

\* A process dies.
LEMMA CrashesStep ==
    ASSUME IntakeInv, NEW i \in Instances, Crashes(i)
    PROVE  IntakeInv'
<1>1. /\ h' = [n \in Handlers |-> IF h[n].on = i THEN Free ELSE h[n]]
      /\ seen' = [seen EXCEPT ![i] = FALSE]
      /\ UNCHANGED <<halt, row, run, signal, ends, acked, overlapped, dropped>>
      /\ IntakeTypeOK
  BY DEF Crashes, IntakeInv
<1>2. \A n \in Handlers : h'[n] = Free \/ (h'[n] = h[n] /\ h[n].on # i)
  BY <1>1
<1>3. h' \in [Handlers -> Handler] /\ \A n \in Handlers : PlaceOK(h'[n])
  <2>1. \A n \in Handlers : PlaceOK(h'[n]) /\ h'[n] \in Handler
    BY <1>1, <1>2, FreePlace DEF IntakeTypeOK, PlaceOK
  <2> QED BY <1>1, <2>1
<1>4. IntakeTypeOK'
  <2>1. sweep' \in [Instances -> [pc : {"idle", "claim"}, attempts : Nat]]
    BY <1>1 DEF Crashes, IntakeTypeOK
  <2> QED BY <1>1, <1>3, <2>1 DEF IntakeTypeOK
<1>5. \A n \in Submitting' : n \in Submitting /\ h'[n] = h[n] /\ h[n].on # i /\ n \in Handlers
                             /\ h[n].pc # "over"
  BY <1>2, FreePlace DEF Submitting
<1>6. \A n \in Submitting' : h[n].on \in Instances
  BY <1>1, <1>5, TakenPlace
<1>7. OnePerInstance'
  BY <1>1, <1>5, <1>6 DEF IntakeInv, OnePerInstance, IntakeTypeOK
<1>8. NoRival'
  BY <1>1, <1>2, <1>5, FreePlace DEF IntakeInv, NoRival
<1>9. Over' <=> Over
  BY <1>1 DEF Over, Handled, Swallowed
<1>10. OwesNothing'
  BY <1>1, <1>2, <1>9, FreePlace DEF IntakeInv, OwesNothing, Over, AckedIsKept, Staged
<1> QED BY <1>4, <1>7, <1>8, <1>10 DEF IntakeInv

-----------------------------------------------------------------------------
(* Theorems                                                                *)

\* What the handlers of a message, its row and its acknowledgement owe each other
\* holds in every reachable state, with crashes and failures at every await.
THEOREM IntakeInvariant == Spec => []IntakeInv
<1>1. Init => IntakeInv
  <2> SUFFICES ASSUME Init PROVE IntakeInv
    OBVIOUS
  <2>1. NoRow \in [age : {"none", "fresh", "stale", "dead"}, attempts : Nat, claimed : BOOLEAN]
    BY DEF NoRow
  <2>2. Free \in Handler
    BY FreePlace DEF PlaceOK
  <2>3. IntakeTypeOK
    BY <2>1, <2>2, FreePlace DEF Init, IntakeTypeOK
  <2>4. Submitting = {} /\ \A n \in Handlers : h[n] = Free
    BY FreePlace DEF Init, Submitting
  <2>5. OnePerInstance /\ NoRival
    BY <2>4, FreePlace DEF Init, OnePerInstance, NoRival
  <2>6. OwesNothing
    BY <2>4, FreePlace DEF Init, OwesNothing, Over, AckedIsKept
  <2> QED BY <2>3, <2>5, <2>6 DEF IntakeInv
<1>2. IntakeInv /\ [Next]_vars => IntakeInv'
  <2> SUFFICES ASSUME IntakeInv, [Next]_vars PROVE IntakeInv'
    OBVIOUS
  <2>1. ASSUME NEW i \in Instances,
               Delivers(i) \/ SweepReads(i) \/ SweepClaims(i) \/ Crashes(i)
        PROVE  IntakeInv'
    BY <2>1, DeliversStep, RowStep, SweepClaimsStep, CrashesStep
  <2>2. ASSUME NEW n \in Handlers, CapFires(n) \/ StageStep(n) \/ HandlerStep(n) \/ Clears(n)
        PROVE  IntakeInv'
    BY <2>2, CapStep, WriteStep, dispatchStep, RoutesStep, SubmitsStep, SettlesStep,
       HandlerFailsStep, ReturnsStep, ClearsStep DEF StageStep, HandlerStep
  <2>3. CASE GetsStale \/ GetsOld \/ ClaimLapses
    BY <2>3, RowStep
  <2>4. CASE UNCHANGED vars
    BY <2>4 DEF vars, IntakeInv, IntakeTypeOK, OnePerInstance, NoRival, OwesNothing,
                AckedIsKept, Submitting, Over, Handled, Swallowed, Staged
  <2> QED BY <2>1, <2>2, <2>3, <2>4 DEF Next
<1> QED BY <1>1, <1>2, PTL DEF Spec

\* An instance has one handler of a message at work (the deduper in events.ts).
THEOREM OneHandlerPerInstanceHolds == Spec => []OneHandlerPerInstance
<1>1. IntakeInv => OneHandlerPerInstance
  BY DEF IntakeInv, OnePerInstance, OneHandlerPerInstance
<1> QED BY <1>1, IntakeInvariant, PTL

\* A message is not both a run and a signal unless two instances submitted it at the
\* same time (turn() in app-turn.ts); a bare stop, which leaves no key, is exempt.
THEOREM TakenOnceHolds == Spec => []TakenOnce
<1>1. IntakeInv => TakenOnce
  BY DEF IntakeInv, NoRival, OwesNothing, TakenOnce
<1> QED BY <1>1, IntakeInvariant, PTL

\* A message Slack will not deliver again is work, answered, swallowed with a failed
\* note or a failed stop, or staged, until the daily sweep drops it (deferred-ack.ts,
\* envelope-staging.ts, turn-handler.ts).
THEOREM AckedIsKeptHolds == Spec => []AckedIsKept
<1>1. IntakeInv => AckedIsKept
  BY DEF IntakeInv, OwesNothing
<1> QED BY <1>1, IntakeInvariant, PTL
=============================================================================
