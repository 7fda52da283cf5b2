-------------------------- MODULE SchedulerProofs --------------------------
(***************************************************************************)
(* Proofs about Scheduler, for every watchdog limit: no task is re-entered *)
(* and the C stack is bounded, whatever the tasks wait for and wherever    *)
(* the timer strikes.                                                      *)
(*                                                                         *)
(* Behind them those about Interrupts, for every size of the log and the   *)
(* counter: the clock is read right, and the log keeps what it was given.  *)
(***************************************************************************)
EXTENDS Scheduler, Interrupts, SequenceTheorems, TLAPS

Waiters == {main, tty, tud}

\* The inductive invariant of the stack s and the mask a.  What a frame is in
\* the middle of tells which task it is: only the waiters yield.
Shape(s, a) ==
  /\ s \in Seq(Frame) /\ Len(s) >= 1
  /\ s[1].task = main
  /\ a = {s[i].task : i \in 2..Len(s)}
  /\ \A i, j \in 1..Len(s) : i # j => s[i].task # s[j].task
  /\ \A i \in 1..Len(s) - 1 : s[i].task \in Waiters /\ s[i].at \in Tasks
  /\ \A i \in 1..Len(s) : s[i].at # 0 \/ s[i].need # "none" => s[i].task \in Waiters

StackInv == Shape(stack, active_tasks)

USE DEF main, tty, tud, Tasks

LEMMA FrameFields ==
  ASSUME NEW s \in Seq(Frame), NEW i \in 1..Len(s)
  PROVE  /\ s[i] \in Frame /\ s[i].task \in {main} \cup Tasks /\ s[i].at \in 0..7
         /\ s[i].need \in Conditions \cup {"none"} /\ s[i].waited \in BOOLEAN
<1>1. s[i] \in Frame
  BY ElementOfSeq
<1>. QED
  BY <1>1 DEF Frame

LEMMA NewFrameType == \A t \in {main} \cup Tasks : NewFrame(t) \in Frame
BY DEF Frame, NewFrame

----------------------------------------------------------------------------
(* What the actions do to a stack *)

\* The innermost frame changes what it is doing.
LEMMA TopStep ==
  ASSUME NEW s, NEW a, Shape(s, a), NEW f \in Frame,
         f.task = s[Len(s)].task,
         f.at # 0 \/ f.need # "none" => f.task \in Waiters
  PROVE  Shape([s EXCEPT ![Len(s)] = f], a)
<1>. DEFINE t == [s EXCEPT ![Len(s)] = f]
<1>0. s \in Seq(Frame) /\ Len(s) \in 1..Len(s)
  BY DEF Shape
<1>1. /\ t \in Seq(Frame) /\ Len(t) = Len(s)
      /\ \A i \in 1..Len(s) : t[i] = IF i = Len(s) THEN f ELSE s[i]
  BY <1>0, ExceptSeq
<1>. HIDE DEF t
<1>2. \A i \in 1..Len(s) : t[i].task = s[i].task
  BY <1>1
<1>3. {t[i].task : i \in 2..Len(t)} = {s[i].task : i \in 2..Len(s)}
  <2>1. \A i \in 2..Len(s) : t[i].task = s[i].task
    BY <1>0, <1>2
  <2>. QED
    BY <1>1, <2>1, Zenon
<1>4. \A i \in 1..Len(t) : t[i].at # 0 \/ t[i].need # "none" => t[i].task \in Waiters
  BY <1>1 DEF Shape
<1>5. t[1].task = main /\ \A i \in 1..Len(t) - 1 : t[i].task \in Waiters /\ t[i].at \in Tasks
  BY <1>0, <1>1, <1>2 DEF Shape
<1>6. \A i, j \in 1..Len(t) : i # j => t[i].task # t[j].task
  BY <1>1, <1>2 DEF Shape
<1>7. Shape(t, a)
  BY <1>0, <1>1, <1>3, <1>4, <1>5, <1>6 DEF Shape
<1>. QED
  BY <1>7 DEF t

\* A task is called that is not on the stack.
LEMMA CallStep ==
  ASSUME NEW s, NEW a, Shape(s, a), NEW t \in Tasks, t \notin a, s[Len(s)].at \in Tasks
  PROVE  Shape(Append(s, NewFrame(t)), a \cup {t})
<1>. DEFINE u == Append(s, NewFrame(t))
<1>0. s \in Seq(Frame) /\ Len(s) >= 1 /\ NewFrame(t) \in Frame
  BY NewFrameType DEF Shape
<1>1. /\ u \in Seq(Frame) /\ Len(u) = Len(s) + 1
      /\ \A i \in 1..Len(s) : u[i] = s[i]
      /\ u[Len(s) + 1] = NewFrame(t)
  BY <1>0, AppendProperties
<1>. HIDE DEF u
<1>2. NewFrame(t).task = t /\ NewFrame(t).at = 0 /\ NewFrame(t).need = "none"
  BY DEF NewFrame
<1>3. {u[i].task : i \in 2..Len(u)} = {s[i].task : i \in 2..Len(s)} \cup {t}
  <2>1. \A i \in 2..Len(s) : u[i].task = s[i].task
    BY <1>0, <1>1
  <2>2. u[Len(s) + 1].task = t
    BY <1>1, <1>2
  <2>3. 2..Len(u) = (2..Len(s)) \cup {Len(s) + 1}
    BY <1>0, <1>1
  <2>. QED
    BY <2>1, <2>2, <2>3, ZenonT(60)
<1>4. \A i \in 1..Len(s) : s[i].task # t
  <2>. SUFFICES ASSUME NEW i \in 1..Len(s) PROVE s[i].task # t
    OBVIOUS
  <2>1. CASE i = 1
    BY <2>1 DEF Shape
  <2>2. CASE i # 1
    <3>1. i \in 2..Len(s)
      BY <1>0, <2>2
    <3>. QED
      BY <3>1 DEF Shape
  <2>. QED
    BY <2>1, <2>2
<1>5. \A i, j \in 1..Len(u) : i # j => u[i].task # u[j].task
  BY <1>0, <1>1, <1>2, <1>4 DEF Shape
<1>6. \A i \in 1..Len(u) - 1 : u[i].task \in Waiters /\ u[i].at \in Tasks
  BY <1>0, <1>1 DEF Shape
<1>7. \A i \in 1..Len(u) : u[i].at # 0 \/ u[i].need # "none" => u[i].task \in Waiters
  BY <1>0, <1>1, <1>2 DEF Shape
<1>8. u[1].task = main /\ Len(u) >= 1
  BY <1>0, <1>1 DEF Shape
<1>9. Shape(u, a \cup {t})
  BY <1>1, <1>3, <1>5, <1>6, <1>7, <1>8 DEF Shape
<1>. QED
  BY <1>9 DEF u

\* The innermost task returns to the frame that called it, which is now f.
LEMMA ReturnStep ==
  ASSUME NEW s, NEW a, Shape(s, a), s[Len(s)].task # main, NEW f,
         f = [s[Len(s) - 1] EXCEPT !.at = @ + 1]
  PROVE  Shape(Append(SubSeq(s, 1, Len(s) - 2), f), a \ {s[Len(s)].task})
<1>. DEFINE b == SubSeq(s, 1, Len(s) - 2)
<1>. DEFINE t == Append(SubSeq(s, 1, Len(s) - 2), f)
<1>. DEFINE n == Len(s) - 1
<1>0. s \in Seq(Frame) /\ Len(s) \in Nat /\ n \in Nat /\ n >= 1 /\ n \in 1..Len(s) /\ Len(s) = n + 1
  <2>1. s \in Seq(Frame) /\ Len(s) \in Nat /\ Len(s) >= 1 /\ s[1].task = main
    BY DEF Shape
  <2>2. Len(s) # 1
    BY <2>1
  <2>. QED
    BY <2>1, <2>2
<1>1. s[n].task \in Waiters /\ s[n].at \in Tasks
  BY <1>0 DEF Shape
<1>2. s[n] \in Frame
  BY <1>0, ElementOfSeq
<1>3. f \in Frame /\ f.task = s[n].task /\ f.at # 0
  BY <1>1, <1>2 DEF Frame
<1>4. b \in Seq(Frame) /\ Len(b) = n - 1 /\ \A i \in 1..n - 1 : b[i] = s[i]
  <2>1. \A i \in 1..Len(s) - 2 : s[i] \in Frame
    BY <1>0, ElementOfSeq
  <2>2. 1 \in Int /\ Len(s) - 2 \in Int /\ Len(s) - 2 = n - 1
    BY <1>0
  <2>3. /\ b \in Seq(Frame)
        /\ Len(b) = IF 1 <= Len(s) - 2 THEN Len(s) - 2 - 1 + 1 ELSE 0
        /\ \A i \in 1..Len(s) - 2 - 1 + 1 : b[i] = s[1 + i - 1]
    BY <2>1, <2>2, SubSeqProperties
  <2>. QED
    BY <1>0, <2>3
<1>. HIDE DEF b
<1>5. t = Append(b, f)
  BY DEF b
<1>6. /\ t \in Seq(Frame) /\ Len(t) = n
      /\ \A i \in 1..n - 1 : t[i] = s[i]
      /\ t[n] = f
  <2>1. /\ Append(b, f) \in Seq(Frame) /\ Len(Append(b, f)) = Len(b) + 1
        /\ \A i \in 1..Len(b) : Append(b, f)[i] = b[i]
        /\ Append(b, f)[Len(b) + 1] = f
    BY <1>3, <1>4, AppendProperties
  <2>. HIDE DEF t, n
  <2>2. t \in Seq(Frame) /\ Len(t) = Len(b) + 1 /\ t[Len(b) + 1] = f
        /\ \A i \in 1..Len(b) : t[i] = b[i]
    BY <1>5, <2>1, Zenon
  <2>3. Len(b) + 1 = n /\ Len(b) = n - 1
    BY <1>0, <1>4
  <2>. QED
    BY <1>4, <2>2, <2>3, Zenon
<1>. HIDE DEF t
<1>7. \A i \in 1..n : t[i].task = s[i].task
  <2>. SUFFICES ASSUME NEW i \in 1..n PROVE t[i].task = s[i].task
    OBVIOUS
  <2>. HIDE DEF n
  <2>1. CASE i = n
    BY <1>3, <1>6, <2>1
  <2>2. CASE i # n
    <3>1. i \in 1..n - 1
      BY <1>0, <2>2
    <3>. QED
      BY <1>6, <3>1
  <2>. QED
    BY <2>1, <2>2
<1>8. {t[i].task : i \in 2..Len(t)} = a \ {s[Len(s)].task}
  <2>1. a = {s[i].task : i \in 2..Len(s)}
    BY DEF Shape
  <2>2. \A i \in 2..n : t[i].task = s[i].task /\ t[i].task # s[Len(s)].task
    BY <1>0, <1>7 DEF Shape
  <2>3. 2..Len(s) = (2..n) \cup {Len(s)}
    BY <1>0
  <2>4. Len(t) = n
    BY <1>6
  <2>. HIDE DEF n
  <2>. QED
    BY <2>1, <2>2, <2>3, <2>4, SMTT(40)
<1>9. \A i, j \in 1..Len(t) : i # j => t[i].task # t[j].task
  BY <1>0, <1>6, <1>7 DEF Shape
<1>10. \A i \in 1..Len(t) - 1 : t[i].task \in Waiters /\ t[i].at \in Tasks
  BY <1>0, <1>6 DEF Shape
<1>11. \A i \in 1..Len(t) : t[i].at # 0 \/ t[i].need # "none" => t[i].task \in Waiters
  <2>. SUFFICES ASSUME NEW i \in 1..n PROVE t[i].task \in Waiters
    BY <1>6
  <2>1. s[i].task \in Waiters
    BY <1>0 DEF Shape
  <2>. QED
    BY <1>7, <2>1
<1>12. t[1].task = main /\ Len(t) >= 1
  BY <1>0, <1>6, <1>7 DEF Shape
<1>13. Shape(t, a \ {s[Len(s)].task})
  BY <1>6, <1>8, <1>9, <1>10, <1>11, <1>12 DEF Shape
<1>. QED
  BY <1>13 DEF t

\* main starts, or starts again.
LEMMA LoneMain == Shape(<<NewFrame(main)>>, {})
<1>. DEFINE s == <<NewFrame(main)>>
<1>1. NewFrame(main) \in Frame /\ NewFrame(main).task = main
      /\ NewFrame(main).at = 0 /\ NewFrame(main).need = "none"
  BY DEF NewFrame, Frame
<1>2. s \in Seq(Frame) /\ Len(s) = 1 /\ s[1] = NewFrame(main)
  BY <1>1
<1>. HIDE DEF s
<1>3. Shape(s, {})
  BY <1>1, <1>2 DEF Shape, Waiters
<1>. QED
  BY <1>3 DEF s

----------------------------------------------------------------------------
(* The variables other than the stack and its mask *)

Scalars ==
  /\ watchdog_max \in {BootLimit, RunLimit}
  /\ watchdog_timer \in 0..watchdog_max
  /\ booting \in BOOLEAN /\ late \in BOOLEAN /\ hung \in BOOLEAN
  /\ ready \subseteq Conditions
  /\ stdoutDev \in {"usb", "led"}

LEMMA ScalarsStep == Scalars /\ [Next]_vars => Scalars'
<1>. SUFFICES ASSUME Scalars, [Next]_vars PROVE Scalars'
  OBVIOUS
<1>. USE SchedulerAssumption DEF Scalars
<1>1. CASE call
  BY <1>1 DEF call
<1>2. CASE pass_over
  BY <1>2 DEF pass_over
<1>3. CASE list_end
  BY <1>3 DEF list_end
<1>4. CASE enter_loop
  <2>1. watchdog_max' \in {BootLimit, RunLimit} /\ watchdog_timer' \in 0..watchdog_max'
    BY <1>4 DEF enter_loop
  <2>. QED
    BY <1>4, <2>1 DEF enter_loop
<1>5. CASE main_loop
  BY <1>5 DEF main_loop
<1>6. CASE yield
  BY <1>6 DEF yield
<1>7. CASE end_wait
  BY <1>7 DEF end_wait
<1>8. CASE finish
  BY <1>8 DEF finish
<1>9. ASSUME NEW w \in Conditions, begin_wait(w) PROVE Scalars'
  BY <1>9 DEF begin_wait
<1>10. CASE hang
  BY <1>10 DEF hang
<1>11. CASE tick
  <2>1. CASE Expired
    <3>1. reboot
      BY <1>11, <2>1 DEF tick
    <3>2. watchdog_max' \in {BootLimit, RunLimit} /\ watchdog_timer' \in 0..watchdog_max'
      BY <3>1 DEF reboot
    <3>. QED
      BY <3>1, <3>2 DEF reboot
  <2>2. CASE ~Expired
    <3>1. watchdog_timer' \in 0..watchdog_max'
      BY <1>11, <2>2 DEF tick, Expired, CountUp
    <3>2. ready' \subseteq Conditions
      BY <1>11, <2>2 DEF tick, Conditions
    <3>3. late' = TRUE /\ UNCHANGED <<watchdog_max, booting, stdoutDev, hung>>
      BY <1>11, <2>2 DEF tick
    <3>. QED
      BY <3>1, <3>2, <3>3
  <2>. QED
    BY <2>1, <2>2
<1>12. CASE UNCHANGED vars
  BY <1>12 DEF vars
<1>. QED
  BY <1>1, <1>2, <1>3, <1>4, <1>5, <1>6, <1>7, <1>8, <1>9, <1>10, <1>11, <1>12
     DEF Next, Schedule

LEMMA ScalarsAlways == Spec => []Scalars
<1>1. Init => Scalars
  <2>. SUFFICES ASSUME Init PROVE Scalars
    OBVIOUS
  <2>1. watchdog_timer \in 0..watchdog_max /\ watchdog_max = BootLimit
    BY SchedulerAssumption DEF Init
  <2>. QED
    BY <2>1 DEF Init, Scalars
<1>. QED
  BY <1>1, ScalarsStep, PTL DEF Spec

----------------------------------------------------------------------------
(* The stack and its mask *)

LEMMA TopFacts ==
  ASSUME StackInv
  PROVE  /\ stack \in Seq(Frame) /\ Top \in Frame
         /\ Top.task \in {main} \cup Tasks /\ Top.at \in 0..7
         /\ Top.need \in Conditions \cup {"none"} /\ Top.waited \in BOOLEAN
         /\ Top.at # 0 \/ Top.need # "none" => Top.task \in Waiters
<1>1. stack \in Seq(Frame) /\ Len(stack) \in 1..Len(stack)
  BY DEF StackInv, Shape
<1>2. Top \in Frame
  BY <1>1, ElementOfSeq DEF Top
<1>3. Top.at # 0 \/ Top.need # "none" => Top.task \in Waiters
  BY <1>1 DEF StackInv, Shape, Top
<1>. QED
  BY <1>1, <1>2, <1>3 DEF Frame

\* What SetTop makes of the stack, for the frames the actions put there.
LEMMA SetTopStep ==
  ASSUME StackInv, NEW f \in Frame, f.task = Top.task,
         f.at # 0 \/ f.need # "none" => f.task \in Waiters,
         SetTop(f), UNCHANGED active_tasks
  PROVE  StackInv'
<1>1. Shape([stack EXCEPT ![Len(stack)] = f], active_tasks)
  BY TopStep DEF StackInv, Top
<1>. QED
  BY <1>1 DEF SetTop, StackInv

LEMMA StackInit == Init => StackInv
BY LoneMain DEF Init, StackInv

LEMMA StackStep == StackInv /\ Scalars /\ [Next]_vars => StackInv'
<1>. SUFFICES ASSUME StackInv, ready \subseteq Conditions, [Next]_vars PROVE StackInv'
  BY DEF Scalars
<1>. USE TopFacts
<1>1. CASE call
  <2>1. Shape(Append(stack, NewFrame(Top.at)), active_tasks \cup {Top.at})
    BY <1>1, CallStep DEF call, StackInv, Top
  <2>. QED
    BY <1>1, <2>1 DEF call, StackInv
<1>2. CASE pass_over
  <2>1. [Top EXCEPT !.at = @ + 1] \in Frame /\ Top.task \in Waiters
    BY <1>2 DEF pass_over, Frame
  <2>. QED
    BY <1>2, <2>1, SetTopStep DEF pass_over, Frame
<1>3. CASE list_end
  <2>1. [Top EXCEPT !.at = 0] \in Frame /\ Top.task \in Waiters
    BY <1>3 DEF list_end, Frame
  <2>. QED
    BY <1>3, <2>1, SetTopStep DEF list_end, Frame
<1>4. CASE enter_loop
  BY <1>4 DEF enter_loop, StackInv
<1>5. CASE main_loop
  <2>1. [Top EXCEPT !.at = 1] \in Frame /\ Top.task \in Waiters
    BY <1>5 DEF main_loop, Frame, Waiters
  <2>. QED
    BY <1>5, <2>1, SetTopStep DEF main_loop, Frame
<1>6. CASE yield
  <2>1. [Top EXCEPT !.at = 1] \in Frame /\ Top.task \in Waiters
    BY <1>6 DEF yield, Frame
  <2>. QED
    BY <1>6, <2>1, SetTopStep DEF yield, Frame
<1>7. CASE end_wait
  <2>1. [Top EXCEPT !.need = "none"] \in Frame /\ Top.task \in Waiters
    BY <1>7 DEF end_wait, Frame, Waiters, Conditions
  <2>. QED
    BY <1>7, <2>1, SetTopStep DEF end_wait, Frame
<1>8. CASE finish
  <2>1. Shape(Append(SubSeq(stack, 1, Len(stack) - 2), Returned),
              active_tasks \ {Top.task})
    BY <1>8, ReturnStep DEF finish, StackInv, Top, Returned
  <2>. QED
    BY <1>8, <2>1 DEF finish, StackInv
<1>9. ASSUME NEW w \in Conditions, begin_wait(w) PROVE StackInv'
  <2>1. [Top EXCEPT !.need = w, !.waited = TRUE] \in Frame /\ Top.task \in Waiters
    BY <1>9 DEF begin_wait, Frame, Waiters, Waits
  <2>. QED
    BY <1>9, <2>1, SetTopStep DEF begin_wait, Frame
<1>10. CASE hang
  BY <1>10 DEF hang, StackInv
<1>11. CASE tick
  <2>1. CASE Expired
    BY <1>11, <2>1, LoneMain DEF tick, reboot, StackInv
  <2>2. CASE ~Expired
    BY <1>11, <2>2 DEF tick, StackInv
  <2>. QED
    BY <2>1, <2>2
<1>12. CASE UNCHANGED vars
  BY <1>12 DEF vars, StackInv
<1>. QED
  BY <1>1, <1>2, <1>3, <1>4, <1>5, <1>6, <1>7, <1>8, <1>9, <1>10, <1>11, <1>12
     DEF Next, Schedule

LEMMA StackAlways == Spec => []StackInv
BY StackInit, StackStep, ScalarsAlways, PTL DEF Spec

\* No task is entered while it is on the stack, and active_tasks says which are,
\* wherever the tasks wait and the watchdog strikes.
THEOREM NoReentry == Spec => []ActiveIsOnStack
<1>1. StackInv => ActiveIsOnStack
  BY DEF StackInv, Shape, ActiveIsOnStack, Called
<1>. QED
  BY <1>1, StackAlways, PTL

\* The C stack holds four frames at most: only three tasks can be suspended.
THEOREM StackBounded == Spec => []NestingIsBounded
<1>1. StackInv => NestingIsBounded
  <2>. SUFFICES ASSUME StackInv PROVE NestingIsBounded
    OBVIOUS
  <2>1. \A i \in 1..Len(stack) - 1 : stack[i].task \in {main, tty, tud}
    BY DEF StackInv, Shape, Waiters
  <2>2. Len(stack) \in Nat
    BY DEF StackInv, Shape
  <2>3. ASSUME Len(stack) > 4 PROVE FALSE
    <3>1. 1 \in 1..Len(stack) - 1 /\ 2 \in 1..Len(stack) - 1
          /\ 3 \in 1..Len(stack) - 1 /\ 4 \in 1..Len(stack) - 1
      BY <2>2, <2>3
    <3>2. \A i, j \in 1..Len(stack) - 1 : i # j => stack[i].task # stack[j].task
      BY <2>2 DEF StackInv, Shape
    <3>. QED
      BY <2>1, <3>1, <3>2
  <2>. QED
    BY <2>1, <2>2, <2>3 DEF NestingIsBounded
<1>. QED
  BY <1>1, StackAlways, PTL

----------------------------------------------------------------------------
\* The variables keep their types; the watchdog never counts past its limit
\* without a restart.
THEOREM TypeCorrect == Spec => []TypeOK
<1>1. StackInv /\ Scalars => TypeOK
  <2>. SUFFICES ASSUME StackInv, Scalars PROVE TypeOK
    OBVIOUS
  <2>1. stack \in Seq(Frame) /\ stack # <<>>
    BY EmptySeq DEF StackInv, Shape
  <2>2. active_tasks \subseteq Tasks
    <3>. SUFFICES ASSUME NEW i \in 2..Len(stack) PROVE stack[i].task \in Tasks
      BY DEF StackInv, Shape
    <3>1. i \in 1..Len(stack) /\ 1 \in 1..Len(stack) /\ i # 1
      BY DEF StackInv, Shape
    <3>2. stack[i].task \in {main} \cup Tasks
      BY <3>1, <2>1, FrameFields
    <3>3. stack[i].task # main
      BY <3>1 DEF StackInv, Shape
    <3>. QED
      BY <3>2, <3>3
  <2>. QED
    BY <2>1, <2>2 DEF Scalars, TypeOK
<1>. QED
  BY <1>1, ScalarsAlways, StackAlways, PTL

----------------------------------------------------------------------------
(* The clock: a reading is a time that the counter had meanwhile, for every  *)
(* size of its two halves.                                                   *)

LEMMA DivMod ==
  ASSUME NEW t \in Nat
  PROVE  /\ t \div Word \in Nat /\ t % Word \in Nat
         /\ t = Word * (t \div Word) + (t % Word) /\ t % Word < Word
  BY InterruptsAssumption, Z3

\* Words go on with the time, and in less than the time of a word by one at most.
LEMMA NoTimeYet ==
  ASSUME NEW s \in Nat, NEW t \in Nat, s = t, Word > 0
  PROVE  s <= t /\ t - s < Word
  BY InterruptsAssumption

LEMMA DivMonotone ==
  ASSUME NEW s \in Nat, NEW t \in Nat, s <= t
  PROVE  /\ s \div Word <= t \div Word
         /\ t - s < Word => t \div Word <= (s \div Word) + 1
<1> DEFINE p == s \div Word
           q == t \div Word
           m == s % Word
           n == t % Word
<1>1. /\ p \in Nat /\ q \in Nat /\ m \in Nat /\ n \in Nat /\ Word \in Nat \ {0, 1}
      /\ s = Word * p + m /\ t = Word * q + n /\ m < Word /\ n < Word
  BY DivMod, InterruptsAssumption
<1> HIDE DEF p, q, m, n
<1>2. ASSUME q < p PROVE FALSE
  <2>1. p - q - 1 \in Nat /\ Word * p = Word * q + Word + Word * (p - q - 1)
        /\ Word * (p - q - 1) \in Nat
    BY <1>1, <1>2, Z3
  <2> QED BY <1>1, <2>1
<1>3. ASSUME t - s < Word, p + 1 < q PROVE FALSE
  <2>1. q - p - 2 \in Nat /\ Word * q = Word * p + 2 * Word + Word * (q - p - 2)
        /\ Word * (q - p - 2) \in Nat
    BY <1>1, <1>3, Z3
  <2> QED BY <1>1, <1>3, <2>1
<1> QED BY <1>1, <1>2, <1>3 DEF p, q

\* The time that the two halves make, and the higher halves of the time now and
\* at the beginning of the reading.
Value == high * Word + low
Now == time \div Word
Then == started \div Word

\* What activetime has read at each of its places, and what it may rely on.
ReadingInv ==
  /\ time \in Nat /\ started \in Nat /\ high \in Nat /\ low \in Nat
  /\ at \in Reading => started <= time /\ time - started < Word
  /\ at \in {"low", "check"} => Then <= high /\ high <= Now
  /\ at = "check" /\ high = Now => Value \in started..time
  /\ at \in {"high_again", "low_again"} => Then < Now
  /\ at = "low_again" => Then < high /\ high <= Now
  /\ at = "time" => Value \in started..time

LEMMA ClockType ==
  ASSUME time \in Nat, started \in Nat, high \in Nat, low \in Nat
  PROVE  /\ Value \in Nat /\ Now \in Nat /\ Then \in Nat
         /\ started <= time => Then <= Now
         /\ started <= time /\ time - started < Word => Now <= Then + 1
<1>1. Now \in Nat /\ Then \in Nat
  BY DivMod DEF Now, Then
<1>2. high * Word \in Nat
  BY InterruptsAssumption
<1>3. Value \in Nat
  BY <1>2 DEF Value
<1>4. /\ started <= time => Then <= Now
      /\ started <= time /\ time - started < Word => Now <= Then + 1
  BY DivMonotone DEF Now, Then
<1> QED BY <1>1, <1>3, <1>4

LEMMA NowIsTime ==
  ASSUME time \in Nat, high = Now
  PROVE  high * Word + (time % Word) = time
<1> DEFINE q == time \div Word
           n == time % Word
<1>1. q \in Nat /\ n \in Nat /\ Word \in Nat /\ time = Word * q + n
  BY DivMod, InterruptsAssumption
<1>2. high = q
  BY DEF Now
<1> HIDE DEF q, n
<1>3. Word * q = q * Word
  BY <1>1
<1>4. high * Word + n = time
  BY <1>1, <1>2, <1>3
<1> QED BY <1>4 DEF n

THEOREM ReadingInductive == ReadingInv /\ [InterruptsNext]_interruptsVars => ReadingInv'
<1> SUFFICES ASSUME ReadingInv, [InterruptsNext]_interruptsVars PROVE ReadingInv'
  OBVIOUS
<1>0. /\ Word \in Nat \ {0, 1}
      /\ time \in Nat /\ started \in Nat /\ high \in Nat /\ low \in Nat
      /\ Value \in Nat /\ Now \in Nat /\ Then \in Nat
      /\ started <= time => Then <= Now
      /\ started <= time /\ time - started < Word => Now <= Then + 1
  BY InterruptsAssumption, ClockType DEF ReadingInv
<1>1. CASE activetime
  <2>1. time' \in 0..MaxTime /\ started' = time' /\ at' = "high" /\ UNCHANGED <<high, low>>
    BY <1>1 DEF activetime
  <2>2. time' \in Nat
    BY <2>1, InterruptsAssumption
  <2>3. started' <= time' /\ time' - started' < Word
    <3>1. started' = time' /\ Word \in Nat /\ Word > 0
      BY <2>1, InterruptsAssumption
    <3> QED BY <2>2, <3>1, NoTimeYet
  <2>4. started' \in Nat /\ high' \in Nat /\ low' \in Nat
    BY <1>0, <2>1, <2>2
  <2>5. /\ at' \notin {"low", "check"} /\ at' \notin {"high_again", "low_again"}
        /\ at' # "check" /\ at' # "low_again" /\ at' # "time"
    BY <2>1
  <2> QED BY <2>2, <2>3, <2>4, <2>5 DEF ReadingInv
<1>2. CASE cycle
  <2>1. /\ at \in Reading /\ time + 1 - started < Word /\ time' = time + 1
        /\ UNCHANGED <<at, started, high, low>>
    BY <1>2 DEF cycle
  <2>2. Value' = Value /\ Then' = Then
    BY <2>1 DEF Value, Then
  <2>3. Now' = time' \div Word /\ time' \in Nat /\ time <= time'
    BY <1>0, <2>1 DEF Now
  <2>4. Now <= Now' /\ Now' \in Nat
    BY <1>0, <2>3, DivMonotone, DivMod DEF Now
  <2> QED BY <1>0, <2>1, <2>2, <2>3, <2>4 DEF ReadingInv
<1>3. CASE read_high
  <2>1. /\ at \in {"high", "high_again"} /\ high' = Now
        /\ at' = (IF at = "high" THEN "low" ELSE "low_again")
        /\ UNCHANGED <<time, started, low>>
    BY <1>3 DEF read_high, Rest, Now
  <2>2. Now' = Now /\ Then' = Then
    BY <2>1 DEF Now, Then
  <2> QED BY <1>0, <2>1, <2>2 DEF ReadingInv, Reading
<1>4. CASE read_low
  <2>1. /\ at \in {"low", "low_again"} /\ low' = time % Word
        /\ at' = (IF at = "low" THEN "check" ELSE "time")
        /\ UNCHANGED <<time, started, high>>
    BY <1>4 DEF read_low, Rest
  <2>2. Now' = Now /\ Then' = Then /\ low' \in Nat
    BY <1>0, <2>1, DivMod DEF Now, Then
  <2>3. high = Now => Value' = time
    BY <1>0, <2>1, NowIsTime DEF Value
  <2>4. CASE at = "low"
    BY <1>0, <2>1, <2>2, <2>3, <2>4 DEF ReadingInv, Reading
  <2>5. CASE at = "low_again"
    <3>1. high = Now /\ started <= time
      BY <1>0, <2>5 DEF ReadingInv, Reading
    <3> QED BY <1>0, <2>1, <2>2, <2>3, <2>5, <3>1 DEF ReadingInv, Reading
  <2> QED BY <2>1, <2>4, <2>5
<1>5. CASE check_high
  <2>1. /\ at = "check" /\ UNCHANGED <<time, started, high, low>>
        /\ at' = IF high # Now THEN "high_again" ELSE "time"
    BY <1>5 DEF check_high, Rest, Wrapped, Now
  <2>2. Value' = Value /\ Now' = Now /\ Then' = Then
    BY <2>1 DEF Value, Now, Then
  <2> QED BY <1>0, <2>1, <2>2 DEF ReadingInv, Reading
<1>6. CASE activetime_returns \/ isr_reboot
  <2>1. /\ time' = 0 /\ started' = 0 /\ high' = 0 /\ low' = 0
        /\ at' \in {"idle", "start"}
    BY <1>6 DEF activetime_returns, isr_reboot
  <2> QED BY <2>1 DEF ReadingInv, Reading
<1>7. CASE persistence_init \/ fputc \/ fputc_returns \/ cli_zero \/ cli_zero_returns
  <2>1. at \notin Reading /\ at' \notin Reading /\ UNCHANGED <<time, started, high, low>>
    BY <1>7 DEF persistence_init, fputc, fputc_returns, cli_zero, cli_zero_returns, clock, Reading
  <2> QED BY <1>0, <2>1 DEF ReadingInv, Reading
<1>8. CASE dump_persistence \/ dump_fgetc \/ dump_write \/ UNCHANGED interruptsVars
  <2>1. UNCHANGED <<at, time, started, high, low>>
    BY <1>8 DEF dump_persistence, dump_fgetc, dump_write, clock, interruptsVars
  <2>2. Value' = Value /\ Now' = Now /\ Then' = Then
    BY <2>1 DEF Value, Now, Then
  <2> QED BY <1>0, <2>1, <2>2 DEF ReadingInv, Reading
<1> QED BY <1>1, <1>2, <1>3, <1>4, <1>5, <1>6, <1>7, <1>8 DEF InterruptsNext

\* activetime returns a time that the counter had while it was being read,
\* wherever between its four loads the counter wraps (rtc.c:146-157).
THEOREM ClockCoherent == InterruptsSpec => []ActiveTimeCoherent
<1>1. InterruptsInit => ReadingInv
  BY DEF InterruptsInit, ReadingInv, Reading
<1>2. ReadingInv => ActiveTimeCoherent
  BY DEF ReadingInv, ActiveTimeCoherent, Value
<1> QED BY <1>1, <1>2, ReadingInductive, PTL DEF InterruptsSpec

----------------------------------------------------------------------------
(* The slots of the log *)

LEMMA SlotTypes ==
  ASSUME NEW h \in Slot, NEW t \in Slot
  PROVE  /\ Max \in Nat /\ h \in Nat /\ t \in Nat
         /\ NextSlot(t) \in Slot /\ CountOf(h, t) \in 0..Max /\ CountOf(h, h) = 0
         /\ \A i \in 0..Max : SlotOf(h, i) \in Slot
BY InterruptsAssumption DEF Slot, NextSlot, CountOf, SlotOf

\* The slots that are in use differ from the one at the tail.
LEMMA SlotsUsed ==
  ASSUME NEW h \in Slot, NEW t \in Slot
  PROVE  \A i \in 0..CountOf(h, t) - 1 : SlotOf(h, i) \in Slot /\ SlotOf(h, i) # t
BY InterruptsAssumption DEF Slot, CountOf, SlotOf

LEMMA SlotsAfterPut ==
  ASSUME NEW h \in Slot, NEW t \in Slot, NextSlot(t) # h
  PROVE  CountOf(h, NextSlot(t)) = CountOf(h, t) + 1 /\ SlotOf(h, CountOf(h, t)) = t
BY InterruptsAssumption DEF Slot, CountOf, SlotOf, NextSlot

LEMMA SlotsAfterGet ==
  ASSUME NEW h \in Slot, NEW t \in Slot, h # t
  PROVE  /\ CountOf(h, t) > 0 /\ CountOf(NextSlot(h), t) = CountOf(h, t) - 1
         /\ \A i \in 0..CountOf(h, t) - 2 : SlotOf(NextSlot(h), i) = SlotOf(h, i + 1)
BY InterruptsAssumption DEF Slot, CountOf, SlotOf, NextSlot

\* The slot i behind the tail is the slot n + i behind the head, if n are in use.
LEMMA SlotsBehindTail ==
  ASSUME NEW h \in Slot, NEW t \in Slot, NEW i \in Nat, CountOf(h, t) + i <= Max
  PROVE  /\ SlotOf(t, i) \in Slot /\ SlotOf(h, CountOf(h, t) + i) = SlotOf(t, i)
         /\ CountOf(h, SlotOf(t, i)) = CountOf(h, t) + i
         /\ CountOf(t, SlotOf(t, i)) = i
BY InterruptsAssumption DEF Slot, CountOf, SlotOf

\* Seen from the tail, the slots in use come after those that are free.
LEMMA SlotsBeforeTail ==
  ASSUME NEW h \in Slot, NEW t \in Slot, NEW i \in 0..CountOf(h, t) - 1
  PROVE  CountOf(t, SlotOf(h, i)) > Max - CountOf(h, t)
BY InterruptsAssumption DEF Slot, CountOf, SlotOf

----------------------------------------------------------------------------
(* The log *)

LogTyped ==
  /\ magic \in BOOLEAN /\ persistence \in BOOLEAN /\ torn \in BOOLEAN
  /\ head \in Slot /\ tail \in Slot /\ rollback \in Slot
  /\ buffer \in [Slot -> Nat] /\ serial \in Nat /\ owed \in Seq(Nat)

\* The places of fputc, and what has to be there before the log is found.
Placed ==
  /\ at # "start" => magic
  /\ at = "moved" => persistence /\ tail = NextSlot(rollback) /\ buffer[rollback] = serial
  /\ at = "zero" => head = 0
  /\ ~magic => owed = <<>>

\* The log up to a slot is what it owes.
Holds(t) ==
  /\ Len(owed) = CountOf(head, t)
  /\ \A i \in 1..CountOf(head, t) : owed[i] = buffer[SlotOf(head, i - 1)]
Stop == IF at = "moved" THEN rollback ELSE tail
Held == magic /\ ~torn /\ at # "zero" => Holds(Stop)

LogInv == LogTyped /\ Placed /\ Held

LEMMA LogInit == InterruptsInit => LogInv
<1> SUFFICES ASSUME InterruptsInit PROVE LogInv
  OBVIOUS
<1>1. LogTyped
  <2>1. 0 \in Slot /\ Max \in Slot
    BY InterruptsAssumption DEF Slot
  <2>2. <<>> \in Seq(Nat) /\ [i \in Slot |-> 0] \in [Slot -> Nat]
    OBVIOUS
  <2> QED BY <2>1, <2>2 DEF InterruptsInit, LogTyped, none
<1>2. Placed /\ Held
  BY DEF InterruptsInit, Placed, Held
<1> QED BY <1>1, <1>2 DEF LogInv

\* A step that leaves the log alone, and is not in the middle of fputc.
Elsewhere ==
  /\ UNCHANGED <<log, persistence, rollback, serial, owed, torn>>
  /\ at \notin {"moved", "zero", "start"} /\ at' \notin {"moved", "zero", "start"}

LEMMA LogElsewhere == ASSUME LogInv, Elsewhere PROVE LogInv'
BY DEF LogInv, Elsewhere, log, LogTyped, Placed, Held, Holds, Stop

LEMMA LogStarts == ASSUME LogInv, persistence_init PROVE LogInv'
<1>1. /\ at = "start" /\ at' = "idle" /\ magic' = TRUE
      /\ UNCHANGED <<buffer, rollback, serial, owed, torn>>
  BY DEF persistence_init, log, LogInv, LogTyped
<1>2. CASE magic
  <2>1. UNCHANGED <<head, tail, persistence>>
    BY <1>2 DEF persistence_init, log
  <2> QED BY <1>1, <1>2, <2>1 DEF LogInv, LogTyped, Placed, Held, Holds, Stop
<1>3. CASE ~magic
  <2>1. head' = 0 /\ tail' = 0 /\ persistence' = TRUE /\ owed = <<>>
    BY <1>3 DEF persistence_init, LogInv, Placed
  <2>2. 0 \in Slot
    BY InterruptsAssumption DEF Slot
  <2>3. CountOf(0, 0) = 0
    BY <2>2, SlotTypes
  <2>4. Holds(tail)'
    BY <1>1, <2>1, <2>3 DEF Holds
  <2> QED BY <1>1, <2>1, <2>2, <2>4 DEF LogInv, LogTyped, Placed, Held, Stop
<1> QED BY <1>2, <1>3

\* fputc stores into the free slot.
LEMMA LogStores == ASSUME LogInv, fputc PROVE LogInv'
<1>1. at = "idle" /\ serial' = serial + 1 /\ UNCHANGED <<magic, head, persistence, owed, torn>>
  BY DEF fputc
<1>2. CASE ~persistence
  <2>1. UNCHANGED <<rollback, buffer, tail, at>>
    BY <1>2 DEF fputc
  <2> QED BY <1>1, <2>1 DEF LogInv, LogTyped, Placed, Held, Holds, Stop
<1>3. CASE persistence
  <2>1. /\ rollback' = tail /\ buffer' = [buffer EXCEPT ![tail] = serial + 1]
        /\ tail' = NextSlot(tail) /\ at' = "moved"
    BY <1>3 DEF fputc
  <2>2. LogTyped' /\ Placed'
    BY <1>1, <1>3, <2>1, SlotTypes DEF LogInv, LogTyped, Placed
  <2>3. Held'
    <3> SUFFICES ASSUME magic, ~torn PROVE Holds(tail) /\ Holds(rollback)'
      BY <1>1, <2>1 DEF Held, Stop
    <3>1. Holds(tail)
      BY <1>1 DEF LogInv, Held, Stop
    <3>2. CountOf(head, tail) \in Nat
      BY SlotTypes DEF LogInv, LogTyped
    <3>3. ASSUME NEW i \in 1..CountOf(head, tail)
          PROVE  buffer'[SlotOf(head, i - 1)] = buffer[SlotOf(head, i - 1)]
      <4>1. i - 1 \in 0..CountOf(head, tail) - 1
        BY <3>2
      <4>2. SlotOf(head, i - 1) \in Slot /\ SlotOf(head, i - 1) # tail
        BY <4>1, SlotsUsed DEF LogInv, LogTyped
      <4> QED BY <2>1, <4>2 DEF LogInv, LogTyped
    <3> QED BY <1>1, <2>1, <3>1, <3>3 DEF Holds
  <2> QED BY <2>2, <2>3 DEF LogInv
<1> QED BY <1>2, <1>3

LEMMA AppendNat ==
  ASSUME NEW s \in Seq(Nat), NEW e \in Nat
  PROVE  /\ Append(s, e) \in Seq(Nat) /\ Len(Append(s, e)) = Len(s) + 1 /\ Len(s) \in Nat
         /\ \A i \in 1..Len(s) : Append(s, e)[i] = s[i]
         /\ Append(s, e)[Len(s) + 1] = e
BY AppendProperties, LenProperties

\* The character that has just been stored is the last one of the log.
LEMMA HoldsMore ==
  ASSUME LogTyped, tail = NextSlot(rollback), buffer[rollback] = serial, tail # head,
         Holds(rollback)
  PROVE  /\ CountOf(head, tail) = Len(owed) + 1
         /\ \A i \in 1..Len(owed) + 1 : Append(owed, serial)[i] = buffer[SlotOf(head, i - 1)]
<1> DEFINE n == Len(owed)
           s == Append(owed, serial)
<1>1. s[n + 1] = serial /\ n \in Nat /\ \A i \in 1..n : s[i] = owed[i]
  BY AppendNat DEF LogTyped
<1>2. /\ CountOf(head, tail) = n + 1 /\ SlotOf(head, n) = rollback
      /\ \A i \in 1..n : owed[i] = buffer[SlotOf(head, i - 1)]
  BY SlotsAfterPut DEF LogTyped, Holds
<1> HIDE DEF n, s
<1>3. ASSUME NEW i \in 1..n + 1
      PROVE  s[i] = buffer[SlotOf(head, i - 1)]
  <2>1. CASE i = n + 1
    <3>1. i - 1 = n
      BY <1>1, <2>1, SMT
    <3> QED BY <1>1, <1>2, <2>1, <3>1
  <2>2. CASE i # n + 1
    <3>1. i \in 1..n
      BY <1>1, <2>2, SMT
    <3> QED BY <1>1, <1>2, <3>1
  <2> QED BY <2>1, <2>2
<1> QED BY <1>2, <1>3 DEF n, s

LEMMA LogReturns == ASSUME LogInv, fputc_returns PROVE LogInv'
<1>1. /\ at = "moved" /\ at' = "idle" /\ rollback' = 0
      /\ UNCHANGED <<magic, head, buffer, persistence, serial, torn>>
  BY DEF fputc_returns
<1>2. magic /\ tail = NextSlot(rollback) /\ buffer[rollback] = serial
  BY <1>1 DEF LogInv, Placed
<1>3. 0 \in Slot
  BY InterruptsAssumption DEF Slot
<1>4. CASE tail = head
  <2>1. tail' = rollback /\ owed' = owed
    BY <1>4 DEF fputc_returns
  <2> QED BY <1>1, <1>3, <2>1 DEF LogInv, LogTyped, Placed, Held, Holds, Stop
<1>5. CASE tail # head
  <2>1. tail' = tail /\ owed' = Append(owed, serial)
    BY <1>5 DEF fputc_returns
  <2>2. LogTyped' /\ Placed'
    BY <1>1, <1>2, <1>3, <2>1, AppendNat DEF LogInv, LogTyped, Placed
  <2>3. Held'
    <3> SUFFICES ASSUME ~torn PROVE Holds(tail)'
      BY <1>1, <2>1 DEF Held, Stop
    <3>1. Holds(rollback)
      BY <1>1, <1>2 DEF LogInv, Held, Stop
    <3>2. /\ CountOf(head, tail) = Len(owed) + 1
          /\ \A i \in 1..Len(owed) + 1 : Append(owed, serial)[i] = buffer[SlotOf(head, i - 1)]
      BY <1>2, <1>5, <3>1, HoldsMore DEF LogInv
    <3>3. Len(Append(owed, serial)) = Len(owed) + 1
      BY AppendNat DEF LogInv, LogTyped
    <3> QED BY <1>1, <2>1, <3>2, <3>3 DEF Holds
  <2> QED BY <2>2, <2>3 DEF LogInv
<1> QED BY <1>4, <1>5

\* A reset empties the log, in two stores.
LEMMA LogResets == ASSUME LogInv, cli_zero \/ cli_zero_returns PROVE LogInv'
<1>0. 0 \in Slot /\ CountOf(0, 0) = 0
  BY SlotTypes, InterruptsAssumption DEF Slot
<1>1. CASE cli_zero
  <2>1. /\ head' = 0 /\ at = "idle" /\ at' = "zero"
        /\ UNCHANGED <<magic, tail, buffer, persistence, rollback, serial, owed, torn>>
    BY <1>1 DEF cli_zero
  <2> QED BY <1>0, <2>1 DEF LogInv, LogTyped, Placed, Held
<1>2. CASE cli_zero_returns
  <2>1. /\ tail' = 0 /\ owed' = <<>> /\ at = "zero" /\ at' = "idle"
        /\ UNCHANGED <<magic, head, buffer, persistence, rollback, serial, torn>>
    BY <1>2 DEF cli_zero_returns
  <2> QED BY <1>0, <2>1 DEF LogInv, LogTyped, Placed, Held, Holds, Stop
<1> QED BY <1>1, <1>2

\* What the dump fetches is the oldest character of the log.
LEMMA LogDump ==
  ASSUME LogInv, dump_persistence \/ dump_fgetc \/ dump_write PROVE LogInv'
<1>1. CASE dump_persistence
  <2>1. /\ at = "idle" /\ persistence' = TRUE
        /\ UNCHANGED <<log, at, rollback, serial, owed, torn>>
    BY <1>1 DEF dump_persistence
  <2> QED BY <2>1 DEF LogInv, log, LogTyped, Placed, Held, Holds, Stop
<1>2. CASE dump_write
  <2>1. Elsewhere
    BY <1>2 DEF dump_write, Elsewhere
  <2> QED BY <2>1, LogElsewhere
<1>3. CASE dump_fgetc /\ head = tail
  <2>1. at = "idle" /\ UNCHANGED <<log, persistence, at, rollback, serial, owed, torn>>
    BY <1>3 DEF dump_fgetc, log
  <2> QED BY <2>1, LogElsewhere DEF Elsewhere
<1>4. CASE dump_fgetc /\ head # tail
  <2>1. /\ at = "idle" /\ head' = NextSlot(head)
        /\ owed' = IF owed = <<>> THEN owed ELSE Tail(owed)
        /\ UNCHANGED <<magic, tail, buffer, persistence, at, rollback, serial, torn>>
    BY <1>4 DEF dump_fgetc
  <2>2. owed' \in Seq(Nat)
    <3>1. CASE owed = <<>>
      BY <2>1, <3>1
    <3>2. CASE owed # <<>>
      BY <2>1, <3>2, HeadTailProperties, Zenon DEF LogInv, LogTyped
    <3> QED BY <3>1, <3>2
  <2>3. LogTyped'
    BY <2>1, <2>2, SlotTypes DEF LogInv, LogTyped
  <2>4. Placed'
    BY <2>1 DEF LogInv, Placed
  <2>5. Held'
    <3> SUFFICES ASSUME magic, ~torn PROVE Holds(tail)'
      BY <2>1 DEF Held, Stop
    <3> DEFINE n == CountOf(head, tail)
    <3>1. n \in Nat /\ n > 0 /\ CountOf(head', tail) = n - 1
          /\ \A i \in 0..n - 2 : SlotOf(head', i) = SlotOf(head, i + 1)
      BY <1>4, <2>1, SlotTypes, SlotsAfterGet, SMTT(40) DEF LogInv, LogTyped
    <3>2. Len(owed) = n
      BY <2>1 DEF LogInv, Held, Stop, Holds
    <3>6. \A i \in 1..n : owed[i] = buffer[SlotOf(head, i - 1)]
      BY <2>1 DEF LogInv, Held, Stop, Holds
    <3>3. owed # <<>>
      <4>1. Len(<<>>) = 0
        OBVIOUS
      <4> HIDE DEF n
      <4> QED BY <3>1, <3>2, <4>1
    <3>4. /\ owed' = Tail(owed) /\ Len(owed') = Len(owed) - 1
          /\ \A i \in 1..Len(owed') : owed'[i] = owed[i + 1]
      BY <2>1, <3>3, HeadTailProperties, Zenon DEF LogInv, LogTyped
    <3> HIDE DEF n
    <3>5. ASSUME NEW i \in 1..n - 1
          PROVE  owed'[i] = buffer[SlotOf(head', i - 1)]
      <4>1. /\ i \in Nat /\ i + 1 \in 1..n /\ i - 1 \in 0..n - 2
            /\ i - 1 + 1 = i /\ i + 1 - 1 = i
        BY <3>1
      <4>2. i \in 1..Len(owed')
        BY <3>2, <3>4, Zenon
      <4>3. owed'[i] = buffer[SlotOf(head, i)]
        <5>1. owed'[i] = owed[i + 1]
          BY <3>4, <4>2, Zenon
        <5>2. owed[i + 1] = buffer[SlotOf(head, i + 1 - 1)]
          BY <3>6, <4>1, SMT
        <5> QED BY <4>1, <5>1, <5>2, Zenon
      <4> QED BY <3>1, <4>1, <4>3, Zenon
    <3> QED BY <2>1, <3>1, <3>2, <3>4, <3>5, Zenon DEF Holds
  <2> QED BY <2>3, <2>4, <2>5 DEF LogInv
<1> QED BY <1>1, <1>2, <1>3, <1>4

----------------------------------------------------------------------------
(* The message of a restart *)

\* The message goes into free slots, in order; what was in the log stays.
LEMMA PrintedLog ==
  ASSUME LogTyped
  PROVE  /\ Taken \in Nat /\ CountOf(head, tail) + Taken <= Max
         /\ SlotOf(tail, Taken) \in Slot
         /\ CountOf(head, SlotOf(tail, Taken)) = CountOf(head, tail) + Taken
         /\ Printed \in [Slot -> Nat]
         /\ \A i \in 0..CountOf(head, tail) - 1 :
              Printed[SlotOf(head, i)] = buffer[SlotOf(head, i)]
         /\ \A i \in 0..Taken - 1 :
              Printed[SlotOf(head, CountOf(head, tail) + i)] = serial + i + 1
<1> DEFINE n == CountOf(head, tail)
<1>0. head \in Slot /\ tail \in Slot /\ serial \in Nat /\ MessageLength \in Nat
  BY InterruptsAssumption DEF LogTyped
<1>1. Max \in Nat /\ n \in 0..Max
  BY <1>0, SlotTypes
<1>2. Taken \in Nat /\ n + Taken <= Max /\ Taken <= MessageLength
  <2> HIDE DEF n
  <2>1. Room = Max - n
    BY DEF Room, n
  <2> QED BY <1>0, <1>1, <2>1 DEF Taken
<1>3. /\ SlotOf(tail, Taken) \in Slot
      /\ CountOf(head, SlotOf(tail, Taken)) = n + Taken
  BY <1>0, <1>2, SlotsBehindTail
<1>4. Printed \in [Slot -> Nat]
  <2>1. ASSUME NEW k \in Slot PROVE Printed[k] \in Nat
    <3>1. CountOf(tail, k) \in Nat /\ buffer[k] \in Nat
      BY <1>0, <2>1, SlotTypes DEF LogTyped
    <3>2. serial + CountOf(tail, k) + 1 \in Nat /\ serial + MessageLength \in Nat
      BY <1>0, <3>1
    <3> QED BY <2>1, <3>1, <3>2 DEF Printed
  <2> QED BY <2>1 DEF Printed
<1>5. ASSUME NEW i \in 0..n - 1
      PROVE  Printed[SlotOf(head, i)] = buffer[SlotOf(head, i)]
  <2> DEFINE k == SlotOf(head, i)
  <2>1. k \in Slot /\ CountOf(tail, k) > Max - n /\ CountOf(tail, k) \in Nat
    BY <1>0, SlotsUsed, SlotsBeforeTail, SlotTypes
  <2> HIDE DEF n, k
  <2>2. ~(CountOf(tail, k) < Taken) /\ CountOf(tail, k) # Taken
    BY <1>1, <1>2, <2>1
  <2>3. Printed[k] = buffer[k]
    BY <2>1, <2>2 DEF Printed
  <2> QED BY <2>3 DEF k
<1>6. ASSUME NEW i \in 0..Taken - 1
      PROVE  Printed[SlotOf(head, n + i)] = serial + i + 1
  <2>1. i \in Nat /\ i < Taken /\ n + i <= Max
    BY <1>1, <1>2
  <2>2. /\ SlotOf(tail, i) \in Slot /\ SlotOf(head, n + i) = SlotOf(tail, i)
        /\ CountOf(tail, SlotOf(tail, i)) = i
    BY <1>0, <2>1, SlotsBehindTail
  <2> DEFINE k == SlotOf(tail, i)
  <2> HIDE DEF n, k
  <2>3. Printed[k] = serial + i + 1
    BY <2>1, <2>2 DEF Printed, k
  <2> QED BY <2>2, <2>3 DEF k
<1> QED BY <1>2, <1>3, <1>4, <1>5, <1>6

\* What the log held for fputc's caller, when the message comes.
LEMMA HeldLog ==
  ASSUME LogInv, at # "start"
  PROVE  /\ HeldBefore \in Seq(Nat)
         /\ ~torn /\ at # "zero" =>
              /\ Len(HeldBefore) = CountOf(head, tail)
              /\ \A i \in 1..CountOf(head, tail) :
                   HeldBefore[i] = buffer[SlotOf(head, i - 1)]
<1>1. magic /\ LogTyped /\ owed \in Seq(Nat) /\ serial \in Nat
  BY DEF LogInv, Placed, LogTyped
<1>2. CASE at # "moved"
  <2>1. HeldBefore = owed
    BY <1>2 DEF HeldBefore
  <2> QED BY <1>1, <1>2, <2>1 DEF LogInv, Held, Stop, Holds
<1>3. CASE at = "moved" /\ tail = head
  <2>1. HeldBefore = <<>>
    BY <1>3 DEF HeldBefore
  <2>2. <<>> \in Seq(Nat) /\ Len(<<>>) = 0
    OBVIOUS
  <2>3. CountOf(head, tail) = 0
    BY <1>1, <1>3, SlotTypes DEF LogTyped
  <2> QED BY <2>1, <2>2, <2>3
<1>4. CASE at = "moved" /\ tail # head
  <2>1. HeldBefore = Append(owed, serial)
    BY <1>4 DEF HeldBefore
  <2>2. HeldBefore \in Seq(Nat) /\ Len(HeldBefore) = Len(owed) + 1
    BY <1>1, <2>1, AppendNat
  <2>3. ASSUME ~torn
        PROVE  /\ CountOf(head, tail) = Len(owed) + 1
               /\ \A i \in 1..Len(owed) + 1 : Append(owed, serial)[i] = buffer[SlotOf(head, i - 1)]
    <3>1. tail = NextSlot(rollback) /\ buffer[rollback] = serial /\ Holds(rollback)
      BY <1>1, <1>4, <2>3 DEF LogInv, Placed, Held, Stop
    <3> QED BY <1>1, <1>4, <3>1, HoldsMore
  <2> QED BY <1>4, <2>1, <2>2, <2>3
<1> QED BY <1>2, <1>3, <1>4

LEMMA FunctionSeq ==
  ASSUME NEW S, NEW n \in Nat, NEW s \in [1..n -> S]
  PROVE  s \in Seq(S) /\ Len(s) = n
OBVIOUS

\* The numbers of the characters of the message that are taken.
LEMMA MessageSeq ==
  ASSUME NEW n \in Nat, NEW b \in Nat
  PROVE  /\ [i \in 1..n |-> b + i] \in Seq(Nat) /\ Len([i \in 1..n |-> b + i]) = n
         /\ \A i \in 1..n : [j \in 1..n |-> b + j][i] = b + i
<1>1. [i \in 1..n |-> b + i] \in [1..n -> Nat]
  OBVIOUS
<1> QED BY <1>1, FunctionSeq

LEMMA LogReboot == ASSUME LogInv, isr_reboot PROVE LogInv'
<1>0. LogTyped /\ at # "start" /\ magic
  BY DEF LogInv, Placed, isr_reboot
<1>1. /\ serial' = serial + MessageLength /\ torn' = (torn \/ at = "zero")
      /\ persistence' = FALSE /\ at' = "start" /\ rollback' = 0
      /\ magic' = magic /\ head' = head
  BY DEF isr_reboot
<1>2. /\ 0 \in Slot /\ serial + MessageLength \in Nat /\ (torn \/ at = "zero") \in BOOLEAN
      /\ head \in Slot /\ tail \in Slot
  BY <1>0, InterruptsAssumption DEF Slot, LogTyped
<1>3. ASSUME tail' \in Slot, buffer' \in [Slot -> Nat], owed' \in Seq(Nat)
      PROVE  LogTyped' /\ Placed'
  BY <1>0, <1>1, <1>2, <1>3 DEF LogTyped, Placed
<1>4. CASE ~persistence
  <2>1. UNCHANGED <<tail, buffer, owed>>
    BY <1>4 DEF isr_reboot
  <2>2. at # "moved"
    BY <1>4 DEF LogInv, Placed
  <2>3. Held'
    BY <1>0, <1>1, <2>1, <2>2 DEF LogInv, Held, Holds, Stop
  <2>4. tail' \in Slot /\ buffer' \in [Slot -> Nat] /\ owed' \in Seq(Nat)
    BY <1>0, <2>1 DEF LogTyped
  <2> QED BY <1>3, <2>3, <2>4 DEF LogInv
<1>5. CASE persistence
  <2> DEFINE m == Taken
             n == CountOf(head, tail)
             s == HeldBefore
             r == [i \in 1..Taken |-> serial + i]
             stop == SlotOf(tail, Taken)
             b == Printed
  <2>1. tail' = stop /\ buffer' = b /\ owed' = s \o r
    BY <1>5 DEF isr_reboot
  <2>2. /\ m \in Nat /\ n + m <= Max /\ stop \in Slot /\ CountOf(head, stop) = n + m
        /\ b \in [Slot -> Nat]
        /\ \A i \in 0..n - 1 : b[SlotOf(head, i)] = buffer[SlotOf(head, i)]
        /\ \A i \in 0..m - 1 : b[SlotOf(head, n + i)] = serial + i + 1
    BY <1>0, PrintedLog
  <2>3. /\ s \in Seq(Nat)
        /\ ~torn /\ at # "zero" =>
             Len(s) = n /\ \A i \in 1..n : s[i] = buffer[SlotOf(head, i - 1)]
    BY <1>0, HeldLog
  <2>4. serial \in Nat /\ n \in Nat
    BY <1>0, <1>2, SlotTypes DEF LogTyped
  <2>5. r \in Seq(Nat) /\ Len(r) = m /\ \A i \in 1..m : r[i] = serial + i
    BY <2>2, <2>4, MessageSeq
  <2> HIDE DEF m, n, s, r, stop, b
  <2>6. /\ s \o r \in Seq(Nat) /\ Len(s \o r) = Len(s) + Len(r)
        /\ \A i \in 1..Len(s) + Len(r) :
             (s \o r)[i] = IF i <= Len(s) THEN s[i] ELSE r[i - Len(s)]
    BY <2>3, <2>5, ConcatProperties, Zenon
  <2>7. Held'
    <3> SUFFICES ASSUME ~torn, at # "zero" PROVE Holds(tail)'
      BY <1>1 DEF Held, Stop
    <3> DEFINE t == s \o r
    <3>1. Len(t) = n + m
      BY <2>3, <2>5, <2>6, Zenon
    <3>2. \A i \in 1..n + m : t[i] = IF i <= n THEN s[i] ELSE r[i - n]
      BY <2>3, <2>5, <2>6, Zenon
    <3>3. \A i \in 1..n : s[i] = buffer[SlotOf(head, i - 1)]
      BY <2>3, Zenon
    <3>4. \A i \in 1..m : r[i] = serial + i
      BY <2>5, Zenon
    <3> HIDE DEF t
    <3>5. ASSUME NEW i \in 1..n + m PROVE t[i] = b[SlotOf(head, i - 1)]
      <4>1. CASE i <= n
        <5>1. i \in 1..n /\ i - 1 \in 0..n - 1
          BY <2>2, <2>4, <4>1
        <5> QED BY <2>2, <3>2, <3>3, <4>1, <5>1
      <4>2. CASE ~(i <= n)
        <5> DEFINE j == i - n - 1
        <5>1. i - n \in 1..m /\ j \in 0..m - 1 /\ n + j = i - 1 /\ serial + j + 1 = serial + (i - n)
          BY <2>2, <2>4, <4>2
        <5>2. t[i] = serial + (i - n)
          BY <3>2, <3>4, <4>2, <5>1
        <5> HIDE DEF j
        <5>3. b[SlotOf(head, n + j)] = serial + j + 1
          BY <2>2, <5>1
        <5> QED BY <5>1, <5>2, <5>3
      <4> QED BY <4>1, <4>2
    <3>6. owed' = t
      BY <2>1 DEF t
    <3> QED BY <1>1, <2>1, <2>2, <3>1, <3>5, <3>6 DEF Holds
  <2>8. tail' \in Slot /\ buffer' \in [Slot -> Nat] /\ owed' \in Seq(Nat)
    BY <2>1, <2>2, <2>6
  <2> QED BY <1>3, <2>7, <2>8 DEF LogInv
<1> QED BY <1>4, <1>5

THEOREM LogInductive == LogInv /\ [InterruptsNext]_interruptsVars => LogInv'
<1> SUFFICES ASSUME LogInv, [InterruptsNext]_interruptsVars PROVE LogInv'
  OBVIOUS
<1>1. ASSUME activetime \/ activetime_returns PROVE LogInv'
  <2>1. Elsewhere
    BY <1>1 DEF activetime, activetime_returns, Elsewhere
  <2> QED BY <2>1, LogElsewhere
<1>2. ASSUME cycle \/ read_high \/ read_low \/ check_high PROVE LogInv'
  <2>1. Elsewhere
    BY <1>2 DEF cycle, read_high, read_low, check_high, Rest, Reading, Elsewhere
  <2> QED BY <2>1, LogElsewhere
<1>3. CASE UNCHANGED interruptsVars
  BY <1>3 DEF interruptsVars, log, LogInv, LogTyped, Placed, Held, Holds, Stop
<1> QED
  BY <1>1, <1>2, <1>3, LogStarts, LogStores, LogReturns, LogResets, LogDump, LogReboot
  DEF InterruptsNext

\* What is in the log survives whatever was interrupted and however often the
\* program restarted, but for a reset cut in two: for every size of the log and
\* of the message (stdio.c:67-88, persistence.c:27-38, main.c:58-111).
THEOREM LogKept == InterruptsSpec => []LogSurvives
<1>1. ASSUME LogInv PROVE LogSurvives
  <2> SUFFICES ASSUME ~torn, at \notin {"start", "zero"} PROVE UpTo(Stop) = owed
    BY DEF LogSurvives, Stop
  <2>1. LogTyped /\ Holds(Stop)
    BY <1>1 DEF LogInv, Placed, Held
  <2> DEFINE n == CountOf(head, Stop)
             u == [i \in 1..n |-> buffer[SlotOf(head, i - 1)]]
  <2>2. n \in Nat
    BY <2>1, SlotTypes DEF LogTyped, Stop
  <2>3. owed \in [1..n -> Nat] /\ \A i \in 1..n : owed[i] = buffer[SlotOf(head, i - 1)]
    BY <2>1, LenProperties, Zenon DEF LogTyped, Holds
  <2> HIDE DEF n
  <2>4. u = owed
    BY <2>3
  <2> QED BY <2>4 DEF UpTo, u, n
<1>2. InterruptsSpec => []LogInv
  BY LogInit, LogInductive, PTL DEF InterruptsSpec
<1> QED BY <1>1, <1>2, PTL
=============================================================================
