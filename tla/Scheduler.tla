----------------------------- MODULE Scheduler -----------------------------
(***************************************************************************)
(* The cooperative scheduler of a2fomu (sw/src/main.c).  main's loop and   *)
(* every yield() run the same list of tasks; a task that is on the C stack *)
(* is passed over.  A task that waits calls yield() in a loop: it goes on  *)
(* when the tasks called from that yield() have returned and what it waits *)
(* for has happened.  The timer interrupt counts up a watchdog that main's *)
(* loop and yield() set back.                                              *)
(*                                                                         *)
(* stack holds one frame for main and for every task that was called and   *)
(* has not returned, innermost last.  A frame executes its own code        *)
(* (at = 0), or is in yield() (or main's loop), next to look at task `at'. *)
(***************************************************************************)
EXTENDS Naturals, Sequences, FiniteSets

CONSTANTS
  BootLimit, RunLimit   \* watchdog_max before and in main's loop, in turns

ASSUME SchedulerAssumption ==
  /\ BootLimit \in Nat /\ RunLimit \in Nat /\ BootLimit <= RunLimit

VARIABLES
  stack, active_tasks, watchdog_timer, watchdog_max,
  booting,   \* init() has not returned
  ready,     \* the conditions that hold
  stdoutDev, \* stdout->device
  late,      \* the turn that executes has seen a tick of the timer
  hung       \* the task that executes neither yields nor returns

vars == <<stack, active_tasks, watchdog_timer, watchdog_max, booting, ready,
          stdoutDev, late, hung>>

\* run_task_list: its six tasks, in order.
main == 0
tty == 1
tud == 2
led == 3
video == 5
disk == 6
Tasks == 1..6

\* What the tasks wait for: the flash to be free (write_flash, cli_install),
\* the jiffy clock (sleep), room in stdout (redraw), and room in the serial
\* port (dump_persistence).  init() executes a script of commands.
Conditions == {"flash", "clock", "stdout", "port"}
Waits(t) ==
  IF t = tty THEN Conditions
  ELSE IF t = tud THEN {"flash"}
  ELSE IF t = main THEN {"flash", "clock"}
  ELSE {}

\* The task whose turn makes a condition true; the clock needs none.
Provider(c) ==
  IF c = "flash" THEN disk
  ELSE IF c = "port" THEN tud
  ELSE IF c = "stdout" THEN (IF stdoutDev = "usb" THEN tty ELSE led)
  ELSE main

Frame == [task : {main} \cup Tasks, at : 0..7, need : Conditions \cup {"none"},
          waited : BOOLEAN]
NewFrame(t) == [task |-> t, at |-> 0, need |-> "none", waited |-> FALSE]

Top == stack[Len(stack)]
SetTop(f) == stack' = [stack EXCEPT ![Len(stack)] = f]
Called == {stack[i].task : i \in 2..Len(stack)}

Init ==
  /\ stack = <<NewFrame(main)>>
  /\ active_tasks = {} /\ watchdog_timer = 0 /\ watchdog_max = BootLimit
  /\ booting = TRUE /\ ready = Conditions /\ stdoutDev = "led"
  /\ late = FALSE /\ hung = FALSE

----------------------------------------------------------------------------
(* The code of the tasks, as far as the scheduler can tell.  Named bound: a  *)
(* task waits at most once each time it is called.                           *)

Executing == Top.at = 0 /\ ~hung

begin_wait(c) ==
  /\ Executing /\ ~Top.waited /\ c \in Waits(Top.task)
  /\ Top.task = main => booting
  /\ Top.task = tty => stdoutDev = "usb"
  /\ SetTop([Top EXCEPT !.need = c, !.waited = TRUE])
  /\ ready' = ready \ {c}
  /\ UNCHANGED <<active_tasks, watchdog_timer, watchdog_max, booting, stdoutDev,
                 late, hung>>

end_wait ==
  /\ Executing /\ Top.need \in ready
  /\ SetTop([Top EXCEPT !.need = "none"])
  /\ UNCHANGED <<active_tasks, watchdog_timer, watchdog_max, booting, ready,
                 stdoutDev, late, hung>>

\* Mutant: the watchdog is left running.
yield_KeepsTimer ==
  /\ Executing /\ Top.need # "none" /\ Top.need \notin ready
  /\ SetTop([Top EXCEPT !.at = 1])
  /\ UNCHANGED <<active_tasks, watchdog_timer, watchdog_max, booting, ready,
                 stdoutDev, late, hung>>

yield ==
  /\ Executing /\ Top.need # "none" /\ Top.need \notin ready
  /\ watchdog_timer' = 0
  /\ SetTop([Top EXCEPT !.at = 1])
  /\ UNCHANGED <<active_tasks, watchdog_max, booting, ready, stdoutDev, late,
                 hung>>

\* Never yields and never returns, as cli() does on a full command buffer.
hang ==
  /\ Executing /\ (Top.task = main => booting)
  /\ hung' = TRUE
  /\ UNCHANGED <<stack, active_tasks, watchdog_timer, watchdog_max, booting,
                 ready, stdoutDev, late>>

----------------------------------------------------------------------------
(* run_task_list *)

\* Mutant: the mask is not looked at.
call_Reentrant ==
  /\ Top.at \in Tasks
  /\ active_tasks' = active_tasks \cup {Top.at}
  /\ stack' = Append(stack, NewFrame(Top.at))
  /\ late' = FALSE
  /\ UNCHANGED <<watchdog_timer, watchdog_max, booting, ready, stdoutDev, hung>>

call ==
  /\ Top.at \in Tasks /\ Top.at \notin active_tasks
  /\ active_tasks' = active_tasks \cup {Top.at}
  /\ stack' = Append(stack, NewFrame(Top.at))
  /\ late' = FALSE
  /\ UNCHANGED <<watchdog_timer, watchdog_max, booting, ready, stdoutDev, hung>>

pass_over ==
  /\ Top.at \in Tasks /\ Top.at \in active_tasks
  /\ SetTop([Top EXCEPT !.at = @ + 1])
  /\ UNCHANGED <<active_tasks, watchdog_timer, watchdog_max, booting, ready,
                 stdoutDev, late, hung>>

\* The task returns into run_task.  tud_task may have seen the terminal come or
\* go (tud_cdc_line_state_cb).
Returned == [stack[Len(stack) - 1] EXCEPT !.at = @ + 1]

\* Mutant: the mask stays set.
finish_KeepsMask ==
  /\ Executing /\ Top.task # main /\ Top.need = "none"
  /\ stack' = Append(SubSeq(stack, 1, Len(stack) - 2), Returned)
  /\ ready' = ready \cup {c \in Conditions : Provider(c) = Top.task}
  /\ stdoutDev' \in (IF Top.task = tud THEN {"usb", "led"} ELSE {stdoutDev})
  /\ UNCHANGED <<active_tasks, watchdog_timer, watchdog_max, booting, late, hung>>

finish ==
  /\ Executing /\ Top.task # main /\ Top.need = "none"
  /\ active_tasks' = active_tasks \ {Top.task}
  /\ stack' = Append(SubSeq(stack, 1, Len(stack) - 2), Returned)
  /\ ready' = ready \cup {c \in Conditions : Provider(c) = Top.task}
  /\ stdoutDev' \in (IF Top.task = tud THEN {"usb", "led"} ELSE {stdoutDev})
  /\ UNCHANGED <<watchdog_timer, watchdog_max, booting, late, hung>>

\* Mutant: the list may end before its last task.
list_end_Early ==
  /\ Top.at \in {6, 7}
  /\ SetTop([Top EXCEPT !.at = 0])
  /\ late' = FALSE
  /\ UNCHANGED <<active_tasks, watchdog_timer, watchdog_max, booting, ready,
                 stdoutDev, hung>>

\* yield() returns to its caller, or a pass of main's loop ends.
list_end ==
  /\ Top.at = 7
  /\ SetTop([Top EXCEPT !.at = 0])
  /\ late' = FALSE
  /\ UNCHANGED <<active_tasks, watchdog_timer, watchdog_max, booting, ready,
                 stdoutDev, hung>>

----------------------------------------------------------------------------
(* main and the timer interrupt *)

\* init() returns.
enter_loop ==
  /\ Executing /\ Top.task = main /\ booting /\ Top.need = "none"
  /\ booting' = FALSE /\ watchdog_max' = RunLimit
  /\ UNCHANGED <<stack, active_tasks, watchdog_timer, ready, stdoutDev, late,
                 hung>>

main_loop ==
  /\ Executing /\ Top.task = main /\ ~booting
  /\ watchdog_timer' = 0
  /\ SetTop([Top EXCEPT !.at = 1])
  /\ UNCHANGED <<active_tasks, watchdog_max, booting, ready, stdoutDev, late, hung>>

\* Mutant: the mask survives the restart.
reboot_KeepsMask ==
  /\ stack' = <<NewFrame(main)>>
  /\ watchdog_timer' = 0 /\ watchdog_max' \in {BootLimit, watchdog_max}
  /\ booting' = TRUE /\ ready' = Conditions /\ stdoutDev' = "led"
  /\ late' = FALSE /\ hung' = FALSE
  /\ UNCHANGED active_tasks

\* reboot(): _start clears the variables without a value of their own and
\* restores the others, unless the program runs from RAM (crt0.S:176).
reboot ==
  /\ stack' = <<NewFrame(main)>> /\ active_tasks' = {}
  /\ watchdog_timer' = 0 /\ watchdog_max' \in {BootLimit, watchdog_max}
  /\ booting' = TRUE /\ ready' = Conditions /\ stdoutDev' = "led"
  /\ late' = FALSE /\ hung' = FALSE

\* Mutant: the counter is too narrow for the limit.
CountUp_Narrow == (watchdog_timer + 1) % 16

CountUp == watchdog_timer + 1

Expired == CountUp > watchdog_max

\* isr, on the timer's interrupt.  Assumed of the tasks: a turn, from a call or
\* the end of a yield() to the next yield() or return, takes at most one tick.
tick ==
  /\ Top.at = 0 /\ (hung \/ ~late)
  /\ IF Expired
       THEN reboot
       ELSE /\ watchdog_timer' = CountUp
            /\ ready' = ready \cup {"clock"}
            /\ late' = TRUE
            /\ UNCHANGED <<stack, active_tasks, watchdog_max, booting, stdoutDev, hung>>

\* What the scheduler and the tasks do of themselves.
Schedule ==
  \/ call \/ pass_over \/ list_end
  \/ enter_loop \/ main_loop
  \/ yield \/ end_wait \/ finish

Next ==
  \/ Schedule
  \/ \E c \in Conditions : begin_wait(c)
  \/ hang
  \/ tick

Spec == Init /\ [][Next]_vars

\* The processor runs, and the timer interrupts the tasks for ever.
FairSpec == Spec /\ WF_vars(Schedule) /\ SF_vars(tick)

----------------------------------------------------------------------------
(* Properties *)

\* The variables hold values of their types.
TypeOK ==
  /\ stack \in Seq(Frame) /\ stack # <<>>
  /\ active_tasks \subseteq Tasks
  /\ watchdog_timer \in 0..watchdog_max
  /\ watchdog_max \in {BootLimit, RunLimit}
  /\ booting \in BOOLEAN /\ late \in BOOLEAN /\ hung \in BOOLEAN
  /\ ready \subseteq Conditions
  /\ stdoutDev \in {"usb", "led"}

\* active_tasks is the set of the tasks that were called and have not returned,
\* and none of them is entered twice.
ActiveIsOnStack ==
  /\ stack[1].task = main
  /\ active_tasks = Called
  /\ \A i, j \in 1..Len(stack) : i # j => stack[i].task # stack[j].task

\* Only main, tty_task and tud_task are ever suspended: the C stack never holds
\* more than these and one other task.
NestingIsBounded ==
  /\ \A i \in 1..Len(stack) - 1 : stack[i].task \in {main, tty, tud}
  /\ Len(stack) <= 4

\* As long as a turn takes at most a tick and the limits are RunLimit turns,
\* the watchdog strikes a hung task only, however the tasks nest and wait.
NoFalseAlarm == [][tick /\ watchdog_timer' < watchdog_timer => hung]_vars

\* A task that neither yields nor returns is ended by the watchdog.
HangIsCaught == hung ~> ~hung

Waiting(t) == \E i \in 1..Len(stack) : stack[i].task = t /\ stack[i].need # "none"

\* A frame waits for a task that is suspended below it, or for itself.
Blocked ==
  \E i \in 1..Len(stack), j \in 1..Len(stack) :
    /\ stack[i].need \notin {"none", "clock"}
    /\ j <= i /\ stack[j].task = Provider(stack[i].need)

\* Every wait ends unless a task waits for one that is suspended below it, as
\* redraw() does for tty_task's own output.
WaitsEnd == \A t \in {main, tty, tud} : Waiting(t) ~> ~Waiting(t) \/ Blocked

\* Whatever tty_task and tud_task wait for, even without end, the tasks that do
\* not wait are called again and again.
OthersGoOn == \A t \in Tasks \ {tty, tud} : (<>[]~hung) => []<>(t \in Called)
=============================================================================
