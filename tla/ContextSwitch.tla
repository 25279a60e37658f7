---------------------------- MODULE ContextSwitch ----------------------------
(***************************************************************************)
(* The stack-copying context switch of src/src/ctxswitch.s and             *)
(* scheduler_copy_stacks: one hardware stack page, into which the return   *)
(* addresses of the task to run are copied from its buffer after those of  *)
(* the task that gives up the processor have been saved in its own.        *)
(*                                                                         *)
(* The stack is a sequence of return addresses (two bytes each) in the     *)
(* order they were pushed; a return address is named by the task that      *)
(* pushed it and the function it called.  What matters is how deep the two *)
(* stacks are, because scheduler_copy_stacks runs on the page it writes:   *)
(* its own return address lies just beyond the stack it has saved.         *)
(* Registers are left out: cc65 code expects none to survive a call.       *)
(*                                                                         *)
(* cc65 keeps arguments and local variables on a second stack, elsewhere   *)
(* in memory, that grows when a function is entered and shrinks by as much *)
(* when it returns.  The switch neither saves its contents nor its pointer:*)
(* there is one for all tasks, and only its depth is modelled.             *)
(***************************************************************************)
EXTENDS Integers, Sequences, SequencesExt

CONSTANTS
    Tasks,      \* the slots of the task table
    Sites,      \* functions of their own that tasks may call
    Depth,      \* how deep they nest such calls
    Waits,      \* where they wait: <<"sleep" or "yield", how deep they are then>>
    Ends,       \* do task functions return?
    TailCalls,  \* does the compiler turn a final call into a jump (cc65 -O)?
    Measured,   \* the tasks whose stack usage is asked for
    MaxReturns  \* bound: how many task functions return

Main == "main"   \* scheduler_ctx, the context scheduler_run is called in

ASSUME TasksAssumption == Main \notin Tasks
ASSUME SitesAssumption ==
    Sites \cap {"start_task", "fn", "sleep", "yield", "task_return", "ctx_switch"} = {}
ASSUME DepthAssumption == Depth \in Nat
ASSUME WaitsAssumption == Waits \subseteq {"sleep", "yield"} \X (0 .. Depth)
ASSUME FlagsAssumption == Ends \in BOOLEAN /\ TailCalls \in BOOLEAN
ASSUME MeasuredAssumption == Measured \subseteq Tasks
ASSUME MaxReturnsAssumption == MaxReturns \in Nat

VARIABLES
    hw,        \* the used part of page 1
    saved,     \* saved[t]: what saved_sp says is used of tasks[t].stack
    started,   \* started[t]: tasks[t].started
    running,   \* the task ctx_next pointed at in the last switch
    control,   \* "ok", or how an RTS went wrong: "astray", "wild"
    soft,      \* how many words the compiler's own stack holds
    mark,      \* mark[t]: task_max_stack, in return addresses
    chain,     \* history: the calls each task has not returned from
    base,      \* history: base[t]: what soft was when the task was entered
    returns    \* history: how many task functions have returned

vars == <<hw, saved, started, running, control, soft, mark, chain, base, returns>>

Contexts == Tasks \cup {Main}
Callees  == Sites \cup {"start_task", "fn", "sleep", "yield", "task_return", "ctx_switch"}
\* Entry, calls of the task's own, and the calls from there to ctx_switch.
DeepestWait == 2 + Depth + 3
Stacks   == Seq(Contexts \X Callees)

TypeOK ==
    /\ hw \in Stacks
    /\ saved \in [Contexts -> Stacks]
    /\ started \in [Tasks -> BOOLEAN]
    /\ running \in Contexts
    /\ control \in {"ok", "astray", "wild"}
    /\ soft \in Nat /\ base \in [Tasks -> Nat]
    /\ mark \in [Tasks -> 0 .. DeepestWait]
    /\ chain \in [Contexts -> Stacks]
    /\ returns \in 0 .. MaxReturns
    /\ Len(hw) <= DeepestWait /\ \A t \in Contexts : Len(saved[t]) <= DeepestWait

-----------------------------------------------------------------------------
Word(t, callee) == <<t, callee>>

\* The return addresses pushed between a waiting task and ctx_switch.
Gate(t, wait) ==
    (IF wait = "sleep" THEN <<Word(t, "sleep")>> ELSE <<>>)
        \o <<Word(t, "yield"), Word(t, "ctx_switch")>>

\* What is on the stack in a new task's function: the trampoline called
\* scheduler_start_task, which called fn.
EntryOnTop(t) == hw \o <<Word(t, "start_task"), Word(t, "fn")>>
Entry(t)      == <<Word(t, "start_task"), Word(t, "fn")>>

\* The words a function keeps on the compiler's stack until it returns: its
\* argument and its local variables.
Words(callee) ==
    CASE callee = "yield"                        -> 2   \* prev, next
      [] callee = "sleep"                        -> 1   \* delta
      [] callee = "start_task"                   -> 1   \* t
      [] callee \in {"task_return", "ctx_switch"} -> 0
      [] OTHER                                   -> 1   \* what is the task's own
\* The words of a sequence of calls, each named by its call and a number.
Kept(calls)    == {word \in (1 .. Len(calls)) \X (1 .. 2) : word[2] <= Words(calls[word[1]][2])}
WordsOf(calls) == Cardinality(Kept(calls))

\* The first half of scheduler_copy_stacks.
SaveShort(stack) == Front(stack)
Save(stack)      == stack

\* The second half, and the RTS instructions after it.  The copy of a stack
\* one deeper than the saved one puts that stack's own top where the copier's
\* return address was: its RTS does what ctx_switch's would have done.  A
\* copy two or more deeper makes it return into a caller of the resumed
\* function, unless a helper the copy loop calls is hit first.
RestoreTop(depth, stack) == {<<"ok", stack>>}
Restore(depth, stack) ==
    IF Len(stack) <= depth + 1
      THEN {<<"ok", Front(stack)>>}
      ELSE {<<"astray", SubSeq(stack, 1, depth)>>, <<"wild", <<>>>>}

\* ctx_switch, called with the stack `stack` in use and `words` on the other;
\* `calls` is what the history says of the running task from now on.
CtxSwitch(next, stack, words, calls) ==
    /\ saved' = [saved EXCEPT ![running] = Save(stack)]
    /\ running' = next
    /\ IF started[next]
         THEN /\ \E r \in Restore(Len(stack), saved'[next]) : control' = r[1] /\ hw' = r[2]
              /\ chain' = [chain EXCEPT ![running] = calls,
                                        ![next] = IF next = running THEN Front(calls)
                                                                    ELSE Front(@)]
              /\ soft' = words
              /\ UNCHANGED <<started, base>>
         ELSE /\ hw' = Entry(next)
              /\ control' = "ok"
              /\ chain' = [chain EXCEPT ![running] = calls, ![next] = Entry(next)]
              /\ started' = [started EXCEPT ![next] = TRUE]
              /\ soft' = words + WordsOf(Entry(next))
              /\ base' = [base EXCEPT ![next] = words]
    /\ UNCHANGED mark

-----------------------------------------------------------------------------
\* The running task executes its own code, not the scheduler's.
InTask == control = "ok" /\ running \in Tasks /\ Last(hw)[2] \in Sites \cup {"fn"}

Call(site) ==
    /\ InTask /\ Len(hw) < Len(Entry(running)) + Depth
    /\ hw' = Append(hw, Word(running, site))
    /\ chain' = [chain EXCEPT ![running] = Append(@, Word(running, site))]
    /\ soft' = soft + Words(site)
    /\ UNCHANGED <<saved, started, running, control, mark, base, returns>>

\* Any function but the task's outermost one returns.
Return ==
    /\ control = "ok" /\ running \in Tasks /\ Len(hw) > Len(Entry(running))
    /\ hw' = Front(hw)
    /\ chain' = [chain EXCEPT ![running] = Front(@)]
    /\ soft' = soft - Words(Last(hw)[2])
    /\ UNCHANGED <<saved, started, running, control, mark, base, returns>>

\* scheduler_sleep and scheduler_yield; which task comes next is Scheduler's
\* business, any of them here.
Wait(wait, next) ==
    /\ InTask /\ <<wait, Len(hw) - Len(Entry(running))>> \in Waits
    /\ CtxSwitch(next, hw \o Gate(running, wait), soft + WordsOf(Gate(running, wait)),
                 chain[running] \o Gate(running, wait))
    /\ UNCHANGED returns

\* fn returns; its caller calls scheduler_task_return, whose last act is to
\* call scheduler_yield.  The slot is free: scheduler_add may set it up anew
\* for the switch that enters it.  What scheduler_start_task and
\* scheduler_yield keep on the compiler's stack stays there.
TaskReturnCalled(next) ==
    /\ InTask /\ Ends /\ Last(hw)[2] = "fn" /\ next # running
    /\ returns < MaxReturns /\ returns' = returns + 1
    /\ CtxSwitch(next,
                 Front(hw) \o <<Word(running, "task_return")>>
                           \o (IF TailCalls THEN <<>> ELSE <<Word(running, "yield")>>)
                           \o <<Word(running, "ctx_switch")>>,
                 soft + Words("yield"),
                 <<>>)
TaskReturn(next) ==
    /\ InTask /\ Ends /\ Last(hw)[2] = "fn" /\ next # running
    /\ returns < MaxReturns /\ returns' = returns + 1
    /\ CtxSwitch(next,
                 Front(hw) \o <<Word(running, "task_return")>>
                           \o (IF TailCalls THEN <<>> ELSE <<Word(running, "yield")>>)
                           \o <<Word(running, "ctx_switch")>>,
                 soft - Words("fn") + Words("yield"),
                 <<>>)

\* scheduler_add on the slot of a task that has returned.
Add(t) ==
    /\ t \in Tasks /\ t # running /\ started[t] /\ chain[t] = <<>>
    /\ started' = [started EXCEPT ![t] = FALSE]
    /\ saved' = [saved EXCEPT ![t] = <<>>]
    /\ UNCHANGED <<hw, running, control, soft, mark, chain, base, returns>>

\* scheduler_task_stack_used, from whatever task: what was saved last, and only
\* here the mark is set.
Measure(t) ==
    /\ InTask /\ Len(saved[t]) > mark[t]
    /\ mark' = [mark EXCEPT ![t] = Len(saved[t])]
    /\ UNCHANGED <<hw, saved, started, running, control, soft, chain, base, returns>>

\* scheduler_run: main()'s own stack is saved and never resumed.
Run(first) ==
    /\ running = Main
    /\ CtxSwitch(first, <<Word(Main, "ctx_switch")>>, 0, <<>>)
    /\ UNCHANGED returns

Live(t) == started[t] => chain[t] # <<>>

\* Where the processor is after an RTS gone wrong is not followed further.
Lost == control # "ok" /\ UNCHANGED vars

Init ==
    /\ hw = <<>>
    /\ saved = [t \in Contexts |-> <<>>]
    /\ started = [t \in Tasks |-> FALSE]
    /\ running = Main
    /\ control = "ok"
    /\ chain = [t \in Contexts |-> <<>>]
    /\ soft = 0 /\ base = [t \in Tasks |-> 0] /\ returns = 0
    /\ mark = [t \in Tasks |-> 0]

Next ==
    \/ \E site \in Sites : Call(site)
    \/ Return
    \/ \E wait \in {"sleep", "yield"}, next \in Tasks : Live(next) /\ Wait(wait, next)
    \/ \E next \in Tasks : Live(next) /\ TaskReturn(next)
    \/ \E t \in Tasks : Add(t)
    \/ \E t \in Measured : Measure(t)
    \/ \E first \in Tasks : Run(first)
    \/ Lost

Spec == Init /\ [][Next]_vars

-----------------------------------------------------------------------------
\* "resumed task: return to saved PC by RTS": the processor is where the
\* running task left off, with the calls it has still to return from on the
\* stack, and nothing else.
ResumesWhereItLeft == control = "ok" /\ (running \in Tasks => hw = chain[running])

\* Only the end of a task function loses a task, and only one that sleeps: every
\* wait, and every end that goes on with a task that has yielded or is new,
\* leaves the processor where the task it picks left off.
Slept(calls) == \E j \in DOMAIN calls : calls[j][2] = "sleep"
OnlyReturnsGoAstray ==
    [][ResumesWhereItLeft =>
          \/ ResumesWhereItLeft'
          \/ returns' # returns /\ Slept(saved[running])']_vars

\* The stack of every waiting task survives in its buffer whatever the others
\* call, sleep in or return from meanwhile.
BuffersIntact ==
    \A t \in Tasks : (t # running /\ started[t] /\ chain[t] # <<>>) => saved[t] = chain[t]

\* The compiler's stack holds what the calls in progress keep on it, whoever
\* pushed and popped it in which order, and three words more for every task
\* that has returned: it neither runs dry nor grows with the switches.
LeakOnly(n)  == 3 * n
SoftBalanced ==
    soft = LeakOnly(returns) + Cardinality(UNION {{t} \X Kept(chain[t]) : t \in Contexts})

\* "This will switch contexts and return when resumed" (scheduler.c:183): a
\* task that goes on finds its arguments and local variables where it left
\* them.
FindsItsLocals == InTask => soft = base[running] + WordsOf(chain[running])

=============================================================================
