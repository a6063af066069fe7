------------------------------- MODULE Demos -------------------------------
(***************************************************************************)
(* The demonstration programs of the tasking facilities: message queue,    *)
(* binary, mutual-exclusion and counting semaphores, the thread-safe       *)
(* queue, pipe server with recovery from exceptions, select, watchdog      *)
(* deadline, and shared memory.  A behaviour runs one of the programs      *)
(* once, from the state after loading.                                     *)
(*                                                                         *)
(* A step is one call of the kernel and what the task does up to the next  *)
(* one.  A delay lasts for any time, except in the two programs that are   *)
(* about time: there the clock ticks once nobody is ready.                 *)
(***************************************************************************)
EXTENDS Integers, Sequences, SequencesExt, FiniteSets

CONSTANTS
    Programs,       \* the programs that are run
    Rounds,         \* numMsg, numTimes, NUM_ITEMS and NUM_OF_GIVES
    PipeSize,       \* NUM_MSGS and MAX_NUM_MSG of the pipes, qsize
    MaxRequests,    \* bound on the requests to the server and to select
    Deadline        \* DEADLINE_TIME

VARIABLES
    prog,       \* the program
    pc,         \* pc[t]: where its task t is
    turns,        \* turns[t]: turns of t's loop
    q,          \* q[p]: the messages in queue or pipe p
    sem,        \* sem[s]: the count of semaphore s
    shmem,      \* the memory that the tasks share
    timer,      \* timer[x]: ticks left; -1 if not running
    log         \* log[p]: what came out of p, in order

demoVars == <<prog, pc, turns, q, sem, shmem, timer, log>>

TaskNames == {"main", "producer", "consumer", "A", "B"}

DemoInit ==
    /\ prog \in Programs
    /\ pc = [t \in TaskNames |-> IF t = "main" THEN "start" ELSE "none"]
    /\ turns = [t \in TaskNames |-> 0]
    /\ q = [p \in {"1", "2"} |-> <<>>] /\ log = [p \in {"1", "2"} |-> <<>>]
    /\ sem = [s \in {"1", "2"} |-> 0]
    /\ shmem = [live |-> FALSE, notDone |-> TRUE, count |-> 0, status |-> "CONSUMED", items |-> 0, item |-> 0, ready |-> {}]
    /\ timer = [x \in {"wd", "producer", "consumer", "main"} |-> -1]

Go(t, from, to) == pc[t] = from /\ pc' = [pc EXCEPT ![t] = to]
semTake(s) == sem[s] > 0 /\ sem' = [sem EXCEPT ![s] = @ - 1]
Give(s, most) == sem' = [sem EXCEPT ![s] = IF @ < most THEN @ + 1 ELSE @]
Turn(t) == turns' = [turns EXCEPT ![t] = @ + 1]

(***************************************************************************)
(* msgQDemo, synchronizeDemo and mutexSemDemo: create, spawn two tasks,    *)
(* wait until notDone is cleared, delete.                                  *)
(***************************************************************************)
Paired == {"msgQ", "synchronize", "mutexSem"}
Spawned == CASE prog = "msgQ" -> <<"producer", "consumer">> [] prog = "synchronize" -> <<"A", "B">>
             [] OTHER -> <<"consumer", "producer">>

\* mutexSemDemo: the consumer has priority 98, the producer 99, the rest 100.
ConsumerReady ==
    /\ prog = "mutexSem" /\ pc["consumer"] \notin {"none", "delay", "end"}
    /\ pc["consumer"] \in {"init", "take"} => sem["1"] = 1
ProducerReady ==
    /\ prog = "mutexSem" /\ pc["producer"] \notin {"none", "delay", "end"}
    /\ pc["producer"] = "take" => sem["1"] = 1

Create(ok) ==
    /\ prog \in Paired /\ Go("main", "start", IF ok THEN "spawn1" ELSE "error")
    /\ sem' = [sem EXCEPT !["1"] = IF ok /\ prog # "msgQ" THEN 1 ELSE @]
    /\ shmem' = [shmem EXCEPT !.live = ok]
    /\ UNCHANGED <<prog, turns, q, timer, log>>

Spawn(i, ok) ==
    /\ prog \in Paired /\ pc["main"] = <<"spawn1", "spawn2">>[i] /\ ~ConsumerReady
    /\ pc' = IF ~ok THEN [pc EXCEPT !["main"] = "error"]
             ELSE [pc EXCEPT !["main"] = <<"spawn2", "wait">>[i],
                             ![Spawned[i]] = IF prog = "mutexSem" /\ i = 1 THEN "init" ELSE "take"]
    /\ UNCHANGED <<prog, turns, q, sem, shmem, timer, log>>

Delete ==
    /\ prog \in Paired /\ ~shmem.notDone /\ ~ConsumerReady /\ ~ProducerReady /\ Go("main", "wait", "deleted")
    /\ shmem' = [shmem EXCEPT !.live = FALSE]
    /\ UNCHANGED <<prog, turns, q, sem, timer, log>>

producerTask ==
    /\ prog = "msgQ" /\ Len(q["1"]) < Rounds
    /\ Go("producer", "take", IF turns["producer"] + 1 = Rounds THEN "end" ELSE "take") /\ Turn("producer")
    /\ q' = [q EXCEPT !["1"] = Append(@, turns["producer"] + 1)]
    /\ UNCHANGED <<prog, sem, shmem, timer, log>>

consumerTask ==
    /\ prog = "msgQ" /\ q["1"] # <<>>
    /\ Go("consumer", "take", IF turns["consumer"] + 1 = Rounds THEN "end" ELSE "take") /\ Turn("consumer")
    /\ q' = [q EXCEPT !["1"] = Tail(@)] /\ log' = [log EXCEPT !["1"] = Append(@, Head(q["1"]))]
    /\ shmem' = [shmem EXCEPT !.notDone = turns["consumer"] + 1 # Rounds]
    /\ UNCHANGED <<prog, sem, timer>>

\* taskA takes semId1 and gives semId2, taskB the reverse.
Take(t, s) ==
    /\ prog = "synchronize" /\ Go(t, "take", "give") /\ semTake(s)
    /\ log' = [log EXCEPT !["1"] = Append(@, t)]
    /\ UNCHANGED <<prog, turns, q, shmem, timer>>
GiveTo(t, s) ==
    /\ prog = "synchronize" /\ Give(s, 1) /\ Turn(t)
    /\ Go(t, "give", IF turns[t] + 1 = Rounds THEN "end" ELSE "take")
    /\ shmem' = [shmem EXCEPT !.notDone = t = "A" \/ turns[t] + 1 # Rounds]
    /\ UNCHANGED <<prog, q, timer, log>>
taskA == Take("A", "1") \/ GiveTo("A", "2")
taskB == Take("B", "2") \/ GiveTo("B", "1")

protectSharedResource(t, from, to) ==
    /\ prog = "mutexSem" /\ (t = "producer" => ~ConsumerReady) /\ Go(t, from, to) /\ semTake("1")
    /\ UNCHANGED <<prog, turns, q, shmem, timer, log>>

\* what is done under the semaphore, and its release
Produced ==
    /\ prog = "mutexSem" /\ ~ConsumerReady /\ Give("1", 1)
    /\ Go("producer", "in", "delay")
    /\ IF shmem.status = "CONSUMED"
       THEN /\ Turn("producer")
            /\ shmem' = [shmem EXCEPT !.count = turns["producer"] + 1, !.status = "PRODUCED"]
       ELSE UNCHANGED <<turns, shmem>>
    /\ UNCHANGED <<prog, q, timer, log>>

Consumed ==
    LET there == shmem.status = "PRODUCED" /\ shmem.count > 0 IN
    /\ prog = "mutexSem" /\ Give("1", 1)
    /\ Go("consumer", "in", IF shmem.count >= Rounds THEN "end" ELSE "delay")
    /\ log' = [log EXCEPT !["1"] = IF there THEN Append(@, shmem.count) ELSE @]
    /\ shmem' = [shmem EXCEPT !.status = IF there THEN "CONSUMED" ELSE @, !.notDone = shmem.count < Rounds]
    /\ UNCHANGED <<prog, turns, q, timer>>

ConsumerInit ==
    /\ prog = "mutexSem" /\ Go("consumer", "inInit", "delay") /\ Give("1", 1)
    /\ shmem' = [shmem EXCEPT !.status = "CONSUMED"]
    /\ UNCHANGED <<prog, turns, q, timer, log>>

\* taskDelay; the producer looks at its count before it takes the semaphore again.
Delayed(t) ==
    /\ prog = "mutexSem" /\ (t = "producer" => ~ConsumerReady)
    /\ Go(t, "delay", IF t = "producer" /\ turns[t] = Rounds THEN "end" ELSE "take")
    /\ UNCHANGED <<prog, turns, q, sem, shmem, timer, log>>

ProducerTask ==
    protectSharedResource("producer", "take", "in") \/ Produced \/ Delayed("producer")
ConsumerTask ==
    \/ protectSharedResource("consumer", "init", "inInit") \/ ConsumerInit
    \/ protectSharedResource("consumer", "take", "in") \/ Consumed \/ Delayed("consumer")

\* the three main routines
Main(p) == prog = p /\ ((\E ok \in BOOLEAN : Create(ok) \/ (\E i \in {1, 2} : Spawn(i, ok))) \/ Delete)
msgQDemo == Main("msgQ")
synchronizeDemo == Main("synchronize")
mutexSemDemo == Main("mutexSem")

(***************************************************************************)
(* The thread-safe queue: testQ with its reader and its writer.  An        *)
(* operation of QueueT counts first and links afterwards.                  *)
(***************************************************************************)
SharedOp(t, from, to) ==
    /\ prog = "sharedQ" /\ Go(t, from, to) /\ semTake("1")
    /\ UNCHANGED <<prog, turns, q, shmem, timer, log>>

testQ ==
    /\ prog = "sharedQ" /\ pc["main"] = "start"
    /\ pc' = [pc EXCEPT !["main"] = "end", !["producer"] = "idle", !["consumer"] = "idle"]
    /\ sem' = [sem EXCEPT !["1"] = 1]
    /\ UNCHANGED <<prog, turns, q, shmem, timer, log>>

\* fullQueue() and ++items; no memory for the node if ~ok
enQueue(ok) ==
    LET may == shmem.items < PipeSize /\ ok IN
    /\ prog = "sharedQ" /\ Go("producer", "in", IF may THEN "link" ELSE "give")
    /\ shmem' = [shmem EXCEPT !.items = IF may THEN @ + 1 ELSE @]
    /\ UNCHANGED <<prog, turns, q, sem, timer, log>>
Link ==
    /\ prog = "sharedQ" /\ Go("producer", "link", "give")
    /\ turns' = [turns EXCEPT !["producer"] = (@ + 1) % Rounds] /\ q' = [q EXCEPT !["1"] = Append(@, turns["producer"])]
    /\ UNCHANGED <<prog, sem, shmem, timer, log>>

\* the item is copied and --items
deQueue ==
    /\ prog = "sharedQ" /\ Go("consumer", "in", IF q["1"] = <<>> THEN "give" ELSE "unlink")
    /\ shmem' = IF q["1"] = <<>> THEN shmem ELSE [shmem EXCEPT !.items = @ - 1, !.item = Head(q["1"])]
    /\ UNCHANGED <<prog, turns, q, sem, timer, log>>
Unlink ==
    /\ prog = "sharedQ" /\ Go("consumer", "unlink", "give")
    /\ turns' = [turns EXCEPT !["consumer"] = (@ + 1) % Rounds] /\ q' = [q EXCEPT !["1"] = IF shmem.items = 0 THEN <<>> ELSE Tail(@)]
    /\ log' = [log EXCEPT !["1"] = <<shmem.item, turns["consumer"]>>]
    /\ UNCHANGED <<prog, sem, shmem, timer>>

Leave(t) ==
    /\ prog = "sharedQ" /\ Go(t, "give", "idle") /\ Give("1", 1)
    /\ UNCHANGED <<prog, turns, q, shmem, timer, log>>

\* sharedEnQ and sharedDeQ, again and again
StringWriter ==
    \/ SharedOp("producer", "idle", "in") \/ (\E ok \in BOOLEAN : enQueue(ok)) \/ Link \/ Leave("producer")
StringReader == SharedOp("consumer", "idle", "in") \/ deQueue \/ Unlink \/ Leave("consumer")

(***************************************************************************)
(* pipeServer, and recoverExcDemo, whose server recovers from a routine    *)
(* that faults.                                                            *)
(***************************************************************************)
Servers == {"pipeServer", "recoverExc"}

serverStart ==
    /\ prog \in Servers /\ Go("main", "start", "up") /\ UNCHANGED <<prog, turns, q, sem, shmem, timer, log>>

serverSend(routine) ==
    /\ prog \in Servers /\ pc["main"] = "up" /\ turns["main"] < MaxRequests /\ Len(q["1"]) < PipeSize /\ Turn("main")
    /\ q' = [q EXCEPT !["1"] = Append(@, [routine |-> routine, arg |-> turns["main"] + 1])]
    /\ UNCHANGED <<prog, pc, sem, shmem, timer, log>>

\* read and call; a fault ends the task, or sigHandler jumps back to the loop.
Serve ==
    LET m == Head(q["1"]) IN
    /\ prog \in Servers /\ q["1"] # <<>> /\ pc["A"] = "none" /\ pc["main"] = "up"
    /\ q' = [q EXCEPT !["1"] = Tail(@)] /\ log' = [log EXCEPT !["1"] = Append(@, m.arg)]
    /\ pc' = [pc EXCEPT !["A"] = IF m.routine = "faults" /\ prog = "pipeServer" THEN "end" ELSE "none"]
    /\ UNCHANGED <<prog, turns, sem, shmem, timer>>

Server(p) == prog = p /\ (serverStart \/ Serve \/ \E r \in {"returns", "faults"} : serverSend(r))
pipeServer == Server("pipeServer")
recoverExcDemo == Server("recoverExc")

(***************************************************************************)
(* selectDemo: a task that waits on two pipes.                             *)
(***************************************************************************)
selectDemo(choice) ==
    LET pipes == CASE choice = 1 -> {"1"} [] choice = 2 -> {"2"} [] choice = 3 -> {"1", "2"} [] OTHER -> {"1"} IN
    /\ prog = "select" /\ turns["main"] < MaxRequests /\ \A p \in pipes : Len(q[p]) < PipeSize
    /\ Go("main", "start", IF choice = 0 THEN "close" ELSE "start") /\ Turn("main")
    /\ q' = [p \in DOMAIN q |-> IF p \in pipes THEN Append(q[p], IF choice = 0 THEN 0 ELSE turns["main"] + 1) ELSE q[p]]
    /\ UNCHANGED <<prog, sem, shmem, timer, log>>

Select ==
    LET ready == {p \in DOMAIN q : q[p] # <<>>} IN
    /\ prog = "select" /\ ready # {} /\ Go("A", "none", "read1")
    /\ shmem' = [shmem EXCEPT !.ready = ready]
    /\ UNCHANGED <<prog, turns, q, sem, timer, log>>

ReadPipe(p, from, to) ==
    /\ prog = "select" /\ Go("A", from, to)
    /\ IF p \in shmem.ready
       THEN /\ q[p] # <<>>
            /\ log' = [log EXCEPT ![p] = Append(@, Head(q[p]))] /\ q' = [q EXCEPT ![p] = Tail(@)]
            /\ shmem' = [shmem EXCEPT !.notDone = IF Head(q[p]) = 0 THEN FALSE ELSE @]
       ELSE UNCHANGED <<log, q, shmem>>
    /\ UNCHANGED <<prog, turns, sem, timer>>

selectOnReadFds ==
    \/ Select \/ ReadPipe("1", "read1", "read2")
    \/ ReadPipe("2", "read2", IF shmem.notDone THEN "none" ELSE "end")

(***************************************************************************)
(* Programs about time.  countingSemDemo: the interrupt gives the          *)
(* semaphore once per tick, the task works two ticks for each.             *)
(* deadlineWdDemo: the coordinator is idle one tick longer each time until *)
(* the organizer's watchdog resets it.                                     *)
(***************************************************************************)
Expire(x) == timer[x] = 0
NobodyReady ==
    /\ \A x \in DOMAIN timer : timer[x] # 0
    /\ prog \in {"counting", "binary"} => ~(pc["A"] = "take" /\ sem["1"] > 0)
    /\ prog = "deadline" => ~(pc["A"] = "receive" /\ q["1"] # <<>>) /\ pc["A"] # "start"

Tick ==
    /\ prog \in {"counting", "binary", "deadline"} /\ pc["main"] = "wait" /\ NobodyReady
    /\ timer' = [x \in DOMAIN timer |-> IF timer[x] > 0 THEN timer[x] - 1 ELSE timer[x]]
    /\ UNCHANGED <<prog, pc, turns, q, sem, shmem, log>>

countingSemDemo ==
    /\ prog \in {"counting", "binary"} /\ pc["main"] = "start"
    /\ pc' = [pc EXCEPT !["main"] = "wait", !["A"] = "take"]
    /\ timer' = [timer EXCEPT !["wd"] = 1, !["main"] = 4 * Rounds]
    /\ UNCHANGED <<prog, turns, q, sem, shmem, log>>

syncISR ==
    /\ prog \in {"counting", "binary"} /\ Expire("wd") /\ Turn("main")
    /\ Give("1", IF prog = "binary" THEN 1 ELSE Rounds)
    /\ timer' = [timer EXCEPT !["wd"] = IF turns["main"] + 1 < Rounds THEN 1 ELSE -1]
    /\ UNCHANGED <<prog, pc, q, shmem, log>>

syncTask ==
    /\ prog \in {"counting", "binary"} /\ timer["wd"] # 0
    /\ \/ Go("A", "take", "work") /\ semTake("1") /\ timer' = [timer EXCEPT !["consumer"] = 2] /\ UNCHANGED turns
       \/ Go("A", "work", "take") /\ Expire("consumer") /\ Turn("A") /\ timer' = [timer EXCEPT !["consumer"] = -1] /\ UNCHANGED sem
    /\ UNCHANGED <<prog, q, shmem, log>>

cleanUp ==
    /\ prog \in {"counting", "binary"} /\ Expire("main") /\ pc["main"] = "wait"
    /\ pc' = [pc EXCEPT !["main"] = "deleted", !["A"] = "end"]
    /\ timer' = [x \in DOMAIN timer |-> -1]
    /\ UNCHANGED <<prog, turns, q, sem, shmem, log>>

\* It runs for four times the deadline.
deadlineWdDemo ==
    /\ prog = "deadline" /\ pc["main"] = "start"
    /\ pc' = [pc EXCEPT !["main"] = "wait", !["A"] = "start"]
    /\ timer' = [timer EXCEPT !["producer"] = 0, !["main"] = 4 * Deadline]
    /\ UNCHANGED <<prog, turns, q, sem, shmem, log>>

\* The queue and the watchdog are deleted: the organizer's msgQReceive fails,
\* the coordinator ends after its delay.
StopDeadline ==
    /\ prog = "deadline" /\ Expire("main") /\ pc["main"] = "wait"
    /\ pc' = [pc EXCEPT !["main"] = "deleted", !["A"] = "end"]
    /\ timer' = [x \in DOMAIN timer |-> -1]
    /\ UNCHANGED <<prog, turns, q, sem, shmem, log>>

\* Interrupts come before the tasks.
coordinatorTask ==
    /\ prog = "deadline" /\ Expire("producer") /\ timer["wd"] # 0
    /\ shmem' = [shmem EXCEPT !.count = @ + 1]
    /\ q' = [q EXCEPT !["1"] = Append(@, shmem.count + 1)]
    /\ timer' = [timer EXCEPT !["producer"] = shmem.count + 1]
    /\ UNCHANGED <<prog, pc, turns, sem, log>>

organizerTask ==
    /\ prog = "deadline" /\ timer["wd"] # 0
    /\ \/ Go("A", "start", "receive") /\ timer' = [timer EXCEPT !["wd"] = Deadline] /\ UNCHANGED <<q, log>>
       \/ /\ Go("A", "receive", "start") /\ q["1"] # <<>> /\ UNCHANGED timer
          /\ q' = [q EXCEPT !["1"] = Tail(@)] /\ log' = [log EXCEPT !["1"] = <<Head(q["1"])>>]
    /\ UNCHANGED <<prog, turns, sem, shmem>>

deadlineHandler ==
    /\ prog = "deadline" /\ Expire("wd")
    /\ shmem' = [shmem EXCEPT !.count = 0] /\ timer' = [timer EXCEPT !["wd"] = -1]
    /\ UNCHANGED <<prog, pc, turns, q, sem, log>>

(***************************************************************************)
(* Processors that share memory.  buffSend and memPartSend publish the     *)
(* name of the buffer before its content is written; its semaphore is      *)
(* empty until then.  semTask1 publishes a full semaphore and takes it.    *)
(* With ~ok an object is not created or its name not added.                *)
(***************************************************************************)
\* Mutant: every semaphore starts full.
Publish_Full(ok) ==
    /\ Go("main", "start", IF ok THEN "write" ELSE "end")
    /\ shmem' = [shmem EXCEPT !.live = ok] /\ sem' = [sem EXCEPT !["1"] = IF ok THEN 1 ELSE 0]

Publish(ok) ==
    /\ Go("main", "start", IF ok THEN "write" ELSE "end")
    /\ shmem' = [shmem EXCEPT !.live = ok] /\ sem' = [sem EXCEPT !["1"] = IF ok /\ prog = "smSem" THEN 1 ELSE 0]

Sender(p) ==
    /\ prog = p
    /\ \/ \E ok \in BOOLEAN : Publish(ok)
       \/ Go("main", "write", "give") /\ shmem' = [shmem EXCEPT !.item = 1] /\ UNCHANGED sem
       \/ Go("main", "give", "end") /\ Give("1", 1) /\ UNCHANGED shmem
    /\ UNCHANGED <<prog, turns, q, timer, log>>

\* smNameFind waits for the name.
Receiver(p, t) ==
    /\ prog = p
    /\ \/ Go(t, "none", "take") /\ shmem.live /\ UNCHANGED <<sem, log>>
       \/ Go(t, "take", "give") /\ semTake("1") /\ log' = [log EXCEPT !["1"] = Append(@, shmem.item)]
       \/ Go(t, "give", "end") /\ Give("1", 1) /\ UNCHANGED log
    /\ UNCHANGED <<prog, turns, q, shmem, timer>>

buffSend == Sender("buff")
buffReceive(t) == Receiver("buff", t)
memPartSend == Sender("memPart")
memPartReceive(t) == Receiver("memPart", t)

semTask1 ==
    /\ prog = "smSem"
    /\ \/ \E ok \in BOOLEAN : Publish(ok)
       \/ Go("main", "write", "give") /\ semTake("1") /\ UNCHANGED shmem
       \/ Go("main", "give", "end") /\ Give("1", 1) /\ UNCHANGED shmem
    /\ UNCHANGED <<prog, turns, q, timer, log>>
semTask2(t) == Receiver("smSem", t)

DemoNext ==
    \/ msgQDemo \/ producerTask \/ consumerTask \/ synchronizeDemo \/ taskA \/ taskB
    \/ mutexSemDemo \/ ProducerTask \/ ConsumerTask
    \/ testQ \/ StringReader \/ StringWriter
    \/ pipeServer \/ recoverExcDemo
    \/ selectOnReadFds \/ \E choice \in 0 .. 3 : selectDemo(choice)
    \/ Tick \/ countingSemDemo \/ syncISR \/ syncTask \/ cleanUp
    \/ deadlineWdDemo \/ StopDeadline \/ coordinatorTask \/ organizerTask \/ deadlineHandler
    \/ buffSend \/ memPartSend \/ semTask1
    \/ \E t \in {"A", "B"} : buffReceive(t) \/ memPartReceive(t) \/ semTask2(t)

Upto(n) == [i \in 1 .. n |-> i]

\* Items are consumed once and in the order in which they were produced, and
\* nothing is deleted before the last of them (msgQDemo, mutexSemDemo); taskA
\* and taskB alternate (synchronizeDemo); what is read from the thread-safe
\* queue is what was written next, and its count is right whenever the
\* semaphore is free; the server and selectOnReadFds take every message once
\* and in order and never wait in read; the counting semaphore loses no event;
\* the coordinator never waits longer than the deadline; a receiver of the
\* shared buffer reads it after it was written, and one task at a time holds
\* the shared semaphore.
DemosCorrect ==
    /\ prog \in {"msgQ", "mutexSem", "recoverExc", "pipeServer"} => log["1"] = Upto(Len(log["1"]))
    /\ prog \in {"msgQ", "mutexSem"} /\ pc["main"] = "deleted" =>
           Len(log["1"]) = Rounds /\ pc["consumer"] = "end" /\ pc["producer"] \in {"delay", "end"} /\ turns["producer"] = Rounds
    /\ prog = "synchronize" =>
           /\ \A i \in DOMAIN log["1"] : log["1"][i] = IF i % 2 = 1 THEN "A" ELSE "B"
           /\ pc["main"] = "deleted" => pc["A"] = "end" /\ pc["B"] = "end"
    /\ prog = "sharedQ" =>
           /\ log["1"] # <<>> => log["1"][1] = log["1"][2]
           /\ sem["1"] = 1 => shmem.items = Len(q["1"])
    /\ prog = "select" =>
           /\ \A p \in {"1", "2"} : \A i, j \in DOMAIN log[p] : i < j => log[p][i] < log[p][j] \/ log[p][j] = 0
           /\ pc["A"] = "read1" => \A p \in shmem.ready : q[p] # <<>>
           /\ pc["A"] = "end" => q["1"] = <<>>
    /\ prog = "counting" /\ pc["main"] = "deleted" => turns["A"] = Rounds
    /\ prog = "deadline" => shmem.count <= Deadline
    /\ prog \in {"buff", "memPart"} => \A i \in DOMAIN log["1"] : log["1"][i] = 1
    /\ prog = "smSem" => Cardinality({t \in {"main", "A", "B"} : pc[t] = "give"}) <= 1
=============================================================================
